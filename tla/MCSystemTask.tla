--------------------------- MODULE MCSystemTask ---------------------------
(* Small instances of SystemTask for TLC. *)
EXTENDS SystemTask
=============================================================================
