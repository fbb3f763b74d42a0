-------------------------- MODULE MCChatGeneration --------------------------
(***************************************************************************)
(* Instance of ChatGeneration for TLC: two replies and two requests, so    *)
(* that two models can be compared, a reply can be regenerated, a plain    *)
(* request that was stopped can answer during the one that came after it,  *)
(* and a select can answer in the middle of any of them.                   *)
(***************************************************************************)
EXTENDS ChatGeneration

=============================================================================
