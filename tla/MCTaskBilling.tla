--------------------------- MODULE MCTaskBilling ---------------------------
(* Instances of TaskBilling for TLC: the platforms of each run. *)
EXTENDS TaskBilling

AllKinds == {"video", "gemini", "suno"}
GeminiOnly == {"gemini"}
=============================================================================
