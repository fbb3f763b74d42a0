------------------------- MODULE MCConversationSync -------------------------
(***************************************************************************)
(* Instance of ConversationSync for TLC: two chats, one row and two calls *)
(* in flight.  The second chat can get the row of the first, a save can    *)
(* overlap a select, a rename, a deletion or another save, and a list can  *)
(* change twice while it is being saved.                                   *)
(***************************************************************************)
EXTENDS ConversationSync

=============================================================================
