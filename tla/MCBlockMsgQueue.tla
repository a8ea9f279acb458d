--------------------------- MODULE MCBlockMsgQueue ---------------------------
(***************************************************************************)
(* BlockMsgQueue as the storage and session threads use it: one receiving  *)
(* thread, which may also reset the queue, and any number of senders       *)
(* (senders do not differ, since a send is one step).                      *)
(***************************************************************************)
EXTENDS BlockMsgQueue

CONSTANTS m1, m2, zero, big, sender, reader
=============================================================================
