---------------------------- MODULE MC_Requestor ----------------------------
(* Small instances of Requestor.                                           *)
EXTENDS Requestor, TLC

NoWaiting == {"async", "callback"}   \* callbacks make calls that do not wait
SyncOnly == {"sync"}                 \* callbacks make calls that wait
=============================================================================
