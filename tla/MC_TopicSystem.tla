---------------------------- MODULE MC_TopicSystem ----------------------------
(* One topic.  The two threads of one client subscribe and cancel, and one of *)
(* them publishes too, so that a client gets what it publishes; the thread of *)
(* another client creates, removes and publishes.                             *)
EXTENDS TopicSystem

CONSTANTS c1, c2, t1, th1, th2, th3

MCClientOf == [th \in {th1, th2, th3} |-> IF th = th3 THEN c2 ELSE c1]
MCAllowed == [th \in {th1, th2, th3} |->
  CASE th = th1 -> {"subscribe", "cancel", "publish"}
    [] th = th2 -> {"subscribe", "cancel"}
    [] th = th3 -> {"create", "remove", "publish"}]
=============================================================================
