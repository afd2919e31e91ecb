--------------------------------- MODULE Fifo ---------------------------------
(***************************************************************************)
(* What a connection promises in one direction: the messages that were     *)
(* sent are handled one at a time, each once, in the order of sending.     *)
(***************************************************************************)
EXTENDS Sequences, Naturals

CONSTANT Messages

VARIABLES
  sent,     \* messages sent so far
  handled   \* messages handled so far

Init == sent = <<>> /\ handled = <<>>

Send(m) == sent' = Append(sent, m) /\ UNCHANGED handled

Handle ==
  /\ Len(handled) < Len(sent)
  /\ handled' = Append(handled, sent[Len(handled) + 1])
  /\ UNCHANGED sent

Next == Handle \/ \E m \in Messages : Send(m)

Spec == Init /\ [][Next]_<<sent, handled>>
=============================================================================
