------------------------------- MODULE Resolver -------------------------------
(***************************************************************************)
(* What a discovery promises, with no cache, lock or messages.  A call     *)
(* either takes a host at which its service was registered at some time,   *)
(* or it asks; then it looks at the list of the moment, once, between its  *)
(* asking and its end: it takes a host of that list, and fails only if the *)
(* list was empty.  What it saw can be lost on the way to it; without      *)
(* another look it asks for ever.                                          *)
(***************************************************************************)

CONSTANTS Calls, Methods, Hosts, None

VARIABLES
  offers,   \* <<service, host>> that have been registered
  current,  \* those that are registered now
  service,  \* the service each call is for
  stage,    \* how far each call has got
  seen,     \* the hosts a call saw when it looked
  found     \* the host it has taken

resolverVars == <<offers, current, service, stage, seen, found>>

Init ==
  /\ offers = {}
  /\ current = {}
  /\ service \in [Calls -> Methods]
  /\ stage = [c \in Calls |-> "idle"]
  /\ seen = [c \in Calls |-> {}]
  /\ found = [c \in Calls |-> None]

Offer(m, h) ==
  /\ offers' = offers \cup {<<m, h>>}
  /\ current' = current \cup {<<m, h>>}
  /\ UNCHANGED <<service, stage, seen, found>>

End(m, h) ==
  /\ current' = current \ {<<m, h>>}
  /\ UNCHANGED <<offers, service, stage, seen, found>>

Step(c, from, to) == stage[c] = from /\ stage' = [stage EXCEPT ![c] = to]

Ask(c) ==
  /\ Step(c, "idle", "asking")
  /\ UNCHANGED <<offers, current, service, seen, found>>

Look(c) ==
  /\ Step(c, "asking", "answered")
  /\ seen' = [seen EXCEPT ![c] = {h \in Hosts : <<service[c], h>> \in current}]
  /\ UNCHANGED <<offers, current, service, found>>

Take(c, h) ==
  /\ \/ Step(c, "idle", "found") /\ <<service[c], h>> \in offers
     \/ Step(c, "answered", "found") /\ h \in seen[c]
  /\ found' = [found EXCEPT ![c] = h]
  /\ UNCHANGED <<offers, current, service, seen>>

Fail(c) ==
  /\ Step(c, "answered", "failed")
  /\ seen[c] = {}
  /\ UNCHANGED <<offers, current, service, seen, found>>

Lose(calls) ==
  /\ \A c \in calls : stage[c] = "answered"
  /\ stage' = [c \in Calls |-> IF c \in calls THEN "asking" ELSE stage[c]]
  /\ seen' = [c \in Calls |-> IF c \in calls THEN {} ELSE seen[c]]
  /\ UNCHANGED <<offers, current, service, found>>

Next ==
  \/ \E m \in Methods, h \in Hosts : Offer(m, h) \/ End(m, h)
  \/ \E calls \in SUBSET Calls : Lose(calls)
  \/ \E c \in Calls : Ask(c) \/ Look(c) \/ Fail(c) \/ \E h \in Hosts : Take(c, h)

Spec == Init /\ [][Next]_resolverVars
=============================================================================
