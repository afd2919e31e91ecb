----------------------------- MODULE RpcContract -----------------------------
(***************************************************************************)
(* What a remote call promises its caller, with no table, thread or wire:  *)
(* a call is issued, the server executes it at most once, and the caller   *)
(* is told the outcome the server produced, at most once.                  *)
(***************************************************************************)

CONSTANTS Calls, None, RCodes

VARIABLES
  issued,     \* calls whose request has been handed to the connection
  executed,   \* return code of each executed call
  told        \* what each caller has learned

contractVars == <<issued, executed, told>>

Init ==
  /\ issued = {}
  /\ executed = [c \in Calls |-> None]
  /\ told = [c \in Calls |-> "nothing"]

Issue(c) ==
  /\ c \notin issued
  /\ issued' = issued \cup {c}
  /\ UNCHANGED <<executed, told>>

Execute(c, r) ==
  /\ c \in issued
  /\ executed[c] = None
  /\ executed' = [executed EXCEPT ![c] = r]
  /\ UNCHANGED <<issued, told>>

\* The caller learns the result of a call that went well, or that it failed.
Tell(c) ==
  /\ executed[c] # None
  /\ told[c] = "nothing"
  /\ told' = [told EXCEPT ![c] = IF executed[c] = "OK" THEN "result" ELSE "failure"]
  /\ UNCHANGED <<issued, executed>>

Next == \E c \in Calls : \/ Issue(c)
                         \/ \E r \in RCodes : Execute(c, r)
                         \/ Tell(c)

Spec == Init /\ [][Next]_contractVars
=============================================================================
