----------------------------- MODULE MC_Discovery -----------------------------
(* Two services, one at each address.  "again" registers the first service    *)
(* once more at the address of "one": an RPC server that restarts, so that    *)
(* the list of hosts holds the address twice for a while; and either may      *)
(* register it again over its own connection.                                 *)
EXTENDS Discovery

CONSTANTS c1, c2, m1, m2, h1, h2, one, again, other

MCProviders == {one, again, other}
MCService == [p \in MCProviders |-> IF p = other THEN m2 ELSE m1]
MCAccessAddr == [p \in MCProviders |-> IF p = other THEN h2 ELSE h1]
MCMaxRepeats == [m \in {m1, m2} |-> IF m = m1 THEN 1 ELSE 0]
=============================================================================
