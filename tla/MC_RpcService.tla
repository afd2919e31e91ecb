---------------------------- MODULE MC_RpcService ----------------------------
(* One address, one name, two servers, at once or in turn, and one client with *)
(* two calls.  The first server registers a description before it starts and   *)
(* another of the same name at any time; the second does not have the service. *)
EXTENDS RpcService, TLC

CONSTANTS s1, s2, c1, h1, m1, d1, d2, k1, k2

MCAccessAddr == [c \in {s1, s2, c1} |-> h1]
MCServerOf == [d \in {d1, d2} |-> s1]
MCMethodOf == [d \in {d1, d2} |-> m1]
MCParamsDesc == d1 :> {<<"num", "INTEGRAL">>} @@ d2 :> {<<"num", "NUMERIC">>}
MCReturnType == d1 :> "INTEGRAL" @@ d2 :> "STRING"
MCClientOf == k1 :> c1 @@ k2 :> c1
MCParams == {[num |-> "int"], [num |-> "real"]}
=============================================================================
