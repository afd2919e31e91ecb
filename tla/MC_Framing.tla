------------------------------ MODULE MC_Framing ------------------------------
(* Three messages: an empty body, an ordinary one, and one over the limit.    *)
(* The length field takes two bytes, so that it can be cut in two.            *)
EXTENDS Framing

CONSTANTS small, medium, large

MCMessages == {small, medium, large}
MCIdLen == [m \in MCMessages |-> 1]
MCBodyLen == [m \in MCMessages |-> CASE m = small -> 0
                                     [] m = medium -> 2
                                     [] m = large -> 6]
=============================================================================
