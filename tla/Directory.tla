------------------------------ MODULE Directory ------------------------------
(***************************************************************************)
(* What a registry promises, with no tables and no messages: an offer is a *)
(* pair of a server and a service, a watch a pair of a client and a        *)
(* service, and whoever watches a service has been told, after every step, *)
(* exactly the hosts that are listed for it.  Only the end of a server's   *)
(* own connection can unlist what it offers.                               *)
(***************************************************************************)

CONSTANTS Conns, Methods, Hosts, AccessAddr

VARIABLES
  present,  \* connections that are open
  past,     \* those that were
  listed,   \* who is listed for which service
  watches,  \* who watches which service
  told      \* the hosts each client was last told to be there

directoryVars == <<present, past, listed, watches, told>>

Listing(m) == {h \in Hosts : \E c \in Conns : <<c, m>> \in listed /\ AccessAddr[c] = h}

Init ==
  /\ present = {} /\ past = {} /\ listed = {} /\ watches = {}
  /\ told = [c \in Conns |-> [m \in Methods |-> {}]]

\* No watcher is told less or more than the listing, none is told late.
Inform ==
  told' = [c \in Conns |-> [m \in Methods |->
             IF <<c, m>> \in watches' THEN Listing(m)' ELSE told[c][m]]]

Come(c) ==
  /\ c \notin present \cup past
  /\ present' = present \cup {c}
  /\ UNCHANGED <<past, listed, watches, told>>

Offer(c, m) ==
  /\ c \in present
  /\ listed' = listed \cup {<<c, m>>}
  /\ UNCHANGED <<present, past, watches>>
  /\ Inform

Watch(c, m) ==
  /\ c \in present
  /\ watches' = watches \cup {<<c, m>>}
  /\ UNCHANGED <<present, past, listed>>
  /\ Inform

\* The watches of a connection that ends are over; its offers may be unlisted, and
\* if they are, those who watch the services hear of it.
Leave(c) ==
  /\ c \in present
  /\ present' = present \ {c}
  /\ past' = past \cup {c}
  /\ watches' = {w \in watches : w[1] # c}
  /\ \E gone \in SUBSET Methods : listed' = listed \ ({c} \X gone)
  /\ Inform

Next ==
  \E c \in Conns : \/ Come(c) \/ Leave(c)
                   \/ \E m \in Methods : Offer(c, m) \/ Watch(c, m)

Spec == Init /\ [][Next]_directoryVars
=============================================================================
