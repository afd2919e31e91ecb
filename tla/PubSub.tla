-------------------------------- MODULE PubSub --------------------------------
(***************************************************************************)
(* What a topic server promises, with no tables: topics exist or not, a    *)
(* subscription is a pair, and a publication reaches exactly those who are *)
(* subscribed when it is handled.                                          *)
(***************************************************************************)

CONSTANTS Conns, Topics

VARIABLES
  topics,   \* topics that exist
  subs,     \* who is subscribed to what
  pushed    \* <<topic, who it was sent to>> of the last request

pubSubVars == <<topics, subs, pushed>>

Nothing == <<>>

Init ==
  /\ topics = {}
  /\ subs = {}
  /\ pushed = Nothing

Create(t) ==
  /\ topics' = topics \cup {t}
  /\ pushed' = Nothing
  /\ UNCHANGED subs

\* Removing a topic ends its subscriptions and no other.
Remove(t) ==
  /\ topics' = topics \ {t}
  /\ subs' = {s \in subs : s[2] # t}
  /\ pushed' = Nothing

Subscribe(c, t) ==
  /\ subs' = IF t \in topics THEN subs \cup {<<c, t>>} ELSE subs
  /\ pushed' = Nothing
  /\ UNCHANGED topics

Cancel(c, t) ==
  /\ subs' = subs \ {<<c, t>>}
  /\ pushed' = Nothing
  /\ UNCHANGED topics

Publish(t) ==
  /\ pushed' = IF t \in topics THEN <<t, {s[1] : s \in {p \in subs : p[2] = t}}>>
                               ELSE Nothing
  /\ UNCHANGED <<topics, subs>>

\* A subscriber that disconnects loses its subscriptions, and nobody else's.
Leave(c) ==
  /\ subs' = {s \in subs : s[1] # c}
  /\ pushed' = Nothing
  /\ UNCHANGED topics

\* A request that is refused, or a connection that is made.
Idle ==
  /\ pushed' = Nothing
  /\ UNCHANGED <<topics, subs>>

Next ==
  \/ Idle
  \/ \E t \in Topics : Create(t) \/ Remove(t) \/ Publish(t)
  \/ \E c \in Conns, t \in Topics : Subscribe(c, t) \/ Cancel(c, t)
  \/ \E c \in Conns : Leave(c)

Spec == Init /\ [][Next]_pubSubVars
=============================================================================
