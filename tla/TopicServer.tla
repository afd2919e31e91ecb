----------------------------- MODULE TopicServer -----------------------------
(***************************************************************************)
(* The topic server: server::TopicManager, its two tables, and the table   *)
(* of connections of the MuduoServer under it.  MuduoServer runs one loop  *)
(* thread, so every handler runs alone and is one action.                  *)
(*                                                                         *)
(* A Subcriber object belongs to one connection and is identified with it; *)
(* a Topic object is identified with its name while it is in _topics.      *)
(***************************************************************************)

CONSTANTS
  Conns,    \* connections ever accepted
  Topics    \* topic names

Nothing == <<>>

VARIABLES
  open,         \* keys of MuduoServer::_conns
  closed,       \* connections that have been closed
  topics,       \* keys of TopicManager::_topics
  subscribers,  \* Topic::_subscribers of each topic
  subConns,     \* keys of TopicManager::_subcribers
  subTopics,    \* Subcriber::_topic of each subscriber
  reply,        \* return code of the last response
  pushed        \* <<topic, who it was sent to>> if the last request published

connVars  == <<open, closed>>
tableVars == <<topics, subscribers, subConns, subTopics>>
vars == <<connVars, tableVars, reply, pushed>>

Init ==
  /\ open = {}
  /\ closed = {}
  /\ topics = {}
  /\ subscribers = [t \in Topics |-> {}]
  /\ subConns = {}
  /\ subTopics = [c \in Conns |-> {}]
  /\ reply = "none"
  /\ pushed = Nothing

Answer(rcode) == reply' = rcode /\ pushed' = Nothing

-----------------------------------------------------------------------------
(* Connections.                                                            *)

Connect(c) ==
  /\ c \notin open \cup closed
  /\ open' = open \cup {c}
  /\ Answer("none")
  /\ UNCHANGED <<closed, tableVars>>

\* The topics a subscriber has subscribed to, as far as they still exist.
RemoveEverywhere(c) ==
  subscribers' = [t \in Topics |-> IF t \in subTopics[c] \cap topics
                                   THEN subscribers[t] \ {c} ELSE subscribers[t]]

\* MuduoServer::onConnection, the connection is down; then onShutDown.
Disconnect(c) ==
  /\ c \in open
  /\ open' = open \ {c}
  /\ closed' = closed \cup {c}
  /\ IF c \in subConns
     THEN /\ subConns' = subConns \ {c}
          /\ subTopics' = [subTopics EXCEPT ![c] = {}]
          /\ RemoveEverywhere(c)
     ELSE UNCHANGED <<subscribers, subConns, subTopics>>
  /\ Answer("none")
  /\ UNCHANGED topics

-----------------------------------------------------------------------------
(* onTopicRequest, one action per operation type.                          *)

\* Mutant of TopicCreate: a topic that exists is replaced by a new object.
TopicReplace(c, t) ==
  /\ c \in open
  /\ topics' = topics \cup {t}
  /\ subscribers' = [subscribers EXCEPT ![t] = {}]
  /\ Answer("OK")
  /\ UNCHANGED <<connVars, subConns, subTopics>>

\* insert() keeps the object of a topic that exists.
TopicCreate(c, t) ==
  /\ c \in open
  /\ topics' = topics \cup {t}
  /\ subscribers' = [subscribers EXCEPT ![t] = IF t \in topics THEN @ ELSE {}]
  /\ Answer("OK")
  /\ UNCHANGED <<connVars, subConns, subTopics>>

\* Mutant of TopicRemove: the topic's subscribers are not told.
TopicErase(c, t) ==
  /\ c \in open
  /\ topics' = topics \ {t}
  /\ subscribers' = [subscribers EXCEPT ![t] = {}]
  /\ Answer("OK")
  /\ UNCHANGED <<connVars, subConns, subTopics>>

\* The Topic object dies with its entry, and its subscribers forget the name.
TopicRemove(c, t) ==
  /\ c \in open
  /\ topics' = topics \ {t}
  /\ subscribers' = [subscribers EXCEPT ![t] = {}]
  /\ subTopics' = [d \in Conns |-> IF t \in topics /\ d \in subscribers[t]
                                   THEN subTopics[d] \ {t} ELSE subTopics[d]]
  /\ Answer("OK")
  /\ UNCHANGED <<connVars, subConns>>

TopicSubscribe(c, t) ==
  /\ c \in open
  /\ IF t \in topics
     THEN /\ subConns' = subConns \cup {c}
          /\ subscribers' = [subscribers EXCEPT ![t] = @ \cup {c}]
          /\ subTopics' = [subTopics EXCEPT ![c] = @ \cup {t}]
          /\ Answer("OK")
     ELSE /\ Answer("NOT_FOUND_TOPIC")
          /\ UNCHANGED <<subscribers, subConns, subTopics>>
  /\ UNCHANGED <<connVars, topics>>

\* A canceller that was no subscriber becomes one, of nothing; the answer is OK.
TopicCancel(c, t) ==
  /\ c \in open
  /\ subConns' = subConns \cup {c}
  /\ subTopics' = [subTopics EXCEPT ![c] = @ \ {t}]
  /\ subscribers' = IF t \in topics THEN [subscribers EXCEPT ![t] = @ \ {c}]
                                    ELSE subscribers
  /\ Answer("OK")
  /\ UNCHANGED <<connVars, topics>>

\* Mutant of TopicPublish: an unknown topic gets the registry's return code.
TopicPublishService(c, t) ==
  /\ c \in open
  /\ IF t \in topics
     THEN reply' = "OK" /\ pushed' = <<t, subscribers[t]>>
     ELSE Answer("NOT_FOUND_SERVICE")
  /\ UNCHANGED <<connVars, tableVars>>

TopicPublish(c, t) ==
  /\ c \in open
  /\ IF t \in topics
     THEN reply' = "OK" /\ pushed' = <<t, subscribers[t]>>
     ELSE Answer("NOT_FOUND_TOPIC")
  /\ UNCHANGED <<connVars, tableVars>>

InvalidOptype(c) ==
  /\ c \in open
  /\ Answer("INVALID_OPTYPE")
  /\ UNCHANGED <<connVars, tableVars>>

Next ==
  \/ \E c \in Conns : Connect(c) \/ Disconnect(c) \/ InvalidOptype(c)
  \/ \E c \in Conns, t \in Topics :
       \/ TopicCreate(c, t) \/ TopicRemove(c, t) \/ TopicSubscribe(c, t)
       \/ TopicCancel(c, t) \/ TopicPublish(c, t)

Spec == Init /\ [][Next]_vars

-----------------------------------------------------------------------------
(* Properties.                                                             *)

\* The tables hold connections and topics; a push names a topic and connections.
TypeOK ==
  /\ open \subseteq Conns
  /\ closed \subseteq Conns
  /\ topics \subseteq Topics
  /\ subscribers \in [Topics -> SUBSET Conns]
  /\ subConns \subseteq Conns
  /\ subTopics \in [Conns -> SUBSET Topics]
  /\ reply \in {"none", "OK", "NOT_FOUND_TOPIC", "INVALID_OPTYPE"}
  /\ pushed \in {Nothing} \cup (Topics \X SUBSET Conns)

\* Topic::_subscribers and Subcriber::_topic describe one relation through any
\* mixture of creations, removals, subscriptions, cancellations and
\* disconnections, and neither names a removed topic or a closed connection.
\* onShutDown and topicRemove each walk one of the two to clean the other.
SubscriptionsIndexed ==
  /\ subConns \subseteq open
  /\ \A c \in Conns, t \in Topics :
       /\ c \in subscribers[t] <=> t \in subTopics[c]
       /\ c \in subscribers[t] => t \in topics /\ c \in subConns

Abstract == INSTANCE PubSub WITH
  subs <- {s \in Conns \X Topics : s[1] \in subscribers[s[2]]}

\* The two tables implement the plain relation of PubSub: no request and no
\* disconnection ends, starts or redirects a subscription that it is not about,
\* and a publication reaches all the subscribers of its topic and nobody else.
ImplementsPubSub == Abstract!Spec

=============================================================================
