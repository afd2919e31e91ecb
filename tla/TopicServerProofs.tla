-------------------------- MODULE TopicServerProofs --------------------------
(* Proofs about TopicServer, for any connections and any topics.           *)
EXTENDS TopicServer, TLAPS

IInv == TypeOK /\ SubscriptionsIndexed

LEMMA InitIInv == Init => IInv
BY DEF Init, IInv, TypeOK, SubscriptionsIndexed

LEMMA IInvStep == IInv /\ [Next]_vars => IInv'
<1> SUFFICES ASSUME IInv, [Next]_vars PROVE IInv'
  OBVIOUS
<1> USE DEF IInv, TypeOK, SubscriptionsIndexed, Answer, connVars, tableVars
<1>1. ASSUME NEW c \in Conns, Connect(c) PROVE IInv'
  BY <1>1 DEF Connect
<1>2. ASSUME NEW c \in Conns, Disconnect(c) PROVE IInv'
  BY <1>2 DEF Disconnect, RemoveEverywhere
<1>3. ASSUME NEW c \in Conns, InvalidOptype(c) PROVE IInv'
  BY <1>3 DEF InvalidOptype
<1>4. ASSUME NEW c \in Conns, NEW t \in Topics, TopicCreate(c, t) PROVE IInv'
  BY <1>4 DEF TopicCreate
<1>5. ASSUME NEW c \in Conns, NEW t \in Topics, TopicRemove(c, t) PROVE IInv'
  BY <1>5 DEF TopicRemove
<1>6. ASSUME NEW c \in Conns, NEW t \in Topics, TopicSubscribe(c, t) PROVE IInv'
  BY <1>6 DEF TopicSubscribe
<1>7. ASSUME NEW c \in Conns, NEW t \in Topics, TopicCancel(c, t) PROVE IInv'
  BY <1>7 DEF TopicCancel
<1>8. ASSUME NEW c \in Conns, NEW t \in Topics, TopicPublish(c, t) PROVE IInv'
  BY <1>8 DEF TopicPublish
<1>9. CASE UNCHANGED vars
  BY <1>9 DEF vars
<1> HIDE DEF IInv
<1> QED
  BY <1>1, <1>2, <1>3, <1>4, <1>5, <1>6, <1>7, <1>8, <1>9 DEF Next

LEMMA IInvAlways == Spec => []IInv
BY InitIInv, IInvStep, PTL DEF Spec

\* The tables and the last answer keep their types.
THEOREM TypeCorrect == Spec => []TypeOK
BY IInvAlways, PTL DEF IInv

\* The index by topic and the index by connection never disagree.
THEOREM SubscriptionsAlwaysIndexed == Spec => []SubscriptionsIndexed
BY IInvAlways, PTL DEF IInv

-----------------------------------------------------------------------------
(* The two tables implement a plain relation.                              *)

LEMMA PubSubInit == Init => Abstract!Init
BY DEF Init, Abstract!Init, Nothing, Abstract!Nothing

LEMMA PubSubStep == IInv /\ [Next]_vars => [Abstract!Next]_Abstract!pubSubVars
<1> SUFFICES ASSUME IInv, [Next]_vars PROVE [Abstract!Next]_Abstract!pubSubVars
  OBVIOUS
<1> DEFINE Subs == {s \in Conns \X Topics : s[1] \in subscribers[s[2]]}
<1> USE DEF IInv, TypeOK, SubscriptionsIndexed, Answer, connVars, tableVars,
            Nothing, Abstract!Nothing
<1>1. ASSUME NEW c \in Conns, Connect(c) PROVE Abstract!Idle
  BY <1>1 DEF Connect, Abstract!Idle
<1>2. ASSUME NEW c \in Conns, Disconnect(c) PROVE Abstract!Leave(c)
  <2>1. \A d \in Conns, t \in Topics :
          d \in subscribers'[t] <=> d \in subscribers[t] /\ d # c
    BY <1>2 DEF Disconnect, RemoveEverywhere
  <2>2. Subs' = {s \in Subs : s[1] # c}
    BY <2>1
  <2> QED
    BY <1>2, <2>2 DEF Disconnect, Abstract!Leave
<1>3. ASSUME NEW c \in Conns, InvalidOptype(c) PROVE Abstract!Idle
  BY <1>3 DEF InvalidOptype, Abstract!Idle
<1>4. ASSUME NEW c \in Conns, NEW t \in Topics, TopicCreate(c, t) PROVE Abstract!Create(t)
  BY <1>4 DEF TopicCreate, Abstract!Create
<1>5. ASSUME NEW c \in Conns, NEW t \in Topics, TopicRemove(c, t) PROVE Abstract!Remove(t)
  BY <1>5 DEF TopicRemove, Abstract!Remove
<1>6. ASSUME NEW c \in Conns, NEW t \in Topics, TopicSubscribe(c, t)
      PROVE Abstract!Subscribe(c, t)
  BY <1>6 DEF TopicSubscribe, Abstract!Subscribe
<1>7. ASSUME NEW c \in Conns, NEW t \in Topics, TopicCancel(c, t)
      PROVE Abstract!Cancel(c, t)
  BY <1>7 DEF TopicCancel, Abstract!Cancel
<1>8. ASSUME NEW c \in Conns, NEW t \in Topics, TopicPublish(c, t)
      PROVE Abstract!Publish(t)
  <2>1. {s[1] : s \in {p \in Subs : p[2] = t}} = subscribers[t]
    <3>1. \A d \in subscribers[t] : <<d, t>> \in {p \in Subs : p[2] = t}
      OBVIOUS
    <3>2. \A s \in {p \in Subs : p[2] = t} : s[1] \in subscribers[t]
      OBVIOUS
    <3>3. \A d \in subscribers[t] : d \in {s[1] : s \in {p \in Subs : p[2] = t}}
      <4> SUFFICES ASSUME NEW d \in subscribers[t]
                   PROVE  \E s \in {p \in Subs : p[2] = t} : d = s[1]
        OBVIOUS
      <4>1. <<d, t>>[1] = d
        OBVIOUS
      <4> QED
        BY <3>1, <4>1
    <3> HIDE DEF Subs
    <3> QED
      BY <3>2, <3>3
  <2> QED
    BY <1>8, <2>1 DEF TopicPublish, Abstract!Publish
<1>9. CASE UNCHANGED vars
  BY <1>9 DEF vars, Abstract!pubSubVars
<1> HIDE DEF IInv
<1> QED
  BY <1>1, <1>2, <1>3, <1>4, <1>5, <1>6, <1>7, <1>8, <1>9
     DEF Next, Abstract!Next

\* What the topic server's users see is the relation of who is subscribed to
\* what, and publications that reach exactly the subscribers.
THEOREM TopicServerImplementsPubSub == Spec => ImplementsPubSub
BY PubSubInit, PubSubStep, IInvAlways, PTL DEF Spec, Abstract!Spec, ImplementsPubSub
=============================================================================
