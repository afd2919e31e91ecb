-------------------------- MODULE TopicSystemProofs --------------------------
(* Proofs about TopicSystem: any clients, topics, threads and bounds.        *)
EXTENDS TopicSystem, TLAPS

-----------------------------------------------------------------------------
(* Channels: what is added at the end and taken at the front.                *)

LEMMA Appended ==
  ASSUME NEW S, NEW s \in Seq(S), NEW e \in S
  PROVE  /\ Len(Append(s, e)) = Len(s) + 1
         /\ \A i \in 1 .. Len(Append(s, e)) :
              \/ i \in 1 .. Len(s) /\ Append(s, e)[i] = s[i]
              \/ i = Len(s) + 1 /\ Append(s, e)[i] = e
OBVIOUS

LEMMA Taken ==
  ASSUME NEW S, NEW s \in Seq(S), s # <<>>
  PROVE  /\ Tail(s) \in Seq(S)
         /\ Head(s) = s[1] /\ 1 \in 1 .. Len(s)
         /\ \A i \in 1 .. Len(Tail(s)) : i + 1 \in 1 .. Len(s) /\ Tail(s)[i] = s[i + 1]
OBVIOUS

-----------------------------------------------------------------------------
(* What the server does with a request, whichever it is.                     *)

\* The actions of the server keep the server's types.
LEMMA ServerTypes ==
  ASSUME Server!TypeOK, NEW c \in Clients, NEW t \in Topics, NEW op,
         OnTopicRequest(c, op, t)
  PROVE  Server!TypeOK'
  <1> USE DEF Server!TypeOK, Server!Answer, Server!Nothing, Server!connVars, Server!tableVars
  <1>1. CASE op = "create" /\ Server!TopicCreate(c, t)
    BY <1>1 DEF Server!TopicCreate
  <1>2. CASE op = "remove" /\ Server!TopicRemove(c, t)
    BY <1>2 DEF Server!TopicRemove
  <1>3. CASE op = "subscribe" /\ Server!TopicSubscribe(c, t)
    BY <1>3 DEF Server!TopicSubscribe
  <1>4. CASE op = "cancel" /\ Server!TopicCancel(c, t)
    BY <1>4 DEF Server!TopicCancel
  <1>5. CASE op = "publish" /\ Server!TopicPublish(c, t)
    BY <1>5 DEF Server!TopicPublish
  <1>6. QED
    BY <1>1, <1>2, <1>3, <1>4, <1>5 DEF OnTopicRequest

\* Who is subscribed after a request, what it is answered, and whom it is sent to.
LEMMA ServerEffect ==
  ASSUME Server!TypeOK, GoneTopicsEmpty, NEW c \in Clients, NEW t \in Topics, NEW op,
         OnTopicRequest(c, op, t)
  PROVE  /\ reply' \in {"OK", "NOT_FOUND_TOPIC"}
         /\ GoneTopicsEmpty'
         /\ \A d \in Clients, u \in Topics :
              d \in subscribers'[u] => \/ d \in subscribers[u]
                                       \/ d = c /\ u = t /\ op = "subscribe" /\ reply' = "OK"
         /\ op = "cancel" \/ (op = "subscribe" /\ reply' # "OK") => c \notin subscribers'[t]
         /\ pushed' # Server!Nothing =>
              op = "publish" /\ \A d \in pushed'[2] : d \in subscribers[t]
  <1> USE DEF Server!TypeOK, Server!Answer, Server!Nothing, Server!connVars,
              Server!tableVars, GoneTopicsEmpty
  <1>1. CASE op = "create" /\ Server!TopicCreate(c, t)
    BY <1>1 DEF Server!TopicCreate
  <1>2. CASE op = "remove" /\ Server!TopicRemove(c, t)
    BY <1>2 DEF Server!TopicRemove
  <1>3. CASE op = "subscribe" /\ Server!TopicSubscribe(c, t)
    BY <1>3 DEF Server!TopicSubscribe
  <1>4. CASE op = "cancel" /\ Server!TopicCancel(c, t)
    BY <1>4 DEF Server!TopicCancel
  <1>5. CASE op = "publish" /\ Server!TopicPublish(c, t)
    BY <1>5 DEF Server!TopicPublish
  <1>6. QED
    BY <1>1, <1>2, <1>3, <1>4, <1>5 DEF OnTopicRequest

-----------------------------------------------------------------------------
(* The inductive invariant: the initial states, then one lemma per action.   *)

LEMMA InitIInv == Init => IInv
  <1> SUFFICES ASSUME Init PROVE IInv
    OBVIOUS
  <1> USE DEF Init, Server!Init, Server!Nothing
  <1>1. TypeOK
    BY TopicSystemAssumption DEF TypeOK, Server!TypeOK, Optypes
  <1>2. \A c \in Clients, t \in Topics, th \in Threads : ~Working(th, c, t)
    BY DEF Working, Subscribing, Cancelling
  <1>3. OutstandingOnce /\ GoneTopicsEmpty /\ ContentionSeen /\ CallbackFirst /\ AnsweredLast
    BY <1>2, TopicSystemAssumption
       DEF OutstandingOnce, RequestsOnce, AnswersOnce, GoneTopicsEmpty, ContentionSeen, CallbackFirst, AnsweredLast, Working
  <1>4. NoDeafSubscriber /\ PublicationFindsCallback /\ CancelledIsQuiet
    BY TopicSystemAssumption DEF NoDeafSubscriber, PublicationFindsCallback, CancelledIsQuiet
  <1> QED
    BY <1>1, <1>3, <1>4 DEF IInv

\* Steps that no user thread takes leave alone who is at work on what.
LEMMA WorkUnchanged ==
  ASSUME UNCHANGED <<threadVars, contended>>
  PROVE  \A c \in Clients, t \in Topics :
           /\ MayBeDeaf(c, t)' <=> MayBeDeaf(c, t)
           /\ \A th \in Threads :
                /\ Subscribing(th, c, t)' <=> Subscribing(th, c, t)
                /\ Cancelling(th, c, t)' <=> Cancelling(th, c, t)
                /\ Working(th, c, t)' <=> Working(th, c, t)
BY DEF threadVars, MayBeDeaf, Subscribing, Cancelling, Working

\* A step that leaves alone who is at work, and what the other conjuncts look at.
LEMMA SameView ==
  ASSUME IInv, UNCHANGED <<contended, callbacks, response, running, topics, subscribers, toClient>>,
         \A th \in Threads, c \in Clients, t \in Topics :
           /\ Subscribing(th, c, t)' <=> Subscribing(th, c, t)
           /\ Cancelling(th, c, t)' <=> Cancelling(th, c, t)
           /\ Working(th, c, t) => \A r : Ends(th, r)' <=> Ends(th, r)
  PROVE  /\ GoneTopicsEmpty' /\ ContentionSeen' /\ CallbackFirst' /\ AnsweredLast'
         /\ NoDeafSubscriber' /\ PublicationFindsCallback' /\ CancelledIsQuiet'
  <1>1. \A c \in Clients, t \in Topics :
          /\ MayBeDeaf(c, t)' <=> MayBeDeaf(c, t)
          /\ \A th \in Threads : Working(th, c, t)' <=> Working(th, c, t)
    BY DEF MayBeDeaf, Working
  <1>2. GoneTopicsEmpty' /\ ContentionSeen' /\ CallbackFirst'
    BY <1>1 DEF IInv, GoneTopicsEmpty, ContentionSeen, CallbackFirst
  <1>3. AnsweredLast'
    <2>1. AnsweredLast
      BY DEF IInv
    <2>2. \A i : \A d \in Clients, t \in Topics : NoMore(d, t, i)' <=> NoMore(d, t, i)
      BY DEF NoMore, Publication
    <2> QED
      BY <1>1, <2>1, <2>2 DEF AnsweredLast, IsAnswer
  <1>4. NoDeafSubscriber' /\ PublicationFindsCallback'
    BY <1>1 DEF IInv, NoDeafSubscriber, PublicationFindsCallback, Publication
  <1>5. CancelledIsQuiet'
    BY <1>1 DEF IInv, TypeOK, CancelledIsQuiet
  <1> QED
    BY <1>2, <1>3, <1>4, <1>5

LEMMA ConnectStep ==
  ASSUME IInv, NEW c \in Clients, Connect(c)
  PROVE  IInv'
  <1> USE DEF Connect, Server!Connect, Server!Answer, Server!Nothing, Server!tableVars,
              netVars, threadVars
  <1>1. TypeOK'
    BY DEF IInv, TypeOK, Server!TypeOK
  <1>2. OutstandingOnce'
    BY DEF IInv, OutstandingOnce, RequestsOnce, AnswersOnce, Pending, IsAnswer
  <1>3. \A r : \A th \in Threads : Ends(th, r)' <=> Ends(th, r)
    BY DEF Ends
  <1> QED
    BY <1>1, <1>2, <1>3, WorkUnchanged, SameView DEF IInv

\* The channels s' keep some messages of the channels s, at their places.
Kept(s, t) == \A i \in 1 .. Len(t) : i \in 1 .. Len(s) /\ t[i] = s[i]

LEMMA EmptiedIsKept == ASSUME NEW s, NEW t, t = s \/ t = <<>> PROVE Kept(s, t)
BY DEF Kept

LEMMA ServerDisconnect ==
  ASSUME Server!TypeOK, NEW c \in Clients, Server!Disconnect(c)
  PROVE  /\ Server!TypeOK'
         /\ UNCHANGED topics
         /\ \A t \in Topics : subscribers'[t] \subseteq subscribers[t]
BY DEF Server!TypeOK, Server!Disconnect, Server!RemoveEverywhere, Server!Answer, Server!Nothing

\* The same with less: a client may lose messages, and subscriptions.
LEMMA DisconnectStep ==
  ASSUME IInv, NEW c \in Clients, Disconnect(c)
  PROVE  IInv'
  <1> USE DEF Disconnect
  <1>1. Server!Disconnect(c) /\ Server!TypeOK
    BY DEF IInv, TypeOK
  <1>2. TypeOK'
    BY <1>1, ServerDisconnect DEF IInv, TypeOK, threadVars
  <1>3. UNCHANGED <<threadVars, contended, callbacks, response, running, topics>>
    BY <1>1, ServerDisconnect
  <1>4. \A t \in Topics : subscribers'[t] \subseteq subscribers[t]
    BY <1>1, ServerDisconnect
  <1>5. \A d \in Clients : Kept(toServer[d], toServer'[d]) /\ Kept(toClient[d], toClient'[d])
    <2>1. \A d \in Clients : /\ toServer'[d] = toServer[d] \/ toServer'[d] = <<>>
                             /\ toClient'[d] = toClient[d] \/ toClient'[d] = <<>>
      BY DEF IInv, TypeOK
    <2> QED
      BY <2>1, EmptiedIsKept
  <1> HIDE DEF Disconnect
  <1>6. OutstandingOnce'
    <2>1. \A th \in Threads : response'[th] # None => pc'[th] = "waiting"
      BY <1>3 DEF IInv, OutstandingOnce, threadVars
    <2>2. \A d, th : Pending(th, d)' <=> Pending(th, d)
      BY <1>3 DEF Pending, threadVars
    <2>3. RequestsOnce'
      <3>1. RequestsOnce
        BY DEF IInv, OutstandingOnce
      <3> QED
        BY <1>5, <2>2, <3>1 DEF RequestsOnce, Kept
    <2>4. AnswersOnce'
      <3>1. AnswersOnce
        BY DEF IInv, OutstandingOnce
      <3>2. \A d \in Clients, th \in Threads : \A i \in 1 .. Len(toClient'[d]) :
              IsAnswer(toClient'[d][i], th) =>
                /\ Pending(th, d)'
                /\ \A j \in 1 .. Len(toServer'[d]) : toServer'[d][j] # th
                /\ \A j \in 1 .. Len(toClient'[d]) : IsAnswer(toClient'[d][j], th) => j = i
        BY <1>5, <2>2, <3>1, SMTT(30) DEF AnswersOnce, Kept
      <3> QED
        BY <3>2 DEF AnswersOnce, IsAnswer
    <2> QED
      BY <2>1, <2>3, <2>4 DEF OutstandingOnce
  <1>7. GoneTopicsEmpty' /\ ContentionSeen' /\ CallbackFirst'
    BY <1>3, <1>4, WorkUnchanged DEF IInv, GoneTopicsEmpty, ContentionSeen, CallbackFirst
  <1>8. AnsweredLast'
    <2>1. AnsweredLast
      BY DEF IInv
    <2>2. \A r : \A th \in Threads : Ends(th, r)' <=> Ends(th, r)
      BY <1>3 DEF Ends, threadVars
    <2>3. \A i : \A d \in Clients, t \in Topics : NoMore(d, t, i) => NoMore(d, t, i)'
      BY <1>4, <1>5 DEF NoMore, Kept, Publication
    <2>4. \A d \in Clients : \A i \in 1 .. Len(toClient'[d]) :
            i \in 1 .. Len(toClient[d]) /\ toClient'[d][i] = toClient[d][i]
      BY <1>5 DEF Kept
    <2> QED
      BY <1>3, <2>1, <2>2, <2>3, <2>4, WorkUnchanged DEF AnsweredLast, IsAnswer
  <1>9. NoDeafSubscriber' /\ PublicationFindsCallback' /\ CancelledIsQuiet'
    <2>1. NoDeafSubscriber'
      BY <1>3, <1>4, <1>5, WorkUnchanged DEF IInv, NoDeafSubscriber
    <2>2. PublicationFindsCallback'
      BY <1>3, <1>4, <1>5, WorkUnchanged DEF IInv, PublicationFindsCallback, Kept
    <2>3. CancelledIsQuiet'
      BY <1>3, <1>4, <1>5, WorkUnchanged, TopicSystemAssumption
         DEF IInv, TypeOK, CancelledIsQuiet
    <2> QED
      BY <2>1, <2>2, <2>3
  <1> QED
    BY <1>2, <1>6, <1>7, <1>8, <1>9 DEF IInv

-----------------------------------------------------------------------------
(* The steps of a user thread.                                               *)

\* Nothing of th is on its way.
NoMessage(th) ==
  \A c \in Clients :
    /\ \A i \in 1 .. Len(toServer[c]) : toServer[c][i] # th
    /\ \A i \in 1 .. Len(toClient[c]) : ~IsAnswer(toClient[c][i], th)

LEMMA Silent ==
  ASSUME OutstandingOnce, NEW th \in Threads, pc[th] # "waiting" \/ response[th] # None
  PROVE  NoMessage(th)
  <1>1. \A c \in Clients : ~Pending(th, c)
    BY DEF Pending, OutstandingOnce
  <1>2. \A c \in Clients : \A i \in 1 .. Len(toServer[c]) : toServer[c][i] # th
    BY <1>1 DEF OutstandingOnce, RequestsOnce
  <1>3. \A c \in Clients : \A i \in 1 .. Len(toClient[c]) : ~IsAnswer(toClient[c][i], th)
    BY <1>1 DEF OutstandingOnce, AnswersOnce
  <1> QED
    BY <1>2, <1>3 DEF NoMessage

\* A thread with nothing on its way may change its state as it likes.
LEMMA OutstandingLocally ==
  ASSUME OutstandingOnce, NEW th \in Threads, NoMessage(th),
         \A other \in Threads \ {th} : pc'[other] = pc[other] /\ response'[other] = response[other],
         response'[th] = None, UNCHANGED netVars,
         \A c \in Clients : toServer[c] \in Seq(Threads)
  PROVE  OutstandingOnce'
  <1>1. \A other \in Threads \ {th}, c \in Clients : Pending(other, c)' <=> Pending(other, c)
    BY DEF Pending
  <1>2. RequestsOnce'
    BY <1>1 DEF OutstandingOnce, RequestsOnce, NoMessage, netVars
  <1>3. \A c \in Clients, other \in Threads : \A i \in 1 .. Len(toClient'[c]) :
          IsAnswer(toClient'[c][i], other) =>
            /\ Pending(other, c)'
            /\ \A j \in 1 .. Len(toServer'[c]) : toServer'[c][j] # other
            /\ \A j \in 1 .. Len(toClient'[c]) : IsAnswer(toClient'[c][j], other) => j = i
    BY <1>1 DEF OutstandingOnce, AnswersOnce, NoMessage, netVars
  <1>4. AnswersOnce'
    BY <1>3 DEF AnswersOnce, IsAnswer
  <1> QED
    BY <1>2, <1>4 DEF OutstandingOnce

\* A thread that has nothing on its way sends its request.
LEMMA OutstandingPosted ==
  ASSUME OutstandingOnce, NEW th \in Threads, NoMessage(th), response[th] = None,
         pc \in [Threads -> {"idle", "send", "waiting"}],
         toServer \in [Clients -> Seq(Threads)],
         pc' = [pc EXCEPT ![th] = "waiting"], Post(th), UNCHANGED <<response, toClient>>
  PROVE  OutstandingOnce'
  <1>0. ClientOf[th] \in Clients
    BY TopicSystemAssumption
  <1>1. \A c \in Clients :
          \/ toServer'[c] = toServer[c]
          \/ c = ClientOf[th] /\ toServer'[c] = Append(toServer[c], th)
    BY <1>0 DEF Post
  <1>2. \A other \in Threads \ {th}, c \in Clients : Pending(other, c)' <=> Pending(other, c)
    BY DEF Pending
  <1>3. Pending(th, ClientOf[th])'
    BY DEF Pending
  <1>4. \A c \in Clients : \A i \in 1 .. Len(toServer'[c]) :
          \/ i \in 1 .. Len(toServer[c]) /\ toServer'[c][i] = toServer[c][i]
          \/ c = ClientOf[th] /\ i = Len(toServer[c]) + 1 /\ toServer'[c][i] = th
    <2> SUFFICES ASSUME NEW c \in Clients, NEW i \in 1 .. Len(toServer'[c]),
                        toServer'[c] = Append(toServer[c], th)
                 PROVE  \/ i \in 1 .. Len(toServer[c]) /\ toServer'[c][i] = toServer[c][i]
                        \/ i = Len(toServer[c]) + 1 /\ toServer'[c][i] = th
      BY <1>1
    <2>1. toServer[c] \in Seq(Threads)
      OBVIOUS
    <2> HIDE DEF Post
    <2> QED
      BY ONLY <2>1, Appended, th \in Threads, i \in 1 .. Len(toServer'[c]),
              toServer'[c] = Append(toServer[c], th)
  <1>5. RequestsOnce'
    BY <1>2, <1>3, <1>4, SMTT(30) DEF OutstandingOnce, RequestsOnce, NoMessage
  <1>6. \A c \in Clients, other \in Threads : \A i \in 1 .. Len(toClient'[c]) :
          IsAnswer(toClient'[c][i], other) =>
            /\ Pending(other, c)'
            /\ \A j \in 1 .. Len(toServer'[c]) : toServer'[c][j] # other
            /\ \A j \in 1 .. Len(toClient'[c]) : IsAnswer(toClient'[c][j], other) => j = i
    BY <1>2, <1>4 DEF OutstandingOnce, AnswersOnce, NoMessage
  <1>7. AnswersOnce'
    BY <1>6 DEF AnswersOnce, IsAnswer
  <1>8. \A o \in Threads : response'[o] # None => pc'[o] = "waiting"
    BY DEF OutstandingOnce
  <1> QED
    BY <1>5, <1>7, <1>8 DEF OutstandingOnce

\* What a thread sends is a thread's request.
LEMMA Posted ==
  ASSUME toServer \in [Clients -> Seq(Threads)], NEW th \in Threads, Post(th)
  PROVE  toServer' \in [Clients -> Seq(Threads)]
  <1>1. \A s \in Seq(Threads) : Append(s, th) \in Seq(Threads)
    OBVIOUS
  <1>2. ClientOf[th] \in Clients /\ toServer[ClientOf[th]] \in Seq(Threads)
    BY TopicSystemAssumption
  <1>3. \E s \in Seq(Threads) : toServer' = [toServer EXCEPT ![ClientOf[th]] = s]
    BY <1>1, <1>2 DEF Post
  <1> QED
    BY <1>2, <1>3

LEMMA RequestStep ==
  ASSUME IInv, NEW th \in Threads, NEW op, NEW t \in Topics, Request(th, op, t)
  PROVE  IInv'
  <1> USE DEF Request, Begin
  <1>1. TypeOK'
    <2>1. Server!TypeOK'
      BY DEF IInv, TypeOK, Server!TypeOK, serverVars, Server!Nothing
    <2>2. toServer' \in [Clients -> Seq(Threads)]
      BY Posted DEF IInv, TypeOK
    <2> QED
      BY <2>1, <2>2, TopicSystemAssumption DEF IInv, TypeOK, Optypes
  <1>2. OutstandingOnce'
    <2>1. NoMessage(th) /\ response[th] = None
      BY Silent DEF IInv, OutstandingOnce
    <2> QED
      BY <2>1, OutstandingPosted DEF IInv, TypeOK
  <1>3. UNCHANGED <<contended, callbacks, response, running, topics, subscribers, toClient>>
    BY DEF serverVars
  <1>4. \A o \in Threads, c \in Clients, u \in Topics :
          /\ Subscribing(o, c, u)' <=> Subscribing(o, c, u)
          /\ Cancelling(o, c, u)' <=> Cancelling(o, c, u)
          /\ Working(o, c, u) => \A r : Ends(o, r)' <=> Ends(o, r)
    BY DEF IInv, TypeOK, Subscribing, Cancelling, Working, Ends
  <1> QED
    BY <1>1, <1>2, <1>3, <1>4, SameView DEF IInv

LEMMA CommonRequestStep ==
  ASSUME IInv, NEW th \in Threads, CommonRequest(th)
  PROVE  IInv'
  <1> USE DEF CommonRequest
  <1>1. TypeOK'
    <2>1. Server!TypeOK'
      BY DEF IInv, TypeOK, Server!TypeOK, serverVars, Server!Nothing
    <2>2. toServer' \in [Clients -> Seq(Threads)]
      BY Posted DEF IInv, TypeOK
    <2> QED
      BY <2>1, <2>2, TopicSystemAssumption DEF IInv, TypeOK
  <1>2. OutstandingOnce'
    <2>1. NoMessage(th) /\ response[th] = None
      BY Silent DEF IInv, OutstandingOnce
    <2> QED
      BY <2>1, OutstandingPosted DEF IInv, TypeOK
  <1>3. UNCHANGED <<contended, callbacks, response, running, topics, subscribers, toClient>>
    BY DEF serverVars
  <1>4. \A o \in Threads, c \in Clients, u \in Topics :
          /\ Subscribing(o, c, u)' <=> Subscribing(o, c, u)
          /\ Cancelling(o, c, u)' <=> Cancelling(o, c, u)
          /\ Working(o, c, u) => \A r : Ends(o, r)' <=> Ends(o, r)
    BY DEF IInv, TypeOK, Subscribing, Cancelling, Working, Ends
  <1> QED
    BY <1>1, <1>2, <1>3, <1>4, SameView DEF IInv

\* A step of th alone, th apart, leaves who is at work on what.
OthersSame(th) ==
  \A o \in Threads \ {th}, c \in Clients, t \in Topics :
    /\ Subscribing(o, c, t)' <=> Subscribing(o, c, t)
    /\ Cancelling(o, c, t)' <=> Cancelling(o, c, t)
    /\ Working(o, c, t)' <=> Working(o, c, t)
    /\ \A r : Ends(o, r)' <=> Ends(o, r)

\* subscribe and cancel have the same first step, but for the callback.
LEMMA BeginStep ==
  ASSUME IInv, NEW th \in Threads, NEW op \in {"subscribe", "cancel"}, NEW t \in Topics,
         Begin(th, op, t), pc' = [pc EXCEPT ![th] = "send"],
         callbacks' \in [Clients -> SUBSET Topics],
         op = "subscribe" => callbacks' = [callbacks EXCEPT ![ClientOf[th]] = @ \cup {t}],
         op = "cancel" => callbacks' = [callbacks EXCEPT ![ClientOf[th]] = @ \ {t}],
         Contend(th, ClientOf[th], t),
         UNCHANGED <<serverVars, response, netVars, running>>
  PROVE  IInv'
  <1> DEFINE me == ClientOf[th]
  <1>0. me \in Clients /\ pc[th] = "idle"
    BY TopicSystemAssumption DEF Begin
  <1>1. TypeOK'
    <2>1. Server!TypeOK'
      BY DEF IInv, TypeOK, Server!TypeOK, serverVars, Server!Nothing
    <2>2. contended' \subseteq Clients \X Topics
      BY <1>0 DEF IInv, TypeOK, Contend
    <2> QED
      BY <1>0, <2>1, <2>2 DEF IInv, TypeOK, Optypes, Begin, netVars
  <1>2. NoMessage(th) /\ response[th] = None
    BY <1>0, Silent DEF IInv, OutstandingOnce
  <1>3. OutstandingOnce'
    BY <1>2, OutstandingLocally DEF IInv, TypeOK
  <1>4. OthersSame(th)
    BY DEF IInv, TypeOK, OthersSame, Subscribing, Cancelling, Working, Ends, Begin
  <1>5. \A c \in Clients, u \in Topics :
          /\ ~Subscribing(th, c, u) /\ ~Cancelling(th, c, u)
          /\ Subscribing(th, c, u)' <=> c = me /\ u = t /\ op = "subscribe"
          /\ Cancelling(th, c, u)' <=> c = me /\ u = t /\ op = "cancel"
          /\ Working(th, c, u)' => c = me /\ u = t
    BY <1>0 DEF IInv, TypeOK, Subscribing, Cancelling, Working, Begin
  <1>6. \A c \in Clients, u \in Topics :
          <<c, u>> \in contended' <=>
            \/ c = me /\ u = t /\ \E o \in Threads \ {th} : Working(o, c, u)
            \/ ~(c = me /\ u = t) /\ <<c, u>> \in contended
    <2>1. CASE \E o \in Threads \ {th} : Working(o, me, t)
      BY <1>0, <2>1 DEF Contend, Working
    <2>2. CASE ~ \E o \in Threads \ {th} : Working(o, me, t)
      BY <1>0, <2>2 DEF Contend, Working
    <2> QED
      BY <2>1, <2>2
  <1>7. \A c \in Clients, u \in Topics :
          u \in callbacks[c] \/ MayBeDeaf(c, u) => u \in callbacks'[c] \/ MayBeDeaf(c, u)'
    <2> SUFFICES ASSUME NEW c \in Clients, NEW u \in Topics,
                        u \in callbacks[c] \/ MayBeDeaf(c, u)
                 PROVE  u \in callbacks'[c] \/ MayBeDeaf(c, u)'
      OBVIOUS
    <2>1. CASE c = me /\ u = t /\ op = "subscribe"
      BY <2>1, <1>0 DEF IInv, TypeOK
    <2>2. CASE c = me /\ u = t /\ op = "cancel"
      BY <2>2, <1>0, <1>5 DEF MayBeDeaf
    <2>3. CASE ~(c = me /\ u = t)
      <3>1. u \in callbacks[c] => u \in callbacks'[c]
        BY <2>3, <1>0 DEF IInv, TypeOK
      <3>2. MayBeDeaf(c, u) => MayBeDeaf(c, u)'
        BY <2>3, <1>4, <1>5, <1>6 DEF MayBeDeaf, OthersSame
      <3> QED
        BY <3>1, <3>2
    <2> QED
      BY <2>1, <2>2, <2>3
  <1>8. UNCHANGED <<topics, subscribers, toClient, response, running>>
    BY DEF serverVars, netVars
  <1>9. GoneTopicsEmpty'
    BY <1>8 DEF IInv, GoneTopicsEmpty
  <1>10. ContentionSeen'
    <2>1. ContentionSeen
      BY DEF IInv
    <2>2. \A a, b \in Threads, c \in Clients, u \in Topics :
            Working(a, c, u)' /\ Working(b, c, u)' /\ a # b => <<c, u>> \in contended'
      BY <1>4, <1>5, <1>6, <2>1 DEF ContentionSeen, OthersSame
    <2> QED
      BY <2>2 DEF ContentionSeen
  <1>11. CallbackFirst'
    <2>1. CallbackFirst
      BY DEF IInv
    <2>2. op = "subscribe" => t \in callbacks'[me]
      BY <1>0 DEF IInv, TypeOK
    <2>3. \A o \in Threads, c \in Clients, u \in Topics :
            Subscribing(o, c, u)' => u \in callbacks'[c] \/ MayBeDeaf(c, u)'
      BY <1>4, <1>5, <1>7, <2>1, <2>2 DEF CallbackFirst, OthersSame
    <2> QED
      BY <2>3 DEF CallbackFirst
  <1>12. AnsweredLast'
    <2>1. AnsweredLast
      BY DEF IInv
    <2>2. \A i : \A c \in Clients, u \in Topics : NoMore(c, u, i)' <=> NoMore(c, u, i)
      BY <1>8 DEF NoMore, Publication
    <2>3. \A o \in Threads, c \in Clients, u \in Topics :
            Working(o, c, u)' /\ <<c, u>> \notin contended' =>
              \/ o = th
              \/ o # th /\ Working(o, c, u) /\ <<c, u>> \notin contended
      BY <1>4, <1>6 DEF OthersSame
    <2>4. \A c \in Clients : \A i \in 1 .. Len(toClient[c]) : ~IsAnswer(toClient[c][i], th)
      BY <1>2 DEF NoMessage
    <2>5. \A o \in Threads \ {th}, c \in Clients, u \in Topics :
            Working(o, c, u)' /\ <<c, u>> \notin contended' =>
              /\ response[o] # None /\ Ends(o, response[o]) =>
                   NoMore(c, u, 0)' /\ running[c] # u
              /\ \A i \in 1 .. Len(toClient[c]) :
                   IsAnswer(toClient[c][i], o) /\ Ends(o, toClient[c][i].rcode) =>
                     NoMore(c, u, i)'
      BY <2>1, <2>2, <2>3 DEF AnsweredLast
    <2>6. \A o \in Threads \ {th} : optype'[o] = optype[o]
      BY DEF Begin, IInv, TypeOK
    <2> QED
      BY <1>2, <1>8, <2>4, <2>5, <2>6 DEF AnsweredLast, IsAnswer, Ends
  <1>13. NoDeafSubscriber' /\ PublicationFindsCallback'
    BY <1>7, <1>8 DEF IInv, NoDeafSubscriber, PublicationFindsCallback, Publication
  <1>14. CancelledIsQuiet'
    BY <1>7, <1>8 DEF IInv, TypeOK, CancelledIsQuiet
  <1> QED
    BY <1>1, <1>3, <1>9, <1>10, <1>11, <1>12, <1>13, <1>14 DEF IInv

LEMMA SubscribeStep ==
  ASSUME IInv, NEW th \in Threads, NEW t \in Topics, Subscribe(th, t)
  PROVE  IInv'
  <1>1. callbacks' \in [Clients -> SUBSET Topics]
    BY TopicSystemAssumption DEF Subscribe, IInv, TypeOK
  <1> QED
    BY <1>1, BeginStep DEF Subscribe

LEMMA CancelStep ==
  ASSUME IInv, NEW th \in Threads, NEW t \in Topics, Cancel(th, t)
  PROVE  IInv'
  <1>1. callbacks' \in [Clients -> SUBSET Topics]
    BY TopicSystemAssumption DEF Cancel, IInv, TypeOK
  <1> QED
    BY <1>1, BeginStep DEF Cancel

\* What an operation leaves behind: whoever loses a callback when it returns has
\* no subscription, no publication on its way and no callback that runs.
LEMMA ReturnStep ==
  ASSUME IInv, NEW th \in Threads, Return(th)
  PROVE  IInv'
  <1> USE DEF Return
  <1> DEFINE me == ClientOf[th]
  <1>0. me \in Clients /\ pc[th] = "waiting" /\ response[th] # None
    BY TopicSystemAssumption
  <1>1. TypeOK'
    <2>1. Server!TypeOK'
      BY DEF IInv, TypeOK, Server!TypeOK, serverVars, Server!Nothing
    <2>2. callbacks' \in [Clients -> SUBSET Topics]
      BY <1>0 DEF IInv, TypeOK
    <2> QED
      BY <2>1, <2>2 DEF IInv, TypeOK, netVars
  <1>2. NoMessage(th)
    BY <1>0, Silent DEF IInv
  <1>3. OutstandingOnce'
    BY <1>2, OutstandingLocally DEF IInv, TypeOK
  <1>4. OthersSame(th)
    BY DEF IInv, TypeOK, OthersSame, Subscribing, Cancelling, Working, Ends
  <1>5. \A c \in Clients, u \in Topics :
          ~Subscribing(th, c, u)' /\ ~Cancelling(th, c, u)' /\ ~Working(th, c, u)'
    BY DEF IInv, TypeOK, Subscribing, Cancelling, Working
  <1>6. UNCHANGED <<topics, subscribers, toClient, running, contended>>
    BY DEF serverVars, netVars
  <1>7. \A c \in Clients, u \in Topics :
          Working(th, c, u) /\ Ends(th, response[th]) /\ <<c, u>> \notin contended =>
            /\ NoMore(c, u, 0) /\ running[c] # u
            /\ \A o \in Threads \ {th} : ~Working(o, c, u)
    BY <1>0 DEF IInv, AnsweredLast, ContentionSeen
  <1>8. \A c \in Clients, u \in Topics :
          u \in callbacks[c] \/ MayBeDeaf(c, u) =>
            \/ u \in callbacks'[c] \/ MayBeDeaf(c, u)'
            \/ Working(th, c, u) /\ Ends(th, response[th]) /\ <<c, u>> \notin contended
    <2>1. \A c \in Clients, u \in Topics :
            u \in callbacks[c] =>
              \/ u \in callbacks'[c]
              \/ Working(th, c, u) /\ Ends(th, response[th])
      BY <1>0 DEF IInv, TypeOK, Working, Subscribing, Ends
    <2>2. \A c \in Clients, u \in Topics :
            Cancelling(th, c, u) => Working(th, c, u) /\ Ends(th, response[th])
      BY DEF Cancelling, Working, Ends
    <2> QED
      BY <1>4, <1>6, <2>1, <2>2 DEF MayBeDeaf, OthersSame
  <1> HIDE DEF Return
  <1>9. GoneTopicsEmpty'
    BY <1>6 DEF IInv, GoneTopicsEmpty
  <1>10. ContentionSeen'
    <2>1. \A a, b \in Threads, c \in Clients, u \in Topics :
            Working(a, c, u)' /\ Working(b, c, u)' /\ a # b => <<c, u>> \in contended'
      BY <1>4, <1>5, <1>6 DEF IInv, ContentionSeen, OthersSame
    <2> QED
      BY <2>1 DEF ContentionSeen
  <1>11. CallbackFirst'
    <2>1. \A o \in Threads \ {th}, c \in Clients, u \in Topics :
            Subscribing(o, c, u)' =>
              Working(o, c, u) /\ (u \in callbacks[c] \/ MayBeDeaf(c, u))
      BY <1>4 DEF IInv, CallbackFirst, OthersSame, Working
    <2>2. \A o \in Threads \ {th}, c \in Clients, u \in Topics :
            Subscribing(o, c, u)' => u \in callbacks'[c] \/ MayBeDeaf(c, u)'
      BY <1>7, <1>8, <2>1
    <2> QED
      BY <1>5, <2>2 DEF CallbackFirst
  <1>12. AnsweredLast'
    <2>1. AnsweredLast
      BY DEF IInv
    <2>2. \A i : \A c \in Clients, u \in Topics : NoMore(c, u, i)' <=> NoMore(c, u, i)
      BY <1>6 DEF NoMore, Publication
    <2>3. \A o \in Threads \ {th} : response'[o] = response[o]
      BY DEF Return, IInv, TypeOK
    <2>4. \A o \in Threads \ {th}, c \in Clients, u \in Topics :
            Working(o, c, u)' /\ <<c, u>> \notin contended =>
              /\ response[o] # None /\ Ends(o, response[o]) =>
                   NoMore(c, u, 0)' /\ running[c] # u
              /\ \A i \in 1 .. Len(toClient[c]) :
                   IsAnswer(toClient[c][i], o) /\ Ends(o, toClient[c][i].rcode) =>
                     NoMore(c, u, i)'
      BY <1>4, <2>1, <2>2 DEF AnsweredLast, OthersSame
    <2>5. \A o \in Threads \ {th} : optype'[o] = optype[o]
      BY DEF Return
    <2> QED
      BY <1>5, <1>6, <2>3, <2>4, <2>5 DEF AnsweredLast, IsAnswer, Ends
  <1>13. NoDeafSubscriber'
    BY <1>6, <1>7, <1>8 DEF IInv, NoDeafSubscriber, NoMore
  <1>14. PublicationFindsCallback'
    <2>1. \A c \in Clients, u \in Topics : NoMore(c, u, 0) =>
            \A i \in 1 .. Len(toClient[c]) : toClient[c][i] # Publication(u)
      BY DEF NoMore
    <2> QED
      BY <1>6, <1>7, <1>8, <2>1 DEF IInv, PublicationFindsCallback, Publication
  <1>15. CancelledIsQuiet'
    BY <1>6, <1>7, <1>8 DEF IInv, TypeOK, CancelledIsQuiet
  <1> QED
    BY <1>1, <1>3, <1>9, <1>10, <1>11, <1>12, <1>13, <1>14, <1>15 DEF IInv

-----------------------------------------------------------------------------
(* The server handles a request.                                             *)

\* Whom the last request was sent on to.
Recipients == IF pushed # Server!Nothing THEN pushed[2] ELSE {}

\* What a client has to read afterwards: what it had, perhaps the publication
\* of a topic it is subscribed to, and for the client that asked the answer.
LEMMA Delivered ==
  ASSUME toClient \in [Clients -> Seq(Messages)], NEW th \in Threads, NEW c \in Clients,
         NEW t \in Topics, reply' \in {"OK", "NOT_FOUND_TOPIC"},
         toClient' = [d \in Clients |->
           IF d = c THEN Append(Push(d, t), Answer(th, reply')) ELSE Push(d, t)]
  PROVE  /\ toClient' \in [Clients -> Seq(Messages)]
         /\ \A d \in Clients : \A i \in 1 .. Len(toClient'[d]) :
              \/ i \in 1 .. Len(toClient[d]) /\ toClient'[d][i] = toClient[d][i]
              \/ d \in Recipients' /\ toClient'[d][i] = Publication(t)
              \/ d = c /\ i = Len(toClient'[d]) /\ toClient'[d][i] = Answer(th, reply')
         /\ \A d \in Clients : Len(toClient'[d]) \in Nat /\ Len(toClient[d]) \in Nat
  <1>1. Publication(t) \in Messages /\ Answer(th, reply') \in Messages
    BY DEF Publication, Answer, Messages
  <1>2. \A s \in Seq(Messages), e \in Messages : Append(s, e) \in Seq(Messages)
    OBVIOUS
  <1> DEFINE push(d) == IF d \in Recipients' THEN Append(toClient[d], Publication(t)) ELSE toClient[d]
  <1>0. \A d : Push(d, t) = push(d)
    BY DEF Push, Recipients
  <1>3. \A d \in Clients : push(d) \in Seq(Messages)
    BY <1>1, <1>2
  <1>4. \A d \in Clients : \A i \in 1 .. Len(push(d)) :
          \/ i \in 1 .. Len(toClient[d]) /\ push(d)[i] = toClient[d][i]
          \/ d \in Recipients' /\ push(d)[i] = Publication(t)
    <2> SUFFICES ASSUME NEW d \in Clients, d \in Recipients', NEW i \in 1 .. Len(push(d))
                 PROVE  \/ i \in 1 .. Len(toClient[d]) /\ push(d)[i] = toClient[d][i]
                        \/ push(d)[i] = Publication(t)
      OBVIOUS
    <2>1. toClient[d] \in Seq(Messages) /\ push(d) = Append(toClient[d], Publication(t))
      OBVIOUS
    <2> HIDE DEF push
    <2> QED
      BY ONLY <1>1, <2>1, Appended, i \in 1 .. Len(push(d))
  <1>5. \A d \in Clients : toClient'[d] = IF d = c THEN Append(push(d), Answer(th, reply'))
                                                  ELSE push(d)
    BY <1>0
  <1> HIDE DEF push
  <1>6. \A d \in Clients : toClient'[d] \in Seq(Messages)
    BY <1>1, <1>2, <1>3, <1>5
  <1>7. \A d \in Clients : \A i \in 1 .. Len(toClient'[d]) :
          \/ i \in 1 .. Len(push(d)) /\ toClient'[d][i] = push(d)[i]
          \/ d = c /\ i = Len(toClient'[d]) /\ toClient'[d][i] = Answer(th, reply')
    <2> SUFFICES ASSUME NEW d \in Clients, d = c, NEW i \in 1 .. Len(toClient'[d])
                 PROVE  \/ i \in 1 .. Len(push(d)) /\ toClient'[d][i] = push(d)[i]
                        \/ i = Len(toClient'[d]) /\ toClient'[d][i] = Answer(th, reply')
      BY <1>5
    <2>1. toClient'[d] = Append(push(d), Answer(th, reply')) /\ push(d) \in Seq(Messages)
      BY <1>3, <1>5
    <2> QED
      BY ONLY <1>1, <2>1, Appended, i \in 1 .. Len(toClient'[d])
  <1>8. \A d \in Clients : Len(toClient'[d]) \in Nat /\ Len(toClient[d]) \in Nat
    <2>1. \A s \in Seq(Messages) : Len(s) \in Nat
      OBVIOUS
    <2> QED
      BY <1>6, <2>1
  <1>9. toClient' \in [Clients -> Seq(Messages)]
    <2>1. toClient' = [d \in Clients |-> toClient'[d]]
      OBVIOUS
    <2> QED
      BY ONLY <1>6, <2>1
  <1> QED
    BY <1>4, <1>7, <1>8, <1>9, SMTT(30)

\* One loop thread takes the first message of channel c; the others stay.
LEMMA Shifted ==
  ASSUME NEW S, NEW chan \in [Clients -> Seq(S)], NEW c \in Clients, chan[c] # <<>>,
         NEW chan1, chan1 = [chan EXCEPT ![c] = Tail(@)]
  PROVE  /\ chan1 \in [Clients -> Seq(S)]
         /\ Head(chan[c]) = chan[c][1] /\ 1 \in 1 .. Len(chan[c])
         /\ \A d \in Clients : \A i \in 1 .. Len(chan1[d]) :
              \/ d # c /\ i \in 1 .. Len(chan[d]) /\ chan1[d][i] = chan[d][i]
              \/ d = c /\ i + 1 \in 1 .. Len(chan[d]) /\ chan1[d][i] = chan[d][i + 1]
         /\ \A d \in Clients : d # c => chan1[d] = chan[d]
         /\ \A d \in Clients : \A i \in 1 .. Len(chan1[d]) : i \in Nat
  <1>1. chan[c] \in Seq(S)
    OBVIOUS
  <1>2. /\ Tail(chan[c]) \in Seq(S)
        /\ Head(chan[c]) = chan[c][1] /\ 1 \in 1 .. Len(chan[c])
        /\ \A i \in 1 .. Len(Tail(chan[c])) :
             i + 1 \in 1 .. Len(chan[c]) /\ Tail(chan[c])[i] = chan[c][i + 1]
    BY ONLY <1>1, chan[c] # <<>>, Taken
  <1>3. chan1[c] = Tail(chan[c]) /\ \A d \in Clients : d # c => chan1[d] = chan[d]
    OBVIOUS
  <1>4. chan1 \in [Clients -> Seq(S)]
    BY <1>2
  <1> QED
    BY ONLY <1>2, <1>3, <1>4, c \in Clients, SMTT(30)

LEMMA HandleStep ==
  ASSUME IInv, NEW c \in Clients, Handle(c)
  PROVE  IInv'
  <1> DEFINE th == Head(toServer[c])
             op == optype[th]
             t == key[th]
  <1>0. /\ toServer \in [Clients -> Seq(Threads)] /\ toServer[c] # <<>>
        /\ toServer' = [toServer EXCEPT ![c] = Tail(@)]
        /\ toClient \in [Clients -> Seq(Messages)]
        /\ UNCHANGED <<callbacks, threadVars, response, running, contended>>
        /\ OnTopicRequest(c, op, t)
        /\ toClient' = [d \in Clients |->
             IF d = c THEN Append(Push(d, t), Answer(th, reply')) ELSE Push(d, t)]
    BY DEF IInv, TypeOK, Handle
  <1>1. /\ toServer' \in [Clients -> Seq(Threads)]
        /\ th = toServer[c][1] /\ 1 \in 1 .. Len(toServer[c])
        /\ \A d \in Clients : \A i \in 1 .. Len(toServer'[d]) :
             \/ d # c /\ i \in 1 .. Len(toServer[d]) /\ toServer'[d][i] = toServer[d][i]
             \/ d = c /\ i + 1 \in 1 .. Len(toServer[d]) /\ toServer'[d][i] = toServer[d][i + 1]
        /\ \A d \in Clients : d # c => toServer'[d] = toServer[d]
        /\ \A d \in Clients : \A i \in 1 .. Len(toServer'[d]) : i \in Nat
    BY ONLY <1>0, Shifted, c \in Clients
  <1>2. th \in Threads
    <2>1. toServer[c] \in Seq(Threads)
      BY <1>0
    <2> QED
      BY ONLY <1>1, <2>1
  <1>3. t \in Topics /\ Pending(th, c)
    BY <1>1, <1>2 DEF IInv, TypeOK, OutstandingOnce, RequestsOnce
  <1> HIDE DEF th, op, t
  <1>4. Server!TypeOK'
    BY <1>0, <1>3, ServerTypes DEF IInv, TypeOK
  <1>5. /\ reply' \in {"OK", "NOT_FOUND_TOPIC"}
        /\ GoneTopicsEmpty'
        /\ \A d \in Clients, u \in Topics :
             d \in subscribers'[u] => \/ d \in subscribers[u]
                                      \/ d = c /\ u = t /\ op = "subscribe" /\ reply' = "OK"
        /\ op = "cancel" \/ (op = "subscribe" /\ reply' # "OK") => c \notin subscribers'[t]
        /\ \A d \in Recipients' : d \in subscribers[t]
    <2>1. Server!TypeOK /\ GoneTopicsEmpty
      BY DEF IInv, TypeOK
    <2> QED
      BY <1>0, <1>3, <2>1, ServerEffect DEF Recipients
  <1>6. /\ toClient' \in [Clients -> Seq(Messages)]
        /\ \A d \in Clients : \A i \in 1 .. Len(toClient'[d]) :
             \/ i \in 1 .. Len(toClient[d]) /\ toClient'[d][i] = toClient[d][i]
             \/ d \in Recipients' /\ toClient'[d][i] = Publication(t)
             \/ d = c /\ i = Len(toClient'[d]) /\ toClient'[d][i] = Answer(th, reply')
        /\ \A d \in Clients : Len(toClient'[d]) \in Nat /\ Len(toClient[d]) \in Nat
    BY ONLY <1>0, <1>2, <1>3, <1>5, Delivered, c \in Clients
  <1>7. TypeOK'
    BY <1>0, <1>1, <1>4, <1>6 DEF IInv, TypeOK, threadVars
  <1>8. \A o, d : Pending(o, d)' <=> Pending(o, d)
    BY <1>0 DEF Pending, threadVars
  <1>9. RequestsOnce /\ AnswersOnce
    BY DEF IInv, OutstandingOnce
  <1>10. \A o \in Threads, d \in Clients : \A i \in 1 .. Len(toClient'[d]) :
           IsAnswer(toClient'[d][i], o) =>
             \/ i \in 1 .. Len(toClient[d]) /\ toClient'[d][i] = toClient[d][i] /\ o # th
             \/ d = c /\ o = th /\ i = Len(toClient'[d])
    <2>1. \A d \in Clients : \A i \in 1 .. Len(toClient[d]) : ~IsAnswer(toClient[d][i], th)
      <3>1. \A d \in Clients : Pending(th, d) => d = c
        BY <1>3 DEF Pending
      <3> QED
        BY <1>1, <1>2, <1>9, <3>1 DEF AnswersOnce
    <2>2. \A o : ~IsAnswer(Publication(t), o) /\ (IsAnswer(Answer(th, reply'), o) => o = th)
      BY DEF IsAnswer, Publication, Answer
    <2> QED
      BY <1>6, <2>1, <2>2
  <1>11. OutstandingOnce'
    <2>1. \A o \in Threads : response'[o] # None => pc'[o] = "waiting"
      BY <1>0 DEF IInv, OutstandingOnce, threadVars
    <2>2. \A d \in Clients : \A i \in 1 .. Len(toServer'[d]) :
            /\ Pending(toServer[d][i], d)'
            /\ \A j \in 1 .. Len(toServer'[d]) : toServer'[d][j] = toServer'[d][i] => j = i
      <3>1. \A d \in Clients : \A i \in 1 .. Len(toServer'[d]) : Pending(toServer'[d][i], d)
        BY <1>1, <1>9 DEF RequestsOnce
      <3>2. \A d \in Clients : \A i, j \in 1 .. Len(toServer'[d]) :
              toServer'[d][j] = toServer'[d][i] => j = i
        BY <1>1, <1>9 DEF RequestsOnce
      <3>3. \A d \in Clients : \A i \in 1 .. Len(toServer'[d]) :
              Pending(toServer[d][i], d)'
        BY <1>0, <3>1 DEF Pending, threadVars
      <3> QED
        BY <3>2, <3>3
    <2>3. \A o \in Threads, d \in Clients : \A j \in 1 .. Len(toServer'[d]) :
            toServer'[d][j] = o =>
              o # th /\ \E k \in 1 .. Len(toServer[d]) : toServer[d][k] = o
      <3>1. \A d \in Clients : Pending(th, d) => d = c
        BY <1>3 DEF Pending
      <3>2. \A d \in Clients : \A k \in 1 .. Len(toServer[d]) :
              toServer[d][k] = th => d = c /\ k = 1
        BY <1>1, <1>9, <3>1 DEF RequestsOnce
      <3>3. \A d \in Clients : \A j \in 1 .. Len(toServer'[d]) : toServer'[d][j] # th
        BY <1>1, <3>2
      <3> QED
        BY <1>1, <3>3
    <2>4. \A d \in Clients, o \in Threads : \A i \in 1 .. Len(toClient'[d]) :
            IsAnswer(toClient'[d][i], o) =>
              /\ Pending(o, d)'
              /\ \A j \in 1 .. Len(toServer'[d]) : toServer'[d][j] # o
              /\ \A j \in 1 .. Len(toClient'[d]) : IsAnswer(toClient'[d][j], o) => j = i
      BY <1>3, <1>8, <1>9, <1>10, <2>3 DEF AnswersOnce
    <2>5. AnswersOnce'
      BY <2>4 DEF AnswersOnce, IsAnswer
    <2> QED
      BY <2>1, <2>2, <2>5 DEF OutstandingOnce, RequestsOnce
  <1>12. ContentionSeen' /\ CallbackFirst'
    BY <1>0, WorkUnchanged DEF IInv, ContentionSeen, CallbackFirst
  <1>13. Working(th, c, t) <=> op \in {"subscribe", "cancel"}
    BY <1>3 DEF Working, Subscribing, Cancelling, Pending, op, t
  <1>14. op = "subscribe" => Subscribing(th, c, t)
    BY <1>3 DEF Subscribing, Pending, op, t
  <1>15. NoDeafSubscriber'
    <2>1. \A d \in Clients, u \in Topics : d \in subscribers'[u] =>
            u \in callbacks[d] \/ MayBeDeaf(d, u)
      BY <1>2, <1>3, <1>5, <1>14 DEF IInv, NoDeafSubscriber, CallbackFirst
    <2> QED
      BY <1>0, <2>1, WorkUnchanged DEF NoDeafSubscriber
  <1>16. PublicationFindsCallback'
    <2>1. \A u \in Topics : /\ Publication(t) = Publication(u) => t = u
                            /\ Answer(th, reply') # Publication(u)
      BY DEF Publication, Answer
    <2>2. \A d \in Clients, u \in Topics : \A i \in 1 .. Len(toClient'[d]) :
            toClient'[d][i] = Publication(u) => u \in callbacks[d] \/ MayBeDeaf(d, u)
      BY <1>5, <1>6, <2>1 DEF IInv, NoDeafSubscriber, PublicationFindsCallback
    <2> QED
      BY <1>0, <2>2, WorkUnchanged DEF PublicationFindsCallback, Publication
  <1>17. CancelledIsQuiet'
    BY <1>0, WorkUnchanged DEF IInv, TypeOK, CancelledIsQuiet
  <1>18. AnsweredLast'
    <2>1. AnsweredLast /\ ContentionSeen
      BY DEF IInv
    <2>2. \A u \in Topics : /\ Publication(t) = Publication(u) => t = u
                            /\ Answer(th, reply') # Publication(u)
      BY DEF Publication, Answer
    \* what held before still holds: nobody but th has a step to make
    <2>3. \A o \in Threads, d \in Clients, u \in Topics, i \in Nat :
            o # th /\ Working(o, d, u) /\ <<d, u>> \notin contended /\ NoMore(d, u, i) =>
              /\ d \notin subscribers'[u]
              /\ \A j \in 1 .. Len(toClient'[d]) : j > i => toClient'[d][j] # Publication(u)
      BY <1>2, <1>3, <1>5, <1>6, <1>13, <2>1, <2>2 DEF NoMore, ContentionSeen
    <2>4. response[th] = None
      BY <1>3 DEF Pending
    <2>5. \A o \in Threads, d \in Clients, u \in Topics :
            Working(o, d, u) /\ <<d, u>> \notin contended /\
              response[o] # None /\ Ends(o, response[o]) =>
                /\ running[d] # u /\ d \notin subscribers'[u]
                /\ \A j \in 1 .. Len(toClient'[d]) : j > 0 => toClient'[d][j] # Publication(u)
      BY <2>1, <2>3, <2>4 DEF AnsweredLast
    <2>6. \A u \in Topics : Working(th, c, u) => u = t
      BY DEF Working, Subscribing, Cancelling, t
    <2>7. \A rcode : Ends(th, rcode) /\ rcode = reply' => c \notin subscribers'[t]
      BY <1>5 DEF Ends, op
    <2>8. \A o \in Threads, d \in Clients, u \in Topics :
            Working(o, d, u) /\ <<d, u>> \notin contended =>
              \A i \in 1 .. Len(toClient'[d]) :
                IsAnswer(toClient'[d][i], o) /\ Ends(o, toClient'[d][i].rcode) =>
                  /\ d \notin subscribers'[u]
                  /\ \A j \in 1 .. Len(toClient'[d]) : j > i => toClient'[d][j] # Publication(u)
      <3> SUFFICES ASSUME NEW o \in Threads, NEW d \in Clients, NEW u \in Topics,
                          Working(o, d, u), <<d, u>> \notin contended,
                          NEW i \in 1 .. Len(toClient'[d]),
                          IsAnswer(toClient'[d][i], o), Ends(o, toClient'[d][i].rcode)
                   PROVE  /\ d \notin subscribers'[u]
                          /\ \A j \in 1 .. Len(toClient'[d]) :
                               j > i => toClient'[d][j] # Publication(u)
        OBVIOUS
      <3>1. CASE i \in 1 .. Len(toClient[d]) /\ toClient'[d][i] = toClient[d][i] /\ o # th
        <4>1. NoMore(d, u, i)
          BY <2>1, <3>1 DEF AnsweredLast
        <4> QED
          BY <2>3, <3>1, <4>1
      <3>2. CASE d = c /\ o = th /\ i = Len(toClient'[d])
        <4>1. toClient'[d][i].rcode = reply'
          <5>1. \A s \in Topics : ~IsAnswer(Publication(s), o)
            BY DEF IsAnswer, Publication
          <5>2. \A k \in 1 .. Len(toClient[d]) : IsAnswer(toClient[d][k], o) =>
                  \A j \in 1 .. Len(toServer[d]) : toServer[d][j] # o
            BY <1>9 DEF AnswersOnce
          <5>3. toClient'[d][i] = Answer(th, reply')
            BY <1>1, <1>3, <1>6, <3>2, <5>1, <5>2
          <5> QED
            BY <5>3 DEF Answer
        <4>2. d \notin subscribers'[u]
          BY <2>6, <2>7, <3>2, <4>1
        <4>3. \A j \in 1 .. Len(toClient'[d]) : ~(j > i)
          BY <1>6, <3>2
        <4> QED
          BY <4>2, <4>3
      <3> QED
        BY <1>10, <3>1, <3>2
    <2>9. \A o, r : Ends(o, r)' <=> Ends(o, r)
      BY <1>0 DEF Ends, threadVars
    <2>10. \A o \in Threads, d \in Clients, u \in Topics :
             Working(o, d, u)' <=> Working(o, d, u)
      BY <1>0, WorkUnchanged
    <2>11. optype' = optype
      BY <1>0 DEF threadVars
    <2>12. \A d \in Clients, u \in Topics, i \in Nat :
             NoMore(d, u, i)' <=>
               /\ d \notin subscribers'[u]
               /\ \A j \in 1 .. Len(toClient'[d]) : j > i => toClient'[d][j] # Publication(u)
      BY DEF NoMore, Publication
    <2>13. \A o \in Threads, d \in Clients, u \in Topics :
             Working(o, d, u)' /\ <<d, u>> \notin contended' =>
               /\ response'[o] # None /\ Ends(o, response[o]) =>
                    NoMore(d, u, 0)' /\ running'[d] # u
               /\ \A i \in 1 .. Len(toClient'[d]) :
                    IsAnswer(toClient'[d][i], o) /\ Ends(o, toClient'[d][i].rcode) =>
                      NoMore(d, u, i)'
      <3>1. \A d \in Clients : \A i \in 1 .. Len(toClient'[d]) : i \in Nat
        BY <1>6
      <3>2. contended' = contended /\ response' = response /\ running' = running
        BY <1>0
      <3>3. \A d \in Clients, u \in Topics : NoMore(d, u, 0)' <=>
              /\ d \notin subscribers'[u]
              /\ \A j \in 1 .. Len(toClient'[d]) : j > 0 => toClient'[d][j] # Publication(u)
        BY <2>12
      <3>4. \A o \in Threads, d \in Clients, u \in Topics :
              Working(o, d, u)' /\ <<d, u>> \notin contended' /\
                response'[o] # None /\ Ends(o, response[o]) =>
                  NoMore(d, u, 0)' /\ running'[d] # u
        BY ONLY <2>5, <2>10, <3>2, <3>3
      <3>5. \A o \in Threads, d \in Clients, u \in Topics :
              Working(o, d, u)' /\ <<d, u>> \notin contended' =>
                \A i \in 1 .. Len(toClient'[d]) :
                  IsAnswer(toClient'[d][i], o) /\ Ends(o, toClient'[d][i].rcode) =>
                    NoMore(d, u, i)'
        BY ONLY <2>8, <2>10, <2>12, <3>1, <3>2
      <3> QED
        BY <3>4, <3>5
    <2> QED
      BY <1>0, <2>11, <2>13 DEF AnsweredLast, IsAnswer, Ends
  <1> QED
    BY <1>5, <1>7, <1>11, <1>12, <1>15, <1>16, <1>17, <1>18 DEF IInv

-----------------------------------------------------------------------------
(* The steps of a loop thread.                                               *)

\* Taking the first message leaves what had been behind it.
LEMMA NoMoreTaken ==
  ASSUME IInv, NEW c \in Clients, NEW kind, Take(c, kind), UNCHANGED subscribers
  PROVE  /\ toClient' \in [Clients -> Seq(Messages)]
         /\ Head(toClient[c]) = toClient[c][1] /\ 1 \in 1 .. Len(toClient[c])
         /\ Head(toClient[c]) \in Messages /\ Head(toClient[c]).kind = kind
         /\ \A d \in Clients : \A i \in 1 .. Len(toClient'[d]) :
              \/ d # c /\ i \in 1 .. Len(toClient[d]) /\ toClient'[d][i] = toClient[d][i]
              \/ d = c /\ i + 1 \in 1 .. Len(toClient[d])
                       /\ toClient'[d][i] = toClient[d][i + 1]
         /\ \A d \in Clients : \A i \in 1 .. Len(toClient'[d]) : i \in Nat
         /\ \A d \in Clients, u \in Topics : NoMore(d, u, 0) => NoMore(d, u, 0)'
         /\ \A d \in Clients, u \in Topics : \A i \in 1 .. Len(toClient'[d]) :
              NoMore(d, u, IF d = c THEN i + 1 ELSE i) => NoMore(d, u, i)'
         /\ \A u \in Topics : NoMore(c, u, 1) => NoMore(c, u, 0)'
  <1>1. /\ toClient \in [Clients -> Seq(Messages)] /\ toClient[c] # <<>>
        /\ toClient' = [toClient EXCEPT ![c] = Tail(@)]
        /\ Head(toClient[c]).kind = kind
    BY DEF IInv, TypeOK, Take
  <1>2. /\ toClient' \in [Clients -> Seq(Messages)]
        /\ Head(toClient[c]) = toClient[c][1] /\ 1 \in 1 .. Len(toClient[c])
        /\ \A d \in Clients : \A i \in 1 .. Len(toClient'[d]) :
             \/ d # c /\ i \in 1 .. Len(toClient[d]) /\ toClient'[d][i] = toClient[d][i]
             \/ d = c /\ i + 1 \in 1 .. Len(toClient[d]) /\ toClient'[d][i] = toClient[d][i + 1]
        /\ \A d \in Clients : \A i \in 1 .. Len(toClient'[d]) : i \in Nat
    BY ONLY <1>1, Shifted, c \in Clients
  <1>3. Head(toClient[c]) \in Messages
    <2>1. toClient[c] \in Seq(Messages)
      BY <1>1
    <2> QED
      BY ONLY <1>2, <2>1
  <1>4. \A d \in Clients, u \in Topics, i \in Nat :
          NoMore(d, u, i)' <=>
            /\ d \notin subscribers[u]
            /\ \A j \in 1 .. Len(toClient'[d]) : j > i => toClient'[d][j] # Publication(u)
    BY DEF NoMore, Publication
  <1>5. \A d \in Clients, u \in Topics : NoMore(d, u, 0) => NoMore(d, u, 0)'
    BY <1>2, <1>4 DEF NoMore
  <1>6. \A d \in Clients, u \in Topics : \A i \in 1 .. Len(toClient'[d]) :
          NoMore(d, u, IF d = c THEN i + 1 ELSE i) => NoMore(d, u, i)'
    <2> SUFFICES ASSUME NEW d \in Clients, NEW u \in Topics, NEW i \in 1 .. Len(toClient'[d]),
                        NoMore(d, u, IF d = c THEN i + 1 ELSE i)
                 PROVE  NoMore(d, u, i)'
      OBVIOUS
    <2>1. CASE d = c
      BY <1>2, <1>4, <2>1, SMTT(30) DEF NoMore
    <2>2. CASE d # c
      BY <1>2, <1>4, <2>2 DEF NoMore
    <2> QED
      BY <2>1, <2>2
  <1>7. \A u \in Topics : NoMore(c, u, 1) => NoMore(c, u, 0)'
    BY <1>2, <1>4 DEF NoMore
  <1> QED
    BY <1>1, <1>2, <1>3, <1>5, <1>6, <1>7

LEMMA OnResponseStep ==
  ASSUME IInv, NEW c \in Clients, OnResponse(c)
  PROVE  IInv'
  <1> DEFINE th == Head(toClient[c]).thread
             rcode == Head(toClient[c]).rcode
  <1>0. /\ Take(c, "answer") /\ running[c] = None
        /\ response' = [response EXCEPT ![th] = rcode]
        /\ UNCHANGED <<serverVars, callbacks, threadVars, toServer, running, contended>>
    BY DEF OnResponse, Take
  <1>1. UNCHANGED <<topics, subscribers>>
    BY <1>0 DEF serverVars
  <1>2. /\ toClient' \in [Clients -> Seq(Messages)]
        /\ Head(toClient[c]) = toClient[c][1] /\ 1 \in 1 .. Len(toClient[c])
        /\ Head(toClient[c]) \in Messages /\ Head(toClient[c]).kind = "answer"
        /\ \A d \in Clients : \A i \in 1 .. Len(toClient'[d]) :
             \/ d # c /\ i \in 1 .. Len(toClient[d]) /\ toClient'[d][i] = toClient[d][i]
             \/ d = c /\ i + 1 \in 1 .. Len(toClient[d]) /\ toClient'[d][i] = toClient[d][i + 1]
        /\ \A d \in Clients : \A i \in 1 .. Len(toClient'[d]) : i \in Nat
    BY <1>0, <1>1, NoMoreTaken
  <1>3. /\ \A d \in Clients, u \in Topics : NoMore(d, u, 0) => NoMore(d, u, 0)'
        /\ \A d \in Clients, u \in Topics : \A i \in 1 .. Len(toClient'[d]) :
             NoMore(d, u, IF d = c THEN i + 1 ELSE i) => NoMore(d, u, i)'
        /\ \A u \in Topics : NoMore(c, u, 1) => NoMore(c, u, 0)'
    BY <1>0, <1>1, NoMoreTaken
  <1>4. th \in Threads /\ rcode \in {"OK", "NOT_FOUND_TOPIC"} /\ IsAnswer(toClient[c][1], th)
    BY <1>2 DEF Messages, IsAnswer
  <1>5. Pending(th, c)
    BY <1>2, <1>4 DEF IInv, OutstandingOnce, AnswersOnce
  <1> HIDE DEF th, rcode
  <1>6. TypeOK'
    <2>1. Server!TypeOK'
      BY <1>0 DEF IInv, TypeOK, Server!TypeOK, serverVars, Server!Nothing
    <2> QED
      BY <1>0, <1>2, <1>4, <2>1 DEF IInv, TypeOK, threadVars
  <1>7. RequestsOnce /\ AnswersOnce
    BY DEF IInv, OutstandingOnce
  <1>8. \A o \in Threads, d \in Clients : \A i \in 1 .. Len(toClient'[d]) :
          IsAnswer(toClient'[d][i], o) => o # th
    <2>1. \A d \in Clients : Pending(th, d) => d = c
      BY <1>5 DEF Pending
    <2>2. \A d \in Clients : \A i \in 1 .. Len(toClient[d]) :
            IsAnswer(toClient[d][i], th) => d = c /\ i = 1
      BY <1>2, <1>4, <1>7, <2>1 DEF AnswersOnce
    <2>3. \A d \in Clients : \A i \in 1 .. Len(toClient'[d]) : ~IsAnswer(toClient'[d][i], th)
      BY <1>2, <2>2
    <2> QED
      BY <2>3
  <1>9. \A o \in Threads \ {th} : \A d : Pending(o, d)' <=> Pending(o, d)
    BY <1>0 DEF Pending, threadVars, IInv, TypeOK
  <1>10. OutstandingOnce'
    <2>1. \A o \in Threads : response'[o] # None => pc'[o] = "waiting"
      BY <1>0, <1>4, <1>5 DEF IInv, TypeOK, OutstandingOnce, threadVars, Pending
    <2>2. \A d \in Clients : \A i \in 1 .. Len(toServer[d]) : toServer[d][i] # th
      <3>1. \A d \in Clients : Pending(th, d) => d = c
        BY <1>5 DEF Pending
      <3>2. \A i \in 1 .. Len(toServer[c]) : toServer[c][i] # th
        BY <1>2, <1>4, <1>7 DEF AnswersOnce
      <3> QED
        BY <1>7, <3>1, <3>2 DEF RequestsOnce
    <2>3. RequestsOnce'
      <3>1. \A d \in Clients : \A i \in 1 .. Len(toServer[d]) :
              toServer[d][i] \in Threads \ {th} /\ Pending(toServer[d][i], d)
        BY <1>7, <2>2 DEF RequestsOnce, IInv, TypeOK
      <3>2. \A d \in Clients : \A i \in 1 .. Len(toServer[d]) :
              Pending(toServer[d][i], d)'
        BY <1>0, <3>1 DEF Pending, threadVars, IInv, TypeOK
      <3> QED
        BY <1>0, <1>7, <3>2 DEF RequestsOnce
    <2>4. \A d \in Clients, o \in Threads : \A i \in 1 .. Len(toClient'[d]) :
            IsAnswer(toClient'[d][i], o) =>
              /\ Pending(o, d)'
              /\ \A j \in 1 .. Len(toServer'[d]) : toServer'[d][j] # o
              /\ \A j \in 1 .. Len(toClient'[d]) : IsAnswer(toClient'[d][j], o) => j = i
      BY <1>0, <1>2, <1>7, <1>8, <1>9 DEF AnswersOnce
    <2>5. AnswersOnce'
      BY <2>4 DEF AnswersOnce, IsAnswer
    <2> QED
      BY <2>1, <2>3, <2>5 DEF OutstandingOnce
  <1>11. GoneTopicsEmpty' /\ ContentionSeen' /\ CallbackFirst' /\ NoDeafSubscriber'
    BY <1>0, <1>1, WorkUnchanged
       DEF IInv, GoneTopicsEmpty, ContentionSeen, CallbackFirst, NoDeafSubscriber
  <1>12. CancelledIsQuiet'
    BY <1>0, WorkUnchanged DEF IInv, TypeOK, CancelledIsQuiet
  <1>13. PublicationFindsCallback'
    <2>1. \A d \in Clients, u \in Topics : \A i \in 1 .. Len(toClient'[d]) :
            toClient'[d][i] = Publication(u) => u \in callbacks[d] \/ MayBeDeaf(d, u)
      BY <1>2 DEF IInv, PublicationFindsCallback
    <2> QED
      BY <1>0, <2>1, WorkUnchanged DEF PublicationFindsCallback, Publication
  <1>14. AnsweredLast'
    <2>1. AnsweredLast
      BY DEF IInv
    <2>2. \A o \in Threads, d \in Clients, u \in Topics :
            Working(o, d, u)' <=> Working(o, d, u)
      BY <1>0, WorkUnchanged
    <2>3. \A d \in Clients, u \in Topics : Working(th, d, u) => d = c
      BY <1>5 DEF Working, Subscribing, Cancelling, Pending
    <2>4. \A u \in Topics : Working(th, c, u) /\ <<c, u>> \notin contended /\ Ends(th, rcode) =>
            NoMore(c, u, 0)' /\ running[c] # u
      <3>1. toClient[c][1].rcode = rcode
        BY <1>2 DEF rcode
      <3>2. \A u \in Topics : running[c] # u
        BY <1>0, TopicSystemAssumption
      <3> QED
        BY <1>2, <1>3, <1>4, <2>1, <3>1, <3>2 DEF AnsweredLast
    <2>5. \A o \in Threads, d \in Clients, u \in Topics :
            Working(o, d, u) /\ <<d, u>> \notin contended /\
              response'[o] # None /\ Ends(o, response'[o]) => NoMore(d, u, 0)' /\ running[d] # u
      <3>1. response'[th] = rcode
        BY <1>0, <1>4 DEF IInv, TypeOK
      <3>2. \A o \in Threads \ {th} : response'[o] = response[o]
        BY <1>0 DEF IInv, TypeOK
      <3>3. \A o \in Threads \ {th}, d \in Clients, u \in Topics :
              Working(o, d, u) /\ <<d, u>> \notin contended /\
                response[o] # None /\ Ends(o, response[o]) => NoMore(d, u, 0)' /\ running[d] # u
        BY <1>3, <2>1 DEF AnsweredLast
      <3> QED
        BY <2>3, <2>4, <3>1, <3>2, <3>3
    <2>6. \A o \in Threads, d \in Clients, u \in Topics :
            Working(o, d, u) /\ <<d, u>> \notin contended =>
              \A i \in 1 .. Len(toClient'[d]) :
                IsAnswer(toClient'[d][i], o) /\ Ends(o, toClient'[d][i].rcode) =>
                  NoMore(d, u, i)'
      BY <1>2, <1>3, <2>1 DEF AnsweredLast
    <2>7. contended' = contended /\ running' = running /\ optype' = optype
      BY <1>0 DEF threadVars
    <2> QED
      BY <2>2, <2>5, <2>6, <2>7 DEF AnsweredLast, IsAnswer, Ends
  <1> QED
    BY <1>6, <1>10, <1>11, <1>12, <1>13, <1>14 DEF IInv

LEMMA OnPublishStep ==
  ASSUME IInv, NEW c \in Clients, OnPublish(c)
  PROVE  IInv'
  <1> DEFINE t == Head(toClient[c]).topic
  <1>0. /\ Take(c, "publication")
        /\ running' = [running EXCEPT ![c] = IF t \in callbacks[c] THEN t ELSE None]
        /\ UNCHANGED <<serverVars, callbacks, threadVars, response, toServer, contended>>
    BY DEF OnPublish
  <1>1. UNCHANGED <<topics, subscribers>>
    BY <1>0 DEF serverVars
  <1>2. /\ toClient' \in [Clients -> Seq(Messages)]
        /\ Head(toClient[c]) = toClient[c][1] /\ 1 \in 1 .. Len(toClient[c])
        /\ Head(toClient[c]) \in Messages /\ Head(toClient[c]).kind = "publication"
        /\ \A d \in Clients : \A i \in 1 .. Len(toClient'[d]) :
             \/ d # c /\ i \in 1 .. Len(toClient[d]) /\ toClient'[d][i] = toClient[d][i]
             \/ d = c /\ i + 1 \in 1 .. Len(toClient[d]) /\ toClient'[d][i] = toClient[d][i + 1]
        /\ \A d \in Clients : \A i \in 1 .. Len(toClient'[d]) : i \in Nat
    BY <1>0, <1>1, NoMoreTaken
  <1>3. /\ \A d \in Clients, u \in Topics : NoMore(d, u, 0) => NoMore(d, u, 0)'
        /\ \A d \in Clients, u \in Topics : \A i \in 1 .. Len(toClient'[d]) :
             NoMore(d, u, IF d = c THEN i + 1 ELSE i) => NoMore(d, u, i)'
    BY <1>0, <1>1, NoMoreTaken
  <1>4. t \in Topics /\ toClient[c][1] = Publication(t)
    BY <1>2 DEF Messages, Publication
  <1> HIDE DEF t
  <1>5. TypeOK'
    <2>1. Server!TypeOK'
      BY <1>0 DEF IInv, TypeOK, Server!TypeOK, serverVars, Server!Nothing
    <2> QED
      BY <1>0, <1>2, <1>4, <2>1 DEF IInv, TypeOK, threadVars
  <1>6. OutstandingOnce'
    <2>1. RequestsOnce /\ AnswersOnce
      BY DEF IInv, OutstandingOnce
    <2>2. \A o, d : Pending(o, d)' <=> Pending(o, d)
      BY <1>0 DEF Pending, threadVars
    <2>3. \A d \in Clients, o \in Threads : \A i \in 1 .. Len(toClient'[d]) :
            IsAnswer(toClient'[d][i], o) =>
              /\ Pending(o, d)'
              /\ \A j \in 1 .. Len(toServer'[d]) : toServer'[d][j] # o
              /\ \A j \in 1 .. Len(toClient'[d]) : IsAnswer(toClient'[d][j], o) => j = i
      <3>1. \A d \in Clients, o \in Threads : \A i \in 1 .. Len(toClient'[d]) :
              IsAnswer(toClient'[d][i], o) =>
                Pending(o, d) /\ \A j \in 1 .. Len(toServer[d]) : toServer[d][j] # o
        BY <1>2, <2>1 DEF AnswersOnce
      <3>2. \A d \in Clients, o \in Threads : \A i, j \in 1 .. Len(toClient'[d]) :
              IsAnswer(toClient'[d][i], o) /\ IsAnswer(toClient'[d][j], o) => j = i
        BY <1>2, <2>1 DEF AnswersOnce
      <3>3. toServer' = toServer
        BY <1>0
      <3> QED
        BY <2>2, <3>1, <3>2, <3>3
    <2>4. AnswersOnce'
      BY <2>3 DEF AnswersOnce, IsAnswer
    <2>5. RequestsOnce'
      BY <1>0, <2>1, <2>2 DEF RequestsOnce, Pending, threadVars
    <2>6. \A o \in Threads : response'[o] # None => pc'[o] = "waiting"
      BY <1>0 DEF IInv, OutstandingOnce, threadVars
    <2> QED
      BY <2>4, <2>5, <2>6 DEF OutstandingOnce
  <1>7. GoneTopicsEmpty' /\ ContentionSeen' /\ CallbackFirst' /\ NoDeafSubscriber'
    BY <1>0, <1>1, WorkUnchanged
       DEF IInv, GoneTopicsEmpty, ContentionSeen, CallbackFirst, NoDeafSubscriber
  <1>8. \A d \in Clients : running'[d] # None =>
          \/ running'[d] = running[d]
          \/ d = c /\ running'[d] = t /\ t \in callbacks[c]
    BY <1>0 DEF IInv, TypeOK
  <1>9. CancelledIsQuiet'
    <2>1. \A d \in Clients : running'[d] # None =>
            /\ running'[d] \in Topics
            /\ running'[d] \in callbacks[d] \/ MayBeDeaf(d, running'[d])
      BY <1>4, <1>8 DEF IInv, TypeOK, CancelledIsQuiet
    <2>2. \A d \in Clients, u \in Topics : MayBeDeaf(d, u)' <=> MayBeDeaf(d, u)
      BY <1>0, WorkUnchanged
    <2> QED
      BY <1>0, <2>1, <2>2 DEF CancelledIsQuiet, MayBeDeaf, Cancelling, threadVars
  <1>10. PublicationFindsCallback'
    <2>1. \A d \in Clients, u \in Topics : \A i \in 1 .. Len(toClient'[d]) :
            toClient'[d][i] = Publication(u) => u \in callbacks[d] \/ MayBeDeaf(d, u)
      BY <1>2, SMTT(30) DEF IInv, PublicationFindsCallback
    <2> QED
      BY <1>0, <2>1, WorkUnchanged DEF PublicationFindsCallback, Publication
  <1>11. AnsweredLast'
    <2>1. AnsweredLast
      BY DEF IInv
    <2>2. \A o \in Threads, d \in Clients, u \in Topics :
            Working(o, d, u)' <=> Working(o, d, u)
      BY <1>0, WorkUnchanged
    <2>3. \A u \in Topics : NoMore(c, u, 0) => t # u
      BY <1>2, <1>4 DEF NoMore
    <2>4. \A o \in Threads, d \in Clients, u \in Topics :
            Working(o, d, u) /\ <<d, u>> \notin contended /\
              response[o] # None /\ Ends(o, response[o]) => NoMore(d, u, 0)' /\ running'[d] # u
      <3>1. \A o \in Threads, d \in Clients, u \in Topics :
              Working(o, d, u) /\ <<d, u>> \notin contended /\
                response[o] # None /\ Ends(o, response[o]) => NoMore(d, u, 0) /\ running[d] # u
        BY <2>1 DEF AnsweredLast
      <3>2. \A u \in Topics : u # None
        BY TopicSystemAssumption
      <3> QED
        BY <1>3, <1>8, <2>3, <3>1, <3>2
    <2>5. \A o \in Threads, d \in Clients, u \in Topics :
            Working(o, d, u) /\ <<d, u>> \notin contended =>
              \A i \in 1 .. Len(toClient'[d]) :
                IsAnswer(toClient'[d][i], o) /\ Ends(o, toClient'[d][i].rcode) =>
                  NoMore(d, u, i)'
      BY <1>2, <1>3, <2>1 DEF AnsweredLast
    <2>6. contended' = contended /\ response' = response /\ optype' = optype
      BY <1>0 DEF threadVars
    <2> QED
      BY <2>2, <2>4, <2>5, <2>6 DEF AnsweredLast, IsAnswer, Ends
  <1> QED
    BY <1>5, <1>6, <1>7, <1>9, <1>10, <1>11 DEF IInv

LEMMA CallbackReturnsStep ==
  ASSUME IInv, NEW c \in Clients, CallbackReturns(c)
  PROVE  IInv'
  <1> USE DEF CallbackReturns
  <1>1. TypeOK'
    <2>1. Server!TypeOK'
      BY DEF IInv, TypeOK, Server!TypeOK, serverVars, Server!Nothing
    <2> QED
      BY <2>1 DEF IInv, TypeOK, threadVars, netVars
  <1>2. \A d \in Clients : running'[d] = running[d] \/ running'[d] = None
    BY DEF IInv, TypeOK
  <1>3. UNCHANGED <<topics, subscribers, callbacks, threadVars, response, netVars, contended>>
    BY DEF serverVars
  <1> HIDE DEF CallbackReturns
  <1>4. OutstandingOnce'
    BY <1>3 DEF IInv, OutstandingOnce, RequestsOnce, AnswersOnce, Pending, IsAnswer, threadVars, netVars
  <1>5. GoneTopicsEmpty' /\ ContentionSeen' /\ CallbackFirst' /\ NoDeafSubscriber'
        /\ PublicationFindsCallback'
    BY <1>3, WorkUnchanged
       DEF IInv, GoneTopicsEmpty, ContentionSeen, CallbackFirst, NoDeafSubscriber,
           PublicationFindsCallback, Publication, netVars
  <1>6. CancelledIsQuiet'
    BY <1>2, <1>3, WorkUnchanged DEF IInv, TypeOK, CancelledIsQuiet
  <1>7. AnsweredLast'
    <2>1. AnsweredLast
      BY DEF IInv
    <2>2. \A i : \A d \in Clients, t \in Topics : NoMore(d, t, i)' <=> NoMore(d, t, i)
      BY <1>3 DEF NoMore, Publication, netVars
    <2>3. \A t \in Topics : t # None
      BY TopicSystemAssumption
    <2>4. \A o \in Threads, d \in Clients, t \in Topics :
            Working(o, d, t)' <=> Working(o, d, t)
      BY <1>3, WorkUnchanged
    <2> QED
      BY <1>2, <1>3, <2>1, <2>2, <2>3, <2>4
         DEF AnsweredLast, IsAnswer, Ends, threadVars, netVars
  <1> QED
    BY <1>1, <1>4, <1>5, <1>6, <1>7 DEF IInv

LEMMA StutterStep == IInv /\ UNCHANGED vars => IInv'
  <1> SUFFICES ASSUME IInv, UNCHANGED vars PROVE IInv'
    OBVIOUS
  <1> USE DEF vars, serverVars, threadVars, netVars
  <1>1. TypeOK'
    BY DEF IInv, TypeOK, Server!TypeOK, Server!Nothing
  <1>2. OutstandingOnce'
    BY DEF IInv, OutstandingOnce, RequestsOnce, AnswersOnce, Pending, IsAnswer
  <1>3. \A o \in Threads, c \in Clients, u \in Topics :
          /\ Subscribing(o, c, u)' <=> Subscribing(o, c, u)
          /\ Cancelling(o, c, u)' <=> Cancelling(o, c, u)
          /\ Working(o, c, u) => \A r : Ends(o, r)' <=> Ends(o, r)
    BY DEF Subscribing, Cancelling, Ends
  <1> QED
    BY <1>1, <1>2, <1>3, SameView DEF IInv

-----------------------------------------------------------------------------
(* The theorems.                                                             *)

LEMMA IInvStep == IInv /\ [Next]_vars => IInv'
  <1> SUFFICES ASSUME IInv, [Next]_vars PROVE IInv'
    OBVIOUS
  <1>1. CASE UNCHANGED vars
    BY <1>1, StutterStep
  <1>2. ASSUME NEW c \in Clients, Connect(c) \/ Disconnect(c) \/ Handle(c) \/ LoopStep(c)
        PROVE  IInv'
    BY <1>2, ConnectStep, DisconnectStep, HandleStep, OnResponseStep, OnPublishStep,
       CallbackReturnsStep DEF LoopStep
  <1>3. ASSUME NEW th \in Threads, UserStep(th) \/ Progress(th)
        PROVE  IInv'
    BY <1>3, RequestStep, SubscribeStep, CancelStep, CommonRequestStep, ReturnStep
       DEF UserStep, Progress
  <1> QED
    BY <1>1, <1>2, <1>3 DEF Next

LEMMA IInvAlways == Spec => []IInv
  BY InitIInv, IInvStep, PTL DEF Spec

\* Types: channels carry the requests of waiting threads, answers, publications.
THEOREM TypeCorrect == Spec => []TypeOK
  <1>1. IInv => TypeOK
    BY DEF IInv
  <1> QED
    BY <1>1, IInvAlways, PTL

\* Whoever the server holds as a subscriber has a callback, unless a cancellation
\* is at work or operations of two threads on the topic were mixed.
THEOREM SubscribersAlwaysHeard == Spec => []NoDeafSubscriber
  <1>1. IInv => NoDeafSubscriber
    BY DEF IInv
  <1> QED
    BY <1>1, IInvAlways, PTL

\* Each publication on its way finds the callback of its subscription.
THEOREM PublicationAlwaysFindsCallback == Spec => []PublicationFindsCallback
  <1>1. IInv => PublicationFindsCallback
    BY DEF IInv
  <1> QED
    BY <1>1, IInvAlways, PTL

\* After cancel has returned, no callback of the topic runs any more.
THEOREM CancelledAlwaysQuiet == Spec => []CancelledIsQuiet
  <1>1. IInv => CancelledIsQuiet
    BY DEF IInv
  <1> QED
    BY <1>1, IInvAlways, PTL

\* The composition runs the server: what is proved of TopicServer holds here.
THEOREM ComposesServer == Spec => Server!Spec
  <1>1. Init => Server!Init
    BY DEF Init
  <1>2. IInv /\ [Next]_vars => [Server!Next]_Server!vars
    <2> SUFFICES ASSUME IInv, [Next]_vars PROVE [Server!Next]_Server!vars
      OBVIOUS
    <2> USE DEF serverVars, Server!vars, Server!connVars, Server!tableVars
    <2>1. CASE UNCHANGED vars
      BY <2>1 DEF vars
    <2>2. ASSUME NEW c \in Clients, Connect(c) \/ Disconnect(c)
          PROVE  [Server!Next]_Server!vars
      BY <2>2 DEF Connect, Disconnect, Server!Next
    <2>3. ASSUME NEW c \in Clients, Handle(c)
          PROVE  Server!Next
      <3>1. Head(toServer[c]) \in Threads
        <4>1. toServer[c] \in Seq(Threads) /\ toServer[c] # <<>>
          BY <2>3 DEF Handle, IInv, TypeOK
        <4> QED
          BY ONLY <4>1, Taken
      <3>2. key[Head(toServer[c])] \in Topics
        BY <3>1 DEF IInv, TypeOK
      <3>3. OnTopicRequest(c, optype[Head(toServer[c])], key[Head(toServer[c])])
        BY <2>3 DEF Handle
      <3> QED
        BY <3>2, <3>3 DEF OnTopicRequest, Server!Next
    <2>4. ASSUME NEW c \in Clients, LoopStep(c)
          PROVE  [Server!Next]_Server!vars
      BY <2>4 DEF LoopStep, OnResponse, OnPublish, CallbackReturns
    <2>5. ASSUME NEW th \in Threads, UserStep(th) \/ Progress(th)
          PROVE  [Server!Next]_Server!vars
      BY <2>5 DEF UserStep, Progress, Request, Subscribe, Cancel, CommonRequest, Return
    <2> QED
      BY <2>1, <2>2, <2>3, <2>4, <2>5 DEF Next
  <1> QED
    BY <1>1, <1>2, IInvAlways, PTL DEF Spec, Server!Spec

-----------------------------------------------------------------------------
(* Who waits is served.                                                      *)

\* Messages that stay in a channel that gets longer or whose first was taken.
LEMMA KeptByAppend ==
  ASSUME NEW S, NEW s \in Seq(S), NEW e \in S
  PROVE  /\ \A i \in 1 .. Len(s) : i \in 1 .. Len(Append(s, e)) /\ Append(s, e)[i] = s[i]
         /\ Len(s) + 1 \in 1 .. Len(Append(s, e)) /\ Append(s, e)[Len(s) + 1] = e
OBVIOUS

LEMMA KeptByTail ==
  ASSUME NEW S, NEW s \in Seq(S), s # <<>>, NEW i \in 1 .. Len(s)
  PROVE  s[i] = Head(s) \/ \E j \in 1 .. Len(Tail(s)) : Tail(s)[j] = s[i]
  <1>1. CASE i = 1
    BY <1>1
  <1>2. CASE i # 1
    <2>1. i - 1 \in 1 .. Len(Tail(s)) /\ Tail(s)[i - 1] = s[i]
      BY <1>2
    <2> QED
      BY <2>1
  <1> QED
    BY <1>1, <1>2

WInv == IInv /\ WaitersServed /\ BegunConnected

\* A step of th alone: nobody else begins to wait, and messages stay.
LEMMA OthersServed ==
  ASSUME WInv, NEW th \in Threads,
         \A o \in Threads \ {th} : pc'[o] = pc[o] /\ response'[o] = response[o],
         \A o \in Threads, c \in Clients : /\ Queued(o, c) => Queued(o, c)'
                                           /\ Answered(o, c) => Answered(o, c)',
         UNCHANGED <<open, closed>>,
         pc'[th] # "idle" => ClientOf[th] \in open \cup closed,
         \A c \in Clients : Pending(th, c)' /\ c \in open => Queued(th, c)' \/ Answered(th, c)'
  PROVE  WaitersServed' /\ BegunConnected'
<1>1. \A o \in Threads \ {th}, c \in Clients : Pending(o, c)' => Pending(o, c)
  BY DEF Pending
<1>2. WaitersServed'
  BY <1>1 DEF WInv, WaitersServed
<1>3. BegunConnected'
  BY DEF WInv, BegunConnected
<1> QED
  BY <1>2, <1>3

\* The same messages are on their way.
LEMMA SameServed ==
  ASSUME UNCHANGED netVars, NEW th, NEW c
  PROVE  (Queued(th, c)' <=> Queued(th, c)) /\ (Answered(th, c)' <=> Answered(th, c))
BY DEF Queued, Answered, IsAnswer, netVars

\* A request that is posted over a connection that is up is on its way.
LEMMA PostServes ==
  ASSUME toServer \in [Clients -> Seq(Threads)], NEW th \in Threads, Post(th)
  PROVE  /\ \A o \in Threads, c \in Clients : Queued(o, c) => Queued(o, c)'
         /\ ClientOf[th] \in open => Queued(th, ClientOf[th])'
<1> DEFINE d == ClientOf[th]
<1>1. d \in Clients /\ toServer[d] \in Seq(Threads)
  BY TopicSystemAssumption
<1>2. CASE d \in open
  <2>1. toServer'[d] = Append(toServer[d], th) /\ \A c \in Clients : c # d => toServer'[c] = toServer[c]
    BY <1>1, <1>2 DEF Post
  <2>2. /\ \A i \in 1 .. Len(toServer[d]) :
             i \in 1 .. Len(toServer'[d]) /\ toServer'[d][i] = toServer[d][i]
        /\ \E i \in 1 .. Len(toServer'[d]) : toServer'[d][i] = th
    BY <1>1, <2>1, KeptByAppend
  <2>3. Queued(th, d)'
    BY <2>2 DEF Queued
  <2>4. \A o \in Threads, c \in Clients : Queued(o, c) => Queued(o, c)'
    BY <2>1, <2>2 DEF Queued
  <2> QED
    BY <2>3, <2>4
<1>3. CASE d \notin open
  <2>1. \A c \in Clients : toServer'[c] = toServer[c]
    BY <1>1, <1>3 DEF Post
  <2> QED
    BY <1>3, <2>1 DEF Queued
<1> QED
  BY <1>2, <1>3

LEMMA UserServed ==
  ASSUME WInv, NEW th \in Threads, UserStep(th) \/ Progress(th)
  PROVE  WaitersServed' /\ BegunConnected'
<1>1. /\ pc \in [Threads -> {"idle", "send", "waiting"}]
      /\ response \in [Threads -> {None, "OK", "NOT_FOUND_TOPIC"}]
      /\ toServer \in [Clients -> Seq(Threads)]
      /\ BegunConnected
      /\ response[th] # None => pc[th] = "waiting"
  BY DEF WInv, IInv, TypeOK, OutstandingOnce
<1>2. CASE \E op, t : Request(th, op, t)
  <2>1. /\ ClientOf[th] \in open /\ pc[th] = "idle"
        /\ pc' = [pc EXCEPT ![th] = "waiting"] /\ Post(th)
        /\ UNCHANGED <<response, toClient, open, closed>>
    BY <1>2 DEF Request, Begin, serverVars
  <2>2. \A o \in Threads, c \in Clients : Answered(o, c) => Answered(o, c)'
    BY <2>1 DEF Answered, IsAnswer
  <2>3. \A c \in Clients : Pending(th, c)' => c = ClientOf[th]
    BY DEF Pending
  <2> QED
    BY <1>1, <2>1, <2>2, <2>3, PostServes, OthersServed
<1>3. CASE CommonRequest(th)
  <2>1. /\ pc[th] = "send" /\ pc' = [pc EXCEPT ![th] = "waiting"] /\ Post(th)
        /\ UNCHANGED <<response, toClient, open, closed>>
    BY <1>3 DEF CommonRequest, serverVars
  <2>2. \A o \in Threads, c \in Clients : Answered(o, c) => Answered(o, c)'
    BY <2>1 DEF Answered, IsAnswer
  <2>3. \A c \in Clients : Pending(th, c)' => c = ClientOf[th]
    BY DEF Pending
  <2>4. ClientOf[th] \in open \cup closed
    BY <1>1, <2>1 DEF BegunConnected
  <2> QED
    BY <1>1, <2>1, <2>2, <2>3, <2>4, PostServes, OthersServed
<1>4. CASE (\E t : Subscribe(th, t) \/ Cancel(th, t)) \/ Return(th)
  <2>1. PICK to \in {"send", "idle"} :
          /\ pc' = [pc EXCEPT ![th] = to]
          /\ to = "send" => ClientOf[th] \in open
    BY <1>4 DEF Subscribe, Cancel, Return, Begin
  <2>2. /\ UNCHANGED <<netVars, open, closed>>
        /\ \A o \in Threads \ {th} : response'[o] = response[o]
    BY <1>1, <1>4 DEF Subscribe, Cancel, Return, serverVars
  <2>3. pc'[th] = to /\ \A o \in Threads \ {th} : pc'[o] = pc[o]
    BY <1>1, <2>1
  <2>4. \A o \in Threads, c \in Clients : /\ Queued(o, c) => Queued(o, c)'
                                          /\ Answered(o, c) => Answered(o, c)'
    BY <2>2, SameServed
  <2>5. \A c \in Clients : ~Pending(th, c)'
    BY <2>3 DEF Pending
  <2>6. pc'[th] # "idle" => ClientOf[th] \in open \cup closed
    BY <2>1, <2>3
  <2> QED
    BY <2>2, <2>3, <2>4, <2>5, <2>6, OthersServed
<1> QED
  BY <1>2, <1>3, <1>4 DEF UserStep, Progress

\* A step of no thread, that leaves every request or answer where it is or
\* turns the one into the other.
LEMMA NobodyBegins ==
  ASSUME WInv, UNCHANGED <<threadVars, open, closed>>,
         \A th \in Threads, c \in Clients :
           Pending(th, c)' => /\ Pending(th, c)
                              /\ Queued(th, c) \/ Answered(th, c)
                                   => Queued(th, c)' \/ Answered(th, c)'
  PROVE  WaitersServed' /\ BegunConnected'
BY DEF WInv, WaitersServed, BegunConnected, threadVars

LEMMA ConnectionServed ==
  ASSUME WInv, NEW c \in Clients, Connect(c) \/ Disconnect(c)
  PROVE  WaitersServed' /\ BegunConnected'
<1>1. UNCHANGED <<threadVars, response>>
  BY DEF Connect, Disconnect
<1>2. \A th, d : Pending(th, d)' <=> Pending(th, d)
  BY <1>1 DEF Pending, threadVars
<1>3. /\ toServer \in [Clients -> Seq(Threads)] /\ toClient \in [Clients -> Seq(Messages)]
      /\ WaitersServed /\ BegunConnected
  BY DEF WInv, IInv, TypeOK
<1>4. CASE Connect(c)
  <2>1. /\ c \notin open \cup closed /\ open' = open \cup {c} /\ closed' = closed
        /\ UNCHANGED netVars
    BY <1>4 DEF Connect, Server!Connect
  <2>2. \A th : ~Pending(th, c) \/ th \notin Threads
    BY <1>3, <2>1 DEF Pending, BegunConnected
  <2>3. \A th, d : (Queued(th, d)' <=> Queued(th, d)) /\ (Answered(th, d)' <=> Answered(th, d))
    BY <2>1, SameServed
  <2>4. WaitersServed'
    BY <1>2, <1>3, <2>1, <2>2, <2>3 DEF WaitersServed
  <2>5. BegunConnected'
    BY <1>1, <1>3, <2>1 DEF BegunConnected, threadVars
  <2> QED
    BY <2>4, <2>5
<1>5. CASE Disconnect(c)
  <2>1. /\ open' = open \ {c} /\ closed' = closed \cup {c}
        /\ \A d \in Clients : d # c => toServer'[d] = toServer[d] /\ toClient'[d] = toClient[d]
    BY <1>3, <1>5 DEF Disconnect, Server!Disconnect
  <2>2. ASSUME NEW th \in Threads, NEW d \in Clients, d # c
        PROVE  (Queued(th, d)' <=> Queued(th, d)) /\ (Answered(th, d)' <=> Answered(th, d))
    BY <2>1, <2>2 DEF Queued, Answered, IsAnswer
  <2>3. WaitersServed'
    BY <1>2, <1>3, <2>1, <2>2 DEF WaitersServed
  <2>4. BegunConnected'
    BY <1>1, <1>3, <2>1 DEF BegunConnected, threadVars
  <2> QED
    BY <2>3, <2>4
<1> QED
  BY <1>4, <1>5

\* The request at the head is answered; the others move up.
LEMMA HandleServed ==
  ASSUME WInv, NEW c \in Clients, Handle(c)
  PROVE  WaitersServed' /\ BegunConnected'
<1> DEFINE s == toServer[c]
<1>1. /\ s # <<>> /\ toServer' = [toServer EXCEPT ![c] = Tail(@)]
      /\ UNCHANGED <<threadVars, response>>
  BY DEF Handle
<1>2. /\ toServer \in [Clients -> Seq(Threads)] /\ toClient \in [Clients -> Seq(Messages)]
      /\ key \in [Threads -> Topics] /\ RequestsOnce
  BY DEF WInv, IInv, TypeOK, OutstandingOnce
<1>3. PICK th \in Threads : th = Head(s) /\ Pending(th, c)
  <2>1. s \in Seq(Threads)
    BY <1>2
  <2>2. Head(s) = s[1] /\ 1 \in 1 .. Len(s) /\ Head(s) \in Threads
    BY ONLY <1>1, <2>1
  <2> QED
    BY <1>2, <2>2 DEF RequestsOnce
<1>4. PICK t \in Topics : t = key[th]
  BY <1>2
<1>0. /\ OnTopicRequest(c, optype[th], t)
      /\ toClient' = [d \in Clients |->
           IF d = c THEN Append(Push(d, t), Answer(th, reply')) ELSE Push(d, t)]
  BY <1>3, <1>4 DEF Handle
<1>5. /\ UNCHANGED <<open, closed>>
      /\ reply' \in {"OK", "NOT_FOUND_TOPIC"}
  <2>1. UNCHANGED <<open, closed>>
    BY <1>0 DEF OnTopicRequest, Server!TopicCreate, Server!TopicRemove, Server!TopicSubscribe,
                Server!TopicCancel, Server!TopicPublish, Server!connVars
  <2>2. Server!TypeOK /\ GoneTopicsEmpty
    BY DEF WInv, IInv, TypeOK
  <2>3. reply' \in {"OK", "NOT_FOUND_TOPIC"}
    BY <1>0, <1>4, <2>2, ServerEffect
  <2> QED
    BY <2>1, <2>3
<1>6. \A o, d : Pending(o, d)' <=> Pending(o, d)
  BY <1>1 DEF Pending, threadVars
<1>7. \A m \in Messages : \A x \in Seq(Messages) : Append(x, m) \in Seq(Messages)
  OBVIOUS
<1>8. Publication(t) \in Messages /\ Answer(th, reply') \in Messages
  BY <1>3, <1>4, <1>5 DEF Publication, Answer, Messages
<1>9. ASSUME NEW d \in Clients
      PROVE  /\ Push(d, t) \in Seq(Messages)
             /\ \A i \in 1 .. Len(toClient[d]) :
                  i \in 1 .. Len(Push(d, t)) /\ Push(d, t)[i] = toClient[d][i]
  <2>1. toClient[d] \in Seq(Messages)
    BY <1>2
  <2>2. CASE Push(d, t) = toClient[d]
    BY <2>1, <2>2
  <2>3. CASE Push(d, t) = Append(toClient[d], Publication(t))
    BY <1>7, <1>8, <2>1, <2>3, KeptByAppend
  <2> QED
    BY <2>2, <2>3 DEF Push
<1>10. ASSUME NEW d \in Clients
       PROVE  /\ \A i \in 1 .. Len(toClient[d]) :
                   i \in 1 .. Len(toClient'[d]) /\ toClient'[d][i] = toClient[d][i]
              /\ d = c => \E i \in 1 .. Len(toClient'[d]) : toClient'[d][i] = Answer(th, reply')
  <2>1. CASE d # c
    <3>1. toClient'[d] = Push(d, t)
      BY <1>0, <2>1
    <3> QED
      BY <1>9, <2>1, <3>1
  <2>2. CASE d = c
    <3>1. toClient'[d] = Append(Push(d, t), Answer(th, reply'))
      BY <1>0, <2>2
    <3>2. PICK x \in Seq(Messages) : x = Push(d, t)
      BY <1>9
    <3>3. PICK m \in Messages : m = Answer(th, reply')
      BY <1>8
    <3>4. toClient'[d] = Append(x, m)
      BY <3>1, <3>2, <3>3
    <3>5. /\ \A i \in 1 .. Len(x) : i \in 1 .. Len(toClient'[d]) /\ toClient'[d][i] = x[i]
          /\ \E i \in 1 .. Len(toClient'[d]) : toClient'[d][i] = m
      BY <3>4, KeptByAppend
    <3>6. \A i \in 1 .. Len(toClient[d]) : i \in 1 .. Len(x) /\ x[i] = toClient[d][i]
      BY <1>9, <3>2
    <3> QED
      BY <3>3, <3>5, <3>6
  <2> QED
    BY <2>1, <2>2
<1>11. ASSUME NEW o \in Threads, NEW d \in Clients, Answered(o, d) PROVE Answered(o, d)'
  BY <1>10, <1>11 DEF Answered, IsAnswer
<1>12. Answered(th, c)'
  <2>1. IsAnswer(Answer(th, reply'), th)
    BY DEF IsAnswer, Answer
  <2> QED
    BY <1>10, <2>1 DEF Answered, IsAnswer
<1>13. ASSUME NEW o \in Threads, NEW d \in Clients, Queued(o, d), o # th
       PROVE  Queued(o, d)'
  <2>1. CASE d # c
    BY <1>1, <1>2, <1>13, <2>1 DEF Queued
  <2>2. CASE d = c
    <3>1. PICK i \in 1 .. Len(s) : s[i] = o
      BY <1>13, <2>2 DEF Queued
    <3>2. s \in Seq(Threads)
      BY <1>2
    <3>3. \E j \in 1 .. Len(Tail(s)) : Tail(s)[j] = o
      <4> HIDE DEF s
      <4> QED
        BY <1>1, <1>3, <1>13, <3>1, <3>2, KeptByTail
    <3>4. toServer'[d] = Tail(s)
      BY <1>1, <1>2, <2>2
    <3> QED
      BY <3>3, <3>4 DEF Queued
  <2> QED
    BY <2>1, <2>2
<1>14. \A d : Pending(th, d) => d = c
  BY <1>3 DEF Pending
<1> HIDE DEF s
<1> QED
  BY <1>1, <1>5, <1>6, <1>11, <1>12, <1>13, <1>14, NobodyBegins

\* What the loop thread takes is a publication, or the answer whose thread no
\* longer waits.
LEMMA LoopServed ==
  ASSUME WInv, NEW c \in Clients, LoopStep(c)
  PROVE  WaitersServed' /\ BegunConnected'
<1>1. UNCHANGED <<threadVars, toServer, open, closed>>
  BY DEF LoopStep, OnResponse, OnPublish, CallbackReturns, serverVars, netVars
<1>2. /\ toClient \in [Clients -> Seq(Messages)]
      /\ response \in [Threads -> {None, "OK", "NOT_FOUND_TOPIC"}]
  BY DEF WInv, IInv, TypeOK
<1>3. \A o, d : Queued(o, d)' <=> Queued(o, d)
  BY <1>1 DEF Queued
<1>4. CASE CallbackReturns(c)
  <2>1. UNCHANGED <<response, toClient>>
    BY <1>4 DEF CallbackReturns, netVars
  <2>2. \A o, d : (Pending(o, d)' <=> Pending(o, d)) /\ (Answered(o, d)' <=> Answered(o, d))
    BY <1>1, <2>1 DEF Pending, Answered, IsAnswer, threadVars
  <2> QED
    BY <1>1, <1>3, <2>2, NobodyBegins
<1>5. ASSUME NEW kind, Take(c, kind), NEW o \in Threads, NEW d \in Clients, Answered(o, d)
      PROVE  Answered(o, d)' \/ (d = c /\ IsAnswer(Head(toClient[c]), o))
  <2> DEFINE s == toClient[c]
  <2>1. s # <<>> /\ toClient' = [toClient EXCEPT ![c] = Tail(@)] /\ s \in Seq(Messages)
    BY <1>2, <1>5 DEF Take
  <2>2. CASE d # c
    BY <1>2, <1>5, <2>1, <2>2 DEF Answered, IsAnswer
  <2>3. CASE d = c
    <3>1. PICK i \in 1 .. Len(s) : IsAnswer(s[i], o)
      BY <1>5, <2>3 DEF Answered
    <3>2. s[i] = Head(s) \/ \E j \in 1 .. Len(Tail(s)) : Tail(s)[j] = s[i]
      <4> HIDE DEF s
      <4> QED
        BY <2>1, <3>1, KeptByTail
    <3>3. toClient'[d] = Tail(s)
      BY <1>2, <2>1, <2>3
    <3> QED
      BY <2>3, <3>1, <3>2, <3>3 DEF Answered, IsAnswer
  <2> QED
    BY <2>2, <2>3
<1>6. CASE OnResponse(c)
  <2> DEFINE msg == Head(toClient[c])
  <2>1. Take(c, "answer") /\ response' = [response EXCEPT ![msg.thread] = msg.rcode]
    BY <1>6 DEF OnResponse
  <2>2. msg.kind = "answer" /\ msg \in Messages
    <3>1. toClient[c] \in Seq(Messages) /\ toClient[c] # <<>>
      BY <1>2, <2>1 DEF Take
    <3>2. Head(toClient[c]) \in Messages
      BY ONLY <3>1
    <3> QED
      BY <2>1, <3>2 DEF Take
  <2> HIDE DEF msg
  <2>3. msg.thread \in Threads /\ msg.rcode \in {"OK", "NOT_FOUND_TOPIC"}
    BY <2>2 DEF Messages
  <2>4. msg.rcode # None
    BY TopicSystemAssumption, <2>3
  <2>5. response'[msg.thread] # None /\ \A o \in Threads : o # msg.thread => response'[o] = response[o]
    BY <1>2, <2>1, <2>3, <2>4
  <2>6. \A o \in Threads, d \in Clients : Pending(o, d)' => Pending(o, d) /\ o # msg.thread
    BY <1>1, <2>5 DEF Pending, threadVars
  <2>7. \A o : IsAnswer(msg, o) => o = msg.thread
    BY DEF IsAnswer
  <2>8. \A o \in Threads, d \in Clients : Pending(o, d)' /\ Answered(o, d) => Answered(o, d)'
    BY <1>5, <2>1, <2>6, <2>7 DEF msg
  <2> QED
    BY <1>1, <1>3, <2>6, <2>8, NobodyBegins
<1>7. CASE OnPublish(c)
  <2>1. Take(c, "publication") /\ UNCHANGED response
    BY <1>7 DEF OnPublish
  <2>2. \A o : ~IsAnswer(Head(toClient[c]), o)
    BY <2>1 DEF Take, IsAnswer
  <2>3. \A o, d : Pending(o, d)' <=> Pending(o, d)
    BY <1>1, <2>1 DEF Pending, threadVars
  <2>4. \A o \in Threads, d \in Clients : Answered(o, d) => Answered(o, d)'
    BY <1>5, <2>1, <2>2
  <2> QED
    BY <1>1, <1>3, <2>3, <2>4, NobodyBegins
<1> QED
  BY <1>4, <1>6, <1>7 DEF LoopStep

LEMMA WInvStep == WInv /\ [Next]_vars => WInv'
<1> SUFFICES ASSUME WInv, [Next]_vars PROVE WInv'
  OBVIOUS
<1>1. IInv'
  BY IInvStep DEF WInv
<1>2. WaitersServed' /\ BegunConnected'
  <2>1. CASE UNCHANGED vars
    <3>1. UNCHANGED <<threadVars, response, netVars, open, closed>>
      BY <2>1 DEF vars, serverVars
    <3>2. \A o, d : Pending(o, d)' <=> Pending(o, d)
      BY <3>1 DEF Pending, threadVars
    <3>3. \A o, d : (Queued(o, d)' <=> Queued(o, d)) /\ (Answered(o, d)' <=> Answered(o, d))
      BY <3>1, SameServed
    <3> QED
      BY <3>1, <3>2, <3>3, NobodyBegins
  <2> QED
    BY <2>1, UserServed, ConnectionServed, HandleServed, LoopServed DEF Next
<1> QED
  BY <1>1, <1>2 DEF WInv

LEMMA InitWInv == Init => WInv
<1>1. Init => WaitersServed /\ BegunConnected
  BY DEF Init, WaitersServed, BegunConnected, Pending
<1> QED
  BY <1>1, InitIInv DEF WInv

\* Over a connection that is up nobody waits in vain: the request or its answer is
\* on the way.  This is the safety half of OperationReturns.
THEOREM WaitersAlwaysServed == Spec => []WaitersServed
<1>1. WInv => WaitersServed
  BY DEF WInv
<1> QED
  BY <1>1, InitWInv, WInvStep, PTL DEF Spec

-----------------------------------------------------------------------------
(* What is proved of the server alone, carried over to the composition.      *)

Known == INSTANCE TopicServerProofs WITH Conns <- Clients

LEMMA SameServer == Server!Spec => Known!Spec
<1> USE DEF Server!connVars, Known!connVars, Server!tableVars, Known!tableVars,
            Server!Nothing, Known!Nothing, Server!Answer, Known!Answer
<1>1. Server!Init => Known!Init
  BY DEF Server!Init, Known!Init
<1>2. [Server!Next]_Server!vars => [Known!Next]_Known!vars
  <2>1. Server!vars = Known!vars /\ (UNCHANGED Server!vars => UNCHANGED Known!vars)
    BY DEF Server!vars, Known!vars
  <2>2. ASSUME NEW c \in Clients
        PROVE  /\ Server!Connect(c) => Known!Connect(c)
               /\ Server!Disconnect(c) => Known!Disconnect(c)
               /\ Server!InvalidOptype(c) => Known!InvalidOptype(c)
    BY DEF Server!Connect, Known!Connect, Server!Disconnect, Known!Disconnect,
           Server!RemoveEverywhere, Known!RemoveEverywhere,
           Server!InvalidOptype, Known!InvalidOptype
  <2>3. ASSUME NEW c \in Clients, NEW t \in Topics
        PROVE  /\ Server!TopicCreate(c, t) => Known!TopicCreate(c, t)
               /\ Server!TopicRemove(c, t) => Known!TopicRemove(c, t)
               /\ Server!TopicSubscribe(c, t) => Known!TopicSubscribe(c, t)
               /\ Server!TopicCancel(c, t) => Known!TopicCancel(c, t)
               /\ Server!TopicPublish(c, t) => Known!TopicPublish(c, t)
    BY DEF Server!TopicCreate, Known!TopicCreate, Server!TopicRemove, Known!TopicRemove,
           Server!TopicSubscribe, Known!TopicSubscribe, Server!TopicCancel,
           Known!TopicCancel, Server!TopicPublish, Known!TopicPublish
  <2> QED
    BY <2>1, <2>2, <2>3 DEF Server!Next, Known!Next
<1> QED
  BY <1>1, <1>2, PTL DEF Server!Spec, Known!Spec

\* In the composition too the two indexes of subscriptions agree, whatever user
\* threads, loop threads and connections do.
THEOREM IndexedInTheSystem == Spec => []Server!SubscriptionsIndexed
<1>1. Server!SubscriptionsIndexed <=> Known!SubscriptionsIndexed
  BY DEF Server!SubscriptionsIndexed, Known!SubscriptionsIndexed
<1> QED
  BY <1>1, ComposesServer, SameServer, Known!SubscriptionsAlwaysIndexed, PTL

LEMMA SamePubSub ==
  [Known!Abstract!Next]_Known!Abstract!pubSubVars
    => [Server!Abstract!Next]_Server!Abstract!pubSubVars
<1> USE DEF Server!Abstract!Nothing, Known!Abstract!Nothing
<1>1. UNCHANGED Known!Abstract!pubSubVars => UNCHANGED Server!Abstract!pubSubVars
  BY DEF Server!Abstract!pubSubVars, Known!Abstract!pubSubVars
<1>2. Known!Abstract!Idle => Server!Abstract!Idle
  BY DEF Server!Abstract!Idle, Known!Abstract!Idle
<1>3. ASSUME NEW t \in Topics
      PROVE  /\ Known!Abstract!Create(t) => Server!Abstract!Create(t)
             /\ Known!Abstract!Remove(t) => Server!Abstract!Remove(t)
             /\ Known!Abstract!Publish(t) => Server!Abstract!Publish(t)
  BY DEF Server!Abstract!Create, Known!Abstract!Create, Server!Abstract!Remove,
         Known!Abstract!Remove, Server!Abstract!Publish, Known!Abstract!Publish
<1>4. ASSUME NEW c \in Clients, NEW t \in Topics
      PROVE  /\ Known!Abstract!Subscribe(c, t) => Server!Abstract!Subscribe(c, t)
             /\ Known!Abstract!Cancel(c, t) => Server!Abstract!Cancel(c, t)
  BY DEF Server!Abstract!Subscribe, Known!Abstract!Subscribe,
         Server!Abstract!Cancel, Known!Abstract!Cancel
<1>5. ASSUME NEW c \in Clients PROVE Known!Abstract!Leave(c) => Server!Abstract!Leave(c)
  BY DEF Server!Abstract!Leave, Known!Abstract!Leave
<1> QED
  BY <1>1, <1>2, <1>3, <1>4, <1>5 DEF Server!Abstract!Next, Known!Abstract!Next

\* The whole topic system implements publish and subscribe: a publication is
\* pushed to exactly the clients that are subscribed when it is handled.
THEOREM SystemImplementsPubSub == Spec => Server!ImplementsPubSub
<1>1. Known!Abstract!Init <=> Server!Abstract!Init
  BY DEF Server!Abstract!Init, Known!Abstract!Init,
         Server!Abstract!Nothing, Known!Abstract!Nothing
<1> QED
  BY <1>1, SamePubSub, ComposesServer, SameServer, Known!TopicServerImplementsPubSub, PTL
     DEF Known!ImplementsPubSub, Server!ImplementsPubSub,
         Known!Abstract!Spec, Server!Abstract!Spec
=============================================================================
