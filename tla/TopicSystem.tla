----------------------------- MODULE TopicSystem -----------------------------
(***************************************************************************)
(* TopicClient and client::TopicManager at one end of each connection, the *)
(* topic server at the other: the callbacks a client keeps against the     *)
(* subscriptions the server keeps.                                         *)
(*                                                                         *)
(* User threads make topic operations, each of which waits for its answer. *)
(* One loop thread per client takes answers and publications from the      *)
(* connection in order, and runs a subscriber's callback itself.  A        *)
(* connection is identified with its client.                               *)
(***************************************************************************)
EXTENDS Naturals, Sequences

CONSTANTS
  Clients, Topics,
  Threads,      \* user threads
  ClientOf,     \* the TopicClient each of them uses
  Allowed,      \* bound: the operations each of them may make
  MaxChannel,   \* bound: publish only while no client has more than this to read
  None          \* no topic, no answer

Optypes == {"create", "remove", "subscribe", "cancel", "publish"}

ASSUME TopicSystemAssumption ==
  /\ ClientOf \in [Threads -> Clients]
  /\ Allowed \in [Threads -> SUBSET Optypes]
  /\ MaxChannel \in Nat
  /\ None \notin Topics \cup {"OK", "NOT_FOUND_TOPIC"}

VARIABLES
  open, closed, topics, subscribers, subConns, subTopics, reply, pushed,
                \* the server: see TopicServer
  callbacks,    \* keys of _topic_callbacks of each client
  pc,           \* how far each thread is in its operation
  optype, key,  \* the operation: its TopicOptype and its topic
  response,     \* RequestDescribe::response of its request
  toServer,     \* requests on their way, named by the thread that waits
  toClient,     \* answers and publications on their way
  running,      \* the topic whose callback a loop thread runs
  contended     \* auxiliary: <<client, topic>> whose last subscribe or cancel
                \* was not the only one at work when it began

serverVars == <<open, closed, topics, subscribers, subConns, subTopics, reply, pushed>>
threadVars == <<pc, optype, key>>
netVars == <<toServer, toClient>>
vars == <<serverVars, callbacks, threadVars, response, netVars, running, contended>>

Server == INSTANCE TopicServer WITH Conns <- Clients

Init ==
  /\ Server!Init
  /\ callbacks = [c \in Clients |-> {}]
  /\ pc = [th \in Threads |-> "idle"]
  /\ optype = [th \in Threads |-> "create"]
  /\ key \in [Threads -> Topics]
  /\ response = [th \in Threads |-> None]
  /\ toServer = [c \in Clients |-> <<>>]
  /\ toClient = [c \in Clients |-> <<>>]
  /\ running = [c \in Clients |-> None]
  /\ contended = {}

-----------------------------------------------------------------------------
(* Connections.                                                            *)

Connect(c) ==
  /\ Server!Connect(c)
  /\ UNCHANGED <<callbacks, threadVars, response, netVars, running, contended>>

\* The connection goes down with all that is on its way.  Who waits for an
\* answer goes on waiting; a callback that runs is not interrupted.
Disconnect(c) ==
  /\ Server!Disconnect(c)
  /\ toServer' = [toServer EXCEPT ![c] = <<>>]
  /\ toClient' = [toClient EXCEPT ![c] = <<>>]
  /\ UNCHANGED <<callbacks, threadVars, response, running, contended>>

-----------------------------------------------------------------------------
(* The operations, in a user thread.                                       *)

\* A subscription or cancellation of topic t at client c is at work in thread th.
Subscribing(th, c, t) ==
  /\ ClientOf[th] = c /\ key[th] = t
  /\ pc[th] # "idle" /\ optype[th] = "subscribe"

Cancelling(th, c, t) ==
  /\ ClientOf[th] = c /\ key[th] = t
  /\ pc[th] # "idle" /\ optype[th] = "cancel"

Contend(th, c, t) ==
  contended' = IF \E other \in Threads \ {th} :
                    Subscribing(other, c, t) \/ Cancelling(other, c, t)
               THEN contended \cup {<<c, t>>} ELSE contended \ {<<c, t>>}

Begin(th, op, t) ==
  /\ pc[th] = "idle"
  /\ op \in Allowed[th]
  /\ ClientOf[th] \in open
  /\ optype' = [optype EXCEPT ![th] = op]
  /\ key' = [key EXCEPT ![th] = t]

Post(th) == toServer' = [toServer EXCEPT ![ClientOf[th]] =
                           IF ClientOf[th] \in open THEN Append(@, th) ELSE @]

\* create, remove and publish are commonRequest and nothing else.
Request(th, op, t) ==
  /\ op \in {"create", "remove", "publish"}
  /\ op = "publish" => \A c \in Clients : Len(toClient[c]) <= MaxChannel
  /\ Begin(th, op, t)
  /\ pc' = [pc EXCEPT ![th] = "waiting"]
  /\ Post(th)
  /\ UNCHANGED <<serverVars, callbacks, response, toClient, running, contended>>

\* subscribe, up to commonRequest: addSubscribe.  insert() keeps the callback of
\* a topic that has one.
Subscribe(th, t) ==
  /\ Begin(th, "subscribe", t)
  /\ pc' = [pc EXCEPT ![th] = "send"]
  /\ callbacks' = [callbacks EXCEPT ![ClientOf[th]] = @ \cup {t}]
  /\ Contend(th, ClientOf[th], t)
  /\ UNCHANGED <<serverVars, response, netVars, running>>

\* cancel, up to commonRequest: delSubscribe.
Cancel(th, t) ==
  /\ Begin(th, "cancel", t)
  /\ pc' = [pc EXCEPT ![th] = "send"]
  /\ callbacks' = [callbacks EXCEPT ![ClientOf[th]] = @ \ {t}]
  /\ Contend(th, ClientOf[th], t)
  /\ UNCHANGED <<serverVars, response, netVars, running>>

\* Requestor::send; what is sent over a connection that is down is dropped.
CommonRequest(th) ==
  /\ pc[th] = "send"
  /\ pc' = [pc EXCEPT ![th] = "waiting"]
  /\ Post(th)
  /\ UNCHANGED <<serverVars, callbacks, optype, key, response, toClient, running,
                 contended>>

\* Mutant of Return: whatever fails erases the callback of its topic.
ReturnAnyFailure(th) ==
  /\ pc[th] = "waiting" /\ response[th] # None
  /\ pc' = [pc EXCEPT ![th] = "idle"]
  /\ response' = [response EXCEPT ![th] = None]
  /\ callbacks' = IF response[th] # "OK"
                  THEN [callbacks EXCEPT ![ClientOf[th]] = @ \ {key[th]}]
                  ELSE callbacks
  /\ UNCHANGED <<serverVars, optype, key, netVars, running, contended>>

\* The answer is there, and the operation returns; subscribe, if it failed, after
\* delSubscribe.
Return(th) ==
  /\ pc[th] = "waiting"
  /\ response[th] # None
  /\ pc' = [pc EXCEPT ![th] = "idle"]
  /\ response' = [response EXCEPT ![th] = None]
  /\ callbacks' = IF optype[th] = "subscribe" /\ response[th] # "OK"
                  THEN [callbacks EXCEPT ![ClientOf[th]] = @ \ {key[th]}]
                  ELSE callbacks
  /\ UNCHANGED <<serverVars, optype, key, netVars, running, contended>>

-----------------------------------------------------------------------------
(* The server.                                                             *)

OnTopicRequest(c, op, t) ==
  \/ op = "create" /\ Server!TopicCreate(c, t)
  \/ op = "remove" /\ Server!TopicRemove(c, t)
  \/ op = "subscribe" /\ Server!TopicSubscribe(c, t)
  \/ op = "cancel" /\ Server!TopicCancel(c, t)
  \/ op = "publish" /\ Server!TopicPublish(c, t)

Publication(t) == [kind |-> "publication", topic |-> t]
Answer(th, rcode) == [kind |-> "answer", thread |-> th, rcode |-> rcode]

\* pushMessage sends to the subscribers, then the answer goes to who asked.
Push(c, t) == IF pushed' # Server!Nothing /\ c \in pushed'[2]
              THEN Append(toClient[c], Publication(t)) ELSE toClient[c]

\* Mutant of Handle: an error is not answered.
HandleQuietly(c) ==
  /\ toServer[c] # <<>>
  /\ toServer' = [toServer EXCEPT ![c] = Tail(@)]
  /\ LET th == Head(toServer[c])
     IN /\ OnTopicRequest(c, optype[th], key[th])
        /\ toClient' = [d \in Clients |->
             IF d = c /\ reply' = "OK" THEN Append(Push(d, key[th]), Answer(th, reply'))
                                       ELSE Push(d, key[th])]
  /\ UNCHANGED <<callbacks, threadVars, response, running, contended>>

Handle(c) ==
  /\ toServer[c] # <<>>
  /\ toServer' = [toServer EXCEPT ![c] = Tail(@)]
  /\ LET th == Head(toServer[c])
     IN /\ OnTopicRequest(c, optype[th], key[th])
        /\ toClient' = [d \in Clients |->
             IF d = c THEN Append(Push(d, key[th]), Answer(th, reply'))
                      ELSE Push(d, key[th])]
  /\ UNCHANGED <<callbacks, threadVars, response, running, contended>>

-----------------------------------------------------------------------------
(* The loop thread of a client: Dispatcher::onMessage, one message at a     *)
(* time.                                                                    *)

\* Mutant of Take: another loop thread reads on while a callback runs.
TakeConcurrently(c, kind) ==
  /\ toClient[c] # <<>>
  /\ Head(toClient[c]).kind = kind
  /\ toClient' = [toClient EXCEPT ![c] = Tail(@)]

Take(c, kind) ==
  /\ running[c] = None
  /\ toClient[c] # <<>>
  /\ Head(toClient[c]).kind = kind
  /\ toClient' = [toClient EXCEPT ![c] = Tail(@)]

\* Mutant of OnResponse: answers are taken ahead of publications.
OnResponseAhead(c) ==
  /\ running[c] = None
  /\ \E i \in 1 .. Len(toClient[c]) :
       /\ toClient[c][i].kind = "answer"
       /\ toClient' = [toClient EXCEPT ![c] =
                         SubSeq(@, 1, i - 1) \o SubSeq(@, i + 1, Len(@))]
       /\ response' = [response EXCEPT ![toClient[c][i].thread] = toClient[c][i].rcode]
  /\ UNCHANGED <<serverVars, callbacks, threadVars, toServer, running, contended>>

\* Requestor::onResponse fulfils the promise of the thread that waits.
OnResponse(c) ==
  /\ Take(c, "answer")
  /\ response' = [response EXCEPT ![Head(toClient[c]).thread] = Head(toClient[c]).rcode]
  /\ UNCHANGED <<serverVars, callbacks, threadVars, toServer, running, contended>>

\* Mutants of OnPublish: a publication is kept until it has a callback; the
\* message in place of its topic.
OnPublishKept(c) ==
  /\ Take(c, "publication")
  /\ Head(toClient[c]).topic \in callbacks[c]
  /\ running' = [running EXCEPT ![c] = Head(toClient[c]).topic]
  /\ UNCHANGED <<serverVars, callbacks, threadVars, response, toServer, contended>>

OnPublishMessage(c) ==
  /\ Take(c, "publication")
  /\ running' = [running EXCEPT ![c] = IF Head(toClient[c]).topic \in callbacks[c]
                                       THEN Head(toClient[c]) ELSE None]
  /\ UNCHANGED <<serverVars, callbacks, threadVars, response, toServer, contended>>

\* A publication that finds no callback is dropped.
OnPublish(c) ==
  /\ Take(c, "publication")
  /\ running' = [running EXCEPT ![c] = IF Head(toClient[c]).topic \in callbacks[c]
                                       THEN Head(toClient[c]).topic ELSE None]
  /\ UNCHANGED <<serverVars, callbacks, threadVars, response, toServer, contended>>

CallbackReturns(c) ==
  /\ running[c] # None
  /\ running' = [running EXCEPT ![c] = None]
  /\ UNCHANGED <<serverVars, callbacks, threadVars, response, netVars, contended>>

-----------------------------------------------------------------------------

UserStep(th) ==
  \E t \in Topics :
    \/ \E op \in Optypes : Request(th, op, t)
    \/ Subscribe(th, t)
    \/ Cancel(th, t)

Progress(th) == CommonRequest(th) \/ Return(th)

LoopStep(c) == OnResponse(c) \/ OnPublish(c) \/ CallbackReturns(c)

Next ==
  \/ \E c \in Clients : Connect(c) \/ Disconnect(c) \/ Handle(c) \/ LoopStep(c)
  \/ \E th \in Threads : UserStep(th) \/ Progress(th)

Spec == Init /\ [][Next]_vars

\* Threads and loop threads run when they can, a user's callback returns, and the
\* server handles what arrives.  Nobody has to begin an operation.
Fairness ==
  /\ \A th \in Threads : WF_vars(Progress(th))
  /\ \A c \in Clients : WF_vars(Handle(c)) /\ WF_vars(LoopStep(c))

FairSpec == Spec /\ Fairness

-----------------------------------------------------------------------------
(* Properties.                                                             *)

Messages ==
  [kind : {"publication"}, topic : Topics] \cup
  [kind : {"answer"}, thread : Threads, rcode : {"OK", "NOT_FOUND_TOPIC"}]

\* Channels carry requests of the client's own threads, answers and publications.
TypeOK ==
  /\ Server!TypeOK
  /\ callbacks \in [Clients -> SUBSET Topics]
  /\ pc \in [Threads -> {"idle", "send", "waiting"}]
  /\ optype \in [Threads -> Optypes]
  /\ key \in [Threads -> Topics]
  /\ response \in [Threads -> {None, "OK", "NOT_FOUND_TOPIC"}]
  /\ toServer \in [Clients -> Seq(Threads)]
  /\ toClient \in [Clients -> Seq(Messages)]
  /\ running \in [Clients -> Topics \cup {None}]
  /\ contended \subseteq Clients \X Topics

\* Is the callback of <<c, t>> allowed to be gone?  While a cancellation is at
\* work, or after operations of two threads on the one topic got mixed.
MayBeDeaf(c, t) ==
  \/ <<c, t>> \in contended
  \/ \E th \in Threads : Cancelling(th, c, t)

\* Who is subscribed at the server has a callback, whatever the order in which
\* subscribe inserts its callback and sends, cancel erases it and sends, a
\* failed subscribe erases it, and others create and remove the topic.
NoDeafSubscriber ==
  \A c \in Clients, t \in Topics :
    c \in subscribers[t] => t \in callbacks[c] \/ MayBeDeaf(c, t)

\* A publication on its way to a client will find a callback: subscribe returns
\* no earlier than, and cancel erases no later than, what the server pushed.
PublicationFindsCallback ==
  \A c \in Clients, t \in Topics : \A i \in 1 .. Len(toClient[c]) :
    toClient[c][i] = Publication(t) => t \in callbacks[c] \/ MayBeDeaf(c, t)

\* Once cancel has returned, no callback of the topic runs any more: a user may
\* free what the callback uses.
CancelledIsQuiet ==
  \A c \in Clients : running[c] # None =>
    running[c] \in callbacks[c] \/ MayBeDeaf(c, running[c])

\* What makes these inductive: a thread that waits has its request or its answer
\* in one place;
Pending(th, c) == ClientOf[th] = c /\ pc[th] = "waiting" /\ response[th] = None

IsAnswer(msg, th) == msg.kind = "answer" /\ msg.thread = th

RequestsOnce ==
  \A c \in Clients : \A i \in 1 .. Len(toServer[c]) :
    /\ Pending(toServer[c][i], c)
    /\ \A j \in 1 .. Len(toServer[c]) : toServer[c][j] = toServer[c][i] => j = i

AnswersOnce ==
  \A c \in Clients, th \in Threads : \A i \in 1 .. Len(toClient[c]) :
    IsAnswer(toClient[c][i], th) =>
      /\ Pending(th, c)
      /\ \A j \in 1 .. Len(toServer[c]) : toServer[c][j] # th
      /\ \A j \in 1 .. Len(toClient[c]) : IsAnswer(toClient[c][j], th) => j = i

OutstandingOnce ==
  /\ \A th \in Threads : response[th] # None => pc[th] = "waiting"
  /\ RequestsOnce
  /\ AnswersOnce

\* a topic that does not exist has no subscribers;
GoneTopicsEmpty == \A t \in Topics \ topics : subscribers[t] = {}

\* two threads at work on the one topic are on record;
Working(th, c, t) == Subscribing(th, c, t) \/ Cancelling(th, c, t)

ContentionSeen ==
  \A th, other \in Threads, c \in Clients, t \in Topics :
    Working(th, c, t) /\ Working(other, c, t) /\ th # other => <<c, t>> \in contended

\* a callback is there from the beginning of subscribe;
CallbackFirst ==
  \A th \in Threads, c \in Clients, t \in Topics :
    Subscribing(th, c, t) => t \in callbacks[c] \/ MayBeDeaf(c, t)

\* and an answer that leaves the client without the subscription (a failed
\* subscribe, a cancel) has all publications of the topic before it.
Ends(th, rcode) ==
  optype[th] = "cancel" \/ (optype[th] = "subscribe" /\ rcode # "OK")

NoMore(c, t, i) ==
  /\ c \notin subscribers[t]
  /\ \A j \in 1 .. Len(toClient[c]) : j > i => toClient[c][j] # Publication(t)

AnsweredLast ==
  \A th \in Threads, c \in Clients, t \in Topics :
    Working(th, c, t) /\ <<c, t>> \notin contended =>
      /\ response[th] # None /\ Ends(th, response[th]) => NoMore(c, t, 0) /\ running[c] # t
      /\ \A i \in 1 .. Len(toClient[c]) :
           IsAnswer(toClient[c][i], th) /\ Ends(th, toClient[c][i].rcode) => NoMore(c, t, i)

\* A thread that waits over a connection that is up does not wait in vain: its
\* request is on its way or its answer is, whatever publications are queued before
\* it, whatever was created, removed and cancelled meanwhile.
Queued(th, c) == \E i \in 1 .. Len(toServer[c]) : toServer[c][i] = th

Answered(th, c) == \E i \in 1 .. Len(toClient[c]) : IsAnswer(toClient[c][i], th)

WaitersServed ==
  \A th \in Threads, c \in Clients :
    Pending(th, c) /\ c \in open => Queued(th, c) \/ Answered(th, c)

\* What makes it inductive: an operation began over a connection that was up.
BegunConnected == \A th \in Threads : pc[th] # "idle" => ClientOf[th] \in open \cup closed

IInv ==
  /\ TypeOK /\ OutstandingOnce /\ GoneTopicsEmpty /\ ContentionSeen
  /\ CallbackFirst /\ AnsweredLast
  /\ NoDeafSubscriber /\ PublicationFindsCallback /\ CancelledIsQuiet

\* An operation over a connection that stays up returns, behind whatever
\* publications its loop thread has to work through first.
OperationReturns ==
  \A th \in Threads :
    pc[th] = "waiting" ~> pc[th] = "idle" \/ ClientOf[th] \in closed
=============================================================================
