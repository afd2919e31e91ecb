------------------------------ MODULE Requestor ------------------------------
(***************************************************************************)
(* The client half of a remote call: RpcCaller (the sync, async and        *)
(* callback call modes), Requestor (the table of requests waiting for an   *)
(* answer), the Dispatcher mutex and the loop threads of the MuduoClient   *)
(* objects that one RpcClient owns.                                        *)
(*                                                                         *)
(* Every call runs in a thread of its own, except a call made from inside  *)
(* a user callback, which runs in the loop thread that invoked it.  Each   *)
(* section protected by Requestor::_mutex is one action.  The server       *)
(* answers every request it receives once, in any order and with any code. *)
(***************************************************************************)
EXTENDS Naturals

CONSTANTS
  Calls,        \* invocations of RpcCaller::call; a call is its own message id
  Conns,        \* MuduoClient objects, one connection and one loop thread each
  None,         \* null pointer, unset promise, free mutex
  NestedModes   \* modes in which a user callback may itself make a call

Modes == {"sync", "async", "callback"}

RCodes == {"OK", "ERR"}     \* RCODE_OK, any other return code

Responses == [id : Calls, rcode : RCodes]

AcceptsAny(r) == TRUE       \* mutant of Accepts: the return code is not looked at

\* The check every call mode makes before it uses the result of a response.
Accepts(r) == r = "OK"

ASSUME ConstantsAssumption ==
  /\ None \notin Calls \cup Conns \cup RCodes \cup Responses
  /\ NestedModes \subseteq Modes

VARIABLES
  link,         \* state of each MuduoClient; its _conn is set iff it is "up"
  pc,           \* how far each call has got
  mode,         \* the overload of RpcCaller::call that was chosen
  conn,         \* the BaseConnection::ptr the call was given, possibly null
  desc,         \* keys of Requestor::_request_desc
  response,     \* RequestDescribe::response, the promise of a sync call
  handed,       \* has the result been handed to the user
  at,           \* where each loop thread stands in onResponse
  cur,          \* the message each loop thread is handling
  nested,       \* the call made by the callback a loop thread is running
  dispatcher,   \* the loop thread that holds Dispatcher::_mutex
  requests,     \* requests on their way to the server
  answers,      \* responses on their way back
  executed,     \* auxiliary: the code the server answered each call with
  crashed       \* a null connection was dereferenced

callVars == <<pc, mode, conn>>
loopVars == <<at, cur, nested, dispatcher>>
netVars  == <<requests, answers, executed>>
vars == <<link, callVars, desc, response, handed, loopVars, netVars, crashed>>

Init ==
  /\ link = [k \in Conns |-> "connecting"]
  /\ pc = [c \in Calls |-> "idle"]
  /\ mode = [c \in Calls |-> "sync"]
  /\ conn = [c \in Calls |-> None]
  /\ desc = {}
  /\ response = [c \in Calls |-> None]
  /\ handed = [c \in Calls |-> FALSE]
  /\ at = [k \in Conns |-> "idle"]
  /\ cur = [k \in Conns |-> None]
  /\ nested = [k \in Conns |-> None]
  /\ dispatcher = None
  /\ requests = {}
  /\ answers = {}
  /\ executed = [c \in Calls |-> None]
  /\ crashed = FALSE

-----------------------------------------------------------------------------
(* The connection, run by the loop thread of each MuduoClient.             *)

\* onConnection counts the latch down first; connect() may return from here on.
CountDown(k) ==
  /\ ~crashed
  /\ link[k] = "connecting"
  /\ link' = [link EXCEPT ![k] = "latched"]
  /\ UNCHANGED <<callVars, desc, response, handed, loopVars, netVars, crashed>>

\* Only then does it store the connection object.
SetConnection(k) ==
  /\ ~crashed
  /\ link[k] = "latched"
  /\ link' = [link EXCEPT ![k] = "up"]
  /\ UNCHANGED <<callVars, desc, response, handed, loopVars, netVars, crashed>>

\* The peer is gone: _conn is reset and nothing in flight arrives any more.
ConnectionLost(k) ==
  /\ ~crashed
  /\ link[k] = "up"
  /\ at[k] = "idle"
  /\ link' = [link EXCEPT ![k] = "down"]
  /\ requests' = {c \in requests : conn[c] # k}
  /\ answers' = {m \in answers : conn[m.id] # k}
  /\ UNCHANGED <<callVars, desc, response, handed, loopVars, executed, crashed>>

-----------------------------------------------------------------------------
(* The thread that makes a call.                                           *)

\* RpcClient::call reads connection() of a client whose connect() returned.
Begin(c, m, k) ==
  /\ ~crashed
  /\ pc[c] = "idle"
  /\ link[k] # "connecting"
  /\ pc' = [pc EXCEPT ![c] = "begun"]
  /\ mode' = [mode EXCEPT ![c] = m]
  /\ conn' = [conn EXCEPT ![c] = IF link[k] = "up" THEN k ELSE None]

UserCall(c) ==
  /\ \E m \in Modes, k \in Conns : Begin(c, m, k)
  /\ UNCHANGED <<link, desc, response, handed, loopVars, netVars, crashed>>

\* Mutant of NewDescribe: the description is built and never put in the table.
LoseDescribe(c) ==
  /\ ~crashed
  /\ pc[c] = "begun"
  /\ pc' = [pc EXCEPT ![c] = "described"]
  /\ UNCHANGED <<link, mode, conn, desc, response, handed, loopVars, netVars, crashed>>

NewDescribe(c) ==
  /\ ~crashed
  /\ pc[c] = "begun"
  /\ pc' = [pc EXCEPT ![c] = "described"]
  /\ desc' = desc \cup {c}
  /\ UNCHANGED <<link, mode, conn, response, handed, loopVars, netVars, crashed>>

\* conn->send(req); a connection that has gone down swallows the request.
SendRequest(c) ==
  /\ ~crashed
  /\ pc[c] = "described"
  /\ conn[c] # None
  /\ pc' = [pc EXCEPT ![c] = "sent"]
  /\ requests' = IF link[conn[c]] = "up" THEN requests \cup {c} ELSE requests
  /\ UNCHANGED <<link, mode, conn, desc, response, handed, loopVars,
                 answers, executed, crashed>>

\* conn->send(req) through a null pointer ends the process.
NullConnection(c) ==
  /\ ~crashed
  /\ pc[c] = "described"
  /\ conn[c] = None
  /\ crashed' = TRUE
  /\ UNCHANGED <<link, callVars, desc, response, handed, loopVars, netVars>>

\* A sync call waits for its promise; the other modes return at once.
Return(c) ==
  /\ ~crashed
  /\ pc[c] = "sent"
  /\ mode[c] = "sync" => response[c] # None
  /\ pc' = [pc EXCEPT ![c] = "returned"]
  /\ handed' = [handed EXCEPT ![c] = @ \/ (mode[c] = "sync" /\ Accepts(response[c]))]
  /\ UNCHANGED <<link, mode, conn, desc, response, loopVars, netVars, crashed>>

-----------------------------------------------------------------------------
(* The server: RpcRouter::onRpcRequest answers with one response.          *)

Respond(c, r) ==
  /\ ~crashed
  /\ c \in requests
  /\ requests' = requests \ {c}
  /\ answers' = answers \cup {[id |-> c, rcode |-> r]}
  /\ executed' = [executed EXCEPT ![c] = r]
  /\ UNCHANGED <<link, callVars, desc, response, handed, loopVars, crashed>>

-----------------------------------------------------------------------------
(* The loop thread of connection k: Dispatcher::onMessage holds its mutex  *)
(* while Requestor::onResponse runs.                                       *)

MutexIgnored == TRUE        \* mutant of DispatcherFree: handlers run unlocked

DispatcherFree == dispatcher = None

OnMessage(k) ==
  /\ ~crashed
  /\ link[k] = "up"
  /\ at[k] = "idle"
  /\ DispatcherFree
  /\ \E m \in answers :
       /\ conn[m.id] = k
       /\ answers' = answers \ {m}
       /\ cur' = [cur EXCEPT ![k] = m]
  /\ at' = [at EXCEPT ![k] = "lookup"]
  /\ dispatcher' = k
  /\ UNCHANGED <<link, callVars, desc, response, handed, nested,
                 requests, executed, crashed>>

\* Mutant of Finish: a return path that does not give the lock back.
FinishLocked(k) ==
  /\ at' = [at EXCEPT ![k] = "idle"]
  /\ cur' = [cur EXCEPT ![k] = None]
  /\ UNCHANGED dispatcher

\* onResponse returns, the dispatcher's lock is released.
Finish(k) ==
  /\ at' = [at EXCEPT ![k] = "idle"]
  /\ cur' = [cur EXCEPT ![k] = None]
  /\ dispatcher' = None

GetDescribe(k) ==
  /\ ~crashed
  /\ at[k] = "lookup"
  /\ IF cur[k].id \in desc
     THEN /\ at' = [at EXCEPT ![k] = "found"]
          /\ UNCHANGED <<cur, dispatcher>>
     ELSE Finish(k)
  /\ UNCHANGED <<link, callVars, desc, response, handed, nested, netVars, crashed>>

\* Mutant of SetResponse: the promise gets the id of the request.
SetRequestId(k) ==
  /\ ~crashed
  /\ at[k] = "found"
  /\ mode[cur[k].id] = "sync"
  /\ response' = [response EXCEPT ![cur[k].id] = cur[k].id]
  /\ at' = [at EXCEPT ![k] = "erase"]
  /\ UNCHANGED <<link, callVars, desc, handed, cur, nested, dispatcher,
                 netVars, crashed>>

\* Sync call: response.set_value(msg).
SetResponse(k) ==
  /\ ~crashed
  /\ at[k] = "found"
  /\ mode[cur[k].id] = "sync"
  /\ response' = [response EXCEPT ![cur[k].id] = cur[k].rcode]
  /\ at' = [at EXCEPT ![k] = "erase"]
  /\ UNCHANGED <<link, callVars, desc, handed, cur, nested, dispatcher,
                 netVars, crashed>>

\* Async call: RpcCaller::Callback fulfils the JSON promise on RCODE_OK only.
SetFuture(k) ==
  /\ ~crashed
  /\ at[k] = "found"
  /\ mode[cur[k].id] = "async"
  /\ handed' = [handed EXCEPT ![cur[k].id] = @ \/ Accepts(cur[k].rcode)]
  /\ at' = [at EXCEPT ![k] = "erase"]
  /\ UNCHANGED <<link, callVars, desc, response, cur, nested, dispatcher,
                 netVars, crashed>>

\* Callback call: RpcCaller::Callback1 invokes the user on RCODE_OK only.
InvokeCallback(k) ==
  /\ ~crashed
  /\ at[k] = "found"
  /\ mode[cur[k].id] = "callback"
  /\ handed' = [handed EXCEPT ![cur[k].id] = @ \/ Accepts(cur[k].rcode)]
  /\ at' = [at EXCEPT ![k] = IF Accepts(cur[k].rcode)
                                 THEN "callback" ELSE "erase"]
  /\ UNCHANGED <<link, callVars, desc, response, cur, nested, dispatcher,
                 netVars, crashed>>

\* The user's callback makes a call of its own, at most one per invocation.
NestedCall(k, c) ==
  /\ at[k] = "callback"
  /\ nested[k] = None
  /\ \E m \in NestedModes, j \in Conns : Begin(c, m, j)
  /\ nested' = [nested EXCEPT ![k] = c]
  /\ UNCHANGED <<link, desc, response, handed, at, cur, dispatcher,
                 netVars, crashed>>

CallbackReturns(k) ==
  /\ ~crashed
  /\ at[k] = "callback"
  /\ nested[k] # None => pc[nested[k]] = "returned"
  /\ at' = [at EXCEPT ![k] = "erase"]
  /\ nested' = [nested EXCEPT ![k] = None]
  /\ UNCHANGED <<link, callVars, desc, response, handed, cur, dispatcher,
                 netVars, crashed>>

\* Mutant of DelDescribe: the handler returns without erasing.
KeepDescribe(k) ==
  /\ ~crashed
  /\ at[k] = "erase"
  /\ Finish(k)
  /\ UNCHANGED <<link, callVars, desc, response, handed, nested, netVars, crashed>>

DelDescribe(k) ==
  /\ ~crashed
  /\ at[k] = "erase"
  /\ desc' = desc \ {cur[k].id}
  /\ Finish(k)
  /\ UNCHANGED <<link, callVars, response, handed, nested, netVars, crashed>>

-----------------------------------------------------------------------------

CallStep(c) == NewDescribe(c) \/ SendRequest(c) \/ NullConnection(c) \/ Return(c)

LoopStep(k) ==
  \/ OnMessage(k) \/ GetDescribe(k) \/ SetResponse(k) \/ SetFuture(k)
  \/ InvokeCallback(k) \/ CallbackReturns(k) \/ DelDescribe(k)

LinkStep(k) == CountDown(k) \/ SetConnection(k)

Next ==
  \/ \E c \in Calls : UserCall(c) \/ CallStep(c)
  \/ \E c \in Calls, r \in RCodes : Respond(c, r)
  \/ \E k \in Conns : LinkStep(k) \/ ConnectionLost(k) \/ LoopStep(k)
  \/ \E k \in Conns, c \in Calls : NestedCall(k, c)

Spec == Init /\ [][Next]_vars

\* Threads that can run do run, the server answers what it receives, and a
\* user callback returns.  Nothing obliges a user to call or a link to fail.
Fairness ==
  /\ \A c \in Calls : WF_vars(CallStep(c)) /\ WF_vars(\E r \in RCodes : Respond(c, r))
  /\ \A k \in Conns : WF_vars(LoopStep(k))

FairSpec == Spec /\ Fairness

-----------------------------------------------------------------------------
(* Properties.                                                             *)

\* Every variable stays in its range; in particular a promise holds a return
\* code or nothing, and a loop thread handles one response or none.
TypeOK ==
  /\ link \in [Conns -> {"connecting", "latched", "up", "down"}]
  /\ pc \in [Calls -> {"idle", "begun", "described", "sent", "returned"}]
  /\ mode \in [Calls -> Modes]
  /\ conn \in [Calls -> Conns \cup {None}]
  /\ desc \subseteq Calls
  /\ response \in [Calls -> RCodes \cup {None}]
  /\ handed \in [Calls -> BOOLEAN]
  /\ at \in [Conns -> {"idle", "lookup", "found", "callback", "erase"}]
  /\ cur \in [Conns -> Responses \cup {None}]
  /\ nested \in [Conns -> Calls \cup {None}]
  /\ dispatcher \in Conns \cup {None}
  /\ requests \subseteq Calls
  /\ answers \subseteq Responses
  /\ executed \in [Calls -> RCodes \cup {None}]
  /\ crashed \in BOOLEAN

\* A response always finds the description of its request: the "no description"
\* branch of onResponse is dead, whatever the interleaving of the calling
\* threads with the loop threads, because a call is described before it is sent
\* and is erased only by the one response it gets.
NoOrphanResponse ==
  /\ \A m \in answers : m.id \in desc
  /\ \A k \in Conns : at[k] # "idle" => cur[k].id \in desc

CutOff(c) == conn[c] # None /\ link[conn[c]] = "down"

Handled(c) == \E k \in Conns : at[k] # "idle" /\ cur[k].id = c

\* _request_desc holds no stale entry: a described call is about to be sent, is
\* on its way out or back, is being handled, or went over a connection that is
\* gone (the code fails no pending call on disconnection, so these stay).
DescriptorsAccountedFor ==
  \A c \in desc : \/ pc[c] = "described"
                  \/ c \in requests
                  \/ \E m \in answers : m.id = c
                  \/ Handled(c)
                  \/ CutOff(c)

\* User callbacks of one RpcClient never run at the same time, though each
\* connection of the client has a loop thread of its own: they are serialised
\* by the mutex of the one Dispatcher the connections share.
OneCallbackAtATime ==
  \A j, k \in Conns : at[j] = "callback" /\ at[k] = "callback" => j = k

\* What the caller of c has learned.  A std::future learns of a failure when its
\* promise is destroyed unfulfilled, with the description and the callback in it.
Told(c) ==
  IF handed[c] THEN "result"
  ELSE IF /\ pc[c] = "returned"
          /\ \/ mode[c] = "sync"
             \/ mode[c] = "async" /\ c \notin desc
       THEN "failure" ELSE "nothing"

\* The outcome of c has been recorded where its mode keeps it.
Completed(c) ==
  /\ executed[c] # None
  /\ IF mode[c] = "sync" THEN response[c] = executed[c]
                          ELSE handed[c] = Accepts(executed[c])

Untouched(c) == response[c] = None /\ handed[c] = FALSE

\* A call that has not been sent is unknown to the server and to the loops.
UnsentIsUnknown ==
  \A c \in Calls :
    /\ pc[c] \in {"idle", "begun", "described"} => executed[c] = None /\ Untouched(c)
    /\ pc[c] \in {"idle", "begun"} => c \notin desc
    /\ pc[c] = "described" => c \in desc

\* A request on its way out is described and not executed yet.
RequestsPending ==
  \A c \in requests : /\ pc[c] \in {"sent", "returned"}
                      /\ c \in desc
                      /\ executed[c] = None
                      /\ Untouched(c)

\* A response on its way back is described, truthful and not yet handled.
AnswersPending ==
  \A m \in answers : /\ m.id \in desc
                     /\ executed[m.id] = m.rcode
                     /\ Untouched(m.id)
                     /\ ~Handled(m.id)

\* The loop that handles a response holds the mutex, and has recorded its
\* outcome exactly when it is past the promise or the callback.
HandlersConsistent ==
  \A k \in Conns :
    /\ at[k] # "idle" =>
         /\ dispatcher = k
         /\ cur[k] \in Responses
         /\ cur[k].id \in desc
         /\ executed[cur[k].id] = cur[k].rcode
    /\ at[k] \in {"lookup", "found"} => Untouched(cur[k].id)
    /\ at[k] \in {"callback", "erase"} => Completed(cur[k].id)

\* A call whose description is gone has been completed.
ErasedIsCompleted ==
  \A c \in Calls : pc[c] \in {"sent", "returned"} /\ c \notin desc => Completed(c)

\* A promise holds the code the server answered with; a sync call that returned
\* has one; a call goes over a connection that was up when it began.
ResultsTruthful ==
  \A c \in Calls :
    /\ response[c] # None => response[c] = executed[c]
    /\ handed[c] => executed[c] # None /\ Accepts(executed[c])
    /\ handed[c] /\ mode[c] = "sync" => pc[c] = "returned"
    /\ mode[c] = "sync" /\ pc[c] = "returned" =>
         response[c] # None /\ handed[c] = Accepts(response[c])
    /\ conn[c] # None => link[conn[c]] \in {"up", "down"}

\* The inductive invariant: between them the table of descriptions, the wire and
\* the loop threads hold each outstanding call in exactly one place.
CallsConsistent ==
  /\ UnsentIsUnknown
  /\ RequestsPending
  /\ AnswersPending
  /\ HandlersConsistent
  /\ ErasedIsCompleted
  /\ ResultsTruthful
  /\ DescriptorsAccountedFor

\* In future.get(), with a promise that nobody has fulfilled yet.
Waits(c) == pc[c] = "sent" /\ mode[c] = "sync" /\ response[c] = None

\* Sent, and not yet done with: in whatever mode, somebody looks forward to it.
Outstanding(c) ==
  \/ Waits(c)
  \/ pc[c] \in {"sent", "returned"} /\ c \in desc

\* The callback loop thread k is in waits for the answer of a call of its own.
WaitsForItself(k) == at[k] = "callback" /\ nested[k] # None /\ Waits(nested[k])

\* Loop thread k can go on by itself: the call its callback made, if any, has
\* returned or goes on in this thread.
LoopGoesOn(k) ==
  /\ at[k] # "idle"
  /\ at[k] = "callback" /\ nested[k] # None =>
       pc[nested[k]] \in {"begun", "described", "sent", "returned"} /\ ~Waits(nested[k])

\* The answer of c is there, and the loop thread that reads it is free to.
CanBeTaken(c) ==
  /\ \E m \in answers : m.id = c
  /\ dispatcher = None
  /\ \E k \in Conns : conn[c] = k /\ link[k] = "up" /\ at[k] = "idle"

\* Nothing but a callback that waits for an answer itself brings the calls of a
\* client to a standstill: an outstanding call has its request at the server, or an
\* answer that can be taken, or a handler holds the mutex that can go on, over
\* whatever connection; the lock of the Dispatcher is never left behind.
OnlyCallbacksBlock ==
  ~crashed => \A c \in Calls :
    Outstanding(c) /\ ~CutOff(c) =>
      \/ c \in requests
      \/ CanBeTaken(c)
      \/ \E k \in Conns : LoopGoesOn(k)
      \/ \E k \in Conns : WaitsForItself(k) /\ "sync" \in NestedModes

\* What makes it inductive: the mutex is held by a loop thread at work and that
\* over a live connection, a callback has made at most one call, in a mode it
\* may use, and what is on the wire is on a connection that is up.
HoldersAtWork ==
  /\ \A k \in Conns : dispatcher = k => at[k] # "idle"
  /\ \A k \in Conns : nested[k] # None =>
       at[k] = "callback" /\ pc[nested[k]] # "idle" /\ mode[nested[k]] \in NestedModes
  /\ \A c \in Calls : pc[c] \in {"sent", "returned"} => conn[c] # None
  /\ \A c \in requests \cup {m.id : m \in answers} :
       conn[c] # None /\ link[conn[c]] = "up"

\* How far c still has to go, in the thread that makes it and in its message.
At(c, a) == \E k \in Conns : at[k] = a /\ cur[k].id = c

ThreadWork(c) ==
  IF pc[c] = "idle" THEN 4
  ELSE IF pc[c] = "begun" THEN 3
  ELSE IF pc[c] = "described" THEN 2
  ELSE IF pc[c] = "sent" THEN 1 ELSE 0

MessageWork(c) ==
  IF pc[c] \in {"idle", "begun", "described"} THEN 7
  ELSE IF c \in requests THEN 6
  ELSE IF \E m \in answers : m.id = c THEN 5
  ELSE IF At(c, "lookup") THEN 4
  ELSE IF At(c, "found") THEN 3
  ELSE IF At(c, "callback") THEN 2
  ELSE IF At(c, "erase") THEN 1 ELSE 0

Work(c) == ThreadWork(c) + MessageWork(c)

\* The steps of threads, loops, server and callbacks; not those of the links, nor
\* the one that ends the process.
Works ==
  \/ \E c \in Calls : UserCall(c) \/ NewDescribe(c) \/ SendRequest(c) \/ Return(c)
  \/ \E c \in Calls, r \in RCodes : Respond(c, r)
  \/ \E k \in Conns : LoopStep(k)
  \/ \E k \in Conns, c \in Calls : NestedCall(k, c)

\* No step undoes or repeats what another has done, whatever connections fail: no
\* call moves back, and every step that is not of a link moves one call on.  A call
\* takes eleven steps at most.
WorkRunsOut ==
  [][/\ \A c \in Calls : Work(c)' <= Work(c)
     /\ Works => \E c \in Calls : Work(c)' < Work(c)]_vars

Contract == INSTANCE RpcContract WITH
  issued <- {c \in Calls : pc[c] \in {"sent", "returned"}},
  told <- [c \in Calls |-> Told(c)]

\* Requestor, RpcCaller and the loop threads implement the contract of a remote
\* call: executed at most once, only if sent, and the caller learns the outcome
\* the server produced, at most once, in every call mode.
ImplementsContract == Contract!Spec

Concluded(c) ==
  \/ mode[c] = "callback" /\ c \notin desc
  \/ mode[c] # "callback" /\ Told(c) # "nothing"

\* A call that was sent is concluded, unless its connection goes down or the
\* process dies: the future is fulfilled or broken, the sync call returns, the
\* callback has been through its handler.  It needs callbacks that do not wait.
CallConcludes ==
  \A c \in Calls :
    pc[c] = "sent" ~> Concluded(c) \/ crashed \/ CutOff(c)

-----------------------------------------------------------------------------
(* What the repository says of this code, and the code does not do.        *)

\* Fields.hpp, of REQ_SYNC: "wait for the response, then return".  A sync call
\* over a live connection returns.
SyncCallReturns ==
  \A c \in Calls : pc[c] = "sent" /\ mode[c] = "sync"
                     ~> pc[c] = "returned" \/ crashed \/ CutOff(c)

\* test_client_requestor_caller.cpp uses client->connection() right after
\* client->connect(): a client whose connect() returned has a connection to use.
ConnectedClientHasConnection == ~crashed
=============================================================================
