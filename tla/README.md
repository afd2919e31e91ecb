# A verification of the JsonRpc component library

The repository is a C++ library for JSON remote calls, a service registry and
publish/subscribe, on the muduo network library. This directory holds TLA+
models of it, TLC configurations that check them on small instances, and
theorems about them that TLAPS proves for every instance. Paths below are
relative to `Remote_Procedure_Call_Component_Library_JsonRpc/source/`.

## 1. The system

### Components

| Component | State | Operations | What makes it correct |
|---|---|---|---|
| **Call path**: `client/RpcCaller.hpp`, `client/Requestor.hpp`, `common/Dispatcher.hpp` | `_request_desc` (requests waiting for an answer), the promise of each, the dispatcher's mutex and handler table | sync, async and callback call; `onResponse` | the answer finds its request, the caller learns the outcome once, callbacks do not overlap, every call ends |
| **Framing and connections**: `common/Net.hpp` | the buffer of a connection; `MuduoServer::_conns`; `MuduoClient::_conn` and its latch | `serialize`, `canProcessed`, `onMessage`; connect, `onConnection`, send, shutdown | messages arrive once, in order, however the stream is cut; nothing ordinary is refused; a connected client has a connection |
| **Registry server**: `server/Rpc_Registry.hpp` | providers by service and by connection, discoverers by service and by connection | registration, discovery, disconnection, notification | the indexes agree; who asked is told what changes; the dead are unlisted |
| **Discovery and client pool**: `client/Rpc_Client.hpp`, `client/Rpc_Registry.hpp` | `_method_hosts` (cache of hosts), `_rpc_clients` (one client per host) | `serviceDiscovery`, online and offline notifications, `getClient`, `newClient`, `delClient` | the cache follows the registry; a call goes to a host of its service; no empty list is chosen from; clients are shared and kept |
| **Topic server**: `server/Rpc_Topic.hpp` | topics with their subscribers, subscribers with their topics | create, remove, subscribe, cancel, publish, disconnection | a publication reaches exactly the subscribers |
| **Topic client**: `client/Rpc_Topic.hpp`, `TopicClient` | `_topic_callbacks` | the same five, and `onPublish` | who is subscribed has a callback, and the one last asked for |
| **RPC service**: `server/Rpc_Router.hpp`, `RpcServer` | `_services` | `registerMethod`, `onRpcRequest` | one answer per request; the code tells what failed |
| **Service registration client**: `Provider`, `RegistryClient` | none | `registryMethod` | the caller learns whether the service is registered |
| **Messages** (not modelled): `common/Message.hpp`, `Fields.hpp`, `Detail.hpp`, `Uuid.cpp` | none between calls | serialize, unserialize, check, uuid | a message survives the round trip; ids are unique |
| **Interfaces, log** (not modelled): `common/AbstractionLayer.hpp`, `Log.c` | none | – | – |

`future/`, `jsoncpp/` and the top-level `muduo/` hold examples of the libraries
used, and `test/` small programs that are run by hand; none of them is modelled.

### How they interact

A user thread calls `RpcClient::call`. With discovery on, it first asks the
`Discoverer` for a host: from the cache, or by a sync request to the registry
over the connection of the `DiscoveryClient`. It then takes the client of the
host from the pool, or creates one, and hands its connection to `RpcCaller`,
which puts a description in `Requestor`'s table and sends. The server's loop
thread reads the frame, finds the handler in its `Dispatcher`, and answers. At
the client, the loop thread of the connection reads the answer, takes the
client's `Dispatcher` mutex, and `onResponse` fulfils the promise or invokes the
callback and erases the description. The registry pushes notifications over the
same connection that carries its answers; the topic server pushes publications.

Threads: each `MuduoServer` runs its handlers in one loop thread (`start()` runs
`_baseloop.loop()` and `setThreadNum` is never called), so a server handler is
atomic with respect to the others of its server. Each `MuduoClient` has a loop
thread of its own, which all share the `Requestor` and the `Dispatcher` of the
`RpcClient` they belong to. User threads are as many as the user likes.

### What is hard

`PROJECT.json` lists the hazards one by one, at their lines. In short:

* *interleavings* of user threads with loop threads: the answer can be handled
  before `send` returns; `_conn` is set after `connect()` is released; the cache
  of hosts is unlocked for the round trip to the registry; two threads create a
  client for one host;
* *the dispatcher's mutex is held while user code runs*, and a callback that
  waits for an answer waits for itself;
* *lost messages*: a connection that goes down takes what is in flight with it,
  and nothing fails the calls that wait for it (there are no timeouts); a call
  that takes a connection after it has gone down dereferences null;
* *addresses are not processes*: `kReusePort` lets two servers share one, and a
  pooled client stays with the one it connected to;
* *two indexes of one relation*, in both server managers, cleaned by walking
  each other when a connection closes;
* *two ends of one relation*: a client's table of callbacks and the server's
  subscribers, each changed before or after the message that tells the other;
* *two steps of one registration*: a description enters the router's table before
  the registry is told, and either can be without the other for a while;
* *a byte stream cut anywhere*, with a limit on what may pile up.

Nothing is persisted and no request is retried, so there is no recovery and no
duplication to model; TCP neither reorders nor duplicates.

## 2. The modules

There are seven models, each with a proof module (`Discovery` with two). Two of
them compose others: `TopicSystem` runs `TopicServer`, and `RpcService` runs `RegistryServer`, behind
clients. `RpcContract`, `Directory`, `PubSub`, `Fifo` and `Resolver` are abstract
specifications, which `Requestor`, `RegistryServer`, `TopicServer`, `Framing` and
`Discovery` implement; so do the compositions, `RpcService` the directory and
`TopicSystem` publish and subscribe.

### `Requestor` and `RpcContract`

`Requestor` is the call path and the connections under it. State: `desc` is the
key set of `_request_desc`; `response` the promises; `pc`, `mode`, `conn` the
calling threads; `at`, `cur`, `nested` the loop threads; `dispatcher` the mutex;
`requests` and `answers` what is on the wire; `link` the life of a `MuduoClient`
(`connecting`, `latched`: the latch is down but `_conn` is not set, `up`,
`down`). Each critical section of `Requestor::_mutex` is an action: `NewDescribe`,
`GetDescribe`, `DelDescribe`; between them come `SendRequest`, the three ways an
answer is delivered (`SetResponse`, `SetFuture`, `InvokeCallback`) and `Return`.
`OnMessage` takes the dispatcher's mutex, `Finish` gives it back. A callback may
make a call itself (`NestedCall`), in a mode of the constant `NestedModes`.
`handed` and `executed` are auxiliary.

`RpcContract` is what a remote call promises: a call is issued, executed at most
once with some outcome, and its caller told that outcome at most once.
`ImplementsContract` is the refinement (`issued` are the calls that were sent,
`told` what the mode of the call shows its caller).

Two properties take `CallConcludes` apart into what needs no fairness.
`OnlyCallbacksBlock`: an outstanding call over a live connection is at the
server, or has an answer that the loop thread is free to take, or a handler holds
the mutex that can go on; the one exception is a callback that waits for an
answer of its own (finding 1). `WorkRunsOut`: a call takes eleven steps at most,
and no step, the loss of a connection included, repeats or undoes one.

### `RegistryServer` and `Directory`

Both managers and the connection table of `MuduoServer`. One handler is one
action: `Connect`, `Register`, `Discover`, `Disconnect`; the operators
`AddProvider`, `DeleteProvider`, `AddDiscoverer`, `DeleteDiscoverer`,
`OnlineNotify`, `OfflineNotify` are the managers' methods. `provMethods` is never
changed, because `addProvider` returns before `appendMethod`. `offered`, `asked`
and `known` are auxiliary; `known` is what an ideal client learns.

`Directory` is a set of offers, a set of watches and what each watcher has been
told, which after every step is the listing. When a connection ends its watches
end with it, and any of its offers may be unlisted, none other's:
the specification leaves open whether a dead provider is unlisted (finding 3), and
demands that who watches is told if it is. `ImplementsDirectory` is the
refinement.

### `RpcService`

`RpcServer`, its `RpcRouter` and its registration with the registry, composed
with `RegistryServer` (`Registry == INSTANCE RegistryServer`; a server and a
client are connections of it). Registration has two halves, as in
`registerMethod`: `RegisterMethod` inserts the description (`insert` keeps the
older one), then `RegistryMethod`, `OnServiceRequest` and `Registered` are the
sync request of `Provider`. `Start` is `start()` after what `main` registers
before it; more may be registered later. `Crash` ends a process, and
`Construct` starts one at any time, also at an address where another runs:
`MuduoServer` listens with `kReusePort` (`common/Net.hpp:204`), so several
processes may share an address, at once or in turn, before or after the registry
hears of the end of any (`Disconnect`).

A call goes to an address its client was told of (`Call`). It takes the client
that `pool` has for the address, or makes one, which connects when somebody
listens there (`ConnectHost`, which ends in `putClient`'s `insert`). A connection
is named by the call that made it (`conn`), and may go down at any time
(`ConnectionLost`, `down`). `Send` is what the call does with it: `connection()`
of a client whose connection is gone is null, and the process dies with all its
calls (`crashed`); otherwise the request is sent. Nothing takes a client out of
this pool, since the present registry announces nobody offline (finding 3): when
a server restarts at its address, the next call of a client that has called it
before ends that client. `OnRpcRequest` chooses the return code. `Check` is the
`switch` of `ServiceDescribe`, `ParamCheck` the loop over the description;
parameters are functions from names to kinds of values. `answer` carries, besides
the code, which description's handler ran and what it returned (auxiliary).

The properties compare the code's tests with a table of their own (`Accepts`),
and the answer with the router's table at any later time, so that they do not
repeat `OnRpcRequest`. A call for a service of one process can reach another at
its address, and be told `NOT_FOUND_SERVICE`, although neither has ended.
`AnnouncedIsServed` says that this is the only way: whoever answers "not found" is
not the one that offered the service, which another process at the same address
did. A server that is alone at its address is never asked for what it has
announced and does not have. `CallIsAnswered` excepts a call whose connection
was lost, the calls of a client that died as told above, and an address where
nobody can come to listen any more; each exception is a state of the model, not
a case left out of it.

### `TopicServer` and `PubSub`

`TopicManager` with its two tables; one request or disconnection is one action.
`PubSub` is a set of topics, a set of pairs, and publications that reach exactly
the subscribers; `ImplementsPubSub` is the refinement.

### `TopicSystem`

`TopicClient` and `client::TopicManager` around `TopicServer` (`Server ==
INSTANCE TopicServer`; a connection is its client), over two ordered channels per
client. An operation is `Subscribe` or `Cancel` (the callback table is changed
first) and then `CommonRequest`, or `Request` for the other three; `Handle` is
the server's loop thread with one of its handlers, which sends the publications
and then the answer; `OnResponse`, `OnPublish` and `CallbackReturns` are the
client's loop thread, one message at a time; `Return` ends the operation and
erases the callback of a subscribe that failed. `Disconnect` drops what is on its
way in both directions.

A client's table and the server's agree only while operations on one topic do
not overlap at one client. When two threads subscribe to one topic, and the
request of one fails, its `delSubscribe` erases the callback by name and with it
that of the other, whose request may succeed: that client is subscribed and hears
nothing. `contended` (auxiliary) records that two such operations overlapped,
and the properties speak of the other cases; without the exemption TLC finds the
trace just told.

### `Discovery` and `Resolver`

The client's side of the registry, and the pool. A call goes through
`Lookup` (first critical section up to `empty()`), `Choose` (`chooseHost`, still
under the lock), or `Ask`, and then `NotFound` or `Install` (second critical
section); then `GetClient` and perhaps `PutClient`. `link` is the connection of
`DiscoveryClient`: when it goes down (`ConnectionLost`) requests, answers and
notifications on their way are lost, the registry forgets the client, and
whoever waits goes on waiting, for there is no timeout. A call that finds nothing
in the cache after that dereferences null (`NullConnection`) and the process
ends; one that took the connection before is swallowed by `send` (`Ask`). `link`
begins as `up`: the window between `connect()` and the assignment of `_conn` is
finding 2, in `Requestor`. `OnAnswer`, `OnOnline` and
`OnOffline` are the loop thread of the registry connection, which takes messages
from `channel` in order. `hosts` are bags, because `appendHost` keeps duplicates
and `removeHost` removes one. A pooled client is named by the call that created
it. `overtaken` and `coherent` are auxiliary: they tell a cache filled by an
answer that a notification overtook from any other.

A provider may register its service again over its connection (`Announce` of one
that is listed): the registry's set lists it once and `onlineNotify` tells the
discoverers each time, so that a cache gets a copy which the registry does not
have, and keeps it when the provider leaves. `repeats` (auxiliary) counts them.
`UpToDate(bag, k, m)` has therefore two bounds: a bag of hosts, corrected by the
notifications behind the first `k` messages of the channel, has every copy that
the registry lists, and at most as many more as registrations were repeated.
`CacheCoherent` claims it for the caches that are coherent, while the connection
lasts.

`Resolver` is a discovery without cache, lock and messages: a call takes a host
that was at some time registered for its service, or asks; if it asks, it looks
at the list of one moment between its asking and its end, takes a host of that
list, and fails only if the list was empty. What it saw may be lost before it
takes a host (`Lose`), and then it is asking as before. `ImplementsResolver` is
the refinement (the look is `Answer`, in the registry); `WaitersServed` says that,
while the connection is up, the request or the answer of whoever waits is on its
way, and that the mutex is held only by one who is about to release it.

The registry here (`Announce`, `Withdraw`, `Answer`) is the one the client is
written for: when a provider leaves, it is unlisted and announced offline, as
the loop in `onShutdown` does for the services a provider remembers. The present
server never remembers any (finding 3), so offline notifications do not
occur with it; the client's handling of them is checked nevertheless.

### `Framing` and `Fifo`

One direction of a connection. A frame is a sequence of cells `<<m, i>>`, the
i-th byte of the frame of message m; `wire` and `buffer` are sequences of cells;
`Arrive(n)` moves any number of them and starts the `onMessage` loop, whose
steps are `HandleFrame`, `AwaitMore` and `Refuse`. `Refuse` calls `shutdown()`,
which closes the writing half: what is on the wire may still arrive and be
handled (finding 4), but need not, since a peer that reads the end of the stream
closes and drops what it has not sent. `Fifo` is the abstract
channel, which `Framing` implements. `FramesAt(off)` says where in the unread
bytes the frame of each unhandled message begins; it is the invariant of the
proof.

### MC modules

`MC_<Module>` instantiates a module for TLC, and `MC_<Module>*.cfg` are the
runs. Definitions commented as mutants are variants of the definition after them
with a plausible mistake; each property is violated by one of them, which shows
that the property depends on the code it is about.

## 3. What the runs check

| Run | Instance | States | Shows |
|---|---|---|---|
| `requestor` | 2 calls of any mode, 2 connections, callbacks that call without waiting | 71,207 | types; no answer without a description; no stale description; one callback at a time; nothing but a waiting callback blocks; the contract; every call over a live link concludes |
| `requestor_nested_sync` | as above, callbacks that make sync calls | violation | finding 1 |
| `requestor_connect_race` | as the first | violation | finding 2 |
| `registry` | 3 connections (two of one restarted server), 2 services, 2 addresses | 101,073 | types; live providers stay listed; who asked knows what a new discovery would say; `Directory` is implemented |
| `registry_dead_provider` | as above | violation | finding 3 |
| `rpc_service` | 2 servers at one address, at once or in turn, 2 descriptions of one name, 1 client with its pool, 2 calls | 958,367 | types; "not found" comes only from a process that shares its address with the one that has the service; one handler per name; the code tells what happened; the registered stay listed; calls are answered unless their connection was lost, or gone when they took it |
| `topic_server` | 3 connections, 2 topics | 2,906 | types; indexes agree; `PubSub` is implemented |
| `topic_system` | 2 clients with 2 threads and 1, 1 topic | 207,314 | types; a subscriber has a callback; a publication finds one; none runs after `cancel` has returned; who waits has an answer to come; operations return |
| `framing` | 4 messages of 3 sizes (smallest, exactly the limit, over it) | 16,361 | types; refusals only over the limit; bounded buffer; nothing complete is left lying; `Fifo` is implemented; everything is handled at last on a connection that is not shut down |
| `framing_refused` | as above | violation | finding 4 |
| `discovery` | 2 calls, 2 services, 2 addresses, 3 providers, 1 repeated registration, a connection that may be lost | 464,396 | types; `chooseHost` never on an empty list; calls go to hosts of their service; a filled cache stays right but for repeated registrations; pooled clients stay; while the connection is up, who waits has an answer to come; `Resolver` is implemented; discoveries end unless their connection was lost |
| `discovery_race` | as above | violation | finding 5 |

Deadlock is not checked: every system here stops when its users have nothing
left to ask, which is legal. What must not stop is stated as liveness.

### Bounds, and why they are enough

* *Calls, Conns = 2* in `Requestor`: all that its properties relate is one call
  with itself, two handlers with each other, or a callback with the call it
  makes. A nested call over the same connection meets its own loop thread; over
  the other one, another loop thread.
* *3 connections* in the servers: a subscriber, another that is to be left alone,
  and a publisher, or the old and the new connection of a server and a client.
* *RpcService*: two processes at one address are a restart, or two that share it;
  the first registers a name before `start()` and once more, with another
  description, at any time; the second does not have it and can be asked for it.
  The parameters tell an integer from another number; the handlers return an
  integer, which is right by the first description and wrong by the second. Two
  calls of one client are what the pool needs: the first connects, the second
  finds it, or both create one.
* *TopicSystem*: two threads of one client overlap on the topic, the second
  client's thread creates, removes and publishes it. `MaxChannel` = 1 keeps a
  publisher from filling the channels: it publishes only while no client has more
  than one message to read, so up to two publications and an answer are on their
  way at once.
* *Discovery*: two threads are what the races need; one address is registered
  by two providers so that bags and sets differ; the second service at another
  address shows calls going astray. `MaxRepeats` bounds the registrations a
  discoverer is told of once more: one for the first service, which is enough for
  a copy too many that is never taken back, and none for the second.
* *Framing*: the length field is two bytes long, so that it can be cut; the sizes
  are 5, 7 and 11 cells with a limit of 7. Several small messages exceed the
  limit together, and `MaxSends` = 4 leaves one message in progress behind them.
  The field widths of the code (4, 4, 4) and its limit (65,536) are constants.

### Fairness, and why the code justifies it

* The threads of calls and loops run when they can (`WF` on each thread's steps):
  they are ordinary threads, and each waits only at the places modelled as
  guards (the promise, the mutexes).
* A server answers each request it receives (`WF` on `Respond`, `Answer`,
  `Handle`, `OnRpcRequest`): every branch of `onRpcRequest`, `onServiceRequest`
  and `onTopicRequest` sends one response.
* A user's callback returns (`LoopStep` of `TopicSystem` contains
  `CallbackReturns`), and `main` goes on to what it registers before `start()`,
  and to `start()`.
* TCP delivers (`WF` on `Arrive` while the connection is not shut down: after
  `shutdown()` a muduo peer closes and drops its unsent output; in the other models
  a channel is read under the reader's fairness). A call that has a client goes on
  to `Send`. `connect()` succeeds if somebody listens (`ConnectHost`):
  muduo's connector tries for ever.
* Nothing obliges users to call or to begin an operation, processes to end or
  links to go down: `UserCall`, `Lookup`, `UserStep`, `Call`, `Crash`,
  `ConnectionLost`, `Disconnect`, `LinkStep` have no fairness, nor has
  `PutClient`, where `connect()` may wait for ever. The liveness properties
  except what a lost connection or an ended process makes impossible, since
  there are no timeouts. `OperationReturns` lets an operation hang whose
  connection went down, and `DiscoveryConcludes` a discovery whose request or
  answer was lost with the connection to the registry, or whose process died of
  the null connection; one that chooses from the cache, or has its answer, ends
  all the same. `CallIsAnswered` excepts a lost connection, a client that died,
  and a call to an address where nobody can come to listen any more (`Alive`),
  which happens also when a server's connection to the registry goes down during
  a registration that `main` waits for.

A mutex is acquired under weak fairness. In `Discovery` that is enough because a
call takes the lock at most twice; `Dispatcher`'s mutex is held by one handler
at a time, whose every step is fair, and the messages of an instance are finite.

### Findings

1. `common/Dispatcher.hpp:45`. The mutex is held while the user's callback runs;
   a sync call made in it never returns. (`SyncCallReturns`)
2. `common/Net.hpp:382`. `connect()` is released before `_conn` is set, and the
   first call can dereference null; so can a call over a connection that went
   down. (`ConnectedClientHasConnection`)
3. `server/Rpc_Registry.hpp:64`. `addProvider` returns before `appendMethod`, so
   a provider that disconnects stays listed and is never announced offline.
   (`NoDeadProvider`)
4. `common/Net.hpp:267`. The comment in `onMessage` (line 260) has the connection
   closed at once when an incomplete message exceeds the limit. `shutdown()`
   closes only the writing half, so that the refused message is handled as soon
   as it is complete. (`NothingHandledOnceRefused`)
5. `client/Rpc_Registry.hpp:154`. A discovery installs its answer over
   notifications that were sent after it and handled before it: a new host is
   forgotten, or one that left comes back. (`InstallFindsNone`)

Noticed while modelling, with no run of their own:

* `client/RpcCaller.hpp:126`: a callback-mode call that the server answers with
  an error never invokes its callback. `Requestor` models it so, and
  `RpcContract` therefore promises no more than that a caller learns at most one
  outcome, never a wrong one.
* `common/Net.hpp:265`: the limit is only looked at while a message is incomplete,
  so the large message of finding 4 is accepted when it comes in one read.
* `server/Rpc_Topic.hpp:159`: a cancellation for a topic that does not exist is
  answered OK, where the comment at line 152 asks for an error; it disturbs no
  subscription (`TopicServer` models it so).
* `server/Rpc_Registry.hpp:250`: a service registered again over one connection is
  listed once and announced once more, although the comment at line 192 speaks of
  a *new* provider coming online; the copy too many in a client's list outlives
  its provider. `CacheCoherent` bounds it.
* `client/Rpc_Client.hpp:173`: the pool hands out a client whose connection is
  gone, and the call dereferences null: finding 2's second half again, reached by
  restarting a server. `RpcService` models the end of the client (`Send`).
* `common/Net.hpp:204`: with `kReusePort` two servers started by mistake at one
  address both run, and a client is told "not found" by the one that does not
  have the service.
* `client/Rpc_Topic.hpp`: a failed subscribe erases another thread's callback
  (see `TopicSystem` above; no run shows it, the properties except it by
  `contended`).
* `Provider::registryMethod` returns true whatever the return code; the present
  registry answers only `RCODE_OK`.

## 4. What is proved

All proofs are for any number of calls, connections, services, hosts, topics,
providers, threads, descriptions and messages of any sizes, and are checked by
TLAPS (SMT, Zenon, and LS4 for the temporal steps). Assumptions: `None` is none
of the other values (in `Discovery` and `TopicSystem` neither a list of hosts nor
a return code, in `RpcService` not a call), `NestedModes` are modes, repeated
registrations are bounded by some number, addresses are addresses, servers
are not clients, descriptions name value types, the set of providers is finite,
sizes are numbers.

| Module | Theorems |
|---|---|
| `RequestorProofs` | `TypeCorrect`, `CallsAlwaysConsistent`, `DescriptorsAlwaysAccountedFor`, `NoResponseOrphaned`, `CallbacksSerialised`, `NothingElseBlocks`, `WorkAlwaysRunsOut`, `RequestorImplementsContract` |
| `RegistryServerProofs` | `TypeCorrect`, `DiscoverersAlwaysIndexed`, `LiveProviderAlwaysListed`, `DiscoverersAlwaysUpToDate`, `RegistryImplementsDirectory` |
| `RpcServiceProofs` | `TypeCorrect`, `AnnouncedAlwaysServed`, `AlwaysServedByOne`, `RcodeAlwaysTells`, `RegisteredAlwaysListed`, `CallsNeverWaitForNobody`, `ComposesRegistry`, `IndexedInTheService`, `LiveServerAlwaysListed`, `ClientsAlwaysUpToDate`, `ServiceImplementsDirectory` |
| `TopicServerProofs` | `TypeCorrect`, `SubscriptionsAlwaysIndexed`, `TopicServerImplementsPubSub` |
| `TopicSystemProofs` | `TypeCorrect`, `SubscribersAlwaysHeard`, `PublicationAlwaysFindsCallback`, `CancelledAlwaysQuiet`, `WaitersAlwaysServed`, `ComposesServer`, `IndexedInTheSystem`, `SystemImplementsPubSub` |
| `FramingProofs` | `TypeCorrect`, `OnlyTooLargeRefused`, `BufferAlwaysBounded`, `CompleteAlwaysHandled`, `FramingImplementsFifo` |
| `DiscoveryProofs` | `TypeCorrect`, `AlwaysChooseFromSome`, `CallAlwaysGoesToProvider`, `PooledClientAlwaysStays`, `WaitersAlwaysServed`, `DiscoveryImplementsResolver` |
| `CacheProofs` | `CacheAlwaysCoherent` |

Each module proves an inductive invariant and draws the theorems from it; what
only liveness needs is kept in a second one on top of it.

* **Requestor**: `CallsConsistent`, which includes `DescriptorsAccountedFor`. That
  an answer finds its description is not inductive: it needs that a request on
  its way is described (`RequestsPending`), that what is on its way is not being
  handled at the same time (`AnswersPending`), that a handler past the promise
  has recorded the outcome (`HandlersConsistent`), and that an erased description
  belongs to a completed call (`ErasedIsCompleted`). The refinement maps the
  recording of an outcome, or for a future the erasure, to `Tell`. That only
  callbacks block needs `HoldersAtWork`: the mutex is held by a loop thread at
  work, a callback's own call began in a mode it may use, and what is on the wire
  is on a connection that is up. That the work runs out needs that a response is
  in one place only (`HandledAlone`), so that every step takes it from a place to
  a later one.
* **RegistryServer**: `DiscoverersUpToDate` needs that the index of discoverers
  holds exactly the questions of the open connections and that a client knows
  nothing of services it did not ask for (`WatchersRegistered`). The same
  invariant gives the refinement of `Directory`: `InformStep` shows once, for all
  handlers, that what a step sent tells the watchers the new listing and the
  others nothing.
* **RpcService**: `AnnouncedIsServed` follows the announcement: what a client
  knows was offered, what is offered was inserted first, and insertions are never
  undone (`OfferedIsServed`); a call is made to an address where somebody offered
  its service (`CallsGoToOffer`), and a connection leads to a process at that
  address, whoever made it and however long it was in the pool
  (`PoolLeadsToHost`). Who offered the service has it in its table, so that "not
  found" came from somebody else. Nothing is assumed of how many processes share
  an address, nor of when they run.
  `ComposesRegistry` shows that every behaviour is one of `RegistryServer`, whose
  theorems are then cited for the composition (`Known == INSTANCE
  RegistryServerProofs`). That no call waits for nobody needs that a registration
  is lost only with its connection, that a server which ends, and a connection
  that goes down, takes the requests it has with it (`NothingLostBehind`).
* **TopicServer**: the types and `SubscriptionsIndexed` are inductive together.
* **TopicSystem**: the order of the channel carries the argument. A thread that
  waits has its request or its answer in one place (`OutstandingOnce`); two
  threads at work on one topic are on record (`ContentionSeen`); the callback is
  there from the beginning of a subscribe (`CallbackFirst`); and an answer that
  leaves the client without its subscription has every publication of the topic
  before it (`AnsweredLast`), so that when it is read none is left.
  `WaitersServed` has an invariant of its own: a request is queued, or its answer
  is in the channel, for every thread that waits over an open connection; an operation
  begins only after its connection was made (`BegunConnected`). `ComposesServer` carries the theorems of `TopicServer`, its
  refinement of `PubSub` included, over to the composition.
* **Framing**: the bytes not yet handled, in the buffer and on the wire, are the
  frames of the messages not yet handled, at offsets that do not decrease
  (`FramesAt`). A complete frame at the head of the buffer is therefore that of
  the next message; and an incomplete one of a message within the limit cannot
  be more than the limit. `Arrive` maps to a stutter of `Fifo`, `HandleFrame` to
  a delivery. While the loop is at rest no complete frame of a message is left in
  the buffer (`HandledWhenComplete`): the loop stops only at one that is not.
* **Discovery**: a call that is about to choose holds the lock over a list that is
  not empty (`OneChooses`); every host in a message, an answer, the cache or a
  call comes from a provider (`ChannelTruthful`, `HostsOffered`); a client is
  connected to the host it is pooled and used for (`ClientsOfHosts`). Who waits is
  served, while the connection is up, because every asker is in exactly one of
  three places: its request is at the registry, one answer to it is in the
  channel, or its promise is set. The refinement of `Resolver` follows the list
  of hosts from the registry's look at it to the call that chooses from it; a
  cached list need only be of hosts that were offered once. The loss of the
  connection maps to `Lose`: the calls whose answer was on its way have not
  looked, for all anybody will know.
* **Cache**: `CacheCoherent` counts. A provider that comes or goes changes the
  registry's count and the notifications on their way by the same one
  (`Balance`), and one that registers again changes the notifications and
  `repeats` by one, for services the client watches, which while the connection
  lasts are all that it hears or remembers something of (`Watching`); an answer is right behind itself (`AnswersUpToDate`) until a
  notification overtakes it. A host taken from a coherent cache is there to be
  taken because none was announced to be gone more often than it was there
  (`NoHostLeavesTwice`).

TLC has checked each of these invariants before its proof, except `FramesAt`,
which quantifies over functions on the naturals. `CallsConsistent`,
`HoldersAtWork`, `WorkRunsOut`, `DiscoverersIndexed`, `NothingLostBehind` and
`NoCallWaitsForNobody` are in none of the runs above: what these runs do check
implies them or rests on them, and they are proved.

Only model-checked: the liveness properties, which need fairness and `ENABLED`.
Every safety property of the passing runs, and every refinement, is proved; and so
is, for each liveness property, the part of it that is a safety property, namely
that the step it waits for is always there to be taken:

| Liveness (TLC) | Its safety core (TLAPS) |
|---|---|
| `CallConcludes` | `OnlyCallbacksBlock`, `WorkRunsOut` |
| `EverythingHandled` | `HandledWhenComplete` |
| `DiscoveryConcludes` | `WaitersServed` of `Discovery` |
| `OperationReturns` | `WaitersServed` of `TopicSystem` |
| `CallIsAnswered` | `NoCallWaitsForNobody` |

## 5. What is not modelled, and what is assumed

* Message contents, JSON, `check()` of messages (called by `test/test_message.cpp`
  only): sequential and stateless. A message is its id, its return code, its
  service or topic; parameters of a call are objects, as every client sends them.
* Message ids are unique (`UUID::uuid`: eight random bytes and a counter).
* muduo: delivers a stream, runs callbacks of a connection in its loop thread,
  sends a buffer given to `send` in one piece. `TcpClient` does not reconnect by
  itself once a connection is down (`enableRetry` is not called).
* The data race on `MuduoClient::_conn` is read as one atomic value, null or set.
* The life time of client objects: the loser of the race in `newClient`
  (`client/Rpc_Client.hpp:162`) and the client dropped by `delClient` (`:209`)
  are destroyed with calls perhaps outstanding, and their destructor joins a loop
  thread while mutexes are held. What then happens to a call is decided by
  muduo's destructors, which are not part of the repository. Both are listed as
  hazards without a property.
* `Discoverer::_methods` (`server/Rpc_Registry.hpp:145`) grows with every repeated
  discovery; the model keeps a set, since everything done with the list is
  idempotent.
* Which of two callbacks of one topic runs (`insert` keeps the older), and topic
  operations made inside a callback, which wait for themselves as in finding 1.
* `ServiceManager::remove` and the setters of `SDescribeFactory`: the first is
  never called, the second fill an object before it is registered.
* The connection of a server closing with bytes still in its buffer.
* Which bytes and answers are dropped after a `shutdown()`: `Framing` lets the rest
  of the stream arrive or not; the other direction is not in it.
* That muduo notices a dead server's connection at once: `ConnectionLost` of
  `RpcService` may come at any time after it, or never.
* The rotation of `chooseHost` (any host of the list may be chosen).
* Logging.

## 6. What is left

In order of what it would show:

1. *`Discovery` with the life time of clients* and calls made in callbacks: the
   client that lost the race, and `delClient` joining a loop thread under three
   mutexes. It needs a model of muduo's `TcpClient` and `EventLoopThread`
   destructors, best taken from muduo's own source.
2. *`Discovery` composed with `RegistryServer`*, once `addProvider` remembers the
   services of a provider: the registry that `Discovery` assumes would then be
   the one that runs.
3. *Both directions of a connection* over `Framing`, with shutdown and close:
   which answers are dropped.
4. *Liveness proofs*, with a prover that has `ENABLED`.
