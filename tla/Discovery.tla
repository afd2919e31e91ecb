------------------------------ MODULE Discovery ------------------------------
(***************************************************************************)
(* RpcClient::call with service discovery: Discoverer with its cache of    *)
(* hosts (MethodHost), the loop thread of DiscoveryClient's connection to  *)
(* the registry, and the pool of clients of RpcClient.                     *)
(*                                                                         *)
(* Every call runs in a thread of its own.  The registry is the one the    *)
(* client is written for, which also announces that a host is gone; what   *)
(* the registry server does instead is in RegistryServer.  Its messages    *)
(* come over one connection, in order, answers and notifications alike,    *)
(* until it is lost: nothing connects again, and no call times out.        *)
(*                                                                         *)
(* The hosts of a service are a bag: appendHost keeps duplicates.  The     *)
(* turn chooseHost keeps is abstracted to any choice.                      *)
(***************************************************************************)
EXTENDS Naturals, Sequences, FiniteSets

CONSTANTS
  Calls,        \* invocations of RpcClient::call
  Methods,      \* services
  Hosts,        \* addresses of RPC servers
  Providers,    \* one per service that an RPC server registers over a connection
  Service,      \* the service a provider registers
  AccessAddr,   \* the address it registers
  MaxRepeats,   \* bound: repeated registrations of each service at an address
  None          \* no call, no answer, no host

Bag == [Hosts -> Nat]

NoHosts == [h \in Hosts |-> 0]

ASSUME DiscoveryAssumption ==
  /\ Service \in [Providers -> Methods]
  /\ AccessAddr \in [Providers -> Hosts]
  /\ None \notin Calls \cup Hosts \cup Bag
  /\ IsFiniteSet(Providers)
  /\ MaxRepeats \in [Methods -> Nat]

VARIABLES
  listed,       \* providers the registry lists
  left,         \* providers that have disconnected from it
  watched,      \* services the client is a discoverer of, at the registry
  repeats,      \* auxiliary: how often the client was sent a provider once more
  link,         \* DiscoveryClient's connection: up or down; or the process died
  asking,       \* discovery requests on their way
  channel,      \* messages from the registry to the client
  pc,           \* how far each call has got
  method,       \* the service each call is for
  reply,        \* RequestDescribe::response of its discovery request
  host,         \* the host it has chosen
  cached,       \* keys of Discoverer::_method_hosts
  hosts,        \* MethodHost::_hosts of each
  lock,         \* holder of Discoverer::_mutex
  pool,         \* RpcClient::_rpc_clients: a client is named by its creator
  client,       \* the client a call goes over
  overtaken,    \* auxiliary: calls whose answer a later notification overtook
  coherent      \* auxiliary: services whose cache is up to date but for what
                \* is still in the channel

registryVars == <<listed, left, watched, repeats>>
netVars  == <<link, asking, channel>>
callVars == <<pc, method, reply, host>>
cacheVars == <<cached, hosts, lock>>
poolVars == <<pool, client>>
auxVars  == <<overtaken, coherent>>
vars == <<registryVars, netVars, callVars, cacheVars, poolVars, auxVars>>

Init ==
  /\ listed = {} /\ left = {} /\ watched = {}
  /\ repeats = [m \in Methods |-> NoHosts]
  /\ link = "up" /\ asking = {} /\ channel = <<>>
  /\ pc = [c \in Calls |-> "idle"]
  /\ method \in [Calls -> Methods]
  /\ reply = [c \in Calls |-> None]
  /\ host = [c \in Calls |-> None]
  /\ cached = {}
  /\ hosts = [m \in Methods |-> NoHosts]
  /\ lock = None
  /\ pool = [h \in Hosts |-> None]
  /\ client = [c \in Calls |-> None]
  /\ overtaken = {} /\ coherent = {}

-----------------------------------------------------------------------------
(* The registry.                                                           *)

\* How many providers of m the registry lists at address h.
Copies(m, h) == Cardinality({p \in listed : Service[p] = m /\ AccessAddr[p] = h})

Listing(m) == [h \in Hosts |-> Copies(m, h)]

Notify(kind, p) ==
  channel' = IF Service[p] \in watched
             THEN Append(channel, [kind |-> kind, method |-> Service[p],
                                   host |-> AccessAddr[p]])
             ELSE channel

\* A provider that registers its service again over its connection: the registry
\* lists it once, and tells the discoverers each time.
Again(p) == p \in listed /\ Service[p] \in watched

Announce(p) ==
  /\ p \notin left
  /\ listed' = listed \cup {p}
  /\ Notify("online", p)
  /\ IF Again(p)
     THEN /\ repeats[Service[p]][AccessAddr[p]] < MaxRepeats[Service[p]]
          /\ repeats' = [repeats EXCEPT ![Service[p]][AccessAddr[p]] = @ + 1]
     ELSE UNCHANGED repeats
  /\ UNCHANGED <<left, watched, link, asking, callVars, cacheVars, poolVars, auxVars>>

Withdraw(p) ==
  /\ p \in listed
  /\ listed' = listed \ {p}
  /\ left' = left \cup {p}
  /\ Notify("offline", p)
  /\ UNCHANGED <<watched, repeats, link, asking, callVars, cacheVars, poolVars, auxVars>>

\* Mutant of Answer: who is a discoverer already is not answered again.
AnswerOnce(c) ==
  /\ c \in asking
  /\ asking' = asking \ {c}
  /\ watched' = watched \cup {method[c]}
  /\ channel' = IF method[c] \in watched THEN channel
                ELSE Append(channel, [kind |-> "answer", call |-> c,
                                      hosts |-> Listing(method[c])])
  /\ UNCHANGED <<listed, left, repeats, link, callVars, cacheVars, poolVars, auxVars>>

\* An empty list stands for RCODE_NOT_FOUND_SERVICE.
Answer(c) ==
  /\ c \in asking
  /\ asking' = asking \ {c}
  /\ watched' = watched \cup {method[c]}
  /\ channel' = Append(channel, [kind |-> "answer", call |-> c,
                                 hosts |-> Listing(method[c])])
  /\ UNCHANGED <<listed, left, repeats, link, callVars, cacheVars, poolVars, auxVars>>

-----------------------------------------------------------------------------
(* Discoverer::serviceDiscovery, in the thread of a call.                  *)

Move(c, from, to) ==
  /\ link # "crashed"
  /\ pc[c] = from
  /\ pc' = [pc EXCEPT ![c] = to]

\* The connection is taken, null if it is down; then the first section under
\* _mutex, up to empty(), which ends here, with the lock released, unless the
\* cache has a host.
Lookup(c) ==
  /\ lock = None
  /\ IF hosts[method[c]] # NoHosts
     THEN Move(c, "idle", "choose") /\ lock' = c
     ELSE Move(c, "idle", IF link = "up" THEN "ask" ELSE "null") /\ UNCHANGED lock
  /\ UNCHANGED <<registryVars, netVars, method, reply, host, cached, hosts,
                 poolVars, auxVars>>

\* Mutant of Choose: a return that leaves the mutex locked.
ChooseLocked(c) ==
  /\ Move(c, "choose", "chosen")
  /\ \E h \in Hosts : hosts[method[c]][h] > 0 /\ host' = [host EXCEPT ![c] = h]
  /\ UNCHANGED <<registryVars, netVars, method, reply, cacheVars, poolVars, auxVars>>

\* chooseHost, and the end of the section.
Choose(c) ==
  /\ Move(c, "choose", "chosen")
  /\ \E h \in Hosts : hosts[method[c]][h] > 0 /\ host' = [host EXCEPT ![c] = h]
  /\ lock' = None
  /\ UNCHANGED <<registryVars, netVars, method, reply, cached, hosts,
                 poolVars, auxVars>>

\* _requestor->send of the request, which goes nowhere if the connection has gone
\* down meanwhile; the thread then waits for the response.
Ask(c) ==
  /\ Move(c, "ask", "waiting")
  /\ asking' = IF link = "up" THEN asking \cup {c} ELSE asking
  /\ UNCHANGED <<registryVars, link, channel, method, reply, host, cacheVars,
                 poolVars, auxVars>>

\* Requestor::send over a null connection: the process dies.
NullConnection(c) ==
  /\ pc[c] = "null"
  /\ link # "crashed"
  /\ link' = "crashed"
  /\ UNCHANGED <<registryVars, asking, channel, callVars, cacheVars, poolVars, auxVars>>

NotFound(c) ==
  /\ reply[c] = NoHosts
  /\ Move(c, "waiting", "failed")
  /\ UNCHANGED <<registryVars, netVars, method, reply, host, cacheVars,
                 poolVars, auxVars>>

\* The second section under _mutex: the answer replaces whatever is cached.
Install(c) ==
  /\ reply[c] \notin {None, NoHosts}
  /\ lock = None
  /\ Move(c, "waiting", "chosen")
  /\ cached' = cached \cup {method[c]}
  /\ hosts' = [hosts EXCEPT ![method[c]] = reply[c]]
  /\ \E h \in Hosts : reply[c][h] > 0 /\ host' = [host EXCEPT ![c] = h]
  /\ coherent' = IF c \in overtaken THEN coherent \ {method[c]}
                                    ELSE coherent \cup {method[c]}
  /\ UNCHANGED <<registryVars, netVars, method, reply, lock, poolVars, overtaken>>

-----------------------------------------------------------------------------
(* The loop thread of the connection to the registry.                      *)

\* Mutant of OnAnswer: the answer is for whoever waits.
OnAnyAnswer ==
  /\ channel # <<>> /\ Head(channel).kind = "answer"
  /\ channel' = Tail(channel)
  /\ \E c \in Calls : /\ pc[c] = "waiting" /\ reply[c] = None
                       /\ reply' = [reply EXCEPT ![c] = Head(channel).hosts]
  /\ UNCHANGED <<registryVars, link, asking, pc, method, host, cacheVars, poolVars, auxVars>>

\* Requestor::onResponse fulfils the promise of the call.
OnAnswer ==
  /\ channel # <<>>
  /\ Head(channel).kind = "answer"
  /\ channel' = Tail(channel)
  /\ LET c == Head(channel).call
     IN /\ reply' = [reply EXCEPT ![c] = Head(channel).hosts]
        /\ coherent' = IF /\ Head(channel).hosts = NoHosts
                          /\ hosts[method[c]] = NoHosts
                       THEN coherent \cup {method[c]} ELSE coherent
  /\ UNCHANGED <<registryVars, link, asking, pc, method, host, cacheVars, poolVars,
                 overtaken>>

\* The calls that hold an answer from before this notification.
Overtake(m) ==
  overtaken' = overtaken \cup
    {c \in Calls : pc[c] = "waiting" /\ reply[c] # None /\ method[c] = m}

\* Mutant of OnOnline: only services that are in the cache already.
OnlineIfCached ==
  /\ channel # <<>> /\ Head(channel).kind = "online" /\ lock = None
  /\ channel' = Tail(channel)
  /\ LET m == Head(channel).method
         h == Head(channel).host
     IN /\ hosts' = IF m \in cached THEN [hosts EXCEPT ![m][h] = @ + 1] ELSE hosts
        /\ Overtake(m)
  /\ UNCHANGED <<registryVars, link, asking, callVars, cached, lock, poolVars, coherent>>

\* Mutant of OnOnline: the host is taken to offer every service.
OnlineEverywhere ==
  /\ channel # <<>> /\ Head(channel).kind = "online" /\ lock = None
  /\ channel' = Tail(channel)
  /\ hosts' = [m \in Methods |-> [hosts[m] EXCEPT ![Head(channel).host] = @ + 1]]
  /\ cached' = Methods
  /\ Overtake(Head(channel).method)
  /\ UNCHANGED <<registryVars, link, asking, callVars, lock, poolVars, coherent>>

\* onServiceRequest, SERVICE_ONLINE.
OnOnline ==
  /\ channel # <<>>
  /\ Head(channel).kind = "online"
  /\ lock = None
  /\ channel' = Tail(channel)
  /\ LET m == Head(channel).method
         h == Head(channel).host
     IN /\ cached' = cached \cup {m}
        /\ hosts' = [hosts EXCEPT ![m][h] = @ + 1]
        /\ Overtake(m)
  /\ UNCHANGED <<registryVars, link, asking, callVars, lock, poolVars, coherent>>

\* Mutants of OnOffline: a host that is not there is removed all the same; the
\* mutex is not taken.
OfflineUnchecked ==
  /\ channel # <<>> /\ Head(channel).kind = "offline" /\ lock = None
  /\ channel' = Tail(channel)
  /\ LET m == Head(channel).method
         h == Head(channel).host
     IN /\ hosts' = [hosts EXCEPT ![m][h] = @ - 1]
        /\ Overtake(m)
  /\ UNCHANGED <<registryVars, link, asking, callVars, cached, lock, poolVars, coherent>>

OfflineUnlocked ==
  /\ channel # <<>> /\ Head(channel).kind = "offline"
  /\ channel' = Tail(channel)
  /\ LET m == Head(channel).method
         h == Head(channel).host
     IN /\ hosts' = IF hosts[m][h] > 0 THEN [hosts EXCEPT ![m][h] = @ - 1] ELSE hosts
        /\ pool' = IF m \in cached THEN [pool EXCEPT ![h] = None] ELSE pool
        /\ Overtake(m)
  /\ UNCHANGED <<registryVars, link, asking, callVars, cached, lock, client, coherent>>

\* onServiceRequest, SERVICE_OFFLINE: one copy is removed, if there is one, and
\* RpcClient::delClient drops the client of the host from the pool.
OnOffline ==
  /\ channel # <<>>
  /\ Head(channel).kind = "offline"
  /\ lock = None
  /\ channel' = Tail(channel)
  /\ LET m == Head(channel).method
         h == Head(channel).host
     IN /\ hosts' = IF hosts[m][h] > 0 THEN [hosts EXCEPT ![m][h] = @ - 1] ELSE hosts
        /\ pool' = IF m \in cached THEN [pool EXCEPT ![h] = None] ELSE pool
        /\ Overtake(m)
  /\ UNCHANGED <<registryVars, link, asking, callVars, cached, lock, client, coherent>>

\* onConnection: the connection to the registry goes down and takes with it what
\* is on its way in both directions; the registry forgets the client.  The client
\* keeps its cache, which from now on nothing corrects.
ConnectionLost ==
  /\ link = "up"
  /\ link' = "down"
  /\ asking' = {} /\ channel' = <<>>
  /\ watched' = {}
  /\ overtaken' = overtaken \cup {c \in Calls : pc[c] = "waiting" /\ reply[c] # None}
  /\ coherent' = {}
  /\ UNCHANGED <<listed, left, repeats, callVars, cacheVars, poolVars>>

-----------------------------------------------------------------------------
(* RpcClient::getClient, in the thread of a call.                          *)

GetClient(c) ==
  /\ pc[c] = "chosen"
  /\ IF pool[host[c]] # None
     THEN /\ Move(c, "chosen", "ready")
          /\ client' = [client EXCEPT ![c] = pool[host[c]]]
     ELSE /\ Move(c, "chosen", "connecting")
          /\ UNCHANGED client
  /\ UNCHANGED <<registryVars, netVars, method, reply, host, cacheVars, pool, auxVars>>

\* Mutant of PutClient: operator[] in place of insert.
PutNewest(c) ==
  /\ Move(c, "connecting", "ready")
  /\ client' = [client EXCEPT ![c] = c]
  /\ pool' = [pool EXCEPT ![host[c]] = c]
  /\ UNCHANGED <<registryVars, netVars, method, reply, host, cacheVars, auxVars>>

\* newClient: connect() returns, if ever, and putClient inserts the client
\* unless the host has one by now.
PutClient(c) ==
  /\ Move(c, "connecting", "ready")
  /\ client' = [client EXCEPT ![c] = c]
  /\ pool' = IF pool[host[c]] = None THEN [pool EXCEPT ![host[c]] = c] ELSE pool
  /\ UNCHANGED <<registryVars, netVars, method, reply, host, cacheVars, auxVars>>

-----------------------------------------------------------------------------

Discover(c) ==
  Lookup(c) \/ Choose(c) \/ Ask(c) \/ NullConnection(c) \/ NotFound(c) \/ Install(c)

LoopStep == OnAnswer \/ OnOnline \/ OnOffline

Next ==
  \/ \E p \in Providers : Announce(p) \/ Withdraw(p)
  \/ \E c \in Calls : Answer(c) \/ Discover(c) \/ GetClient(c) \/ PutClient(c)
  \/ LoopStep
  \/ ConnectionLost

Spec == Init /\ [][Next]_vars

\* The threads that hold or wait for something go on, the registry answers and
\* the loop thread runs.  Nothing obliges connect() to return: a host that does
\* not listen is tried for ever.
Fairness ==
  /\ \A c \in Calls : WF_vars(Answer(c)) /\ WF_vars(Discover(c) /\ pc[c] # "idle")
  /\ WF_vars(LoopStep)

FairSpec == Spec /\ Fairness

-----------------------------------------------------------------------------
(* Properties.                                                             *)

Notifications == [kind : {"online", "offline"}, method : Methods, host : Hosts]

Answers == [kind : {"answer"}, call : Calls, hosts : Bag]

\* The cache and the answers hold bags of hosts, the channel messages.
TypeOK ==
  /\ listed \subseteq Providers
  /\ left \subseteq Providers
  /\ watched \subseteq Methods
  /\ repeats \in [Methods -> Bag]
  /\ link \in {"up", "down", "crashed"}
  /\ asking \subseteq Calls
  /\ channel \in Seq(Notifications \cup Answers)
  /\ pc \in [Calls -> {"idle", "choose", "ask", "null", "waiting", "failed",
                       "chosen", "connecting", "ready"}]
  /\ method \in [Calls -> Methods]
  /\ reply \in [Calls -> Bag \cup {None}]
  /\ host \in [Calls -> Hosts \cup {None}]
  /\ cached \subseteq Methods
  /\ hosts \in [Methods -> Bag]
  /\ lock \in Calls \cup {None}
  /\ pool \in [Hosts -> Calls \cup {None}]
  /\ client \in [Calls -> Calls \cup {None}]
  /\ overtaken \subseteq Calls
  /\ coherent \subseteq Methods

\* chooseHost divides by the number of hosts: the list that empty() found not
\* empty is still so when a host is chosen, whatever goes offline meanwhile.
ChooseFromSome == \A c \in Calls : pc[c] = "choose" => hosts[method[c]] # NoHosts

\* Some RPC server has registered service m at address h, and may have left.
Offered(m, h) == \E p \in listed \cup left : Service[p] = m /\ AccessAddr[p] = h

\* A call goes only over a connection to a host at which some RPC server has
\* registered the service called, wherever the host came from (the cache, an
\* answer, a notification) and whoever created the client.
CallGoesToProvider ==
  \A c \in Calls : pc[c] = "ready" => Offered(method[c], host[client[c]])

\* What makes these inductive: a call that is about to choose holds the lock;
OneChooses ==
  \A c \in Calls : pc[c] = "choose" => lock = c /\ hosts[method[c]] # NoHosts

\* every host comes from a provider, on its way, in an answer, in the cache and
\* once it is chosen;
Truthful(msg) ==
  IF msg.kind = "answer"
  THEN \A h \in Hosts : msg.hosts[h] > 0 => Offered(method[msg.call], h)
  ELSE Offered(msg.method, msg.host)

ChannelTruthful == \A i \in 1 .. Len(channel) : Truthful(channel[i])

HostsOffered ==
  /\ \A c \in Calls, h \in Hosts :
       reply[c] # None /\ reply[c][h] > 0 => Offered(method[c], h)
  /\ \A m \in Methods, h \in Hosts : hosts[m][h] > 0 => Offered(m, h)
  /\ \A c \in Calls : pc[c] \in {"chosen", "connecting", "ready"} =>
                        host[c] \in Hosts /\ Offered(method[c], host[c])

\* a client is connected to the host it is pooled for and used for.
ClientsOfHosts ==
  /\ \A h \in Hosts : pool[h] # None => host[pool[h]] = h /\ pc[pool[h]] = "ready"
  /\ \A c \in Calls : pc[c] = "ready" =>
       /\ client[c] \in Calls
       /\ host[client[c]] = host[c]
       /\ pc[client[c]] = "ready"

Note(kind, m, h) == [kind |-> kind, method |-> m, host |-> h]

\* How many times msg is in the channel behind its first k messages.
After(k, msg) == Cardinality({i \in k + 1 .. Len(channel) : channel[i] = msg})

\* A bag of the hosts of m, but for the notifications behind the first k
\* messages, holds what the registry lists, copy by copy, and more copies of a
\* host only for registrations that were repeated.
UpToDate(bag, k, m) ==
  \A h \in Hosts :
    LET heard == bag[h] + After(k, Note("online", m, h))
        there == Copies(m, h) + After(k, Note("offline", m, h))
    IN there <= heard /\ heard <= there + repeats[m][h]

\* A cache that has been filled, by an answer no notification overtook or by
\* notifications after an answer that there is no host, stays what the registry
\* lists but for the notifications still on their way, as long as the connection
\* lasts: online and offline of one address by several servers never cancel out
\* wrongly, no host that is listed is missing, and there are no more copies too
\* many than registrations were repeated over their connection.
CacheCoherent == \A m \in coherent : UpToDate(hosts[m], 0, m)

\* What makes it inductive: so does an answer, behind itself while it is on its
\* way and until a notification overtakes it;
AnswersUpToDate ==
  /\ \A i \in 1 .. Len(channel) : channel[i].kind = "answer" =>
       \A m \in Methods : method[channel[i].call] = m => UpToDate(channel[i].hosts, i, m)
  /\ \A c \in Calls : pc[c] = "waiting" /\ reply[c] # None /\ c \notin overtaken =>
       \A m \in Methods : method[c] = m => UpToDate(reply[c], 0, m)

\* no host was announced to be gone more often than it was there;
NoHostLeavesTwice ==
  \A k \in 0 .. Len(channel), m \in Methods, h \in Hosts :
    After(k, Note("online", m, h))
      <= Copies(m, h) + After(k, Note("offline", m, h)) + repeats[m][h]

\* the client is a discoverer of every service it hears or remembers something of,
Watching ==
  /\ \A i \in 1 .. Len(channel) :
       IF channel[i].kind = "answer" THEN method[channel[i].call] \in watched
                                     ELSE channel[i].method \in watched
  /\ \A c \in Calls : pc[c] = "waiting" /\ reply[c] # None /\ c \notin overtaken =>
                        method[c] \in watched
  /\ coherent \subseteq watched

\* and an answer is for a call that has asked.
Unasked(c) == pc[c] \in {"idle", "choose", "ask", "null"}

AnswersAsked ==
  /\ \A c \in asking : ~Unasked(c)
  /\ \A i \in 1 .. Len(channel) : channel[i].kind = "answer" => ~Unasked(channel[i].call)
  /\ \A c \in Calls : Unasked(c) => reply[c] = None

AnswerTo(i, c) == channel[i].kind = "answer" /\ channel[i].call = c

OnItsWay(c) == \E i \in 1 .. Len(channel) : AnswerTo(i, c)

\* Nobody waits in vain while the connection lasts: the request or the answer of a
\* call that waits is on its way, or the promise is set; and who holds the mutex is
\* about to release it.
WaitersServed ==
  /\ \A c \in Calls : pc[c] = "waiting" /\ link = "up" =>
                        c \in asking \/ OnItsWay(c) \/ reply[c] # None
  /\ lock # None => pc[lock] = "choose"

\* What makes it inductive: request, answer and promise are never two at a time.
AnsweredOnce ==
  /\ \A c \in asking : pc[c] = "waiting" /\ reply[c] = None
  /\ \A c \in Calls : OnItsWay(c) => pc[c] = "waiting" /\ reply[c] = None /\ c \notin asking
  /\ \A c \in Calls : \A i, j \in 1 .. Len(channel) : AnswerTo(i, c) /\ AnswerTo(j, c) => i = j
  /\ \A c \in Calls : Unasked(c) => reply[c] = None

\* A call has looked at the list when the registry answers it, which is before it
\* hears of that.
Stage(c) ==
  CASE Unasked(c) -> "idle"
    [] pc[c] = "waiting" -> IF OnItsWay(c) \/ reply[c] # None THEN "answered" ELSE "asking"
    [] pc[c] = "failed" -> "failed"
    [] OTHER -> "found"

Seen(c) ==
  {h \in Hosts : \/ reply[c] # None /\ reply[c][h] > 0
                 \/ \E i \in 1 .. Len(channel) : AnswerTo(i, c) /\ channel[i].hosts[h] > 0}

Resolving == INSTANCE Resolver WITH
  offers <- {o \in Methods \X Hosts : Offered(o[1], o[2])},
  current <- {o \in Methods \X Hosts : Copies(o[1], o[2]) > 0},
  service <- method,
  stage <- [c \in Calls |-> Stage(c)],
  seen <- [c \in Calls |-> Seen(c)],
  found <- host

\* A call that fails had no host to go to at one moment while it asked, and a call
\* that asked goes to a host that was there at one moment while it asked, however
\* its answer overlaps with notifications, other calls and the cache.
ImplementsResolver == Resolving!Spec

\* A client, once pooled, serves its host until the host goes offline: a thread
\* that lost the race to create it does not replace it, which would close the
\* connection others still wait on.
PooledClientStays ==
  [][\A h \in Hosts : pool[h] # None => pool'[h] \in {pool[h], None}]_vars

\* A discovery ends, with a host or without: threads, loop thread and mutex
\* never wait for each other in a circle.  It hangs only for a request or an answer
\* that was lost with the connection to the registry.
Concluded(c) == pc[c] \in {"failed", "chosen", "connecting", "ready"}

DiscoveryConcludes ==
  \A c \in Calls :
    /\ pc[c] = "ask" ~> Concluded(c) \/ link # "up"
    /\ pc[c] = "choose" \/ reply[c] # None ~> Concluded(c) \/ link = "crashed"

-----------------------------------------------------------------------------
(* What the repository says of this code, and the code does not do.        *)

\* The comment before the second section: "being here means that there is no
\* host for the service at present".
InstallFindsNone ==
  [][\A c \in Calls : Install(c) => hosts[method[c]] = NoHosts]_vars
=============================================================================
