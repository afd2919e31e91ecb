---------------------------- MODULE RegistryServer ----------------------------
(***************************************************************************)
(* The registry: ProviderManager and DiscovererManager, the handlers of    *)
(* Provider_Discoverer_Manager that keep them, and MuduoServer's table of  *)
(* connections.  MuduoServer runs one loop thread, so every handler runs   *)
(* alone and is one action.                                                *)
(*                                                                         *)
(* A Provider or a Discoverer object belongs to one connection for life    *)
(* and is identified with it.  A connection object is never reused: the    *)
(* tables hold it alive for as long as they name it.                       *)
(***************************************************************************)

CONSTANTS
  Conns,        \* connections ever accepted
  Methods,      \* names of services
  Hosts,        \* addresses of RPC servers
  AccessAddr    \* the address the RpcServer behind each connection registers

ASSUME AddressAssumption == AccessAddr \in [Conns -> Hosts]

VARIABLES
  open,         \* keys of MuduoServer::_conns
  closed,       \* connections that have been closed
  providers,    \* ProviderManager::_providers
  provConns,    \* keys of ProviderManager::_conns
  provMethods,  \* Provider::_methods, as sets
  discoverers,  \* DiscovererManager::_discoverers
  discConns,    \* keys of DiscovererManager::_conns
  discMethods,  \* Discoverer::_methods, as sets
  offered,      \* auxiliary: services each connection has registered
  asked,        \* auxiliary: services each connection has asked for
  known         \* auxiliary: the hosts a client knows that applies, in order,
                \* the answers and notifications sent over its connection

connVars == <<open, closed>>
provVars == <<providers, provConns, provMethods>>
discVars == <<discoverers, discConns, discMethods>>
auxVars  == <<offered, asked, known>>
vars == <<connVars, provVars, discVars, auxVars>>

Init ==
  /\ open = {}
  /\ closed = {}
  /\ providers = [m \in Methods |-> {}]
  /\ provConns = {}
  /\ provMethods = [c \in Conns |-> {}]
  /\ discoverers = [m \in Methods |-> {}]
  /\ discConns = {}
  /\ discMethods = [c \in Conns |-> {}]
  /\ offered = [c \in Conns |-> {}]
  /\ asked = [c \in Conns |-> {}]
  /\ known = [c \in Conns |-> [m \in Methods |-> {}]]

-----------------------------------------------------------------------------
(* ProviderManager and DiscovererManager.                                  *)

\* The early return leaves appendMethod unreached: provMethods does not change.
AddProvider(c, m) ==
  /\ provConns' = provConns \cup {c}
  /\ providers' = [providers EXCEPT ![m] = @ \cup {c}]
  /\ UNCHANGED provMethods

\* Mutant of MethodHosts: the providers instead of their addresses.
MethodProviders(m) == providers[m]

MethodHosts(m) == {AccessAddr[c] : c \in providers[m]}

\* Mutant of DeleteProvider: providers are told apart by address.
DeleteProviderAt(c) ==
  /\ providers' = [m \in Methods |->
       {p \in providers[m] : c \in provConns => AccessAddr[p] # AccessAddr[c]}]
  /\ provConns' = provConns \ {c}
  /\ UNCHANGED provMethods

DeleteProvider(c) ==
  /\ providers' = [m \in Methods |->
       IF c \in provConns /\ m \in provMethods[c] THEN providers[m] \ {c}
                                                  ELSE providers[m]]
  /\ provConns' = provConns \ {c}
  /\ UNCHANGED provMethods

\* Mutant of AddDiscoverer: a known discoverer is not added to a second service.
AddNewDiscoverer(c, m) ==
  IF c \in discConns THEN UNCHANGED discVars
  ELSE /\ discConns' = discConns \cup {c}
       /\ discoverers' = [discoverers EXCEPT ![m] = @ \cup {c}]
       /\ discMethods' = [discMethods EXCEPT ![c] = {m}]

AddDiscoverer(c, m) ==
  /\ discConns' = discConns \cup {c}
  /\ discoverers' = [discoverers EXCEPT ![m] = @ \cup {c}]
  /\ discMethods' = [discMethods EXCEPT ![c] = @ \cup {m}]

\* Mutant of DeleteDiscoverer: only the connection's own entry is erased.
ForgetDiscoverer(c) ==
  /\ discConns' = discConns \ {c}
  /\ discMethods' = [discMethods EXCEPT ![c] = {}]
  /\ UNCHANGED discoverers

DeleteDiscoverer(c) ==
  /\ discoverers' = [m \in Methods |->
       IF c \in discConns /\ m \in discMethods[c] THEN discoverers[m] \ {c}
                                                  ELSE discoverers[m]]
  /\ discConns' = discConns \ {c}
  /\ discMethods' = [discMethods EXCEPT ![c] = {}]

\* SERVICE_ONLINE for host h goes to every discoverer of service m.
OnlineNotify(m, h) ==
  known' = [d \in Conns |-> IF d \in discoverers[m]
                            THEN [known[d] EXCEPT ![m] = @ \cup {h}]
                            ELSE known[d]]

\* SERVICE_OFFLINE for host h goes to every discoverer of each service of ms.
OfflineNotify(ms, h) ==
  known' = [d \in Conns |-> [m \in Methods |->
              IF m \in ms /\ d \in discoverers[m] THEN known[d][m] \ {h}
                                                  ELSE known[d][m]]]

-----------------------------------------------------------------------------
(* The handlers.                                                           *)

\* MuduoServer::onConnection, the connection is up.
Connect(c) ==
  /\ c \notin open \cup closed
  /\ open' = open \cup {c}
  /\ UNCHANGED <<closed, provVars, discVars, auxVars>>

\* onServiceRequest, SERVICE_REGISTRY.
Register(c, m) ==
  /\ c \in open
  /\ AddProvider(c, m)
  /\ OnlineNotify(m, AccessAddr[c])
  /\ offered' = [offered EXCEPT ![c] = @ \cup {m}]
  /\ UNCHANGED <<connVars, discVars, asked>>

\* onServiceRequest, SERVICE_DISCOVERY: the answer lists the hosts, or says that
\* there are none and changes nothing at the client.
Discover(c, m) ==
  /\ c \in open
  /\ AddDiscoverer(c, m)
  /\ asked' = [asked EXCEPT ![c] = @ \cup {m}]
  /\ known' = IF MethodHosts(m) = {} THEN known
              ELSE [known EXCEPT ![c][m] = MethodHosts(m)]
  /\ UNCHANGED <<connVars, provVars, offered>>

\* MuduoServer::onConnection, the connection is down; then onShutdown.
Disconnect(c) ==
  /\ c \in open
  /\ open' = open \ {c}
  /\ closed' = closed \cup {c}
  /\ OfflineNotify(IF c \in provConns THEN provMethods[c] ELSE {}, AccessAddr[c])
  /\ DeleteProvider(c)
  /\ DeleteDiscoverer(c)
  /\ UNCHANGED <<offered, asked>>

Next ==
  \E c \in Conns : \/ Connect(c)
                   \/ \E m \in Methods : Register(c, m) \/ Discover(c, m)
                   \/ Disconnect(c)

Spec == Init /\ [][Next]_vars

-----------------------------------------------------------------------------
(* Properties.                                                             *)

\* The tables hold connections and services, the clients' knowledge hosts.
TypeOK ==
  /\ open \subseteq Conns
  /\ closed \subseteq Conns
  /\ providers \in [Methods -> SUBSET Conns]
  /\ provConns \subseteq Conns
  /\ provMethods \in [Conns -> SUBSET Methods]
  /\ discoverers \in [Methods -> SUBSET Conns]
  /\ discConns \subseteq Conns
  /\ discMethods \in [Conns -> SUBSET Methods]
  /\ offered \in [Conns -> SUBSET Methods]
  /\ asked \in [Conns -> SUBSET Methods]
  /\ known \in [Conns -> [Methods -> SUBSET Hosts]]

\* The two indexes of DiscovererManager, by service and by connection, describe
\* one relation, and a closed connection is in neither: onlineNotify never sends
\* to a connection that is gone, and no discoverer is lost by a disconnection of
\* another.
DiscoverersIndexed ==
  /\ discConns \subseteq open
  /\ \A c \in Conns, m \in Methods :
       c \in discoverers[m] <=> c \in discConns /\ m \in discMethods[c]

\* A service stays listed for as long as the connection that registered it is
\* open, whoever else disconnects meanwhile: an RPC server that reconnects from
\* the same address is not unlisted when its old connection is found dead.
LiveProviderListed ==
  \A c \in open : \A m \in offered[c] : c \in providers[m]

\* Whoever asked for a service, and whether or not it had a host then, knows
\* at any later time exactly the hosts a new discovery would be answered with:
\* the answer and the notifications leave no gap between them.
DiscoverersUpToDate ==
  \A c \in open : \A m \in asked[c] : known[c][m] = MethodHosts(m)

\* What makes the three above inductive: the index holds exactly the questions
\* of the open connections, a client knows no host of a service it never asked
\* for, no provider is ever erased, a connection is new before it is made, and
\* it is made once.
WatchersRegistered ==
  \A c \in Conns :
    /\ provMethods[c] = {}
    /\ c \notin discConns => discMethods[c] = {}
    /\ c \in open => c \notin closed
    /\ c \notin open \cup closed => asked[c] = {} /\ offered[c] = {}
    /\ \A m \in Methods :
         /\ c \in discoverers[m] <=> c \in open /\ m \in asked[c]
         /\ m \notin asked[c] => known[c][m] = {}

Abstract == INSTANCE Directory WITH
  present <- open,
  past <- closed,
  listed <- {p \in Conns \X Methods : p[1] \in providers[p[2]]},
  watches <- {w \in Conns \X Methods : w[1] \in discoverers[w[2]]},
  told <- known

\* The two managers with their four indexes and the messages they send implement
\* the directory: every watcher knows the listing after every step, nothing but
\* the end of its own connection unlists a server, and nothing unlisted goes
\* unannounced.
ImplementsDirectory == Abstract!Spec

-----------------------------------------------------------------------------
(* What the repository says of this code, and the code does not do.        *)

\* The comment on deleteProvider: "when a provider disconnects, delete the
\* information associated with it".  No service lists a closed connection.
NoDeadProvider == \A m \in Methods : providers[m] \subseteq open
=============================================================================
