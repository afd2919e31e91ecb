------------------------------ MODULE RpcService ------------------------------
(***************************************************************************)
(* RpcServer with its RpcRouter, ServiceManager and RegistryClient, the    *)
(* registry it announces its services to, and clients that discover them   *)
(* there and call: how a service comes to be announced, found and served,  *)
(* over which connection a call goes, and what it is answered.             *)
(*                                                                         *)
(* An RpcServer has one connection to the registry for life and is         *)
(* identified with it; so is a DiscoveryClient.  The registry's message to *)
(* a client that a host has a service is applied when it is sent; the      *)
(* client acts on it at any later time.  Calls are sync calls.             *)
(***************************************************************************)
EXTENDS Naturals

CONSTANTS
  Servers, Clients, Methods, Hosts,
  AccessAddr,   \* the address an RpcServer is accessible at
  Describes,    \* ServiceDescribe objects
  ServerOf,     \* the server each is registered with
  MethodOf,     \* ServiceDescribe::_method_name
  ParamsDesc,   \* ServiceDescribe::_params_desc, a set of pairs
  ReturnType,   \* ServiceDescribe::_return_type
  BeforeStart,  \* those that main registers before it calls start()
  Calls,
  ClientOf,     \* the client each call is made with
  Params,       \* bound: the parameters calls have, functions from names to kinds
  Results,      \* bound: the kinds of values that handlers return
  None          \* no description, server, answer and so on

VType == {"BOOL", "INTEGRAL", "NUMERIC", "STRING", "ARRAY", "OBJECT"}

\* Kinds of Json::Value; a whole number is an int however it is stored.
Kinds == {"null", "bool", "int", "real", "string", "array", "object"}

Conns == Servers \cup Clients

ASSUME RpcServiceAssumption ==
  /\ Servers \cap Clients = {}
  /\ AccessAddr \in [Conns -> Hosts]
  /\ ServerOf \in [Describes -> Servers]
  /\ MethodOf \in [Describes -> Methods]
  /\ ReturnType \in [Describes -> VType]
  /\ \A d \in Describes : \A p \in ParamsDesc[d] : p[2] \in VType
  /\ BeforeStart \subseteq Describes
  /\ ClientOf \in [Calls -> Clients]
  /\ \A params \in Params : \A name \in DOMAIN params : params[name] \in Kinds
  /\ Results \subseteq Kinds
  /\ None \notin Describes \cup Servers \cup Methods \cup Hosts \cup Calls

VARIABLES
  open, closed, providers, provConns, provMethods, discoverers, discConns,
  discMethods, offered, asked, known,
                \* the registry: see RegistryServer
  stage,        \* how far the registration of each description is
  services,     \* ServiceManager::_services of each server
  listening,    \* servers in start()
  stopped,      \* servers whose process has ended
  pc,           \* how far each call is
  method, params, host,
                \* what it asks for, and of which address
  conn,         \* the connection it goes over, named by the call that made it
  server,       \* the server that connection leads to
  pool,         \* RpcClient::_rpc_clients of each client
  down,         \* connections that are gone: their _conn is null
  answer        \* the return code it was answered; with it, auxiliary: the
                \* description whose handler ran, and what that returned

registryVars == <<open, closed, providers, provConns, provMethods, discoverers,
                  discConns, discMethods, offered, asked, known>>
serverVars == <<stage, services, listening, stopped>>
callVars == <<pc, method, params, host, conn, server, pool, down, answer>>
vars == <<registryVars, serverVars, callVars>>

Registry == INSTANCE RegistryServer

Init ==
  /\ Registry!Init
  /\ stage = [d \in Describes |-> "idle"]
  /\ services = [s \in Servers |-> [m \in Methods |-> None]]
  /\ listening = {} /\ stopped = {}
  /\ pc = [k \in Calls |-> "idle"]
  /\ method = [k \in Calls |-> None]
  /\ params = [k \in Calls |-> None]
  /\ host = [k \in Calls |-> None]
  /\ conn = [k \in Calls |-> None]
  /\ server = [k \in Calls |-> None]
  /\ pool = [c \in Clients |-> [h \in Hosts |-> None]]
  /\ down = {}
  /\ answer = [k \in Calls |-> None]

-----------------------------------------------------------------------------
(* RpcServer.                                                              *)

Constructed == Servers \cap (open \cup closed)

\* The constructor connects to the registry.  Several processes may share an
\* address, at once or in turn: the listening socket has kReusePort.
Construct(s) ==
  /\ Registry!Connect(s)
  /\ UNCHANGED <<serverVars, callVars>>

Advance(d, from, to) == stage[d] = from /\ stage' = [stage EXCEPT ![d] = to]

Running(s) == s \in Constructed \ stopped

\* Mutants of RegisterMethod: a description is announced and not inserted; it
\* replaces the one that is there; the table maps names to names.
RegisterNowhere(d) ==
  /\ Running(ServerOf[d])
  /\ Advance(d, "idle", "inserted")
  /\ UNCHANGED <<registryVars, services, listening, stopped, callVars>>

RegisterLast(d) ==
  /\ Running(ServerOf[d])
  /\ Advance(d, "idle", "inserted")
  /\ services' = [services EXCEPT ![ServerOf[d]][MethodOf[d]] = d]
  /\ UNCHANGED <<registryVars, listening, stopped, callVars>>

RegisterName(d) ==
  /\ Running(ServerOf[d])
  /\ Advance(d, "idle", "inserted")
  /\ services' = [services EXCEPT ![ServerOf[d]][MethodOf[d]] = MethodOf[d]]
  /\ UNCHANGED <<registryVars, listening, stopped, callVars>>

\* registerMethod, first half: RpcRouter::registerMethod.  insert() keeps the
\* description of a name that has one.
RegisterMethod(d) ==
  /\ Running(ServerOf[d])
  /\ Advance(d, "idle", "inserted")
  /\ services' = [services EXCEPT ![ServerOf[d]][MethodOf[d]] =
                    IF @ = None THEN d ELSE @]
  /\ UNCHANGED <<registryVars, listening, stopped, callVars>>

\* Mutant of RegistryMethod: it does not wait for the answer.
RegistryMethodAsync(d) ==
  /\ Running(ServerOf[d])
  /\ Advance(d, "inserted", "done")
  /\ UNCHANGED <<registryVars, services, listening, stopped, callVars>>

\* registerMethod, second half: Provider::registryMethod sends its request, which
\* is lost if the connection is down, and waits.  (A process that has noticed that
\* it is down dies of the null connection: Crash.)
RegistryMethod(d) ==
  /\ Running(ServerOf[d])
  /\ Advance(d, "inserted", IF ServerOf[d] \in open THEN "sent" ELSE "lost")
  /\ UNCHANGED <<registryVars, services, listening, stopped, callVars>>

\* The registry handles the request, and its answer is on its way.
OnServiceRequest(d) ==
  /\ Advance(d, "sent", "answered")
  /\ Registry!Register(ServerOf[d], MethodOf[d])
  /\ UNCHANGED <<services, listening, stopped, callVars>>

Registered(d) ==
  /\ Running(ServerOf[d])
  /\ Advance(d, "answered", "done")
  /\ UNCHANGED <<registryVars, services, listening, stopped, callVars>>

\* start(), after what main registers before it.
Start(s) ==
  /\ Running(s)
  /\ \A d \in BeforeStart : ServerOf[d] = s => stage[d] = "done"
  /\ listening' = listening \cup {s}
  /\ UNCHANGED <<registryVars, stage, services, stopped, callVars>>

-----------------------------------------------------------------------------
(* Failures.                                                               *)

\* Registrations whose request or answer was on its way wait for ever.
LoseRegistrations(s) ==
  stage' = [d \in Describes |-> IF ServerOf[d] = s /\ stage[d] \in {"sent", "answered"}
                                THEN "lost" ELSE stage[d]]

\* The connection of a server or a client to the registry goes down.
Disconnect(c) ==
  /\ Registry!Disconnect(c)
  /\ LoseRegistrations(c)
  /\ UNCHANGED <<services, listening, stopped, callVars>>

\* The process of a server ends, with the calls it has got.  The registry hears
\* of it in Disconnect.
Crash(s) ==
  /\ Running(s)
  /\ stopped' = stopped \cup {s}
  /\ listening' = listening \ {s}
  /\ pc' = [k \in Calls |-> IF pc[k] = "sent" /\ server[k] = s THEN "lost" ELSE pc[k]]
  /\ UNCHANGED <<registryVars, stage, services, method, params, host, conn, server, pool,
                 down, answer>>

\* A client that is pooled or that a call is made with; others are destroyed.
Used(l) ==
  \/ \E c \in Clients, h \in Hosts : pool[c][h] = l
  \/ \E k \in Calls : conn[k] = l /\ pc[k] \in {"ready", "sent"}

\* A connection goes down at the client, for instance some time after its server
\* has ended.  Calls wait for ever for the answers it was to bring.
ConnectionLost(l) ==
  /\ Used(l) /\ l \notin down
  /\ down' = down \cup {l}
  /\ pc' = [k \in Calls |-> IF pc[k] = "sent" /\ conn[k] = l THEN "lost" ELSE pc[k]]
  /\ UNCHANGED <<registryVars, serverVars, method, params, host, conn, server, pool, answer>>

-----------------------------------------------------------------------------
(* Clients.                                                                *)

ConnectClient(c) ==
  /\ Registry!Connect(c)
  /\ UNCHANGED <<serverVars, callVars>>

\* The process of a client has died.
Dead(c) == \E k \in Calls : ClientOf[k] = c /\ pc[k] = "crashed"

Discover(c, m) ==
  /\ ~Dead(c)
  /\ Registry!Discover(c, m)
  /\ UNCHANGED <<serverVars, callVars>>

\* A call to a host its client was told of: it takes the client that is pooled for
\* the host, whatever has become of its connection, or makes one.  Nothing takes a
\* client out of the pool: this registry announces nobody offline.
Call(k, m, h) ==
  /\ pc[k] = "idle" /\ ~Dead(ClientOf[k])
  /\ h \in known[ClientOf[k]][m]
  /\ method' = [method EXCEPT ![k] = m]
  /\ \E p \in Params : params' = [params EXCEPT ![k] = p]
  /\ host' = [host EXCEPT ![k] = h]
  /\ LET l == pool[ClientOf[k]][h]
     IN IF l = None
        THEN /\ pc' = [pc EXCEPT ![k] = "connecting"]
             /\ UNCHANGED <<conn, server>>
        ELSE /\ pc' = [pc EXCEPT ![k] = "ready"]
             /\ conn' = [conn EXCEPT ![k] = l]
             /\ server' = [server EXCEPT ![k] = server[l]]
  /\ UNCHANGED <<registryVars, serverVars, pool, down, answer>>

\* connect() tries again until a server listens at the address, any of those that
\* share it.  putClient keeps the client that is there; the call uses its own.
ConnectHost(k, s) ==
  /\ pc[k] = "connecting"
  /\ s \in listening /\ AccessAddr[s] = host[k]
  /\ pc' = [pc EXCEPT ![k] = "ready"]
  /\ conn' = [conn EXCEPT ![k] = k]
  /\ server' = [server EXCEPT ![k] = s]
  /\ pool' = [pool EXCEPT ![ClientOf[k]][host[k]] = IF @ = None THEN k ELSE @]
  /\ UNCHANGED <<registryVars, serverVars, method, params, host, down, answer>>

\* connection() is null if it is gone, and the process dies with its calls;
\* otherwise the request is sent, to nobody if the server has ended.  A connection
\* that goes down after it was taken is one that goes down after the request.
Send(k) ==
  /\ pc[k] = "ready"
  /\ pc' = IF conn[k] \in down
           THEN [l \in Calls |-> IF /\ ClientOf[l] = ClientOf[k]
                                    /\ pc[l] \in {"connecting", "ready", "sent"}
                                 THEN "crashed" ELSE pc[l]]
           ELSE [pc EXCEPT ![k] = IF server[k] \in stopped THEN "lost" ELSE "sent"]
  /\ UNCHANGED <<registryVars, serverVars, method, params, host, conn, server, pool, down,
                 answer>>

-----------------------------------------------------------------------------
(* RpcRouter::onRpcRequest, in the loop thread of a server.                *)

\* Mutant of Check: any number is an integer.
CheckNumber(vtype, kind) ==
  CASE vtype \in {"INTEGRAL", "NUMERIC"} -> kind \in {"int", "real"}
    [] vtype = "BOOL" -> kind = "bool"
    [] vtype = "STRING" -> kind = "string"
    [] vtype = "ARRAY" -> kind = "array"
    [] vtype = "OBJECT" -> kind = "object"

Check(vtype, kind) ==
  CASE vtype = "BOOL" -> kind = "bool"
    [] vtype = "INTEGRAL" -> kind = "int"
    [] vtype = "NUMERIC" -> kind \in {"int", "real"}
    [] vtype = "STRING" -> kind = "string"
    [] vtype = "ARRAY" -> kind = "array"
    [] vtype = "OBJECT" -> kind = "object"

ParamCheck(d, p) ==
  \A desc \in ParamsDesc[d] : desc[1] \in DOMAIN p /\ Check(desc[2], p[desc[1]])

Response(k, rcode, d, result) ==
  /\ answer' = [answer EXCEPT ![k] = [rcode |-> rcode, by |-> d, result |-> result]]
  /\ pc' = [pc EXCEPT ![k] = "answered"]

Select(k) == services[server[k]][method[k]]

\* Mutant of OnRpcRequest: parameters that are wrong get no answer.
OnRpcRequestSilent(k) ==
  /\ pc[k] = "sent"
  /\ \/ /\ Select(k) = None
        /\ Response(k, "NOT_FOUND_SERVICE", None, "null")
     \/ /\ Select(k) # None /\ ParamCheck(Select(k), params[k])
        /\ \E result \in Results :
             Response(k, IF Check(ReturnType[Select(k)], result) THEN "OK"
                                                                 ELSE "INTERNAL_ERROR",
                      Select(k), result)
  /\ UNCHANGED <<registryVars, serverVars, method, params, host, conn, server, pool, down>>

OnRpcRequest(k) ==
  /\ pc[k] = "sent"
  /\ \/ /\ Select(k) = None
        /\ Response(k, "NOT_FOUND_SERVICE", None, "null")
     \/ /\ Select(k) # None /\ ~ParamCheck(Select(k), params[k])
        /\ Response(k, "INVALID_PARAMS", None, "null")
     \/ /\ Select(k) # None /\ ParamCheck(Select(k), params[k])
        /\ \E result \in Results :
             Response(k, IF Check(ReturnType[Select(k)], result) THEN "OK"
                                                                 ELSE "INTERNAL_ERROR",
                      Select(k), result)
  /\ UNCHANGED <<registryVars, serverVars, method, params, host, conn, server, pool, down>>

-----------------------------------------------------------------------------

RegistrationStep(d) == RegistryMethod(d) \/ OnServiceRequest(d) \/ Registered(d)

Next ==
  \/ \E s \in Servers : Construct(s) \/ Start(s) \/ Crash(s)
  \/ \E d \in Describes : RegisterMethod(d) \/ RegistrationStep(d)
  \/ \E c \in Conns : Disconnect(c)
  \/ \E c \in Clients : ConnectClient(c) \/ \E m \in Methods : Discover(c, m)
  \/ \E k \in Calls :
       \/ \E m \in Methods, h \in Hosts : Call(k, m, h)
       \/ \E s \in Servers : ConnectHost(k, s)
       \/ Send(k) \/ OnRpcRequest(k) \/ ConnectionLost(k)

Spec == Init /\ [][Next]_vars

\* main registers and starts; a registration that began goes on; the registry and
\* the servers handle what they receive; connect() finds who listens, and a call
\* that has a client goes on.
Fairness ==
  /\ \A s \in Servers : WF_vars(Start(s))
  /\ \A d \in Describes : WF_vars(RegistrationStep(d))
  /\ \A d \in BeforeStart : WF_vars(RegisterMethod(d))
  /\ \A k \in Calls : /\ WF_vars(\E s \in Servers : ConnectHost(k, s))
                       /\ WF_vars(Send(k)) /\ WF_vars(OnRpcRequest(k))

FairSpec == Spec /\ Fairness

-----------------------------------------------------------------------------
(* Properties.                                                             *)

Answers == [rcode : {"OK", "NOT_FOUND_SERVICE", "INVALID_PARAMS", "INTERNAL_ERROR"},
            by : Describes \cup {None}, result : Kinds]

\* Tables hold descriptions, calls name servers, answers have a return code.
TypeOK ==
  /\ Registry!TypeOK
  /\ stage \in [Describes -> {"idle", "inserted", "sent", "answered", "done", "lost"}]
  /\ services \in [Servers -> [Methods -> Describes \cup {None}]]
  /\ listening \subseteq Servers
  /\ stopped \subseteq Servers
  /\ pc \in [Calls -> {"idle", "connecting", "ready", "sent", "answered", "lost",
                       "crashed"}]
  /\ method \in [Calls -> Methods \cup {None}]
  /\ params \in [Calls -> Params \cup {None}]
  /\ host \in [Calls -> Hosts \cup {None}]
  /\ conn \in [Calls -> Calls \cup {None}]
  /\ server \in [Calls -> Servers \cup {None}]
  /\ pool \in [Clients -> [Hosts -> Calls \cup {None}]]
  /\ down \subseteq Calls
  /\ answer \in [Calls -> Answers \cup {None}]

Offerer(h, m) == {s \in Servers : AccessAddr[s] = h /\ m \in offered[s]}

\* A client that was told of a service finds it, however registrations, start(),
\* the pool and the call interleave.  Only where several processes share or shared
\* an address can a call be answered "not found": it was for the service of one
\* of the others.
AnnouncedIsServed ==
  \A k \in Calls :
    answer[k] # None /\ answer[k].rcode = "NOT_FOUND_SERVICE" =>
      Offerer(host[k], method[k]) \ {server[k]} # {}

\* All calls of a service of one server run one handler, even when descriptions
\* of that name are registered between them.
ServedByOne ==
  \A k, l \in Calls :
    /\ answer[k] # None /\ answer[l] # None
    /\ server[k] = server[l] /\ method[k] = method[l]
    /\ answer[k].by # None /\ answer[l].by # None
    => answer[k].by = answer[l].by

\* The values that each VType stands for.
Accepts == [BOOL |-> {"bool"}, INTEGRAL |-> {"int"}, NUMERIC |-> {"int", "real"},
            STRING |-> {"string"}, ARRAY |-> {"array"}, OBJECT |-> {"object"}]

Fits(p, d) ==
  \A desc \in ParamsDesc[d] : \E name \in DOMAIN p :
    name = desc[1] /\ p[name] \in Accepts[desc[2]]

\* What answer a says, if d is the description and p the parameters of its call.
Tells(a, d, p) ==
  \/ a.rcode = "NOT_FOUND_SERVICE" /\ a.by = None
  \/ a.rcode = "INVALID_PARAMS" /\ a.by = None /\ d # None /\ ~Fits(p, d)
  \/ a.rcode = "INTERNAL_ERROR" /\ a.by = d /\ d # None /\ Fits(p, d)
     /\ a.result \notin Accepts[ReturnType[d]]
  \/ a.rcode = "OK" /\ a.by = d /\ d # None /\ Fits(p, d)
     /\ a.result \in Accepts[ReturnType[d]]

\* The return code tells whether the handler ran and who is to blame, and by the
\* description that is in the server's table at any later time.
RcodeTells ==
  \A k \in Calls : answer[k] # None =>
    Tells(answer[k], services[server[k]][method[k]], params[k])

\* When registerMethod has returned, the registry lists the server for as long as
\* their connection is up: start() comes after that.
RegisteredIsListed ==
  \A d \in Describes :
    stage[d] = "done" /\ ServerOf[d] \in open =>
      AccessAddr[ServerOf[d]] \in Registry!MethodHosts(MethodOf[d])

\* What makes these inductive: who listens is a process that runs;
ListenersRun ==
  /\ listening \subseteq Constructed
  /\ listening \cap stopped = {}

\* what clients know was offered, what is offered was inserted, and whose
\* registration was answered is listed;
OfferedIsServed ==
  /\ \A d \in Describes : stage[d] # "idle" =>
       ServerOf[d] \in Constructed /\ services[ServerOf[d]][MethodOf[d]] # None
  /\ \A s \in Servers, m \in Methods :
       m \in offered[s] => s \in Constructed /\ services[s][m] # None
  /\ \A c \in Conns, m \in Methods : \A h \in known[c][m] : Offerer(h, m) # {}
  /\ \A m \in Methods : \A c \in providers[m] : c \in Servers /\ m \in offered[c]
  /\ \A d \in Describes :
       stage[d] \in {"answered", "done"} /\ ServerOf[d] \in open =>
         ServerOf[d] \in providers[MethodOf[d]]

\* a call that has a connection has it to a server at the address it calls, and so
\* has the pool;
PoolLeadsToHost ==
  /\ \A c \in Clients, h \in Hosts :
       pool[c][h] # None => conn[pool[c][h]] = pool[c][h] /\ host[pool[c][h]] = h
  /\ \A k \in Calls :
       /\ pc[k] \in {"idle", "connecting"} => conn[k] = None /\ server[k] = None
       /\ pc[k] \in {"ready", "sent"} => conn[k] # None
       /\ conn[k] # None => /\ conn[conn[k]] = conn[k]
                            /\ server[k] \in Servers /\ AccessAddr[server[k]] = host[k]

\* and a call goes to an address that was offered.
CallsGoToOffer ==
  \A k \in Calls :
    /\ pc[k] # "idle" => /\ method[k] \in Methods /\ params[k] \in Params
                         /\ Offerer(host[k], method[k]) # {}
    /\ pc[k] = "sent" => server[k] \in Servers
    /\ answer[k] # None => pc[k] = "answered" /\ server[k] \in Servers

IInv ==
  /\ TypeOK /\ ListenersRun /\ OfferedIsServed /\ PoolLeadsToHost /\ CallsGoToOffer
  /\ AnnouncedIsServed /\ RcodeTells

\* A server that main can still bring to start(), or that is there.
Alive(h) == \E s \in Constructed \ stopped :
              AccessAddr[s] = h /\ (s \in listening \/ s \in open)

\* A call is answered, or its request or answer is lost with its connection, or
\* its client dies over a pooled connection that is gone, or it tries an address
\* where every server ended or had its registration lost before it could listen.
CallIsAnswered ==
  \A k \in Calls :
    pc[k] \in {"connecting", "ready"} ~>
      \/ pc[k] \in {"answered", "lost"}
      \/ Dead(ClientOf[k])
      \/ pc[k] = "connecting" /\ ~Alive(host[k])

\* What keeps that from waiting for nobody: a registration is lost only with the
\* connection it was made over, and a request is at a server that runs.
NothingLostBehind ==
  /\ \A d \in Describes :
       /\ stage[d] = "lost" => ServerOf[d] \notin open
       /\ stage[d] \in {"sent", "answered"} => ServerOf[d] \in open
  /\ \A k \in Calls : pc[k] = "sent" => server[k] \in listening /\ conn[k] \notin down
  /\ \A k \in Calls : server[k] # None => server[k] \in listening \cup stopped

\* A server at address h that listens, or whose registrations before start() can
\* all go on: none waits for an answer that will not come.
CanBeReached(h) ==
  \E s \in Constructed \ stopped :
    /\ AccessAddr[s] = h
    /\ \/ s \in listening
       \/ \A d \in BeforeStart : ServerOf[d] = s =>
            stage[d] # "lost" /\ (stage[d] = "sent" => s \in open)

\* No call waits for nobody: its request is at a server that runs and listens, over
\* a connection that is up, or it tries an address where a server listens or can
\* come to, for as long as one is alive there.
NoCallWaitsForNobody ==
  \A k \in Calls :
    /\ pc[k] = "sent" => server[k] \in listening \ stopped /\ conn[k] \notin down
    /\ pc[k] = "connecting" /\ Alive(host[k]) => CanBeReached(host[k])
=============================================================================
