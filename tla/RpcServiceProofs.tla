--------------------------- MODULE RpcServiceProofs ---------------------------
(* Proofs about RpcService: any servers, descriptions, clients and calls.    *)
EXTENDS RpcService, TLAPS

-----------------------------------------------------------------------------
(* What the registry's actions do to what this module looks at.              *)

LEMMA RegistryConnect ==
  ASSUME Registry!TypeOK, NEW c \in Conns, Registry!Connect(c)
  PROVE  /\ Registry!TypeOK'
         /\ c \notin open \cup closed
         /\ open' = open \cup {c} /\ closed' = closed
         /\ UNCHANGED <<providers, offered, known>>
BY DEF Registry!TypeOK, Registry!Connect, Registry!provVars, Registry!discVars, Registry!auxVars

LEMMA RegistryRegister ==
  ASSUME Registry!TypeOK, NEW c \in Conns, NEW m \in Methods, Registry!Register(c, m)
  PROVE  /\ Registry!TypeOK'
         /\ c \in open
         /\ UNCHANGED <<open, closed>>
         /\ providers' = [providers EXCEPT ![m] = @ \cup {c}]
         /\ offered' = [offered EXCEPT ![c] = @ \cup {m}]
         /\ \A d \in Conns, n \in Methods : \A h \in known'[d][n] :
              h \in known[d][n] \/ (n = m /\ h = AccessAddr[c])
  <1> USE DEF Registry!TypeOK, Registry!Register, Registry!AddProvider, Registry!OnlineNotify,
              Registry!connVars, Registry!discVars
  <1>1. /\ c \in open
        /\ UNCHANGED <<open, closed>>
        /\ providers' = [providers EXCEPT ![m] = @ \cup {c}]
        /\ offered' = [offered EXCEPT ![c] = @ \cup {m}]
    OBVIOUS
  <1>2. \A d \in Conns, n \in Methods : \A h \in known'[d][n] :
              h \in known[d][n] \/ (n = m /\ h = AccessAddr[c])
    OBVIOUS
  <1>3. known' \in [Conns -> [Methods -> SUBSET Hosts]]
    <2>1. AccessAddr[c] \in Hosts
      BY RpcServiceAssumption
    <2>2. \A f \in [Methods -> SUBSET Hosts] :
            [f EXCEPT ![m] = @ \cup {AccessAddr[c]}] \in [Methods -> SUBSET Hosts]
      BY ONLY <2>1, m \in Methods
    <2> QED
      BY <2>2
  <1>4. Registry!TypeOK'
    BY <1>3
  <1> QED
    BY <1>1, <1>2, <1>4

LEMMA RegistryDiscover ==
  ASSUME Registry!TypeOK, NEW c \in Conns, NEW m \in Methods, Registry!Discover(c, m)
  PROVE  /\ Registry!TypeOK'
         /\ UNCHANGED <<open, closed, providers, offered>>
         /\ \A d \in Conns, n \in Methods : \A h \in known'[d][n] :
              h \in known[d][n] \/ \E p \in providers[n] : h = AccessAddr[p]
  <1> USE DEF Registry!TypeOK, Registry!Discover, Registry!AddDiscoverer, Registry!MethodHosts,
              Registry!connVars, Registry!provVars
  <1>1. UNCHANGED <<open, closed, providers, offered>>
    OBVIOUS
  <1>2. \A d \in Conns, n \in Methods : \A h \in known'[d][n] :
              h \in known[d][n] \/ \E p \in providers[n] : h = AccessAddr[p]
    OBVIOUS
  <1>3. known' \in [Conns -> [Methods -> SUBSET Hosts]]
    <2>1. \A p \in providers[m] : AccessAddr[p] \in Hosts
      BY RpcServiceAssumption
    <2>2. \A f \in [Methods -> SUBSET Hosts], S \in SUBSET Hosts :
            [f EXCEPT ![m] = S] \in [Methods -> SUBSET Hosts]
      BY ONLY m \in Methods
    <2>3. {AccessAddr[p] : p \in providers[m]} \in SUBSET Hosts
      BY <2>1
    <2>4. [known[c] EXCEPT ![m] = {AccessAddr[p] : p \in providers[m]}] \in [Methods -> SUBSET Hosts]
      BY <2>2, <2>3
    <2> QED
      BY <2>4
  <1>4. /\ discoverers' \in [Methods -> SUBSET Conns]
        /\ discMethods' \in [Conns -> SUBSET Methods]
        /\ asked' \in [Conns -> SUBSET Methods]
        /\ discConns' \subseteq Conns
    OBVIOUS
  <1>5. UNCHANGED <<open, closed, providers, provConns, provMethods, offered>>
    OBVIOUS
  <1>6. Registry!TypeOK'
    BY ONLY <1>3, <1>4, <1>5, Registry!TypeOK DEF Registry!TypeOK
  <1> QED
    BY <1>1, <1>2, <1>6

LEMMA RegistryDisconnect ==
  ASSUME Registry!TypeOK, NEW c \in Conns, Registry!Disconnect(c)
  PROVE  /\ Registry!TypeOK'
         /\ open' = open \ {c} /\ closed' = closed \cup {c} /\ c \in open
         /\ UNCHANGED offered
         /\ \A m \in Methods : /\ providers'[m] \subseteq providers[m]
                               /\ providers[m] \ {c} \subseteq providers'[m]
         /\ \A d \in Conns, n \in Methods : known'[d][n] \subseteq known[d][n]
  <1> USE DEF Registry!TypeOK, Registry!Disconnect, Registry!DeleteProvider,
              Registry!DeleteDiscoverer, Registry!OfflineNotify
  <1>1. open' = open \ {c} /\ closed' = closed \cup {c} /\ c \in open /\ UNCHANGED offered
    OBVIOUS
  <1>2. \A m \in Methods : /\ providers'[m] \subseteq providers[m]
                           /\ providers[m] \ {c} \subseteq providers'[m]
    OBVIOUS
  <1>3. \A d \in Conns, n \in Methods : known'[d][n] \subseteq known[d][n]
    OBVIOUS
  <1>4. /\ providers' \in [Methods -> SUBSET Conns]
        /\ discoverers' \in [Methods -> SUBSET Conns]
    OBVIOUS
  <1>5. known' \in [Conns -> [Methods -> SUBSET Hosts]]
    OBVIOUS
  <1>6. Registry!TypeOK'
    BY <1>4, <1>5
  <1> QED
    BY <1>1, <1>2, <1>3, <1>6

LEMMA RegistryStutter == ASSUME Registry!TypeOK, UNCHANGED registryVars PROVE Registry!TypeOK'
BY DEF Registry!TypeOK, registryVars

-----------------------------------------------------------------------------
(* The table of services only grows, and offers stay.                        *)

\* How one step may change what the invariants relate: no conjunct about calls
\* that are answered, or that were offered a service, can be lost by it.
Grows ==
  /\ \A s \in Servers, m \in Methods :
       services[s][m] # None => services'[s][m] = services[s][m]
  /\ \A s \in Servers : offered[s] \subseteq offered'[s]

LEMMA OfferersStay ==
  ASSUME Grows
  PROVE  \A h, m : Offerer(h, m) \subseteq Offerer(h, m)'
BY DEF Grows, Offerer

\* A step that answers no call and connects none, but sends, loses or kills some.
CallsWait ==
  /\ UNCHANGED <<method, params, host, conn, server, pool, answer>>
  /\ \A k \in Calls : \/ pc'[k] = pc[k]
                      \/ pc[k] \in {"ready", "sent"} /\ pc'[k] \in {"sent", "lost"}
                      \/ pc[k] \in {"connecting", "ready", "sent"} /\ pc'[k] = "crashed"

LEMMA CallsStay ==
  ASSUME IInv, TypeOK', Grows, CallsWait
  PROVE  PoolLeadsToHost' /\ CallsGoToOffer' /\ AnnouncedIsServed' /\ RcodeTells'
  <1> USE DEF CallsWait
  <1>0. PoolLeadsToHost'
    BY DEF IInv, PoolLeadsToHost
  <1>1. CallsGoToOffer'
    <2>1. \A k \in Calls : pc'[k] # "idle" => pc[k] # "idle"
      OBVIOUS
    <2>2. \A k \in Calls : pc'[k] = "sent" => server[k] \in Servers
      BY DEF IInv, PoolLeadsToHost
    <2>3. \A k \in Calls : answer[k] # None => pc'[k] = "answered" /\ server[k] \in Servers
      BY DEF IInv, CallsGoToOffer
    <2>4. \A k \in Calls : pc[k] # "idle" => Offerer(host[k], method[k])' # {}
      <3>1. \A k \in Calls : pc[k] # "idle" => Offerer(host[k], method[k]) # {}
        BY DEF IInv, CallsGoToOffer
      <3> QED
        BY <3>1, OfferersStay DEF Offerer, Grows
    <2> QED
      BY <2>1, <2>2, <2>3, <2>4 DEF IInv, CallsGoToOffer
  <1>2. AnnouncedIsServed'
    <2>1. \A k \in Calls :
            answer[k] # None /\ answer[k].rcode = "NOT_FOUND_SERVICE" =>
              \E s \in Servers \ {server[k]} :
                AccessAddr[s] = host[k] /\ method[k] \in offered[s]
      BY DEF IInv, AnnouncedIsServed, Offerer
    <2>2. \A k \in Calls :
            answer[k] # None /\ answer[k].rcode = "NOT_FOUND_SERVICE" =>
              \E s \in Servers \ {server[k]} :
                AccessAddr[s] = host[k] /\ method[k] \in offered'[s]
      BY <2>1 DEF Grows
    <2> QED
      BY <2>2 DEF AnnouncedIsServed, Offerer
  <1>3. \A k \in Calls : answer[k] # None => server[k] \in Servers /\ method[k] \in Methods
    BY DEF IInv, CallsGoToOffer
  <1>4. RcodeTells'
    <2>1. \A k \in Calls : answer[k] # None =>
            \/ services'[server[k]][method[k]] = services[server[k]][method[k]]
            \/ services[server[k]][method[k]] = None
      BY <1>3 DEF Grows
    <2>2. \A a, d, p : Tells(a, None, p) => Tells(a, d, p)
      BY DEF Tells
    <2>3. \A k \in Calls : answer[k] # None =>
            Tells(answer[k], services'[server[k]][method[k]], params[k])
      BY <2>1, <2>2 DEF IInv, RcodeTells
    <2> QED
      BY <2>3 DEF RcodeTells, Tells, Fits
  <1> QED
    BY <1>0, <1>1, <1>2, <1>4

-----------------------------------------------------------------------------
(* The inductive invariant.                                                  *)

LEMMA InitIInv == Init => IInv
  <1> SUFFICES ASSUME Init PROVE IInv
    OBVIOUS
  <1> USE DEF Init, Registry!Init
  <1>1. TypeOK
    BY DEF TypeOK, Registry!TypeOK
  <1>2. ListenersRun /\ OfferedIsServed
    BY RpcServiceAssumption DEF ListenersRun, OfferedIsServed, Constructed, Conns
  <1>3. PoolLeadsToHost /\ CallsGoToOffer /\ AnnouncedIsServed /\ RcodeTells
    BY DEF PoolLeadsToHost, CallsGoToOffer, AnnouncedIsServed, RcodeTells
  <1> QED
    BY <1>1, <1>2, <1>3 DEF IInv

\* The registry is left alone by the steps of servers and calls.
LEMMA ServersApart ==
  ASSUME IInv, UNCHANGED registryVars
  PROVE  Registry!TypeOK' /\ Constructed' = Constructed /\ \A h, m : Offerer(h, m)' = Offerer(h, m)
BY RegistryStutter DEF IInv, TypeOK, registryVars, Constructed, Offerer

LEMMA ConnectStep ==
  ASSUME IInv, NEW c \in Conns, Registry!Connect(c), UNCHANGED <<serverVars, callVars>>
  PROVE  IInv'
  <1>1. /\ Registry!TypeOK'
        /\ c \notin open \cup closed
        /\ open' = open \cup {c} /\ closed' = closed
        /\ UNCHANGED <<providers, offered, known>>
    BY RegistryConnect DEF IInv, TypeOK
  <1>2. TypeOK'
    BY <1>1 DEF IInv, TypeOK, serverVars, callVars
  <1>3. Constructed' = Constructed \cup (Servers \cap {c})
    BY <1>1 DEF Constructed
  <1>4. ListenersRun'
    BY <1>3 DEF IInv, ListenersRun, serverVars
  <1>5. OfferedIsServed'
    <2>1. \A d \in Describes : ServerOf[d] = c => stage[d] = "idle"
      BY <1>1 DEF IInv, OfferedIsServed, Constructed
    <2> QED
      BY <1>1, <1>3, <2>1 DEF IInv, OfferedIsServed, Offerer, serverVars
  <1>6. Grows
    BY <1>1 DEF Grows, serverVars
  <1>7. PoolLeadsToHost' /\ CallsGoToOffer' /\ AnnouncedIsServed' /\ RcodeTells'
    <2>1. CallsWait
      BY DEF CallsWait, callVars
    <2> QED
      BY <1>2, <1>6, <2>1, CallsStay
  <1> QED
    BY <1>2, <1>4, <1>5, <1>7 DEF IInv

LEMMA RegisterMethodStep ==
  ASSUME IInv, NEW d \in Describes, RegisterMethod(d)
  PROVE  IInv'
  <1> USE DEF RegisterMethod, Advance
  <1>0. ServerOf[d] \in Servers /\ MethodOf[d] \in Methods /\ d # None
    BY RpcServiceAssumption
  <1>1. Constructed' = Constructed /\ Registry!TypeOK'
    BY ServersApart
  <1>2. services' \in [Servers -> [Methods -> Describes \cup {None}]]
    BY <1>0 DEF IInv, TypeOK
  <1>3. TypeOK'
    BY <1>1, <1>2 DEF IInv, TypeOK, callVars
  <1>4. /\ \A s \in Servers, m \in Methods :
             services[s][m] # None => services'[s][m] = services[s][m]
        /\ services'[ServerOf[d]][MethodOf[d]] # None
    BY <1>0 DEF IInv, TypeOK
  <1>5. ListenersRun'
    BY <1>1 DEF IInv, ListenersRun
  <1>6. OfferedIsServed'
    <2>1. \A e \in Describes : ServerOf[e] \in Servers /\ MethodOf[e] \in Methods
      BY RpcServiceAssumption
    <2>2. \A e \in Describes : stage'[e] # "idle" =>
            ServerOf[e] \in Constructed /\ services'[ServerOf[e]][MethodOf[e]] # None
      BY <1>4, <2>1 DEF IInv, TypeOK, OfferedIsServed, Running
    <2>3. \A s \in Servers, m \in Methods :
            m \in offered[s] => s \in Constructed /\ services'[s][m] # None
      BY <1>4 DEF IInv, OfferedIsServed
    <2>4. \A e \in Describes : stage'[e] \in {"answered", "done"} => stage'[e] = stage[e]
      BY DEF IInv, TypeOK
    <2> QED
      BY <1>1, <2>2, <2>3, <2>4, ServersApart DEF IInv, OfferedIsServed, registryVars
  <1>7. Grows
    BY <1>4 DEF Grows, registryVars
  <1>8. PoolLeadsToHost' /\ CallsGoToOffer' /\ AnnouncedIsServed' /\ RcodeTells'
    <2>1. CallsWait
      BY DEF CallsWait, callVars
    <2> QED
      BY <1>3, <1>7, <2>1, CallsStay
  <1> QED
    BY <1>3, <1>5, <1>6, <1>8 DEF IInv

\* The steps of a server that change no table: where a registration is, and
\* whether the server listens.
LEMMA ServerStep ==
  ASSUME IInv, UNCHANGED <<registryVars, services, stopped, callVars>>,
         stage' \in [Describes -> {"idle", "inserted", "sent", "answered", "done", "lost"}],
         \A d \in Describes : /\ stage'[d] # "idle" => stage[d] # "idle"
                              /\ stage'[d] \in {"answered", "done"} =>
                                   stage[d] \in {"answered", "done"},
         listening' \subseteq listening \cup (Constructed \ stopped)
  PROVE  IInv'
  <1>1. Constructed' = Constructed /\ Registry!TypeOK'
    BY ServersApart
  <1>2. TypeOK'
    BY <1>1 DEF IInv, TypeOK, callVars, Constructed
  <1>3. ListenersRun'
    BY <1>1 DEF IInv, ListenersRun
  <1>4. OfferedIsServed'
    BY <1>1, ServersApart DEF IInv, OfferedIsServed, registryVars
  <1>5. Grows
    BY DEF Grows, registryVars
  <1>6. PoolLeadsToHost' /\ CallsGoToOffer' /\ AnnouncedIsServed' /\ RcodeTells'
    <2>1. CallsWait
      BY DEF CallsWait, callVars
    <2> QED
      BY <1>2, <1>5, <2>1, CallsStay
  <1> QED
    BY <1>2, <1>3, <1>4, <1>6 DEF IInv

LEMMA RegistryMethodStep ==
  ASSUME IInv, NEW d \in Describes, RegistryMethod(d) \/ Registered(d)
  PROVE  IInv'
  <1>1. UNCHANGED <<registryVars, services, stopped, callVars>>
    BY DEF RegistryMethod, Registered
  <1>2. stage' \in [Describes -> {"idle", "inserted", "sent", "answered", "done", "lost"}]
    BY DEF RegistryMethod, Registered, Advance, IInv, TypeOK
  <1>3. \A e \in Describes : /\ stage'[e] # "idle" => stage[e] # "idle"
                             /\ stage'[e] \in {"answered", "done"} =>
                                  stage[e] \in {"answered", "done"}
    BY DEF RegistryMethod, Registered, Advance, IInv, TypeOK
  <1>4. listening' \subseteq listening \cup (Constructed \ stopped)
    BY DEF RegistryMethod, Registered
  <1> QED
    BY ONLY IInv, <1>1, <1>2, <1>3, <1>4, ServerStep

LEMMA StartStep ==
  ASSUME IInv, NEW s \in Servers, Start(s)
  PROVE  IInv'
  <1>1. UNCHANGED <<registryVars, services, stopped, stage, callVars>>
    BY DEF Start
  <1>2. listening' \subseteq listening \cup (Constructed \ stopped)
    BY DEF Start, Running
  <1>3. stage \in [Describes -> {"idle", "inserted", "sent", "answered", "done", "lost"}]
    BY DEF IInv, TypeOK
  <1> QED
    BY <1>1, <1>2, <1>3, ServerStep

LEMMA OnServiceRequestStep ==
  ASSUME IInv, NEW d \in Describes, OnServiceRequest(d)
  PROVE  IInv'
  <1> DEFINE s == ServerOf[d]
             m == MethodOf[d]
  <1>0. s \in Servers /\ s \in Conns /\ m \in Methods
    BY RpcServiceAssumption DEF Conns
  <1>1. /\ stage[d] = "sent" /\ stage' = [stage EXCEPT ![d] = "answered"]
        /\ UNCHANGED <<services, listening, stopped, callVars>>
        /\ Registry!Register(s, m)
    BY DEF OnServiceRequest, Advance
  <1> HIDE DEF s, m
  <1>2. /\ Registry!TypeOK' /\ s \in open
        /\ UNCHANGED <<open, closed>>
        /\ providers' = [providers EXCEPT ![m] = @ \cup {s}]
        /\ offered' = [offered EXCEPT ![s] = @ \cup {m}]
        /\ \A c \in Conns, n \in Methods : \A h \in known'[c][n] :
             h \in known[c][n] \/ (n = m /\ h = AccessAddr[s])
    BY <1>0, <1>1, RegistryRegister DEF IInv, TypeOK
  <1>3. TypeOK'
    BY <1>1, <1>2 DEF IInv, TypeOK, callVars
  <1>4. Constructed' = Constructed
    BY <1>2 DEF Constructed
  <1>5. ListenersRun'
    BY <1>1, <1>4 DEF IInv, ListenersRun
  <1>6. /\ \A r \in Servers, n \in Methods : n \in offered'[r] <=> n \in offered[r] \/ (r = s /\ n = m)
        /\ \A c \in Conns, n \in Methods : c \in providers'[n] <=> c \in providers[n] \/ (c = s /\ n = m)
    BY <1>0, <1>2 DEF IInv, TypeOK, Registry!TypeOK, Conns
  <1>7. Grows
    BY <1>1, <1>2, <1>6 DEF Grows, IInv, TypeOK, Registry!TypeOK, Conns
  <1>8. OfferedIsServed'
    <2>1. s \in Constructed /\ services[s][m] # None
      BY <1>1 DEF IInv, OfferedIsServed, s, m
    <2>2. \A r \in Servers, n \in Methods :
            n \in offered'[r] => r \in Constructed /\ services[r][n] # None
      BY <1>6, <2>1 DEF IInv, OfferedIsServed
    <2>3. s \in Offerer(AccessAddr[s], m)'
      BY <1>0, <1>6 DEF Offerer
    <2>4. \A c \in Conns, n \in Methods : \A h \in known'[c][n] : Offerer(h, n)' # {}
      BY <1>2, <1>7, <2>3, OfferersStay DEF IInv, OfferedIsServed
    <2>5. \A n \in Methods : \A c \in providers'[n] : c \in Servers /\ n \in offered'[c]
      <3>1. \A n \in Methods : \A c \in providers'[n] : c \in Conns
        BY <1>2 DEF Registry!TypeOK
      <3> QED
        BY <1>0, <1>6, <3>1 DEF IInv, OfferedIsServed
    <2>6. \A e \in Describes : stage'[e] \in {"answered", "done"} /\ ServerOf[e] \in open =>
            ServerOf[e] \in providers'[MethodOf[e]]
      <3>1. \A e \in Describes : ServerOf[e] \in Conns /\ MethodOf[e] \in Methods
        BY RpcServiceAssumption DEF Conns
      <3> QED
        BY <1>1, <1>6, <3>1 DEF IInv, TypeOK, OfferedIsServed, s, m
    <2>7. \A e \in Describes : stage'[e] # "idle" => stage[e] # "idle"
      BY <1>1 DEF IInv, TypeOK
    <2> QED
      BY <1>1, <1>2, <1>4, <2>2, <2>4, <2>5, <2>6, <2>7 DEF IInv, OfferedIsServed
  <1>9. PoolLeadsToHost' /\ CallsGoToOffer' /\ AnnouncedIsServed' /\ RcodeTells'
    <2>1. CallsWait
      BY <1>1 DEF CallsWait, callVars
    <2> QED
      BY <1>3, <1>7, <2>1, CallsStay
  <1> QED
    BY <1>3, <1>5, <1>8, <1>9 DEF IInv

LEMMA DisconnectStep ==
  ASSUME IInv, NEW c \in Conns, Disconnect(c)
  PROVE  IInv'
  <1>1. /\ Registry!Disconnect(c)
        /\ stage' = [d \in Describes |->
                       IF ServerOf[d] = c /\ stage[d] \in {"sent", "answered"}
                       THEN "lost" ELSE stage[d]]
        /\ UNCHANGED <<services, listening, stopped, callVars>>
    BY DEF Disconnect, LoseRegistrations
  <1>2. /\ Registry!TypeOK'
        /\ open' = open \ {c} /\ closed' = closed \cup {c} /\ c \in open
        /\ UNCHANGED offered
        /\ \A m \in Methods : /\ providers'[m] \subseteq providers[m]
                              /\ providers[m] \ {c} \subseteq providers'[m]
        /\ \A d \in Conns, n \in Methods : known'[d][n] \subseteq known[d][n]
    BY <1>1, RegistryDisconnect DEF IInv, TypeOK
  <1>3. TypeOK'
    BY <1>1, <1>2 DEF IInv, TypeOK, callVars
  <1>4. Constructed' = Constructed
    BY <1>2 DEF Constructed
  <1>5. ListenersRun'
    BY <1>1, <1>4 DEF IInv, ListenersRun
  <1>6. /\ \A d \in Describes : stage'[d] # "idle" => stage[d] # "idle"
        /\ \A d \in Describes : stage'[d] \in {"answered", "done"} => stage[d] = stage'[d]
        /\ \A h, m : Offerer(h, m)' = Offerer(h, m)
    BY <1>1, <1>2 DEF IInv, TypeOK, Offerer
  <1>7. \A d \in Describes : MethodOf[d] \in Methods
    BY RpcServiceAssumption
  <1>8. OfferedIsServed'
    <2>1. \A d \in Describes : stage'[d] \in {"answered", "done"} /\ ServerOf[d] \in open' =>
            ServerOf[d] \in providers'[MethodOf[d]]
      BY <1>2, <1>6, <1>7 DEF IInv, OfferedIsServed
    <2>2. \A n \in Methods : \A d \in providers'[n] : d \in Servers /\ n \in offered[d]
      BY <1>2 DEF IInv, OfferedIsServed
    <2>3. \A d \in Conns, n \in Methods : \A h \in known'[d][n] : Offerer(h, n) # {}
      BY <1>2 DEF IInv, OfferedIsServed
    <2> QED
      BY <1>1, <1>2, <1>4, <1>6, <2>1, <2>2, <2>3 DEF IInv, OfferedIsServed
  <1>9. Grows
    BY <1>1, <1>2 DEF Grows
  <1>10. PoolLeadsToHost' /\ CallsGoToOffer' /\ AnnouncedIsServed' /\ RcodeTells'
    <2>1. CallsWait
      BY <1>1 DEF CallsWait, callVars
    <2> QED
      BY <1>3, <1>9, <2>1, CallsStay
  <1> QED
    BY <1>3, <1>5, <1>8, <1>10 DEF IInv

LEMMA CrashStep ==
  ASSUME IInv, NEW s \in Servers, Crash(s)
  PROVE  IInv'
  <1>1. /\ UNCHANGED <<registryVars, stage, services, method, params, host, conn, server, pool,
                        down, answer>>
        /\ stopped' = stopped \cup {s} /\ listening' = listening \ {s}
        /\ pc' = [k \in Calls |-> IF pc[k] = "sent" /\ server[k] = s THEN "lost" ELSE pc[k]]
    BY DEF Crash
  <1>2. Constructed' = Constructed /\ Registry!TypeOK'
    BY <1>1, ServersApart
  <1>3. TypeOK'
    BY <1>1, <1>2 DEF IInv, TypeOK
  <1>4. ListenersRun'
    BY <1>1, <1>2 DEF IInv, ListenersRun
  <1>5. OfferedIsServed'
    BY <1>1, <1>2, ServersApart DEF IInv, OfferedIsServed, registryVars
  <1>6. Grows
    BY <1>1 DEF Grows, registryVars
  <1>7. PoolLeadsToHost' /\ CallsGoToOffer' /\ AnnouncedIsServed' /\ RcodeTells'
    <2>1. CallsWait
      BY <1>1 DEF CallsWait
    <2> QED
      BY <1>3, <1>6, <2>1, CallsStay
  <1> QED
    BY <1>3, <1>4, <1>5, <1>7 DEF IInv

\* The steps of calls leave servers and registry as they are.
LEMMA CallStepsApart ==
  ASSUME IInv, UNCHANGED <<registryVars, serverVars>>
  PROVE  ListenersRun' /\ OfferedIsServed' /\ Grows /\ Registry!TypeOK'
  <1>1. Constructed' = Constructed /\ Registry!TypeOK'
    BY ServersApart
  <1>2. ListenersRun'
    BY <1>1 DEF IInv, ListenersRun, serverVars
  <1>3. OfferedIsServed'
    BY <1>1, ServersApart DEF IInv, OfferedIsServed, registryVars, serverVars
  <1>4. Grows
    BY DEF Grows, registryVars, serverVars
  <1> QED
    BY <1>1, <1>2, <1>3, <1>4

LEMMA ConnectionLostStep ==
  ASSUME IInv, NEW l \in Calls, ConnectionLost(l)
  PROVE  IInv'
  <1>1. /\ UNCHANGED <<registryVars, serverVars, method, params, host, conn, server, pool,
                        answer>>
        /\ down' = down \cup {l}
        /\ pc' = [k \in Calls |-> IF pc[k] = "sent" /\ conn[k] = l THEN "lost" ELSE pc[k]]
    BY DEF ConnectionLost
  <1>2. ListenersRun' /\ OfferedIsServed' /\ Grows /\ Registry!TypeOK'
    BY <1>1, CallStepsApart
  <1>3. TypeOK'
    BY <1>1, <1>2 DEF IInv, TypeOK, serverVars
  <1>4. \A k \in Calls : pc'[k] = pc[k] \/ (pc[k] = "sent" /\ pc'[k] = "lost")
    BY <1>1 DEF IInv, TypeOK
  <1>5. PoolLeadsToHost' /\ CallsGoToOffer' /\ AnnouncedIsServed' /\ RcodeTells'
    <2>1. CallsWait
      BY <1>1, <1>4 DEF CallsWait
    <2> QED
      BY <1>2, <1>3, <2>1, CallsStay
  <1> QED
    BY <1>2, <1>3, <1>5 DEF IInv

\* A request is sent, or the process of the client dies.
LEMMA SendStep ==
  ASSUME IInv, NEW k \in Calls, Send(k)
  PROVE  IInv'
  <1>1. /\ UNCHANGED <<registryVars, serverVars, method, params, host, conn, server, pool,
                        down, answer>>
        /\ pc[k] = "ready"
        /\ pc' \in [Calls -> {"idle", "connecting", "ready", "sent", "answered", "lost",
                              "crashed"}]
        /\ \A l \in Calls :
             \/ pc'[l] = pc[l]
             \/ pc[l] \in {"ready", "sent"} /\ pc'[l] \in {"sent", "lost"}
             \/ pc[l] \in {"connecting", "ready", "sent"} /\ pc'[l] = "crashed"
    <2>1. CASE conn[k] \in down
      BY <2>1 DEF Send, IInv, TypeOK
    <2>2. CASE conn[k] \notin down
      BY <2>2 DEF Send, IInv, TypeOK
    <2> QED
      BY <2>1, <2>2
  <1>2. ListenersRun' /\ OfferedIsServed' /\ Grows /\ Registry!TypeOK'
    BY <1>1, CallStepsApart
  <1>3. TypeOK'
    BY <1>1, <1>2 DEF IInv, TypeOK, serverVars
  <1>4. PoolLeadsToHost' /\ CallsGoToOffer' /\ AnnouncedIsServed' /\ RcodeTells'
    <2>1. CallsWait
      BY <1>1 DEF CallsWait
    <2> QED
      BY <1>2, <1>3, <2>1, CallsStay
  <1> QED
    BY <1>2, <1>3, <1>4 DEF IInv

LEMMA DiscoverStep ==
  ASSUME IInv, NEW c \in Clients, NEW m \in Methods, Discover(c, m)
  PROVE  IInv'
  <1>0. c \in Conns /\ Registry!Discover(c, m) /\ UNCHANGED <<serverVars, callVars>>
    BY DEF Discover, Conns
  <1>1. /\ Registry!TypeOK'
        /\ UNCHANGED <<open, closed, providers, offered>>
        /\ \A d \in Conns, n \in Methods : \A h \in known'[d][n] :
             h \in known[d][n] \/ \E p \in providers[n] : h = AccessAddr[p]
    BY <1>0, RegistryDiscover DEF IInv, TypeOK
  <1>2. TypeOK'
    BY <1>0, <1>1 DEF IInv, TypeOK, serverVars, callVars
  <1>3. Constructed' = Constructed /\ \A h, n : Offerer(h, n)' = Offerer(h, n)
    BY <1>1 DEF Constructed, Offerer
  <1>4. ListenersRun'
    BY <1>0, <1>3 DEF IInv, ListenersRun, serverVars
  <1>5. OfferedIsServed'
    <2>1. \A n \in Methods : \A p \in providers[n] : p \in Offerer(AccessAddr[p], n)
      BY DEF IInv, OfferedIsServed, Offerer
    <2>2. \A d \in Conns, n \in Methods : \A h \in known'[d][n] : Offerer(h, n) # {}
      BY <1>1, <2>1 DEF IInv, OfferedIsServed
    <2> QED
      BY <1>0, <1>1, <1>3, <2>2 DEF IInv, OfferedIsServed, serverVars
  <1>6. Grows
    BY <1>0, <1>1 DEF Grows, serverVars
  <1>7. PoolLeadsToHost' /\ CallsGoToOffer' /\ AnnouncedIsServed' /\ RcodeTells'
    <2>1. CallsWait
      BY <1>0 DEF CallsWait, callVars
    <2> QED
      BY <1>2, <1>6, <2>1, CallsStay
  <1> QED
    BY <1>2, <1>4, <1>5, <1>7 DEF IInv

\* What a call that takes a client or makes one changes is its own, and no
\* connection was named by it before.
LEMMA CallStep ==
  ASSUME IInv, NEW k \in Calls, NEW m \in Methods, NEW h \in Hosts, Call(k, m, h)
  PROVE  IInv'
  <1> DEFINE l == pool[ClientOf[k]][h]
  <1>0. PICK p \in Params :
          /\ pc[k] = "idle" /\ h \in known[ClientOf[k]][m]
          /\ method' = [method EXCEPT ![k] = m]
          /\ params' = [params EXCEPT ![k] = p]
          /\ host' = [host EXCEPT ![k] = h]
          /\ l = None => /\ pc' = [pc EXCEPT ![k] = "connecting"]
                         /\ UNCHANGED <<conn, server>>
          /\ l # None => /\ pc' = [pc EXCEPT ![k] = "ready"]
                         /\ conn' = [conn EXCEPT ![k] = l]
                         /\ server' = [server EXCEPT ![k] = server[l]]
          /\ UNCHANGED <<registryVars, serverVars, pool, down, answer>>
    BY DEF Call
  <1>1. ListenersRun' /\ OfferedIsServed' /\ Grows /\ Registry!TypeOK'
    BY <1>0, CallStepsApart
  <1>2. ClientOf[k] \in Clients /\ ClientOf[k] \in Conns /\ None \notin Calls \cup Servers
    BY RpcServiceAssumption DEF Conns
  <1>3. l \in Calls \cup {None}
    BY <1>2 DEF IInv, TypeOK
  <1>4. conn[k] = None /\ server[k] = None /\ answer[k] = None
    BY <1>0 DEF IInv, PoolLeadsToHost, CallsGoToOffer
  <1>5. l # None => /\ l # k /\ conn[l] = l /\ host[l] = h
                    /\ server[l] \in Servers /\ AccessAddr[server[l]] = h
    BY <1>2, <1>3, <1>4 DEF IInv, PoolLeadsToHost
  <1> HIDE DEF l
  <1>6. TypeOK'
    <2>1. /\ method' \in [Calls -> Methods \cup {None}]
          /\ params' \in [Calls -> Params \cup {None}]
          /\ host' \in [Calls -> Hosts \cup {None}]
      BY <1>0 DEF IInv, TypeOK
    <2>2. /\ pc' \in [Calls -> {"idle", "connecting", "ready", "sent", "answered", "lost",
                                "crashed"}]
          /\ conn' \in [Calls -> Calls \cup {None}]
          /\ server' \in [Calls -> Servers \cup {None}]
      <3>1. CASE l = None
        BY <1>0, <3>1 DEF IInv, TypeOK
      <3>2. CASE l # None
        <4>1. l \in Calls /\ server[l] \in Servers
          BY <1>3, <1>5, <3>2
        <4> QED
          BY <1>0, <3>2, <4>1 DEF IInv, TypeOK
      <3> QED
        BY <3>1, <3>2
    <2> QED
      BY <1>0, <1>1, <2>1, <2>2 DEF IInv, TypeOK, serverVars
  <1>7. \A j \in Calls : j # k =>
          /\ pc'[j] = pc[j] /\ method'[j] = method[j] /\ params'[j] = params[j]
          /\ host'[j] = host[j] /\ conn'[j] = conn[j] /\ server'[j] = server[j]
    BY <1>0 DEF IInv, TypeOK
  <1>8. /\ method'[k] = m /\ params'[k] = p /\ host'[k] = h
        /\ l = None => pc'[k] = "connecting" /\ conn'[k] = None /\ server'[k] = None
        /\ l # None => pc'[k] = "ready" /\ conn'[k] = l /\ server'[k] = server[l]
    BY <1>0, <1>4 DEF IInv, TypeOK
  <1>9. Offerer(h, m) # {}
    BY <1>0, <1>2 DEF IInv, OfferedIsServed
  <1>10. \A g, n : Offerer(g, n)' = Offerer(g, n)
    BY <1>0, ServersApart
  <1>11. UNCHANGED <<services, pool, answer>>
    BY <1>0 DEF serverVars
  <1>12. PoolLeadsToHost'
    <2>1. \A j \in Calls : conn[j] # k
      BY <1>2, <1>4 DEF IInv, PoolLeadsToHost
    <2>2. \A c \in Clients, g \in Hosts : pool[c][g] # k
      BY <1>2, <1>4 DEF IInv, PoolLeadsToHost
    <2>3. \A c \in Clients, g \in Hosts :
            pool[c][g] # None => conn'[pool[c][g]] = pool[c][g] /\ host'[pool[c][g]] = g
      BY <1>7, <2>2 DEF IInv, TypeOK, PoolLeadsToHost
    <2>4. ASSUME NEW j \in Calls, j # k
          PROVE  /\ pc'[j] \in {"idle", "connecting"} => conn'[j] = None /\ server'[j] = None
                 /\ pc'[j] \in {"ready", "sent"} => conn'[j] # None
                 /\ conn'[j] # None => /\ conn'[conn'[j]] = conn'[j]
                                       /\ server'[j] \in Servers
                                       /\ AccessAddr[server'[j]] = host'[j]
      BY <1>7, <2>1, <2>4 DEF IInv, TypeOK, PoolLeadsToHost
    <2>5. /\ pc'[k] \in {"idle", "connecting"} => conn'[k] = None /\ server'[k] = None
          /\ pc'[k] \in {"ready", "sent"} => conn'[k] # None
          /\ conn'[k] # None => /\ conn'[conn'[k]] = conn'[k]
                                /\ server'[k] \in Servers
                                /\ AccessAddr[server'[k]] = host'[k]
      BY <1>3, <1>5, <1>7, <1>8
    <2> QED
      BY <1>11, <2>3, <2>4, <2>5 DEF PoolLeadsToHost
  <1>13. CallsGoToOffer'
    BY <1>2, <1>4, <1>7, <1>8, <1>9, <1>10, <1>11 DEF IInv, CallsGoToOffer
  <1>14. AnnouncedIsServed'
    BY <1>4, <1>7, <1>10, <1>11 DEF IInv, AnnouncedIsServed
  <1>15. RcodeTells'
    BY <1>4, <1>7, <1>11 DEF IInv, RcodeTells, Tells, Fits
  <1> QED
    BY <1>1, <1>6, <1>12, <1>13, <1>14, <1>15 DEF IInv

\* The server that listens may be any at the address.
LEMMA ConnectHostStep ==
  ASSUME IInv, NEW k \in Calls, NEW s \in Servers, ConnectHost(k, s)
  PROVE  IInv'
  <1>0. /\ pc[k] = "connecting" /\ s \in listening /\ AccessAddr[s] = host[k]
        /\ pc' = [pc EXCEPT ![k] = "ready"]
        /\ conn' = [conn EXCEPT ![k] = k]
        /\ server' = [server EXCEPT ![k] = s]
        /\ pool' = [pool EXCEPT ![ClientOf[k]][host[k]] = IF @ = None THEN k ELSE @]
        /\ UNCHANGED <<registryVars, serverVars, method, params, host, down, answer>>
    BY DEF ConnectHost
  <1>1. ListenersRun' /\ OfferedIsServed' /\ Grows /\ Registry!TypeOK'
    BY <1>0, CallStepsApart
  <1>2. /\ ClientOf[k] \in Clients /\ host[k] \in Hosts /\ None \notin Calls
    BY <1>0, RpcServiceAssumption DEF Conns
  <1>3. \A c \in Clients, h \in Hosts :
          pool'[c][h] = pool[c][h] \/ (pool'[c][h] = k /\ h = host[k])
    BY <1>0, <1>2 DEF IInv, TypeOK
  <1>4. pool' \in [Clients -> [Hosts -> Calls \cup {None}]]
    <2>1. \A f \in [Hosts -> Calls \cup {None}] :
            [f EXCEPT ![host[k]] = IF @ = None THEN k ELSE @] \in [Hosts -> Calls \cup {None}]
      BY ONLY k \in Calls
    <2> QED
      BY <1>0, <1>2, <2>1 DEF IInv, TypeOK
  <1>5. TypeOK'
    BY <1>0, <1>1, <1>4 DEF IInv, TypeOK, serverVars
  <1>6. \A l \in Calls : l # k => pc'[l] = pc[l] /\ conn'[l] = conn[l] /\ server'[l] = server[l]
    BY <1>0 DEF IInv, TypeOK
  <1>7. /\ pc'[k] = "ready" /\ conn'[k] = k /\ server'[k] = s
        /\ answer[k] = None /\ conn[k] = None
    BY <1>0 DEF IInv, TypeOK, PoolLeadsToHost, CallsGoToOffer
  <1>8. \A g, n : Offerer(g, n)' = Offerer(g, n)
    BY <1>0, ServersApart
  <1>9. UNCHANGED <<services, method, params, host, answer>>
    BY <1>0 DEF serverVars
  <1>10. PoolLeadsToHost'
    <2>1. \A c \in Clients, h \in Hosts : pool'[c][h] # None =>
            conn'[pool'[c][h]] = pool'[c][h] /\ host[pool'[c][h]] = h
      <3>1. \A c \in Clients, h \in Hosts : pool[c][h] # None =>
              /\ pool[c][h] \in Calls /\ pool[c][h] # k
              /\ conn[pool[c][h]] = pool[c][h] /\ host[pool[c][h]] = h
        BY <1>2, <1>7 DEF IInv, TypeOK, PoolLeadsToHost
      <3> QED
        BY <1>3, <1>6, <1>7, <3>1
    <2>2. \A j \in Calls : conn[j] # k
      BY <1>2, <1>7 DEF IInv, PoolLeadsToHost
    <2>3. ASSUME NEW j \in Calls
          PROVE  /\ pc'[j] \in {"idle", "connecting"} => conn'[j] = None /\ server'[j] = None
                 /\ pc'[j] \in {"ready", "sent"} => conn'[j] # None
                 /\ conn'[j] # None => /\ conn'[conn'[j]] = conn'[j]
                                       /\ server'[j] \in Servers
                                       /\ AccessAddr[server'[j]] = host[j]
      <3>1. CASE j = k
        BY <1>0, <1>2, <1>7, <3>1
      <3>2. CASE j # k
        BY <1>6, <2>2, <3>2 DEF IInv, TypeOK, PoolLeadsToHost
      <3> QED
        BY <3>1, <3>2
    <2> QED
      BY <1>9, <2>1, <2>3 DEF PoolLeadsToHost
  <1>11. CallsGoToOffer'
    BY <1>0, <1>6, <1>7, <1>8, <1>9 DEF IInv, CallsGoToOffer
  <1>12. AnnouncedIsServed'
    BY <1>6, <1>7, <1>8, <1>9 DEF IInv, AnnouncedIsServed
  <1>13. RcodeTells'
    BY <1>6, <1>7, <1>9 DEF IInv, RcodeTells, Tells, Fits
  <1> QED
    BY <1>1, <1>5, <1>10, <1>11, <1>12, <1>13 DEF IInv

\* check() accepts the kinds that the type stands for, and paramCheck() the
\* parameters that fit.
LEMMA CheckAccepts ==
  ASSUME NEW vtype \in VType, NEW kind PROVE Check(vtype, kind) <=> kind \in Accepts[vtype]
  <1>1. vtype = "BOOL" \/ vtype = "INTEGRAL" \/ vtype = "NUMERIC" \/ vtype = "STRING"
        \/ vtype = "ARRAY" \/ vtype = "OBJECT"
    BY DEF VType
  <1>2. CASE vtype = "BOOL"
    BY <1>2 DEF Check, Accepts
  <1>3. CASE vtype = "INTEGRAL"
    BY <1>3 DEF Check, Accepts
  <1>4. CASE vtype = "NUMERIC"
    BY <1>4 DEF Check, Accepts
  <1>5. CASE vtype = "STRING"
    BY <1>5 DEF Check, Accepts
  <1>6. CASE vtype = "ARRAY"
    BY <1>6 DEF Check, Accepts
  <1>7. CASE vtype = "OBJECT"
    BY <1>7 DEF Check, Accepts
  <1> QED
    BY <1>1, <1>2, <1>3, <1>4, <1>5, <1>6, <1>7

LEMMA ParamCheckFits ==
  ASSUME NEW d \in Describes, NEW p PROVE ParamCheck(d, p) <=> Fits(p, d)
  <1>1. \A desc \in ParamsDesc[d] : desc[2] \in VType
    BY RpcServiceAssumption
  <1> QED
    BY <1>1, CheckAccepts DEF ParamCheck, Fits

LEMMA OnRpcRequestStep ==
  ASSUME IInv, NEW k \in Calls, OnRpcRequest(k)
  PROVE  IInv'
  <1> DEFINE d == services[server[k]][method[k]]
  <1>0. /\ pc[k] = "sent"
        /\ UNCHANGED <<registryVars, serverVars, method, params, host, conn, server, pool,
                       down>>
        /\ pc' = [pc EXCEPT ![k] = "answered"]
    BY DEF OnRpcRequest, Response
  <1>1. method[k] \in Methods /\ server[k] \in Servers /\ d \in Describes \cup {None}
    BY <1>0 DEF IInv, TypeOK, CallsGoToOffer
  <1>2. \E a \in Answers :
          /\ answer' = [answer EXCEPT ![k] = a]
          /\ Tells(a, d, params[k])
          /\ a.rcode = "NOT_FOUND_SERVICE" => d = None
    <2>1. CASE d = None
      <3>1. Response(k, "NOT_FOUND_SERVICE", None, "null")
        BY <2>1 DEF OnRpcRequest, Select
      <3> QED
        BY <2>1, <3>1 DEF Response, Answers, Tells, Kinds
    <2>2. CASE d # None /\ ~ParamCheck(d, params[k])
      <3>1. Response(k, "INVALID_PARAMS", None, "null")
        BY <2>2 DEF OnRpcRequest, Select
      <3>2. ~Fits(params[k], d)
        BY <1>1, <2>2, ParamCheckFits
      <3> DEFINE a == [rcode |-> "INVALID_PARAMS", by |-> None, result |-> "null"]
      <3>3. a \in Answers /\ answer' = [answer EXCEPT ![k] = a]
        BY <3>1 DEF Response, Answers, Kinds
      <3>4. Tells(a, d, params[k]) /\ a.rcode # "NOT_FOUND_SERVICE"
        BY <2>2, <3>2 DEF Tells
      <3> QED
        BY <3>3, <3>4
    <2>3. CASE d # None /\ ParamCheck(d, params[k])
      <3>1. PICK result \in Results :
              Response(k, IF Check(ReturnType[d], result) THEN "OK" ELSE "INTERNAL_ERROR",
                       d, result)
        BY <2>3 DEF OnRpcRequest, Select
      <3>2. /\ d \in Describes /\ result \in Kinds /\ ReturnType[d] \in VType
            /\ Fits(params[k], d)
        BY <1>1, <2>3, ParamCheckFits, RpcServiceAssumption
      <3>3. Check(ReturnType[d], result) <=> result \in Accepts[ReturnType[d]]
        BY <3>2, CheckAccepts
      <3> DEFINE a == [rcode |-> IF Check(ReturnType[d], result) THEN "OK"
                                                                  ELSE "INTERNAL_ERROR",
                       by |-> d, result |-> result]
      <3>4. a \in Answers /\ answer' = [answer EXCEPT ![k] = a]
        BY <3>1, <3>2 DEF Response, Answers
      <3>5. Tells(a, d, params[k]) /\ a.rcode # "NOT_FOUND_SERVICE"
        BY <2>3, <3>2, <3>3 DEF Tells
      <3> QED
        BY <3>4, <3>5
    <2> QED
      BY <2>1, <2>2, <2>3
  <1>3. PICK a \in Answers : /\ answer' = [answer EXCEPT ![k] = a]
                             /\ Tells(a, d, params[k])
                             /\ a.rcode = "NOT_FOUND_SERVICE" => d = None
    BY <1>2
  <1>4. ListenersRun' /\ OfferedIsServed' /\ Grows /\ Registry!TypeOK'
    BY <1>0, CallStepsApart
  <1>5. TypeOK'
    BY <1>0, <1>3, <1>4 DEF IInv, TypeOK, serverVars
  <1>6. \A l \in Calls : /\ l # k => pc'[l] = pc[l] /\ answer'[l] = answer[l]
                         /\ l = k => pc'[l] = "answered" /\ answer'[l] = a
    BY <1>0, <1>3 DEF IInv, TypeOK
  <1>7. \A g, n : Offerer(g, n)' = Offerer(g, n)
    BY <1>0, ServersApart
  <1>8. UNCHANGED <<services, method, params, host, conn, server, pool>>
    BY <1>0 DEF serverVars
  <1>9. PoolLeadsToHost' /\ CallsGoToOffer'
    <2>1. PoolLeadsToHost'
      BY <1>0, <1>6, <1>8 DEF IInv, PoolLeadsToHost
    <2>2. CallsGoToOffer'
      BY <1>0, <1>1, <1>6, <1>7, <1>8 DEF IInv, CallsGoToOffer
    <2> QED
      BY <2>1, <2>2
  \* Who offered the service has it in its table: it is another.
  <1>10. AnnouncedIsServed'
    <2>1. d = None => \A w \in Offerer(host[k], method[k]) : w # server[k]
      BY <1>1 DEF IInv, OfferedIsServed, Offerer
    <2>2. Offerer(host[k], method[k]) # {}
      BY <1>0 DEF IInv, CallsGoToOffer
    <2>3. a.rcode = "NOT_FOUND_SERVICE" => Offerer(host[k], method[k]) \ {server[k]} # {}
      BY <1>3, <2>1, <2>2
    <2> QED
      BY <1>6, <1>7, <1>8, <2>3 DEF IInv, AnnouncedIsServed
  <1>11. RcodeTells'
    <2>1. \A l \in Calls : answer'[l] # None =>
            Tells(answer'[l], services[server[l]][method[l]], params[l])
      BY <1>3, <1>6 DEF IInv, RcodeTells
    <2> QED
      BY <1>8, <2>1 DEF RcodeTells, Tells, Fits
  <1> QED
    BY <1>4, <1>5, <1>9, <1>10, <1>11 DEF IInv

LEMMA StutterStep == ASSUME IInv, UNCHANGED vars PROVE IInv'
  <1>0. UNCHANGED <<registryVars, serverVars, callVars>>
    BY DEF vars
  <1>1. ListenersRun' /\ OfferedIsServed' /\ Grows /\ Registry!TypeOK'
    BY <1>0, CallStepsApart
  <1>2. TypeOK'
    BY <1>0, <1>1 DEF IInv, TypeOK, serverVars, callVars
  <1>3. PoolLeadsToHost' /\ CallsGoToOffer' /\ AnnouncedIsServed' /\ RcodeTells'
    <2>1. CallsWait
      BY <1>0 DEF CallsWait, callVars
    <2> QED
      BY <1>1, <1>2, <2>1, CallsStay
  <1> QED
    BY <1>1, <1>2, <1>3 DEF IInv

LEMMA IInvStep == ASSUME IInv, [Next]_vars PROVE IInv'
  <1>1. ASSUME NEW s \in Servers, Construct(s) PROVE IInv'
    BY <1>1, ConnectStep DEF Construct, Conns
  <1>2. ASSUME NEW c \in Clients, ConnectClient(c) PROVE IInv'
    <2>1. c \in Conns /\ c \notin Servers
      BY RpcServiceAssumption DEF Conns
    <2> QED
      BY <1>2, <2>1, ConnectStep DEF ConnectClient
  <1>3. ASSUME NEW d \in Describes, RegistrationStep(d) PROVE IInv'
    BY <1>3, RegistryMethodStep, OnServiceRequestStep DEF RegistrationStep
  <1> QED
    BY <1>1, <1>2, <1>3, StartStep, CrashStep, RegisterMethodStep, DisconnectStep,
       DiscoverStep, CallStep, ConnectHostStep, SendStep, OnRpcRequestStep,
       ConnectionLostStep, StutterStep DEF Next

LEMMA IInvAlways == Spec => []IInv
  <1>1. IInv /\ [Next]_vars => IInv'
    BY IInvStep
  <1> QED
    BY <1>1, InitIInv, PTL DEF Spec

-----------------------------------------------------------------------------
(* The theorems.                                                             *)

\* RpcRouter, ServiceManager and the registry: the tables hold what they should.
THEOREM TypeCorrect == Spec => []TypeOK
  <1>1. IInv => TypeOK
    BY DEF IInv
  <1> QED
    BY <1>1, IInvAlways, PTL

\* Registration before announcement: a call to an announced host finds the service.
THEOREM AnnouncedAlwaysServed == Spec => []AnnouncedIsServed
  <1>1. IInv => AnnouncedIsServed
    BY DEF IInv
  <1> QED
    BY <1>1, IInvAlways, PTL

\* onRpcRequest: the return code tells what happened to the call.
THEOREM RcodeAlwaysTells == Spec => []RcodeTells
  <1>1. IInv => RcodeTells
    BY DEF IInv
  <1> QED
    BY <1>1, IInvAlways, PTL

\* ServiceManager::insert keeps what is there: one handler serves all the calls.
THEOREM AlwaysServedByOne == Spec => []ServedByOne
  <1>1. IInv => ServedByOne
    BY DEF IInv, RcodeTells, Tells, ServedByOne
  <1> QED
    BY <1>1, IInvAlways, PTL

\* Provider::registryMethod waits: when it returns the registry lists the server.
THEOREM RegisteredAlwaysListed == Spec => []RegisteredIsListed
  <1>1. IInv => RegisteredIsListed
    BY DEF IInv, OfferedIsServed, RegisteredIsListed, Registry!MethodHosts
  <1> QED
    BY <1>1, IInvAlways, PTL

\* The composition runs the registry: what is proved of RegistryServer holds here.
THEOREM ComposesRegistry == Spec => Registry!Spec
  <1>1. Init => Registry!Init
    BY DEF Init
  <1>2. ASSUME [Next]_vars PROVE [Registry!Next]_Registry!vars
    <2>1. CASE UNCHANGED registryVars
      BY <2>1 DEF registryVars, Registry!vars, Registry!connVars, Registry!provVars,
                  Registry!discVars, Registry!auxVars
    <2>2. CASE Registry!Next
      BY <2>2
    <2>3. ASSUME NEW c \in Conns, Registry!Connect(c) \/ Registry!Disconnect(c)
          PROVE  Registry!Next
      BY <2>3 DEF Registry!Next
    <2>4. ASSUME NEW c \in Conns, NEW m \in Methods,
                 Registry!Register(c, m) \/ Registry!Discover(c, m)
          PROVE  Registry!Next
      BY <2>4 DEF Registry!Next
    <2>5. CASE UNCHANGED vars
      BY <2>1, <2>5 DEF vars
    <2>6. CASE \E s \in Servers : Construct(s) \/ Start(s) \/ Crash(s)
      BY <2>1, <2>2, <2>3, <2>6 DEF Construct, Start, Crash, Conns
    <2>7. CASE \E d \in Describes : RegisterMethod(d) \/ RegistrationStep(d)
      <3>1. \A d \in Describes : ServerOf[d] \in Conns /\ MethodOf[d] \in Methods
        BY RpcServiceAssumption DEF Conns
      <3> QED
        BY <2>1, <2>2, <2>4, <2>7, <3>1
        DEF RegisterMethod, RegistrationStep, RegistryMethod, OnServiceRequest, Registered
    <2>8. CASE \E c \in Conns : Disconnect(c)
      BY <2>2, <2>3, <2>8 DEF Disconnect
    <2>9. CASE \E c \in Clients : ConnectClient(c) \/ \E m \in Methods : Discover(c, m)
      BY <2>2, <2>3, <2>4, <2>9 DEF ConnectClient, Discover, Conns
    <2>10. CASE \E k \in Calls : \/ \E m \in Methods, h \in Hosts : Call(k, m, h)
                                 \/ \E s \in Servers : ConnectHost(k, s)
                                 \/ Send(k) \/ OnRpcRequest(k) \/ ConnectionLost(k)
      BY <2>1, <2>10 DEF Call, ConnectHost, Send, OnRpcRequest, ConnectionLost
    <2> QED
      BY <1>2, <2>5, <2>6, <2>7, <2>8, <2>9, <2>10 DEF Next
  <1> QED
    BY <1>1, <1>2, PTL DEF Spec, Registry!Spec

-----------------------------------------------------------------------------
(* Nobody waits for nobody.                                                  *)

LEMMA NothingLostInit == Init => NothingLostBehind
BY DEF Init, NothingLostBehind

LEMMA NothingLostStep ==
  ASSUME IInv, NothingLostBehind, [Next]_vars PROVE NothingLostBehind'
<1> USE DEF NothingLostBehind
<1>0. /\ TypeOK /\ Registry!TypeOK /\ ListenersRun
      /\ \A d \in Describes : stage[d] # "idle" => ServerOf[d] \in Constructed
      /\ \A d \in Describes : ServerOf[d] \in Servers /\ ServerOf[d] \in Conns
                              /\ MethodOf[d] \in Methods
  BY RpcServiceAssumption DEF IInv, TypeOK, OfferedIsServed, Conns
\* A connection that is made is of a server that had registered nothing.
<1>1. ASSUME NEW c \in Conns, Registry!Connect(c), UNCHANGED <<serverVars, callVars>>
      PROVE  NothingLostBehind'
  <2>1. c \notin open \cup closed /\ open' = open \cup {c}
    BY <1>0, <1>1, RegistryConnect
  <2> QED
    BY <1>0, <1>1, <2>1 DEF Constructed, serverVars, callVars
<1>2. ASSUME NEW s \in Servers, Start(s) PROVE NothingLostBehind'
  BY <1>0, <1>2 DEF Start, registryVars, callVars
<1>3. ASSUME NEW s \in Servers, Crash(s) PROVE NothingLostBehind'
  BY <1>0, <1>3 DEF Crash, registryVars, TypeOK
<1>4. ASSUME NEW d \in Describes, RegisterMethod(d) PROVE NothingLostBehind'
  BY <1>0, <1>4 DEF RegisterMethod, Advance, registryVars, callVars, TypeOK
<1>5. ASSUME NEW d \in Describes, RegistrationStep(d) PROVE NothingLostBehind'
  <2>1. CASE RegistryMethod(d)
    BY <1>0, <2>1 DEF RegistryMethod, Advance, registryVars, callVars, TypeOK
  <2>2. CASE OnServiceRequest(d)
    <3>1. open' = open
      BY <1>0, <2>2, RegistryRegister DEF OnServiceRequest
    <3> QED
      BY <1>0, <2>2, <3>1 DEF OnServiceRequest, Advance, callVars, TypeOK
  <2>3. CASE Registered(d)
    BY <1>0, <2>3 DEF Registered, Advance, registryVars, callVars, TypeOK
  <2> QED
    BY <1>5, <2>1, <2>2, <2>3 DEF RegistrationStep
\* What was on its way over a connection is lost when it goes down, and so are
\* not the registrations of others.
<1>6. ASSUME NEW c \in Conns, Disconnect(c) PROVE NothingLostBehind'
  <2>1. open' = open \ {c}
    BY <1>0, <1>6, RegistryDisconnect DEF Disconnect
  <2> QED
    BY <1>0, <1>6, <2>1 DEF Disconnect, LoseRegistrations, callVars, TypeOK
<1>7. ASSUME NEW c \in Clients, NEW m \in Methods, Discover(c, m) PROVE NothingLostBehind'
  <2>1. open' = open
    BY <1>0, <1>7, RegistryDiscover DEF Discover, Conns
  <2> QED
    BY <1>0, <1>7, <2>1 DEF Discover, serverVars, callVars
<1>8. ASSUME NEW k \in Calls, NEW m \in Methods, NEW h \in Hosts, Call(k, m, h)
      PROVE  NothingLostBehind'
  <2>1. /\ pc' = [pc EXCEPT ![k] = IF pool[ClientOf[k]][h] = None THEN "connecting"
                                                               ELSE "ready"]
        /\ UNCHANGED <<registryVars, serverVars, down>>
        /\ pc[k] = "idle"
        /\ \/ UNCHANGED <<conn, server>>
           \/ \E l \in Calls : /\ conn' = [conn EXCEPT ![k] = l]
                                /\ server' = [server EXCEPT ![k] = server[l]]
    <3>1. ClientOf[k] \in Clients
      BY RpcServiceAssumption
    <3>2. pool[ClientOf[k]][h] # None => pool[ClientOf[k]][h] \in Calls
      BY <1>0, <3>1 DEF TypeOK
    <3> QED
      BY <1>8, <3>2 DEF Call
  <2>2. UNCHANGED <<open, stage, listening, stopped>>
    BY <2>1 DEF registryVars, serverVars
  <2>3. \A j \in Calls : j # k => pc'[j] = pc[j] /\ conn'[j] = conn[j]
    BY <1>0, <2>1 DEF TypeOK
  <2>4. pc'[k] # "sent"
    BY <1>0, <2>1 DEF TypeOK
  <2>5. \A j \in Calls : server'[j] = server[j] \/ \E l \in Calls : server'[j] = server[l]
    BY <1>0, <2>1 DEF TypeOK
  <2>6. \A j \in Calls : pc'[j] = "sent" => server'[j] = server[j]
    BY <1>0, <2>1, <2>4 DEF TypeOK
  <2> QED
    BY <2>1, <2>2, <2>3, <2>4, <2>5, <2>6
<1>9. ASSUME NEW k \in Calls, NEW s \in Servers, ConnectHost(k, s) PROVE NothingLostBehind'
  BY <1>0, <1>9 DEF ConnectHost, registryVars, serverVars, TypeOK
<1>9a. ASSUME NEW k \in Calls, Send(k) PROVE NothingLostBehind'
  <2>1. server[k] # None
    BY <1>9a, RpcServiceAssumption DEF Send, IInv, PoolLeadsToHost
  <2>2. CASE conn[k] \in down
    BY <1>0, <1>9a, <2>2 DEF Send, registryVars, serverVars, TypeOK
  <2>3. CASE conn[k] \notin down
    BY <1>0, <1>9a, <2>1, <2>3 DEF Send, registryVars, serverVars, TypeOK
  <2> QED
    BY <2>2, <2>3
<1>10. ASSUME NEW k \in Calls, OnRpcRequest(k) PROVE NothingLostBehind'
  BY <1>0, <1>10 DEF OnRpcRequest, Response, registryVars, serverVars, TypeOK
<1>11. ASSUME NEW k \in Calls, ConnectionLost(k) PROVE NothingLostBehind'
  BY <1>0, <1>11 DEF ConnectionLost, registryVars, serverVars, TypeOK
<1>12. CASE UNCHANGED vars
  BY <1>12 DEF vars, registryVars, serverVars, callVars
<1>13. CASE \E s \in Servers : Construct(s) \/ Start(s) \/ Crash(s)
  BY <1>1, <1>2, <1>3, <1>13 DEF Construct, Conns
<1>14. CASE \E d \in Describes : RegisterMethod(d) \/ RegistrationStep(d)
  BY <1>4, <1>5, <1>14
<1>15. CASE \E c \in Clients : ConnectClient(c) \/ \E m \in Methods : Discover(c, m)
  BY <1>1, <1>7, <1>15 DEF ConnectClient, Conns
<1>16. CASE \E k \in Calls : \/ \E m \in Methods, h \in Hosts : Call(k, m, h)
                             \/ \E s \in Servers : ConnectHost(k, s)
                             \/ Send(k) \/ OnRpcRequest(k) \/ ConnectionLost(k)
  BY <1>8, <1>9, <1>9a, <1>10, <1>11, <1>16
<1> HIDE DEF NothingLostBehind
<1> QED
  BY <1>6, <1>12, <1>13, <1>14, <1>15, <1>16 DEF Next

\* The safety core of "calls are answered": a request on its way is at a server
\* that is there to handle it, and a call that tries to connect tries a server that
\* listens or that no lost registration keeps from start().
THEOREM CallsNeverWaitForNobody == Spec => []NoCallWaitsForNobody
  <1>1. IInv /\ NothingLostBehind => NoCallWaitsForNobody
    <2> SUFFICES ASSUME IInv, NothingLostBehind PROVE NoCallWaitsForNobody
      OBVIOUS
    <2>1. \A k \in Calls :
            pc[k] = "sent" => server[k] \in listening \ stopped /\ conn[k] \notin down
      BY DEF NothingLostBehind, IInv, ListenersRun
    <2>2. ASSUME NEW k \in Calls, Alive(host[k]) PROVE CanBeReached(host[k])
      BY <2>2, RpcServiceAssumption DEF Alive, CanBeReached, NothingLostBehind
    <2> QED
      BY <2>1, <2>2 DEF NoCallWaitsForNobody
  <1>2. IInv /\ NothingLostBehind /\ [Next]_vars => NothingLostBehind'
    BY NothingLostStep
  <1> QED
    BY <1>1, <1>2, NothingLostInit, IInvAlways, PTL DEF Spec

-----------------------------------------------------------------------------
(* What is proved of the registry alone, carried over to the composition.    *)

Known == INSTANCE RegistryServerProofs

LEMMA SameRegistry == Registry!Spec => Known!Spec
  <1> USE DEF Registry!connVars, Known!connVars, Registry!provVars, Known!provVars,
              Registry!discVars, Known!discVars, Registry!auxVars, Known!auxVars
  <1>1. Registry!Init => Known!Init
    BY DEF Registry!Init, Known!Init
  <1>2. [Registry!Next]_Registry!vars => [Known!Next]_Known!vars
    <2>1. UNCHANGED Registry!vars => UNCHANGED Known!vars
      BY DEF Registry!vars, Known!vars
    <2>2. \A m : Registry!MethodHosts(m) = Known!MethodHosts(m)
      BY DEF Registry!MethodHosts, Known!MethodHosts
    <2>3. ASSUME NEW c \in Conns
          PROVE  /\ Registry!Connect(c) => Known!Connect(c)
                 /\ Registry!Disconnect(c) => Known!Disconnect(c)
      BY DEF Registry!Connect, Known!Connect, Registry!Disconnect, Known!Disconnect,
             Registry!OfflineNotify, Known!OfflineNotify,
             Registry!DeleteProvider, Known!DeleteProvider,
             Registry!DeleteDiscoverer, Known!DeleteDiscoverer
    <2>4. ASSUME NEW c \in Conns, NEW m \in Methods
          PROVE  /\ Registry!Register(c, m) => Known!Register(c, m)
                 /\ Registry!Discover(c, m) => Known!Discover(c, m)
      BY <2>2 DEF Registry!Register, Known!Register, Registry!Discover, Known!Discover,
                  Registry!AddProvider, Known!AddProvider,
                  Registry!OnlineNotify, Known!OnlineNotify,
                  Registry!AddDiscoverer, Known!AddDiscoverer
    <2> QED
      BY <2>1, <2>3, <2>4 DEF Registry!Next, Known!Next
  <1> QED
    BY <1>1, <1>2, PTL DEF Registry!Spec, Known!Spec

\* RpcServiceAssumption is all that the proofs about the registry assume.
LEMMA AddressesKnown == Known!AddressAssumption
  BY RpcServiceAssumption DEF Known!AddressAssumption

\* In the composition too the indexes of discoverers agree, whatever servers
\* register, crash and are started again.
THEOREM IndexedInTheService == Spec => []Registry!DiscoverersIndexed
  <1>1. Registry!DiscoverersIndexed <=> Known!DiscoverersIndexed
    BY DEF Registry!DiscoverersIndexed, Known!DiscoverersIndexed
  <1> QED
    BY <1>1, ComposesRegistry, SameRegistry, AddressesKnown, Known!DiscoverersAlwaysIndexed, PTL

\* A server's services stay listed while its connection is up, although servers
\* end and are started again at the same address.
THEOREM LiveServerAlwaysListed == Spec => []Registry!LiveProviderListed
  <1>1. Registry!LiveProviderListed <=> Known!LiveProviderListed
    BY DEF Registry!LiveProviderListed, Known!LiveProviderListed
  <1> QED
    BY <1>1, ComposesRegistry, SameRegistry, AddressesKnown, Known!LiveProviderAlwaysListed, PTL

\* A client knows at any time the hosts that a new discovery would be answered
\* with, whatever order servers register and clients ask in.
THEOREM ClientsAlwaysUpToDate == Spec => []Registry!DiscoverersUpToDate
  <1>1. Registry!DiscoverersUpToDate <=> Known!DiscoverersUpToDate
    BY DEF Registry!DiscoverersUpToDate, Known!DiscoverersUpToDate,
           Registry!MethodHosts, Known!MethodHosts
  <1> QED
    BY <1>1, ComposesRegistry, SameRegistry, AddressesKnown, Known!DiscoverersAlwaysUpToDate, PTL

LEMMA SameDirectory ==
  [Known!Abstract!Next]_Known!Abstract!directoryVars
    => [Registry!Abstract!Next]_Registry!Abstract!directoryVars
  <1> USE DEF Registry!Abstract!Inform, Known!Abstract!Inform,
              Registry!Abstract!Listing, Known!Abstract!Listing
  <1>1. UNCHANGED Known!Abstract!directoryVars => UNCHANGED Registry!Abstract!directoryVars
    BY DEF Registry!Abstract!directoryVars, Known!Abstract!directoryVars
  <1>2. ASSUME NEW c \in Conns
        PROVE  /\ Known!Abstract!Come(c) => Registry!Abstract!Come(c)
               /\ Known!Abstract!Leave(c) => Registry!Abstract!Leave(c)
    BY DEF Registry!Abstract!Come, Known!Abstract!Come,
           Registry!Abstract!Leave, Known!Abstract!Leave
  <1>3. ASSUME NEW c \in Conns, NEW m \in Methods
        PROVE  /\ Known!Abstract!Offer(c, m) => Registry!Abstract!Offer(c, m)
               /\ Known!Abstract!Watch(c, m) => Registry!Abstract!Watch(c, m)
    BY DEF Registry!Abstract!Offer, Known!Abstract!Offer,
           Registry!Abstract!Watch, Known!Abstract!Watch
  <1> QED
    BY <1>1, <1>2, <1>3 DEF Registry!Abstract!Next, Known!Abstract!Next

\* Servers that register, end and start again, their registry and their clients
\* implement the directory.
THEOREM ServiceImplementsDirectory == Spec => Registry!ImplementsDirectory
  <1>1. Known!Abstract!Init <=> Registry!Abstract!Init
    BY DEF Registry!Abstract!Init, Known!Abstract!Init
  <1> QED
    BY <1>1, SameDirectory, ComposesRegistry, SameRegistry, AddressesKnown,
       Known!RegistryImplementsDirectory, PTL
       DEF Known!ImplementsDirectory, Registry!ImplementsDirectory,
           Known!Abstract!Spec, Registry!Abstract!Spec
=============================================================================
