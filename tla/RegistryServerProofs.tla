------------------------ MODULE RegistryServerProofs ------------------------
(* Proofs about RegistryServer, for any connections, services and hosts.   *)
EXTENDS RegistryServer, TLAPS

IInv ==
  /\ TypeOK
  /\ DiscoverersIndexed
  /\ LiveProviderListed
  /\ DiscoverersUpToDate
  /\ WatchersRegistered

LEMMA MethodHostsType == TypeOK => \A m \in Methods : MethodHosts(m) \in SUBSET Hosts
BY AddressAssumption DEF TypeOK, MethodHosts

LEMMA InitIInv == Init => IInv
BY DEF Init, IInv, TypeOK, DiscoverersIndexed, LiveProviderListed,
       DiscoverersUpToDate, WatchersRegistered

LEMMA IInvStep == IInv /\ [Next]_vars => IInv'
<1> SUFFICES ASSUME IInv, [Next]_vars PROVE IInv'
  OBVIOUS
<1> USE AddressAssumption
    DEF IInv, TypeOK, DiscoverersIndexed, LiveProviderListed,
        DiscoverersUpToDate, WatchersRegistered,
        connVars, provVars, discVars, auxVars
<1>1. ASSUME NEW c \in Conns, Connect(c) PROVE IInv'
  BY <1>1 DEF Connect, MethodHosts
<1>2. ASSUME NEW c \in Conns, NEW m \in Methods, Register(c, m) PROVE IInv'
  <2> USE <1>2 DEF Register, AddProvider, OnlineNotify
  <2>1. TypeOK'
    OBVIOUS
  <2>2. DiscoverersIndexed' /\ LiveProviderListed' /\ WatchersRegistered'
    OBVIOUS
  <2>3. MethodHosts(m)' = MethodHosts(m) \cup {AccessAddr[c]}
    BY DEF MethodHosts
  <2>4. \A n \in Methods \ {m} : MethodHosts(n)' = MethodHosts(n)
    BY DEF MethodHosts
  <2>5. DiscoverersUpToDate'
    BY <2>3, <2>4
  <2> QED
    BY <2>1, <2>2, <2>5
<1>3. ASSUME NEW c \in Conns, NEW m \in Methods, Discover(c, m) PROVE IInv'
  <2> USE <1>3 DEF Discover, AddDiscoverer
  <2>0. MethodHosts(m) \in SUBSET Hosts
    BY MethodHostsType
  <2>1. TypeOK'
    BY <2>0
  <2>2. DiscoverersIndexed' /\ LiveProviderListed'
    <3>1. \A d \in Conns, n \in Methods :
            d \in discoverers'[n] <=> d \in discoverers[n] \/ <<d, n>> = <<c, m>>
      OBVIOUS
    <3>2. \A d \in Conns, n \in Methods :
            n \in discMethods'[d] <=> n \in discMethods[d] \/ <<d, n>> = <<c, m>>
      OBVIOUS
    <3>3. discConns' = discConns \cup {c}
      OBVIOUS
    <3>4. \A d \in Conns, n \in Methods :
            d \in discoverers'[n] <=> d \in discConns' /\ n \in discMethods'[d]
      BY <3>1, <3>2, <3>3
    <3> QED
      BY <3>3, <3>4
  <2>3. known'[c][m] = MethodHosts(m)
    <3>1. CASE MethodHosts(m) # {}
      BY <2>0, <3>1
    <3>2. CASE MethodHosts(m) = {}
      BY <3>2
    <3> QED
      BY <3>1, <3>2
  <2>4. \A d \in Conns, n \in Methods :
          <<d, n>> # <<c, m>> => known'[d][n] = known[d][n]
    <3>1. CASE MethodHosts(m) # {}
      BY <3>1
    <3>2. CASE MethodHosts(m) = {}
      BY <3>2
    <3> QED
      BY <3>1, <3>2
  <2>5. WatchersRegistered'
    BY <2>4
  <2>6. \A n \in Methods : MethodHosts(n)' = MethodHosts(n)
    BY DEF MethodHosts
  <2>7. DiscoverersUpToDate'
    BY <2>3, <2>4, <2>6
  <2> QED
    BY <2>1, <2>2, <2>5, <2>7
<1>4. ASSUME NEW c \in Conns, Disconnect(c) PROVE IInv'
  <2> USE <1>4 DEF Disconnect, OfflineNotify, DeleteProvider, DeleteDiscoverer
  <2>1. providers' = providers /\ known' = known
    OBVIOUS
  <2>2. TypeOK'
    BY <2>1
  <2>3. DiscoverersIndexed' /\ LiveProviderListed' /\ WatchersRegistered'
    BY <2>1
  <2>4. DiscoverersUpToDate'
    BY <2>1 DEF MethodHosts
  <2> QED
    BY <2>2, <2>3, <2>4
<1>5. CASE UNCHANGED vars
  BY <1>5 DEF vars, MethodHosts
<1> HIDE DEF IInv
<1> QED
  BY <1>1, <1>2, <1>3, <1>4, <1>5 DEF Next

LEMMA IInvAlways == Spec => []IInv
BY InitIInv, IInvStep, PTL DEF Spec

\* The tables and what the clients know keep their types.
THEOREM TypeCorrect == Spec => []TypeOK
BY IInvAlways, PTL DEF IInv

\* The two indexes of discoverers agree and name no closed connection.
THEOREM DiscoverersAlwaysIndexed == Spec => []DiscoverersIndexed
BY IInvAlways, PTL DEF IInv

\* No disconnection unlists the service of another, live connection.
THEOREM LiveProviderAlwaysListed == Spec => []LiveProviderListed
BY IInvAlways, PTL DEF IInv

\* Answers and notifications together tell a client all a new discovery would.
THEOREM DiscoverersAlwaysUpToDate == Spec => []DiscoverersUpToDate
BY IInvAlways, PTL DEF IInv

-----------------------------------------------------------------------------
(* The registry implements the directory.                                   *)

\* The relations of the abstract state, as the tables hold them.
Listed == {p \in Conns \X Methods : p[1] \in providers[p[2]]}
Watches == {w \in Conns \X Methods : w[1] \in discoverers[w[2]]}

\* The listing of the directory is what methodHosts() returns.
LEMMA ListingIsMethodHosts ==
  TypeOK => \A m \in Methods : Abstract!Listing(m) = MethodHosts(m)
<1> SUFFICES ASSUME TypeOK, NEW m \in Methods
             PROVE  Abstract!Listing(m) = MethodHosts(m)
  OBVIOUS
<1>1. \A c \in Conns : <<c, m>> \in Listed <=> c \in providers[m]
  BY DEF Listed
<1>2. providers[m] \subseteq Conns
  BY DEF TypeOK
<1>3. \A c \in Conns : AccessAddr[c] \in Hosts
  BY AddressAssumption
<1> QED
  BY <1>1, <1>2, <1>3 DEF Listed, Abstract!Listing, MethodHosts

\* Inform describes what the answer and the notifications of one step have told
\* the clients: those who watch know the listing, the others what they knew.
LEMMA InformStep ==
  ASSUME TypeOK', DiscoverersUpToDate', WatchersRegistered',
         known' \in [Conns -> [Methods -> SUBSET Hosts]],
         \A c \in Conns, m \in Methods :
           c \notin discoverers'[m] => known'[c][m] = known[c][m]
  PROVE  Abstract!Inform
<1>0. (\A m \in Methods : Abstract!Listing(m) = MethodHosts(m))'
  BY ListingIsMethodHosts, PTL
<1>1. \A m \in Methods : Abstract!Listing(m)' = MethodHosts(m)'
  BY <1>0
<1>2. \A c \in Conns, m \in Methods : <<c, m>> \in Watches' <=> c \in discoverers'[m]
  BY DEF Watches
<1>3. \A c \in Conns, m \in Methods :
        c \in discoverers'[m] => known'[c][m] = MethodHosts(m)'
  BY DEF DiscoverersUpToDate, WatchersRegistered
<1>4. known' = [c \in Conns |-> [m \in Methods |-> known'[c][m]]]
  OBVIOUS
<1>5. \A c \in Conns, m \in Methods :
        known'[c][m] = IF <<c, m>> \in Watches' THEN Abstract!Listing(m)' ELSE known[c][m]
  BY <1>1, <1>2, <1>3
<1> QED
  BY <1>4, <1>5 DEF Watches, Abstract!Inform

LEMMA DirectoryInit == Init => Abstract!Init
BY DEF Init, Abstract!Init

LEMMA DirectoryStep ==
  IInv /\ IInv' /\ [Next]_vars => [Abstract!Next]_Abstract!directoryVars
<1> SUFFICES ASSUME IInv, IInv', [Next]_vars
             PROVE  [Abstract!Next]_Abstract!directoryVars
  OBVIOUS
<1> USE DEF connVars, provVars, discVars, auxVars
<1>0. /\ TypeOK /\ DiscoverersIndexed /\ WatchersRegistered
      /\ TypeOK' /\ DiscoverersUpToDate' /\ WatchersRegistered'
      /\ known' \in [Conns -> [Methods -> SUBSET Hosts]]
  BY DEF IInv, TypeOK
<1>1. ASSUME NEW c \in Conns, Connect(c) PROVE Abstract!Come(c)
  BY <1>1 DEF Connect, Abstract!Come
<1>2. ASSUME NEW c \in Conns, NEW m \in Methods, Register(c, m) PROVE Abstract!Offer(c, m)
  <2>1. \A d \in Conns, n \in Methods :
          d \in providers'[n] <=> d \in providers[n] \/ <<d, n>> = <<c, m>>
    BY <1>0, <1>2 DEF Register, AddProvider, TypeOK
  <2>2. Listed' = Listed \cup {<<c, m>>}
    BY <2>1 DEF Listed
  <2>3. \A d \in Conns, n \in Methods :
          d \notin discoverers'[n] => known'[d][n] = known[d][n]
    BY <1>0, <1>2 DEF Register, OnlineNotify, TypeOK
  <2>4. Abstract!Inform
    BY <1>0, <2>3, InformStep
  <2> QED
    BY <1>2, <2>2, <2>4 DEF Register, Listed, Abstract!Offer
<1>3. ASSUME NEW c \in Conns, NEW m \in Methods, Discover(c, m) PROVE Abstract!Watch(c, m)
  <2>1. \A d \in Conns, n \in Methods :
          d \in discoverers'[n] <=> d \in discoverers[n] \/ <<d, n>> = <<c, m>>
    BY <1>0, <1>3 DEF Discover, AddDiscoverer, TypeOK
  <2>2. Watches' = Watches \cup {<<c, m>>}
    BY <2>1 DEF Watches
  <2>3. \A d \in Conns, n \in Methods :
          <<d, n>> # <<c, m>> => known'[d][n] = known[d][n]
    BY <1>0, <1>3 DEF Discover, TypeOK
  <2>4. \A d \in Conns, n \in Methods :
          d \notin discoverers'[n] => known'[d][n] = known[d][n]
    BY <2>1, <2>3
  <2>5. Abstract!Inform
    BY <1>0, <2>4, InformStep
  <2> QED
    BY <1>3, <2>2, <2>5 DEF Discover, Watches, Abstract!Watch
<1>4. ASSUME NEW c \in Conns, Disconnect(c) PROVE Abstract!Leave(c)
  <2>1. \A d \in Conns, n \in Methods :
          d \in discoverers'[n] <=> d \in discoverers[n] /\ d # c
    BY <1>0, <1>4 DEF Disconnect, DeleteDiscoverer, TypeOK, DiscoverersIndexed
  <2>2. Watches' = {w \in Watches : w[1] # c}
    BY <2>1 DEF Watches
  <2> DEFINE gone == IF c \in provConns THEN provMethods[c] ELSE {}
  <2>3. gone \in SUBSET Methods
    BY <1>0 DEF TypeOK
  <2>4. \A d \in Conns, n \in Methods :
          d \in providers'[n] <=> d \in providers[n] /\ ~(d = c /\ n \in gone)
    BY <1>0, <1>4 DEF Disconnect, DeleteProvider, TypeOK
  <2>5. Listed' = Listed \ ({c} \X gone)
    BY <2>4 DEF Listed
  <2>6. \A d \in Conns, n \in Methods :
          d \notin discoverers'[n] => known'[d][n] = known[d][n]
    BY <1>0, <1>4, <2>1 DEF Disconnect, OfflineNotify, TypeOK, WatchersRegistered
  <2>7. Abstract!Inform
    BY <1>0, <2>6, InformStep
  <2> HIDE DEF gone
  <2> QED
    BY <1>4, <2>2, <2>3, <2>5, <2>7 DEF Disconnect, Listed, Watches, Abstract!Leave
<1>5. CASE UNCHANGED vars
  BY <1>5 DEF vars, Abstract!directoryVars
<1> QED
  BY <1>1, <1>2, <1>3, <1>4, <1>5 DEF Next, Abstract!Next

\* What clients see of the registry is one relation of offers and one of watches,
\* and a listing of which every watcher has been told after every step.
THEOREM RegistryImplementsDirectory == Spec => ImplementsDirectory
<1>1. IInv /\ IInv' /\ [Next]_vars => [Abstract!Next]_Abstract!directoryVars
  BY DirectoryStep
<1> QED
  BY <1>1, DirectoryInit, IInvAlways, PTL DEF Spec, Abstract!Spec, ImplementsDirectory
=============================================================================
