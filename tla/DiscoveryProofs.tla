--------------------------- MODULE DiscoveryProofs ---------------------------
(* Proofs about Discovery, for any calls, services, hosts and providers.    *)
EXTENDS Discovery, FiniteSetTheorems, TLAPS

IInv ==
  /\ TypeOK
  /\ OneChooses
  /\ ChannelTruthful
  /\ HostsOffered
  /\ ClientsOfHosts

\* A listing is a bag, and counts only hosts of providers that are listed.
LEMMA ListingTruthful ==
  ASSUME TypeOK, NEW m \in Methods
  PROVE  /\ Listing(m) \in Bag
         /\ \A h \in Hosts : Listing(m)[h] > 0 => Offered(m, h)
<1> DEFINE At(h) == {p \in listed : Service[p] = m /\ AccessAddr[p] = h}
<1>1. \A h \in Hosts : IsFiniteSet(At(h))
  BY DiscoveryAssumption, FS_Subset DEF TypeOK
<1>2. \A h \in Hosts : Cardinality(At(h)) \in Nat
  BY <1>1, FS_CardinalityType
<1>3. \A h \in Hosts : Cardinality(At(h)) > 0 => At(h) # {}
  BY FS_EmptySet
<1>4. \A h \in Hosts : Listing(m)[h] = Cardinality(At(h))
  BY DEF Listing, Copies
<1>5. Listing(m) \in Bag
  BY <1>2 DEF Listing, Copies, Bag
<1>6. \A h \in Hosts : At(h) # {} => Offered(m, h)
  BY DEF Offered
<1> QED
  BY <1>3, <1>4, <1>5, <1>6

LEMMA InitIInv == Init => IInv
<1> SUFFICES ASSUME Init PROVE IInv
  OBVIOUS
<1> USE DEF Init
<1>1. NoHosts \in Bag
  BY DEF NoHosts, Bag
<1>2. TypeOK
  BY <1>1 DEF TypeOK
<1>3. \A m \in Methods, h \in Hosts : ~(hosts[m][h] > 0)
  BY DEF NoHosts
<1>4. OneChooses /\ ChannelTruthful /\ HostsOffered /\ ClientsOfHosts
  BY <1>3 DEF OneChooses, ChannelTruthful, HostsOffered, ClientsOfHosts
<1> QED
  BY <1>2, <1>4 DEF IInv

-----------------------------------------------------------------------------
(* The registry.                                                           *)

\* What was offered stays offered.
LEMMA OfferedStays ==
  ASSUME NEW m, NEW h, Offered(m, h), listed \cup left \subseteq listed' \cup left'
  PROVE  Offered(m, h)'
BY DEF Offered

\* A message that is truthful stays so.
LEMMA TruthfulStays ==
  ASSUME NEW msg, Truthful(msg), method' = method,
         listed \cup left \subseteq listed' \cup left'
  PROVE  Truthful(msg)'
BY OfferedStays DEF Truthful

\* Messages appended to the channel must be of the channel's type and truthful.
LEMMA AppendTruthful ==
  ASSUME TypeOK, ChannelTruthful, NEW msg \in Notifications \cup Answers,
         channel' = Append(channel, msg), method' = method,
         listed \cup left \subseteq listed' \cup left', Truthful(msg)'
  PROVE  /\ channel' \in Seq(Notifications \cup Answers)
         /\ ChannelTruthful'
<1>1. channel \in Seq(Notifications \cup Answers)
  BY DEF TypeOK
<1>2. channel' \in Seq(Notifications \cup Answers)
  BY <1>1
<1>3. ASSUME NEW i \in 1 .. Len(channel') PROVE Truthful(channel[i])'
  <2>1. CASE i = Len(channel) + 1
    <3>1. channel'[i] = msg
      BY <1>1, <2>1
    <3> QED
      BY <3>1 DEF Truthful
  <2>2. CASE i # Len(channel) + 1
    <3>1. i \in 1 .. Len(channel) /\ channel'[i] = channel[i]
      BY <1>1, <2>2
    <3>2. Truthful(channel[i])
      BY <3>1 DEF ChannelTruthful
    <3> DEFINE x == channel[i]
    <3>3. ASSUME NEW y, y = channel[i] PROVE Truthful(y)'
      BY <3>2, <3>3, TruthfulStays
    <3> QED
      BY <3>1, <3>3 DEF Truthful
  <2> QED
    BY <2>1, <2>2
<1> QED
  BY <1>2, <1>3 DEF ChannelTruthful

\* So do the messages of a channel that nothing, or the first one, has left.
LEMMA ChannelStays ==
  ASSUME TypeOK, ChannelTruthful, UNCHANGED <<channel, method>>,
         listed \cup left \subseteq listed' \cup left'
  PROVE  ChannelTruthful'
<1>1. ASSUME NEW i \in 1 .. Len(channel'), NEW y, y = channel[i] PROVE Truthful(y)'
  BY <1>1, TruthfulStays DEF ChannelTruthful
<1>2. ASSUME NEW i \in 1 .. Len(channel') PROVE Truthful(channel[i])'
  BY <1>1 DEF Truthful
<1> QED
  BY <1>2 DEF ChannelTruthful

LEMMA HeadTruthful ==
  ASSUME TypeOK, ChannelTruthful, channel # <<>>,
         channel' = Tail(channel), UNCHANGED <<method, listed, left>>
  PROVE  /\ Head(channel) \in Notifications \cup Answers
         /\ Truthful(Head(channel))
         /\ channel' \in Seq(Notifications \cup Answers)
         /\ ChannelTruthful'
<1>1. channel \in Seq(Notifications \cup Answers)
  BY DEF TypeOK
<1>2. /\ Head(channel) = channel[1]
      /\ 1 \in 1 .. Len(channel)
      /\ channel[1] \in Notifications \cup Answers
      /\ channel' \in Seq(Notifications \cup Answers)
  BY <1>1
<1>3. ASSUME NEW i \in 1 .. Len(channel') PROVE Truthful(channel[i])'
  <2>1. channel'[i] = channel[i + 1] /\ i + 1 \in 1 .. Len(channel)
    BY <1>1
  <2>2. ASSUME NEW y, y = channel[i + 1] PROVE Truthful(y)'
    BY <2>1, <2>2, TruthfulStays DEF ChannelTruthful
  <2> QED
    BY <2>1, <2>2 DEF Truthful
<1> QED
  BY <1>2, <1>3 DEF ChannelTruthful

LEMMA RegistryStep ==
  ASSUME IInv, NEW p \in Providers, Announce(p) \/ Withdraw(p)
  PROVE  IInv'
<1> USE DEF Announce, Withdraw, callVars, cacheVars, poolVars
<1>1. listed \cup left \subseteq listed' \cup left'
  OBVIOUS
<1>2. PICK kind \in {"online", "offline"} : Notify(kind, p)
  OBVIOUS
<1>3. p \in listed' \cup left'
  OBVIOUS
<1> DEFINE msg == [kind |-> kind, method |-> Service[p], host |-> AccessAddr[p]]
<1>4. msg \in Notifications /\ Truthful(msg)'
  BY <1>3, DiscoveryAssumption DEF Notifications, Truthful, Offered
<1>5. channel' \in Seq(Notifications \cup Answers) /\ ChannelTruthful'
  <2>1. CASE Service[p] \in watched
    <3>1. channel' = Append(channel, msg)
      BY <1>2, <2>1 DEF Notify
    <3> HIDE DEF msg
    <3> QED
      BY <1>1, <1>4, <3>1, AppendTruthful DEF IInv
  <2>2. CASE Service[p] \notin watched
    BY <1>1, <1>2, <2>2, ChannelStays DEF IInv, Notify, TypeOK
  <2> QED
    BY <2>1, <2>2
<1>6. TypeOK'
  <2>1. /\ listed' \subseteq Providers /\ left' \subseteq Providers
        /\ UNCHANGED <<watched, link, asking, callVars, cacheVars, poolVars, auxVars>>
    BY DEF IInv, TypeOK
  <2>2. repeats' \in [Methods -> Bag]
    <3>1. repeats \in [Methods -> Bag] /\ Service[p] \in Methods /\ AccessAddr[p] \in Hosts
      BY DiscoveryAssumption DEF IInv, TypeOK
    <3>2. \/ UNCHANGED repeats
          \/ repeats' = [repeats EXCEPT ![Service[p]][AccessAddr[p]] = @ + 1]
      OBVIOUS
    <3> QED
      BY <3>1, <3>2 DEF Bag
  <2> HIDE DEF Announce, Withdraw
  <2> QED
    BY <1>5, <2>1, <2>2 DEF IInv, TypeOK, auxVars
<1>7. HostsOffered'
  BY <1>1, OfferedStays DEF IInv, HostsOffered
<1>8. OneChooses' /\ ClientsOfHosts'
  BY DEF IInv, OneChooses, ClientsOfHosts
<1> QED
  BY <1>5, <1>6, <1>7, <1>8 DEF IInv

LEMMA AnswerStep ==
  ASSUME IInv, NEW c \in Calls, Answer(c)
  PROVE  IInv'
<1> USE DEF Answer, callVars, cacheVars, poolVars
<1> DEFINE msg == [kind |-> "answer", call |-> c, hosts |-> Listing(method[c])]
<1>1. method[c] \in Methods
  BY DEF IInv, TypeOK
<1>2. Listing(method[c]) \in Bag
  BY <1>1, ListingTruthful DEF IInv
<1>3. msg \in Answers
  BY <1>2 DEF Answers
<1>4. \A h \in Hosts : Listing(method[c])[h] > 0 => Offered(method[c], h)
  BY <1>1, ListingTruthful DEF IInv
<1>5. Truthful(msg)
  BY <1>4 DEF Truthful
<1>6. channel' \in Seq(Notifications \cup Answers) /\ ChannelTruthful'
  <2>1. ASSUME NEW y, y = msg PROVE Truthful(y)'
    BY <1>5, <2>1, TruthfulStays
  <2>2. ASSUME NEW y, y = msg PROVE y \in Notifications \cup Answers
    BY <1>3, <2>2
  <2>3. PICK y : y = msg
    OBVIOUS
  <2>4. channel' = Append(channel, y) /\ method' = method
        /\ listed \cup left \subseteq listed' \cup left'
    BY <2>3
  <2> HIDE DEF msg
  <2> QED
    BY <2>1, <2>2, <2>3, <2>4, AppendTruthful DEF IInv
<1>7. TypeOK'
  BY <1>1, <1>6 DEF IInv, TypeOK, auxVars
<1>8. HostsOffered'
  BY DEF IInv, HostsOffered, Offered
<1>9. OneChooses' /\ ClientsOfHosts'
  BY DEF IInv, OneChooses, ClientsOfHosts
<1> QED
  BY <1>6, <1>7, <1>8, <1>9 DEF IInv

-----------------------------------------------------------------------------
(* The thread of a call.                                                   *)

\* A step of a call that leaves the registry, the channel, the answers and the
\* cache alone preserves what is said of them.
LEMMA OnlyCallMoves ==
  ASSUME IInv, UNCHANGED <<listed, left, channel, method, reply, hosts>>
  PROVE  /\ ChannelTruthful'
         /\ \A m, h : Offered(m, h)' <=> Offered(m, h)
<1>1. ChannelTruthful'
  BY ChannelStays DEF IInv
<1> QED
  BY <1>1 DEF Offered

LEMMA LookupStep ==
  ASSUME IInv, NEW c \in Calls, Lookup(c)
  PROVE  IInv'
<1> USE DEF Lookup, Move, registryVars, netVars, poolVars, auxVars
<1>1. ChannelTruthful' /\ (\A m, h : Offered(m, h)' <=> Offered(m, h))
  BY OnlyCallMoves
<1>2. TypeOK'
  BY DEF IInv, TypeOK
<1>3. OneChooses'
  BY DiscoveryAssumption DEF IInv, TypeOK, OneChooses
<1>4. HostsOffered' /\ ClientsOfHosts'
  BY <1>1 DEF IInv, TypeOK, HostsOffered, ClientsOfHosts
<1> QED
  BY <1>1, <1>2, <1>3, <1>4 DEF IInv

LEMMA ChooseStep ==
  ASSUME IInv, NEW c \in Calls, Choose(c)
  PROVE  IInv'
<1> USE DEF Choose, Move, registryVars, netVars, poolVars, auxVars
<1>1. ChannelTruthful' /\ (\A m, h : Offered(m, h)' <=> Offered(m, h))
  BY OnlyCallMoves
<1>2. TypeOK'
  BY DEF IInv, TypeOK
<1>3. OneChooses'
  BY DiscoveryAssumption DEF IInv, TypeOK, OneChooses
<1>4. PICK h \in Hosts : hosts[method[c]][h] > 0 /\ host' = [host EXCEPT ![c] = h]
  OBVIOUS
<1>5. method[c] \in Methods /\ Offered(method[c], h)
  BY <1>4 DEF IInv, TypeOK, HostsOffered
<1>6. HostsOffered'
  BY <1>1, <1>4, <1>5 DEF IInv, TypeOK, HostsOffered
<1>7. ClientsOfHosts'
  BY <1>4 DEF IInv, TypeOK, ClientsOfHosts
<1> QED
  BY <1>1, <1>2, <1>3, <1>6, <1>7 DEF IInv

LEMMA AskStep ==
  ASSUME IInv, NEW c \in Calls, Ask(c) \/ NullConnection(c) \/ NotFound(c)
  PROVE  IInv'
<1> USE DEF Ask, NullConnection, NotFound, Move, callVars, registryVars, netVars, cacheVars, poolVars, auxVars
<1>1. ChannelTruthful' /\ (\A m, h : Offered(m, h)' <=> Offered(m, h))
  BY OnlyCallMoves
<1>2. TypeOK'
  BY DEF IInv, TypeOK
<1>3. OneChooses' /\ HostsOffered' /\ ClientsOfHosts'
  BY <1>1 DEF IInv, TypeOK, OneChooses, HostsOffered, ClientsOfHosts
<1> QED
  BY <1>1, <1>2, <1>3 DEF IInv

LEMMA InstallStep ==
  ASSUME IInv, NEW c \in Calls, Install(c)
  PROVE  IInv'
<1> USE DEF Install, Move, registryVars, netVars, poolVars
<1>1. /\ ChannelTruthful'
      /\ \A m, h : Offered(m, h)' <=> Offered(m, h)
  BY ChannelStays DEF IInv, Offered
<1>2. reply[c] \in Bag /\ method[c] \in Methods
  BY DEF IInv, TypeOK
<1>3. TypeOK'
  BY <1>2 DEF IInv, TypeOK
<1>4. OneChooses'
  BY DiscoveryAssumption DEF IInv, TypeOK, OneChooses
<1>5. PICK h \in Hosts : reply[c][h] > 0 /\ host' = [host EXCEPT ![c] = h]
  OBVIOUS
<1>6. \A g \in Hosts : reply[c][g] > 0 => Offered(method[c], g)
  BY <1>2 DEF IInv, HostsOffered
<1>7. HostsOffered'
  <2>1. \A m \in Methods, g \in Hosts : hosts'[m][g] > 0 => Offered(m, g)
    BY <1>2, <1>6 DEF IInv, TypeOK, HostsOffered
  <2>2. \A d \in Calls : pc'[d] \in {"chosen", "connecting", "ready"} =>
                         host'[d] \in Hosts /\ Offered(method[d], host'[d])
    BY <1>5, <1>6 DEF IInv, TypeOK, HostsOffered
  <2> QED
    BY <1>1, <2>1, <2>2 DEF IInv, HostsOffered
<1>8. ClientsOfHosts'
  BY <1>5 DEF IInv, TypeOK, ClientsOfHosts
<1> QED
  BY <1>1, <1>3, <1>4, <1>7, <1>8 DEF IInv

LEMMA ClientStep ==
  ASSUME IInv, NEW c \in Calls, GetClient(c) \/ PutClient(c)
  PROVE  IInv'
<1> USE DEF GetClient, PutClient, Move, registryVars, netVars, cacheVars, auxVars
<1>1. ChannelTruthful' /\ (\A m, h : Offered(m, h)' <=> Offered(m, h))
  BY OnlyCallMoves
<1>2. host[c] \in Hosts /\ pc[c] \in {"chosen", "connecting"}
  BY DEF IInv, HostsOffered
<1>3. TypeOK'
  <2>1. TypeOK
    BY DEF IInv
  <2>2. CASE GetClient(c)
    BY <1>2, <2>1, <2>2 DEF TypeOK
  <2>3. CASE PutClient(c)
    BY <1>2, <2>1, <2>3 DEF TypeOK
  <2> QED
    BY <2>2, <2>3
<1>4. OneChooses' /\ HostsOffered'
  BY <1>1, <1>2 DEF IInv, TypeOK, OneChooses, HostsOffered
<1>5. ClientsOfHosts'
  <2>1. CASE GetClient(c)
    BY <1>2, <2>1 DEF IInv, TypeOK, ClientsOfHosts
  <2>2. CASE PutClient(c)
    BY <1>2, <2>2 DEF IInv, TypeOK, ClientsOfHosts
  <2> QED
    BY <2>1, <2>2
<1> QED
  BY <1>1, <1>3, <1>4, <1>5 DEF IInv

-----------------------------------------------------------------------------
(* The loop thread.                                                        *)

LEMMA OnAnswerStep ==
  ASSUME IInv, OnAnswer
  PROVE  IInv'
<1> USE DEF OnAnswer, registryVars, cacheVars, poolVars
<1> DEFINE c == Head(channel).call
           bag == Head(channel).hosts
<1>1. /\ Head(channel) \in Notifications \cup Answers
      /\ Truthful(Head(channel))
      /\ channel' \in Seq(Notifications \cup Answers)
      /\ ChannelTruthful'
  BY HeadTruthful DEF IInv
<1>2. c \in Calls /\ bag \in Bag
  BY <1>1 DEF Notifications, Answers
<1>3. \A h \in Hosts : bag[h] > 0 => Offered(method[c], h)
  BY <1>1 DEF Truthful
<1>4. reply' = [reply EXCEPT ![c] = bag] /\ coherent' \subseteq coherent \cup {method[c]}
  OBVIOUS
<1>5. UNCHANGED <<listed, left, watched, repeats, link, asking, pc, method, host, cached,
                  hosts, lock, pool, client, overtaken>>
  OBVIOUS
<1> HIDE DEF OnAnswer, c, bag
<1>6. TypeOK'
  BY <1>1, <1>2, <1>4, <1>5 DEF IInv, TypeOK
<1>7. HostsOffered'
  BY <1>2, <1>3, <1>4, <1>5 DEF IInv, TypeOK, HostsOffered, Offered
<1>8. OneChooses' /\ ClientsOfHosts'
  BY <1>5 DEF IInv, OneChooses, ClientsOfHosts
<1> QED
  BY <1>1, <1>6, <1>7, <1>8 DEF IInv

LEMMA OnOnlineStep ==
  ASSUME IInv, OnOnline
  PROVE  IInv'
<1> USE DEF OnOnline, registryVars, callVars, poolVars
<1> DEFINE m == Head(channel).method
           h == Head(channel).host
<1>1. /\ Head(channel) \in Notifications \cup Answers
      /\ Truthful(Head(channel))
      /\ channel' \in Seq(Notifications \cup Answers)
      /\ ChannelTruthful'
  BY HeadTruthful DEF IInv
<1>2. m \in Methods /\ h \in Hosts
  BY <1>1 DEF Notifications, Answers
<1>3. Offered(m, h)
  BY <1>1 DEF Truthful
<1>4. /\ cached' = cached \cup {m}
      /\ hosts' = [hosts EXCEPT ![m][h] = @ + 1]
      /\ overtaken' \subseteq Calls
  BY DEF Overtake, IInv, TypeOK
<1>5. lock = None
      /\ UNCHANGED <<listed, left, watched, repeats, link, asking, pc, method, reply, host,
                     lock, pool, client, coherent>>
  OBVIOUS
<1> HIDE DEF OnOnline, m, h
<1>6. hosts' \in [Methods -> Bag]
  BY <1>2, <1>4 DEF IInv, TypeOK, Bag
<1>7. TypeOK'
  BY <1>1, <1>2, <1>4, <1>5, <1>6 DEF IInv, TypeOK
<1>8. \A n \in Methods, g \in Hosts : hosts'[n][g] > 0 => Offered(n, g)
  BY <1>2, <1>3, <1>4 DEF IInv, TypeOK, Bag, HostsOffered
<1>9. HostsOffered'
  BY <1>5, <1>8 DEF IInv, HostsOffered, Offered
<1>10. OneChooses' /\ ClientsOfHosts'
  BY <1>5, DiscoveryAssumption DEF IInv, OneChooses, ClientsOfHosts
<1> QED
  BY <1>1, <1>7, <1>9, <1>10 DEF IInv

LEMMA OnOfflineStep ==
  ASSUME IInv, OnOffline
  PROVE  IInv'
<1> USE DEF OnOffline, registryVars, callVars
<1> DEFINE m == Head(channel).method
           h == Head(channel).host
<1>1. /\ Head(channel) \in Notifications \cup Answers
      /\ Truthful(Head(channel))
      /\ channel' \in Seq(Notifications \cup Answers)
      /\ ChannelTruthful'
  BY HeadTruthful DEF IInv
<1>2. m \in Methods /\ h \in Hosts
  BY <1>1 DEF Notifications, Answers
<1>3. /\ hosts' = IF hosts[m][h] > 0 THEN [hosts EXCEPT ![m][h] = @ - 1] ELSE hosts
      /\ pool' = IF m \in cached THEN [pool EXCEPT ![h] = None] ELSE pool
      /\ overtaken' \subseteq Calls
  BY DEF Overtake, IInv, TypeOK
<1>4. lock = None
      /\ UNCHANGED <<listed, left, watched, repeats, link, asking, pc, method, reply, host,
                     cached, lock, client, coherent>>
  OBVIOUS
<1> HIDE DEF OnOffline, m, h
<1>5. hosts' \in [Methods -> Bag]
  BY <1>2, <1>3 DEF IInv, TypeOK, Bag
<1>6. TypeOK'
  BY <1>1, <1>2, <1>3, <1>4, <1>5 DEF IInv, TypeOK
<1>7. \A n \in Methods, g \in Hosts : hosts'[n][g] > 0 => hosts[n][g] > 0
  BY <1>2, <1>3 DEF IInv, TypeOK, Bag
<1>8. HostsOffered'
  BY <1>4, <1>7 DEF IInv, HostsOffered, Offered
<1>9. OneChooses' /\ ClientsOfHosts'
  BY <1>2, <1>3, <1>4, DiscoveryAssumption DEF IInv, TypeOK, OneChooses, ClientsOfHosts
<1> QED
  BY <1>1, <1>6, <1>8, <1>9 DEF IInv

LEMMA LostStep ==
  ASSUME IInv, ConnectionLost
  PROVE  IInv'
<1> USE DEF ConnectionLost, callVars, cacheVars, poolVars
<1>1. \A m, h : Offered(m, h)' <=> Offered(m, h)
  BY DEF Offered
<1>2. TypeOK'
  BY DEF IInv, TypeOK
<1>3. ChannelTruthful'
  BY DEF ChannelTruthful
<1>4. OneChooses' /\ HostsOffered' /\ ClientsOfHosts'
  BY <1>1 DEF IInv, OneChooses, HostsOffered, ClientsOfHosts
<1> QED
  BY <1>2, <1>3, <1>4 DEF IInv

-----------------------------------------------------------------------------

LEMMA IInvStep == IInv /\ [Next]_vars => IInv'
<1> SUFFICES ASSUME IInv, [Next]_vars PROVE IInv'
  OBVIOUS
<1>1. CASE \E p \in Providers : Announce(p) \/ Withdraw(p)
  BY <1>1, RegistryStep
<1>2. ASSUME NEW c \in Calls, Answer(c) \/ Discover(c) \/ GetClient(c) \/ PutClient(c)
      PROVE  IInv'
  BY <1>2, AnswerStep, LookupStep, ChooseStep, AskStep, InstallStep, ClientStep
     DEF Discover
<1>3. CASE LoopStep
  BY <1>3, OnAnswerStep, OnOnlineStep, OnOfflineStep DEF LoopStep
<1>4. CASE UNCHANGED vars
  <2> USE <1>4 DEF vars, registryVars, netVars, callVars, cacheVars, poolVars, auxVars
  <2>1. ChannelTruthful' /\ (\A m, h : Offered(m, h)' <=> Offered(m, h))
    BY OnlyCallMoves
  <2>2. TypeOK'
    BY DEF IInv, TypeOK
  <2>3. OneChooses' /\ HostsOffered' /\ ClientsOfHosts'
    BY <2>1 DEF IInv, OneChooses, HostsOffered, ClientsOfHosts
  <2> QED
    BY <2>1, <2>2, <2>3 DEF IInv
<1>5. CASE ConnectionLost
  BY <1>5, LostStep
<1> QED
  BY <1>1, <1>2, <1>3, <1>4, <1>5 DEF Next

LEMMA IInvAlways == Spec => []IInv
BY InitIInv, IInvStep, PTL DEF Spec

\* The cache, the answers and the messages keep their types.
THEOREM TypeCorrect == Spec => []TypeOK
BY IInvAlways, PTL DEF IInv

\* chooseHost never divides by zero.
THEOREM AlwaysChooseFromSome == Spec => []ChooseFromSome
<1>1. IInv => ChooseFromSome
  BY DEF IInv, OneChooses, ChooseFromSome
<1> QED
  BY <1>1, IInvAlways, PTL

\* A call only ever goes to a host that has registered its service.
THEOREM CallAlwaysGoesToProvider == Spec => []CallGoesToProvider
<1>1. IInv => CallGoesToProvider
  BY DEF IInv, HostsOffered, ClientsOfHosts, CallGoesToProvider
<1> QED
  BY <1>1, IInvAlways, PTL

\* A pooled client is replaced by no other.
THEOREM PooledClientAlwaysStays == Spec => PooledClientStays
<1> DEFINE Stays == \A h \in Hosts : pool[h] # None => pool'[h] \in {pool[h], None}
<1>1. IInv /\ [Next]_vars => [Stays]_vars
  <2> SUFFICES ASSUME IInv, Next PROVE Stays
    OBVIOUS
  <2>1. ASSUME NEW p \in Providers, Announce(p) \/ Withdraw(p) PROVE Stays
    BY <2>1 DEF Announce, Withdraw, poolVars
  <2>2. ASSUME NEW c \in Calls, Answer(c) \/ Discover(c) PROVE Stays
    BY <2>2 DEF Answer, Discover, Lookup, Choose, Ask, NullConnection, NotFound, Install,
                poolVars
  <2>3. ASSUME NEW c \in Calls, GetClient(c) \/ PutClient(c) PROVE Stays
    BY <2>3 DEF GetClient, PutClient, IInv, TypeOK, HostsOffered, Move
  <2>4. CASE LoopStep
    BY <2>4 DEF LoopStep, OnAnswer, OnOnline, OnOffline, poolVars, IInv, TypeOK
  <2>5. CASE ConnectionLost
    BY <2>5 DEF ConnectionLost, poolVars
  <2> QED
    BY <2>1, <2>2, <2>3, <2>4, <2>5 DEF Next
<1> QED
  BY <1>1, IInvAlways, PTL DEF Spec, PooledClientStays

-----------------------------------------------------------------------------
(* Requests and answers: one of the two, once, for every call that waits.  *)

WInv == IInv /\ AnsweredOnce /\ WaitersServed

\* An answer for c on its way counts h.
Carries(c, h) == \E i \in 1 .. Len(channel) : AnswerTo(i, c) /\ channel[i].hosts[h] > 0

OneAnswer(c) ==
  \A i, j \in 1 .. Len(channel) : AnswerTo(i, c) /\ AnswerTo(j, c) => i = j

\* What a longer channel holds.
LEMMA Longer ==
  ASSUME TypeOK, NEW msg, channel' = Append(channel, msg)
  PROVE  \E n \in Nat : /\ Len(channel) = n /\ Len(channel') = n + 1
                        /\ channel'[n + 1] = msg
                        /\ \A i \in 1 .. n : channel'[i] = channel[i]
<1>1. channel \in Seq(Notifications \cup Answers)
  BY DEF TypeOK
<1>2. /\ Len(channel) \in Nat /\ Len(channel') = Len(channel) + 1
      /\ channel'[Len(channel) + 1] = msg
      /\ \A i \in 1 .. Len(channel) : channel'[i] = channel[i]
  BY <1>1
<1> QED
  BY <1>2

\* What a channel holds whose first message was taken.
LEMMA Shorter ==
  ASSUME TypeOK, channel # <<>>, channel' = Tail(channel)
  PROVE  \E n \in Nat : /\ Len(channel) = n + 1 /\ Len(channel') = n
                        /\ Head(channel) = channel[1]
                        /\ \A i \in 1 .. n : channel'[i] = channel[i + 1]
<1>1. channel \in Seq(Notifications \cup Answers)
  BY DEF TypeOK
<1>2. /\ Len(channel) \in Nat /\ Len(channel) # 0 /\ Len(channel') = Len(channel) - 1
      /\ Head(channel) = channel[1]
      /\ \A i \in 1 .. Len(channel) - 1 : channel'[i] = channel[i + 1]
  BY <1>1
<1>3. \A k \in Nat \ {0} : k - 1 \in Nat /\ k = (k - 1) + 1
  OBVIOUS
<1>4. PICK n \in Nat : Len(channel) = n + 1
  BY <1>2, <1>3
<1> QED
  BY <1>2, <1>4

\* A notification at the end or at the head changes nothing for who waits.
LEMMA NoteAppended ==
  ASSUME TypeOK, NEW msg, msg.kind # "answer", channel' = Append(channel, msg), NEW c
  PROVE  /\ OnItsWay(c)' <=> OnItsWay(c)
         /\ \A h : Carries(c, h)' <=> Carries(c, h)
         /\ OneAnswer(c) => OneAnswer(c)'
<1>1. PICK n \in Nat : /\ Len(channel) = n /\ Len(channel') = n + 1
                       /\ channel'[n + 1] = msg
                       /\ \A i \in 1 .. n : channel'[i] = channel[i]
  BY Longer
<1>2. \A i \in 1 .. n + 1 : AnswerTo(i, c)' <=> i \in 1 .. n /\ AnswerTo(i, c)
  BY <1>1 DEF AnswerTo
<1>3. OnItsWay(c)' <=> OnItsWay(c)
  BY <1>1, <1>2 DEF OnItsWay
<1>4. \A h : Carries(c, h)' <=> Carries(c, h)
  BY <1>1, <1>2 DEF Carries
<1>5. OneAnswer(c) => OneAnswer(c)'
  BY <1>1, <1>2 DEF OneAnswer
<1> QED
  BY <1>3, <1>4, <1>5

LEMMA NoteTaken ==
  ASSUME TypeOK, channel # <<>>, Head(channel).kind # "answer", channel' = Tail(channel), NEW c
  PROVE  /\ OnItsWay(c)' <=> OnItsWay(c)
         /\ \A h : Carries(c, h)' <=> Carries(c, h)
         /\ OneAnswer(c) => OneAnswer(c)'
<1>1. PICK n \in Nat : /\ Len(channel) = n + 1 /\ Len(channel') = n
                       /\ Head(channel) = channel[1]
                       /\ \A i \in 1 .. n : channel'[i] = channel[i + 1]
  BY Shorter
<1>2. \A i \in 1 .. n : AnswerTo(i, c)' <=> AnswerTo(i + 1, c)
  BY <1>1 DEF AnswerTo
<1>3. \A i \in 1 .. n + 1 : AnswerTo(i, c) => i - 1 \in 1 .. n /\ i = (i - 1) + 1
  BY <1>1 DEF AnswerTo
<1>4. OnItsWay(c)' <=> OnItsWay(c)
  <2>1. OnItsWay(c)' => OnItsWay(c)
    BY <1>1, <1>2 DEF OnItsWay
  <2>2. ASSUME OnItsWay(c) PROVE OnItsWay(c)'
    <3>1. PICK i \in 1 .. n + 1 : AnswerTo(i, c)
      BY <1>1, <2>2 DEF OnItsWay
    <3>2. i - 1 \in 1 .. n /\ i = (i - 1) + 1
      BY <1>3, <3>1
    <3>3. AnswerTo(i - 1, c)'
      BY <1>2, <3>1, <3>2
    <3> QED
      BY <1>1, <3>2, <3>3 DEF OnItsWay
  <2> QED
    BY <2>1, <2>2
<1>5. \A h : Carries(c, h)' <=> Carries(c, h)
  <2> SUFFICES ASSUME NEW h PROVE Carries(c, h)' <=> Carries(c, h)
    OBVIOUS
  <2>1. Carries(c, h)' => Carries(c, h)
    BY <1>1, <1>2 DEF Carries
  <2>2. ASSUME Carries(c, h) PROVE Carries(c, h)'
    <3>1. PICK i \in 1 .. n + 1 : AnswerTo(i, c) /\ channel[i].hosts[h] > 0
      BY <1>1, <2>2 DEF Carries
    <3>2. PICK k \in 1 .. n : i = k + 1
      BY <1>3, <3>1
    <3>3. AnswerTo(k, c)' /\ channel'[k].hosts[h] > 0
      BY <1>1, <1>2, <3>1, <3>2
    <3> QED
      BY <1>1, <3>3 DEF Carries
  <2> QED
    BY <2>1, <2>2
<1>6. OneAnswer(c) => OneAnswer(c)'
  BY <1>1, <1>2 DEF OneAnswer
<1> QED
  BY <1>4, <1>5, <1>6

\* An answer at the end is on its way to the call it is for, and to no other.
LEMMA AnswerAppended ==
  ASSUME TypeOK, NEW d, NEW bag,
         channel' = Append(channel, [kind |-> "answer", call |-> d, hosts |-> bag]), NEW c
  PROVE  /\ OnItsWay(c)' <=> OnItsWay(c) \/ c = d
         /\ \A h : Carries(c, h)' <=> Carries(c, h) \/ (c = d /\ bag[h] > 0)
         /\ OneAnswer(c) /\ (c = d => ~OnItsWay(c)) => OneAnswer(c)'
<1> DEFINE msg == [kind |-> "answer", call |-> d, hosts |-> bag]
<1>1. PICK n \in Nat : /\ Len(channel) = n /\ Len(channel') = n + 1
                       /\ channel'[n + 1] = msg
                       /\ \A i \in 1 .. n : channel'[i] = channel[i]
  <2>1. channel' = Append(channel, msg)
    OBVIOUS
  <2> HIDE DEF msg
  <2> QED
    BY <2>1, Longer
<1>2. /\ \A i \in 1 .. n : AnswerTo(i, c)' <=> AnswerTo(i, c)
      /\ AnswerTo(n + 1, c)' <=> c = d
      /\ \A i \in 1 .. n + 1 : i \in 1 .. n \/ i = n + 1
  BY <1>1 DEF AnswerTo
<1>3. channel'[n + 1].hosts = bag
  BY <1>1
<1> HIDE DEF msg
<1>4. OnItsWay(c)' <=> OnItsWay(c) \/ c = d
  BY <1>1, <1>2 DEF OnItsWay
<1>5. \A h : Carries(c, h)' <=> Carries(c, h) \/ (c = d /\ bag[h] > 0)
  BY <1>1, <1>2, <1>3 DEF Carries
<1>6. OneAnswer(c) /\ (c = d => ~OnItsWay(c)) => OneAnswer(c)'
  BY <1>1, <1>2 DEF OneAnswer, OnItsWay
<1> QED
  BY <1>4, <1>5, <1>6

\* The answer that is taken was the only one for its call.
LEMMA AnswerTaken ==
  ASSUME TypeOK, channel # <<>>, Head(channel).kind = "answer", channel' = Tail(channel),
         NEW c, OneAnswer(c)
  PROVE  /\ OnItsWay(c)' <=> OnItsWay(c) /\ c # Head(channel).call
         /\ \A h : Carries(c, h)' <=> Carries(c, h) /\ c # Head(channel).call
         /\ c = Head(channel).call =>
              OnItsWay(c) /\ \A h : Carries(c, h) <=> Head(channel).hosts[h] > 0
         /\ OneAnswer(c)'
<1>1. PICK n \in Nat : /\ Len(channel) = n + 1 /\ Len(channel') = n
                       /\ Head(channel) = channel[1]
                       /\ \A i \in 1 .. n : channel'[i] = channel[i + 1]
  BY Shorter
<1>2. \A i \in 1 .. n : AnswerTo(i, c)' <=> AnswerTo(i + 1, c)
  BY <1>1 DEF AnswerTo
<1>3. AnswerTo(1, c) <=> c = Head(channel).call
  BY <1>1 DEF AnswerTo
<1>4. \A i, j \in 1 .. n + 1 : AnswerTo(i, c) /\ AnswerTo(j, c) => i = j
  BY <1>1 DEF OneAnswer
<1>5. /\ \A i \in 1 .. n : i + 1 \in 1 .. n + 1 /\ i + 1 # 1
      /\ \A i \in 1 .. n + 1 : i = 1 \/ (i - 1 \in 1 .. n /\ i = (i - 1) + 1)
      /\ 1 \in 1 .. n + 1
  OBVIOUS
<1>6. CASE c = Head(channel).call
  <2>1. \A i \in 1 .. n + 1 : AnswerTo(i, c) <=> i = 1
    BY <1>3, <1>4, <1>5, <1>6
  <2>2. ~OnItsWay(c)' /\ OneAnswer(c)' /\ \A h : ~Carries(c, h)'
    BY <1>1, <1>2, <1>5, <2>1 DEF OnItsWay, Carries, OneAnswer
  <2>3. OnItsWay(c) /\ \A h : Carries(c, h) <=> Head(channel).hosts[h] > 0
    BY <1>1, <1>5, <2>1 DEF OnItsWay, Carries
  <2> QED
    BY <1>6, <2>2, <2>3
<1>7. CASE c # Head(channel).call
  <2>1. ~AnswerTo(1, c)
    BY <1>3, <1>7
  <2>5. ASSUME NEW i \in 1 .. n + 1, AnswerTo(i, c)
        PROVE  i - 1 \in 1 .. n /\ channel'[i - 1] = channel[i] /\ AnswerTo(i - 1, c)'
    <3>1. i - 1 \in 1 .. n /\ i = (i - 1) + 1
      BY <1>5, <2>1, <2>5
    <3>2. PICK k \in 1 .. n : k = i - 1
      BY <3>1
    <3>3. channel'[k] = channel[k + 1] /\ k + 1 = i
      BY <1>1, <3>1, <3>2
    <3>4. AnswerTo(k, c)'
      BY <1>2, <2>5, <3>3
    <3> QED
      BY <3>2, <3>3, <3>4
  <2>2. OnItsWay(c)' <=> OnItsWay(c)
    <3>1. OnItsWay(c)' => OnItsWay(c)
      BY <1>1, <1>2, <1>5 DEF OnItsWay
    <3>2. OnItsWay(c) => OnItsWay(c)'
      BY <1>1, <2>5 DEF OnItsWay
    <3> QED
      BY <3>1, <3>2
  <2>3. \A h : Carries(c, h)' <=> Carries(c, h)
    <3> SUFFICES ASSUME NEW h PROVE Carries(c, h)' <=> Carries(c, h)
      OBVIOUS
    <3>1. Carries(c, h)' => Carries(c, h)
      BY <1>1, <1>2, <1>5 DEF Carries
    <3>2. Carries(c, h) => Carries(c, h)'
      BY <1>1, <2>5 DEF Carries
    <3> QED
      BY <3>1, <3>2
  <2>4. OneAnswer(c)'
    BY <1>1, <1>2, <1>4, <1>5 DEF OneAnswer
  <2> QED
    BY <1>7, <2>2, <2>3, <2>4
<1> QED
  BY <1>6, <1>7

\* A step that asks nothing and brings no answer.
LEMMA WaitersKept ==
  ASSUME WInv,
         \A c \in Calls : /\ OnItsWay(c)' <=> OnItsWay(c)
                          /\ OneAnswer(c) => OneAnswer(c)'
                          /\ pc'[c] = "waiting" <=> pc[c] = "waiting"
                          /\ Unasked(c)' => Unasked(c),
         UNCHANGED <<asking, reply>>,
         link' = "up" => link = "up",
         lock' # None => pc'[lock'] = "choose"
  PROVE  AnsweredOnce' /\ WaitersServed'
<1>1. AnsweredOnce'
  <2>1. AnsweredOnce /\ asking \subseteq Calls
    BY DEF WInv, IInv, TypeOK
  <2> QED
    BY <2>1 DEF AnsweredOnce, OneAnswer
<1>2. WaitersServed'
  BY DEF WInv, WaitersServed
<1> QED
  BY <1>1, <1>2

\* The channel and the calls of a step that leaves them alone.
LEMMA ChannelKept ==
  ASSUME UNCHANGED channel, NEW c
  PROVE  /\ OnItsWay(c)' <=> OnItsWay(c)
         /\ \A h : Carries(c, h)' <=> Carries(c, h)
         /\ OneAnswer(c) => OneAnswer(c)'
BY DEF OnItsWay, Carries, OneAnswer, AnswerTo

LEMMA NotifyKeeps ==
  ASSUME TypeOK, NEW p, NEW kind \in {"online", "offline"}, Notify(kind, p), NEW c
  PROVE  /\ OnItsWay(c)' <=> OnItsWay(c)
         /\ \A h : Carries(c, h)' <=> Carries(c, h)
         /\ OneAnswer(c) => OneAnswer(c)'
<1> DEFINE msg == [kind |-> kind, method |-> Service[p], host |-> AccessAddr[p]]
<1>1. CASE Service[p] \in watched
  <2>1. channel' = Append(channel, msg) /\ msg.kind # "answer"
    BY <1>1 DEF Notify
  <2> HIDE DEF msg
  <2> QED
    BY <2>1, NoteAppended
<1>2. CASE Service[p] \notin watched
  BY <1>2, ChannelKept DEF Notify
<1> QED
  BY <1>1, <1>2

LEMMA RegistryServes ==
  ASSUME WInv, NEW p \in Providers, Announce(p) \/ Withdraw(p)
  PROVE  AnsweredOnce' /\ WaitersServed'
<1>1. PICK kind \in {"online", "offline"} : Notify(kind, p)
  BY DEF Announce, Withdraw
<1>2. UNCHANGED <<asking, pc, reply, lock, link>>
  BY DEF Announce, Withdraw, callVars, cacheVars
<1>3. TypeOK /\ (lock # None => pc[lock] = "choose")
  BY DEF WInv, IInv, WaitersServed
<1>4. \A c \in Calls : OnItsWay(c)' <=> OnItsWay(c)
  BY <1>1, <1>3, NotifyKeeps
<1>5. \A c \in Calls : OneAnswer(c) => OneAnswer(c)'
  BY <1>1, <1>3, NotifyKeeps
<1>6. \A c \in Calls : Unasked(c)' => Unasked(c)
  BY <1>2 DEF Unasked
<1> QED
  BY <1>2, <1>3, <1>4, <1>5, <1>6, WaitersKept

LEMMA CallServes ==
  ASSUME WInv, NEW c \in Calls, Lookup(c) \/ Choose(c) \/ GetClient(c) \/ PutClient(c)
  PROVE  AnsweredOnce' /\ WaitersServed'
<1>1. UNCHANGED <<asking, reply, channel, link>>
  BY DEF Lookup, Choose, GetClient, PutClient, netVars, cacheVars, registryVars
<1>2. /\ pc \in [Calls -> {"idle", "choose", "ask", "null", "waiting", "failed",
                           "chosen", "connecting", "ready"}]
      /\ lock \in Calls \cup {None}
      /\ lock # None => pc[lock] = "choose"
  BY DEF WInv, IInv, TypeOK, WaitersServed
<1>3. \A d \in Calls : /\ pc'[d] = "waiting" <=> pc[d] = "waiting"
                       /\ Unasked(d)' => Unasked(d)
  BY <1>2 DEF Lookup, Choose, GetClient, PutClient, Move, Unasked
<1>4. lock' # None => pc'[lock'] = "choose"
  BY <1>2, DiscoveryAssumption DEF Lookup, Choose, GetClient, PutClient, Move, cacheVars
<1>5. \A d \in Calls : OnItsWay(d)' <=> OnItsWay(d)
  BY <1>1, ChannelKept
<1>6. \A d \in Calls : OneAnswer(d) => OneAnswer(d)'
  BY <1>1, ChannelKept
<1> QED
  BY <1>1, <1>3, <1>4, <1>5, <1>6, WaitersKept

\* A call stops waiting when its promise is set: nothing is on its way to it.
LEMMA EndServes ==
  ASSUME WInv, NEW c \in Calls, NotFound(c) \/ Install(c)
  PROVE  AnsweredOnce' /\ WaitersServed'
<1>1. /\ UNCHANGED <<asking, reply, channel, lock, link>>
      /\ pc[c] = "waiting" /\ reply[c] # None
  <2>1. NoHosts # None
    BY DiscoveryAssumption DEF NoHosts, Bag
  <2> QED
    BY <2>1 DEF NotFound, Install, Move, netVars, cacheVars
<1>2. PICK to \in {"failed", "chosen"} : pc' = [pc EXCEPT ![c] = to]
  BY DEF NotFound, Install, Move
<1>3. pc \in [Calls -> {"idle", "choose", "ask", "null", "waiting", "failed",
                        "chosen", "connecting", "ready"}] /\ asking \subseteq Calls
  BY DEF WInv, IInv, TypeOK
<1>4. AnsweredOnce /\ WaitersServed
  BY DEF WInv
<1>5. \A d \in Calls : (OnItsWay(d)' <=> OnItsWay(d)) /\ (OneAnswer(d) => OneAnswer(d)')
  BY <1>1, ChannelKept
<1>6. c \notin asking /\ ~OnItsWay(c)
  BY <1>1, <1>4 DEF AnsweredOnce
<1>7. \A d \in Calls \ {c} : pc'[d] = pc[d]
  BY <1>2, <1>3
<1>8. pc'[c] = to
  BY <1>2, <1>3
<1>9. AnsweredOnce'
  <2>1. \A d \in asking' : pc'[d] = "waiting" /\ reply'[d] = None
    BY <1>1, <1>3, <1>4, <1>6, <1>7 DEF AnsweredOnce
  <2>2. \A d \in Calls : OnItsWay(d)' => pc'[d] = "waiting" /\ reply'[d] = None /\ d \notin asking'
    BY <1>1, <1>4, <1>5, <1>6, <1>7 DEF AnsweredOnce
  <2>3. \A d \in Calls : OneAnswer(d)'
    BY <1>4, <1>5 DEF AnsweredOnce, OneAnswer
  <2>4. \A d \in Calls : Unasked(d)' => reply'[d] = None
    BY <1>1, <1>4, <1>7, <1>8 DEF AnsweredOnce, Unasked
  <2> QED
    BY <2>1, <2>2, <2>3, <2>4 DEF AnsweredOnce, OneAnswer
<1>10. WaitersServed'
  <2>1. \A d \in Calls : pc'[d] = "waiting" => d # c
    BY <1>8
  <2>2. \A d \in Calls : pc'[d] = "waiting" /\ link' = "up" =>
                           d \in asking' \/ OnItsWay(d)' \/ reply'[d] # None
    BY <1>1, <1>4, <1>5, <1>7, <2>1 DEF WaitersServed
  <2>3. lock' # None => pc'[lock'] = "choose"
    BY <1>1, <1>2, <1>3, <1>4 DEF WaitersServed
  <2> QED
    BY <2>2, <2>3 DEF WaitersServed
<1> QED
  BY <1>9, <1>10

LEMMA AskServes ==
  ASSUME WInv, NEW c \in Calls, Ask(c)
  PROVE  AnsweredOnce' /\ WaitersServed'
<1>1. /\ UNCHANGED <<reply, channel, lock, link>>
      /\ asking' \subseteq asking \cup {c} /\ asking \subseteq asking'
      /\ link = "up" => c \in asking'
      /\ pc[c] = "ask" /\ pc' = [pc EXCEPT ![c] = "waiting"]
  BY DEF Ask, Move, cacheVars
<1>2. pc \in [Calls -> {"idle", "choose", "ask", "null", "waiting", "failed",
                        "chosen", "connecting", "ready"}] /\ asking \subseteq Calls
  BY DEF WInv, IInv, TypeOK
<1>3. AnsweredOnce /\ WaitersServed
  BY DEF WInv
<1>4. \A d \in Calls : (OnItsWay(d)' <=> OnItsWay(d)) /\ (OneAnswer(d) => OneAnswer(d)')
  BY <1>1, ChannelKept
<1>5. c \notin asking /\ ~OnItsWay(c) /\ reply[c] = None
  BY <1>1, <1>3 DEF AnsweredOnce, Unasked
<1>6. pc'[c] = "waiting" /\ \A d \in Calls \ {c} : pc'[d] = pc[d]
  BY <1>1, <1>2
<1>7. AnsweredOnce'
  <2>1. \A d \in asking' : pc'[d] = "waiting" /\ reply'[d] = None
    BY <1>1, <1>2, <1>3, <1>5, <1>6 DEF AnsweredOnce
  <2>2. \A d \in Calls : OnItsWay(d)' => pc'[d] = "waiting" /\ reply'[d] = None /\ d \notin asking'
    BY <1>1, <1>3, <1>4, <1>5, <1>6 DEF AnsweredOnce
  <2>3. \A d \in Calls : OneAnswer(d)'
    BY <1>3, <1>4 DEF AnsweredOnce, OneAnswer
  <2>4. \A d \in Calls : Unasked(d)' => reply'[d] = None
    BY <1>1, <1>3, <1>5, <1>6 DEF AnsweredOnce, Unasked
  <2> QED
    BY <2>1, <2>2, <2>3, <2>4 DEF AnsweredOnce, OneAnswer
<1>8. WaitersServed'
  <2>1. \A d \in Calls : pc'[d] = "waiting" /\ link' = "up" =>
                           d \in asking' \/ OnItsWay(d)' \/ reply'[d] # None
    BY <1>1, <1>3, <1>4, <1>6 DEF WaitersServed
  <2>2. lock' # None => pc'[lock'] = "choose"
    BY <1>1, <1>2, <1>3, <1>6 DEF WaitersServed
  <2> QED
    BY <2>1, <2>2 DEF WaitersServed
<1> QED
  BY <1>7, <1>8

LEMMA AnswerServes ==
  ASSUME WInv, NEW c \in Calls, Answer(c)
  PROVE  AnsweredOnce' /\ WaitersServed'
<1>1. /\ UNCHANGED <<reply, pc, lock, link>>
      /\ c \in asking /\ asking' = asking \ {c}
  BY DEF Answer, callVars, cacheVars
<1>2. PICK bag : channel' = Append(channel, [kind |-> "answer", call |-> c, hosts |-> bag])
  BY DEF Answer
<1>3. TypeOK /\ AnsweredOnce /\ WaitersServed
  BY DEF WInv, IInv
<1>4. /\ \A d \in Calls : OnItsWay(d)' <=> OnItsWay(d) \/ d = c
      /\ \A d \in Calls : OneAnswer(d) /\ (d = c => ~OnItsWay(d)) => OneAnswer(d)'
  BY <1>2, <1>3, AnswerAppended
<1>5. ~OnItsWay(c) /\ pc[c] = "waiting" /\ reply[c] = None
  BY <1>1, <1>3 DEF AnsweredOnce
<1>6. AnsweredOnce'
  <2>1. \A d \in Calls : OneAnswer(d)'
    BY <1>3, <1>4, <1>5 DEF AnsweredOnce, OneAnswer
  <2>2. \A d \in Calls : OnItsWay(d)' => pc'[d] = "waiting" /\ reply'[d] = None /\ d \notin asking'
    BY <1>1, <1>3, <1>4, <1>5 DEF AnsweredOnce
  <2>3. /\ \A d \in asking' : pc'[d] = "waiting" /\ reply'[d] = None
        /\ \A d \in Calls : Unasked(d)' => reply'[d] = None
    BY <1>1, <1>3 DEF AnsweredOnce, Unasked
  <2> QED
    BY <2>1, <2>2, <2>3 DEF AnsweredOnce, OneAnswer
<1>7. WaitersServed'
  BY <1>1, <1>3, <1>4 DEF WaitersServed
<1> QED
  BY <1>6, <1>7

LEMMA LoopServes ==
  ASSUME WInv, LoopStep
  PROVE  AnsweredOnce' /\ WaitersServed'
<1>1. /\ channel # <<>> /\ channel' = Tail(channel)
      /\ UNCHANGED <<asking, pc, lock, link>>
  BY DEF LoopStep, OnAnswer, OnOnline, OnOffline, callVars, cacheVars
<1>2. TypeOK /\ AnsweredOnce /\ WaitersServed /\ ChannelTruthful
  BY DEF WInv, IInv
<1>3. CASE OnAnswer
  <2> DEFINE msg == Head(channel)
  <2>1. msg.kind = "answer" /\ reply' = [reply EXCEPT ![msg.call] = msg.hosts]
    BY <1>3 DEF OnAnswer
  <2>2. msg.call \in Calls /\ msg.hosts # None
    <3>1. msg \in Notifications \cup Answers
      BY <1>1, <1>2 DEF TypeOK
    <3> HIDE DEF msg
    <3>2. msg \in Answers
      BY <2>1, <3>1 DEF Notifications
    <3> QED
      BY <3>2, DiscoveryAssumption DEF Answers
  <2> DEFINE a == msg.call
  <2>3. ASSUME NEW d \in Calls
        PROVE  /\ OnItsWay(d)' <=> OnItsWay(d) /\ d # a
               /\ d = a => OnItsWay(d)
               /\ OneAnswer(d)'
    <3>1. OneAnswer(d)
      BY <1>2 DEF AnsweredOnce, OneAnswer
    <3> QED
      BY <1>1, <1>2, <2>1, <3>1, AnswerTaken
  <2>4. PICK b : b = msg.hosts
    OBVIOUS
  <2>5. reply' = [reply EXCEPT ![a] = b] /\ b # None /\ a \in Calls
    BY <2>1, <2>2, <2>4
  <2> HIDE DEF a, msg
  <2>6. /\ reply \in [Calls -> Bag \cup {None}]
        /\ OnItsWay(a) /\ pc[a] = "waiting" /\ a \notin asking /\ asking \subseteq Calls
    BY <1>2, <2>3, <2>5 DEF AnsweredOnce, TypeOK
  <2>7. reply'[a] # None /\ \A d \in Calls \ {a} : reply'[d] = reply[d]
    BY <2>5, <2>6
  <2>8. AnsweredOnce'
    <3>1. \A d \in asking' : pc'[d] = "waiting" /\ reply'[d] = None
      BY <1>1, <1>2, <2>6, <2>7 DEF AnsweredOnce
    <3>2. \A d \in Calls : OnItsWay(d)' => pc'[d] = "waiting" /\ reply'[d] = None /\ d \notin asking'
      BY <1>1, <1>2, <2>3, <2>7 DEF AnsweredOnce
    <3>3. \A d \in Calls : Unasked(d)' => reply'[d] = None
      BY <1>1, <1>2, <2>6, <2>7 DEF AnsweredOnce, Unasked
    <3> QED
      BY <2>3, <3>1, <3>2, <3>3 DEF AnsweredOnce, OneAnswer
  <2>9. WaitersServed'
    BY <1>1, <1>2, <2>3, <2>7 DEF WaitersServed
  <2> QED
    BY <2>8, <2>9
<1>4. CASE OnOnline \/ OnOffline
  <2>1. Head(channel).kind # "answer" /\ UNCHANGED reply
    BY <1>4 DEF OnOnline, OnOffline, callVars
  <2>2. \A d \in Calls : OnItsWay(d)' <=> OnItsWay(d)
    BY <1>1, <1>2, <2>1, NoteTaken
  <2>3. \A d \in Calls : OneAnswer(d) => OneAnswer(d)'
    BY <1>1, <1>2, <2>1, NoteTaken
  <2>4. \A d \in Calls : Unasked(d)' => Unasked(d)
    BY <1>1 DEF Unasked
  <2>5. lock' # None => pc'[lock'] = "choose"
    BY <1>1, <1>2 DEF WaitersServed
  <2> QED
    BY <1>1, <2>1, <2>2, <2>3, <2>4, <2>5, WaitersKept
<1> QED
  BY <1>3, <1>4 DEF LoopStep

\* The process dies, or what was on its way is lost: nothing is asked or answered.
LEMMA NullServes ==
  ASSUME WInv, NEW c \in Calls, NullConnection(c)
  PROVE  AnsweredOnce' /\ WaitersServed'
<1>1. UNCHANGED <<asking, channel, pc, reply, lock>> /\ link' # "up"
  BY DEF NullConnection, callVars, cacheVars
<1>2. \A d \in Calls : (OnItsWay(d)' <=> OnItsWay(d)) /\ (OneAnswer(d) => OneAnswer(d)')
  BY <1>1, ChannelKept
<1>3. \A d \in Calls : Unasked(d)' => Unasked(d)
  BY <1>1 DEF Unasked
<1>4. lock' # None => pc'[lock'] = "choose"
  BY <1>1 DEF WInv, WaitersServed
<1> QED
  BY <1>1, <1>2, <1>3, <1>4, WaitersKept

LEMMA NothingOnItsWay ==
  ASSUME channel' = <<>>, NEW c
  PROVE  ~OnItsWay(c)' /\ (\A h : ~Carries(c, h)') /\ OneAnswer(c)'
BY DEF OnItsWay, Carries, OneAnswer

LEMMA LostServes ==
  ASSUME WInv, ConnectionLost
  PROVE  AnsweredOnce' /\ WaitersServed'
<1>1. /\ UNCHANGED <<pc, reply, lock>>
      /\ asking' = {} /\ channel' = <<>> /\ link' # "up"
  BY DEF ConnectionLost, callVars, cacheVars
<1>2. \A d \in Calls : ~OnItsWay(d)' /\ OneAnswer(d)'
  BY <1>1, NothingOnItsWay
<1>3. AnsweredOnce /\ WaitersServed
  BY DEF WInv
<1>4. AnsweredOnce'
  BY <1>1, <1>2, <1>3 DEF AnsweredOnce, OneAnswer, Unasked
<1>5. WaitersServed'
  BY <1>1, <1>3 DEF WaitersServed
<1> QED
  BY <1>4, <1>5

LEMMA WInvStep == WInv /\ [Next]_vars => WInv'
<1> SUFFICES ASSUME WInv, [Next]_vars PROVE WInv'
  OBVIOUS
<1>1. IInv'
  BY IInvStep DEF WInv
<1>2. AnsweredOnce' /\ WaitersServed'
  <2>1. ASSUME NEW p \in Providers, Announce(p) \/ Withdraw(p)
        PROVE  AnsweredOnce' /\ WaitersServed'
    BY <2>1, RegistryServes
  <2>2. ASSUME NEW c \in Calls, Answer(c) \/ Discover(c) \/ GetClient(c) \/ PutClient(c)
        PROVE  AnsweredOnce' /\ WaitersServed'
    BY <2>2, AnswerServes, CallServes, AskServes, NullServes, EndServes DEF Discover
  <2>3. CASE UNCHANGED vars
    <3>1. UNCHANGED <<asking, reply, channel, pc, lock, link>>
      BY <2>3 DEF vars, netVars, callVars, cacheVars
    <3>2. \A d \in Calls : (OnItsWay(d)' <=> OnItsWay(d)) /\ (OneAnswer(d) => OneAnswer(d)')
      BY <3>1, ChannelKept
    <3>3. \A d \in Calls : Unasked(d)' => Unasked(d)
      BY <3>1 DEF Unasked
    <3>4. lock' # None => pc'[lock'] = "choose"
      BY <3>1 DEF WInv, WaitersServed
    <3> QED
      BY <3>1, <3>2, <3>3, <3>4, WaitersKept
  <2> QED
    BY <2>1, <2>2, <2>3, LoopServes, LostServes DEF Next
<1> QED
  BY <1>1, <1>2 DEF WInv

LEMMA InitWInv == Init => WInv
<1> SUFFICES ASSUME Init PROVE WInv
  OBVIOUS
<1>1. \A c \in Calls : ~OnItsWay(c)
  BY DEF Init, OnItsWay
<1>2. AnsweredOnce
  BY <1>1 DEF Init, AnsweredOnce, OnItsWay
<1>3. WaitersServed
  BY DEF Init, WaitersServed
<1> QED
  BY <1>2, <1>3, InitIInv DEF WInv

\* Nobody waits in vain while the connection to the registry lasts: every call that
\* waits for an answer has its request or the answer on the way or the promise set;
\* and the mutex of the Discoverer is held, whatever became of the connection, only
\* by a call that is about to release it.
THEOREM WaitersAlwaysServed == Spec => []WaitersServed
<1>1. WInv => WaitersServed
  BY DEF WInv
<1> QED
  BY <1>1, InitWInv, WInvStep, PTL DEF Spec

-----------------------------------------------------------------------------
(* The discovery implements Resolver.  Stages, Sees, Offers and Current are  *)
(* the variables of Resolver as functions of this module's.                  *)

Stages == [c \in Calls |-> Stage(c)]

Sees == [c \in Calls |-> Seen(c)]

Offers == {o \in Methods \X Hosts : Offered(o[1], o[2])}

Current == {o \in Methods \X Hosts : Copies(o[1], o[2]) > 0}

\* An address is in a list when a provider at it is.
LEMMA SomeListed ==
  ASSUME NEW S \in SUBSET Providers, NEW m, NEW h
  PROVE  Cardinality({p \in S : Service[p] = m /\ AccessAddr[p] = h}) > 0
           <=> \E p \in S : Service[p] = m /\ AccessAddr[p] = h
<1> DEFINE At == {p \in S : Service[p] = m /\ AccessAddr[p] = h}
<1>1. IsFiniteSet(At)
  BY DiscoveryAssumption, FS_Subset
<1>2. Cardinality(At) \in Nat /\ (Cardinality(At) = 0 <=> At = {})
  BY <1>1, FS_CardinalityType, FS_EmptySet
<1>3. Cardinality(At) > 0 <=> At # {}
  BY <1>2
<1> QED
  BY <1>3

LEMMA CurrentIs ==
  ASSUME TypeOK, TypeOK'
  PROVE  /\ \A m, h : Copies(m, h) > 0
                        <=> \E p \in listed : Service[p] = m /\ AccessAddr[p] = h
         /\ \A m, h : Copies(m, h)' > 0
                        <=> \E p \in listed' : Service[p] = m /\ AccessAddr[p] = h
<1>1. listed \in SUBSET Providers /\ listed' \in SUBSET Providers
  BY DEF TypeOK
<1> QED
  BY <1>1, SomeListed DEF Copies

LEMMA AnnounceOffers ==
  ASSUME TypeOK, TypeOK', NEW p \in Providers, Announce(p)
  PROVE  /\ Offers' = Offers \cup {<<Service[p], AccessAddr[p]>>}
         /\ Current' = Current \cup {<<Service[p], AccessAddr[p]>>}
<1>1. /\ listed' = listed \cup {p} /\ left' = left
      /\ <<Service[p], AccessAddr[p]>> \in Methods \X Hosts
  BY DiscoveryAssumption DEF Announce
<1>2. \A m, h : Offered(m, h)' <=> Offered(m, h) \/ (Service[p] = m /\ AccessAddr[p] = h)
  BY <1>1 DEF Offered
<1>3. \A m, h : Copies(m, h)' > 0
                  <=> Copies(m, h) > 0 \/ (Service[p] = m /\ AccessAddr[p] = h)
  BY <1>1, CurrentIs
<1>4. \A o \in Methods \X Hosts :
        (Service[p] = o[1] /\ AccessAddr[p] = o[2]) <=> o = <<Service[p], AccessAddr[p]>>
  OBVIOUS
<1>5. Offers' = Offers \cup {<<Service[p], AccessAddr[p]>>}
  BY <1>1, <1>2, <1>4 DEF Offers
<1>6. Current' = Current \cup {<<Service[p], AccessAddr[p]>>}
  BY <1>1, <1>3, <1>4 DEF Current
<1> QED
  BY <1>5, <1>6

\* The address is offered on if another provider of the service has it too.
LEMMA WithdrawEnds ==
  ASSUME TypeOK, TypeOK', NEW p \in Providers, Withdraw(p)
  PROVE  /\ Offers' = Offers
         /\ \/ Current' = Current
            \/ Current' = Current \ {<<Service[p], AccessAddr[p]>>}
<1>1. /\ p \in listed /\ listed' = listed \ {p} /\ left' = left \cup {p}
      /\ <<Service[p], AccessAddr[p]>> \in Methods \X Hosts
  BY DiscoveryAssumption DEF Withdraw
<1>2. \A m, h : Offered(m, h)' <=> Offered(m, h)
  BY <1>1 DEF Offered
<1>3. ASSUME NEW m, NEW h, ~(Service[p] = m /\ AccessAddr[p] = h)
      PROVE  Copies(m, h)' > 0 <=> Copies(m, h) > 0
  BY <1>1, <1>3, CurrentIs
<1>4. \A o \in Methods \X Hosts :
        (Service[p] = o[1] /\ AccessAddr[p] = o[2]) <=> o = <<Service[p], AccessAddr[p]>>
  OBVIOUS
<1>5. ASSUME NEW o \in Methods \X Hosts, o # <<Service[p], AccessAddr[p]>>
      PROVE  o \in Current' <=> o \in Current
  BY <1>3, <1>4, <1>5 DEF Current
<1>6. Offers' = Offers
  BY <1>2 DEF Offers
<1>7. Current' \subseteq Methods \X Hosts /\ Current \subseteq Methods \X Hosts
  BY DEF Current
<1>8. <<Service[p], AccessAddr[p]>> \in Current
  BY <1>1, CurrentIs DEF Current
<1>9. CASE <<Service[p], AccessAddr[p]>> \in Current'
  BY <1>5, <1>6, <1>7, <1>8, <1>9
<1>10. CASE <<Service[p], AccessAddr[p]>> \notin Current'
  BY <1>5, <1>6, <1>7, <1>8, <1>10
<1> QED
  BY <1>9, <1>10

\* A step that leaves the lists alone.
LEMMA ListsKept ==
  ASSUME UNCHANGED <<listed, left>>
  PROVE  Offers' = Offers /\ Current' = Current
<1>1. \A m, h : (Offered(m, h)' <=> Offered(m, h)) /\ Copies(m, h)' = Copies(m, h)
  BY DEF Offered, Copies
<1> QED
  BY <1>1 DEF Offers, Current

\* Seen in terms of Carries.
LEMMA SeenIs ==
  ASSUME NEW c
  PROVE  /\ Seen(c) = {h \in Hosts : (reply[c] # None /\ reply[c][h] > 0) \/ Carries(c, h)}
         /\ Seen(c)' = {h \in Hosts : (reply'[c] # None /\ reply'[c][h] > 0) \/ Carries(c, h)'}
BY DEF Seen, Carries

LEMMA SeenKept ==
  ASSUME NEW c, reply'[c] = reply[c], \A h : Carries(c, h)' <=> Carries(c, h)
  PROVE  Seen(c)' = Seen(c)
BY SeenIs

\* A step that a call takes no part in.
LEMMA CallKept ==
  ASSUME NEW c, reply'[c] = reply[c], pc'[c] = pc[c],
         OnItsWay(c)' <=> OnItsWay(c), \A h : Carries(c, h)' <=> Carries(c, h)
  PROVE  Stage(c)' = Stage(c) /\ Seen(c)' = Seen(c)
BY SeenKept DEF Stage, Unasked

LEMMA RegistryStutters ==
  ASSUME WInv, NEW p \in Providers, Announce(p) \/ Withdraw(p)
  PROVE  Stages' = Stages /\ Sees' = Sees /\ UNCHANGED <<method, host>>
<1>1. PICK kind \in {"online", "offline"} : Notify(kind, p)
  BY DEF Announce, Withdraw
<1>2. UNCHANGED <<pc, reply, method, host>>
  BY DEF Announce, Withdraw, callVars
<1>3. TypeOK
  BY DEF WInv, IInv
<1>4. \A c \in Calls : Stage(c)' = Stage(c) /\ Seen(c)' = Seen(c)
  <2> SUFFICES ASSUME NEW c \in Calls PROVE Stage(c)' = Stage(c) /\ Seen(c)' = Seen(c)
    OBVIOUS
  <2>1. (OnItsWay(c)' <=> OnItsWay(c)) /\ \A h : Carries(c, h)' <=> Carries(c, h)
    BY <1>1, <1>3, NotifyKeeps
  <2> QED
    BY <1>2, <2>1, CallKept
<1> QED
  BY <1>2, <1>4 DEF Stages, Sees

\* A step of a call that leaves the channel and the promises alone changes no
\* stage but its own.
LEMMA OwnStep ==
  ASSUME WInv, NEW c \in Calls, NEW to, Move(c, pc[c], to), UNCHANGED <<channel, reply>>,
         to \in {"choose", "ask", "null", "waiting", "failed", "chosen", "connecting", "ready"}
  PROVE  /\ Sees' = Sees
         /\ pc'[c] = to
         /\ \A d \in Calls \ {c} : Stage(d)' = Stage(d)
         /\ Stage(c)' = Stage(c) => Stages' = Stages
         /\ \A s : Stage(c)' = s => Stages' = [Stages EXCEPT ![c] = s]
<1>1. /\ pc' = [pc EXCEPT ![c] = to]
      /\ pc \in [Calls -> {"idle", "choose", "ask", "null", "waiting", "failed",
                           "chosen", "connecting", "ready"}]
  BY DEF Move, WInv, IInv, TypeOK
<1>2. pc'[c] = to /\ \A d \in Calls \ {c} : pc'[d] = pc[d]
  BY <1>1
<1>3. \A d \in Calls : (OnItsWay(d)' <=> OnItsWay(d)) /\ \A h : Carries(d, h)' <=> Carries(d, h)
  BY ChannelKept
<1>4. \A d \in Calls : Seen(d)' = Seen(d)
  BY <1>3, SeenKept
<1>5. \A d \in Calls \ {c} : Stage(d)' = Stage(d)
  BY <1>2, <1>3, CallKept
<1>6. Sees' = Sees
  BY <1>4 DEF Sees
<1>7. Stage(c)' = Stage(c) => Stages' = Stages
  BY <1>5 DEF Stages
<1>8. \A s : Stage(c)' = s => Stages' = [Stages EXCEPT ![c] = s]
  BY <1>5 DEF Stages
<1> QED
  BY <1>2, <1>5, <1>6, <1>7, <1>8

\* The variables of Resolver, and its steps on them.
LEMMA ResolverVars ==
  ASSUME Stages' = Stages, Sees' = Sees, Offers' = Offers, Current' = Current,
         UNCHANGED <<method, host>>
  PROVE  UNCHANGED Resolving!resolverVars
BY DEF Resolving!resolverVars, Stages, Sees, Offers, Current

LEMMA RegistryRefines ==
  ASSUME WInv, WInv', NEW p \in Providers, Announce(p) \/ Withdraw(p)
  PROVE  [Resolving!Next]_(Resolving!resolverVars)
<1>1. Stages' = Stages /\ Sees' = Sees /\ UNCHANGED <<method, host>>
  BY RegistryStutters
<1>2. TypeOK /\ TypeOK' /\ Service[p] \in Methods /\ AccessAddr[p] \in Hosts
  BY DiscoveryAssumption DEF WInv, IInv
<1>3. CASE Announce(p)
  <2>1. Resolving!Offer(Service[p], AccessAddr[p])
    BY <1>1, <1>2, <1>3, AnnounceOffers DEF Resolving!Offer, Stages, Sees, Offers, Current
  <2> QED
    BY <1>2, <2>1 DEF Resolving!Next
<1>4. CASE Withdraw(p)
  <2>1. Offers' = Offers
    BY <1>2, <1>4, WithdrawEnds
  <2>2. CASE Current' = Current
    BY <1>1, <2>1, <2>2, ResolverVars
  <2>3. CASE Current' = Current \ {<<Service[p], AccessAddr[p]>>}
    <3>1. Resolving!End(Service[p], AccessAddr[p])
      BY <1>1, <2>1, <2>3 DEF Resolving!End, Stages, Sees, Offers, Current
    <3> QED
      BY <1>2, <3>1 DEF Resolving!Next
  <2> QED
    BY <1>2, <1>4, <2>2, <2>3, WithdrawEnds
<1> QED
  BY <1>3, <1>4

\* The registry answers: the call looks at the list.
LEMMA AnswerRefines ==
  ASSUME WInv, NEW c \in Calls, Answer(c)
  PROVE  Resolving!Look(c)
<1>1. /\ UNCHANGED <<listed, left, pc, method, reply, host>>
      /\ c \in asking
      /\ channel' = Append(channel, [kind |-> "answer", call |-> c,
                                     hosts |-> Listing(method[c])])
  BY DEF Answer, callVars
<1>2. TypeOK /\ AnsweredOnce
  BY DEF WInv, IInv
<1>3. \A d \in Calls : /\ OnItsWay(d)' <=> OnItsWay(d) \/ d = c
                       /\ \A h : Carries(d, h)'
                                   <=> Carries(d, h) \/ (d = c /\ Listing(method[c])[h] > 0)
  BY <1>1, <1>2, AnswerAppended
<1>4. pc[c] = "waiting" /\ reply[c] = None /\ ~OnItsWay(c)
  BY <1>1, <1>2 DEF AnsweredOnce
<1>5. Stage(c) = "asking" /\ Stage(c)' = "answered"
  BY <1>1, <1>3, <1>4 DEF Stage, Unasked
<1>6. ASSUME NEW d \in Calls \ {c} PROVE Stage(d)' = Stage(d) /\ Seen(d)' = Seen(d)
  BY <1>1, <1>3, CallKept
<1>7. Seen(c)' = {h \in Hosts : <<method[c], h>> \in Current}
  <2>1. method[c] \in Methods
    BY <1>2 DEF TypeOK
  <2>2. \A h : ~Carries(c, h)
    BY <1>4 DEF Carries, OnItsWay
  <2>3. \A h \in Hosts : Listing(method[c])[h] > 0 <=> <<method[c], h>> \in Current
    BY <2>1 DEF Listing, Current
  <2> QED
    BY <1>1, <1>3, <1>4, <2>2, <2>3, SeenIs
<1>8. Stages[c] = "asking" /\ Stages' = [Stages EXCEPT ![c] = "answered"]
  BY <1>5, <1>6 DEF Stages
<1>9. Sees' = [Sees EXCEPT ![c] = {h \in Hosts : <<method[c], h>> \in Current}]
  BY <1>6, <1>7 DEF Sees
<1> QED
  BY <1>1, <1>8, <1>9, ListsKept
     DEF Resolving!Look, Resolving!Step, Stages, Sees, Offers, Current

\* The loop thread hands the answer over, or changes the cache: nothing that
\* Resolver sees.
LEMMA LoopRefines ==
  ASSUME WInv, LoopStep
  PROVE  UNCHANGED Resolving!resolverVars
<1>1. /\ channel # <<>> /\ channel' = Tail(channel)
      /\ UNCHANGED <<listed, left, pc, method, host>>
  BY DEF LoopStep, OnAnswer, OnOnline, OnOffline, callVars, registryVars
<1>2. TypeOK /\ AnsweredOnce
  BY DEF WInv, IInv
<1>3. ASSUME OnAnswer, NEW d \in Calls PROVE Stage(d)' = Stage(d) /\ Seen(d)' = Seen(d)
  <2> DEFINE msg == Head(channel)
  <2>1. msg.kind = "answer" /\ reply' = [reply EXCEPT ![msg.call] = msg.hosts]
    BY <1>3 DEF OnAnswer
  <2>2. msg.call \in Calls /\ msg.hosts # None
    <3>1. msg \in Notifications \cup Answers
      BY <1>1, <1>2 DEF TypeOK
    <3> HIDE DEF msg
    <3>2. msg \in Answers
      BY <2>1, <3>1 DEF Notifications
    <3> QED
      BY <3>2, DiscoveryAssumption DEF Answers
  <2>3. /\ OnItsWay(d)' <=> OnItsWay(d) /\ d # msg.call
        /\ \A h : Carries(d, h)' <=> Carries(d, h) /\ d # msg.call
        /\ d = msg.call => OnItsWay(d) /\ \A h : Carries(d, h) <=> msg.hosts[h] > 0
    <3>1. OneAnswer(d)
      BY <1>2 DEF AnsweredOnce, OneAnswer
    <3> QED
      BY <1>1, <1>2, <2>1, <3>1, AnswerTaken
  <2>4. PICK a, bag : a = msg.call /\ bag = msg.hosts
    OBVIOUS
  <2> HIDE DEF msg
  <2>5. reply \in [Calls -> Bag \cup {None}]
    BY <1>2 DEF TypeOK
  <2>6. reply' = [reply EXCEPT ![a] = bag] /\ bag # None /\ a \in Calls
    BY <2>1, <2>2, <2>4
  <2>7. CASE d = a
    <3>1. /\ OnItsWay(d) /\ ~OnItsWay(d)'
          /\ \A h : (Carries(d, h) <=> bag[h] > 0) /\ ~Carries(d, h)'
      BY <2>3, <2>4, <2>7
    <3>2. pc[d] = "waiting" /\ reply[d] = None
      BY <1>2, <3>1 DEF AnsweredOnce
    <3>3. reply'[d] = bag /\ reply'[d] # None
      BY <2>5, <2>6, <2>7
    <3>4. Stage(d)' = Stage(d)
      BY <1>1, <3>1, <3>2, <3>3 DEF Stage, Unasked
    <3>5. Seen(d)' = Seen(d)
      BY <3>1, <3>2, <3>3, SeenIs
    <3> QED
      BY <3>4, <3>5
  <2>8. CASE d # a
    <3>1. reply'[d] = reply[d]
      BY <2>5, <2>6, <2>8
    <3>2. (OnItsWay(d)' <=> OnItsWay(d)) /\ \A h : Carries(d, h)' <=> Carries(d, h)
      BY <2>3, <2>4, <2>8
    <3> QED
      BY <1>1, <3>1, <3>2, CallKept
  <2> QED
    BY <2>7, <2>8
<1>4. ASSUME OnOnline \/ OnOffline, NEW d \in Calls
      PROVE  Stage(d)' = Stage(d) /\ Seen(d)' = Seen(d)
  <2>1. Head(channel).kind # "answer" /\ UNCHANGED reply
    BY <1>4 DEF OnOnline, OnOffline, callVars
  <2>2. (OnItsWay(d)' <=> OnItsWay(d)) /\ \A h : Carries(d, h)' <=> Carries(d, h)
    BY <1>1, <1>2, <2>1, NoteTaken
  <2> QED
    BY <1>1, <2>1, <2>2, CallKept
<1>5. Stages' = Stages /\ Sees' = Sees
  BY <1>3, <1>4 DEF LoopStep, Stages, Sees
<1> QED
  BY <1>1, <1>5, ListsKept, ResolverVars

\* A call finds the cache filled or empty, or gets its client.
LEMMA LookupRefines ==
  ASSUME WInv, NEW c \in Calls, Lookup(c) \/ GetClient(c) \/ PutClient(c)
  PROVE  UNCHANGED Resolving!resolverVars
<1>1. UNCHANGED <<listed, left, channel, method, reply, host>>
  BY DEF Lookup, GetClient, PutClient, registryVars, netVars
<1>2. PICK to \in {"choose", "ask", "null", "connecting", "ready"} :
        /\ Move(c, pc[c], to)
        /\ to \in {"choose", "ask", "null"} => pc[c] = "idle"
        /\ to \in {"connecting", "ready"} => pc[c] \in {"chosen", "connecting"}
  BY DEF Lookup, GetClient, PutClient, Move
<1>3. pc'[c] = to /\ Sees' = Sees /\ (Stage(c)' = Stage(c) => Stages' = Stages)
  BY <1>1, <1>2, OwnStep
<1>4. Stage(c)' = Stage(c)
  BY <1>2, <1>3 DEF Stage, Unasked
<1> QED
  BY <1>1, <1>3, <1>4, ListsKept, ResolverVars

LEMMA AskRefines ==
  ASSUME WInv, NEW c \in Calls, Ask(c)
  PROVE  Resolving!Ask(c)
<1>1. UNCHANGED <<listed, left, channel, method, reply, host>> /\ Move(c, "ask", "waiting")
  BY DEF Ask, registryVars
<1>2. pc[c] = "ask" /\ Move(c, pc[c], "waiting")
  BY <1>1 DEF Move
<1>3. reply[c] = None /\ ~OnItsWay(c)
  BY <1>2 DEF WInv, AnsweredOnce, Unasked
<1>4. /\ pc'[c] = "waiting" /\ Sees' = Sees
      /\ Stage(c)' = "asking" => Stages' = [Stages EXCEPT ![c] = "asking"]
  BY <1>1, <1>2, OwnStep
<1>5. ~OnItsWay(c)'
  BY <1>1, <1>3, ChannelKept
<1>6. Stage(c) = "idle" /\ Stage(c)' = "asking"
  BY <1>1, <1>2, <1>3, <1>4, <1>5 DEF Stage, Unasked
<1>7. Stages[c] = "idle" /\ Stages' = [Stages EXCEPT ![c] = "asking"]
  BY <1>4, <1>6 DEF Stages
<1> QED
  BY <1>1, <1>4, <1>7, ListsKept
     DEF Resolving!Ask, Resolving!Step, Stages, Sees, Offers, Current

LEMMA NotFoundRefines ==
  ASSUME WInv, NEW c \in Calls, NotFound(c)
  PROVE  Resolving!Fail(c)
<1>1. /\ UNCHANGED <<listed, left, channel, method, reply, host>>
      /\ Move(c, "waiting", "failed") /\ reply[c] = NoHosts
  BY DEF NotFound, registryVars, netVars
<1>2. pc[c] = "waiting" /\ Move(c, pc[c], "failed") /\ reply[c] # None
  BY <1>1, DiscoveryAssumption DEF Move, NoHosts, Bag
<1>3. /\ pc'[c] = "failed" /\ Sees' = Sees
      /\ Stage(c)' = "failed" => Stages' = [Stages EXCEPT ![c] = "failed"]
  BY <1>1, <1>2, OwnStep
<1>4. Stages[c] = "answered" /\ Stages' = [Stages EXCEPT ![c] = "failed"]
  BY <1>2, <1>3 DEF Stage, Unasked, Stages
<1>5. Sees[c] = {}
  <2>1. ~OnItsWay(c)
    BY <1>2 DEF WInv, AnsweredOnce
  <2>2. \A h : ~Carries(c, h)
    BY <2>1 DEF Carries, OnItsWay
  <2>3. \A h \in Hosts : ~(reply[c][h] > 0)
    BY <1>1 DEF NoHosts
  <2> QED
    BY <2>2, <2>3, SeenIs DEF Sees
<1> QED
  BY <1>1, <1>3, <1>4, <1>5, ListsKept
     DEF Resolving!Fail, Resolving!Step, Stages, Sees, Offers, Current

\* From the cache: some server has registered there.
LEMMA ChooseRefines ==
  ASSUME WInv, NEW c \in Calls, Choose(c)
  PROVE  \E h \in Hosts : Resolving!Take(c, h)
<1>1. /\ UNCHANGED <<listed, left, channel, method, reply>>
      /\ Move(c, "choose", "chosen")
  BY DEF Choose, registryVars, netVars
<1>2. PICK h \in Hosts : hosts[method[c]][h] > 0 /\ host' = [host EXCEPT ![c] = h]
  BY DEF Choose
<1>3. pc[c] = "choose" /\ Move(c, pc[c], "chosen")
  BY <1>1 DEF Move
<1>4. /\ pc'[c] = "chosen" /\ Sees' = Sees
      /\ Stage(c)' = "found" => Stages' = [Stages EXCEPT ![c] = "found"]
  BY <1>1, <1>3, OwnStep
<1>5. Stages[c] = "idle" /\ Stages' = [Stages EXCEPT ![c] = "found"]
  BY <1>3, <1>4 DEF Stage, Unasked, Stages
<1>6. <<method[c], h>> \in Offers
  <2>1. method[c] \in Methods
    BY DEF WInv, IInv, TypeOK
  <2>2. Offered(method[c], h)
    BY <1>2, <2>1 DEF WInv, IInv, HostsOffered
  <2> QED
    BY <2>1, <2>2 DEF Offers
<1>7. Resolving!Take(c, h)
  BY <1>1, <1>2, <1>4, <1>5, <1>6, ListsKept
     DEF Resolving!Take, Resolving!Step, Stages, Sees, Offers, Current
<1> QED
  BY <1>7

\* From the answer: the registry listed it when it answered.
LEMMA InstallRefines ==
  ASSUME WInv, NEW c \in Calls, Install(c)
  PROVE  \E h \in Hosts : Resolving!Take(c, h)
<1>1. /\ UNCHANGED <<listed, left, channel, method, reply>>
      /\ Move(c, "waiting", "chosen") /\ reply[c] # None
  BY DEF Install, registryVars, netVars
<1>2. PICK h \in Hosts : reply[c][h] > 0 /\ host' = [host EXCEPT ![c] = h]
  BY DEF Install
<1>3. pc[c] = "waiting" /\ Move(c, pc[c], "chosen")
  BY <1>1 DEF Move
<1>4. /\ pc'[c] = "chosen" /\ Sees' = Sees
      /\ Stage(c)' = "found" => Stages' = [Stages EXCEPT ![c] = "found"]
  BY <1>1, <1>3, OwnStep
<1>5. Stages[c] = "answered" /\ Stages' = [Stages EXCEPT ![c] = "found"]
  BY <1>1, <1>3, <1>4 DEF Stage, Unasked, Stages
<1>6. h \in Sees[c]
  BY <1>1, <1>2, SeenIs DEF Sees
<1>7. Resolving!Take(c, h)
  BY <1>1, <1>2, <1>4, <1>5, <1>6, ListsKept
     DEF Resolving!Take, Resolving!Step, Stages, Sees, Offers, Current
<1> QED
  BY <1>7

\* The process dies: no call gets any further.
LEMMA NullRefines ==
  ASSUME WInv, NEW c \in Calls, NullConnection(c)
  PROVE  UNCHANGED Resolving!resolverVars
<1>1. UNCHANGED <<listed, left, channel, pc, method, reply, host>>
  BY DEF NullConnection, registryVars, callVars
<1>2. \A d \in Calls : (OnItsWay(d)' <=> OnItsWay(d)) /\ \A h : Carries(d, h)' <=> Carries(d, h)
  BY <1>1, ChannelKept
<1>3. \A d \in Calls : Stage(d)' = Stage(d) /\ Seen(d)' = Seen(d)
  BY <1>1, <1>2, CallKept
<1>4. Stages' = Stages /\ Sees' = Sees
  BY <1>3 DEF Stages, Sees
<1> QED
  BY <1>1, <1>4, ListsKept, ResolverVars

\* The answers on their way are lost with the connection, those handed over are not.
LEMMA LostRefines ==
  ASSUME WInv, ConnectionLost
  PROVE  \E calls \in SUBSET Calls : Resolving!Lose(calls)
<1> DEFINE lost == {c \in Calls : OnItsWay(c)}
<1>1. UNCHANGED <<listed, left, pc, method, reply, host>> /\ channel' = <<>>
  BY DEF ConnectionLost, callVars
<1>2. AnsweredOnce
  BY DEF WInv
<1>3. ASSUME NEW c \in lost
      PROVE  Stage(c) = "answered" /\ Stage(c)' = "asking" /\ Seen(c)' = {}
  <2>1. pc[c] = "waiting" /\ reply[c] = None /\ OnItsWay(c)
    BY <1>2 DEF AnsweredOnce
  <2>2. ~OnItsWay(c)' /\ \A h : ~Carries(c, h)'
    BY <1>1, NothingOnItsWay
  <2>3. Stage(c) = "answered" /\ Stage(c)' = "asking"
    BY <1>1, <2>1, <2>2 DEF Stage, Unasked
  <2>4. Seen(c)' = {}
    BY <1>1, <2>1, <2>2, SeenIs
  <2> QED
    BY <2>3, <2>4
<1>4. ASSUME NEW c \in Calls \ lost PROVE Stage(c)' = Stage(c) /\ Seen(c)' = Seen(c)
  <2>1. ~OnItsWay(c) /\ \A h : ~Carries(c, h)
    BY DEF OnItsWay, Carries
  <2>2. ~OnItsWay(c)' /\ \A h : ~Carries(c, h)'
    BY <1>1, NothingOnItsWay
  <2> QED
    BY <1>1, <2>1, <2>2, CallKept
<1>5. lost \in SUBSET Calls
  OBVIOUS
<1> HIDE DEF lost
<1>6. /\ \A c \in lost : Stages[c] = "answered"
      /\ Stages' = [c \in Calls |-> IF c \in lost THEN "asking" ELSE Stages[c]]
      /\ Sees' = [c \in Calls |-> IF c \in lost THEN {} ELSE Sees[c]]
  BY <1>3, <1>4, <1>5 DEF Stages, Sees
<1>7. Resolving!Lose(lost)
  BY <1>1, <1>6, ListsKept DEF Resolving!Lose, Stages, Sees, Offers, Current
<1> QED
  BY <1>5, <1>7

LEMMA ResolverStep ==
  ASSUME WInv, WInv', [Next]_vars
  PROVE  [Resolving!Next]_(Resolving!resolverVars)
<1>1. ASSUME NEW p \in Providers, Announce(p) \/ Withdraw(p)
      PROVE  [Resolving!Next]_(Resolving!resolverVars)
  BY <1>1, RegistryRefines
<1>2. ASSUME NEW c \in Calls, Answer(c) \/ Ask(c) \/ NotFound(c) \/ Choose(c) \/ Install(c)
      PROVE  Resolving!Next
  BY <1>2, AnswerRefines, AskRefines, NotFoundRefines, ChooseRefines, InstallRefines
     DEF Resolving!Next
<1>3. ASSUME NEW c \in Calls, Lookup(c) \/ NullConnection(c) \/ GetClient(c) \/ PutClient(c)
      PROVE  UNCHANGED Resolving!resolverVars
  BY <1>3, LookupRefines, NullRefines
<1>4. CASE LoopStep
  BY <1>4, LoopRefines
<1>5. CASE UNCHANGED vars
  <2>1. UNCHANGED <<listed, left, channel, pc, method, reply, host>>
    BY <1>5 DEF vars, registryVars, netVars, callVars
  <2>2. \A c \in Calls : (OnItsWay(c)' <=> OnItsWay(c)) /\ \A h : Carries(c, h)' <=> Carries(c, h)
    BY <2>1, ChannelKept
  <2>3. \A c \in Calls : Stage(c)' = Stage(c) /\ Seen(c)' = Seen(c)
    BY <2>1, <2>2, CallKept
  <2>4. Stages' = Stages /\ Sees' = Sees
    BY <2>3 DEF Stages, Sees
  <2> QED
    BY <2>1, <2>4, ListsKept, ResolverVars
<1>6. CASE ConnectionLost
  BY <1>6, LostRefines DEF Resolving!Next
<1> QED
  BY <1>1, <1>2, <1>3, <1>4, <1>5, <1>6 DEF Next, Discover

LEMMA ResolverInit == Init => Resolving!Init
<1> SUFFICES ASSUME Init PROVE Resolving!Init
  OBVIOUS
<1>1. \A c \in Calls : ~OnItsWay(c)
  BY DEF Init, OnItsWay
<1>2. \A c \in Calls : Stage(c) = "idle" /\ Seen(c) = {}
  BY <1>1 DEF Init, Stage, Unasked, Seen, OnItsWay
<1>3. Offers = {} /\ Current = {}
  <2>1. listed \in SUBSET Providers /\ listed = {} /\ left = {}
    BY DEF Init
  <2>2. \A m, h : ~(Copies(m, h) > 0) /\ ~Offered(m, h)
    BY <2>1, SomeListed DEF Copies, Offered
  <2> QED
    BY <2>2 DEF Offers, Current
<1> QED
  BY <1>2, <1>3 DEF Init, Resolving!Init, Offers, Current

\* A discovery does what Resolver allows, step by step: a call that fails had no
\* host to go to at one moment while it asked, and a call that asked takes a host
\* that was listed at one moment while it asked, for any number of calls, services,
\* hosts and servers.
THEOREM DiscoveryImplementsResolver == Spec => ImplementsResolver
<1>1. WInv /\ WInv' /\ [Next]_vars => [Resolving!Next]_(Resolving!resolverVars)
  BY ResolverStep
<1> QED
  BY <1>1, ResolverInit, InitWInv, WInvStep, PTL
     DEF Spec, ImplementsResolver, Resolving!Spec
=============================================================================
