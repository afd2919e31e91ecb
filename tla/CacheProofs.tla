----------------------------- MODULE CacheProofs -----------------------------
(* The cache of hosts follows the registry: proof of CacheCoherent, for any   *)
(* calls, services, hosts and providers.                                      *)
EXTENDS DiscoveryProofs, FunctionTheorems, SequenceTheorems

\* The inductive invariant, on top of that of DiscoveryProofs.
CInv ==
  /\ IInv
  /\ CacheCoherent /\ AnswersUpToDate
  /\ NoHostLeavesTwice
  /\ Watching
  /\ AnswersAsked

-----------------------------------------------------------------------------
(* Counting in a sequence.                                                    *)

\* The positions behind the first k at which s holds e.
Places(s, k, e) == {i \in k + 1 .. Len(s) : s[i] = e}

LEMMA PlacesFinite ==
  ASSUME NEW S, NEW s \in Seq(S), NEW k \in Nat, NEW e
  PROVE  IsFiniteSet(Places(s, k, e)) /\ Cardinality(Places(s, k, e)) \in Nat
  <1>1. Len(s) \in Int /\ k + 1 \in Int
    BY LenProperties
  <1>2. IsFiniteSet(k + 1 .. Len(s))
    BY <1>1, FS_Interval
  <1>3. Places(s, k, e) \in SUBSET (k + 1 .. Len(s))
    BY DEF Places
  <1>4. IsFiniteSet(Places(s, k, e))
    BY <1>2, <1>3, FS_Subset
  <1> QED
    BY <1>4, FS_CardinalityType

LEMMA CountAppend ==
  ASSUME NEW S, NEW s \in Seq(S), NEW x \in S, NEW k \in 0 .. Len(s), NEW e
  PROVE  Cardinality(Places(Append(s, x), k, e))
           = Cardinality(Places(s, k, e)) + (IF x = e THEN 1 ELSE 0)
  <1>1. /\ Len(s) \in Nat /\ k \in Nat /\ Len(Append(s, x)) = Len(s) + 1
        /\ \A i \in 1 .. Len(s) : Append(s, x)[i] = s[i]
        /\ Append(s, x)[Len(s) + 1] = x
    BY LenProperties, AppendProperties
  <1>2. IsFiniteSet(Places(s, k, e)) /\ Cardinality(Places(s, k, e)) \in Nat
    BY <1>1, PlacesFinite
  <1>3. \A i : i \in k + 1 .. Len(s) + 1 <=> i \in k + 1 .. Len(s) \/ i = Len(s) + 1
    BY <1>1
  <1>4. \A i \in k + 1 .. Len(s) : i \in 1 .. Len(s) /\ Append(s, x)[i] = s[i]
    BY <1>1
  <1>5. Len(s) + 1 \notin Places(s, k, e)
    BY <1>1 DEF Places
  <1>6. CASE x = e
    <2>1. Places(Append(s, x), k, e) = Places(s, k, e) \cup {Len(s) + 1}
      BY <1>1, <1>3, <1>4, <1>6 DEF Places
    <2> QED
      BY <1>2, <1>5, <1>6, <2>1, FS_AddElement
  <1>7. CASE x # e
    <2>1. Places(Append(s, x), k, e) = Places(s, k, e)
      BY <1>1, <1>3, <1>4, <1>7 DEF Places
    <2> QED
      BY <1>2, <1>7, <2>1
  <1> QED
    BY <1>6, <1>7

LEMMA CountBehind ==
  ASSUME NEW S, NEW s \in Seq(S), NEW e
  PROVE  Cardinality(Places(s, Len(s), e)) = 0
  <1>1. Len(s) \in Nat
    BY LenProperties
  <1>2. Places(s, Len(s), e) = {}
    BY <1>1 DEF Places
  <1> QED
    BY <1>2, FS_EmptySet

LEMMA CountTail ==
  ASSUME NEW S, NEW s \in Seq(S), s # <<>>, NEW k \in Nat, NEW e
  PROVE  Cardinality(Places(Tail(s), k, e)) = Cardinality(Places(s, k + 1, e))
  <1>1. /\ Len(s) \in Nat /\ Tail(s) \in Seq(S) /\ Len(Tail(s)) = Len(s) - 1
        /\ \A i \in 1 .. Len(s) - 1 : Tail(s)[i] = s[i + 1]
    BY LenProperties, HeadTailProperties
  <1> DEFINE A == Places(Tail(s), k, e)
             B == Places(s, k + 1, e)
             f == [i \in A |-> i + 1]
  <1>2. \A i : i \in A <=> i \in k + 1 .. Len(s) - 1 /\ s[i + 1] = e
    <2>1. \A i \in k + 1 .. Len(s) - 1 : i \in 1 .. Len(s) - 1
      BY <1>1
    <2> QED
      BY <1>1, <2>1 DEF Places
  <1>3. \A i : i \in B <=> i \in k + 2 .. Len(s) /\ s[i] = e
    BY <1>1 DEF Places
  <1>4. f \in [A -> B]
    <2>1. \A i \in k + 1 .. Len(s) - 1 : i + 1 \in k + 2 .. Len(s)
      BY <1>1
    <2> QED
      BY <1>2, <1>3, <2>1
  <1>5. \A a, b \in A : f[a] = f[b] => a = b
    BY <1>1, <1>2
  <1>6. \A t \in B : \E a \in A : f[a] = t
    <2> SUFFICES ASSUME NEW t \in B PROVE \E a \in A : f[a] = t
      OBVIOUS
    <2>1. t \in k + 2 .. Len(s) /\ s[t] = e
      BY <1>3
    <2>2. t - 1 \in k + 1 .. Len(s) - 1 /\ (t - 1) + 1 = t
      BY <1>1, <2>1
    <2>3. t - 1 \in A
      BY <1>2, <2>1, <2>2
    <2>4. f[t - 1] = t
      BY <2>2, <2>3
    <2> QED
      BY <2>3, <2>4
  <1> HIDE DEF f
  <1>7. ExistsBijection(A, B)
    <2> HIDE DEF A, B
    <2>1. f \in Bijection(A, B)
      BY <1>4, <1>5, <1>6, Fun_IsBij
    <2> QED
      BY <2>1, Fun_ExistsBij
  <1>8. IsFiniteSet(A)
    BY <1>1, PlacesFinite
  <1> QED
    BY <1>7, <1>8, FS_Bijection

LEMMA CountHead ==
  ASSUME NEW S, NEW s \in Seq(S), s # <<>>, NEW e
  PROVE  Cardinality(Places(s, 0, e)) = Cardinality(Places(s, 1, e)) + (IF Head(s) = e THEN 1 ELSE 0)
  <1>1. Len(s) \in Nat /\ Len(s) >= 1 /\ Head(s) = s[1]
    BY LenProperties, EmptySeq
  <1>2. IsFiniteSet(Places(s, 1, e)) /\ Cardinality(Places(s, 1, e)) \in Nat
    BY PlacesFinite
  <1>3. \A i : i \in 0 + 1 .. Len(s) <=> i = 1 \/ i \in 1 + 1 .. Len(s)
    BY <1>1
  <1>4. 1 \notin Places(s, 1, e)
    BY DEF Places
  <1>5. CASE Head(s) = e
    <2>1. Places(s, 0, e) = Places(s, 1, e) \cup {1}
      BY <1>1, <1>3, <1>5 DEF Places
    <2> QED
      BY <1>2, <1>4, <1>5, <2>1, FS_AddElement
  <1>6. CASE Head(s) # e
    <2>1. Places(s, 0, e) = Places(s, 1, e)
      BY <1>1, <1>3, <1>6 DEF Places
    <2> QED
      BY <1>2, <1>6, <2>1
  <1> QED
    BY <1>5, <1>6

-----------------------------------------------------------------------------
(* The messages behind the first k.                                           *)

LEMMA AfterIsPlaces == \A k, e : After(k, e) = Cardinality(Places(channel, k, e))
BY DEF After, Places

LEMMA AfterNat ==
  ASSUME TypeOK, NEW k \in Nat, NEW e
  PROVE  After(k, e) \in Nat
BY AfterIsPlaces, PlacesFinite DEF TypeOK

LEMMA NextAfterNat ==
  ASSUME TypeOK', NEW k \in Nat, NEW e
  PROVE  After(k, e)' \in Nat
  <1>1. channel' \in Seq(Notifications \cup Answers)
    BY DEF TypeOK
  <1>2. After(k, e)' = Cardinality(Places(channel', k, e))
    BY DEF After, Places
  <1> QED
    BY <1>1, <1>2, PlacesFinite

LEMMA AfterSame ==
  ASSUME channel' = channel
  PROVE  \A k, e : After(k, e)' = After(k, e)
BY DEF After

LEMMA AfterAppend ==
  ASSUME TypeOK, NEW x \in Notifications \cup Answers, channel' = Append(channel, x)
  PROVE  /\ Len(channel) \in Nat /\ Len(channel') = Len(channel) + 1
         /\ \A i \in 1 .. Len(channel) : channel'[i] = channel[i]
         /\ channel'[Len(channel) + 1] = x
         /\ \A k \in 0 .. Len(channel) : \A e :
              After(k, e)' = After(k, e) + (IF x = e THEN 1 ELSE 0)
         /\ \A k : k = Len(channel) + 1 => \A e : After(k, e)' = 0
  <1>1. channel \in Seq(Notifications \cup Answers)
    BY DEF TypeOK
  <1>2. /\ Len(channel) \in Nat /\ Len(channel') = Len(channel) + 1
        /\ channel' \in Seq(Notifications \cup Answers)
        /\ \A i \in 1 .. Len(channel) : channel'[i] = channel[i]
        /\ channel'[Len(channel) + 1] = x
    BY <1>1, LenProperties, AppendProperties
  <1>3. \A k, e : After(k, e)' = Cardinality(Places(channel', k, e))
    BY DEF After, Places
  <1>4. \A k \in 0 .. Len(channel) : \A e :
          Cardinality(Places(channel', k, e)) = Cardinality(Places(channel, k, e)) + (IF x = e THEN 1 ELSE 0)
    BY <1>1, CountAppend
  <1>5. \A e : Cardinality(Places(channel', Len(channel'), e)) = 0
    BY <1>2, CountBehind
  <1>6. \A k : k = Len(channel) + 1 => \A e : After(k, e)' = 0
    BY <1>2, <1>3, <1>5
  <1> QED
    BY <1>2, <1>3, <1>4, <1>6, AfterIsPlaces

LEMMA AfterTail ==
  ASSUME TypeOK, channel # <<>>, channel' = Tail(channel)
  PROVE  /\ Len(channel) \in Nat /\ Len(channel) >= 1 /\ Len(channel') = Len(channel) - 1
         /\ Head(channel) = channel[1]
         /\ \A i \in 1 .. Len(channel) - 1 : channel'[i] = channel[i + 1]
         /\ \A k \in Nat : \A e : After(k, e)' = After(k + 1, e)
         /\ \A e : After(0, e) = After(1, e) + (IF Head(channel) = e THEN 1 ELSE 0)
  <1>1. channel \in Seq(Notifications \cup Answers)
    BY DEF TypeOK
  <1>2. /\ Len(channel) \in Nat /\ Len(channel) >= 1 /\ Len(channel') = Len(channel) - 1
        /\ Head(channel) = channel[1]
        /\ \A i \in 1 .. Len(channel) - 1 : channel'[i] = channel[i + 1]
    BY <1>1, LenProperties, EmptySeq, HeadTailProperties
  <1>3. \A k, e : After(k, e)' = Cardinality(Places(channel', k, e))
    BY DEF After, Places
  <1>4. \A k \in Nat : \A e : Cardinality(Places(channel', k, e)) = Cardinality(Places(channel, k + 1, e))
    BY <1>1, CountTail
  <1>5. \A e : Cardinality(Places(channel, 0, e))
                 = Cardinality(Places(channel, 1, e)) + (IF Head(channel) = e THEN 1 ELSE 0)
    BY <1>1, CountHead
  <1> QED
    BY <1>2, <1>3, <1>4, <1>5, AfterIsPlaces

-----------------------------------------------------------------------------
(* Messages and notes.                                                        *)

LEMMA NoteFacts ==
  /\ \A k, m, h, l, n, g : Note(k, m, h) = Note(l, n, g) <=> k = l /\ m = n /\ h = g
  /\ \A x \in Answers : \A k, m, h : k # "answer" => x # Note(k, m, h)
  /\ "online" # "offline" /\ "online" # "answer" /\ "offline" # "answer"
  <1>1. ASSUME NEW k, NEW m, NEW h, NEW l, NEW n, NEW g, Note(k, m, h) = Note(l, n, g)
        PROVE  k = l /\ m = n /\ h = g
    <2>1. /\ Note(k, m, h).kind = k /\ Note(k, m, h).method = m /\ Note(k, m, h).host = h
          /\ Note(l, n, g).kind = l /\ Note(l, n, g).method = n /\ Note(l, n, g).host = g
      BY DEF Note
    <2> QED
      BY <1>1, <2>1
  <1>2. ASSUME NEW x \in Answers, NEW k, NEW m, NEW h, k # "answer" PROVE x # Note(k, m, h)
    <2>1. x.kind = "answer" /\ Note(k, m, h).kind = k
      BY DEF Answers, Note
    <2> QED
      BY <1>2, <2>1
  <1> QED
    BY <1>1, <1>2

LEMMA ChannelTypes ==
  ASSUME TypeOK
  PROVE  /\ Len(channel) \in Nat
         /\ \A i \in 1 .. Len(channel) :
              /\ channel[i].kind = "answer" => /\ channel[i] \in Answers /\ channel[i].call \in Calls
                                              /\ channel[i].hosts \in Bag
                                              /\ method[channel[i].call] \in Methods
              /\ channel[i].kind # "answer" =>
                   /\ channel[i].kind \in {"online", "offline"}
                   /\ channel[i].method \in Methods /\ channel[i].host \in Hosts
                   /\ channel[i] = Note(channel[i].kind, channel[i].method, channel[i].host)
  <1>1. channel \in Seq(Notifications \cup Answers)
    BY DEF TypeOK
  <1>2. Len(channel) \in Nat
    BY <1>1, LenProperties
  <1>3. ASSUME NEW x \in Notifications \cup Answers
        PROVE  /\ x.kind = "answer" => /\ x \in Answers /\ x.call \in Calls /\ x.hosts \in Bag
               /\ x.kind # "answer" =>
                    /\ x.kind \in {"online", "offline"} /\ x.method \in Methods /\ x.host \in Hosts
                    /\ x = Note(x.kind, x.method, x.host)
    <2>1. CASE x \in Answers
      BY <2>1 DEF Answers
    <2>2. CASE x \in Notifications
      BY <2>2 DEF Notifications, Note
    <2> QED
      BY <2>1, <2>2
  <1>4. \A i \in 1 .. Len(channel) : channel[i] \in Notifications \cup Answers
    BY <1>1, ElementOfSeq
  <1>5. \A c \in Calls : method[c] \in Methods
    BY DEF TypeOK
  <1> QED
    BY <1>2, <1>3, <1>4, <1>5

\* How many providers of m are listed at h is a number, changed only by one that
\* comes or goes.
LEMMA CopiesNat ==
  ASSUME TypeOK
  PROVE  \A m, h : Copies(m, h) \in Nat
  <1> SUFFICES ASSUME NEW m, NEW h PROVE Copies(m, h) \in Nat
    OBVIOUS
  <1>1. IsFiniteSet({p \in listed : Service[p] = m /\ AccessAddr[p] = h})
    BY DiscoveryAssumption, FS_Subset DEF TypeOK
  <1> QED
    BY <1>1, FS_CardinalityType DEF Copies

LEMMA CopiesAdd ==
  ASSUME TypeOK, NEW p \in Providers, p \notin listed, listed' = listed \cup {p}
  PROVE  \A m, h : Copies(m, h)' =
           Copies(m, h) + (IF Service[p] = m /\ AccessAddr[p] = h THEN 1 ELSE 0)
  <1> SUFFICES ASSUME NEW m, NEW h
               PROVE  Copies(m, h)' =
                        Copies(m, h) + (IF Service[p] = m /\ AccessAddr[p] = h THEN 1 ELSE 0)
    OBVIOUS
  <1> DEFINE A == {q \in listed : Service[q] = m /\ AccessAddr[q] = h}
             B == {q \in listed \cup {p} : Service[q] = m /\ AccessAddr[q] = h}
  <1>1. IsFiniteSet(A) /\ Cardinality(A) \in Nat
    BY DiscoveryAssumption, FS_Subset, FS_CardinalityType DEF TypeOK
  <1>2. Copies(m, h) = Cardinality(A) /\ Copies(m, h)' = Cardinality(B)
    BY DEF Copies
  <1>3. CASE Service[p] = m /\ AccessAddr[p] = h
    <2>1. B = A \cup {p} /\ p \notin A
      BY <1>3
    <2> QED
      BY <1>1, <1>2, <1>3, <2>1, FS_AddElement
  <1>4. CASE ~(Service[p] = m /\ AccessAddr[p] = h)
    <2>1. B = A
      BY <1>4
    <2>2. Copies(m, h)' = Copies(m, h) /\ Copies(m, h) \in Nat
      BY <1>1, <1>2, <2>1
    <2> QED
      BY ONLY <1>4, <2>2
  <1> QED
    BY <1>3, <1>4

LEMMA CopiesRemove ==
  ASSUME TypeOK, NEW p \in listed, listed' = listed \ {p}
  PROVE  \A m, h : Copies(m, h)' \in Nat /\ Copies(m, h) =
           Copies(m, h)' + (IF Service[p] = m /\ AccessAddr[p] = h THEN 1 ELSE 0)
  <1> SUFFICES ASSUME NEW m, NEW h
               PROVE  Copies(m, h)' \in Nat /\ Copies(m, h) =
                        Copies(m, h)' + (IF Service[p] = m /\ AccessAddr[p] = h THEN 1 ELSE 0)
    OBVIOUS
  <1> DEFINE A == {q \in listed : Service[q] = m /\ AccessAddr[q] = h}
             B == {q \in listed \ {p} : Service[q] = m /\ AccessAddr[q] = h}
  <1>1. IsFiniteSet(B) /\ Cardinality(B) \in Nat
    <2>1. B \in SUBSET Providers
      BY DEF TypeOK
    <2> QED
      BY <2>1, DiscoveryAssumption, FS_Subset, FS_CardinalityType
  <1>2. Copies(m, h) = Cardinality(A) /\ Copies(m, h)' = Cardinality(B)
    BY DEF Copies
  <1>3. CASE Service[p] = m /\ AccessAddr[p] = h
    <2>1. A = B \cup {p} /\ p \notin B
      BY <1>3
    <2> QED
      BY <1>1, <1>2, <1>3, <2>1, FS_AddElement
  <1>4. CASE ~(Service[p] = m /\ AccessAddr[p] = h)
    <2>1. B = A
      BY <1>4
    <2>2. Copies(m, h)' = Copies(m, h) /\ Copies(m, h) \in Nat
      BY <1>1, <1>2, <2>1
    <2> QED
      BY ONLY <1>4, <2>2
  <1> QED
    BY <1>3, <1>4

-----------------------------------------------------------------------------
(* The thread of a call.                                                      *)

\* A step of a call that leaves the registry, the channel and the answers alone.
LEMMA CallKeeps ==
  ASSUME CInv,
         UNCHANGED <<listed, watched, repeats, channel, method, reply, overtaken>>,
         \A d \in Calls : pc'[d] = "waiting" => pc[d] = "waiting" \/ reply[d] = None,
         \A d \in Calls : Unasked(d)' => Unasked(d),
         \A d \in asking' : d \in asking \/ ~Unasked(d)',
         coherent' \subseteq watched
  PROVE  /\ AnswersUpToDate' /\ NoHostLeavesTwice' /\ Watching' /\ AnswersAsked'
         /\ \A k, e : After(k, e)' = After(k, e)
         /\ \A m, h : Copies(m, h)' = Copies(m, h)
  <1>1. \A k, e : After(k, e)' = After(k, e)
    BY AfterSame
  <1>2. \A m, h : Copies(m, h)' = Copies(m, h)
    BY DEF Copies
  <1>3. TypeOK /\ AnswersUpToDate /\ NoHostLeavesTwice /\ Watching /\ AnswersAsked
    BY DEF CInv, IInv
  <1>4. AnswersUpToDate'
    BY <1>1, <1>2, <1>3 DEF AnswersUpToDate, UpToDate
  <1>5. NoHostLeavesTwice'
    BY <1>1, <1>2, <1>3 DEF NoHostLeavesTwice
  <1>6. Watching'
    BY <1>3 DEF Watching
  <1>7. AnswersAsked'
    <2>1. \A i \in 1 .. Len(channel) : channel[i].kind = "answer" => channel[i].call \in Calls
      BY <1>3, ChannelTypes
    <2>2. asking \subseteq Calls
      BY <1>3 DEF TypeOK
    <2>3. \A c \in asking' : ~Unasked(c)'
      BY <1>3, <2>2 DEF AnswersAsked
    <2>4. \A i \in 1 .. Len(channel') : channel'[i].kind = "answer" => ~Unasked(channel[i].call)'
      <3> SUFFICES ASSUME NEW i \in 1 .. Len(channel), channel[i].kind = "answer"
                   PROVE  ~Unasked(channel[i].call)'
        OBVIOUS
      <3>1. PICK d \in Calls : d = channel[i].call /\ ~Unasked(d)
        BY <1>3, <2>1 DEF AnswersAsked
      <3>2. ~Unasked(d)'
        BY <3>1
      <3> QED
        BY <3>1, <3>2 DEF Unasked
    <2>5. \A c \in Calls : Unasked(c)' => reply'[c] = None
      BY <1>3 DEF AnswersAsked
    <2> QED
      BY <2>3, <2>4, <2>5 DEF AnswersAsked
  <1> QED
    BY <1>1, <1>2, <1>4, <1>5, <1>6, <1>7

LEMMA AskKeeps == ASSUME CInv, NEW c \in Calls, Ask(c) PROVE CInv'
  <1>1. /\ UNCHANGED <<listed, watched, repeats, channel, method, reply, overtaken, hosts,
                       coherent>>
        /\ asking' \subseteq asking \cup {c}
        /\ pc[c] = "ask" /\ pc' = [pc EXCEPT ![c] = "waiting"]
    BY DEF Ask, Move, registryVars, cacheVars, auxVars
  <1>2. IInv'
    BY AskStep DEF CInv
  <1>3. TypeOK /\ coherent \subseteq watched /\ CacheCoherent
    BY DEF CInv, IInv, Watching
  <1>4. reply[c] = None
    BY <1>1 DEF CInv, AnswersAsked, Unasked
  <1>5. /\ \A d \in Calls : pc'[d] = "waiting" => pc[d] = "waiting" \/ reply[d] = None
        /\ \A d \in Calls : Unasked(d)' => Unasked(d)
        /\ \A d \in asking' : d \in asking \/ ~Unasked(d)'
    BY <1>1, <1>3, <1>4 DEF TypeOK, Unasked
  <1>6. /\ AnswersUpToDate' /\ NoHostLeavesTwice' /\ Watching' /\ AnswersAsked'
        /\ \A k, e : After(k, e)' = After(k, e)
        /\ \A m, h : Copies(m, h)' = Copies(m, h)
    BY <1>1, <1>3, <1>5, CallKeeps
  <1>7. CacheCoherent'
    BY <1>1, <1>3, <1>6 DEF CacheCoherent, UpToDate
  <1> QED
    BY <1>2, <1>6, <1>7 DEF CInv

\* The steps that neither ask, nor look at the answer, nor touch the cache.
LEMMA OthersKeep ==
  ASSUME CInv, NEW c \in Calls,
         Lookup(c) \/ Choose(c) \/ NotFound(c) \/ GetClient(c) \/ PutClient(c)
  PROVE  CInv'
  <1>1. /\ UNCHANGED <<listed, watched, repeats, channel, method, reply, overtaken, asking, hosts,
                       coherent>>
        /\ pc' = [pc EXCEPT ![c] = pc'[c]]
        /\ pc'[c] # "waiting"
        /\ pc'[c] \in {"idle", "choose", "ask", "null"} => pc[c] = "idle"
    <2> USE DEF Move, registryVars, netVars, cacheVars, auxVars, CInv, IInv, TypeOK
    <2>1. CASE Lookup(c)
      BY <2>1 DEF Lookup
    <2>2. CASE Choose(c)
      BY <2>2 DEF Choose
    <2>3. CASE NotFound(c)
      BY <2>3 DEF NotFound
    <2>4. CASE GetClient(c)
      BY <2>4 DEF GetClient
    <2>5. CASE PutClient(c)
      BY <2>5 DEF PutClient
    <2> QED
      BY <2>1, <2>2, <2>3, <2>4, <2>5
  <1>2. IInv'
    BY LookupStep, ChooseStep, AskStep, ClientStep DEF CInv
  <1>3. TypeOK /\ coherent \subseteq watched /\ CacheCoherent
    BY DEF CInv, IInv, Watching
  <1>4. /\ \A d \in Calls : pc'[d] = "waiting" => pc[d] = "waiting"
        /\ \A d \in Calls : Unasked(d)' => Unasked(d)
    BY <1>1, <1>3 DEF TypeOK, Unasked
  <1>5. /\ AnswersUpToDate' /\ NoHostLeavesTwice' /\ Watching' /\ AnswersAsked'
        /\ \A k, e : After(k, e)' = After(k, e)
        /\ \A m, h : Copies(m, h)' = Copies(m, h)
    BY <1>1, <1>3, <1>4, CallKeeps
  <1>6. CacheCoherent'
    BY <1>1, <1>3, <1>5 DEF CacheCoherent, UpToDate
  <1> QED
    BY <1>2, <1>5, <1>6 DEF CInv

\* The process dies.
LEMMA NullKeeps == ASSUME CInv, NEW c \in Calls, NullConnection(c) PROVE CInv'
  <1>1. UNCHANGED <<listed, watched, repeats, channel, method, reply, overtaken, asking, pc, hosts,
                    coherent>>
    BY DEF NullConnection, registryVars, callVars, cacheVars, auxVars
  <1>2. IInv'
    BY AskStep DEF CInv
  <1>3. coherent \subseteq watched /\ CacheCoherent
    BY DEF CInv, Watching
  <1>4. \A d \in Calls : Unasked(d)' <=> Unasked(d)
    BY <1>1 DEF Unasked
  <1>5. /\ AnswersUpToDate' /\ NoHostLeavesTwice' /\ Watching' /\ AnswersAsked'
        /\ \A k, e : After(k, e)' = After(k, e)
        /\ \A m, h : Copies(m, h)' = Copies(m, h)
    BY <1>1, <1>3, <1>4, CallKeeps
  <1>6. CacheCoherent'
    BY <1>1, <1>3, <1>5 DEF CacheCoherent, UpToDate
  <1> QED
    BY <1>2, <1>5, <1>6 DEF CInv

\* An answer that no notification has overtaken fills the cache with what the
\* registry lists, but for the notifications on their way.
LEMMA InstallKeeps == ASSUME CInv, NEW c \in Calls, Install(c) PROVE CInv'
  <1>1. /\ UNCHANGED <<listed, watched, repeats, channel, method, reply, overtaken, asking>>
        /\ pc[c] = "waiting" /\ pc' = [pc EXCEPT ![c] = "chosen"]
        /\ reply[c] # None
        /\ hosts' = [hosts EXCEPT ![method[c]] = reply[c]]
        /\ coherent' = IF c \in overtaken THEN coherent \ {method[c]} ELSE coherent \cup {method[c]}
    BY DEF Install, Move, registryVars, netVars
  <1>2. IInv'
    BY InstallStep DEF CInv
  <1>3. /\ TypeOK /\ coherent \subseteq watched /\ CacheCoherent /\ method[c] \in Methods
        /\ (c \notin overtaken => method[c] \in watched)
    BY <1>1 DEF CInv, IInv, TypeOK, Watching
  <1>4. /\ \A d \in Calls : pc'[d] = "waiting" => pc[d] = "waiting"
        /\ \A d \in Calls : Unasked(d)' => Unasked(d)
        /\ coherent' \subseteq watched
    BY <1>1, <1>3 DEF TypeOK, Unasked
  <1>5. /\ AnswersUpToDate' /\ NoHostLeavesTwice' /\ Watching' /\ AnswersAsked'
        /\ \A k, e : After(k, e)' = After(k, e)
        /\ \A m, h : Copies(m, h)' = Copies(m, h)
    BY <1>1, <1>3, <1>4, CallKeeps
  <1>6. ASSUME NEW m \in coherent' PROVE UpToDate(hosts'[m], 0, m)
    <2>0. m \in Methods
      BY <1>1, <1>3 DEF TypeOK
    <2>1. CASE m = method[c]
      <3>1. c \notin overtaken
        BY <1>1, <1>6, <2>1
      <3>2. UpToDate(reply[c], 0, m)
        BY <1>1, <2>0, <2>1, <3>1 DEF CInv, AnswersUpToDate
      <3>3. hosts'[m] = reply[c]
        BY <1>1, <1>3, <2>1 DEF TypeOK
      <3> QED
        BY <3>2, <3>3
    <2>2. CASE m # method[c]
      <3>1. m \in coherent /\ hosts'[m] = hosts[m]
        BY <1>1, <1>3, <1>6, <2>0, <2>2 DEF TypeOK
      <3> QED
        BY <1>3, <3>1 DEF CacheCoherent
    <2> QED
      BY <2>1, <2>2
  <1>7. CacheCoherent'
    BY <1>1, <1>5, <1>6 DEF CacheCoherent, UpToDate
  <1> QED
    BY <1>2, <1>5, <1>7 DEF CInv

-----------------------------------------------------------------------------
(* The registry.                                                              *)

\* Nothing is on its way about a service the client is no discoverer of.
LEMMA UnwatchedSilent ==
  ASSUME TypeOK, Watching, NEW m, m \notin watched, NEW k \in Nat
  PROVE  \A h : After(k, Note("online", m, h)) = 0 /\ After(k, Note("offline", m, h)) = 0
  <1> SUFFICES ASSUME NEW kind \in {"online", "offline"}, NEW h PROVE After(k, Note(kind, m, h)) = 0
    OBVIOUS
  <1>1. ASSUME NEW i \in k + 1 .. Len(channel) PROVE channel[i] # Note(kind, m, h)
    <2>1. i \in 1 .. Len(channel)
      BY ChannelTypes
    <2>2. Note(kind, m, h).kind # "answer" /\ Note(kind, m, h).method = m
      BY DEF Note
    <2> QED
      BY <2>1, <2>2 DEF Watching
  <1>2. {i \in k + 1 .. Len(channel) : channel[i] = Note(kind, m, h)} = {}
    BY <1>1
  <1> QED
    BY <1>2, FS_EmptySet DEF After

\* What a registration, a repeated one and a disconnection change.
LEMMA ListingChanges ==
  ASSUME TypeOK, NEW p \in Providers, Announce(p) \/ Withdraw(p)
  PROVE  \E kind \in {"online", "offline"}, new \in {0, 1} :
           /\ Notify(kind, p)
           /\ \A m, h : /\ Copies(m, h) \in Nat /\ Copies(m, h)' \in Nat
                        /\ kind = "online" => Copies(m, h)' =
                             Copies(m, h) + (IF Service[p] = m /\ AccessAddr[p] = h THEN new ELSE 0)
                        /\ kind = "offline" => Copies(m, h) =
                             Copies(m, h)' + (IF Service[p] = m /\ AccessAddr[p] = h THEN 1 ELSE 0)
           /\ \A m \in Methods, h \in Hosts :
                /\ repeats[m][h] \in Nat /\ repeats'[m][h] \in Nat
                /\ repeats'[m][h] = repeats[m][h] +
                     (IF /\ kind = "online" /\ Service[p] \in watched
                         /\ Service[p] = m /\ AccessAddr[p] = h
                      THEN 1 - new ELSE 0)
  <1>1. \A m, h : Copies(m, h) \in Nat
    BY CopiesNat
  <1>2. /\ repeats \in [Methods -> Bag] /\ Service[p] \in Methods /\ AccessAddr[p] \in Hosts
        /\ \A m \in Methods, h \in Hosts : repeats[m][h] \in Nat
    BY DiscoveryAssumption DEF TypeOK, Bag
  <1>3. CASE Announce(p) /\ p \notin listed
    <2>1. Notify("online", p) /\ listed' = listed \cup {p} /\ repeats' = repeats
      BY <1>3 DEF Announce, Again
    <2>2. \A m, h : Copies(m, h)' =
            Copies(m, h) + (IF Service[p] = m /\ AccessAddr[p] = h THEN 1 ELSE 0)
      BY <1>3, <2>1, CopiesAdd
    <2>3. \A m, h : Copies(m, h)' \in Nat
      BY <1>1, <2>2
    <2>4. \A m \in Methods, h \in Hosts :
            repeats'[m][h] \in Nat /\ repeats'[m][h] = repeats[m][h] + 0
      BY <1>2, <2>1
    <2> QED
      BY <1>1, <1>2, <2>1, <2>2, <2>3, <2>4
  <1>4. CASE Announce(p) /\ p \in listed
    <2>1. Notify("online", p) /\ listed' = listed
      BY <1>4 DEF Announce
    <2>2. \A m, h : Copies(m, h)' = Copies(m, h)
      BY <2>1 DEF Copies
    <2>3. \A m, h : Copies(m, h)' \in Nat /\ Copies(m, h)' = Copies(m, h) + 0
      BY <1>1, <2>2
    <2>4. repeats' = IF Service[p] \in watched
                     THEN [repeats EXCEPT ![Service[p]][AccessAddr[p]] = @ + 1] ELSE repeats
      BY <1>4 DEF Announce, Again
    <2>5. \A m \in Methods, h \in Hosts :
            repeats'[m][h] = repeats[m][h] +
              (IF Service[p] \in watched /\ Service[p] = m /\ AccessAddr[p] = h THEN 1 ELSE 0)
      BY <1>2, <2>4 DEF Bag
    <2>6. \A m \in Methods, h \in Hosts : repeats'[m][h] \in Nat
      BY <1>2, <2>5
    <2>7. 1 - 0 = 1
      OBVIOUS
    <2> QED
      BY <1>1, <1>2, <2>1, <2>3, <2>5, <2>6, <2>7
  <1>5. CASE Withdraw(p)
    <2>1. Notify("offline", p) /\ p \in listed /\ listed' = listed \ {p} /\ repeats' = repeats
      BY <1>5 DEF Withdraw
    <2>2. \A m, h : Copies(m, h)' \in Nat /\ Copies(m, h) =
            Copies(m, h)' + (IF Service[p] = m /\ AccessAddr[p] = h THEN 1 ELSE 0)
      BY <2>1, CopiesRemove
    <2>3. \A m \in Methods, h \in Hosts :
            repeats'[m][h] \in Nat /\ repeats'[m][h] = repeats[m][h] + 0
      BY <1>2, <2>1
    <2> QED
      BY <1>1, <1>2, <2>1, <2>2, <2>3
  <1> QED
    BY <1>3, <1>4, <1>5

\* A provider that comes or goes changes the channel and the listing alike, but for
\* what is repeated.
LEMMA Balance ==
  ASSUME CInv, NEW p \in Providers, Announce(p) \/ Withdraw(p)
  PROVE  /\ \A m \in watched, h \in Hosts : \A k \in 0 .. Len(channel) :
              After(k, Note("online", m, h))'
                  + Copies(m, h) + After(k, Note("offline", m, h)) + repeats[m][h]
                = After(k, Note("online", m, h))
                  + Copies(m, h)' + After(k, Note("offline", m, h))' + repeats'[m][h]
         /\ \A m, h : Copies(m, h)' \in Nat /\ Copies(m, h) \in Nat
         /\ \A m \in Methods, h \in Hosts :
              /\ repeats[m][h] \in Nat /\ repeats'[m][h] \in Nat
              /\ repeats[m][h] <= repeats'[m][h]
         /\ \/ channel' = channel
            \/ \E x \in Notifications : channel' = Append(channel, x) /\ x.method \in watched
  <1>1. TypeOK /\ watched \subseteq Methods
    BY DEF CInv, IInv, TypeOK
  <1>2. Service[p] \in Methods /\ AccessAddr[p] \in Hosts
    BY DiscoveryAssumption
  <1>3. PICK kind \in {"online", "offline"}, new \in {0, 1} :
           /\ Notify(kind, p)
           /\ \A m, h : /\ Copies(m, h) \in Nat /\ Copies(m, h)' \in Nat
                        /\ kind = "online" => Copies(m, h)' =
                             Copies(m, h) + (IF Service[p] = m /\ AccessAddr[p] = h THEN new ELSE 0)
                        /\ kind = "offline" => Copies(m, h) =
                             Copies(m, h)' + (IF Service[p] = m /\ AccessAddr[p] = h THEN 1 ELSE 0)
           /\ \A m \in Methods, h \in Hosts :
                /\ repeats[m][h] \in Nat /\ repeats'[m][h] \in Nat
                /\ repeats'[m][h] = repeats[m][h] +
                     (IF /\ kind = "online" /\ Service[p] \in watched
                         /\ Service[p] = m /\ AccessAddr[p] = h
                      THEN 1 - new ELSE 0)
    BY <1>1, ListingChanges
  <1> DEFINE x == Note(kind, Service[p], AccessAddr[p])
  <1>4. /\ x \in Notifications /\ x.method = Service[p]
        /\ Service[p] \in watched => channel' = Append(channel, x)
        /\ Service[p] \notin watched => channel' = channel
    BY <1>2, <1>3 DEF Notify, Note, Notifications
  <1>5. x \in Notifications \cup Answers
    BY <1>4
  <1>6. \A l, m, h : x = Note(l, m, h) <=> kind = l /\ Service[p] = m /\ AccessAddr[p] = h
    BY NoteFacts
  <1> HIDE DEF x
  <1>7. ASSUME NEW m \in watched, NEW h \in Hosts, NEW k \in 0 .. Len(channel)
        PROVE  After(k, Note("online", m, h))'
                  + Copies(m, h) + After(k, Note("offline", m, h)) + repeats[m][h]
                = After(k, Note("online", m, h))
                  + Copies(m, h)' + After(k, Note("offline", m, h))' + repeats'[m][h]
    <2>1. k \in Nat /\ m \in Methods
      BY <1>1, ChannelTypes
    <2>2. After(k, Note("online", m, h)) \in Nat /\ After(k, Note("offline", m, h)) \in Nat
          /\ Copies(m, h) \in Nat /\ Copies(m, h)' \in Nat
          /\ repeats[m][h] \in Nat /\ repeats'[m][h] \in Nat /\ new \in {0, 1}
      BY <1>1, <1>3, <2>1, AfterNat
    <2>3. CASE Service[p] = m /\ AccessAddr[p] = h
      <3>1. \A e : After(k, e)' = After(k, e) + (IF x = e THEN 1 ELSE 0)
        <4>1. channel' = Append(channel, x)
          BY <1>4, <2>3
        <4> QED
          BY ONLY <1>1, <1>5, <4>1, k \in 0 .. Len(channel), AfterAppend
      <3>2. CASE kind = "online"
        <4>1. /\ After(k, Note("online", m, h))' = After(k, Note("online", m, h)) + 1
              /\ After(k, Note("offline", m, h))' = After(k, Note("offline", m, h)) + 0
          BY <1>6, <2>3, <3>1, <3>2
        <4>2. Copies(m, h)' = Copies(m, h) + new
          BY <1>3, <2>3, <3>2
        <4>3. repeats'[m][h] = repeats[m][h] + (1 - new)
          BY <1>3, <1>4, <2>1, <2>3, <3>2
        <4>4. CASE new = 0
          <5>1. Copies(m, h)' = Copies(m, h) + 0 /\ repeats'[m][h] = repeats[m][h] + 1
            BY <4>2, <4>3, <4>4
          <5> QED
            BY ONLY <2>2, <4>1, <5>1
        <4>5. CASE new = 1
          <5>1. Copies(m, h)' = Copies(m, h) + 1 /\ repeats'[m][h] = repeats[m][h] + 0
            BY <4>2, <4>3, <4>5
          <5> QED
            BY ONLY <2>2, <4>1, <5>1
        <4> QED
          BY <1>3, <4>4, <4>5
      <3>3. CASE kind = "offline"
        <4>1. /\ After(k, Note("online", m, h))' = After(k, Note("online", m, h)) + 0
              /\ After(k, Note("offline", m, h))' = After(k, Note("offline", m, h)) + 1
          BY <1>6, <2>3, <3>1, <3>3
        <4>2. Copies(m, h) = Copies(m, h)' + 1 /\ repeats'[m][h] = repeats[m][h] + 0
          BY <1>3, <2>1, <2>3, <3>3
        <4> QED
          BY ONLY <2>2, <4>1, <4>2
      <3> QED
        BY <1>3, <3>2, <3>3
    <2>4. CASE ~(Service[p] = m /\ AccessAddr[p] = h)
      <3>1. /\ After(k, Note("online", m, h))' = After(k, Note("online", m, h)) + 0
            /\ After(k, Note("offline", m, h))' = After(k, Note("offline", m, h)) + 0
        <4>1. CASE Service[p] \in watched
          <5>1. channel' = Append(channel, x)
            BY <1>4, <4>1
          <5>2. \A e : After(k, e)' = After(k, e) + (IF x = e THEN 1 ELSE 0)
            BY ONLY <1>1, <1>5, <5>1, k \in 0 .. Len(channel), AfterAppend
          <5> QED
            BY <1>6, <2>4, <5>2
        <4>2. CASE Service[p] \notin watched
          <5>1. \A e : After(k, e)' = After(k, e)
            BY <1>4, <4>2, AfterSame
          <5> QED
            BY ONLY <2>2, <5>1
        <4> QED
          BY <4>1, <4>2
      <3>2. Copies(m, h)' = Copies(m, h) + 0 \/ Copies(m, h) = Copies(m, h)' + 0
        BY <1>3, <2>4
      <3>3. repeats'[m][h] = repeats[m][h] + 0
        BY <1>3, <2>1, <2>4
      <3> QED
        BY ONLY <2>2, <3>1, <3>2, <3>3
    <2> QED
      BY <2>3, <2>4
  <1>8. \A m \in Methods, h \in Hosts : repeats[m][h] <= repeats'[m][h]
    <2> SUFFICES ASSUME NEW m \in Methods, NEW h \in Hosts PROVE repeats[m][h] <= repeats'[m][h]
      OBVIOUS
    <2>1. /\ repeats[m][h] \in Nat /\ repeats'[m][h] \in Nat /\ new \in {0, 1}
          /\ \/ repeats'[m][h] = repeats[m][h] + (1 - new)
             \/ repeats'[m][h] = repeats[m][h] + 0
      BY <1>3
    <2> QED
      BY ONLY <2>1
  <1> QED
    BY <1>3, <1>4, <1>7, <1>8

\* The two bounds move with what they bound: o is what is online on its way, c the
\* listing, f what is offline on its way, r the repetitions.
LEMMA Shift ==
  ASSUME NEW o \in Nat, NEW c \in Nat, NEW f \in Nat, NEW r \in Nat,
         NEW o1 \in Nat, NEW c1 \in Nat, NEW f1 \in Nat, NEW r1 \in Nat,
         o1 + c + f + r = o + c1 + f1 + r1, r <= r1
  PROVE  /\ o <= c + f + r => o1 <= c1 + f1 + r1
         /\ \A b \in Nat : /\ c + f <= b + o => c1 + f1 <= b + o1
                           /\ b + o <= c + f + r => b + o1 <= c1 + f1 + r1
OBVIOUS

\* What the lengths and the counts of the channel become.
LEMMA RegistryChannel ==
  ASSUME CInv, NEW p \in Providers, Announce(p) \/ Withdraw(p)
  PROVE  /\ Len(channel) \in Nat /\ Len(channel') \in Nat /\ Len(channel) <= Len(channel')
         /\ \A i \in 1 .. Len(channel) : channel'[i] = channel[i]
         /\ \A i \in 1 .. Len(channel') : i \notin 1 .. Len(channel) =>
              channel'[i].kind # "answer" /\ channel'[i].method \in watched
         /\ \A k \in 0 .. Len(channel') : k \in 0 .. Len(channel) \/ \A e : After(k, e)' = 0
         /\ \A k \in 0 .. Len(channel) : \A m, h : m \notin watched =>
              After(k, Note("online", m, h))' = 0 /\ After(k, Note("offline", m, h))' = 0
  <1>1. TypeOK /\ Watching
    BY DEF CInv, IInv
  <1>2. Len(channel) \in Nat
    BY <1>1, ChannelTypes
  <1>3. ASSUME NEW m, m \notin watched, NEW k \in 0 .. Len(channel)
        PROVE  \A h : After(k, Note("online", m, h)) = 0 /\ After(k, Note("offline", m, h)) = 0
    <2>1. k \in Nat
      BY <1>2
    <2> QED
      BY <1>1, <1>3, <2>1, UnwatchedSilent
  <1>4. CASE channel' = channel
    <2>1. \A k, e : After(k, e)' = After(k, e)
      BY <1>4, AfterSame
    <2>2. Len(channel') = Len(channel) /\ \A i : channel'[i] = channel[i]
      BY <1>4
    <2>3. \A k \in 0 .. Len(channel) : \A m, h : m \notin watched =>
              After(k, Note("online", m, h))' = 0 /\ After(k, Note("offline", m, h))' = 0
      BY <1>3, <2>1
    <2>4. Len(channel) <= Len(channel)
      BY ONLY <1>2
    <2> QED
      BY <1>2, <2>2, <2>3, <2>4
  <1>5. CASE \E x \in Notifications : channel' = Append(channel, x) /\ x.method \in watched
    <2>1. PICK x \in Notifications : channel' = Append(channel, x) /\ x.method \in watched
      BY <1>5
    <2>2. x \in Notifications \cup Answers /\ x.kind # "answer"
      BY DEF Notifications
    <2>3. /\ Len(channel') = Len(channel) + 1
          /\ \A i \in 1 .. Len(channel) : channel'[i] = channel[i]
          /\ channel'[Len(channel) + 1] = x
          /\ \A k \in 0 .. Len(channel) : \A e :
               After(k, e)' = After(k, e) + (IF x = e THEN 1 ELSE 0)
          /\ \A k : k = Len(channel) + 1 => \A e : After(k, e)' = 0
      BY <1>1, <2>1, <2>2, AfterAppend
    <2>4. ASSUME NEW k \in 0 .. Len(channel), NEW m, NEW h, m \notin watched,
                 NEW l \in {"online", "offline"}
          PROVE  After(k, Note(l, m, h))' = 0
      <3>1. x # Note(l, m, h)
        <4>1. Note(l, m, h).method = m
          BY DEF Note
        <4> QED
          BY <2>1, <2>4, <4>1
      <3>2. After(k, Note(l, m, h)) = 0
        BY <1>3, <2>4
      <3> QED
        BY <2>3, <3>1, <3>2
    <2>5. \A i \in 1 .. Len(channel') : i \in 1 .. Len(channel) \/ i = Len(channel) + 1
      BY <1>2, <2>3
    <2>6. \A k \in 0 .. Len(channel') : k \in 0 .. Len(channel) \/ k = Len(channel) + 1
      BY <1>2, <2>3
    <2>7. Len(channel') \in Nat /\ Len(channel) <= Len(channel')
      BY <1>2, <2>3
    <2>8. \A i \in 1 .. Len(channel') : i \notin 1 .. Len(channel) =>
              channel'[i].kind # "answer" /\ channel'[i].method \in watched
      BY ONLY <2>1, <2>2, <2>3, <2>5
    <2>9. \A k \in 0 .. Len(channel') : k \in 0 .. Len(channel) \/ \A e : After(k, e)' = 0
      BY <2>3, <2>6
    <2> QED
      BY <1>2, <2>3, <2>4, <2>7, <2>8, <2>9
  <1> QED
    BY <1>4, <1>5, Balance

\* A bag that is up to date, but for what is on its way, stays so.
LEMMA RegistryUpToDate ==
  ASSUME CInv, NEW p \in Providers, Announce(p) \/ Withdraw(p),
         NEW bag \in Bag, NEW k \in 0 .. Len(channel), NEW m \in watched, UpToDate(bag, k, m)
  PROVE  UpToDate(bag, k, m)'
  <1>1. TypeOK
    BY DEF CInv, IInv
  <1>7. m \in Methods
    BY <1>1 DEF TypeOK
  <1> SUFFICES ASSUME NEW h \in Hosts
               PROVE  /\ Copies(m, h)' + After(k, Note("offline", m, h))'
                           <= bag[h] + After(k, Note("online", m, h))'
                      /\ bag[h] + After(k, Note("online", m, h))'
                           <= Copies(m, h)' + After(k, Note("offline", m, h))' + repeats'[m][h]
    BY DEF UpToDate
  <1>2. /\ After(k, Note("online", m, h))'
               + Copies(m, h) + After(k, Note("offline", m, h)) + repeats[m][h]
             = After(k, Note("online", m, h))
               + Copies(m, h)' + After(k, Note("offline", m, h))' + repeats'[m][h]
        /\ Copies(m, h)' \in Nat /\ Copies(m, h) \in Nat
        /\ repeats[m][h] \in Nat /\ repeats'[m][h] \in Nat /\ repeats[m][h] <= repeats'[m][h]
    BY <1>7, Balance
  <1>3. k \in Nat
    BY <1>1, ChannelTypes
  <1>4. After(k, Note("online", m, h)) \in Nat /\ After(k, Note("offline", m, h)) \in Nat
    BY <1>1, <1>3, AfterNat
  <1>5. After(k, Note("online", m, h))' \in Nat /\ After(k, Note("offline", m, h))' \in Nat
    <2>1. TypeOK'
      BY RegistryStep DEF CInv, IInv
    <2> QED
      BY ONLY <1>3, <2>1, NextAfterNat
  <1>6. /\ Copies(m, h) + After(k, Note("offline", m, h)) <= bag[h] + After(k, Note("online", m, h))
        /\ bag[h] + After(k, Note("online", m, h))
             <= Copies(m, h) + After(k, Note("offline", m, h)) + repeats[m][h]
        /\ bag[h] \in Nat
    BY DEF UpToDate, Bag
  <1> QED
    BY ONLY <1>2, <1>4, <1>5, <1>6, SMTT(30)

LEMMA RegistryKeeps ==
  ASSUME CInv, NEW p \in Providers, Announce(p) \/ Withdraw(p)
  PROVE  CInv'
  <1>1. UNCHANGED <<watched, asking, pc, method, reply, hosts, overtaken, coherent>>
    BY DEF Announce, Withdraw, callVars, cacheVars, auxVars
  <1>2. IInv' /\ TypeOK
    BY RegistryStep DEF CInv, IInv
  <1>3. CacheCoherent /\ AnswersUpToDate /\ NoHostLeavesTwice /\ Watching /\ AnswersAsked
    BY DEF CInv
  <1>4. /\ Len(channel) \in Nat /\ Len(channel') \in Nat /\ Len(channel) <= Len(channel')
        /\ \A i \in 1 .. Len(channel) : channel'[i] = channel[i]
        /\ \A i \in 1 .. Len(channel') : i \notin 1 .. Len(channel) =>
             channel'[i].kind # "answer" /\ channel'[i].method \in watched
        /\ \A k \in 0 .. Len(channel') : k \in 0 .. Len(channel) \/ \A e : After(k, e)' = 0
        /\ \A k \in 0 .. Len(channel) : \A m, h : m \notin watched =>
             After(k, Note("online", m, h))' = 0 /\ After(k, Note("offline", m, h))' = 0
    BY RegistryChannel
  <1>5. ASSUME NEW bag \in Bag, NEW k \in 0 .. Len(channel), NEW m \in watched, UpToDate(bag, k, m)
        PROVE  UpToDate(bag, k, m)'
    BY <1>5, RegistryUpToDate
  <1>6. 0 \in 0 .. Len(channel)
    BY <1>4
  <1>7. CacheCoherent'
    <2> SUFFICES ASSUME NEW m \in coherent PROVE UpToDate(hosts[m], 0, m)'
      BY <1>1 DEF CacheCoherent
    <2>1. m \in watched /\ m \in Methods /\ hosts[m] \in Bag
      BY <1>2, <1>3 DEF Watching, TypeOK
    <2>2. PICK bag \in Bag : bag = hosts[m] /\ UpToDate(bag, 0, m)
      BY <1>3, <2>1 DEF CacheCoherent
    <2>3. UpToDate(bag, 0, m)'
      BY <1>5, <1>6, <2>1, <2>2
    <2> QED
      BY <1>1, <2>2, <2>3 DEF UpToDate
  <1>8. AnswersUpToDate'
    <2>1. ASSUME NEW i \in 1 .. Len(channel'), channel'[i].kind = "answer",
                 NEW m \in Methods, method[channel'[i].call] = m
          PROVE  UpToDate(channel[i].hosts, i, m)'
      <3>1. i \in 1 .. Len(channel) /\ channel'[i] = channel[i] /\ i \in 0 .. Len(channel)
        BY <1>4, <2>1
      <3>2. channel[i].hosts \in Bag /\ m \in watched
        BY <1>2, <1>3, <2>1, <3>1, ChannelTypes DEF Watching
      <3>3. PICK bag \in Bag : bag = channel[i].hosts /\ UpToDate(bag, i, m)
        BY <1>3, <2>1, <3>1, <3>2 DEF AnswersUpToDate
      <3>4. UpToDate(bag, i, m)'
        BY <1>5, <3>1, <3>2, <3>3
      <3> QED
        BY <3>1, <3>3, <3>4 DEF UpToDate
    <2>2. ASSUME NEW c \in Calls, pc[c] = "waiting", reply[c] # None, c \notin overtaken,
                 NEW m \in Methods, method[c] = m
          PROVE  UpToDate(reply[c], 0, m)'
      <3>1. reply[c] \in Bag /\ m \in watched
        BY <1>2, <1>3, <2>2 DEF Watching, TypeOK
      <3>2. PICK bag \in Bag : bag = reply[c] /\ UpToDate(bag, 0, m)
        BY <1>3, <2>2, <3>1 DEF AnswersUpToDate
      <3>3. UpToDate(bag, 0, m)'
        BY <1>5, <1>6, <3>1, <3>2
      <3> QED
        BY <1>1, <3>2, <3>3 DEF UpToDate
    <2> QED
      BY <1>1, <2>1, <2>2 DEF AnswersUpToDate
  <1>9. NoHostLeavesTwice'
    <2> SUFFICES ASSUME NEW k \in 0 .. Len(channel'), NEW m \in Methods, NEW h \in Hosts
                 PROVE  After(k, Note("online", m, h))'
                          <= Copies(m, h)' + After(k, Note("offline", m, h))' + repeats'[m][h]
      BY DEF NoHostLeavesTwice
    <2>0. k \in Nat
      BY <1>4
    <2>1. /\ Copies(m, h)' \in Nat /\ Copies(m, h) \in Nat
          /\ repeats[m][h] \in Nat /\ repeats'[m][h] \in Nat
      BY Balance
    <2>2. After(k, Note("online", m, h))' \in Nat /\ After(k, Note("offline", m, h))' \in Nat
      BY <1>2, <2>0, NextAfterNat DEF IInv
    <2>3. CASE k \in 0 .. Len(channel) /\ m \in watched
      <3>1. After(k, Note("online", m, h))'
                + Copies(m, h) + After(k, Note("offline", m, h)) + repeats[m][h]
              = After(k, Note("online", m, h))
                + Copies(m, h)' + After(k, Note("offline", m, h))' + repeats'[m][h]
        BY <2>3, Balance
      <3>2. After(k, Note("online", m, h)) \in Nat /\ After(k, Note("offline", m, h)) \in Nat
        BY <1>2, <2>0, AfterNat
      <3>3. After(k, Note("online", m, h))
              <= Copies(m, h) + After(k, Note("offline", m, h)) + repeats[m][h]
        BY <1>3, <2>3 DEF NoHostLeavesTwice
      <3> QED
        BY ONLY <2>1, <2>2, <3>1, <3>2, <3>3
    <2>4. CASE ~(k \in 0 .. Len(channel) /\ m \in watched)
      <3>1. After(k, Note("online", m, h))' = 0
        BY <1>4, <2>4
      <3> QED
        BY ONLY <2>1, <2>2, <3>1
    <2> QED
      BY <2>3, <2>4
  <1>10. Watching'
    <2>1. ASSUME NEW i \in 1 .. Len(channel')
          PROVE  IF channel'[i].kind = "answer" THEN method[channel'[i].call] \in watched
                                                ELSE channel'[i].method \in watched
      BY <1>3, <1>4 DEF Watching
    <2> QED
      BY <1>1, <1>3, <2>1 DEF Watching
  <1>11. AnswersAsked'
    <2>1. ASSUME NEW i \in 1 .. Len(channel'), channel'[i].kind = "answer"
          PROVE  ~Unasked(channel[i].call)'
      <3>1. i \in 1 .. Len(channel) /\ channel'[i] = channel[i]
        BY <1>4, <2>1
      <3>2. ~Unasked(channel[i].call)
        BY <1>3, <2>1, <3>1 DEF AnswersAsked
      <3> QED
        BY <1>1, <3>1, <3>2 DEF Unasked
    <2> QED
      BY <1>1, <1>3, <2>1 DEF AnswersAsked, Unasked
  <1> QED
    BY <1>2, <1>7, <1>8, <1>9, <1>10, <1>11 DEF CInv

\* The answer lists what the registry lists, and comes behind all notifications.
LEMMA AnswerChannel ==
  ASSUME CInv, NEW c \in Calls, Answer(c)
  PROVE  /\ Len(channel) \in Nat /\ Len(channel') = Len(channel) + 1
         /\ \A i \in 1 .. Len(channel) : channel'[i] = channel[i]
         /\ channel'[Len(channel) + 1].kind = "answer"
         /\ channel'[Len(channel) + 1].call = c
         /\ channel'[Len(channel) + 1].hosts = Listing(method[c])
         /\ \A k \in 0 .. Len(channel) : \A l \in {"online", "offline"} : \A m, h :
              After(k, Note(l, m, h))' = After(k, Note(l, m, h))
         /\ \A k : k = Len(channel) + 1 => \A e : After(k, e)' = 0
  <1>1. TypeOK /\ method[c] \in Methods
    BY DEF CInv, IInv, TypeOK
  <1>2. Listing(method[c]) \in Bag
    BY <1>1, ListingTruthful
  <1> DEFINE msg == [kind |-> "answer", call |-> c, hosts |-> Listing(method[c])]
  <1>3. PICK x : x = msg
    OBVIOUS
  <1>4. x \in Answers /\ x.kind = "answer" /\ x.call = c /\ x.hosts = Listing(method[c])
    BY <1>2, <1>3 DEF Answers
  <1>5. channel' = Append(channel, x)
    BY <1>3 DEF Answer
  <1> HIDE DEF msg
  <1>6. x \in Notifications \cup Answers
    BY <1>4
  <1>7. /\ Len(channel) \in Nat /\ Len(channel') = Len(channel) + 1
        /\ \A i \in 1 .. Len(channel) : channel'[i] = channel[i]
        /\ channel'[Len(channel) + 1] = x
        /\ \A k \in 0 .. Len(channel) : \A e :
              After(k, e)' = After(k, e) + (IF x = e THEN 1 ELSE 0)
        /\ \A k : k = Len(channel) + 1 => \A e : After(k, e)' = 0
    BY ONLY <1>1, <1>5, <1>6, AfterAppend
  <1>8. ASSUME NEW k \in 0 .. Len(channel), NEW l \in {"online", "offline"}, NEW m, NEW h
        PROVE  After(k, Note(l, m, h))' = After(k, Note(l, m, h))
    <2>1. x # Note(l, m, h)
      BY <1>4, NoteFacts
    <2>2. k \in Nat
      BY <1>7
    <2>3. After(k, Note(l, m, h)) \in Nat
      BY <1>1, <2>2, AfterNat
    <2>4. After(k, Note(l, m, h))' = After(k, Note(l, m, h)) + 0
      BY <1>7, <2>1
    <2> QED
      BY ONLY <2>3, <2>4
  <1> QED
    BY <1>4, <1>7, <1>8

LEMMA AnswerKeeps ==
  ASSUME CInv, NEW c \in Calls, Answer(c)
  PROVE  CInv'
  <1>1. /\ UNCHANGED <<listed, repeats, pc, method, reply, hosts, overtaken, coherent>>
        /\ c \in asking /\ asking' = asking \ {c}
        /\ watched' = watched \cup {method[c]}
    BY DEF Answer, callVars, cacheVars, auxVars
  <1>2. IInv' /\ TypeOK
    BY AnswerStep DEF CInv, IInv
  <1>3. CacheCoherent /\ AnswersUpToDate /\ NoHostLeavesTwice /\ Watching /\ AnswersAsked
    BY DEF CInv
  <1>4. /\ Len(channel) \in Nat /\ Len(channel') = Len(channel) + 1
        /\ \A i \in 1 .. Len(channel) : channel'[i] = channel[i]
        /\ channel'[Len(channel) + 1].kind = "answer"
        /\ channel'[Len(channel) + 1].call = c
        /\ channel'[Len(channel) + 1].hosts = Listing(method[c])
        /\ \A k \in 0 .. Len(channel) : \A l \in {"online", "offline"} : \A m, h :
             After(k, Note(l, m, h))' = After(k, Note(l, m, h))
        /\ \A k : k = Len(channel) + 1 => \A e : After(k, e)' = 0
    BY AnswerChannel
  <1>5. \A m, h : Copies(m, h)' = Copies(m, h) /\ Copies(m, h) \in Nat
    BY <1>1, <1>2, CopiesNat DEF Copies
  <1>6. ASSUME NEW bag \in Bag, NEW k \in 0 .. Len(channel), NEW m, UpToDate(bag, k, m)
        PROVE  UpToDate(bag, k, m)'
    <2>1. \A h : /\ After(k, Note("online", m, h))' = After(k, Note("online", m, h))
                 /\ After(k, Note("offline", m, h))' = After(k, Note("offline", m, h))
      BY <1>4
    <2> QED
      BY <1>1, <1>5, <1>6, <2>1 DEF UpToDate
  <1>7. 0 \in 0 .. Len(channel)
    BY <1>4
  <1>8. \A i \in 1 .. Len(channel') : i \in 1 .. Len(channel) \/ i = Len(channel) + 1
    BY <1>4
  <1>9. \A k \in 0 .. Len(channel') : k \in 0 .. Len(channel) \/ k = Len(channel) + 1
    BY <1>4
  <1>10. CacheCoherent'
    <2> SUFFICES ASSUME NEW m \in coherent PROVE UpToDate(hosts[m], 0, m)'
      BY <1>1 DEF CacheCoherent
    <2>1. hosts[m] \in Bag
      BY <1>2 DEF TypeOK
    <2>2. PICK bag \in Bag : bag = hosts[m] /\ UpToDate(bag, 0, m)
      BY <1>3, <2>1 DEF CacheCoherent
    <2>3. UpToDate(bag, 0, m)'
      BY <1>6, <1>7, <2>2
    <2> QED
      BY <1>1, <2>2, <2>3 DEF UpToDate
  <1>11. AnswersUpToDate'
    <2>1. ASSUME NEW i \in 1 .. Len(channel'), channel'[i].kind = "answer",
                 NEW m \in Methods, method[channel'[i].call] = m
          PROVE  UpToDate(channel[i].hosts, i, m)'
      <3>1. CASE i \in 1 .. Len(channel)
        <4>1. channel'[i] = channel[i] /\ i \in 0 .. Len(channel)
          BY <1>4, <3>1
        <4>2. channel[i].hosts \in Bag
          BY <1>2, <2>1, <3>1, <4>1, ChannelTypes
        <4>3. PICK bag \in Bag : bag = channel[i].hosts /\ UpToDate(bag, i, m)
          BY <1>3, <2>1, <3>1, <4>1, <4>2 DEF AnswersUpToDate
        <4>4. UpToDate(bag, i, m)'
          BY <1>6, <4>1, <4>3
        <4> QED
          BY <4>1, <4>3, <4>4 DEF UpToDate
      <3>2. CASE i = Len(channel) + 1
        <4>1. \A e : After(i, e)' = 0
          BY <1>4, <3>2
        <4>2. m = method[c] /\ channel'[i].hosts = Listing(m)
          BY <1>4, <2>1, <3>2
        <4>3. \A h \in Hosts : Listing(m)[h] = Copies(m, h)
          BY DEF Listing
        <4>4. \A h \in Hosts : repeats'[m][h] \in Nat /\ Copies(m, h) \in Nat
          BY <1>1, <1>2, <1>5 DEF TypeOK, Bag
        <4> QED
          BY <1>5, <4>1, <4>2, <4>3, <4>4 DEF UpToDate
      <3> QED
        BY <1>8, <3>1, <3>2
    <2>2. ASSUME NEW d \in Calls, pc[d] = "waiting", reply[d] # None, d \notin overtaken,
                 NEW m \in Methods, method[d] = m
          PROVE  UpToDate(reply[d], 0, m)'
      <3>1. reply[d] \in Bag
        BY <1>2, <2>2 DEF TypeOK
      <3>2. PICK bag \in Bag : bag = reply[d] /\ UpToDate(bag, 0, m)
        BY <1>3, <2>2, <3>1 DEF AnswersUpToDate
      <3>3. UpToDate(bag, 0, m)'
        BY <1>6, <1>7, <3>2
      <3> QED
        BY <1>1, <3>2, <3>3 DEF UpToDate
    <2> QED
      BY <1>1, <2>1, <2>2 DEF AnswersUpToDate
  <1>12. NoHostLeavesTwice'
    <2> SUFFICES ASSUME NEW k \in 0 .. Len(channel'), NEW m \in Methods, NEW h \in Hosts
                 PROVE  After(k, Note("online", m, h))'
                          <= Copies(m, h)' + After(k, Note("offline", m, h))' + repeats'[m][h]
      BY DEF NoHostLeavesTwice
    <2>1. CASE k \in 0 .. Len(channel)
      <3>1. /\ After(k, Note("online", m, h))' = After(k, Note("online", m, h))
            /\ After(k, Note("offline", m, h))' = After(k, Note("offline", m, h))
        BY <1>4, <2>1
      <3> QED
        BY <1>1, <1>3, <1>5, <2>1, <3>1 DEF NoHostLeavesTwice
    <2>2. CASE k = Len(channel) + 1
      <3>1. After(k, Note("online", m, h))' = 0 /\ After(k, Note("offline", m, h))' = 0
        BY <1>4, <2>2
      <3>2. Copies(m, h)' \in Nat /\ repeats'[m][h] \in Nat
        BY <1>1, <1>2, <1>5 DEF TypeOK, Bag
      <3> QED
        BY ONLY <3>1, <3>2
    <2> QED
      BY <1>9, <2>1, <2>2
  <1>13. Watching'
    <2>1. ASSUME NEW i \in 1 .. Len(channel')
          PROVE  IF channel'[i].kind = "answer" THEN method[channel'[i].call] \in watched'
                                                ELSE channel'[i].method \in watched'
      BY <1>1, <1>3, <1>4, <1>8 DEF Watching
    <2> QED
      BY <1>1, <1>3, <2>1 DEF Watching
  <1>14. AnswersAsked'
    <2>0. ~Unasked(c)
      BY <1>1, <1>3 DEF AnswersAsked
    <2>1. ASSUME NEW i \in 1 .. Len(channel'), channel'[i].kind = "answer"
          PROVE  ~Unasked(channel[i].call)'
      <3>1. CASE i \in 1 .. Len(channel)
        <4>1. channel'[i] = channel[i] /\ ~Unasked(channel[i].call)
          BY <1>3, <1>4, <2>1, <3>1 DEF AnswersAsked
        <4> QED
          BY <1>1, <4>1 DEF Unasked
      <3>2. CASE i = Len(channel) + 1
        BY <1>1, <1>4, <2>0, <3>2 DEF Unasked
      <3> QED
        BY <1>8, <3>1, <3>2
    <2> QED
      BY <1>1, <1>3, <2>1 DEF AnswersAsked, Unasked
  <1> QED
    BY <1>2, <1>10, <1>11, <1>12, <1>13, <1>14 DEF CInv

-----------------------------------------------------------------------------
(* The loop thread.                                                           *)

\* What a handler of the first message has to establish; what is said of the
\* messages behind it holds by itself.
LEMMA LoopKeeps ==
  ASSUME CInv, channel # <<>>, channel' = Tail(channel),
         UNCHANGED <<listed, watched, repeats, asking, pc, method>>,
         coherent' \subseteq watched,
         \A m \in coherent' : UpToDate(hosts'[m], 1, m),
         \A c \in Calls : reply'[c] # None => ~Unasked(c),
         \A c \in Calls : pc[c] = "waiting" /\ reply'[c] # None /\ c \notin overtaken' =>
           method[c] \in watched,
         \A c \in Calls : pc[c] = "waiting" /\ reply'[c] # None /\ c \notin overtaken' =>
           \A m \in Methods : method[c] = m => UpToDate(reply'[c], 1, m)
  PROVE  /\ CacheCoherent' /\ AnswersUpToDate'
         /\ NoHostLeavesTwice' /\ Watching' /\ AnswersAsked'
  <1>1. TypeOK /\ AnswersUpToDate /\ NoHostLeavesTwice /\ Watching /\ AnswersAsked
    BY DEF CInv, IInv
  <1>2. /\ Len(channel) \in Nat /\ Len(channel') = Len(channel) - 1
        /\ \A i \in 1 .. Len(channel) - 1 : channel'[i] = channel[i + 1]
        /\ \A k \in Nat : \A e : After(k, e)' = After(k + 1, e)
    BY <1>1, AfterTail
  <1>3. /\ \A i \in 1 .. Len(channel') : i + 1 \in 1 .. Len(channel) /\ channel'[i] = channel[i + 1] /\ i \in Nat
        /\ \A k \in 0 .. Len(channel') : k + 1 \in 0 .. Len(channel) /\ k \in Nat
    BY <1>2
  <1>4. \A m, h : Copies(m, h)' = Copies(m, h)
    BY DEF Copies
  <1>5. \A e : After(0, e)' = After(1, e)
    <2>1. 0 \in Nat /\ 0 + 1 = 1
      OBVIOUS
    <2> QED
      BY <1>2, <2>1
  <1>6. CacheCoherent'
    BY <1>4, <1>5 DEF CacheCoherent, UpToDate
  <1>7. AnswersUpToDate'
    <2>1. ASSUME NEW i \in 1 .. Len(channel'), channel'[i].kind = "answer",
                 NEW m \in Methods, method[channel'[i].call] = m
          PROVE  UpToDate(channel[i].hosts, i, m)'
      <3>1. PICK j \in 1 .. Len(channel) : j = i + 1 /\ channel'[i] = channel[j]
        BY <1>3
      <3>2. UpToDate(channel[j].hosts, j, m)
        BY <1>1, <2>1, <3>1 DEF AnswersUpToDate
      <3>3. \A e : After(i, e)' = After(j, e)
        BY <1>2, <1>3, <3>1
      <3> QED
        BY <1>4, <3>1, <3>2, <3>3 DEF UpToDate
    <2>2. ASSUME NEW c \in Calls, pc[c] = "waiting", reply'[c] # None, c \notin overtaken',
                 NEW m \in Methods, method[c] = m
          PROVE  UpToDate(reply[c], 0, m)'
      <3>1. UpToDate(reply'[c], 1, m)
        BY <2>2
      <3> QED
        BY <1>4, <1>5, <3>1 DEF UpToDate
    <2> QED
      BY <2>1, <2>2 DEF AnswersUpToDate
  <1>8. NoHostLeavesTwice'
    <2> SUFFICES ASSUME NEW k \in 0 .. Len(channel'), NEW m \in Methods, NEW h \in Hosts
                 PROVE  After(k, Note("online", m, h))'
                          <= Copies(m, h)' + After(k, Note("offline", m, h))' + repeats'[m][h]
      BY DEF NoHostLeavesTwice
    <2>1. PICK j \in 0 .. Len(channel) : j = k + 1
      BY <1>3
    <2>2. \A e : After(k, e)' = After(j, e)
      BY <1>2, <1>3, <2>1
    <2>3. After(j, Note("online", m, h))
            <= Copies(m, h) + After(j, Note("offline", m, h)) + repeats[m][h]
      BY <1>1 DEF NoHostLeavesTwice
    <2> QED
      BY <1>4, <2>2, <2>3
  <1>9. Watching'
    <2>1. ASSUME NEW i \in 1 .. Len(channel')
          PROVE  IF channel'[i].kind = "answer" THEN method[channel'[i].call] \in watched
                                                ELSE channel'[i].method \in watched
      <3>1. PICK j \in 1 .. Len(channel) : j = i + 1 /\ channel'[i] = channel[j]
        BY <1>3
      <3> QED
        BY <1>1, <3>1 DEF Watching
    <2> QED
      BY <2>1 DEF Watching
  <1>10. AnswersAsked'
    <2>1. ASSUME NEW i \in 1 .. Len(channel'), channel'[i].kind = "answer"
          PROVE  ~Unasked(channel[i].call)'
      <3>1. PICK j \in 1 .. Len(channel) : j = i + 1 /\ channel'[i] = channel[j]
        BY <1>3
      <3>2. ~Unasked(channel[j].call)
        BY <1>1, <2>1, <3>1 DEF AnswersAsked
      <3> QED
        BY <3>1, <3>2 DEF Unasked
    <2>2. \A c \in asking' : ~Unasked(c)'
      BY <1>1 DEF AnswersAsked, Unasked
    <2>3. \A c \in Calls : Unasked(c)' => reply'[c] = None
      BY DEF Unasked
    <2> QED
      BY <2>1, <2>2, <2>3 DEF AnswersAsked
  <1> QED
    BY <1>6, <1>7, <1>8, <1>9, <1>10

\* What is said of the first message.
LEMMA HeadFacts ==
  ASSUME CInv, channel # <<>>, channel' = Tail(channel)
  PROVE  /\ Head(channel).kind = "answer" =>
              /\ Head(channel).call \in Calls /\ Head(channel).hosts \in Bag
              /\ method[Head(channel).call] \in Methods \cap watched
              /\ ~Unasked(Head(channel).call)
              /\ UpToDate(Head(channel).hosts, 1, method[Head(channel).call])
              /\ \A l \in {"online", "offline"} : \A m, h :
                   After(0, Note(l, m, h)) = After(1, Note(l, m, h))
         /\ Head(channel).kind # "answer" =>
              /\ Head(channel).method \in Methods /\ Head(channel).host \in Hosts
              /\ \A l, m, h : After(0, Note(l, m, h)) = After(1, Note(l, m, h)) +
                   (IF l = Head(channel).kind /\ m = Head(channel).method /\ h = Head(channel).host
                    THEN 1 ELSE 0)
  <1>1. TypeOK /\ AnswersUpToDate /\ Watching /\ AnswersAsked
    BY DEF CInv, IInv
  <1>2. /\ Len(channel) \in Nat /\ Len(channel) >= 1
        /\ Head(channel) = channel[1]
        /\ \A e : After(0, e) = After(1, e) + (IF Head(channel) = e THEN 1 ELSE 0)
    BY <1>1, AfterTail
  <1>3. 1 \in 1 .. Len(channel)
    BY <1>2
  <1>4. PICK x : x = channel[1]
    OBVIOUS
  <1>5. /\ x.kind = "answer" => /\ x \in Answers /\ x.call \in Calls /\ x.hosts \in Bag
                                /\ method[x.call] \in Methods
        /\ x.kind # "answer" => /\ x.method \in Methods /\ x.host \in Hosts
                                /\ x = Note(x.kind, x.method, x.host)
    BY <1>1, <1>3, <1>4, ChannelTypes
  <1>6. CASE x.kind = "answer"
    <2>1. method[x.call] \in watched /\ ~Unasked(x.call)
      BY <1>1, <1>3, <1>4, <1>6 DEF Watching, AnswersAsked
    <2>2. UpToDate(x.hosts, 1, method[x.call])
      BY <1>1, <1>3, <1>4, <1>5, <1>6 DEF AnswersUpToDate
    <2>3. ASSUME NEW l \in {"online", "offline"}, NEW m, NEW h
          PROVE  After(0, Note(l, m, h)) = After(1, Note(l, m, h))
      <3>1. x # Note(l, m, h)
        BY <1>5, <1>6, NoteFacts
      <3>2. After(1, Note(l, m, h)) \in Nat
        BY <1>1, AfterNat
      <3>3. After(0, Note(l, m, h)) = After(1, Note(l, m, h)) + 0
        BY <1>2, <1>4, <3>1
      <3> QED
        BY ONLY <3>2, <3>3
    <2> QED
      BY <1>2, <1>4, <1>5, <1>6, <2>1, <2>2, <2>3
  <1>7. CASE x.kind # "answer"
    <2>1. \A l, m, h : x = Note(l, m, h) <=> l = x.kind /\ m = x.method /\ h = x.host
      BY <1>5, <1>7, NoteFacts
    <2> QED
      BY <1>2, <1>4, <1>5, <1>7, <2>1
  <1> QED
    BY <1>6, <1>7

LEMMA OnAnswerKeeps == ASSUME CInv, OnAnswer PROVE CInv'
  <1>1. PICK c, bag : c = Head(channel).call /\ bag = Head(channel).hosts
    OBVIOUS
  <1>2. /\ channel # <<>> /\ Head(channel).kind = "answer" /\ channel' = Tail(channel)
        /\ UNCHANGED <<listed, watched, repeats, asking, pc, method, hosts, overtaken>>
        /\ reply' = [reply EXCEPT ![c] = bag]
        /\ coherent' = IF bag = NoHosts /\ hosts[method[c]] = NoHosts
                       THEN coherent \cup {method[c]} ELSE coherent
    BY <1>1 DEF OnAnswer, registryVars, cacheVars
  <1>3. IInv' /\ TypeOK
    BY OnAnswerStep DEF CInv, IInv
  <1>4. CacheCoherent /\ AnswersUpToDate /\ Watching /\ AnswersAsked
    BY DEF CInv
  <1>5. /\ c \in Calls /\ bag \in Bag /\ method[c] \in Methods \cap watched /\ ~Unasked(c)
        /\ UpToDate(bag, 1, method[c])
        /\ \A l \in {"online", "offline"} : \A m, h :
             After(0, Note(l, m, h)) = After(1, Note(l, m, h))
    BY <1>1, <1>2, HeadFacts
  <1>6. \A b, m : UpToDate(b, 0, m) <=> UpToDate(b, 1, m)
    BY <1>5 DEF UpToDate
  <1>7. coherent' \subseteq watched
    BY <1>2, <1>4, <1>5 DEF Watching
  <1>8. \A m \in coherent' : UpToDate(hosts'[m], 1, m)
    <2> SUFFICES ASSUME NEW m \in coherent' PROVE UpToDate(hosts[m], 1, m)
      BY <1>2
    <2>1. CASE m \in coherent
      BY <1>4, <1>6, <2>1 DEF CacheCoherent
    <2>2. CASE m \notin coherent
      <3>1. m = method[c] /\ hosts[m] = bag
        BY <1>2, <2>2
      <3> QED
        BY <1>5, <3>1
    <2> QED
      BY <2>1, <2>2
  <1>9. \A d \in Calls :
          /\ reply'[d] # None => ~Unasked(d)
          /\ pc[d] = "waiting" /\ reply'[d] # None /\ d \notin overtaken' => method[d] \in watched
    BY <1>2, <1>3, <1>4, <1>5 DEF TypeOK, Watching, AnswersAsked
  <1>10. ASSUME NEW d \in Calls, pc[d] = "waiting", reply'[d] # None, d \notin overtaken',
                NEW m \in Methods, method[d] = m
         PROVE  UpToDate(reply'[d], 1, m)
    <2>1. CASE d = c
      <3>1. reply'[d] = bag
        BY <1>2, <1>3, <1>5, <2>1 DEF TypeOK
      <3> QED
        BY <1>5, <1>10, <2>1, <3>1
    <2>2. CASE d # c
      <3>1. reply'[d] = reply[d]
        BY <1>2, <1>3, <1>5, <2>2 DEF TypeOK
      <3>2. UpToDate(reply[d], 0, m)
        BY <1>2, <1>4, <1>10, <3>1 DEF AnswersUpToDate
      <3> QED
        BY <1>6, <3>1, <3>2
    <2> QED
      BY <2>1, <2>2
  <1>11. CacheCoherent' /\ AnswersUpToDate' /\ NoHostLeavesTwice' /\ Watching' /\ AnswersAsked'
    BY <1>2, <1>7, <1>8, <1>9, <1>10, LoopKeeps
  <1> QED
    BY <1>3, <1>11 DEF CInv

\* A notification overtakes the answers of its service that are not installed yet,
\* so that those left are up to date without it.
LEMMA NotificationKeeps ==
  ASSUME CInv, OnOnline \/ OnOffline,
         \A n \in coherent : UpToDate(hosts'[n], 1, n)
  PROVE  CInv'
  <1>1. PICK m : m = Head(channel).method
    OBVIOUS
  <1>2. /\ channel # <<>> /\ Head(channel).kind # "answer" /\ channel' = Tail(channel)
        /\ UNCHANGED <<listed, watched, repeats, asking, pc, method, reply, coherent>>
        /\ overtaken' = overtaken \cup
             {c \in Calls : pc[c] = "waiting" /\ reply[c] # None /\ method[c] = m}
    BY <1>1 DEF OnOnline, OnOffline, registryVars, callVars, Overtake
  <1>3. IInv' /\ TypeOK
    BY OnOnlineStep, OnOfflineStep DEF CInv, IInv
  <1>4. AnswersUpToDate /\ Watching /\ AnswersAsked
    BY DEF CInv
  <1>5. \A l, n, h : n # m => After(0, Note(l, n, h)) = After(1, Note(l, n, h))
    <2> SUFFICES ASSUME NEW l, NEW n, NEW h, n # m
                 PROVE  After(0, Note(l, n, h)) = After(1, Note(l, n, h))
      OBVIOUS
    <2>1. After(0, Note(l, n, h)) = After(1, Note(l, n, h)) + 0
      BY <1>1, <1>2, HeadFacts
    <2>2. After(1, Note(l, n, h)) \in Nat
      BY <1>3, AfterNat
    <2> QED
      BY ONLY <2>1, <2>2
  <1>6. ASSUME NEW d \in Calls, pc[d] = "waiting", reply'[d] # None, d \notin overtaken',
               NEW n \in Methods, method[d] = n
        PROVE  UpToDate(reply'[d], 1, n)
    <2>1. n # m /\ d \notin overtaken /\ reply'[d] = reply[d]
      BY <1>2, <1>6
    <2>2. UpToDate(reply[d], 0, n)
      BY <1>2, <1>4, <1>6, <2>1 DEF AnswersUpToDate
    <2> QED
      BY <1>5, <2>1, <2>2 DEF UpToDate
  <1>7. /\ coherent' \subseteq watched
        /\ \A d \in Calls :
             /\ reply'[d] # None => ~Unasked(d)
             /\ pc[d] = "waiting" /\ reply'[d] # None /\ d \notin overtaken' =>
                  method[d] \in watched
    BY <1>2, <1>4 DEF Watching, AnswersAsked
  <1>8. \A n \in coherent' : UpToDate(hosts'[n], 1, n)
    BY <1>2
  <1>9. CacheCoherent' /\ AnswersUpToDate' /\ NoHostLeavesTwice' /\ Watching' /\ AnswersAsked'
    BY <1>2, <1>6, <1>7, <1>8, LoopKeeps
  <1> QED
    BY <1>3, <1>9 DEF CInv

LEMMA OnOnlineKeeps == ASSUME CInv, OnOnline PROVE CInv'
  <1>1. PICK m, h : m = Head(channel).method /\ h = Head(channel).host
    OBVIOUS
  <1>2. /\ channel # <<>> /\ Head(channel).kind = "online" /\ channel' = Tail(channel)
        /\ hosts' = [hosts EXCEPT ![m][h] = @ + 1]
    BY <1>1 DEF OnOnline
  <1>3. TypeOK /\ CacheCoherent
    BY DEF CInv, IInv
  <1>4. m \in Methods /\ h \in Hosts
    BY <1>1, <1>2, HeadFacts
  <1>5. ASSUME NEW n \in coherent, NEW g \in Hosts
        PROVE  /\ Copies(n, g) + After(1, Note("offline", n, g))
                    <= hosts'[n][g] + After(1, Note("online", n, g))
               /\ hosts'[n][g] + After(1, Note("online", n, g))
                    <= Copies(n, g) + After(1, Note("offline", n, g)) + repeats[n][g]
    <2>1. /\ n \in Methods /\ hosts[n][g] \in Nat
          /\ hosts'[n][g] = hosts[n][g] + (IF n = m /\ g = h THEN 1 ELSE 0)
      BY <1>2, <1>3, <1>4 DEF TypeOK, Bag
    <2>2. /\ Copies(n, g) + After(0, Note("offline", n, g))
               <= hosts[n][g] + After(0, Note("online", n, g))
          /\ hosts[n][g] + After(0, Note("online", n, g))
               <= Copies(n, g) + After(0, Note("offline", n, g)) + repeats[n][g]
      BY <1>3 DEF CacheCoherent, UpToDate
    <2>3. /\ After(0, Note("online", n, g)) = After(1, Note("online", n, g)) + (IF n = m /\ g = h THEN 1 ELSE 0)
          /\ After(0, Note("offline", n, g)) = After(1, Note("offline", n, g)) + 0
      BY <1>1, <1>2, HeadFacts
    <2>4. After(1, Note("online", n, g)) \in Nat /\ After(1, Note("offline", n, g)) \in Nat
          /\ Copies(n, g) \in Nat /\ repeats[n][g] \in Nat
      BY <1>3, <2>1, AfterNat, CopiesNat DEF TypeOK, Bag
    <2> QED
      BY ONLY <2>1, <2>2, <2>3, <2>4
  <1>6. \A n \in coherent : UpToDate(hosts'[n], 1, n)
    BY <1>5 DEF UpToDate
  <1> QED
    BY <1>6, NotificationKeeps

\* The host that is gone is in a cache that is up to date, and stays in it if its
\* registration was repeated.
LEMMA OnOfflineKeeps == ASSUME CInv, OnOffline PROVE CInv'
  <1>1. PICK m, h : m = Head(channel).method /\ h = Head(channel).host
    OBVIOUS
  <1>2. /\ channel # <<>> /\ Head(channel).kind = "offline" /\ channel' = Tail(channel)
        /\ hosts' = IF hosts[m][h] > 0 THEN [hosts EXCEPT ![m][h] = @ - 1] ELSE hosts
    BY <1>1 DEF OnOffline
  <1>3. TypeOK /\ CacheCoherent /\ NoHostLeavesTwice
    BY DEF CInv, IInv
  <1>4. m \in Methods /\ h \in Hosts
    BY <1>1, <1>2, HeadFacts
  <1>5. 1 \in 0 .. Len(channel)
    BY <1>2, <1>3, AfterTail
  <1>6. ASSUME NEW n \in coherent, NEW g \in Hosts
        PROVE  /\ Copies(n, g) + After(1, Note("offline", n, g))
                    <= hosts'[n][g] + After(1, Note("online", n, g))
               /\ hosts'[n][g] + After(1, Note("online", n, g))
                    <= Copies(n, g) + After(1, Note("offline", n, g)) + repeats[n][g]
    <2>1. n \in Methods /\ hosts[n][g] \in Nat
      BY <1>3 DEF TypeOK, Bag
    <2>2. /\ Copies(n, g) + After(0, Note("offline", n, g))
               <= hosts[n][g] + After(0, Note("online", n, g))
          /\ hosts[n][g] + After(0, Note("online", n, g))
               <= Copies(n, g) + After(0, Note("offline", n, g)) + repeats[n][g]
      BY <1>3 DEF CacheCoherent, UpToDate
    <2>3. /\ After(0, Note("online", n, g)) = After(1, Note("online", n, g)) + 0
          /\ After(0, Note("offline", n, g)) = After(1, Note("offline", n, g)) + (IF n = m /\ g = h THEN 1 ELSE 0)
      BY <1>1, <1>2, HeadFacts
    <2>4. After(1, Note("online", n, g)) \in Nat /\ After(1, Note("offline", n, g)) \in Nat
          /\ Copies(n, g) \in Nat /\ repeats[n][g] \in Nat
      BY <1>3, <2>1, AfterNat, CopiesNat DEF TypeOK, Bag
    <2>5. After(1, Note("online", n, g))
            <= Copies(n, g) + After(1, Note("offline", n, g)) + repeats[n][g]
      BY <1>3, <1>5, <2>1 DEF NoHostLeavesTwice
    <2>6. CASE n = m /\ g = h
      <3>1. /\ Copies(n, g) + After(1, Note("offline", n, g)) + 1
                 <= hosts[n][g] + After(1, Note("online", n, g))
            /\ hosts[n][g] + After(1, Note("online", n, g))
                 <= Copies(n, g) + After(1, Note("offline", n, g)) + 1 + repeats[n][g]
        <4>1. /\ After(0, Note("online", n, g)) = After(1, Note("online", n, g))
              /\ After(0, Note("offline", n, g)) = After(1, Note("offline", n, g)) + 1
          BY <2>3, <2>4, <2>6
        <4> QED
          BY ONLY <2>1, <2>2, <2>4, <4>1
      <3>2. CASE hosts[n][g] > 0
        <4>1. hosts'[n][g] = hosts[n][g] - 1
          BY <1>2, <1>3, <1>4, <2>6, <3>2 DEF TypeOK, Bag
        <4> QED
          BY ONLY <2>1, <2>4, <3>1, <4>1, SMTT(30)
      <3>3. CASE ~(hosts[n][g] > 0)
        <4>1. hosts'[n][g] = 0 /\ hosts[n][g] = 0
          BY <1>2, <2>1, <2>6, <3>3
        <4> QED
          BY ONLY <2>4, <2>5, <3>1, <4>1, SMTT(30)
      <3> QED
        BY <3>2, <3>3
    <2>7. CASE ~(n = m /\ g = h)
      <3>1. hosts'[n][g] = hosts[n][g]
        BY <1>2, <1>3, <1>4, <2>1, <2>7 DEF TypeOK, Bag
      <3> QED
        BY ONLY <2>1, <2>2, <2>3, <2>4, <2>7, <3>1
    <2> QED
      BY <2>6, <2>7
  <1>7. \A n \in coherent : UpToDate(hosts'[n], 1, n)
    BY <1>6 DEF UpToDate
  <1> QED
    BY <1>7, NotificationKeeps

\* With the connection the client's claims are gone, and what was on its way.
LEMMA LostKeeps == ASSUME CInv, ConnectionLost PROVE CInv'
  <1>1. /\ UNCHANGED <<listed, repeats, pc, method, reply, hosts>>
        /\ asking' = {} /\ channel' = <<>> /\ coherent' = {}
        /\ overtaken' = overtaken \cup {c \in Calls : pc[c] = "waiting" /\ reply[c] # None}
    BY DEF ConnectionLost, callVars, cacheVars
  <1>2. IInv'
    BY LostStep DEF CInv
  <1>3. TypeOK' /\ AnswersAsked
    BY <1>2 DEF CInv, IInv
  <1>4. Len(channel') = 0
    BY <1>1
  <1>5. CacheCoherent' /\ AnswersUpToDate' /\ Watching'
    BY <1>1, <1>4 DEF CacheCoherent, AnswersUpToDate, Watching
  <1>6. AnswersAsked'
    BY <1>1, <1>3, <1>4 DEF AnswersAsked, Unasked
  <1>7. NoHostLeavesTwice'
    <2> SUFFICES ASSUME NEW k \in 0 .. Len(channel'), NEW m \in Methods, NEW h \in Hosts
                 PROVE  After(k, Note("online", m, h))'
                          <= Copies(m, h)' + After(k, Note("offline", m, h))' + repeats'[m][h]
      BY DEF NoHostLeavesTwice
    <2>1. \A e : {i \in k + 1 .. Len(channel') : channel'[i] = e} = {}
      BY <1>4
    <2>2. \A e : After(k, e)' = 0
      BY <2>1, FS_EmptySet DEF After
    <2>3. TypeOK
      BY DEF CInv, IInv
    <2>4. Copies(m, h) \in Nat
      BY <2>3, CopiesNat
    <2>5. Copies(m, h)' = Copies(m, h)
      BY <1>1 DEF Copies
    <2>6. repeats'[m][h] \in Nat
      BY <1>3 DEF TypeOK, Bag
    <2> QED
      BY ONLY <2>2, <2>4, <2>5, <2>6
  <1> QED
    BY <1>2, <1>5, <1>6, <1>7 DEF CInv

-----------------------------------------------------------------------------

LEMMA InitCInv == Init => CInv
  <1> SUFFICES ASSUME Init PROVE CInv
    OBVIOUS
  <1>1. IInv
    BY InitIInv
  <1>2. channel = <<>> /\ coherent = {} /\ asking = {} /\ reply = [c \in Calls |-> None]
        /\ Len(channel) = 0
    BY DEF Init
  <1>3. CacheCoherent /\ AnswersUpToDate /\ Watching /\ AnswersAsked
    BY <1>2 DEF CacheCoherent, AnswersUpToDate, Watching, AnswersAsked
  <1>4. \A e : After(0, e) = 0
    <2>1. channel \in Seq({})
      BY <1>2, EmptySeq
    <2> QED
      BY <1>2, <2>1, CountBehind, AfterIsPlaces
  <1>5. \A m, h : Copies(m, h) \in Nat
    BY <1>1, CopiesNat DEF IInv
  <1>6. NoHostLeavesTwice
    <2> SUFFICES ASSUME NEW k \in 0 .. Len(channel), NEW m \in Methods, NEW h \in Hosts
                 PROVE  After(k, Note("online", m, h))
                          <= Copies(m, h) + After(k, Note("offline", m, h)) + repeats[m][h]
      BY DEF NoHostLeavesTwice
    <2>1. k = 0
      BY <1>2
    <2>2. After(k, Note("online", m, h)) = 0 /\ After(k, Note("offline", m, h)) = 0
      BY <1>4, <2>1
    <2>3. Copies(m, h) \in Nat /\ repeats[m][h] \in Nat
      BY <1>1, <1>5 DEF IInv, TypeOK, Bag
    <2> QED
      BY ONLY <2>2, <2>3
  <1> QED
    BY <1>1, <1>3, <1>6 DEF CInv

LEMMA CInvStep == CInv /\ [Next]_vars => CInv'
  <1> SUFFICES ASSUME CInv, [Next]_vars PROVE CInv'
    OBVIOUS
  <1>1. CASE \E p \in Providers : Announce(p) \/ Withdraw(p)
    BY <1>1, RegistryKeeps
  <1>2. ASSUME NEW c \in Calls, Answer(c) \/ Discover(c) \/ GetClient(c) \/ PutClient(c)
        PROVE  CInv'
    BY <1>2, AnswerKeeps, AskKeeps, NullKeeps, InstallKeeps, OthersKeep DEF Discover
  <1>3. CASE LoopStep
    BY <1>3, OnAnswerKeeps, OnOnlineKeeps, OnOfflineKeeps DEF LoopStep
  <1>4. CASE UNCHANGED vars
    <2>1. UNCHANGED <<listed, watched, repeats, channel, method, reply, overtaken, asking, pc,
                      hosts, coherent>>
      BY <1>4 DEF vars, registryVars, netVars, callVars, cacheVars, auxVars
    <2>2. IInv'
      BY <1>4, IInvStep DEF CInv
    <2>3. coherent \subseteq watched /\ CacheCoherent
      BY DEF CInv, Watching
    <2>4. \A d \in Calls : Unasked(d)' <=> Unasked(d)
      BY <2>1 DEF Unasked
    <2>5. /\ AnswersUpToDate' /\ NoHostLeavesTwice' /\ Watching' /\ AnswersAsked'
          /\ \A k, e : After(k, e)' = After(k, e)
          /\ \A m, h : Copies(m, h)' = Copies(m, h)
      BY <2>1, <2>3, <2>4, CallKeeps
    <2>6. CacheCoherent'
      BY <2>1, <2>3, <2>5 DEF CacheCoherent, UpToDate
    <2> QED
      BY <2>2, <2>5, <2>6 DEF CInv
  <1>5. CASE ConnectionLost
    BY <1>5, LostKeeps
  <1> QED
    BY <1>1, <1>2, <1>3, <1>4, <1>5 DEF Next

\* While the connection lasts, a cache filled by an answer no notification overtook
\* holds what the registry lists, copy by copy, but for the notifications on their
\* way; no host that is listed is missing, and one is in it more often than it is
\* listed at most as often as its registration was repeated.
THEOREM CacheAlwaysCoherent == Spec => []CacheCoherent
  <1>1. CInv => CacheCoherent
    BY DEF CInv
  <1> QED
    BY <1>1, InitCInv, CInvStep, PTL DEF Spec
=============================================================================
