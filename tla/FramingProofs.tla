---------------------------- MODULE FramingProofs ----------------------------
(* Proofs about Framing: messages of any sizes, field widths, limit and cuts. *)
EXTENDS Framing, SequenceTheorems, TLAPS

FrameLen(m) == LenField + TotalLen(m)

\* The inductive invariant: the unread bytes are frames, for some offsets.
IInv ==
  /\ TypeOK /\ RefusedOnlyIfTooLarge /\ BufferBounded
  /\ \E off \in [Nat -> Nat] : FramesAt(off)

-----------------------------------------------------------------------------
(* Frames and sequences of bytes.                                            *)

LEMMA FrameLenType == \A m \in Messages : FrameLen(m) \in Nat /\ FrameLen(m) >= 1
                                          /\ TotalLen(m) \in Nat
BY SizesAssumption DEF FrameLen, TotalLen

\* A function on an interval is a sequence of that length.
LEMMA IntervalSeq ==
  ASSUME NEW S, NEW n \in Nat, NEW f \in [1 .. n -> S]
  PROVE  f \in Seq(S) /\ Len(f) = n
  <1>1. f \in Seq(S)
    BY SeqDef
  <1>2. 1 .. Len(f) = 1 .. n /\ Len(f) \in Nat
    BY <1>1, LenProperties
  <1> QED
    BY <1>1, <1>2

LEMMA SerializeProperties ==
  ASSUME NEW m \in Messages
  PROVE  /\ Serialize(m) \in Seq(Bytes)
         /\ Len(Serialize(m)) = FrameLen(m)
         /\ \A i \in 1 .. FrameLen(m) : Serialize(m)[i] = <<m, i>>
  <1>1. /\ FrameLen(m) \in Nat
        /\ LenField + MTypeField + IdLenField + IdLen[m] + BodyLen[m] = FrameLen(m)
    BY SizesAssumption, FrameLenType DEF FrameLen, TotalLen
  <1>2. Serialize(m) = [i \in 1 .. FrameLen(m) |-> <<m, i>>]
    BY <1>1 DEF Serialize
  <1>3. Serialize(m) \in [1 .. FrameLen(m) -> Bytes]
    BY <1>1, <1>2 DEF Bytes
  <1>4. Serialize(m) \in Seq(Bytes) /\ Len(Serialize(m)) = FrameLen(m)
    BY <1>1, <1>3, IntervalSeq
  <1> QED
    BY <1>1, <1>2, <1>4

\* What lies before and after a cut.
LEMMA Cut ==
  ASSUME NEW s \in Seq(Bytes), NEW n \in 0 .. Len(s)
  PROVE  /\ SubSeq(s, 1, n) \in Seq(Bytes) /\ Len(SubSeq(s, 1, n)) = n
         /\ \A i \in 1 .. n : SubSeq(s, 1, n)[i] = s[i]
         /\ SubSeq(s, n + 1, Len(s)) \in Seq(Bytes)
         /\ Len(SubSeq(s, n + 1, Len(s))) = Len(s) - n
         /\ \A i \in 1 .. Len(s) - n : SubSeq(s, n + 1, Len(s))[i] = s[n + i]
  <1>1. /\ Len(s) \in Nat /\ n \in Int /\ n + 1 \in Int /\ Len(s) \in Int /\ 1 \in Int
        /\ \A i \in 1 .. Len(s) : s[i] \in Bytes
    BY LenProperties, ElementOfSeq
  <1>2. (\A i \in 1 .. n : s[i] \in Bytes) /\ (\A i \in n + 1 .. Len(s) : s[i] \in Bytes)
    BY <1>1
  <1>3. /\ SubSeq(s, 1, n) \in Seq(Bytes)
        /\ Len(SubSeq(s, 1, n)) = IF 1 <= n THEN n - 1 + 1 ELSE 0
        /\ \A i \in 1 .. n - 1 + 1 : SubSeq(s, 1, n)[i] = s[1 + i - 1]
    BY <1>1, <1>2, SubSeqProperties
  <1>4. /\ SubSeq(s, n + 1, Len(s)) \in Seq(Bytes)
        /\ Len(SubSeq(s, n + 1, Len(s))) = IF n + 1 <= Len(s) THEN Len(s) - (n + 1) + 1 ELSE 0
        /\ \A i \in 1 .. Len(s) - (n + 1) + 1 : SubSeq(s, n + 1, Len(s))[i] = s[n + 1 + i - 1]
    BY <1>1, <1>2, SubSeqProperties
  <1> QED
    BY <1>1, <1>3, <1>4

\* The lengths and the elements of the variables that are sequences.
LEMMA Sizes ==
  ASSUME TypeOK
  PROVE  /\ Len(sent) \in Nat /\ Len(handled) \in Nat /\ Len(wire) \in Nat /\ Len(buffer) \in Nat
         /\ \A k \in 1 .. Len(sent) : sent[k] \in Messages
  <1>1. sent \in Seq(Messages) /\ handled \in Seq(Messages) /\ wire \in Seq(Bytes) /\ buffer \in Seq(Bytes)
    BY DEF TypeOK
  <1>2. Len(sent) \in Nat
    BY <1>1, LenProperties
  <1>3. Len(handled) \in Nat
    BY <1>1, LenProperties
  <1>4. Len(wire) \in Nat
    BY <1>1, LenProperties
  <1>5. Len(buffer) \in Nat
    BY <1>1, LenProperties
  <1>6. \A k \in 1 .. Len(sent) : sent[k] \in Messages
    BY <1>1, ElementOfSeq
  <1> QED
    BY <1>2, <1>3, <1>4, <1>5, <1>6

-----------------------------------------------------------------------------
(* Where a complete frame begins, and how long it is.                        *)

\* If there are unread bytes, the first is that of the next message's frame, and
\* peekInt32 reads its length.
LEMMA FirstFrame ==
  ASSUME TypeOK, NEW off \in [Nat -> Nat], FramesAt(off), buffer # <<>>
  PROVE  /\ Len(handled) < Len(sent)
         /\ Len(handled) + 1 \in 1 .. Len(sent)
         /\ sent[Len(handled) + 1] \in Messages
         /\ Head(buffer) = <<sent[Len(handled) + 1], 1>>
         /\ PeekLen(buffer) = TotalLen(sent[Len(handled) + 1])
         /\ off[Len(handled) + 2] = FrameLen(sent[Len(handled) + 1])
  <1>0. /\ Len(handled) <= Len(sent)
        /\ off[Len(handled) + 1] = 0
        /\ off[Len(sent) + 1] = Len(buffer) + Len(wire)
        /\ \A k \in Len(handled) + 1 .. Len(sent) :
             off[k + 1] = off[k] + LenField + TotalLen(sent[k])
        /\ \A k \in Len(handled) + 1 .. Len(sent) :
             \A i \in 1 .. LenField + TotalLen(sent[k]) : Unread(off[k] + i) = <<sent[k], i>>
    BY DEF FramesAt
  <1>1. /\ Len(buffer) \in Nat /\ Len(buffer) >= 1 /\ Len(wire) \in Nat
        /\ Len(handled) \in Nat /\ Len(sent) \in Nat
        /\ \A k \in 1 .. Len(sent) : sent[k] \in Messages
    <2>1. Len(buffer) # 0
      BY EmptySeq DEF TypeOK
    <2> QED
      BY <2>1, Sizes
  <1>2. Len(handled) < Len(sent)
    <2>1. CASE Len(handled) = Len(sent)
      <3>1. 0 = Len(buffer) + Len(wire)
        BY <1>0, <2>1
      <3> QED
        BY <3>1, <1>1
    <2>2. Len(handled) <= Len(sent)
      BY <1>0
    <2> QED
      BY ONLY <2>1, <2>2, <1>1
  <1> DEFINE k == Len(handled) + 1
             m == sent[k]
  <1>3. k \in 1 .. Len(sent) /\ k \in Len(handled) + 1 .. Len(sent) /\ k + 1 = Len(handled) + 2
    <2> HIDE DEF m
    <2> DEFINE l == Len(handled)
               n == Len(sent)
    <2>1. l \in Nat /\ n \in Nat /\ l < n
      BY <1>1, <1>2
    <2> HIDE DEF l, n
    <2>2. l + 1 \in 1 .. n /\ l + 1 \in l + 1 .. n /\ (l + 1) + 1 = l + 2
      BY ONLY <2>1
    <2> QED
      BY <2>2 DEF l, n, k
  <1>4. m \in Messages
    BY <1>1, <1>3
  <1>5. off[k] = 0 /\ off[k + 1] = off[k] + LenField + TotalLen(m)
    BY <1>0, <1>3
  <1>6. \A i \in 1 .. LenField + TotalLen(m) : Unread(off[k] + i) = <<m, i>>
    BY <1>0, <1>3
  <1> HIDE DEF k, m
  <1>7. TotalLen(m) \in Nat /\ LenField \in Nat /\ LenField >= 1
    BY <1>4, FrameLenType, SizesAssumption
  <1>8. off[k + 1] = FrameLen(m) /\ Unread(1) = <<m, 1>>
    BY <1>5, <1>6, <1>7, SMTT(30) DEF FrameLen
  <1>9. Head(buffer) = <<m, 1>>
    <2>1. 1 <= Len(buffer)
      BY <1>1
    <2>2. Unread(1) = buffer[1]
      BY <2>1 DEF Unread
    <2>3. Head(buffer) = buffer[1]
      BY HeadTailProperties DEF TypeOK
    <2> QED
      BY <1>8, <2>2, <2>3
  <1>10. PeekLen(buffer) = TotalLen(m)
    BY <1>9 DEF PeekLen
  <1> QED
    BY <1>2, <1>3, <1>4, <1>8, <1>9, <1>10 DEF k, m

LEMMA Between ==
  ASSUME NEW h \in Nat, NEW n \in Nat, NEW k \in h + 1 .. n
  PROVE  /\ k \in 1 .. n /\ k \in Nat /\ k + 1 \in Nat
         /\ k \in h + 1 .. n + 1 /\ k + 1 \in h + 1 .. n + 1
         /\ n + 1 \in h + 1 .. n + 1 /\ k + 1 <= n + 1
OBVIOUS

LEMMA Within ==
  ASSUME NEW a \in Nat, NEW f \in Nat, NEW e \in Nat, NEW i \in 1 .. f, a + f <= e
  PROVE  a + i \in 1 .. e
OBVIOUS

\* A byte of what was put behind w bytes on the wire.
LEMMA Behind ==
  ASSUME NEW b \in Nat, NEW w \in Nat, NEW f \in Nat, NEW e \in Nat, e = b + w, NEW i \in 1 .. f
  PROVE  /\ ~(e + i <= b) /\ e + i - b = w + i
         /\ w + i \in 1 .. w + f /\ ~(w + i <= w) /\ w + i - w = i
OBVIOUS

\* Offsets of one frame more, of length f, behind those of h + 1 .. n.
Extended(off2, off, h, n, f) ==
  /\ \A k \in h + 1 .. n + 1 : off2[k] = off[k]
  /\ off2[n + 2] = off[n + 1] + f
  /\ NonDecreasing(off2, h + 1, n + 2)

\* Offsets when the first of them, of length f, is gone.
Shifted(off2, off, h, n, f) ==
  /\ \A k \in h + 2 .. n + 1 : off2[k] = off[k] - f
  /\ NonDecreasing(off2, h + 2, n + 1)

LEMMA Extend ==
  ASSUME NEW h \in Nat, NEW n \in Nat, h <= n, NEW f \in Nat, NEW off \in [Nat -> Nat],
         NonDecreasing(off, h + 1, n + 1)
  PROVE  \E off2 \in [Nat -> Nat] : Extended(off2, off, h, n, f)
  <1> DEFINE off2 == [off EXCEPT ![n + 2] = off[n + 1] + f]
  <1>1. off[n + 1] \in Nat /\ n + 2 \in Nat /\ n + 1 \in h + 1 .. n + 1
    OBVIOUS
  <1>2. off2 \in [Nat -> Nat] /\ off2[n + 2] = off[n + 1] + f
        /\ \A k \in Nat : k # n + 2 => off2[k] = off[k]
    BY <1>1
  <1> HIDE DEF off2
  <1>3. \A k \in h + 1 .. n + 1 : k \in Nat /\ k # n + 2 /\ off2[k] = off[k] /\ off[k] <= off[n + 1]
    BY <1>1, <1>2 DEF NonDecreasing
  <1>4. ASSUME NEW j \in h + 1 .. n + 2, NEW k \in h + 1 .. n + 2, j <= k
        PROVE  off2[j] <= off2[k]
    <2>1. /\ j = n + 2 \/ j \in h + 1 .. n + 1
          /\ k = n + 2 \/ k \in h + 1 .. n + 1
          /\ j = n + 2 => k = n + 2
          /\ j \in Nat /\ k \in Nat
      BY <1>4
    <2>2. off2[j] \in Nat /\ off2[k] \in Nat /\ off[j] \in Nat
      BY <1>2, <2>1
    <2>3. CASE k = n + 2 /\ j = n + 2
      BY <2>2, <2>3
    <2>4. CASE k = n + 2 /\ j \in h + 1 .. n + 1
      BY <1>1, <1>2, <1>3, <2>2, <2>4
    <2>5. CASE k \in h + 1 .. n + 1 /\ j \in h + 1 .. n + 1
      BY <1>3, <1>4, <2>5 DEF NonDecreasing
    <2> QED
      BY <2>1, <2>3, <2>4, <2>5
  <1>5. NonDecreasing(off2, h + 1, n + 2)
    BY <1>4 DEF NonDecreasing
  <1> QED
    BY <1>2, <1>3, <1>5 DEF Extended

LEMMA Shift ==
  ASSUME NEW h \in Nat, NEW n \in Nat, h + 1 <= n, NEW f \in Nat, NEW off \in [Nat -> Nat],
         off[h + 2] = f,
         NonDecreasing(off, h + 1, n + 1)
  PROVE  \E off2 \in [Nat -> Nat] : Shifted(off2, off, h, n, f)
  <1> DEFINE off2 == [k \in Nat |-> IF off[k] >= f THEN off[k] - f ELSE 0]
  <1>1. off2 \in [Nat -> Nat]
    <2>1. \A k \in Nat : off[k] \in Nat
      OBVIOUS
    <2> QED
      BY <2>1
  <1>2. \A k \in h + 2 .. n + 1 : k \in Nat /\ k \in h + 1 .. n + 1 /\ h + 2 <= k
    OBVIOUS
  <1>3. h + 2 \in h + 1 .. n + 1
    OBVIOUS
  <1>4. \A k \in h + 2 .. n + 1 : off[k] \in Nat /\ off[k] >= f
    BY <1>2, <1>3 DEF NonDecreasing
  <1>5. \A k \in h + 2 .. n + 1 : off2[k] = off[k] - f
    BY <1>2, <1>4
  <1> HIDE DEF off2
  <1>6. NonDecreasing(off2, h + 2, n + 1)
    BY <1>2, <1>4, <1>5 DEF NonDecreasing
  <1> QED
    BY <1>1, <1>5, <1>6 DEF Shifted

\* An offset before and after the first f bytes are gone.
LEMMA MovedUp ==
  \A a, b, f, l \in Nat :
    b = a - f /\ l >= 1 => a + l \in Nat /\ b + l \in Nat /\ b + l >= 1 /\ a + l = f + (b + l)
OBVIOUS

\* The last index of an interval, and the others.
LEMMA LastOrBefore ==
  ASSUME NEW h \in Nat, NEW n \in Nat, NEW k \in h + 1 .. n + 1
  PROVE  /\ k \in Nat
         /\ \/ k = n + 1
            \/ k \in h + 1 .. n /\ k \in 1 .. n /\ k \in h + 1 .. n + 1 /\ k + 1 \in h + 1 .. n + 1
OBVIOUS

\* Every byte of a frame not yet handled is among the unread ones.
LEMMA InRange ==
  ASSUME TypeOK, NEW off \in [Nat -> Nat], FramesAt(off),
         NEW k \in Len(handled) + 1 .. Len(sent)
  PROVE  /\ k \in 1 .. Len(sent) /\ k \in Nat /\ k + 1 \in Nat /\ sent[k] \in Messages
         /\ off[k] \in Nat /\ off[k + 1] = off[k] + FrameLen(sent[k])
         /\ \A i \in 1 .. FrameLen(sent[k]) :
              /\ off[k] + i \in 1 .. Len(buffer) + Len(wire)
              /\ Unread(off[k] + i) = <<sent[k], i>>
  <1>1. Len(sent) \in Nat /\ Len(handled) \in Nat /\ Len(wire) \in Nat /\ Len(buffer) \in Nat
    BY Sizes
  <1>2. /\ k \in 1 .. Len(sent) /\ k \in Nat /\ k + 1 \in Nat
        /\ k + 1 \in Len(handled) + 1 .. Len(sent) + 1
        /\ Len(sent) + 1 \in Len(handled) + 1 .. Len(sent) + 1 /\ k + 1 <= Len(sent) + 1
    BY <1>1, Between
  <1>3. sent[k] \in Messages
    BY <1>2, Sizes
  <1>4. FrameLen(sent[k]) \in Nat /\ TotalLen(sent[k]) \in Nat /\ LenField \in Nat
        /\ FrameLen(sent[k]) = LenField + TotalLen(sent[k])
    BY <1>3, FrameLenType, SizesAssumption DEF FrameLen
  <1>5. off[k] \in Nat /\ off[k + 1] \in Nat
    BY <1>2
  <1>6. /\ off[k + 1] = off[k] + LenField + TotalLen(sent[k])
        /\ off[Len(sent) + 1] = Len(buffer) + Len(wire)
        /\ off[k + 1] <= off[Len(sent) + 1]
    BY <1>2 DEF FramesAt, NonDecreasing
  <1>7. \A l \in 1 .. LenField + TotalLen(sent[k]) : Unread(off[k] + l) = <<sent[k], l>>
    BY DEF FramesAt
  <1>8. off[k + 1] = off[k] + FrameLen(sent[k])
    BY ONLY <1>4, <1>5, <1>6, SMTT(30)
  <1>9. off[k] + FrameLen(sent[k]) <= Len(buffer) + Len(wire) /\ Len(buffer) + Len(wire) \in Nat
    BY ONLY <1>1, <1>6, <1>8
  <1>10. \A i \in 1 .. FrameLen(sent[k]) : off[k] + i \in 1 .. Len(buffer) + Len(wire)
    BY ONLY <1>4, <1>5, <1>9, Within
  <1>11. \A i \in 1 .. FrameLen(sent[k]) : Unread(off[k] + i) = <<sent[k], i>>
    BY <1>4, <1>7
  <1> QED
    BY <1>2, <1>3, <1>5, <1>8, <1>10, <1>11

\* A step that moves no frame and changes no unread byte keeps the offsets.
LEMMA SameFrames ==
  ASSUME TypeOK, NEW off \in [Nat -> Nat], FramesAt(off),
         sent' = sent, handled' = handled,
         Len(buffer') + Len(wire') = Len(buffer) + Len(wire),
         \A j \in 1 .. Len(buffer) + Len(wire) : Unread(j)' = Unread(j)
  PROVE  FramesAt(off)'
  <1>1. \A k \in Len(handled) + 1 .. Len(sent) :
          \A i \in 1 .. LenField + TotalLen(sent[k]) : Unread(off[k] + i)' = <<sent[k], i>>
    <2> SUFFICES ASSUME NEW k \in Len(handled) + 1 .. Len(sent),
                        NEW i \in 1 .. LenField + TotalLen(sent[k])
                 PROVE  Unread(off[k] + i)' = <<sent[k], i>>
      OBVIOUS
    <2>1. off[k] + i \in 1 .. Len(buffer) + Len(wire) /\ Unread(off[k] + i) = <<sent[k], i>>
      BY InRange DEF FrameLen
    <2> QED
      BY <2>1
  <1> QED
    BY <1>1 DEF FramesAt

-----------------------------------------------------------------------------
(* The invariant is inductive.                                               *)

LEMMA InitIInv == ASSUME Init PROVE IInv
  <1>1. sent = <<>> /\ wire = <<>> /\ buffer = <<>> /\ looping = FALSE
        /\ handled = <<>> /\ shut = FALSE
    BY DEF Init
  <1>2. Len(sent) = 0 /\ Len(wire) = 0 /\ Len(buffer) = 0 /\ Len(handled) = 0
    BY <1>1, EmptySeq
  <1>3. TypeOK
    BY <1>1, EmptySeq DEF TypeOK
  <1>4. RefusedOnlyIfTooLarge
    BY <1>1 DEF RefusedOnlyIfTooLarge
  <1>5. BufferBounded
    BY <1>1, <1>2, SizesAssumption DEF BufferBounded
  <1>6. FramesAt([k \in Nat |-> 0])
    BY <1>2 DEF FramesAt, NonDecreasing
  <1> QED
    BY <1>3, <1>4, <1>5, <1>6 DEF IInv

\* Sending puts one more frame behind the others.
LEMMA SendStep == ASSUME IInv, NEW m \in Messages, Send(m) PROVE IInv'
  <1>1. /\ sent' = Append(sent, m) /\ wire' = wire \o Serialize(m)
        /\ buffer' = buffer /\ looping' = looping /\ handled' = handled /\ shut' = shut
    BY DEF Send
  <1>2. TypeOK /\ RefusedOnlyIfTooLarge /\ BufferBounded
    BY DEF IInv
  <1>3. PICK off \in [Nat -> Nat] : FramesAt(off)
    BY DEF IInv
  <1>4. /\ Len(sent) \in Nat /\ Len(handled) \in Nat /\ Len(wire) \in Nat /\ Len(buffer) \in Nat
        /\ \A k \in 1 .. Len(sent) : sent[k] \in Messages
    BY <1>2, Sizes
  <1>5. /\ FrameLen(m) \in Nat /\ Serialize(m) \in Seq(Bytes) /\ Len(Serialize(m)) = FrameLen(m)
        /\ \A i \in 1 .. FrameLen(m) : Serialize(m)[i] = <<m, i>>
    BY SerializeProperties, FrameLenType
  <1>6. /\ sent' \in Seq(Messages) /\ Len(sent') = Len(sent) + 1
        /\ \A k \in 1 .. Len(sent) : sent'[k] = sent[k]
        /\ sent'[Len(sent) + 1] = m
    <2>1. sent \in Seq(Messages)
      BY <1>2 DEF TypeOK
    <2> QED
      BY <1>1, <1>4, <2>1, AppendProperties
  <1>7. /\ wire' \in Seq(Bytes) /\ Len(wire') = Len(wire) + FrameLen(m)
        /\ \A i \in 1 .. Len(wire) + FrameLen(m) :
             wire'[i] = IF i <= Len(wire) THEN wire[i] ELSE Serialize(m)[i - Len(wire)]
    <2>1. wire \in Seq(Bytes)
      BY <1>2 DEF TypeOK
    <2> QED
      BY <1>1, <1>5, <2>1, ConcatProperties
  <1>8. TypeOK'
    BY <1>1, <1>2, <1>6, <1>7 DEF TypeOK
  <1>9. RefusedOnlyIfTooLarge'
    <2> SUFFICES ASSUME shut PROVE \E k \in 1 .. Len(sent') : LenField + TotalLen(sent'[k]) > MaxDataSize
      BY <1>1 DEF RefusedOnlyIfTooLarge
    <2>1. PICK k \in 1 .. Len(sent) : LenField + TotalLen(sent[k]) > MaxDataSize
      BY <1>2 DEF RefusedOnlyIfTooLarge
    <2>2. k \in 1 .. Len(sent') /\ sent'[k] = sent[k]
      BY <1>4, <1>6
    <2> QED
      BY <2>1, <2>2
  <1>10. BufferBounded'
    BY <1>1, <1>2 DEF BufferBounded
  <1> DEFINE end == Len(buffer) + Len(wire)
  <1>11. \A j \in 1 .. end : Unread(j)' = Unread(j)
    BY <1>1, <1>4, <1>5, <1>7 DEF Unread
  <1>12. end \in Nat /\ end = Len(buffer) + Len(wire)
    BY ONLY <1>4
  <1>13. /\ Len(handled) <= Len(sent) /\ off[Len(handled) + 1] = 0 /\ off[Len(sent) + 1] = end
         /\ NonDecreasing(off, Len(handled) + 1, Len(sent) + 1)
    BY <1>3 DEF FramesAt
  <1> HIDE DEF end
  <1>14. ASSUME NEW e \in Nat, e = end, NEW i \in 1 .. FrameLen(m) PROVE Unread(e + i)' = <<m, i>>
    <2>1. /\ ~(e + i <= Len(buffer)) /\ e + i - Len(buffer) = Len(wire) + i
          /\ Len(wire) + i \in 1 .. Len(wire) + FrameLen(m)
          /\ ~(Len(wire) + i <= Len(wire)) /\ Len(wire) + i - Len(wire) = i
      <3>1. e = Len(buffer) + Len(wire) /\ FrameLen(m) \in Nat
        BY <1>5, <1>12, <1>14
      <3> DEFINE b == Len(buffer)
                 w == Len(wire)
                 f == FrameLen(m)
      <3>2. b \in Nat /\ w \in Nat /\ f \in Nat /\ e = b + w /\ i \in 1 .. f
        BY <1>4, <3>1
      <3> HIDE DEF b, w, f
      <3>3. /\ ~(e + i <= b) /\ e + i - b = w + i
            /\ w + i \in 1 .. w + f /\ ~(w + i <= w) /\ w + i - w = i
        BY ONLY <3>2, Behind
      <3> QED
        BY ONLY <3>3 DEF b, w, f
    <2>2. Unread(e + i)' = wire'[e + i - Len(buffer)]
      <3>1. ~(e + i <= Len(buffer')) /\ Len(buffer') = Len(buffer)
        BY <1>1, <2>1
      <3> QED
        BY <3>1 DEF Unread
    <2>3. wire'[Len(wire) + i] = Serialize(m)[i]
      <3>1. wire'[Len(wire) + i] = IF Len(wire) + i <= Len(wire) THEN wire[Len(wire) + i]
                                   ELSE Serialize(m)[Len(wire) + i - Len(wire)]
        <4>1. PICK x \in 1 .. Len(wire) + FrameLen(m) : x = Len(wire) + i
          BY <2>1
        <4>2. wire'[x] = IF x <= Len(wire) THEN wire[x] ELSE Serialize(m)[x - Len(wire)]
          BY ONLY <1>7, x \in 1 .. Len(wire) + FrameLen(m)
        <4> QED
          BY ONLY <4>1, <4>2
      <3> QED
        BY ONLY <2>1, <3>1
    <2> QED
      BY <1>5, <2>1, <2>2, <2>3
  <1>15. PICK off2 \in [Nat -> Nat] : Extended(off2, off, Len(handled), Len(sent), FrameLen(m))
    <2>1. /\ Len(handled) \in Nat /\ Len(sent) \in Nat /\ FrameLen(m) \in Nat
          /\ Len(handled) <= Len(sent)
          /\ NonDecreasing(off, Len(handled) + 1, Len(sent) + 1)
      BY <1>4, <1>5, <1>13
    <2> QED
      BY ONLY <2>1, off \in [Nat -> Nat], Extend
  <1>16. /\ \A k \in Len(handled) + 1 .. Len(sent) + 1 : off2[k] = off[k]
         /\ off2[Len(sent) + 2] = off[Len(sent) + 1] + FrameLen(m)
         /\ NonDecreasing(off2, Len(handled) + 1, Len(sent) + 2)
    BY <1>15 DEF Extended
  <1>17. FramesAt(off2)'
    <2>1. Len(sent') + 1 = Len(sent) + 2 /\ Len(sent) + 1 + 1 = Len(sent) + 2
          /\ Len(handled) + 1 \in Len(handled) + 1 .. Len(sent) + 1
          /\ Len(sent) + 1 \in Len(handled) + 1 .. Len(sent) + 1
      BY ONLY <1>4, <1>6, <1>13
    <2>2. Len(handled') <= Len(sent') /\ off2[Len(handled') + 1] = 0
      <3>1. Len(handled) <= Len(sent) + 1
        BY ONLY <1>4, <1>13
      <3> QED
        BY <1>1, <1>6, <1>13, <1>16, <2>1, <3>1
    <2>3. off2[Len(sent') + 1] = Len(buffer') + Len(wire')
      <3>1. off2[Len(sent') + 1] = end + FrameLen(m)
        BY <1>13, <1>16, <2>1
      <3>2. Len(buffer') + Len(wire') = end + FrameLen(m)
        BY <1>1, <1>4, <1>5, <1>7, <1>12
      <3> QED
        BY <3>1, <3>2
    <2>4. NonDecreasing(off2, Len(handled') + 1, Len(sent') + 1)
      BY <1>1, <1>16, <2>1
    <2>5. ASSUME NEW k \in Len(handled) + 1 .. Len(sent) + 1
          PROVE  /\ off2[k + 1] = off2[k] + LenField + TotalLen(sent'[k])
                 /\ \A i \in 1 .. LenField + TotalLen(sent'[k]) : Unread(off2[k] + i)' = <<sent'[k], i>>
      <3>1. CASE k = Len(sent) + 1
        <4>1. sent'[k] = m /\ off2[k] = end /\ off2[k + 1] = end + FrameLen(m)
          BY <1>6, <1>13, <1>16, <2>1, <3>1
        <4>2. FrameLen(m) = LenField + TotalLen(m) /\ TotalLen(m) \in Nat /\ LenField \in Nat
          BY FrameLenType, SizesAssumption DEF FrameLen
        <4>3. end + FrameLen(m) = end + LenField + TotalLen(m)
          BY ONLY <4>2, <1>12
        <4> QED
          BY ONLY <1>12, <1>14, <4>1, <4>2, <4>3
      <3>2. CASE k \in Len(handled) + 1 .. Len(sent) /\ k \in 1 .. Len(sent) /\ k + 1 \in Len(handled) + 1 .. Len(sent) + 1
        <4>1. sent'[k] = sent[k] /\ off2[k] = off[k] /\ off2[k + 1] = off[k + 1]
          BY <1>6, <1>16, <3>2
        <4>2. /\ off[k + 1] = off[k] + LenField + TotalLen(sent[k])
              /\ FrameLen(sent[k]) = LenField + TotalLen(sent[k])
          BY <1>3, <3>2 DEF FramesAt, FrameLen
        <4>3. \A i \in 1 .. FrameLen(sent[k]) :
                off[k] + i \in 1 .. end /\ Unread(off[k] + i) = <<sent[k], i>>
          BY <1>2, <1>3, <1>12, <3>2, InRange
        <4>4. \A i \in 1 .. FrameLen(sent[k]) : Unread(off[k] + i)' = <<sent[k], i>>
          BY ONLY <1>11, <4>3
        <4> QED
          BY ONLY <4>1, <4>2, <4>4
      <3> QED
        BY ONLY <1>4, <3>1, <3>2, LastOrBefore, k \in Len(handled) + 1 .. Len(sent) + 1
    <2>6. \A k \in Len(handled') + 1 .. Len(sent') :
            /\ off2[k + 1] = off2[k] + LenField + TotalLen(sent'[k])
            /\ \A i \in 1 .. LenField + TotalLen(sent'[k]) : Unread(off2[k] + i)' = <<sent'[k], i>>
      BY <1>1, <1>6, <2>5
    <2> QED
      BY <2>2, <2>3, <2>4, <2>6 DEF FramesAt
  <1> QED
    BY <1>8, <1>9, <1>10, <1>17 DEF IInv

\* Reading moves bytes from the front of the wire to the end of the buffer.
LEMMA ArriveStep == ASSUME IInv, NEW n \in 1 .. Len(wire), Arrive(n) PROVE IInv'
  <1>1. /\ wire' = SubSeq(wire, n + 1, Len(wire)) /\ buffer' = buffer \o SubSeq(wire, 1, n)
        /\ looping' = TRUE /\ sent' = sent /\ handled' = handled /\ shut' = shut
    BY DEF Arrive
  <1>2. TypeOK /\ RefusedOnlyIfTooLarge
    BY DEF IInv
  <1>3. PICK off \in [Nat -> Nat] : FramesAt(off)
    BY DEF IInv
  <1>4. Len(wire) \in Nat /\ Len(buffer) \in Nat /\ wire \in Seq(Bytes) /\ buffer \in Seq(Bytes)
    BY <1>2, Sizes DEF TypeOK
  <1>5. n \in Nat /\ n \in 0 .. Len(wire)
    BY <1>4
  <1>6. /\ SubSeq(wire, 1, n) \in Seq(Bytes) /\ Len(SubSeq(wire, 1, n)) = n
        /\ \A i \in 1 .. n : SubSeq(wire, 1, n)[i] = wire[i]
        /\ wire' \in Seq(Bytes) /\ Len(wire') = Len(wire) - n
        /\ \A i \in 1 .. Len(wire) - n : wire'[i] = wire[n + i]
    BY <1>1, <1>4, <1>5, Cut
  <1>7. /\ buffer' \in Seq(Bytes) /\ Len(buffer') = Len(buffer) + n
        /\ \A i \in 1 .. Len(buffer) + n :
             buffer'[i] = IF i <= Len(buffer) THEN buffer[i] ELSE SubSeq(wire, 1, n)[i - Len(buffer)]
    <2>1. /\ SubSeq(wire, 1, n) \in Seq(Bytes) /\ buffer \in Seq(Bytes)
          /\ Len(SubSeq(wire, 1, n)) = n
      BY <1>4, <1>6
    <2> DEFINE t == SubSeq(wire, 1, n)
    <2> HIDE DEF t
    <2>2. /\ t \in Seq(Bytes) /\ Len(t) = n /\ buffer' = buffer \o t
      BY <1>1, <2>1 DEF t
    <2>3. /\ buffer' \in Seq(Bytes) /\ Len(buffer') = Len(buffer) + Len(t)
          /\ \A i \in 1 .. Len(buffer) + Len(t) :
               buffer'[i] = IF i <= Len(buffer) THEN buffer[i] ELSE t[i - Len(buffer)]
      BY ONLY <2>1, <2>2, ConcatProperties
    <2> QED
      BY ONLY <2>2, <2>3 DEF t
  <1>8. TypeOK'
    BY <1>1, <1>2, <1>6, <1>7 DEF TypeOK
  <1>9. RefusedOnlyIfTooLarge' /\ BufferBounded'
    BY <1>1, <1>2 DEF RefusedOnlyIfTooLarge, BufferBounded
  <1>10. Len(buffer') + Len(wire') = Len(buffer) + Len(wire)
    BY <1>4, <1>5, <1>6, <1>7
  <1>11. ASSUME NEW j \in 1 .. Len(buffer) + Len(wire) PROVE Unread(j)' = Unread(j)
    <2>1. j \in Nat /\ j >= 1 /\ j <= Len(buffer) + Len(wire)
      BY <1>4
    <2>2. CASE j <= Len(buffer)
      <3>1. j \in 1 .. Len(buffer) + n /\ j <= Len(buffer')
        BY <1>4, <1>5, <1>7, <2>1, <2>2
      <3>2. buffer'[j] = buffer[j]
        BY ONLY <1>7, <2>2, <3>1
      <3> QED
        BY <2>2, <3>1, <3>2 DEF Unread
    <2>3. CASE ~(j <= Len(buffer)) /\ j <= Len(buffer) + n
      <3>1. j \in 1 .. Len(buffer) + n /\ j <= Len(buffer') /\ j - Len(buffer) \in 1 .. n
        BY <1>4, <1>5, <1>7, <2>1, <2>3
      <3>2. buffer'[j] = SubSeq(wire, 1, n)[j - Len(buffer)]
        BY ONLY <1>7, <2>3, <3>1
      <3>3. SubSeq(wire, 1, n)[j - Len(buffer)] = wire[j - Len(buffer)]
        BY <1>6, <3>1
      <3> QED
        BY <2>3, <3>1, <3>2, <3>3 DEF Unread
    <2>4. CASE ~(j <= Len(buffer) + n)
      <3>1. /\ ~(j <= Len(buffer)) /\ ~(j <= Len(buffer'))
            /\ j - Len(buffer') \in 1 .. Len(wire) - n
            /\ n + (j - Len(buffer')) = j - Len(buffer)
        <4>1. PICK b \in Nat, w \in Nat : b = Len(buffer) /\ w = Len(wire)
          BY <1>4
        <4>2. Len(buffer') = b + n /\ n \in Nat /\ j \in Nat /\ j <= b + w /\ ~(j <= b + n)
          BY <1>5, <1>7, <2>1, <2>4, <4>1
        <4>3. /\ ~(j <= b) /\ j - (b + n) \in 1 .. w - n /\ n + (j - (b + n)) = j - b
          BY ONLY <4>2, b \in Nat, w \in Nat
        <4> QED
          BY <4>1, <4>2, <4>3
      <3>2. wire'[j - Len(buffer')] = wire[n + (j - Len(buffer'))]
        BY <1>6, <3>1
      <3> QED
        BY <3>1, <3>2 DEF Unread
    <2> QED
      BY <2>2, <2>3, <2>4
  <1>12. FramesAt(off)'
    BY <1>1, <1>2, <1>3, <1>10, <1>11, SameFrames
  <1> QED
    BY <1>8, <1>9, <1>12 DEF IInv

\* A step that leaves the messages and the bytes alone keeps the frames.
LEMMA StillFrames ==
  ASSUME TypeOK, NEW off \in [Nat -> Nat], FramesAt(off), UNCHANGED <<sent, wire, buffer, handled>>
  PROVE  FramesAt(off)'
  <1>1. sent' = sent /\ wire' = wire /\ buffer' = buffer /\ handled' = handled
    OBVIOUS
  <1>2. \A j \in 1 .. Len(buffer) + Len(wire) : Unread(j)' = Unread(j)
    BY <1>1 DEF Unread
  <1> QED
    BY <1>1, <1>2, SameFrames

LEMMA AwaitMoreStep == ASSUME IInv, AwaitMore PROVE IInv'
  <1>1. /\ Len(buffer) <= MaxDataSize
        /\ looping' = FALSE /\ sent' = sent /\ wire' = wire /\ buffer' = buffer
        /\ handled' = handled /\ shut' = shut
    BY DEF AwaitMore
  <1>2. TypeOK /\ RefusedOnlyIfTooLarge
    BY DEF IInv
  <1>3. PICK off \in [Nat -> Nat] : FramesAt(off)
    BY DEF IInv
  <1>4. FramesAt(off)'
    BY <1>1, <1>2, <1>3, StillFrames
  <1>5. TypeOK' /\ RefusedOnlyIfTooLarge' /\ BufferBounded'
    BY <1>1, <1>2 DEF TypeOK, RefusedOnlyIfTooLarge, BufferBounded
  <1> QED
    BY <1>4, <1>5 DEF IInv

\* The buffer is shorter than the frame it begins with, and longer than the
\* limit: that frame is over the limit.
LEMMA RefuseStep == ASSUME IInv, Refuse PROVE IInv'
  <1>1. /\ ~CanProcessed(buffer) /\ Len(buffer) > MaxDataSize
        /\ looping' = FALSE /\ shut' = TRUE /\ sent' = sent /\ wire' = wire /\ buffer' = buffer
        /\ handled' = handled
    BY DEF Refuse
  <1>2. TypeOK
    BY DEF IInv
  <1>3. PICK off \in [Nat -> Nat] : FramesAt(off)
    BY DEF IInv
  <1>4. FramesAt(off)'
    BY <1>1, <1>2, <1>3, StillFrames
  <1>5. buffer # <<>>
    BY <1>1, EmptySeq, SizesAssumption
  <1>6. /\ Len(handled) + 1 \in 1 .. Len(sent)
        /\ sent[Len(handled) + 1] \in Messages
        /\ PeekLen(buffer) = TotalLen(sent[Len(handled) + 1])
    BY <1>2, <1>3, <1>5, FirstFrame
  <1>7. LenField + TotalLen(sent[Len(handled) + 1]) > MaxDataSize
    <2>1. /\ TotalLen(sent[Len(handled) + 1]) \in Nat /\ LenField \in Nat /\ MaxDataSize \in Nat
          /\ Len(buffer) \in Nat
      BY <1>2, <1>6, Sizes, FrameLenType, SizesAssumption
    <2>2. Len(buffer) < LenField + PeekLen(buffer)
      <3>1. PeekLen(buffer) \in Nat
        BY <1>6, <2>1
      <3>2. ~(Len(buffer) >= LenField /\ Len(buffer) >= LenField + PeekLen(buffer))
        BY <1>1 DEF CanProcessed
      <3> QED
        <4> DEFINE l == Len(buffer)
                   q == PeekLen(buffer)
        <4>1. l \in Nat /\ q \in Nat /\ LenField \in Nat /\ ~(l >= LenField /\ l >= LenField + q)
          BY ONLY <2>1, <3>1, <3>2
        <4> HIDE DEF l, q
        <4>2. l < LenField + q
          BY ONLY <4>1
        <4> QED
          BY ONLY <4>2 DEF l, q
    <2> QED
      BY ONLY <1>1, <1>6, <2>1, <2>2
  <1>8. RefusedOnlyIfTooLarge'
    BY <1>1, <1>6, <1>7 DEF RefusedOnlyIfTooLarge
  <1>9. TypeOK' /\ BufferBounded'
    BY <1>1, <1>2 DEF TypeOK, BufferBounded
  <1> QED
    BY <1>4, <1>8, <1>9 DEF IInv

LEMMA StutterStep == ASSUME IInv, UNCHANGED vars PROVE IInv'
  <1>1. sent' = sent /\ wire' = wire /\ buffer' = buffer /\ looping' = looping
        /\ handled' = handled /\ shut' = shut
    BY DEF vars
  <1>2. TypeOK /\ RefusedOnlyIfTooLarge /\ BufferBounded
    BY DEF IInv
  <1>3. PICK off \in [Nat -> Nat] : FramesAt(off)
    BY DEF IInv
  <1>4. FramesAt(off)'
    BY <1>1, <1>2, <1>3, StillFrames
  <1>5. TypeOK' /\ RefusedOnlyIfTooLarge' /\ BufferBounded'
    BY <1>1, <1>2 DEF TypeOK, RefusedOnlyIfTooLarge, BufferBounded
  <1> QED
    BY <1>4, <1>5 DEF IInv

-----------------------------------------------------------------------------
(* Handling a frame.                                                         *)

\* What onMessage takes from the buffer is the frame of the next message, it is
\* handled, and the rest of the unread bytes moves up.
LEMMA HandleFrameEffect ==
  ASSUME TypeOK, NEW off \in [Nat -> Nat], FramesAt(off), HandleFrame
  PROVE  /\ Len(handled) + 1 \in 1 .. Len(sent)
         /\ sent[Len(handled) + 1] \in Messages
         /\ off[Len(handled) + 2] = FrameLen(sent[Len(handled) + 1])
         /\ FrameLen(sent[Len(handled) + 1]) \in 0 .. Len(buffer)
         /\ handled' = Append(handled, sent[Len(handled) + 1])
         /\ buffer' = SubSeq(buffer, FrameLen(sent[Len(handled) + 1]) + 1, Len(buffer))
         /\ UNCHANGED <<sent, wire, looping, shut>>
  <1>1. /\ CanProcessed(buffer)
        /\ buffer' = SubSeq(buffer, Len(Frame(buffer)) + 1, Len(buffer))
        /\ IF Frame(buffer) = Serialize(Head(buffer)[1])
           THEN handled' = Append(handled, Head(buffer)[1]) /\ UNCHANGED <<looping, shut>>
           ELSE shut' = TRUE /\ looping' = FALSE /\ UNCHANGED handled
        /\ UNCHANGED <<sent, wire>>
    BY DEF HandleFrame
  <1>2. Len(buffer) \in Nat /\ Len(wire) \in Nat /\ Len(handled) \in Nat /\ Len(sent) \in Nat
        /\ buffer \in Seq(Bytes)
    BY Sizes DEF TypeOK
  <1>3. LenField \in Nat /\ LenField >= 1 /\ Len(buffer) >= LenField
        /\ Len(buffer) >= LenField + PeekLen(buffer)
    BY <1>1, SizesAssumption DEF CanProcessed
  <1>4. buffer # <<>>
    BY <1>2, <1>3, EmptySeq
  <1>5. /\ Len(handled) < Len(sent)
        /\ Len(handled) + 1 \in 1 .. Len(sent) /\ sent[Len(handled) + 1] \in Messages
        /\ Head(buffer) = <<sent[Len(handled) + 1], 1>>
        /\ PeekLen(buffer) = TotalLen(sent[Len(handled) + 1])
        /\ off[Len(handled) + 2] = FrameLen(sent[Len(handled) + 1])
    BY <1>4, FirstFrame
  <1>6. PICK m \in Messages : m = sent[Len(handled) + 1]
    BY <1>5
  <1>7. /\ FrameLen(m) \in Nat /\ FrameLen(m) = LenField + PeekLen(buffer)
        /\ FrameLen(m) <= Len(buffer) /\ FrameLen(m) \in 0 .. Len(buffer)
    <2>1. FrameLen(m) \in Nat /\ FrameLen(m) = LenField + PeekLen(buffer)
      BY <1>5, <1>6, FrameLenType DEF FrameLen
    <2> QED
      BY ONLY <1>2, <1>3, <2>1
  <1>8. /\ Frame(buffer) \in Seq(Bytes) /\ Len(Frame(buffer)) = FrameLen(m)
        /\ \A i \in 1 .. FrameLen(m) : Frame(buffer)[i] = buffer[i]
    <2>1. Frame(buffer) = SubSeq(buffer, 1, FrameLen(m))
      BY <1>7 DEF Frame
    <2> QED
      BY <1>2, <1>7, <2>1, Cut
  <1>9. \A i \in 1 .. FrameLen(m) : buffer[i] = <<m, i>>
    <2> SUFFICES ASSUME NEW i \in 1 .. FrameLen(m) PROVE buffer[i] = <<m, i>>
      OBVIOUS
    <2>1. off[Len(handled) + 1] = 0 /\ Len(handled) + 1 \in Len(handled) + 1 .. Len(sent)
      BY <1>2, <1>5 DEF FramesAt
    <2>2. Unread(0 + i) = <<m, i>>
      BY <1>6, <2>1, InRange
    <2>3. 0 + i = i /\ i <= Len(buffer)
      BY <1>2, <1>7
    <2> QED
      BY <2>2, <2>3 DEF Unread
  <1>10. Frame(buffer) = Serialize(m)
    <2>1. /\ Serialize(m) \in Seq(Bytes) /\ Len(Serialize(m)) = FrameLen(m)
          /\ \A i \in 1 .. FrameLen(m) : Serialize(m)[i] = <<m, i>>
      BY SerializeProperties
    <2>2. /\ Len(Frame(buffer)) = Len(Serialize(m))
          /\ \A i \in 1 .. Len(Frame(buffer)) : Frame(buffer)[i] = Serialize(m)[i]
      BY <1>8, <1>9, <2>1
    <2> QED
      BY ONLY <1>8, <2>1, <2>2, SeqEqual
  <1>11. Head(buffer)[1] = m
    <2>1. Head(buffer) = <<m, 1>>
      BY <1>5, <1>6
    <2> QED
      BY ONLY <2>1
  <1> QED
    BY <1>1, <1>5, <1>6, <1>7, <1>8, <1>10, <1>11

LEMMA HandleFrameStep == ASSUME IInv, HandleFrame PROVE IInv'
  <1>1. TypeOK /\ RefusedOnlyIfTooLarge /\ looping
    BY DEF IInv, HandleFrame
  <1>2. PICK off \in [Nat -> Nat] : FramesAt(off)
    BY DEF IInv
  <1>3. PICK m \in Messages : m = sent[Len(handled) + 1]
    BY <1>1, <1>2, HandleFrameEffect
  <1>4. /\ Len(handled) + 1 \in 1 .. Len(sent)
        /\ off[Len(handled) + 2] = FrameLen(m) /\ FrameLen(m) \in 0 .. Len(buffer)
        /\ handled' = Append(handled, m)
        /\ buffer' = SubSeq(buffer, FrameLen(m) + 1, Len(buffer))
        /\ sent' = sent /\ wire' = wire /\ looping' = looping /\ shut' = shut
    BY <1>1, <1>2, <1>3, HandleFrameEffect
  <1>5. /\ Len(buffer) \in Nat /\ Len(wire) \in Nat /\ Len(handled) \in Nat /\ Len(sent) \in Nat
        /\ buffer \in Seq(Bytes) /\ handled \in Seq(Messages)
    BY <1>1, Sizes DEF TypeOK
  <1>6. FrameLen(m) \in Nat /\ FrameLen(m) <= Len(buffer) /\ Len(handled) + 1 <= Len(sent)
    BY <1>4, <1>5
  <1>7. /\ buffer' \in Seq(Bytes) /\ Len(buffer') = Len(buffer) - FrameLen(m)
        /\ \A i \in 1 .. Len(buffer) - FrameLen(m) : buffer'[i] = buffer[FrameLen(m) + i]
    BY <1>4, <1>5, Cut
  <1>8. handled' \in Seq(Messages) /\ Len(handled') = Len(handled) + 1
    BY <1>4, <1>5, AppendProperties
  <1>9. TypeOK' /\ RefusedOnlyIfTooLarge' /\ BufferBounded'
    BY <1>1, <1>4, <1>7, <1>8 DEF TypeOK, RefusedOnlyIfTooLarge, BufferBounded
  <1>10. PICK f \in Nat : f = FrameLen(m)
    BY <1>6
  <1>11. ASSUME NEW l \in Nat, l >= 1, NEW j \in Nat, j = f + l PROVE Unread(l)' = Unread(j)
    <2>1. Len(buffer') = Len(buffer) - f /\ f <= Len(buffer) /\ Len(buffer) \in Nat
      BY <1>5, <1>6, <1>7, <1>10
    <2>2. CASE j <= Len(buffer)
      <3>1. l \in 1 .. Len(buffer) - f /\ l <= Len(buffer')
        BY ONLY <2>1, <2>2, <1>11, j \in Nat, l \in Nat, f \in Nat
      <3>2. buffer'[l] = buffer[f + l]
        BY <1>7, <1>10, <3>1
      <3> QED
        BY <1>11, <2>2, <3>1, <3>2 DEF Unread
    <2>3. CASE ~(j <= Len(buffer))
      <3>1. ~(l <= Len(buffer')) /\ l - Len(buffer') = j - Len(buffer)
        BY ONLY <2>1, <2>3, <1>11, j \in Nat, l \in Nat, f \in Nat
      <3> QED
        BY <1>4, <2>3, <3>1 DEF Unread
    <2> QED
      BY <2>2, <2>3
  <1>12. ASSUME NEW a \in Nat, NEW b \in Nat, NEW l \in Nat, b = a - f, l >= 1
         PROVE  Unread(b + l)' = Unread(a + l)
    <2>1. /\ a + l \in Nat /\ b + l \in Nat /\ b + l >= 1 /\ a + l = f + (b + l)
      BY ONLY <1>12, MovedUp, f \in Nat, a \in Nat, b \in Nat, l \in Nat
    <2> QED
      BY ONLY <1>11, <2>1
  <1>13. /\ off[Len(handled) + 1] = 0 /\ off[Len(sent) + 1] = Len(buffer) + Len(wire)
         /\ NonDecreasing(off, Len(handled) + 1, Len(sent) + 1)
    BY <1>2 DEF FramesAt
  <1>14. PICK off2 \in [Nat -> Nat] : Shifted(off2, off, Len(handled), Len(sent), f)
    <2>1. /\ Len(handled) \in Nat /\ Len(sent) \in Nat /\ f \in Nat /\ Len(handled) + 1 <= Len(sent)
          /\ off[Len(handled) + 2] = f
      BY <1>4, <1>5, <1>6, <1>10
    <2> QED
      BY ONLY <1>13, <2>1, off \in [Nat -> Nat], Shift
  <1>15. /\ \A k \in Len(handled) + 2 .. Len(sent) + 1 : off2[k] = off[k] - f
         /\ NonDecreasing(off2, Len(handled) + 2, Len(sent) + 1)
    BY <1>14 DEF Shifted
  <1>16. /\ Len(handled') + 1 = Len(handled) + 2
         /\ Len(handled) + 2 \in Len(handled) + 2 .. Len(sent) + 1
         /\ Len(sent) + 1 \in Len(handled) + 2 .. Len(sent) + 1
         /\ Len(handled') <= Len(sent)
    BY ONLY <1>5, <1>6, <1>8
  <1>17. FramesAt(off2)'
    <2>1. Len(handled') <= Len(sent')
      BY <1>4, <1>16
    <2>2. off2[Len(handled') + 1] = 0
      <3>1. off2[Len(handled) + 2] = f - f
        BY <1>4, <1>10, <1>15, <1>16
      <3>2. f - f = 0
        BY ONLY f \in Nat
      <3> QED
        BY <1>16, <3>1, <3>2
    <2>3. off2[Len(sent') + 1] = Len(buffer') + Len(wire')
      <3>1. off2[Len(sent') + 1] = Len(buffer) + Len(wire) - f
        <4>1. off2[Len(sent) + 1] = off[Len(sent) + 1] - f
          BY ONLY <1>15, <1>16
        <4> QED
          BY ONLY <1>4, <1>13, <4>1
      <3>2. Len(buffer') + Len(wire') = Len(buffer) + Len(wire) - f
        <4>1. Len(buffer') = Len(buffer) - f /\ wire' = wire
          BY <1>4, <1>7, <1>10
        <4>2. Len(buffer) \in Nat /\ Len(wire) \in Nat
          BY <1>5
        <4>3. Len(buffer) - f + Len(wire) = Len(buffer) + Len(wire) - f
          BY ONLY <4>2, f \in Nat
        <4> QED
          BY ONLY <4>1, <4>3
      <3> QED
        BY <3>1, <3>2
    <2>4. NonDecreasing(off2, Len(handled') + 1, Len(sent') + 1)
      BY <1>4, <1>15, <1>16
    <2>5. ASSUME NEW k \in Len(handled) + 2 .. Len(sent)
          PROVE  /\ off2[k + 1] = off2[k] + LenField + TotalLen(sent[k])
                 /\ \A i \in 1 .. LenField + TotalLen(sent[k]) : Unread(off2[k] + i)' = <<sent[k], i>>
      <3>1. /\ k \in Nat /\ k \in Len(handled) + 1 .. Len(sent)
            /\ k \in Len(handled) + 2 .. Len(sent) + 1 /\ k + 1 \in Len(handled) + 2 .. Len(sent) + 1
        <4>1. PICK h \in Nat, n \in Nat : h = Len(handled) /\ n = Len(sent)
          BY <1>5
        <4>2. k \in h + 2 .. n
          BY <4>1
        <4>3. k \in Nat /\ k \in h + 1 .. n /\ k \in h + 2 .. n + 1 /\ k + 1 \in h + 2 .. n + 1
          BY ONLY <4>2, h \in Nat, n \in Nat
        <4> QED
          BY ONLY <4>1, <4>3
      <3>2. /\ sent[k] \in Messages /\ off[k] \in Nat
            /\ off[k + 1] = off[k] + FrameLen(sent[k])
            /\ \A i \in 1 .. FrameLen(sent[k]) : Unread(off[k] + i) = <<sent[k], i>>
        BY <1>1, <1>2, <3>1, InRange
      <3>3. off2[k] = off[k] - f /\ off2[k + 1] = off[k + 1] - f /\ off2[k] \in Nat
        BY <1>15, <3>1
      <3>4. /\ FrameLen(sent[k]) = LenField + TotalLen(sent[k])
            /\ FrameLen(sent[k]) \in Nat /\ LenField \in Nat /\ TotalLen(sent[k]) \in Nat
        BY <3>2, FrameLenType, SizesAssumption DEF FrameLen
      <3>5. off2[k + 1] = off2[k] + LenField + TotalLen(sent[k])
        <4>1. PICK a \in Nat, b \in Nat, t \in Nat : a = off[k] /\ b = off2[k] /\ t = TotalLen(sent[k])
          BY <3>2, <3>3, <3>4
        <4>2. off[k + 1] = a + (LenField + t) /\ b = a - f /\ off2[k + 1] = off[k + 1] - f
          BY <3>2, <3>3, <3>4, <4>1
        <4>3. LenField \in Nat
          BY <3>4
        <4>4. (a + (LenField + t)) - f = b + LenField + t
          BY ONLY <4>2, <4>3, a \in Nat, b \in Nat, t \in Nat, f \in Nat
        <4> QED
          BY ONLY <4>1, <4>2, <4>4
      <3>6. ASSUME NEW i \in 1 .. FrameLen(sent[k]) PROVE Unread(off2[k] + i)' = <<sent[k], i>>
        <4>1. i \in Nat /\ i >= 1
          BY ONLY <3>4, i \in 1 .. FrameLen(sent[k])
        <4>2. Unread(off[k] + i) = <<sent[k], i>>
          BY ONLY <3>2, i \in 1 .. FrameLen(sent[k])
        <4>3. Unread(off2[k] + i)' = Unread(off[k] + i)
          BY <1>12, <3>2, <3>3, <4>1
        <4> QED
          BY <4>2, <4>3
      <3> QED
        BY ONLY <3>4, <3>5, <3>6
    <2>6. \A k \in Len(handled') + 1 .. Len(sent') :
            /\ off2[k + 1] = off2[k] + LenField + TotalLen(sent'[k])
            /\ \A i \in 1 .. LenField + TotalLen(sent'[k]) : Unread(off2[k] + i)' = <<sent'[k], i>>
      BY <1>4, <1>16, <2>5
    <2> QED
      BY <2>1, <2>2, <2>3, <2>4, <2>6 DEF FramesAt
  <1> QED
    BY <1>9, <1>17 DEF IInv

LEMMA NextIInv == ASSUME IInv, [Next]_vars PROVE IInv'
  <1>1. ASSUME NEW m \in Messages, Send(m) PROVE IInv'
    BY <1>1, SendStep
  <1>2. ASSUME NEW n \in 1 .. Len(wire), Arrive(n) PROVE IInv'
    BY <1>2, ArriveStep
  <1>3. CASE HandleFrame
    BY <1>3, HandleFrameStep
  <1>4. CASE AwaitMore
    BY <1>4, AwaitMoreStep
  <1>5. CASE Refuse
    BY <1>5, RefuseStep
  <1>6. CASE UNCHANGED vars
    BY <1>6, StutterStep
  <1> QED
    BY <1>1, <1>2, <1>3, <1>4, <1>5, <1>6 DEF Next, OnMessage

\* Every reachable state: the unread bytes are the frames of the messages that
\* are not handled yet, in order, however the stream was cut.
THEOREM AlwaysIInv == Spec => []IInv
  <1>1. Init => IInv
    BY InitIInv
  <1>2. IInv /\ [Next]_vars => IInv'
    BY NextIInv
  <1> QED
    BY <1>1, <1>2, PTL DEF Spec

\* The buffer and the wire hold bytes of frames, the handler sees messages.
THEOREM TypeCorrect == Spec => []TypeOK
  <1>1. IInv => TypeOK
    BY DEF IInv
  <1> QED
    BY <1>1, AlwaysIInv, PTL

\* A connection is shut down only over a message larger than the limit, whatever
\* else is in the buffer.
THEOREM OnlyTooLargeRefused == Spec => []RefusedOnlyIfTooLarge
  <1>1. IInv => RefusedOnlyIfTooLarge
    BY DEF IInv
  <1> QED
    BY <1>1, AlwaysIInv, PTL

\* Between two reads at most maxDataSize bytes wait on an open connection.
THEOREM BufferAlwaysBounded == Spec => []BufferBounded
  <1>1. IInv => BufferBounded
    BY DEF IInv
  <1> QED
    BY <1>1, AlwaysIInv, PTL

-----------------------------------------------------------------------------
(* onMessage leaves no complete message behind.                              *)

\* A buffer that does not hold a whole frame is shorter than that of the message
\* to be handled next.
LEMMA NotYetComplete ==
  ASSUME IInv, ~CanProcessed(buffer), Len(handled) < Len(sent)
  PROVE  Len(buffer) < FrameLen(sent[Len(handled) + 1])
  <1>1. TypeOK
    BY DEF IInv
  <1>2. PICK off \in [Nat -> Nat] : FramesAt(off)
    BY DEF IInv
  <1>3. Len(buffer) \in Nat /\ Len(handled) + 1 \in 1 .. Len(sent)
    <2>1. Len(buffer) \in Nat /\ Len(handled) \in Nat /\ Len(sent) \in Nat
      BY <1>1, Sizes
    <2> QED
      <3> DEFINE h == Len(handled)
                 n == Len(sent)
      <3>1. h \in Nat /\ n \in Nat /\ h < n
        BY <2>1
      <3> HIDE DEF h, n
      <3>2. h + 1 \in 1 .. n
        BY ONLY <3>1
      <3> QED
        BY <2>1, <3>2 DEF h, n
  <1>4. PICK m \in Messages : m = sent[Len(handled) + 1]
    BY <1>1, <1>3, Sizes
  <1>5. FrameLen(m) \in Nat /\ FrameLen(m) >= 1 /\ FrameLen(m) = LenField + TotalLen(m)
        /\ LenField \in Nat /\ TotalLen(m) \in Nat
    BY <1>4, FrameLenType, SizesAssumption DEF FrameLen
  <1>6. CASE buffer = <<>>
    <2>1. Len(buffer) = 0
      BY <1>6, EmptySeq
    <2> QED
      BY ONLY <1>4, <1>5, <2>1
  <1>7. CASE buffer # <<>>
    <2>1. PeekLen(buffer) = TotalLen(m)
      BY <1>1, <1>2, <1>4, <1>7, FirstFrame
    <2>2. ~(Len(buffer) >= LenField /\ Len(buffer) >= LenField + TotalLen(m))
      BY <2>1 DEF CanProcessed
    <2>3. PICK l \in Nat : l = Len(buffer)
      BY <1>3
    <2>4. ~(l >= LenField /\ l >= LenField + TotalLen(m))
      BY <2>2, <2>3
    <2>5. l < FrameLen(m)
      <3> HIDE <2>3
      <3>1. l \in Nat
        OBVIOUS
      <3> QED
        BY ONLY <1>5, <2>4, <3>1
    <2> QED
      BY <1>4, <2>3, <2>5
  <1> QED
    BY <1>6, <1>7

LEMMA CompleteHandledStep ==
  ASSUME IInv, HandledWhenComplete, [Next]_vars
  PROVE  HandledWhenComplete'
  <1>1. ASSUME NEW m \in Messages, Send(m) PROVE HandledWhenComplete'
    <2>1. /\ sent' = Append(sent, m)
          /\ UNCHANGED <<buffer, looping, handled>>
      BY <1>1 DEF Send
    <2>2. sent \in Seq(Messages) /\ Len(sent) \in Nat /\ Len(handled) \in Nat
          /\ Len(buffer) \in Nat
      BY Sizes DEF IInv, TypeOK
    <2>3. /\ Len(sent') = Len(sent) + 1 /\ sent'[Len(sent) + 1] = m
          /\ \A k \in 1 .. Len(sent) : sent'[k] = sent[k]
      BY <2>1, <2>2, AppendProperties
    <2>4. CASE Len(handled) < Len(sent)
      <3>1. sent'[Len(handled) + 1] = sent[Len(handled) + 1]
        BY <2>2, <2>3, <2>4
      <3> QED
        BY <2>1, <2>4, <3>1 DEF HandledWhenComplete, TotalLen
    <2>5. CASE ~(Len(handled) < Len(sent))
      <3>1. SUFFICES ASSUME ~looping
                     PROVE  Len(buffer) < FrameLen(sent'[Len(handled) + 1])
        BY <2>1 DEF HandledWhenComplete, FrameLen, TotalLen
      <3>2. PICK off \in [Nat -> Nat] : FramesAt(off)
        BY DEF IInv
      <3>3. buffer = <<>>
        BY <2>5, <3>2, FirstFrame DEF IInv
      <3>4. Len(handled) = Len(sent)
        BY <2>2, <2>5, <3>2 DEF FramesAt
      <3>5. Len(buffer) = 0 /\ FrameLen(m) \in Nat /\ FrameLen(m) >= 1
        BY <3>3, EmptySeq, FrameLenType
      <3>6. sent'[Len(handled) + 1] = m
        BY <2>3, <3>4
      <3> QED
        BY <3>5, <3>6
    <2> QED
      BY <2>4, <2>5
  <1>2. ASSUME NEW n \in 1 .. Len(wire), Arrive(n) PROVE HandledWhenComplete'
    BY <1>2 DEF Arrive, HandledWhenComplete
  <1>3. CASE HandleFrame
    <2>1. PICK off \in [Nat -> Nat] : FramesAt(off)
      BY DEF IInv
    <2>2. looping' = looping /\ looping
      BY <1>3, <2>1, HandleFrameEffect DEF IInv, HandleFrame
    <2> QED
      BY <2>2 DEF HandledWhenComplete
  <1>4. CASE AwaitMore \/ Refuse
    <2>1. ~CanProcessed(buffer) /\ UNCHANGED <<sent, buffer, handled>>
      BY <1>4 DEF AwaitMore, Refuse
    <2>2. Len(handled) < Len(sent) => Len(buffer) < FrameLen(sent[Len(handled) + 1])
      BY <2>1, NotYetComplete
    <2> QED
      BY <2>1, <2>2 DEF HandledWhenComplete, FrameLen, TotalLen
  <1>5. CASE UNCHANGED vars
    BY <1>5 DEF vars, HandledWhenComplete, TotalLen
  <1> QED
    BY <1>1, <1>2, <1>3, <1>4, <1>5 DEF Next, OnMessage

\* Between two reads no message waits that has arrived in full, for messages of
\* any sizes and every cut: the safety half of EverythingHandled.
THEOREM CompleteAlwaysHandled == Spec => []HandledWhenComplete
  <1>1. Init => HandledWhenComplete
    BY EmptySeq DEF Init, HandledWhenComplete
  <1>2. IInv /\ HandledWhenComplete /\ [Next]_vars => HandledWhenComplete'
    BY CompleteHandledStep
  <1> QED
    BY <1>1, <1>2, AlwaysIInv, PTL DEF Spec

-----------------------------------------------------------------------------
(* The stream is a queue of messages.                                        *)

LEMMA FifoInit == Init => FifoChannel!Init
  BY DEF Init, FifoChannel!Init

LEMMA FifoStep ==
  ASSUME IInv, [Next]_vars
  PROVE  [FifoChannel!Next]_<<sent, handled>>
  <1>1. ASSUME NEW m \in Messages, Send(m) PROVE FifoChannel!Send(m)
    BY <1>1 DEF Send, FifoChannel!Send
  <1>2. ASSUME NEW n \in 1 .. Len(wire), Arrive(n) PROVE UNCHANGED <<sent, handled>>
    BY <1>2 DEF Arrive
  <1>3. CASE HandleFrame
    <2>1. TypeOK /\ \E off \in [Nat -> Nat] : FramesAt(off)
      BY DEF IInv
    <2>2. PICK off \in [Nat -> Nat] : FramesAt(off)
      BY <2>1
    <2>3. /\ Len(handled) + 1 \in 1 .. Len(sent) /\ sent' = sent
          /\ handled' = Append(handled, sent[Len(handled) + 1])
      BY <1>3, <2>1, <2>2, HandleFrameEffect
    <2>4. Len(handled) < Len(sent)
      BY <2>1, <2>3, Sizes
    <2> QED
      BY <2>3, <2>4 DEF FifoChannel!Next, FifoChannel!Handle
  <1>4. CASE AwaitMore
    BY <1>4 DEF AwaitMore
  <1>5. CASE Refuse
    BY <1>5 DEF Refuse
  <1>6. CASE UNCHANGED vars
    BY <1>6 DEF vars
  <1> QED
    BY <1>1, <1>2, <1>3, <1>4, <1>5, <1>6 DEF Next, OnMessage, FifoChannel!Next

\* The messages are handled once each and in the order of sending.
THEOREM FramingImplementsFifo == Spec => ImplementsFifo
  <1>1. Init => FifoChannel!Init
    BY FifoInit
  <1>2. IInv /\ [Next]_vars => [FifoChannel!Next]_<<sent, handled>>
    BY FifoStep
  <1> QED
    BY <1>1, <1>2, AlwaysIInv, PTL DEF Spec, FifoChannel!Spec, ImplementsFifo
=============================================================================
