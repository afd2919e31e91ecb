------------------------------- MODULE Framing -------------------------------
(***************************************************************************)
(* One direction of a connection: MuduoConnection::send with               *)
(* LVProtocol::serialize at one end, the onMessage loop of MuduoServer or  *)
(* MuduoClient with LVProtocol::canProcessed and onMessage at the other.   *)
(*                                                                         *)
(* A frame is |len|mtype|idlen|id|body|, its len field does not count      *)
(* itself.  The wire and the buffer hold cells: <<m, i>> is the i-th byte  *)
(* of the frame of m.  TCP cuts the stream anywhere and loses nothing.     *)
(***************************************************************************)
EXTENDS Naturals, Sequences

CONSTANTS
  Messages,         \* messages, each with the length of its id and its body
  IdLen, BodyLen,
  LenField, MTypeField, IdLenField,   \* lenFieldsLength and so on
  MaxDataSize,      \* maxDataSize
  MaxSends          \* bound: messages sent over the connection

ASSUME SizesAssumption ==
  /\ IdLen \in [Messages -> Nat]
  /\ BodyLen \in [Messages -> Nat]
  /\ LenField \in Nat \ {0}
  /\ {MTypeField, IdLenField, MaxDataSize, MaxSends} \subseteq Nat

VARIABLES
  sent,     \* auxiliary: the messages sent so far
  wire,     \* bytes on their way
  buffer,   \* muduo::net::Buffer of the receiver
  looping,  \* is the receiver inside onMessage
  handled,  \* the messages _cb_message was called with
  shut      \* conn->shutdown() was called: answers can no longer be sent

vars == <<sent, wire, buffer, looping, handled, shut>>

Init ==
  /\ sent = <<>>
  /\ wire = <<>>
  /\ buffer = <<>>
  /\ looping = FALSE
  /\ handled = <<>>
  /\ shut = FALSE

-----------------------------------------------------------------------------
(* LVProtocol.                                                             *)

\* total_len as serialize writes it.
TotalLen(m) == MTypeField + IdLenField + IdLen[m] + BodyLen[m]

Serialize(m) ==
  [i \in 1 .. LenField + MTypeField + IdLenField + IdLen[m] + BodyLen[m] |-> <<m, i>>]

\* peekInt32; meaningful where a frame begins.
PeekLen(buf) == IF Head(buf)[2] = 1 THEN TotalLen(Head(buf)[1]) ELSE 0

CanProcessed(buf) ==
  /\ Len(buf) >= LenField
  /\ Len(buf) >= LenField + PeekLen(buf)

\* The bytes that onMessage takes from the buffer.
Frame(buf) == SubSeq(buf, 1, LenField + PeekLen(buf))

-----------------------------------------------------------------------------

Send(m) ==
  /\ Len(sent) < MaxSends
  /\ sent' = Append(sent, m)
  /\ wire' = wire \o Serialize(m)
  /\ UNCHANGED <<buffer, looping, handled, shut>>

\* n bytes are read from the socket and onMessage is called.
Arrive(n) ==
  /\ ~looping
  /\ n <= Len(wire)
  /\ wire' = SubSeq(wire, n + 1, Len(wire))
  /\ buffer' = buffer \o SubSeq(wire, 1, n)
  /\ looping' = TRUE
  /\ UNCHANGED <<sent, handled, shut>>

\* Mutants of HandleFrame: one message per call; the message is only peeked at;
\* the first byte in place of the message.
HandleOne ==
  /\ looping /\ CanProcessed(buffer)
  /\ handled' = Append(handled, Head(buffer)[1])
  /\ buffer' = SubSeq(buffer, Len(Frame(buffer)) + 1, Len(buffer))
  /\ looping' = FALSE
  /\ UNCHANGED <<sent, wire, shut>>

HandlePeeked ==
  /\ looping /\ CanProcessed(buffer)
  /\ handled' = Append(handled, Head(buffer)[1])
  /\ looping' = FALSE
  /\ UNCHANGED <<sent, wire, buffer, shut>>

HandleByte ==
  /\ looping /\ CanProcessed(buffer)
  /\ handled' = Append(handled, Head(buffer))
  /\ buffer' = SubSeq(buffer, Len(Frame(buffer)) + 1, Len(buffer))
  /\ UNCHANGED <<sent, wire, looping, shut>>

\* A complete frame is handled and the loop goes on; bytes that do not form one
\* cannot be turned into a message, and the connection is shut down.
HandleFrame ==
  /\ looping
  /\ CanProcessed(buffer)
  /\ buffer' = SubSeq(buffer, Len(Frame(buffer)) + 1, Len(buffer))
  /\ LET m == Head(buffer)[1]
     IN IF Frame(buffer) = Serialize(m)
        THEN handled' = Append(handled, m) /\ UNCHANGED <<looping, shut>>
        ELSE shut' = TRUE /\ looping' = FALSE /\ UNCHANGED handled
  /\ UNCHANGED <<sent, wire>>

\* Mutants of AwaitMore: no limit; and of Refuse: the limit is looked at first.
AwaitAny ==
  /\ looping /\ ~CanProcessed(buffer)
  /\ looping' = FALSE
  /\ UNCHANGED <<sent, wire, buffer, handled, shut>>

\* The data is not enough for a message: onMessage returns.
AwaitMore ==
  /\ looping
  /\ ~CanProcessed(buffer)
  /\ Len(buffer) <= MaxDataSize
  /\ looping' = FALSE
  /\ UNCHANGED <<sent, wire, buffer, handled, shut>>

RefuseAny ==
  /\ looping /\ Len(buffer) > MaxDataSize
  /\ looping' = FALSE /\ shut' = TRUE
  /\ UNCHANGED <<sent, wire, buffer, handled>>

\* Nor is it, and there is too much of it.  shutdown() closes the writing half:
\* what is on the wire may still arrive, and onMessage is called with it.
Refuse ==
  /\ looping
  /\ ~CanProcessed(buffer)
  /\ Len(buffer) > MaxDataSize
  /\ looping' = FALSE
  /\ shut' = TRUE
  /\ UNCHANGED <<sent, wire, buffer, handled>>

OnMessage == HandleFrame \/ AwaitMore \/ Refuse

Next ==
  \/ \E m \in Messages : Send(m)
  \/ \E n \in 1 .. Len(wire) : Arrive(n)
  \/ OnMessage

Spec == Init /\ [][Next]_vars

\* The network delivers what was sent and the loop thread runs.  Nothing need
\* arrive after a shutdown: the peer that reads the end of the stream closes, and
\* drops what it has not sent yet.
Fairness ==
  /\ WF_vars(~shut /\ \E n \in 1 .. Len(wire) : Arrive(n))
  /\ WF_vars(OnMessage)

FairSpec == Spec /\ Fairness

-----------------------------------------------------------------------------
(* Properties.                                                             *)

Bytes == Messages \X (Nat \ {0})

\* The buffer and the wire hold bytes of frames, the handler sees messages.
TypeOK ==
  /\ sent \in Seq(Messages)
  /\ wire \in Seq(Bytes)
  /\ buffer \in Seq(Bytes)
  /\ looping \in BOOLEAN
  /\ handled \in Seq(Messages)
  /\ shut \in BOOLEAN

\* A connection is shut down only over a message larger than the limit: the
\* limit is compared with everything in the buffer, but only when the first
\* message in it is incomplete, so any amount of ordinary messages that arrive
\* in one read, however they are cut, is handled.
RefusedOnlyIfTooLarge ==
  shut => \E k \in 1 .. Len(sent) : LenField + TotalLen(sent[k]) > MaxDataSize

\* Between two reads the buffer of a connection that is not shut down holds at
\* most maxDataSize bytes.
BufferBounded == ~looping /\ ~shut => Len(buffer) <= MaxDataSize

\* Between two reads no message waits that has arrived in full: however many
\* frames one read completes, and wherever it cuts the last, onMessage does not
\* return before it has handled them all, not even on a connection it shuts down.
HandledWhenComplete ==
  ~looping /\ Len(handled) < Len(sent) =>
    Len(buffer) < LenField + TotalLen(sent[Len(handled) + 1])

\* What makes these inductive: the bytes not yet handled, in the buffer and then
\* on the wire, are the frames of the messages not yet handled, in order.
Unread(i) == IF i <= Len(buffer) THEN buffer[i] ELSE wire[i - Len(buffer)]

NonDecreasing(off, a, b) == \A j, k \in a .. b : j <= k => off[j] <= off[k]

\* off[k] of them come before the frame of the k-th message sent.
FramesAt(off) ==
  /\ Len(handled) <= Len(sent)
  /\ off[Len(handled) + 1] = 0
  /\ off[Len(sent) + 1] = Len(buffer) + Len(wire)
  /\ NonDecreasing(off, Len(handled) + 1, Len(sent) + 1)
  /\ \A k \in Len(handled) + 1 .. Len(sent) :
       /\ off[k + 1] = off[k] + LenField + TotalLen(sent[k])
       /\ \A i \in 1 .. LenField + TotalLen(sent[k]) : Unread(off[k] + i) = <<sent[k], i>>

FifoChannel == INSTANCE Fifo

\* However the stream is cut, the messages are handled once each and in order.
ImplementsFifo == FifoChannel!Spec

\* Every message sent over a connection that is not shut down is handled at last:
\* none is left complete in the buffer to wait for bytes that may never come.
EverythingHandled ==
  \A n \in 1 .. MaxSends : Len(sent) = n ~> Len(handled) >= n \/ shut

-----------------------------------------------------------------------------
(* What the repository says of this code, and the code does not do.        *)

\* The comment over the limit: "in this case the connection is closed", so
\* nothing is handled any more.  The limit only shuts the writing half down.
NothingHandledOnceRefused == [][shut => UNCHANGED handled]_vars
=============================================================================
