------------------------------ MODULE Framing -------------------------------
(***************************************************************************)
(* NinebotClient._on_notify: putting frames together again from a stream   *)
(* of bytes that arrives in pieces of any size up to the MTU, with stray   *)
(* bytes between the frames.  A frame is                                   *)
(*     P1 P2 LEN body     with LEN + HEADER_LENGTH + ENCRYPTION_OVERHEAD   *)
(* bytes in all; its first three bytes are sent in the clear, the body is  *)
(* encrypted and may hold any bytes, a preamble among them.                *)
(***************************************************************************)
EXTENDS Naturals, Sequences, FiniteSets

CONSTANTS
    MaxByte,                \* 255 in the code
    P1, P2,                 \* PROTO2_MAGIC, 0x5A 0xA5 in the code
    HEADER_LENGTH,          \* 7 in the code
    ENCRYPTION_OVERHEAD,    \* 6 in the code
    MaxData,                \* bound: data bytes of the frames sent
    Mtu,                    \* largest notification
    MaxStream               \* bound: bytes sent on one link

LENGTH_FIELD_OFFSET == 3

ASSUME FramingAssumption ==
    /\ MaxByte \in Nat /\ MaxData \in 0 .. MaxByte
    /\ P1 \in 0 .. MaxByte /\ P2 \in 0 .. MaxByte /\ P1 # P2
    /\ HEADER_LENGTH \in Nat /\ HEADER_LENGTH >= LENGTH_FIELD_OFFSET
    /\ ENCRYPTION_OVERHEAD \in Nat
    /\ Mtu \in Nat \ {0} /\ MaxStream \in Nat

VARIABLES
    stream,     \* every byte sent on this link, arrived or not
    sent,       \* history: the frames in it
    starts,     \* history: where in the stream each of them begins
    clean,      \* history: no stray bytes on this link read as a preamble
    arrived,    \* how many bytes of the stream have been notified
    buffer,     \* _buffer
    busy,       \* _on_notify is in its loop
    handed,     \* frames given to _dispatch
    taken       \* history: where in the stream each of those began

linkVars == <<stream, sent, starts, clean>>
vars == <<linkVars, arrived, buffer, busy, handed, taken>>

Byte == 0 .. MaxByte

\* expected_frame_length, once the length field is there.
FrameLength(len) == len + HEADER_LENGTH + ENCRYPTION_OVERHEAD

FramesOf(len) ==
    {<<P1, P2, len>> \o body :
        body \in [1 .. FrameLength(len) - LENGTH_FIELD_OFFSET -> Byte]}

Frames == UNION {FramesOf(len) : len \in 0 .. MaxData}

TypeOK ==
    /\ stream \in Seq(Byte)
    /\ sent \in Seq(Frames)
    /\ starts \in Seq(Nat \ {0}) /\ Len(starts) = Len(sent)
    /\ clean \in BOOLEAN
    /\ arrived \in 0 .. Len(stream)
    /\ buffer \in Seq(Byte) /\ Len(buffer) <= arrived
    /\ busy \in BOOLEAN
    /\ handed \in Seq(Seq(Byte))
    /\ taken \in Seq(Nat \ {0}) /\ Len(taken) = Len(handed)

Init ==
    /\ stream = <<>> /\ sent = <<>> /\ starts = <<>> /\ clean = TRUE
    /\ arrived = 0
    /\ buffer = <<>>
    /\ busy = FALSE
    /\ handed = <<>> /\ taken = <<>>

\* Bytes of the stream that have left the buffer.
Consumed == arrived - Len(buffer)

\* The last byte of the i-th frame sent, and of the i-th frame handed on.
End(i) == starts[i] + Len(sent[i]) - 1
TakenEnd(i) == taken[i] + Len(handed[i]) - 1
-----------------------------------------------------------------------------
(* The link.  Definitions marked "fault" are seeded faults: no action uses *)
(* them.                                                                   *)

\* The scooter sends a frame.
Send(f) ==
    /\ Len(stream) + Len(f) <= MaxStream
    /\ stream' = stream \o f
    /\ sent' = Append(sent, f)
    /\ starts' = Append(starts, Len(stream) + 1)
    /\ UNCHANGED <<clean, arrived, buffer, busy, handed, taken>>

\* P2 would complete a preamble begun by a stray P1.
CompletesPreamble(b) ==
    /\ b = P2 /\ stream # <<>> /\ stream[Len(stream)] = P1
    /\ sent = <<>> \/ End(Len(sent)) < Len(stream)

\* A byte that belongs to no frame.
Stray(b) ==
    /\ Len(stream) < MaxStream
    /\ stream' = Append(stream, b)
    /\ clean' = (clean /\ ~CompletesPreamble(b))
    /\ UNCHANGED <<sent, starts, arrived, buffer, busy, handed, taken>>

Reconnect_KeepsBuffer ==   \* fault: the buffer is not cleared
    /\ ~busy
    /\ stream' = <<>> /\ sent' = <<>> /\ starts' = <<>> /\ clean' = TRUE
    /\ arrived' = 0
    /\ buffer' = buffer
    /\ handed' = <<>> /\ taken' = <<>>
    /\ UNCHANGED busy

\* _connect_transport: what is left of the old link is forgotten.
Reconnect ==
    /\ ~busy
    /\ stream' = <<>> /\ sent' = <<>> /\ starts' = <<>> /\ clean' = TRUE
    /\ arrived' = 0
    /\ buffer' = <<>>
    /\ handed' = <<>> /\ taken' = <<>>
    /\ UNCHANGED busy
-----------------------------------------------------------------------------
(* _on_notify.  It runs without an await, so nothing else happens while    *)
(* busy; each round of its loop is a step.                                 *)

\* A notification of n bytes.
Notify(n) ==
    /\ ~busy
    /\ arrived + n <= Len(stream)
    /\ buffer' = buffer \o SubSeq(stream, arrived + 1, arrived + n)
    /\ arrived' = arrived + n
    /\ busy' = TRUE
    /\ UNCHANGED <<linkVars, handed, taken>>

IsPreamble(s, i) == s[i] = P1 /\ s[i + 1] = P2

Preambles == {i \in 1 .. Len(buffer) - 1 : IsPreamble(buffer, i)}

\* _buffer.find: i is where the buffer's first preamble begins.
Find(i) == i \in Preambles /\ \A j \in Preambles : i <= j

Rest(i) == SubSeq(buffer, i, Len(buffer))

NoPreamble_KeepsNothing ==   \* fault: a split preamble is not waited for
    /\ busy
    /\ Preambles = {}
    /\ buffer' = <<>>
    /\ busy' = FALSE
    /\ UNCHANGED <<linkVars, arrived, handed, taken>>

NoPreamble_KeepsAll ==   \* fault: stray bytes are not discarded
    /\ busy
    /\ Preambles = {}
    /\ buffer' = buffer
    /\ busy' = FALSE
    /\ UNCHANGED <<linkVars, arrived, handed, taken>>

\* Nothing that looks like a frame: only the last byte is kept.
NoPreamble ==
    /\ busy
    /\ Preambles = {}
    /\ buffer' = IF buffer = <<>> THEN <<>> ELSE Rest(Len(buffer))
    /\ busy' = FALSE
    /\ UNCHANGED <<linkVars, arrived, handed, taken>>

\* A frame begins at i and is all there.
Whole(i) ==
    /\ i + LENGTH_FIELD_OFFSET - 1 <= Len(buffer)
    /\ FrameLength(buffer[i + LENGTH_FIELD_OFFSET - 1]) <= Len(buffer) - i + 1

\* Wait for more; the bytes before the frame are discarded.
Incomplete(i) ==
    /\ busy
    /\ Find(i) /\ ~Whole(i)
    /\ buffer' = Rest(i)
    /\ busy' = FALSE
    /\ UNCHANGED <<linkVars, arrived, handed, taken>>

HandOn_Stops(i) ==   \* fault: one frame per notification
    /\ busy
    /\ Find(i) /\ Whole(i)
    /\ LET last == i + FrameLength(buffer[i + LENGTH_FIELD_OFFSET - 1]) - 1
       IN  /\ handed' = Append(handed, SubSeq(buffer, i, last))
           /\ buffer' = Rest(last + 1)
    /\ taken' = Append(taken, Consumed + i)
    /\ busy' = FALSE
    /\ UNCHANGED <<linkVars, arrived>>

\* Cut the frame off and dispatch it; another may follow.
HandOn(i) ==
    /\ busy
    /\ Find(i) /\ Whole(i)
    /\ LET last == i + FrameLength(buffer[i + LENGTH_FIELD_OFFSET - 1]) - 1
       IN  /\ handed' = Append(handed, SubSeq(buffer, i, last))
           /\ buffer' = Rest(last + 1)
    /\ taken' = Append(taken, Consumed + i)
    /\ UNCHANGED <<linkVars, arrived, busy>>

Next ==
    \/ \E f \in Frames : Send(f)
    \/ \E b \in Byte : Stray(b)
    \/ Reconnect
    \/ \E n \in 1 .. Mtu : Notify(n)
    \/ NoPreamble
    \/ \E i \in Preambles : Incomplete(i) \/ HandOn(i)

Spec == Init /\ [][Next]_vars
-----------------------------------------------------------------------------
\* While no stray bytes read as a preamble, the frames come out as the scooter
\* sent them, in order, none lost, doubled or made up: the handler implements a
\* FIFO of frames.  Of a link on which some do, the FIFO is taken to be done.
OnClean(frames) == IF clean THEN frames ELSE <<>>
Fifo == INSTANCE FrameFifo WITH sent <- OnClean(sent), handed <- OnClean(handed)
FifoSpec == Fifo!Spec

\* Then no frame is held back: when _on_notify returns, every frame whose last
\* byte has arrived has been handed on, however many came in one notification.
PromptDelivery ==
    clean /\ ~busy => \A i \in 1 .. Len(sent) : End(i) <= arrived => i <= Len(handed)

\* A frame goes missing only when bytes that were not a frame were handed on
\* in place of a part of it; stray bytes never cost more than that, and the
\* handler finds the first frame after them.
LostOnlyToFalseFrames ==
    \A i \in 1 .. Len(sent) :
        End(i) <= Consumed =>
            \E k \in 1 .. Len(handed) :
                taken[k] <= End(i) /\ starts[i] <= TakenEnd(k)

\* Between notifications the buffer holds less than the longest frame, whatever
\* the scooter sends.
BufferIsBounded == ~busy => Len(buffer) < FrameLength(MaxByte)
=============================================================================
