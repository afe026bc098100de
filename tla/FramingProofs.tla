--------------------------- MODULE FramingProofs ----------------------------
(***************************************************************************)
(* Proofs about Framing: its types, the bound on the buffer, that on a     *)
(* link whose stray bytes do not read as a preamble the handler is a FIFO  *)
(* of frames which holds none back, and that on any link it discards none. *)
(***************************************************************************)
EXTENDS Framing, SequenceTheorems, TLAPS

USE DEF LENGTH_FIELD_OFFSET

\* A frame: a preamble, a length, and as many bytes as the length says.
LEMMA FrameShape ==
  ASSUME NEW f \in Frames
  PROVE  /\ f \in Seq(Byte)
         /\ Len(f) \in Nat /\ Len(f) >= 3
         /\ f[1] = P1 /\ f[2] = P2 /\ f[3] \in Byte
         /\ Len(f) = FrameLength(f[3])
PROOF
  <1>1. PICK len \in 0 .. MaxData :
          \E body \in [1 .. FrameLength(len) - 3 -> Byte] :
              f = <<P1, P2, len>> \o body
    BY DEF Frames, FramesOf
  <1>2. PICK body \in [1 .. FrameLength(len) - 3 -> Byte] :
          f = <<P1, P2, len>> \o body
    BY <1>1
  <1>3. /\ len \in Nat /\ len \in Byte /\ P1 \in Byte /\ P2 \in Byte
        /\ FrameLength(len) - 3 \in Nat /\ FrameLength(len) \in Nat
    <2>1. /\ len \in Nat /\ len \in Byte /\ P1 \in Byte /\ P2 \in Byte
      BY <1>1, FramingAssumption DEF Byte
    <2>2. FrameLength(len) \in Nat /\ FrameLength(len) >= 3
      BY <2>1, FramingAssumption DEF FrameLength
    <2> QED
      BY <2>1, <2>2
  <1>4. body \in Seq(Byte) /\ Len(body) = FrameLength(len) - 3
    <2> DEFINE n == FrameLength(len) - 3
    <2>1. n \in Nat /\ body \in [1 .. n -> Byte]
      BY <1>2, <1>3
    <2> HIDE DEF n
    <2>2. body \in Seq(Byte) /\ Len(body) = n
      BY <2>1
    <2> QED
      BY <2>2 DEF n
  <1> DEFINE head == <<P1, P2, len>>
  <1>5. head \in Seq(Byte) /\ Len(head) = 3
    BY <1>3
  <1>5a. head[1] = P1 /\ head[2] = P2 /\ head[3] = len
    OBVIOUS
  <1> HIDE DEF head
  <1>6. f = head \o body
    BY <1>2 DEF head
  <1>7. /\ f \in Seq(Byte)
        /\ Len(f) = 3 + Len(body)
        /\ f[1] = head[1] /\ f[2] = head[2] /\ f[3] = head[3]
    <2>1. Len(body) \in Nat
      BY <1>3, <1>4
    <2>2. /\ head \o body \in Seq(Byte)
          /\ Len(head \o body) = Len(head) + Len(body)
          /\ \A i \in 1 .. Len(head) + Len(body) : (head \o body)[i] =
                 IF i <= Len(head) THEN head[i] ELSE body[i - Len(head)]
      BY <1>4, <1>5, ConcatProperties
    <2>3. 1 \in 1 .. Len(head) + Len(body) /\ 2 \in 1 .. Len(head) + Len(body)
          /\ 3 \in 1 .. Len(head) + Len(body)
      BY <1>5, <2>1
    <2> QED
      BY <1>5, <1>6, <2>2, <2>3
  <1> QED
    BY <1>3, <1>4, <1>5a, <1>7

\* What is left of the buffer from its i-th byte on.
LEMMA RestOf ==
  ASSUME TypeOK, NEW i \in 1 .. Len(buffer) + 1
  PROVE  /\ Rest(i) \in Seq(Byte)
         /\ Len(Rest(i)) = Len(buffer) - i + 1
         /\ \A k \in 1 .. Len(Rest(i)) : Rest(i)[k] = buffer[i + k - 1]
PROOF
  <1>1. Len(buffer) \in Nat /\ buffer \in Seq(Byte) /\ i \in Int /\ Len(buffer) \in Int
    BY DEF TypeOK
  <1>2. \A k \in i .. Len(buffer) : buffer[k] \in Byte
    BY <1>1, ElementOfSeq
  <1>3. /\ SubSeq(buffer, i, Len(buffer)) \in Seq(Byte)
        /\ Len(SubSeq(buffer, i, Len(buffer)))
             = IF i <= Len(buffer) THEN Len(buffer) - i + 1 ELSE 0
        /\ \A k \in 1 .. Len(buffer) - i + 1 :
             SubSeq(buffer, i, Len(buffer))[k] = buffer[i + k - 1]
    BY <1>1, <1>2, SubSeqProperties
  <1> QED
    BY <1>1, <1>3 DEF Rest

\* The bytes of the i-th preamble in the buffer, and the frame that HandOn
\* cuts off there.
LEMMA CutFrame ==
  ASSUME TypeOK, NEW i \in Preambles, Whole(i)
  PROVE  LET total == FrameLength(buffer[i + 2])
             frame == SubSeq(buffer, i, i + total - 1)
         IN  /\ total \in Nat /\ total >= 3 /\ i + total \in 1 .. Len(buffer) + 1
             /\ frame \in Seq(Byte) /\ Len(frame) = total
             /\ \A k \in 1 .. total : frame[k] = buffer[i + k - 1]
PROOF
  <1>1. /\ Len(buffer) \in Nat /\ buffer \in Seq(Byte)
        /\ i \in Nat \ {0} /\ i + 2 <= Len(buffer)
        /\ FrameLength(buffer[i + 2]) <= Len(buffer) - i + 1
    BY DEF TypeOK, Preambles, Whole
  <1>2. buffer[i + 2] \in Byte
    BY <1>1, ElementOfSeq
  <1>3. buffer[i + 2] \in Nat
    BY <1>2, FramingAssumption DEF Byte
  <1> DEFINE total == FrameLength(buffer[i + 2])
  <1>4. total \in Nat /\ total >= 3
    BY <1>3, FramingAssumption DEF FrameLength
  <1>5. \A k \in i .. i + total - 1 : buffer[k] \in Byte
    BY <1>1, <1>4, ElementOfSeq
  <1> DEFINE frame == SubSeq(buffer, i, i + total - 1)
  <1>6. /\ frame \in Seq(Byte)
        /\ Len(frame) = (IF i <= i + total - 1 THEN (i + total - 1) - i + 1 ELSE 0)
        /\ \A k \in 1 .. (i + total - 1) - i + 1 : frame[k] = buffer[i + k - 1]
    BY <1>1, <1>4, <1>5, SubSeqProperties
  <1> QED
    BY <1>1, <1>4, <1>6, SMTT(30)

-----------------------------------------------------------------------------
\* Every variable keeps its type, whatever the stray bytes.
LEMMA TypeStep == TypeOK /\ [Next]_vars => TypeOK'
PROOF
  <1> SUFFICES ASSUME TypeOK, [Next]_vars PROVE TypeOK'
    OBVIOUS
  <1>0. /\ stream \in Seq(Byte) /\ Len(stream) \in Nat
        /\ buffer \in Seq(Byte) /\ Len(buffer) \in Nat /\ Len(buffer) <= arrived
        /\ arrived \in Nat /\ arrived <= Len(stream)
    BY DEF TypeOK
  <1>1. ASSUME NEW f \in Frames, Send(f) PROVE TypeOK'
    <2>1. f \in Seq(Byte) /\ Len(f) \in Nat
      BY <1>1, FrameShape
    <2>2. stream' \in Seq(Byte) /\ Len(stream') = Len(stream) + Len(f)
      BY <1>0, <1>1, <2>1 DEF Send
    <2>3. sent' \in Seq(Frames) /\ starts' \in Seq(Nat \ {0}) /\ Len(starts') = Len(sent')
      <3>1. /\ sent \in Seq(Frames) /\ starts \in Seq(Nat \ {0})
            /\ Len(starts) = Len(sent)
        BY DEF TypeOK
      <3>2. Len(stream) + 1 \in Nat \ {0}
        BY <1>0
      <3> QED
        BY <1>1, <3>1, <3>2 DEF Send
    <2>4. /\ arrived' = arrived /\ buffer' = buffer /\ busy' = busy /\ clean' = clean
          /\ handed' = handed /\ taken' = taken
      BY <1>1 DEF Send
    <2>5. arrived' \in 0 .. Len(stream') /\ Len(buffer') <= arrived'
      BY <1>0, <2>1, <2>2, <2>4
    <2> QED
      BY <2>2, <2>3, <2>4, <2>5 DEF TypeOK
  <1>2. ASSUME NEW b \in Byte, Stray(b) PROVE TypeOK'
    BY <1>0, <1>2 DEF Stray, TypeOK
  <1>3. ASSUME Reconnect PROVE TypeOK'
    BY <1>3 DEF Reconnect, TypeOK
  <1>4. ASSUME NEW n \in 1 .. Mtu, Notify(n) PROVE TypeOK'
    <2>1. n \in Nat /\ arrived + n <= Len(stream)
      BY <1>4, FramingAssumption DEF Notify
    <2> DEFINE chunk == SubSeq(stream, arrived + 1, arrived + n)
    <2>2. \A k \in arrived + 1 .. arrived + n : stream[k] \in Byte
      BY <1>0, <2>1, ElementOfSeq
    <2>3. chunk \in Seq(Byte) /\ Len(chunk) = n
      BY <1>0, <1>4, <2>1, <2>2, SubSeqProperties
    <2> HIDE DEF chunk
    <2>4. buffer' = buffer \o chunk
      BY <1>4 DEF Notify, chunk
    <2>5. buffer' \in Seq(Byte) /\ Len(buffer') = Len(buffer) + n
      <3>1. /\ buffer \o chunk \in Seq(Byte)
            /\ Len(buffer \o chunk) = Len(buffer) + Len(chunk)
        BY <1>0, <2>3, ConcatProperties
      <3> QED
        BY <2>3, <2>4, <3>1
    <2> QED
      BY <1>0, <1>4, <2>1, <2>5 DEF Notify, TypeOK, linkVars
  <1>5. ASSUME NoPreamble PROVE TypeOK'
    <2>1. buffer' \in Seq(Byte) /\ Len(buffer') <= Len(buffer) /\ Len(buffer') \in Nat
      <3>1. CASE buffer = <<>>
        BY <1>0, <1>5, <3>1 DEF NoPreamble
      <3>2. CASE buffer # <<>>
        <4>1. Len(buffer) \in 1 .. Len(buffer) + 1
          BY <1>0, <3>2
        <4> QED
          BY <1>0, <1>5, <3>2, <4>1, RestOf DEF NoPreamble
      <3> QED
        BY <3>1, <3>2
    <2> QED
      <3>1. /\ stream' = stream /\ sent' = sent /\ starts' = starts /\ arrived' = arrived
            /\ handed' = handed /\ taken' = taken /\ busy' = FALSE /\ clean' = clean
        BY <1>5 DEF NoPreamble, linkVars
      <3>2. Len(buffer') \in Nat /\ Len(buffer') <= arrived
        BY <1>0, <2>1
      <3> QED
        BY <2>1, <3>1, <3>2 DEF TypeOK
  <1>6. ASSUME NEW i \in Preambles, Incomplete(i) PROVE TypeOK'
    <2>1. i \in 1 .. Len(buffer) + 1 /\ i \in Nat
      BY <1>0, <1>6 DEF Preambles
    <2>2. buffer' \in Seq(Byte) /\ Len(buffer') = Len(buffer) - i + 1
      BY <1>6, <2>1, RestOf DEF Incomplete
    <2> QED
      <3>1. /\ stream' = stream /\ sent' = sent /\ starts' = starts /\ arrived' = arrived
            /\ handed' = handed /\ taken' = taken /\ busy' = FALSE /\ clean' = clean
        BY <1>6 DEF Incomplete, linkVars
      <3>2. Len(buffer') \in Nat /\ Len(buffer') <= arrived
        BY <1>0, <2>1, <2>2
      <3> QED
        BY <2>1, <2>2, <3>1, <3>2 DEF TypeOK
  <1>7. ASSUME NEW i \in Preambles, HandOn(i) PROVE TypeOK'
    <2> DEFINE total == FrameLength(buffer[i + 2])
               frame == SubSeq(buffer, i, i + total - 1)
    <2>1. Whole(i) /\ i \in Nat \ {0}
      BY <1>0, <1>7 DEF HandOn, Preambles
    <2>2. /\ total \in Nat /\ total >= 3 /\ i + total \in 1 .. Len(buffer) + 1
          /\ frame \in Seq(Byte)
      BY <1>7, <2>1, CutFrame
    <2>3. i + 3 - 1 = i + 2 /\ i + total - 1 + 1 = i + total
      BY <2>1, <2>2
    <2>4. handed' = Append(handed, frame) /\ buffer' = Rest(i + total)
      BY <1>7, <2>3 DEF HandOn
    <2>5. buffer' \in Seq(Byte) /\ Len(buffer') = Len(buffer) - (i + total) + 1
      BY <2>2, <2>4, RestOf
    <2>6. Consumed + i \in Nat \ {0}
      BY <1>0, <2>1 DEF Consumed
    <2>7. /\ handed' \in Seq(Seq(Byte)) /\ taken' \in Seq(Nat \ {0})
          /\ Len(taken') = Len(handed')
      <3> HIDE DEF frame
      <3>1. taken' = Append(taken, Consumed + i)
        BY <1>7 DEF HandOn
      <3>2. taken \in Seq(Nat \ {0}) /\ handed \in Seq(Seq(Byte)) /\ Len(taken) = Len(handed)
        BY DEF TypeOK
      <3>3. taken' \in Seq(Nat \ {0}) /\ Len(taken') = Len(taken) + 1
        BY <3>1, <3>2, <2>6
      <3>4. handed' \in Seq(Seq(Byte)) /\ Len(handed') = Len(handed) + 1
        BY <2>2, <2>4, <3>2
      <3> QED
        BY <3>2, <3>3, <3>4
    <2> QED
      <3>1. /\ stream' = stream /\ sent' = sent /\ starts' = starts /\ arrived' = arrived
            /\ busy' = busy /\ clean' = clean
        BY <1>7 DEF HandOn, linkVars
      <3>2. Len(buffer') \in Nat /\ Len(buffer') <= arrived
        <4> HIDE DEF total
        <4>1. total \in Nat /\ total >= 3 /\ i + total \in 1 .. Len(buffer) + 1
          BY <2>2
        <4> QED
          BY <1>0, <2>1, <2>5, <4>1
      <3> QED
        BY <2>5, <2>7, <3>1, <3>2 DEF TypeOK
  <1>8. CASE UNCHANGED vars
    BY <1>8 DEF vars, linkVars, TypeOK
  <1> QED
    BY <1>1, <1>2, <1>3, <1>4, <1>5, <1>6, <1>7, <1>8 DEF Next

LEMMA TypeInit == Init => TypeOK
PROOF
  <1> SUFFICES ASSUME Init PROVE TypeOK
    OBVIOUS
  <1>1. <<>> \in Seq(Byte) /\ <<>> \in Seq(Frames) /\ <<>> \in Seq(Nat \ {0})
        /\ <<>> \in Seq(Seq(Byte)) /\ Len(<<>>) = 0
    BY EmptySeq
  <1>2. /\ stream = <<>> /\ sent = <<>> /\ starts = <<>> /\ arrived = 0
        /\ buffer = <<>> /\ busy = FALSE /\ handed = <<>> /\ taken = <<>>
    BY DEF Init
  <1>3. /\ stream \in Seq(Byte) /\ Len(stream) = 0
        /\ buffer \in Seq(Byte) /\ Len(buffer) = 0
    BY <1>1, <1>2
  <1>4. /\ sent \in Seq(Frames) /\ Len(sent) = 0
        /\ starts \in Seq(Nat \ {0}) /\ Len(starts) = 0
    BY <1>1, <1>2
  <1>5. /\ handed \in Seq(Seq(Byte)) /\ Len(handed) = 0
        /\ taken \in Seq(Nat \ {0}) /\ Len(taken) = 0
    BY <1>1, <1>2
  <1>6. arrived \in 0 .. Len(stream) /\ Len(buffer) <= arrived /\ busy \in BOOLEAN
    <2>1. busy \in BOOLEAN
      BY <1>2
    <2>2. Len(stream) = 0 /\ Len(buffer) = 0 /\ arrived = 0
      BY <1>2, <1>3
    <2> QED
      BY <2>1, <2>2
  <1>7. Len(starts) = Len(sent) /\ Len(taken) = Len(handed)
    BY <1>4, <1>5
  <1>8. clean \in BOOLEAN
    BY DEF Init
  <1> QED
    BY <1>3, <1>4, <1>5, <1>6, <1>7, <1>8 DEF TypeOK

\* Every variable of Framing keeps its type (NinebotClient._buffer is never
\* longer than what has arrived on the link).
THEOREM FramingTypeCorrect == Spec => []TypeOK
PROOF
  <1> QED
    BY TypeInit, TypeStep, PTL DEF Spec

-----------------------------------------------------------------------------
\* When _on_notify returns, what it keeps is less than one longest frame.
LEMMA BoundedStep == TypeOK /\ BufferIsBounded /\ [Next]_vars => BufferIsBounded'
PROOF
  <1> SUFFICES ASSUME TypeOK, BufferIsBounded, [Next]_vars, ~busy'
               PROVE  Len(buffer)' < FrameLength(MaxByte)
    BY DEF BufferIsBounded
  <1>0. /\ buffer \in Seq(Byte) /\ Len(buffer) \in Nat
        /\ FrameLength(MaxByte) \in Nat /\ FrameLength(MaxByte) >= 3
    BY FramingAssumption DEF TypeOK, FrameLength
  <1>1. ASSUME NEW f \in Frames, Send(f) PROVE Len(buffer)' < FrameLength(MaxByte)
    BY <1>1 DEF Send, BufferIsBounded
  <1>2. ASSUME NEW b \in Byte, Stray(b) PROVE Len(buffer)' < FrameLength(MaxByte)
    BY <1>2 DEF Stray, BufferIsBounded
  <1>3. ASSUME Reconnect PROVE Len(buffer)' < FrameLength(MaxByte)
    BY <1>0, <1>3 DEF Reconnect
  <1>4. ASSUME NEW n \in 1 .. Mtu, Notify(n) PROVE FALSE
    BY <1>4 DEF Notify
  <1>5. ASSUME NoPreamble PROVE Len(buffer)' < FrameLength(MaxByte)
    <2>1. CASE buffer = <<>>
      BY <1>0, <1>5, <2>1 DEF NoPreamble
    <2>2. CASE buffer # <<>>
      <3>1. Len(buffer) \in 1 .. Len(buffer) + 1
        BY <1>0, <2>2
      <3> QED
        BY <1>0, <1>5, <2>2, <3>1, RestOf DEF NoPreamble
    <2> QED
      BY <2>1, <2>2
  <1>6. ASSUME NEW i \in Preambles, Incomplete(i)
        PROVE  Len(buffer)' < FrameLength(MaxByte)
    <2>1. i \in 1 .. Len(buffer) + 1 /\ i \in Nat
      BY <1>0, <1>6 DEF Preambles
    <2>2. Len(buffer') = Len(buffer) - i + 1
      BY <1>6, <2>1, RestOf DEF Incomplete
    <2>3. CASE i + 2 <= Len(buffer)
      <3>1. buffer[i + 2] \in Byte
        BY <1>0, <2>1, <2>3, ElementOfSeq
      <3>2. i + 3 - 1 = i + 2
        BY <2>1
      <3>3. ~(FrameLength(buffer[i + 2]) <= Len(buffer) - i + 1)
        BY <1>6, <2>3, <3>2 DEF Incomplete, Whole
      <3>4. FrameLength(buffer[i + 2]) <= FrameLength(MaxByte)
            /\ FrameLength(buffer[i + 2]) \in Nat
        BY <3>1, FramingAssumption DEF FrameLength, Byte
      <3> QED
        BY <1>0, <2>1, <2>2, <3>3, <3>4
    <2>4. CASE ~(i + 2 <= Len(buffer))
      BY <1>0, <2>1, <2>2, <2>4
    <2> QED
      BY <2>3, <2>4
  <1>7. ASSUME NEW i \in Preambles, HandOn(i) PROVE Len(buffer)' < FrameLength(MaxByte)
    BY <1>7 DEF HandOn, BufferIsBounded
  <1>8. CASE UNCHANGED vars
    BY <1>8 DEF vars, BufferIsBounded
  <1> QED
    BY <1>1, <1>2, <1>3, <1>4, <1>5, <1>6, <1>7, <1>8 DEF Next

\* Between notifications NinebotClient._buffer holds less than the longest
\* frame, whatever bytes arrive.
THEOREM FramingBufferBounded == Spec => []BufferIsBounded
PROOF
  <1>1. Init => BufferIsBounded
    BY FramingAssumption DEF Init, BufferIsBounded, FrameLength
  <1> QED
    BY <1>1, TypeInit, TypeStep, BoundedStep, PTL DEF Spec

-----------------------------------------------------------------------------
(* The stream is the frames, in order, with gaps that hold no preamble.    *)

After(i) == IF i = 0 THEN 0 ELSE End(i)
Limit(i) == IF i <= Len(sent) THEN starts[i] ELSE Len(stream) + 1

Layout ==
    \A i \in 1 .. Len(sent) :
        /\ End(i) <= Len(stream)
        /\ \A k \in 1 .. Len(sent[i]) : stream[starts[i] + k - 1] = sent[i][k]

InOrder == \A i, j \in 1 .. Len(sent) : i < j => End(i) < starts[j]

CleanGaps ==
    \A i \in 0 .. Len(sent) : \A p \in 1 .. Len(stream) :
        After(i) < p /\ p < Limit(i + 1) /\ p + 1 <= Len(stream) =>
            ~IsPreamble(stream, p)

\* The buffer is the part of the stream that was consumed last; the frames
\* handed on are the first ones sent, and the next one is still to come.
Window == \A k \in 1 .. Len(buffer) : buffer[k] = stream[Consumed + k]

InStep ==
    /\ Len(handed) <= Len(sent)
    /\ \A i \in 1 .. Len(handed) : handed[i] = sent[i]
    /\ After(Len(handed)) <= Consumed
    /\ Consumed < Limit(Len(handed) + 1)

Settled == ~busy => Len(handed) = Len(sent) \/ arrived < End(Len(handed) + 1)

IInv == TypeOK /\ Layout /\ InOrder /\ CleanGaps /\ Window /\ InStep /\ Settled

CleanInv == TypeOK /\ (clean => IInv)

\* The numbers in the state.
LEMMA Numbers ==
  ASSUME TypeOK
  PROVE  /\ Len(stream) \in Nat /\ Len(sent) \in Nat /\ Len(starts) = Len(sent)
         /\ arrived \in Nat /\ arrived <= Len(stream)
         /\ Len(buffer) \in Nat /\ Len(buffer) <= arrived
         /\ Consumed \in Nat /\ arrived = Consumed + Len(buffer)
         /\ Len(handed) \in Nat
PROOF
  BY DEF TypeOK, Consumed

\* Where the i-th frame lies in the stream, and how it begins there.
LEMMA FrameAt ==
  ASSUME TypeOK, Layout, NEW i \in 1 .. Len(sent)
  PROVE  /\ sent[i] \in Frames
         /\ starts[i] \in Nat \ {0} /\ Len(sent[i]) \in Nat /\ Len(sent[i]) >= 3
         /\ End(i) \in Nat /\ End(i) = starts[i] + Len(sent[i]) - 1
         /\ starts[i] + 2 <= End(i) /\ End(i) <= Len(stream)
         /\ stream[starts[i]] = P1 /\ stream[starts[i] + 1] = P2
         /\ Len(sent[i]) = FrameLength(stream[starts[i] + 2])
PROOF
  <1>1. sent[i] \in Frames /\ starts[i] \in Nat \ {0}
    <2>1. sent \in Seq(Frames) /\ starts \in Seq(Nat \ {0}) /\ i \in 1 .. Len(starts)
      BY DEF TypeOK
    <2> QED
      BY <2>1, ElementOfSeq
  <1>2. /\ Len(sent[i]) \in Nat /\ Len(sent[i]) >= 3
        /\ sent[i][1] = P1 /\ sent[i][2] = P2
        /\ Len(sent[i]) = FrameLength(sent[i][3])
    BY <1>1, FrameShape
  <1>3. /\ End(i) <= Len(stream)
        /\ \A k \in 1 .. Len(sent[i]) : stream[starts[i] + k - 1] = sent[i][k]
    BY DEF Layout
  <1>4. 1 \in 1 .. Len(sent[i]) /\ 2 \in 1 .. Len(sent[i]) /\ 3 \in 1 .. Len(sent[i])
    BY <1>2
  <1>5. /\ starts[i] + 1 - 1 = starts[i] /\ starts[i] + 2 - 1 = starts[i] + 1
        /\ starts[i] + 3 - 1 = starts[i] + 2
    BY <1>1
  <1>6. /\ stream[starts[i]] = P1 /\ stream[starts[i] + 1] = P2
        /\ stream[starts[i] + 2] = sent[i][3]
    <2>1. /\ stream[starts[i] + 1 - 1] = P1 /\ stream[starts[i] + 2 - 1] = P2
          /\ stream[starts[i] + 3 - 1] = sent[i][3]
      BY <1>2, <1>3, <1>4
    <2> QED
      BY <1>5, <2>1
  <1>7. End(i) = starts[i] + Len(sent[i]) - 1
    BY DEF End
  <1>8. End(i) \in Nat /\ starts[i] + 2 <= End(i)
    BY <1>1, <1>2, <1>7
  <1> QED
    BY <1>1, <1>2, <1>3, <1>6, <1>7, <1>8

\* The bounds of the gaps are positions.
LEMMA GapBounds ==
  ASSUME TypeOK, Layout
  PROVE  /\ \A i \in 0 .. Len(sent) : After(i) \in Nat /\ After(i) <= Len(stream)
         /\ \A i \in Nat \ {0} :
                /\ Limit(i) \in Nat
                /\ i <= Len(sent) => Limit(i) = starts[i] /\ Limit(i) <= Len(stream)
                /\ ~(i <= Len(sent)) => Limit(i) = Len(stream) + 1
PROOF
  <1>0. Len(sent) \in Nat /\ Len(stream) \in Nat
    BY Numbers
  <1>1. ASSUME NEW i \in 0 .. Len(sent)
        PROVE  After(i) \in Nat /\ After(i) <= Len(stream)
    <2>1. CASE i = 0
      BY <1>0, <2>1 DEF After
    <2>2. CASE i # 0
      <3>1. i \in 1 .. Len(sent)
        BY <1>0, <1>1, <2>2
      <3> QED
        BY <2>2, <3>1, FrameAt DEF After
    <2> QED
      BY <2>1, <2>2
  <1>2. ASSUME NEW i \in Nat \ {0}
        PROVE  /\ Limit(i) \in Nat
               /\ i <= Len(sent) => Limit(i) = starts[i] /\ Limit(i) <= Len(stream)
               /\ ~(i <= Len(sent)) => Limit(i) = Len(stream) + 1
    <2>1. CASE i <= Len(sent)
      <3>1. i \in 1 .. Len(sent)
        BY <1>0, <1>2, <2>1
      <3>2. starts[i] \in Nat /\ starts[i] + 2 <= End(i) /\ End(i) <= Len(stream) /\ End(i) \in Nat
        BY <3>1, FrameAt
      <3> QED
        BY <1>0, <2>1, <3>2 DEF Limit
    <2>2. CASE ~(i <= Len(sent))
      BY <1>0, <2>2 DEF Limit
    <2> QED
      BY <2>1, <2>2
  <1> QED
    BY <1>1, <1>2

\* The next frame's preamble, when both its bytes have arrived, is one of the
\* preambles in the buffer.
LEMMA NextPreamble ==
  ASSUME IInv, Len(handed) < Len(sent),
         starts[Len(handed) + 1] + 1 <= arrived
  PROVE  starts[Len(handed) + 1] - Consumed \in Preambles
PROOF
  <1> DEFINE n == Len(handed) + 1
             k == starts[n] - Consumed
  <1>0. TypeOK /\ Layout /\ Window /\ InStep
    BY DEF IInv
  <1>1. n \in 1 .. Len(sent)
    BY <1>0, Numbers
  <1>2. /\ starts[n] \in Nat /\ stream[starts[n]] = P1 /\ stream[starts[n] + 1] = P2
    BY <1>0, <1>1, FrameAt
  <1>3. Consumed < starts[n]
    BY <1>0, <1>1, GapBounds DEF InStep
  <1>4. k \in 1 .. Len(buffer) /\ k + 1 \in 1 .. Len(buffer) /\ k \in 1 .. Len(buffer) - 1
    <2>1. /\ Consumed \in Nat /\ Len(buffer) \in Nat /\ arrived = Consumed + Len(buffer)
          /\ starts[n] + 1 <= arrived
      BY <1>0, Numbers
    <2>2. k \in Int /\ 1 <= k /\ k + 1 <= Len(buffer)
      BY <1>2, <1>3, <2>1
    <2> QED
      BY <2>1, <2>2
  <1>5. Consumed + k = starts[n] /\ Consumed + (k + 1) = starts[n] + 1
    BY <1>0, <1>2, Numbers
  <1>6. buffer[k] = stream[Consumed + k] /\ buffer[k + 1] = stream[Consumed + (k + 1)]
    BY <1>0, <1>4 DEF Window
  <1> QED
    BY <1>2, <1>4, <1>5, <1>6 DEF Preambles, IsPreamble

\* The first preamble in the buffer is that of the next frame sent.
LEMMA FindsNextFrame ==
  ASSUME IInv, NEW i \in Preambles, Find(i)
  PROVE  Len(handed) < Len(sent) /\ Consumed + i = starts[Len(handed) + 1]
PROOF
  <1> DEFINE h == Len(handed)
             p == Consumed + i
  <1>0. TypeOK /\ Layout /\ CleanGaps /\ Window /\ InStep
    BY DEF IInv
  <1>1. /\ h \in 0 .. Len(sent) /\ After(h) <= Consumed /\ Consumed \in Nat
        /\ Len(buffer) \in Nat /\ Len(stream) \in Nat /\ Len(sent) \in Nat
        /\ arrived = Consumed + Len(buffer) /\ arrived <= Len(stream)
    BY <1>0, Numbers DEF InStep
  <1>2. i \in 1 .. Len(buffer) - 1 /\ i \in Nat /\ buffer[i] = P1 /\ buffer[i + 1] = P2
    <2>1. i \in 1 .. Len(buffer) - 1 /\ IsPreamble(buffer, i)
      BY DEF Preambles
    <2> QED
      BY <1>1, <2>1 DEF IsPreamble
  <1>3. stream[p] = P1 /\ stream[p + 1] = P2
    <2>1. buffer[i] = stream[Consumed + i] /\ buffer[i + 1] = stream[Consumed + (i + 1)]
      <3>1. i \in 1 .. Len(buffer) /\ i + 1 \in 1 .. Len(buffer)
        BY <1>1, <1>2
      <3> QED
        BY <1>0, <3>1 DEF Window
    <2>2. Consumed + (i + 1) = p + 1
      BY <1>1, <1>2
    <2> QED
      BY <1>2, <2>1, <2>2
  <1>4. p \in 1 .. Len(stream) /\ p + 1 <= Len(stream) /\ p \in Nat /\ Consumed < p
    BY <1>1, <1>2
  <1>4a. After(h) \in Nat /\ Limit(h + 1) \in Nat
    <2>1. h + 1 \in Nat \ {0}
      BY <1>1
    <2> QED
      BY <1>0, <1>1, <2>1, GapBounds
  <1>5. Limit(h + 1) <= p
    <2> SUFFICES ASSUME p < Limit(h + 1) PROVE FALSE
      BY <1>4, <1>4a
    <2>1. After(h) < p
      BY <1>1, <1>4, <1>4a
    <2>2. ~IsPreamble(stream, p)
      BY <1>0, <1>1, <1>4, <2>1 DEF CleanGaps
    <2> QED
      BY <1>3, <2>2 DEF IsPreamble
  <1>6. h < Len(sent) /\ Limit(h + 1) = starts[h + 1]
    <2>1. h + 1 \in Nat \ {0}
      BY <1>1
    <2>2. h + 1 <= Len(sent)
      BY <1>0, <1>1, <1>4, <1>5, <2>1, GapBounds
    <2> QED
      BY <1>0, <1>1, <2>1, <2>2, GapBounds, SMTT(30)
  <1>7. starts[h + 1] - Consumed \in Preambles
    <2>1. starts[h + 1] \in Nat
      BY <1>4a, <1>6
    <2>2. starts[h + 1] + 1 <= arrived
      BY <1>1, <1>2, <1>5, <1>6, <2>1
    <2> QED
      BY <1>6, <2>2, NextPreamble
  <1>8. i <= starts[h + 1] - Consumed
    BY <1>7 DEF Find
  <1> QED
    BY <1>1, <1>2, <1>4a, <1>5, <1>6, <1>8, SMTT(30)

\* The buffer after its first i - 1 bytes were dropped is still the end of the
\* part of the stream that has arrived.
LEMMA WindowAfterCut ==
  ASSUME TypeOK, Window, NEW i \in 1 .. Len(buffer) + 1,
         buffer' = Rest(i), stream' = stream, arrived' = arrived
  PROVE  Window' /\ Consumed' = Consumed + i - 1
PROOF
  <1>1. /\ Len(buffer) \in Nat /\ arrived \in Nat /\ Consumed \in Nat
        /\ arrived = Consumed + Len(buffer)
    BY Numbers
  <1>2. /\ Len(buffer') = Len(buffer) - i + 1
        /\ \A k \in 1 .. Len(buffer') : buffer'[k] = buffer[i + k - 1]
    BY RestOf
  <1>3. Consumed' = Consumed + i - 1
    BY <1>1, <1>2 DEF Consumed
  <1>4. ASSUME NEW k \in 1 .. Len(buffer')
        PROVE  buffer'[k] = stream'[Consumed' + k]
    <2>1. i + k - 1 \in 1 .. Len(buffer) /\ Consumed + (i + k - 1) = Consumed' + k
      BY <1>1, <1>2, <1>3
    <2>2. buffer[i + k - 1] = stream[Consumed + (i + k - 1)]
      BY <2>1 DEF Window
    <2> QED
      BY <1>2, <2>1, <2>2
  <1> QED
    BY <1>3, <1>4 DEF Window

\* What the link adds to the stream moves neither the frames in it nor what the
\* buffer holds of it.
LEMMA StreamGrows ==
  ASSUME TypeOK, Layout, Window, Len(stream) <= Len(stream'), Len(stream') \in Nat,
         \A p \in 1 .. Len(stream) : stream'[p] = stream[p],
         arrived' = arrived, buffer' = buffer
  PROVE  /\ Window' /\ Consumed' = Consumed
         /\ \A i \in 1 .. Len(sent) :
                /\ End(i) <= Len(stream')
                /\ \A k \in 1 .. Len(sent[i]) : stream'[starts[i] + k - 1] = sent[i][k]
PROOF
  <1>1. /\ Len(stream) \in Nat /\ arrived \in Nat /\ arrived <= Len(stream)
        /\ Len(buffer) \in Nat /\ Consumed \in Nat /\ arrived = Consumed + Len(buffer)
    BY Numbers
  <1>2. Consumed' = Consumed
    BY DEF Consumed
  <1>3. ASSUME NEW k \in 1 .. Len(buffer) PROVE buffer[k] = stream'[Consumed + k]
    <2>1. Consumed + k \in 1 .. Len(stream)
      BY <1>1
    <2> QED
      BY <2>1 DEF Window
  <1>4. ASSUME NEW i \in 1 .. Len(sent)
        PROVE  /\ End(i) <= Len(stream')
               /\ \A k \in 1 .. Len(sent[i]) : stream'[starts[i] + k - 1] = sent[i][k]
    <2>1. /\ starts[i] \in Nat \ {0} /\ Len(sent[i]) \in Nat /\ End(i) \in Nat
          /\ End(i) = starts[i] + Len(sent[i]) - 1 /\ End(i) <= Len(stream)
      BY FrameAt
    <2>2. ASSUME NEW k \in 1 .. Len(sent[i])
          PROVE  stream'[starts[i] + k - 1] = sent[i][k]
      <3>1. starts[i] + k - 1 \in 1 .. Len(stream)
        BY <1>1, <2>1, SMTT(30)
      <3>2. stream[starts[i] + k - 1] = sent[i][k]
        BY DEF Layout
      <3> QED
        BY <3>1, <3>2
    <2> QED
      BY <1>1, <2>1, <2>2
  <1> QED
    BY <1>2, <1>3, <1>4 DEF Window

\* A frame that is sent lies at the end of the stream.
LEMMA SendLink ==
  ASSUME TypeOK, Layout, Window, NEW f \in Frames, Send(f),
         NEW L \in Nat, L = Len(stream), NEW m \in Nat, m = Len(sent)
  PROVE  /\ Layout' /\ Window'
         /\ Len(stream') = L + Len(f)
         /\ \A p \in 1 .. L : stream'[p] = stream[p]
         /\ \A p \in 1 .. Len(f) : stream'[L + p] = f[p]
         /\ Len(sent') = m + 1
         /\ \A i \in 1 .. m : sent'[i] = sent[i] /\ starts'[i] = starts[i]
         /\ sent'[m + 1] = f /\ starts'[m + 1] = L + 1
         /\ \A i \in 1 .. m : End(i)' = End(i)
         /\ End(m + 1)' = L + Len(f)
PROOF
  <1>1. /\ Len(starts) = m /\ stream \in Seq(Byte) /\ sent \in Seq(Frames)
        /\ starts \in Seq(Nat \ {0})
    BY DEF TypeOK
  <1>2. f \in Seq(Byte) /\ Len(f) \in Nat /\ Len(f) >= 3
    BY FrameShape
  <1>3. /\ stream' = stream \o f /\ sent' = Append(sent, f) /\ starts' = Append(starts, L + 1)
        /\ arrived' = arrived /\ buffer' = buffer
    BY DEF Send
  <1>4. /\ Len(stream') = L + Len(f)
        /\ \A p \in 1 .. L : stream'[p] = stream[p]
        /\ \A p \in 1 .. Len(f) : stream'[L + p] = f[p]
    <2>1. /\ Len(stream \o f) = L + Len(f)
          /\ \A p \in 1 .. L + Len(f) :
                (stream \o f)[p] = IF p <= L THEN stream[p] ELSE f[p - L]
      BY <1>1, <1>2, ConcatProperties
    <2>2. ASSUME NEW p \in 1 .. L PROVE (stream \o f)[p] = stream[p]
      <3>1. p \in 1 .. L + Len(f) /\ p <= L
        BY <1>2
      <3> QED
        BY <2>1, <3>1
    <2>3. ASSUME NEW p \in 1 .. Len(f) PROVE (stream \o f)[L + p] = f[p]
      <3>1. L + p \in 1 .. L + Len(f) /\ ~(L + p <= L) /\ (L + p) - L = p
        BY <1>2
      <3> QED
        BY <2>1, <3>1
    <2> QED
      BY <1>3, <2>1, <2>2, <2>3
  <1>5. /\ Len(sent') = m + 1
        /\ \A i \in 1 .. m : sent'[i] = sent[i] /\ starts'[i] = starts[i]
        /\ sent'[m + 1] = f /\ starts'[m + 1] = L + 1
    BY <1>1, <1>3
  <1>6. /\ \A i \in 1 .. m : End(i)' = End(i)
        /\ End(m + 1)' = L + Len(f)
    BY <1>2, <1>5 DEF End
  <1>7. /\ Window'
        /\ \A i \in 1 .. m :
             /\ End(i) <= Len(stream')
             /\ \A k \in 1 .. Len(sent[i]) : stream'[starts[i] + k - 1] = sent[i][k]
    <2>1. Len(stream) <= Len(stream') /\ Len(stream') \in Nat
      BY <1>2, <1>4
    <2> QED
      BY <1>3, <1>4, <2>1, StreamGrows
  <1>8. /\ End(m + 1)' <= Len(stream')
        /\ \A k \in 1 .. Len(f) : stream'[starts'[m + 1] + k - 1] = f[k]
    <2>1. ASSUME NEW k \in 1 .. Len(f) PROVE stream'[starts'[m + 1] + k - 1] = f[k]
      <3>1. (L + 1) + k - 1 = L + k
        BY <1>2
      <3> QED
        BY <1>4, <1>5, <3>1, SMTT(30)
    <2> QED
      BY <1>2, <1>4, <1>6, <2>1
  <1>9. Layout'
    <2>1. \A i \in 1 .. Len(sent') : i \in 1 .. m \/ i = m + 1
      BY <1>5
    <2>2. ASSUME NEW i \in 1 .. m
          PROVE  /\ End(i)' <= Len(stream')
                 /\ \A k \in 1 .. Len(sent'[i]) : stream'[starts'[i] + k - 1] = sent'[i][k]
      BY <1>5, <1>6, <1>7
    <2> QED
      BY <1>5, <1>8, <2>1, <2>2 DEF Layout
  <1> QED
    BY <1>4, <1>5, <1>6, <1>7, <1>9

\* A stray byte lies at the end of the stream, in no frame.
LEMMA StrayLink ==
  ASSUME TypeOK, Layout, Window, NEW b \in Byte, Stray(b),
         NEW L \in Nat, L = Len(stream)
  PROVE  /\ Layout' /\ Window'
         /\ Len(stream') = L + 1 /\ stream'[L + 1] = b
         /\ \A p \in 1 .. L : stream'[p] = stream[p]
         /\ \A i \in Nat : End(i)' = End(i)
PROOF
  <1>1. /\ stream' = Append(stream, b) /\ sent' = sent /\ starts' = starts
        /\ arrived' = arrived /\ buffer' = buffer
    BY DEF Stray
  <1>2. /\ Len(stream') = L + 1 /\ stream'[L + 1] = b
        /\ \A p \in 1 .. L : stream'[p] = stream[p]
    BY <1>1 DEF TypeOK
  <1>3. \A i \in Nat : End(i)' = End(i)
    BY <1>1 DEF End
  <1>4. Window' /\ Layout'
    <2>1. Len(stream) <= Len(stream') /\ Len(stream') \in Nat
      BY <1>2
    <2> QED
      BY <1>1, <1>2, <2>1, StreamGrows DEF Layout, End
  <1> QED
    BY <1>2, <1>3, <1>4

\* A frame that is sent joins the stream at its end.
LEMMA SendKeeps ==
  ASSUME IInv, TypeOK', NEW f \in Frames, Send(f)
  PROVE  IInv'
PROOF
  <1>0. TypeOK /\ Layout /\ InOrder /\ CleanGaps /\ Window /\ InStep /\ Settled
    BY DEF IInv
  <1>L. PICK L \in Nat : L = Len(stream)
    BY <1>0, Numbers
  <1>m. PICK m \in Nat : m = Len(sent)
    BY <1>0, Numbers
  <1>n. PICK n \in Nat : n = Len(handed)
    BY <1>0, Numbers
  <1> USE <1>L, <1>m, <1>n
  <1>1. /\ L \in Nat /\ m \in Nat /\ Len(starts) = m
        /\ arrived \in Nat /\ arrived <= L
        /\ Len(buffer) \in Nat /\ Consumed \in Nat /\ arrived = Consumed + Len(buffer)
        /\ Len(handed) \in Nat
    BY <1>0, Numbers
  <1>2. f \in Seq(Byte) /\ Len(f) \in Nat /\ Len(f) >= 3 /\ f[1] = P1
    BY FrameShape
  <1>3. /\ stream' = stream \o f /\ sent' = Append(sent, f) /\ starts' = Append(starts, L + 1)
        /\ arrived' = arrived /\ buffer' = buffer /\ busy' = busy
        /\ handed' = handed /\ taken' = taken
    BY DEF Send
  <1>4. /\ Layout' /\ Window'
        /\ Len(stream') = L + Len(f)
        /\ \A p \in 1 .. L : stream'[p] = stream[p]
        /\ \A p \in 1 .. Len(f) : stream'[L + p] = f[p]
        /\ End(m + 1)' = L + Len(f)
    BY <1>0, SendLink
  <1>5. /\ Len(sent') = m + 1
        /\ \A i \in 1 .. m : sent'[i] = sent[i] /\ starts'[i] = starts[i]
        /\ sent'[m + 1] = f /\ starts'[m + 1] = L + 1
    BY <1>0, SendLink
  <1>6. \A i \in 1 .. m : End(i)' = End(i) /\ End(i) \in Nat /\ End(i) <= L
    BY <1>0, SendLink, FrameAt
  <1>8. \A i \in 0 .. m : After(i)' = After(i) /\ After(i) \in Nat
    <2>1. ASSUME NEW i \in 0 .. m PROVE After(i)' = After(i)
      <3>1. i = 0 \/ i \in 1 .. m
        BY <1>1
      <3> QED
        BY <1>6, <3>1 DEF After
    <2> QED
      BY <1>0, <2>1, GapBounds
  <1>9. \A i \in 1 .. m + 1 : Limit(i)' = Limit(i) /\ Limit(i) \in Nat /\ Limit(i) <= L + 1
    <2>1. ASSUME NEW i \in 1 .. m PROVE Limit(i)' = Limit(i)
      BY <1>1, <1>5, <2>1 DEF Limit
    <2>2. Limit(m + 1)' = Limit(m + 1)
      BY <1>1, <1>5 DEF Limit
    <2>3. \A i \in 1 .. m + 1 : i \in Nat \ {0} /\ (i \in 1 .. m \/ i = m + 1)
      BY <1>1
    <2> QED
      BY <1>0, <1>1, <2>1, <2>2, <2>3, GapBounds
  <1>11. InOrder'
    <2> SUFFICES ASSUME NEW i \in 1 .. m + 1, NEW j \in 1 .. m + 1, i < j
                 PROVE  End(i)' < starts'[j]
      BY <1>5 DEF InOrder
    <2>1. i \in 1 .. m
      BY <1>1
    <2>2. CASE j \in 1 .. m
      BY <1>0, <1>5, <1>6, <2>1, <2>2 DEF InOrder
    <2>3. CASE j = m + 1
      BY <1>1, <1>5, <1>6, <2>1, <2>3
    <2> QED
      BY <1>1, <2>2, <2>3
  <1>12. CleanGaps'
    <2> SUFFICES ASSUME NEW i \in 0 .. m + 1, NEW p \in 1 .. Len(stream'),
                        After(i)' < p, p < Limit(i + 1)', p + 1 <= Len(stream')
                 PROVE  ~IsPreamble(stream', p)
      BY <1>5 DEF CleanGaps
    <2>1. i \in 0 .. m
      <3> SUFFICES ASSUME i = m + 1 PROVE FALSE
        BY <1>1
      <3>1. After(i)' = L + Len(f)
        BY <1>1, <1>4 DEF After
      <3> QED
        BY <1>1, <1>2, <1>4, <3>1
    <2>2. i + 1 \in 1 .. m + 1
      BY <1>1, <2>1
    <2>3. After(i) < p /\ p < Limit(i + 1) /\ p <= L /\ p \in Nat
      <3>1. After(i)' = After(i) /\ Limit(i + 1)' = Limit(i + 1)
            /\ Limit(i + 1) \in Nat /\ Limit(i + 1) <= L + 1
        BY <1>8, <1>9, <2>1, <2>2
      <3>2. p \in Nat
        BY <1>1, <1>2, <1>4
      <3> QED
        BY <1>1, <3>1, <3>2
    <2>4. CASE p + 1 <= L
      <3>1. p \in 1 .. L /\ p + 1 \in 1 .. L
        BY <1>1, <2>3, <2>4
      <3>2. ~IsPreamble(stream, p)
        BY <1>0, <2>1, <2>3, <2>4, <3>1 DEF CleanGaps
      <3> QED
        BY <1>4, <3>1, <3>2 DEF IsPreamble
    <2>5. CASE ~(p + 1 <= L)
      <3>1. p + 1 = L + 1 /\ 1 \in 1 .. Len(f)
        BY <1>1, <1>2, <2>3, <2>5
      <3>2. stream'[p + 1] = P1
        BY <1>2, <1>4, <3>1
      <3> QED
        BY <3>2, FramingAssumption DEF IsPreamble
    <2> QED
      BY <2>4, <2>5
  <1>13. Consumed' = Consumed
    BY <1>3 DEF Consumed
  <1>15. InStep'
    <2>1. n \in 0 .. m /\ n + 1 \in 1 .. m + 1
      BY <1>0, <1>1 DEF InStep
    <2>2. Len(handed') = n /\ Len(handed') <= Len(sent')
      BY <1>1, <1>3, <1>5, <2>1
    <2>3. \A i \in 1 .. n : handed'[i] = sent'[i]
      <3>1. \A i \in 1 .. n : i \in 1 .. m
        BY <1>1, <2>1
      <3> QED
        BY <1>0, <1>3, <1>5, <3>1 DEF InStep
    <2>4. After(n)' <= Consumed' /\ Consumed' < Limit(n + 1)'
      BY <1>0, <1>8, <1>9, <1>13, <2>1 DEF InStep
    <2> QED
      BY <2>2, <2>3, <2>4 DEF InStep
  <1>16. Settled'
    <2>0. Len(handed') = n /\ n <= m
      BY <1>0, <1>3 DEF InStep
    <2> SUFFICES ASSUME ~busy
                 PROVE  n = m + 1 \/ arrived' < End(n + 1)'
      BY <1>3, <1>5, <2>0 DEF Settled
    <2>1. CASE n = m
      BY <1>1, <1>2, <1>3, <1>4, <2>1
    <2>2. CASE n # m
      <3>1. n + 1 \in 1 .. m
        BY <1>1, <2>0, <2>2
      <3> QED
        BY <1>0, <1>3, <1>6, <2>2, <3>1 DEF Settled
    <2> QED
      BY <2>1, <2>2
  <1> QED
    BY <1>4, <1>11, <1>12, <1>15, <1>16 DEF IInv

\* A stray byte joins the stream at its end, in the last gap.
LEMMA StrayKeeps ==
  ASSUME IInv, TypeOK', clean', NEW b \in Byte, Stray(b)
  PROVE  IInv'
PROOF
  <1>0. TypeOK /\ Layout /\ InOrder /\ CleanGaps /\ Window /\ InStep /\ Settled
    BY DEF IInv
  <1>L. PICK L \in Nat : L = Len(stream)
    BY <1>0, Numbers
  <1>m. PICK m \in Nat : m = Len(sent)
    BY <1>0, Numbers
  <1>n. PICK n \in Nat : n = Len(handed)
    BY <1>0, Numbers
  <1> USE <1>L, <1>m, <1>n
  <1>1. /\ arrived \in Nat /\ arrived <= L
        /\ Len(buffer) \in Nat /\ Consumed \in Nat /\ arrived = Consumed + Len(buffer)
    BY <1>0, Numbers
  <1>2. /\ stream' = Append(stream, b) /\ sent' = sent /\ starts' = starts
        /\ arrived' = arrived /\ buffer' = buffer /\ busy' = busy
        /\ handed' = handed /\ taken' = taken
        /\ ~CompletesPreamble(b)
    BY DEF Stray
  <1>3. /\ Layout' /\ Window'
        /\ Len(stream') = L + 1 /\ stream'[L + 1] = b
        /\ \A p \in 1 .. L : stream'[p] = stream[p]
    BY <1>0, StrayLink
  <1>4. \A i \in Nat : End(i)' = End(i) /\ After(i)' = After(i)
    BY <1>2 DEF End, After
  <1>5. ASSUME NEW i \in Nat \ {0}
        PROVE  /\ Limit(i) \in Nat /\ Limit(i)' \in Nat /\ Limit(i) <= Limit(i)'
               /\ i <= m => Limit(i)' = Limit(i) /\ Limit(i) <= L
               /\ ~(i <= m) => Limit(i) = L + 1 /\ Limit(i)' = L + 2
    <2>1. CASE i <= m
      <3>1. Limit(i)' = Limit(i)
        BY <1>2, <2>1 DEF Limit
      <3> QED
        BY <1>0, <2>1, <3>1, GapBounds
    <2>2. CASE ~(i <= m)
      BY <1>2, <1>3, <2>2 DEF Limit
    <2> QED
      BY <2>1, <2>2
  <1>7. InOrder'
    BY <1>0, <1>2, <1>4 DEF InOrder
  <1>8. CleanGaps'
    <2> SUFFICES ASSUME NEW i \in 0 .. m, NEW p \in 1 .. L + 1,
                        After(i)' < p, p < Limit(i + 1)', p + 1 <= L + 1
                 PROVE  ~IsPreamble(stream', p)
      BY <1>2, <1>3 DEF CleanGaps
    <2>1. After(i) < p /\ p \in 1 .. L
      BY <1>4
    <2>2. CASE p + 1 <= L
      <3>1. p < Limit(i + 1)
        <4>1. i + 1 \in Nat \ {0}
          OBVIOUS
        <4>2. /\ Limit(i + 1) \in Nat
              /\ i + 1 <= m => Limit(i + 1)' = Limit(i + 1)
              /\ ~(i + 1 <= m) => Limit(i + 1) = L + 1
          BY <1>5, <4>1
        <4> QED
          BY <2>2, <4>2
      <3>2. ~IsPreamble(stream, p)
        BY <1>0, <2>1, <2>2, <3>1 DEF CleanGaps
      <3>3. p + 1 \in 1 .. L
        BY <2>1, <2>2
      <3> QED
        BY <1>3, <2>1, <3>2, <3>3 DEF IsPreamble
    <2>3. CASE ~(p + 1 <= L)
      <3>1. p = L /\ L # 0
        BY <2>1, <2>3
      <3>2. i = m
        <4> SUFFICES ASSUME i + 1 <= m PROVE FALSE
          OBVIOUS
        <4>1. Limit(i + 1)' <= L /\ Limit(i + 1)' \in Nat
          <5>1. i + 1 \in Nat \ {0}
            OBVIOUS
          <5> QED
            BY <1>5, <5>1
        <4> QED
          BY <3>1, <4>1
      <3>3. sent = <<>> \/ End(m) < L
        <4>1. CASE m = 0
          <5>1. sent \in Seq(Frames) /\ Len(sent) = 0
            BY <1>0, <4>1 DEF TypeOK
          <5> QED
            BY <5>1, EmptySeq
        <4>2. CASE m # 0
          <5>1. After(m) < L
            BY <2>1, <3>1, <3>2
          <5> QED
            BY <4>2, <5>1 DEF After
        <4> QED
          BY <4>1, <4>2
      <3>4. stream # <<>>
        BY <3>1
      <3>5. ~(b = P2 /\ stream[L] = P1)
        BY <1>2, <3>3, <3>4 DEF CompletesPreamble
      <3> QED
        BY <1>3, <2>1, <3>1, <3>5 DEF IsPreamble
    <2> QED
      BY <2>2, <2>3
  <1>9. Consumed' = Consumed
    BY <1>2 DEF Consumed
  <1>11. InStep'
    <2>1. Consumed < Limit(n + 1)'
      <3>1. n + 1 \in Nat \ {0}
        OBVIOUS
      <3>2. Consumed < Limit(n + 1) /\ Limit(n + 1) <= Limit(n + 1)'
            /\ Limit(n + 1) \in Nat /\ Limit(n + 1)' \in Nat
        BY <1>0, <1>5, <3>1 DEF InStep
      <3> QED
        BY <1>1, <3>2
    <2>2. After(n)' <= Consumed' /\ Len(handed') = n
      BY <1>0, <1>2, <1>4, <1>9 DEF InStep
    <2>3. Len(handed') <= Len(sent') /\ \A i \in 1 .. Len(handed') : handed'[i] = sent'[i]
      BY <1>0, <1>2 DEF InStep
    <2> QED
      BY <1>9, <2>1, <2>2, <2>3 DEF InStep
  <1>12. Settled'
    BY <1>0, <1>2, <1>4 DEF Settled
  <1> QED
    BY <1>3, <1>7, <1>8, <1>11, <1>12 DEF IInv

\* A new link starts empty, and so does the buffer.
LEMMA ReconnectKeeps ==
  ASSUME TypeOK', Reconnect
  PROVE  IInv'
PROOF
  <1>1. /\ stream' = <<>> /\ sent' = <<>> /\ starts' = <<>> /\ arrived' = 0
        /\ buffer' = <<>> /\ handed' = <<>>
    BY DEF Reconnect
  <1>2. Len(<<>>) = 0
    OBVIOUS
  <1>3. Layout' /\ InOrder' /\ Settled'
    BY <1>1 DEF Layout, InOrder, Settled
  <1>4. CleanGaps' /\ Window'
    <2>1. 1 .. Len(stream') = {} /\ 1 .. Len(buffer') = {}
      BY <1>1
    <2> QED
      BY <2>1 DEF CleanGaps, Window
  <1>5. Len(handed') = 0 /\ Len(sent') = 0 /\ Len(stream') = 0 /\ Consumed' = 0
    <2>1. Len(handed') = 0 /\ Len(sent') = 0 /\ Len(stream') = 0 /\ Len(buffer') = 0
      BY <1>1, <1>2
    <2>2. Consumed' = 0
      <3>1. Consumed' = arrived' - Len(buffer')
        BY DEF Consumed
      <3>2. arrived' = 0
        BY <1>1
      <3> QED
        BY <2>1, <3>1, <3>2
    <2> QED
      BY <2>1, <2>2
  <1>7. InStep'
    <2>1. After(Len(handed))' = 0
      BY <1>5 DEF After
    <2>2. Limit(Len(handed) + 1)' = 1
      BY <1>5 DEF Limit
    <2> QED
      BY <1>5, <2>1, <2>2 DEF InStep
  <1> QED
    BY <1>3, <1>4, <1>7 DEF IInv

\* What the steps of _on_notify leave alone.
LEMMA LinkKept ==
  ASSUME linkVars' = linkVars
  PROVE  /\ Layout => Layout'
         /\ InOrder => InOrder'
         /\ CleanGaps => CleanGaps'
         /\ \A i \in Nat : End(i)' = End(i) /\ After(i)' = After(i) /\ Limit(i)' = Limit(i)
PROOF
  <1>1. stream' = stream /\ sent' = sent /\ starts' = starts
    BY DEF linkVars
  <1>2. \A i \in Nat : End(i)' = End(i) /\ After(i)' = After(i) /\ Limit(i)' = Limit(i)
    BY <1>1 DEF End, After, Limit
  <1>3. Layout => Layout'
    BY <1>1, <1>2 DEF Layout, End
  <1>4. InOrder => InOrder'
    BY <1>1, <1>2 DEF InOrder, End
  <1>5. CleanGaps => CleanGaps'
    <2>1. Len(sent) \in Nat => \A i \in 0 .. Len(sent) : i \in Nat /\ i + 1 \in Nat
      OBVIOUS
    <2> QED
      BY <1>1 DEF CleanGaps, After, Limit, End, IsPreamble
  <1> QED
    BY <1>2, <1>3, <1>4, <1>5

\* A notification lengthens the buffer by what it brings.
LEMMA NotifyLink ==
  ASSUME TypeOK, Window, NEW n \in 1 .. Mtu, Notify(n)
  PROVE  Window' /\ Consumed' = Consumed
PROOF
  <1>1. /\ Len(stream) \in Nat /\ arrived \in Nat /\ Len(buffer) \in Nat
        /\ Consumed \in Nat /\ arrived = Consumed + Len(buffer)
        /\ n \in Nat /\ arrived + n <= Len(stream)
    BY Numbers, FramingAssumption DEF Notify
  <1>1a. stream \in Seq(Byte) /\ buffer \in Seq(Byte)
    BY DEF TypeOK
  <1>2. linkVars' = linkVars /\ arrived' = arrived + n
    BY DEF Notify
  <1>3. stream' = stream
    BY <1>2 DEF linkVars
  <1> DEFINE chunk == SubSeq(stream, arrived + 1, arrived + n)
  <1>4. /\ chunk \in Seq(Byte) /\ Len(chunk) = n
        /\ \A k \in 1 .. n : chunk[k] = stream[arrived + k]
    <2>1. \A k \in arrived + 1 .. arrived + n : stream[k] \in Byte
      BY <1>1, ElementOfSeq, SMTT(30) DEF TypeOK
    <2>2. /\ chunk \in Seq(Byte)
          /\ Len(chunk) = IF arrived + 1 <= arrived + n
                          THEN (arrived + n) - (arrived + 1) + 1 ELSE 0
          /\ \A k \in 1 .. (arrived + n) - (arrived + 1) + 1 :
                 chunk[k] = stream[(arrived + 1) + k - 1]
      BY <1>1, <1>1a, <2>1, SubSeqProperties
    <2>3. /\ (arrived + n) - (arrived + 1) + 1 = n
          /\ \A k \in 1 .. n : (arrived + 1) + k - 1 = arrived + k
      BY <1>1
    <2> QED
      BY <1>1, <2>2, <2>3
  <1>5. buffer' = buffer \o chunk
    BY DEF Notify
  <1> HIDE DEF chunk
  <1>6. /\ Len(buffer') = Len(buffer) + n
        /\ \A k \in 1 .. Len(buffer) + n :
              buffer'[k] = IF k <= Len(buffer) THEN buffer[k] ELSE chunk[k - Len(buffer)]
    <2>1. /\ Len(buffer \o chunk) = Len(buffer) + Len(chunk)
          /\ \A k \in 1 .. Len(buffer) + Len(chunk) :
                (buffer \o chunk)[k]
                    = IF k <= Len(buffer) THEN buffer[k] ELSE chunk[k - Len(buffer)]
      BY <1>1a, <1>4, ConcatProperties
    <2> QED
      BY <1>4, <1>5, <2>1
  <1>7. Consumed' = Consumed
    BY <1>1, <1>2, <1>6 DEF Consumed
  <1>8. Window'
    <2> SUFFICES ASSUME NEW k \in 1 .. Len(buffer) + n
                 PROVE  buffer'[k] = stream[Consumed + k]
      BY <1>3, <1>6, <1>7 DEF Window
    <2>1. CASE k <= Len(buffer)
      <3>1. k \in 1 .. Len(buffer)
        BY <1>1, <2>1
      <3> QED
        BY <1>6, <2>1, <3>1 DEF Window
    <2>2. CASE ~(k <= Len(buffer))
      <3>1. k - Len(buffer) \in 1 .. n /\ arrived + (k - Len(buffer)) = Consumed + k
        BY <1>1, <2>2
      <3> QED
        BY <1>4, <1>6, <2>2, <3>1
    <2> QED
      BY <2>1, <2>2
  <1> QED
    BY <1>7, <1>8

\* What a notification brings is neither handed on nor discarded yet.
LEMMA NotifyKeeps ==
  ASSUME IInv, TypeOK', NEW n \in 1 .. Mtu, Notify(n)
  PROVE  IInv'
PROOF
  <1>0. TypeOK /\ Layout /\ InOrder /\ CleanGaps /\ Window /\ InStep
    BY DEF IInv
  <1>2. linkVars' = linkVars /\ handed' = handed /\ busy' = TRUE
    BY DEF Notify
  <1>8. Window' /\ Consumed' = Consumed
    BY <1>0, NotifyLink
  <1>9. InStep'
    <2>h. PICK h \in Nat : h = Len(handed)
      BY <1>0, Numbers
    <2>1. /\ h <= Len(sent) /\ \A i \in 1 .. h : handed[i] = sent[i]
          /\ After(h) <= Consumed /\ Consumed < Limit(h + 1)
      BY <1>0, <2>h DEF InStep
    <2>2. h + 1 \in Nat
      OBVIOUS
    <2>3. After(h)' = After(h) /\ Limit(h + 1)' = Limit(h + 1)
      BY <1>2, <2>2, LinkKept
    <2>4. After(h)' <= Consumed' /\ Consumed' < Limit(h + 1)'
      BY <1>8, <2>1, <2>3
    <2>5. sent' = sent /\ handed' = handed
      BY <1>2 DEF linkVars
    <2> QED
      BY <2>h, <2>1, <2>4, <2>5 DEF InStep
  <1>10. Settled'
    BY <1>2 DEF Settled
  <1> QED
    BY <1>0, <1>2, <1>8, <1>9, <1>10, LinkKept DEF IInv

\* When no preamble is in the buffer, the next frame's has not arrived whole.
LEMMA NoPreambleKeeps ==
  ASSUME IInv, TypeOK', NoPreamble
  PROVE  IInv'
PROOF
  <1>0. TypeOK /\ Layout /\ InOrder /\ CleanGaps /\ Window /\ InStep
    BY DEF IInv
  <1>h. PICK h \in Nat : h = Len(handed)
    BY <1>0, Numbers
  <1>1. /\ Len(stream) \in Nat /\ arrived \in Nat /\ arrived <= Len(stream)
        /\ Len(buffer) \in Nat /\ Len(sent) \in Nat
        /\ Consumed \in Nat /\ arrived = Consumed + Len(buffer)
    BY <1>0, Numbers
  <1>2. /\ linkVars' = linkVars /\ stream' = stream /\ sent' = sent /\ handed' = handed
        /\ arrived' = arrived
    BY DEF NoPreamble, linkVars
  <1>3. /\ h <= Len(sent) /\ \A i \in 1 .. h : handed[i] = sent[i]
        /\ After(h) <= Consumed /\ Consumed < Limit(h + 1)
    BY <1>0, <1>h DEF InStep
  <1>4. /\ h + 1 \in Nat \ {0} /\ Limit(h + 1) \in Nat /\ After(h) \in Nat
        /\ h + 1 <= Len(sent) => Limit(h + 1) = starts[h + 1]
        /\ ~(h + 1 <= Len(sent)) => Limit(h + 1) = Len(stream) + 1
    <2>1. h + 1 \in Nat \ {0} /\ h \in 0 .. Len(sent)
      BY <1>1, <1>3
    <2> QED
      BY <1>0, <2>1, GapBounds
  <1>5. arrived <= Limit(h + 1)
    <2>1. CASE h + 1 <= Len(sent)
      <3>1. ~(starts[h + 1] + 1 <= arrived)
        <4> SUFFICES ASSUME starts[h + 1] + 1 <= arrived PROVE FALSE
          OBVIOUS
        <4>1. h < Len(sent)
          BY <1>1, <2>1
        <4>2. Preambles # {}
          BY <1>h, <4>1, NextPreamble
        <4> QED
          BY <4>2 DEF NoPreamble
      <3> QED
        BY <1>1, <1>4, <2>1, <3>1
    <2>2. CASE ~(h + 1 <= Len(sent))
      BY <1>1, <1>4, <2>2
    <2> QED
      BY <2>1, <2>2
  <1>6. Window' /\ Consumed <= Consumed' /\ Consumed' < Limit(h + 1) /\ Consumed' \in Nat
    <2>1. CASE buffer = <<>>
      <3>1. buffer' = buffer
        BY <2>1 DEF NoPreamble
      <3>2. Consumed' = Consumed
        BY <1>2, <3>1 DEF Consumed
      <3>3. Window'
        BY <1>0, <1>2, <3>1, <3>2 DEF Window
      <3> QED
        BY <1>1, <1>3, <3>2, <3>3
    <2>2. CASE buffer # <<>>
      <3>1. buffer' = Rest(Len(buffer)) /\ Len(buffer) # 0
        BY <1>0, <2>2 DEF NoPreamble, TypeOK
      <3>2. Len(buffer) \in 1 .. Len(buffer) + 1
        BY <1>1, <3>1
      <3>3. Window' /\ Consumed' = Consumed + Len(buffer) - 1
        BY <1>0, <1>2, <3>1, <3>2, WindowAfterCut
      <3> QED
        BY <1>1, <1>4, <1>5, <3>1, <3>3
    <2> QED
      BY <2>1, <2>2
  <1>7. After(h)' = After(h) /\ Limit(h + 1)' = Limit(h + 1)
    <2>1. h + 1 \in Nat
      OBVIOUS
    <2> QED
      BY <1>2, <2>1, LinkKept
  <1>8. InStep'
    <2>1. After(h)' <= Consumed' /\ Consumed' < Limit(h + 1)'
      BY <1>1, <1>3, <1>4, <1>6, <1>7
    <2> QED
      BY <1>h, <1>2, <1>3, <2>1 DEF InStep
  <1>9. Settled'
    <2>1. CASE h + 1 <= Len(sent)
      <3>1. h + 1 \in 1 .. Len(sent)
        BY <1>1, <2>1
      <3>2. starts[h + 1] \in Nat /\ starts[h + 1] + 2 <= End(h + 1) /\ End(h + 1) \in Nat
        BY <1>0, <3>1, FrameAt
      <3>3. arrived < End(h + 1)
        BY <1>1, <1>4, <1>5, <2>1, <3>2
      <3>4. End(h + 1)' = End(h + 1)
        BY <1>2, <3>1, LinkKept
      <3> QED
        BY <1>h, <1>2, <3>3, <3>4 DEF Settled
    <2>2. CASE ~(h + 1 <= Len(sent))
      BY <1>h, <1>1, <1>2, <1>3, <2>2 DEF Settled
    <2> QED
      BY <2>1, <2>2
  <1> QED
    BY <1>0, <1>2, <1>6, <1>8, <1>9, LinkKept DEF IInv

\* An incomplete frame is the next one, and its last byte has not arrived.
LEMMA IncompleteKeeps ==
  ASSUME IInv, TypeOK', NEW i \in Preambles, Incomplete(i)
  PROVE  IInv'
PROOF
  <1>0. TypeOK /\ Layout /\ InOrder /\ CleanGaps /\ Window /\ InStep
    BY DEF IInv
  <1>h. PICK h \in Nat : h = Len(handed)
    BY <1>0, Numbers
  <1>1. /\ Len(stream) \in Nat /\ arrived \in Nat /\ Len(sent) \in Nat
        /\ Len(buffer) \in Nat /\ Consumed \in Nat /\ arrived = Consumed + Len(buffer)
        /\ i \in 1 .. Len(buffer) + 1 /\ i \in Nat
    BY <1>0, Numbers DEF Preambles
  <1>2. /\ linkVars' = linkVars /\ stream' = stream /\ sent' = sent /\ handed' = handed
        /\ arrived' = arrived /\ buffer' = Rest(i) /\ Find(i) /\ ~Whole(i)
    BY DEF Incomplete, linkVars
  <1>3. /\ h + 1 \in 1 .. Len(sent) /\ Consumed + i = starts[h + 1]
    BY <1>1, <1>2, <1>h, FindsNextFrame
  <1>4. /\ starts[h + 1] \in Nat /\ End(h + 1) \in Nat /\ starts[h + 1] + 2 <= End(h + 1)
        /\ End(h + 1) = starts[h + 1] + FrameLength(stream[starts[h + 1] + 2]) - 1
    BY <1>0, <1>3, FrameAt
  <1>5. Window' /\ Consumed' = Consumed + i - 1
    BY <1>0, <1>1, <1>2, WindowAfterCut
  <1>6. /\ After(h)' = After(h) /\ Limit(h + 1)' = Limit(h + 1) /\ End(h + 1)' = End(h + 1)
    <2>1. h + 1 \in Nat
      OBVIOUS
    <2> QED
      BY <1>2, <2>1, LinkKept
  <1>7. After(h) \in Nat /\ Limit(h + 1) = starts[h + 1]
    <2>1. h \in 0 .. Len(sent) /\ h + 1 \in Nat \ {0} /\ h + 1 <= Len(sent)
      BY <1>1, <1>3
    <2> QED
      BY <1>0, <2>1, GapBounds
  <1>8. InStep'
    <2>1. After(h) <= Consumed /\ \A j \in 1 .. h : handed[j] = sent[j]
      BY <1>0, <1>h DEF InStep
    <2>2. After(h)' <= Consumed' /\ Consumed' < Limit(h + 1)'
      BY <1>1, <1>3, <1>4, <1>5, <1>6, <1>7, <2>1, SMTT(30)
    <2>3. Len(handed') = h /\ h <= Len(sent')
      BY <1>2, <1>3, <1>h
    <2> QED
      BY <1>2, <2>1, <2>2, <2>3 DEF InStep
  <1>9. arrived < End(h + 1)
    <2>1. CASE i + 2 <= Len(buffer)
      <3>1. buffer[i + 2] = stream[Consumed + (i + 2)]
        <4>1. i + 2 \in 1 .. Len(buffer)
          BY <1>1, <2>1
        <4> QED
          BY <1>0, <4>1 DEF Window
      <3>2. Consumed + (i + 2) = starts[h + 1] + 2
        BY <1>1, <1>3
      <3>3. i + 3 - 1 = i + 2
        BY <1>1
      <3>4. ~(FrameLength(buffer[i + 2]) <= Len(buffer) - i + 1)
        BY <1>2, <2>1, <3>3 DEF Whole
      <3>5. FrameLength(stream[starts[h + 1] + 2]) \in Int
        <4>1. stream[starts[h + 1] + 2] \in Byte
          <5>1. starts[h + 1] + 2 \in 1 .. Len(stream)
            <6>1. End(h + 1) <= Len(stream)
              BY <1>0, <1>3, FrameAt
            <6> QED
              BY <1>1, <1>4, <6>1, SMTT(30)
          <5> QED
            BY <1>0, <5>1, ElementOfSeq DEF TypeOK
        <4> QED
          BY <4>1, FramingAssumption DEF FrameLength, Byte
      <3>6. buffer[i + 2] = stream[starts[h + 1] + 2]
        BY <3>1, <3>2
      <3>7. ~(FrameLength(stream[starts[h + 1] + 2]) <= Len(buffer) - i + 1)
        BY <3>4, <3>6
      <3> QED
        BY <1>1, <1>3, <1>4, <3>5, <3>7
    <2>2. CASE ~(i + 2 <= Len(buffer))
      BY <1>1, <1>3, <1>4, <2>2, SMTT(30)
    <2> QED
      BY <2>1, <2>2
  <1>10. Settled'
    BY <1>2, <1>6, <1>9, <1>h DEF Settled
  <1> QED
    BY <1>0, <1>2, <1>5, <1>8, <1>10, LinkKept DEF IInv

\* The frame that HandOn cuts off is the next one sent, byte for byte.
LEMMA HandsOnNextFrame ==
  ASSUME IInv, NEW i \in Preambles, HandOn(i)
  PROVE  /\ Len(handed) < Len(sent)
         /\ handed' = Append(handed, sent[Len(handed) + 1])
         /\ LET last == i + FrameLength(buffer[i + 2]) - 1
            IN  /\ last + 1 \in 1 .. Len(buffer) + 1 /\ buffer' = Rest(last + 1)
                /\ Consumed + last = End(Len(handed) + 1)
PROOF
  <1>0. TypeOK /\ Layout /\ Window
    BY DEF IInv
  <1>h. PICK h \in Nat : h = Len(handed)
    BY <1>0, Numbers
  <1> DEFINE total == FrameLength(buffer[i + 2])
             frame == SubSeq(buffer, i, i + total - 1)
  <1>1. /\ Len(stream) \in Nat /\ arrived \in Nat /\ Len(sent) \in Nat
        /\ Len(buffer) \in Nat /\ Consumed \in Nat /\ arrived = Consumed + Len(buffer)
        /\ i \in Nat \ {0}
    BY <1>0, Numbers DEF Preambles
  <1>2. Find(i) /\ Whole(i)
    BY DEF HandOn
  <1>3. /\ h < Len(sent) /\ h + 1 \in 1 .. Len(sent) /\ Consumed + i = starts[h + 1]
    BY <1>1, <1>2, <1>h, FindsNextFrame
  <1>4. /\ total \in Nat /\ total >= 3 /\ i + total \in 1 .. Len(buffer) + 1
        /\ frame \in Seq(Byte) /\ Len(frame) = total
        /\ \A k \in 1 .. total : frame[k] = buffer[i + k - 1]
    BY <1>0, <1>2, CutFrame
  <1>5. /\ sent[h + 1] \in Frames /\ starts[h + 1] \in Nat
        /\ Len(sent[h + 1]) = FrameLength(stream[starts[h + 1] + 2])
        /\ End(h + 1) = starts[h + 1] + Len(sent[h + 1]) - 1
        /\ \A k \in 1 .. Len(sent[h + 1]) : stream[starts[h + 1] + k - 1] = sent[h + 1][k]
    BY <1>0, <1>3, FrameAt DEF Layout
  <1>6. Len(sent[h + 1]) = total
    <2>1. i + 2 \in 1 .. Len(buffer)
      <3> HIDE DEF total, frame
      <3> QED
        BY <1>1, <1>4
    <2>2. buffer[i + 2] = stream[Consumed + (i + 2)]
      BY <1>0, <2>1 DEF Window
    <2>3. Consumed + (i + 2) = starts[h + 1] + 2
      BY <1>1, <1>3
    <2>4. buffer[i + 2] = stream[starts[h + 1] + 2]
      BY <2>2, <2>3
    <2> QED
      BY <1>5, <2>4
  <1>7. ASSUME NEW k \in 1 .. total PROVE frame[k] = sent[h + 1][k]
    <2>1. i + k - 1 \in 1 .. Len(buffer) /\ Consumed + (i + k - 1) = starts[h + 1] + k - 1
      <3>1. k \in Nat /\ 1 <= k /\ i + k <= Len(buffer) + 1
        <4>1. total \in Nat /\ i + total <= Len(buffer) + 1
          BY <1>1, <1>4
        <4>2. k \in 1 .. total
          OBVIOUS
        <4> HIDE DEF total, frame
        <4> QED
          BY <1>1, <4>1, <4>2, SMTT(30)
      <3> QED
        BY <1>1, <1>3, <3>1
    <2>2. buffer[i + k - 1] = stream[Consumed + (i + k - 1)]
      BY <1>0, <2>1 DEF Window
    <2>3. stream[starts[h + 1] + k - 1] = sent[h + 1][k]
      BY <1>5, <1>6
    <2> QED
      BY <1>4, <2>1, <2>2, <2>3
  <1>8. frame = sent[h + 1]
    <2> HIDE DEF frame, total
    <2>1. sent[h + 1] \in Seq(Byte)
      BY <1>5, FrameShape
    <2>2. frame \in Seq(Byte) /\ Len(frame) = total
      BY <1>4
    <2>3. Len(frame) = Len(sent[h + 1])
      BY <1>6, <2>2
    <2>4. \A k \in 1 .. Len(frame) : frame[k] = sent[h + 1][k]
      BY <1>7, <2>2
    <2> QED
      BY <2>1, <2>2, <2>3, <2>4, SeqEqual
  <1>9. i + 3 - 1 = i + 2 /\ i + total - 1 + 1 = i + total
    BY <1>1, <1>4, SMTT(30)
  <1>10. handed' = Append(handed, frame) /\ buffer' = Rest(i + total)
    BY <1>9 DEF HandOn
  <1>11. Consumed + (i + total - 1) = End(h + 1)
    <2> HIDE DEF total
    <2>1. Consumed + (i + total - 1) = (Consumed + i) + total - 1
      BY <1>1, <1>4
    <2> QED
      BY <1>3, <1>5, <1>6, <2>1
  <1> QED
    BY <1>h, <1>3, <1>4, <1>8, <1>9, <1>10, <1>11

\* Handing the next frame on leaves what follows it in the buffer.
LEMMA HandOnKeeps ==
  ASSUME IInv, TypeOK', NEW i \in Preambles, HandOn(i)
  PROVE  IInv'
PROOF
  <1>0. TypeOK /\ Layout /\ InOrder /\ CleanGaps /\ Window /\ InStep
    BY DEF IInv
  <1>h. PICK h \in Nat : h = Len(handed)
    BY <1>0, Numbers
  <1>l. PICK last : last = i + FrameLength(buffer[i + 2]) - 1
    OBVIOUS
  <1>1. /\ linkVars' = linkVars /\ stream' = stream /\ sent' = sent /\ arrived' = arrived
        /\ busy' = TRUE
    BY DEF HandOn, linkVars
  <1>2. /\ h < Len(sent) /\ handed' = Append(handed, sent[h + 1])
        /\ last + 1 \in 1 .. Len(buffer) + 1 /\ buffer' = Rest(last + 1)
        /\ Consumed + last = End(h + 1)
    BY <1>h, <1>l, HandsOnNextFrame
  <1>3. /\ Len(buffer) \in Nat /\ Consumed \in Nat /\ Len(sent) \in Nat
        /\ Len(stream) \in Nat
    BY <1>0, Numbers
  <1>4. Window' /\ Consumed' = Consumed + (last + 1) - 1
    BY <1>0, <1>1, <1>2, WindowAfterCut
  <1>5. last \in Int
    <2>1. i \in Nat
      BY <1>3 DEF Preambles
    <2>2. FrameLength(buffer[i + 2]) \in Nat
      BY <1>0, CutFrame DEF HandOn
    <2> QED
      BY <1>l, <2>1, <2>2
  <1>6. Consumed' = End(h + 1)
    BY <1>2, <1>3, <1>4, <1>5
  <1>7. h + 1 \in 1 .. Len(sent) /\ End(h + 1) \in Nat /\ End(h + 1) <= Len(stream)
    <2>1. h + 1 \in 1 .. Len(sent)
      BY <1>2, <1>3
    <2> QED
      BY <1>0, <2>1, FrameAt
  <1>8. End(h + 1) < Limit(h + 2)
    <2>1. CASE h + 2 <= Len(sent)
      <3>1. h + 2 \in 1 .. Len(sent) /\ h + 1 < h + 2
        BY <1>3, <2>1
      <3>2. End(h + 1) < starts[h + 2]
        BY <1>0, <1>7, <3>1 DEF InOrder
      <3> QED
        BY <2>1, <3>2 DEF Limit
    <2>2. CASE ~(h + 2 <= Len(sent))
      BY <1>3, <1>7, <2>2 DEF Limit
    <2> QED
      BY <2>1, <2>2
  <1>9. /\ Len(handed') = h + 1
        /\ \A k \in 1 .. h + 1 : handed'[k] = sent[k]
    <2>1. handed \in Seq(Seq(Byte)) /\ \A k \in 1 .. h : handed[k] = sent[k]
      BY <1>0, <1>h DEF TypeOK, InStep
    <2> QED
      BY <1>2, <1>h, <2>1
  <1>10. /\ After(h + 1)' = After(h + 1) /\ Limit(h + 2)' = Limit(h + 2)
         /\ After(h + 1) = End(h + 1)
    <2>1. h + 1 \in Nat /\ h + 2 \in Nat /\ h + 1 # 0
      OBVIOUS
    <2>2. After(h + 1) = End(h + 1)
      BY <2>1 DEF After
    <2> QED
      BY <1>1, <2>1, <2>2, LinkKept
  <1>11. InStep'
    <2>1. After(h + 1)' <= Consumed' /\ Consumed' < Limit(h + 1 + 1)'
      <3>1. h + 1 + 1 = h + 2
        OBVIOUS
      <3> QED
        BY <1>6, <1>7, <1>8, <1>10, <3>1
    <2>2. h + 1 <= Len(sent')
      BY <1>1, <1>7
    <2> QED
      BY <1>1, <1>9, <2>1, <2>2 DEF InStep
  <1>12. Settled'
    BY <1>1 DEF Settled
  <1> QED
    BY <1>0, <1>1, <1>4, <1>11, <1>12, LinkKept DEF IInv

-----------------------------------------------------------------------------
\* Every step of the link and of _on_notify keeps the invariant.
LEMMA CleanStep == ASSUME IInv, clean', ~Reconnect, [Next]_vars PROVE IInv'
PROOF
  <1>0. TypeOK'
    BY TypeStep DEF IInv
  <1>1. ASSUME NEW f \in Frames, Send(f) PROVE IInv'
    BY <1>0, <1>1, SendKeeps
  <1>2. ASSUME NEW b \in Byte, Stray(b) PROVE IInv'
    BY <1>0, <1>2, StrayKeeps
  <1>4. ASSUME NEW n \in 1 .. Mtu, Notify(n) PROVE IInv'
    BY <1>0, <1>4, NotifyKeeps
  <1>5. ASSUME NoPreamble PROVE IInv'
    BY <1>0, <1>5, NoPreambleKeeps
  <1>6. ASSUME NEW i \in Preambles, Incomplete(i) PROVE IInv'
    BY <1>0, <1>6, IncompleteKeeps
  <1>7. ASSUME NEW i \in Preambles, HandOn(i) PROVE IInv'
    BY <1>0, <1>7, HandOnKeeps
  <1>8. CASE UNCHANGED vars
    <2>1. /\ linkVars' = linkVars /\ stream' = stream /\ sent' = sent /\ arrived' = arrived
          /\ buffer' = buffer /\ busy' = busy /\ handed' = handed
      BY <1>8 DEF vars, linkVars
    <2>2. Consumed' = Consumed
      BY <2>1 DEF Consumed
    <2>h. PICK h \in Nat : h = Len(handed)
      BY Numbers DEF IInv
    <2>3. h + 1 \in Nat
      OBVIOUS
    <2>4. After(h)' = After(h) /\ Limit(h + 1)' = Limit(h + 1) /\ End(h + 1)' = End(h + 1)
      BY <2>1, <2>3, LinkKept
    <2>5. Window' /\ InStep' /\ Settled'
      BY <2>h, <2>1, <2>2, <2>4 DEF IInv, Window, InStep, Settled
    <2> QED
      BY <1>0, <2>1, <2>5, LinkKept DEF IInv
  <1> QED
    BY <1>1, <1>2, <1>4, <1>5, <1>6, <1>7, <1>8 DEF Next

\* A link that is clean has been so all along, or is new.
LEMMA InvariantStep == CleanInv /\ [Next]_vars => CleanInv'
PROOF
  <1> SUFFICES ASSUME CleanInv, [Next]_vars PROVE CleanInv'
    OBVIOUS
  <1>1. TypeOK'
    BY TypeStep DEF CleanInv
  <1>2. CASE Reconnect
    BY <1>1, <1>2, ReconnectKeeps DEF CleanInv
  <1>3. CASE ~Reconnect
    <2>1. clean' => clean
      BY <1>3 DEF Next, vars, linkVars, Send, Stray, Notify, NoPreamble, Incomplete, HandOn
    <2> QED
      BY <1>1, <1>3, <2>1, CleanStep DEF CleanInv
  <1> QED
    BY <1>2, <1>3

LEMMA InvariantInit == Init => CleanInv
PROOF
  <1> SUFFICES ASSUME Init PROVE CleanInv
    OBVIOUS
  <1>0. TypeOK
    BY TypeInit
  <1>1. /\ stream = <<>> /\ sent = <<>> /\ arrived = 0 /\ buffer = <<>> /\ handed = <<>>
    BY DEF Init
  <1>2. Len(stream) = 0 /\ Len(sent) = 0 /\ Len(buffer) = 0 /\ Len(handed) = 0
    BY <1>1
  <1>3. Consumed = 0
    <2>1. Consumed = arrived - Len(buffer)
      BY DEF Consumed
    <2>2. arrived = 0
      BY <1>1
    <2> QED
      BY <1>2, <2>1, <2>2
  <1>4. After(Len(handed)) = 0 /\ Limit(Len(handed) + 1) = 1
    <2>1. After(Len(handed)) = 0
      BY <1>2 DEF After
    <2>2. Limit(Len(handed) + 1) = 1
      BY <1>2 DEF Limit
    <2> QED
      BY <2>1, <2>2
  <1>5. Layout /\ InOrder /\ Settled
    BY <1>2 DEF Layout, InOrder, Settled
  <1>6. CleanGaps /\ Window
    <2>1. 1 .. Len(stream) = {} /\ 1 .. Len(buffer) = {}
      BY <1>2
    <2> QED
      BY <2>1 DEF CleanGaps, Window
  <1>7. InStep
    BY <1>2, <1>3, <1>4 DEF InStep
  <1> QED
    BY <1>0, <1>5, <1>6, <1>7 DEF IInv, CleanInv

LEMMA InvariantPrompt == CleanInv => PromptDelivery
PROOF
  <1> SUFFICES ASSUME CleanInv, clean, ~busy, NEW i \in 1 .. Len(sent), End(i) <= arrived,
                      ~(i <= Len(handed))
               PROVE  FALSE
    BY DEF PromptDelivery
  <1>0. TypeOK /\ Layout /\ InOrder /\ InStep /\ Settled
    BY DEF CleanInv, IInv
  <1>h. PICK h \in Nat : h = Len(handed)
    BY <1>0, Numbers
  <1>1. Len(sent) \in Nat /\ arrived \in Nat
    BY <1>0, Numbers
  <1>2. h + 1 \in 1 .. Len(sent) /\ h + 1 <= i
    BY <1>1, <1>h
  <1>3. arrived < End(h + 1) /\ End(h + 1) \in Nat /\ End(i) \in Nat
    BY <1>0, <1>1, <1>2, <1>h, FrameAt DEF Settled
  <1>4. End(h + 1) <= End(i)
    <2>1. CASE h + 1 = i
      BY <1>3, <2>1
    <2>2. CASE h + 1 < i
      <3>1. End(h + 1) < starts[i]
        BY <1>0, <1>2, <2>2 DEF InOrder
      <3>2. starts[i] \in Nat /\ starts[i] + 2 <= End(i)
        BY <1>0, FrameAt
      <3> QED
        BY <1>3, <3>1, <3>2
    <2> QED
      BY <1>2, <2>1, <2>2
  <1> QED
    BY <1>1, <1>3, <1>4

\* While no stray bytes of a link read as a preamble, _on_notify never returns
\* with a frame held back of which every byte has arrived.
THEOREM FramesArePrompt == Spec => []PromptDelivery
PROOF
  <1>1. CleanInv /\ [Next]_vars => CleanInv'
    BY InvariantStep
  <1> QED
    BY <1>1, InvariantInit, InvariantPrompt, PTL DEF Spec

LEMMA FifoStep ==
  ASSUME CleanInv, [Next]_vars
  PROVE  [Fifo!Next]_<<OnClean(sent), OnClean(handed)>>
PROOF
  <1> USE DEF OnClean
  <1> SUFFICES ASSUME ~(UNCHANGED <<OnClean(sent), OnClean(handed)>>)
               PROVE  Fifo!Next
    OBVIOUS
  <1>1. CASE ~clean'
    BY <1>1 DEF Fifo!Next, Fifo!NewLink
  <1>2. CASE clean' /\ Reconnect
    BY <1>2 DEF Reconnect, Fifo!Next, Fifo!NewLink
  <1>3. CASE clean' /\ ~Reconnect
    <2>0. clean /\ IInv
      <3>1. clean
        BY <1>3 DEF Next, vars, linkVars, Send, Stray, Notify, NoPreamble, Incomplete, HandOn
      <3> QED
        BY <3>1 DEF CleanInv
    <2>1. ASSUME NEW f \in Frames, Send(f) PROVE Fifo!Next
      BY <1>3, <2>0, <2>1 DEF Send, Fifo!Next, Fifo!Send
    <2>2. ASSUME NEW b \in Byte, Stray(b) PROVE FALSE
      BY <1>3, <2>0, <2>2 DEF Stray
    <2>4. ASSUME NEW n \in 1 .. Mtu, Notify(n) PROVE FALSE
      BY <2>4 DEF Notify, linkVars
    <2>5. ASSUME NoPreamble PROVE FALSE
      BY <2>5 DEF NoPreamble, linkVars
    <2>6. ASSUME NEW i \in Preambles, Incomplete(i) PROVE FALSE
      BY <2>6 DEF Incomplete, linkVars
    <2>7. ASSUME NEW i \in Preambles, HandOn(i) PROVE Fifo!Next
      <3>1. /\ Len(handed) < Len(sent)
            /\ handed' = Append(handed, sent[Len(handed) + 1])
        BY <2>0, <2>7, HandsOnNextFrame
      <3>2. sent' = sent /\ clean' = clean
        BY <2>7 DEF HandOn, linkVars
      <3> QED
        BY <1>3, <2>0, <3>1, <3>2 DEF Fifo!Next, Fifo!HandOn
    <2>8. CASE UNCHANGED vars
      BY <2>8 DEF vars, linkVars
    <2> QED
      BY <1>3, <2>1, <2>2, <2>4, <2>5, <2>6, <2>7, <2>8 DEF Next
  <1> QED
    BY <1>1, <1>2, <1>3

\* While no stray bytes of a link read as a preamble, _on_notify hands on
\* exactly the frames the scooter sent, in order: Framing implements FrameFifo.
THEOREM FramingImplementsFifo == Spec => FifoSpec
PROOF
  <1>1. Init => Fifo!Init
    BY DEF Init, Fifo!Init, OnClean
  <1>2. CleanInv /\ [Next]_vars => [Fifo!Next]_<<OnClean(sent), OnClean(handed)>>
    BY FifoStep
  <1>3. CleanInv /\ [Next]_vars => CleanInv'
    BY InvariantStep
  <1> QED
    BY <1>1, <1>2, <1>3, InvariantInit, PTL DEF Spec, FifoSpec, Fifo!Spec
-----------------------------------------------------------------------------
(* Whatever the stray bytes: a byte leaves the buffer because it is handed *)
(* on, or because no preamble begins at it.  So a frame whose first byte   *)
(* has left the buffer has been handed on, in part at least.               *)

Overlap(k, i) == taken[k] <= End(i) /\ starts[i] <= TakenEnd(k)

Accounted ==
    \A i \in 1 .. Len(sent) :
        starts[i] <= Consumed => \E k \in 1 .. Len(handed) : Overlap(k, i)

LostInv == TypeOK /\ Layout /\ Window /\ Accounted

\* No frame begins among the bytes before a preamble of the buffer, or before
\* the last byte of a buffer without one.
LEMMA NothingDiscarded ==
  ASSUME TypeOK, Layout, Window, NEW i \in Nat \ {0}, i <= Len(buffer) \/ i = 1,
         \A p \in Preambles : i <= p,
         NEW j \in 1 .. Len(sent), Consumed < starts[j], starts[j] < Consumed + i
  PROVE  FALSE
PROOF
  <1>1. /\ Consumed \in Nat /\ Len(buffer) \in Nat
        /\ starts[j] \in Nat /\ stream[starts[j]] = P1 /\ stream[starts[j] + 1] = P2
    BY Numbers, FrameAt
  <1>2. PICK p \in Nat : p = starts[j] - Consumed
    BY <1>1
  <1>3. p >= 1 /\ p < i /\ p + 1 <= Len(buffer)
    BY <1>1, <1>2
  <1>4. Consumed + p = starts[j] /\ Consumed + (p + 1) = starts[j] + 1
    BY <1>1, <1>2
  <1>5. buffer[p] = stream[Consumed + p] /\ buffer[p + 1] = stream[Consumed + (p + 1)]
    <2>1. p \in 1 .. Len(buffer) /\ p + 1 \in 1 .. Len(buffer)
      BY <1>1, <1>3
    <2> QED
      BY <2>1 DEF Window
  <1>6. p \in Preambles
    <2>1. p \in 1 .. Len(buffer) - 1
      BY <1>1, <1>3
    <2> QED
      BY <1>1, <1>4, <1>5, <2>1 DEF Preambles, IsPreamble
  <1> QED
    BY <1>3, <1>6

\* Discarding bytes, when no frame begins among them.
LEMMA DiscardKeeps ==
  ASSUME LostInv, NEW i \in Nat \ {0}, i <= Len(buffer) \/ i = 1,
         \A p \in Preambles : i <= p, buffer' = Rest(i),
         linkVars' = linkVars, arrived' = arrived, handed' = handed, taken' = taken
  PROVE  Layout' /\ Window' /\ Accounted'
PROOF
  <1>0. TypeOK /\ Layout /\ Window /\ Accounted
    BY DEF LostInv
  <1>1. /\ stream' = stream /\ sent' = sent /\ starts' = starts
        /\ Consumed \in Nat /\ Len(buffer) \in Nat
    BY <1>0, Numbers DEF linkVars
  <1>2. Window' /\ Consumed' = Consumed + i - 1
    <2>1. i \in 1 .. Len(buffer) + 1
      BY <1>1
    <2> QED
      BY <1>0, <1>1, <2>1, WindowAfterCut
  <1>3. ASSUME NEW j \in 1 .. Len(sent), starts[j] <= Consumed'
        PROVE  \E k \in 1 .. Len(handed) : Overlap(k, j)
    <2>1. starts[j] \in Nat
      BY <1>0, FrameAt
    <2>2. starts[j] <= Consumed
      <3> SUFFICES ASSUME Consumed < starts[j] PROVE FALSE
        BY <1>1, <2>1
      <3>1. starts[j] < Consumed + i
        BY <1>1, <1>2, <1>3, <2>1
      <3> QED
        BY <1>0, <3>1, NothingDiscarded
    <2> QED
      BY <1>0, <2>2 DEF Accounted
  <1>4. Accounted'
    BY <1>1, <1>3 DEF Accounted, Overlap, End, TakenEnd
  <1> QED
    BY <1>0, <1>2, <1>4, LinkKept

\* Handing a frame on accounts for every frame that begins in it.
LEMMA HandOnAccounts ==
  ASSUME LostInv, NEW i \in Preambles, HandOn(i)
  PROVE  Layout' /\ Window' /\ Accounted'
PROOF
  <1>0. TypeOK /\ Layout /\ Window /\ Accounted
    BY DEF LostInv
  <1>1. PICK total : total = FrameLength(buffer[i + 2])
    OBVIOUS
  <1>2. PICK frame : frame = SubSeq(buffer, i, i + total - 1)
    OBVIOUS
  <1>3. /\ linkVars' = linkVars /\ arrived' = arrived
        /\ stream' = stream /\ sent' = sent /\ starts' = starts
    BY DEF HandOn, linkVars
  <1>4. /\ Consumed \in Nat /\ Len(buffer) \in Nat
        /\ i \in Nat \ {0} /\ i <= Len(buffer)
    <2>1. Consumed \in Nat /\ Len(buffer) \in Nat
      BY <1>0, Numbers
    <2> QED
      BY <2>1 DEF Preambles
  <1>5. /\ total \in Nat /\ total >= 3 /\ i + total \in 1 .. Len(buffer) + 1
        /\ frame \in Seq(Byte) /\ Len(frame) = total
    BY <1>0, <1>1, <1>2, CutFrame DEF HandOn
  <1>6. /\ handed' = Append(handed, frame) /\ taken' = Append(taken, Consumed + i)
        /\ buffer' = Rest(i + total)
    <2>1. i + 3 - 1 = i + 2 /\ i + total - 1 + 1 = i + total
      BY <1>4, <1>5
    <2> QED
      BY <1>1, <1>2, <2>1 DEF HandOn
  <1>7. Window' /\ Consumed' = Consumed + (i + total) - 1
    BY <1>0, <1>3, <1>5, <1>6, WindowAfterCut
  <1>8. /\ Len(handed') = Len(handed) + 1 /\ Len(handed) \in Nat
        /\ \A k \in 1 .. Len(handed) : handed'[k] = handed[k] /\ taken'[k] = taken[k]
        /\ handed'[Len(handed) + 1] = frame /\ taken'[Len(handed) + 1] = Consumed + i
    <2>1. handed \in Seq(Seq(Byte)) /\ taken \in Seq(Nat \ {0}) /\ Len(taken) = Len(handed)
      BY <1>0 DEF TypeOK
    <2> QED
      BY <1>4, <1>5, <1>6, <2>1
  <1>9. ASSUME NEW j \in 1 .. Len(sent), starts[j] <= Consumed'
        PROVE  \E k \in 1 .. Len(handed') : Overlap(k, j)'
    <2>0. /\ starts[j] \in Nat /\ End(j) \in Nat /\ starts[j] + 2 <= End(j)
          /\ End(j)' = End(j)
      BY <1>0, <1>3, FrameAt DEF End
    <2>1. CASE starts[j] <= Consumed
      <3>1. PICK k \in 1 .. Len(handed) : Overlap(k, j)
        BY <1>0, <2>1 DEF Accounted
      <3>2. k \in 1 .. Len(handed') /\ Overlap(k, j)'
        BY <1>3, <1>8, <2>0, <3>1 DEF Overlap, TakenEnd
      <3> QED
        BY <3>2
    <2>2. CASE Consumed < starts[j]
      <3>1. Consumed + i <= starts[j]
        <4> SUFFICES ASSUME starts[j] < Consumed + i PROVE FALSE
          BY <1>4, <2>0
        <4>1. \A p \in Preambles : i <= p
          BY DEF HandOn, Find
        <4> QED
          BY <1>0, <1>4, <2>2, <4>1, NothingDiscarded
      <3>2. PICK n \in Nat : n = Len(handed) + 1
        BY <1>8
      <3>3. taken'[n] <= End(j)
        BY <1>4, <1>8, <2>0, <3>1, <3>2
      <3>4. starts[j] <= taken'[n] + Len(handed'[n]) - 1
        <4>1. taken'[n] = Consumed + i /\ Len(handed'[n]) = total
          BY <1>5, <1>8, <3>2
        <4>2. starts[j] <= Consumed + (i + total) - 1
          BY <1>7, <1>9
        <4> QED
          BY <1>4, <1>5, <4>1, <4>2
      <3>5. n \in 1 .. Len(handed') /\ Overlap(n, j)'
        BY <1>3, <1>8, <2>0, <3>2, <3>3, <3>4 DEF Overlap, TakenEnd
      <3> QED
        BY <3>5
    <2> QED
      BY <1>4, <2>0, <2>1, <2>2
  <1>10. Accounted'
    BY <1>3, <1>9 DEF Accounted
  <1> QED
    BY <1>0, <1>3, <1>7, <1>10, LinkKept

LEMMA LostStep == LostInv /\ [Next]_vars => LostInv'
PROOF
  <1> SUFFICES ASSUME LostInv, [Next]_vars PROVE Layout' /\ Window' /\ Accounted'
    BY TypeStep DEF LostInv
  <1>0. /\ TypeOK /\ Layout /\ Window /\ Accounted
        /\ Consumed \in Nat /\ Len(stream) \in Nat /\ Consumed <= Len(stream)
        /\ Len(buffer) \in Nat /\ buffer \in Seq(Byte)
    <2>1. TypeOK /\ Layout /\ Window /\ Accounted
      BY DEF LostInv
    <2>2. /\ Consumed \in Nat /\ Len(stream) \in Nat /\ Len(buffer) \in Nat
          /\ arrived = Consumed + Len(buffer) /\ arrived <= Len(stream)
      BY <2>1, Numbers
    <2> QED
      BY <2>1, <2>2 DEF TypeOK
  <1>1. ASSUME NEW f \in Frames, Send(f) PROVE Layout' /\ Window' /\ Accounted'
    <2>L. PICK L \in Nat : L = Len(stream)
      BY <1>0
    <2>m. PICK m \in Nat : m = Len(sent)
      BY <1>0, Numbers
    <2>1. /\ Layout' /\ Window'
          /\ Len(sent') = m + 1
          /\ \A i \in 1 .. m : sent'[i] = sent[i] /\ starts'[i] = starts[i]
          /\ starts'[m + 1] = L + 1
          /\ \A i \in 1 .. m : End(i)' = End(i)
      BY <1>0, <1>1, <2>L, <2>m, SendLink
    <2>2. handed' = handed /\ taken' = taken /\ Consumed' = Consumed
      BY <1>1 DEF Send, Consumed
    <2>3. ASSUME NEW j \in 1 .. m + 1, starts'[j] <= Consumed
          PROVE  \E k \in 1 .. Len(handed) : Overlap(k, j)'
      <3>1. j \in 1 .. m
        BY <1>0, <2>L, <2>1, <2>3
      <3>2. PICK k \in 1 .. Len(handed) : Overlap(k, j)
        BY <1>0, <2>m, <2>1, <2>3, <3>1 DEF Accounted
      <3>3. Overlap(k, j)'
        BY <2>1, <2>2, <3>1, <3>2 DEF Overlap, TakenEnd
      <3> QED
        BY <3>3
    <2>4. Accounted'
      BY <2>1, <2>2, <2>3 DEF Accounted
    <2> QED
      BY <2>1, <2>4
  <1>2. ASSUME NEW b \in Byte, Stray(b) PROVE Layout' /\ Window' /\ Accounted'
    <2>1. Layout' /\ Window'
      BY <1>0, <1>2, StrayLink
    <2>2. /\ sent' = sent /\ starts' = starts /\ handed' = handed /\ taken' = taken
          /\ arrived' = arrived /\ buffer' = buffer
      BY <1>2 DEF Stray
    <2>3. Accounted'
      BY <1>0, <2>2 DEF Accounted, Overlap, End, TakenEnd, Consumed
    <2> QED
      BY <2>1, <2>3
  <1>3. CASE Reconnect
    <2>1. TypeOK'
      BY <1>0, TypeStep
    <2>2. Layout' /\ Window'
      BY <1>3, <2>1, ReconnectKeeps DEF IInv
    <2>3. sent' = <<>>
      BY <1>3 DEF Reconnect
    <2>4. Accounted'
      BY <2>3 DEF Accounted
    <2> QED
      BY <2>2, <2>4
  <1>4. ASSUME NEW n \in 1 .. Mtu, Notify(n) PROVE Layout' /\ Window' /\ Accounted'
    <2>1. Window' /\ Consumed' = Consumed
      BY <1>0, <1>4, NotifyLink
    <2>2. linkVars' = linkVars /\ handed' = handed /\ taken' = taken
      BY <1>4 DEF Notify
    <2>3. sent' = sent /\ starts' = starts
      BY <2>2 DEF linkVars
    <2>4. Accounted'
      BY <1>0, <2>1, <2>2, <2>3 DEF Accounted, Overlap, End, TakenEnd
    <2> QED
      BY <1>0, <2>1, <2>2, <2>4, LinkKept
  <1>5. CASE NoPreamble
    <2>0. /\ linkVars' = linkVars /\ arrived' = arrived /\ handed' = handed
          /\ taken' = taken /\ Preambles = {}
      BY <1>5 DEF NoPreamble
    <2>1. PICK i \in Nat \ {0} : (i <= Len(buffer) \/ i = 1) /\ buffer' = Rest(i)
      <3>1. CASE buffer = <<>>
        <4>1. Rest(1) \in Seq(Byte) /\ Len(Rest(1)) = 0
          <5>1. Len(buffer) = 0 /\ 1 \in 1 .. Len(buffer) + 1
            BY <3>1
          <5> QED
            BY <1>0, <5>1, RestOf
        <4>2. Rest(1) = <<>>
          BY <4>1, EmptySeq
        <4>3. buffer' = <<>>
          BY <1>5, <3>1 DEF NoPreamble
        <4> QED
          BY <4>2, <4>3
      <3>2. CASE buffer # <<>>
        <4>1. Len(buffer) # 0
          BY <1>0, <3>2
        <4> QED
          BY <1>0, <1>5, <3>2, <4>1 DEF NoPreamble
      <3> QED
        BY <3>1, <3>2
    <2> QED
      BY <2>0, <2>1, DiscardKeeps
  <1>6. ASSUME NEW i \in Preambles, Incomplete(i) PROVE Layout' /\ Window' /\ Accounted'
    <2>1. i \in Nat \ {0} /\ i <= Len(buffer)
      BY <1>0 DEF Preambles
    <2>2. /\ linkVars' = linkVars /\ arrived' = arrived /\ handed' = handed
          /\ taken' = taken /\ buffer' = Rest(i) /\ \A p \in Preambles : i <= p
      BY <1>6 DEF Incomplete, Find
    <2> QED
      BY <2>1, <2>2, DiscardKeeps
  <1>7. ASSUME NEW i \in Preambles, HandOn(i) PROVE Layout' /\ Window' /\ Accounted'
    BY <1>7, HandOnAccounts
  <1>8. CASE UNCHANGED vars
    <2>1. /\ linkVars' = linkVars /\ sent' = sent /\ starts' = starts /\ stream' = stream
          /\ arrived' = arrived /\ buffer' = buffer /\ handed' = handed /\ taken' = taken
      BY <1>8 DEF vars, linkVars
    <2>2. Window' /\ Accounted'
      BY <1>0, <2>1 DEF Window, Accounted, Overlap, End, TakenEnd, Consumed
    <2> QED
      BY <1>0, <2>1, <2>2, LinkKept
  <1> QED
    BY <1>1, <1>2, <1>3, <1>4, <1>5, <1>6, <1>7, <1>8 DEF Next

LEMMA LostInit == Init => LostInv
PROOF
  <1> SUFFICES ASSUME Init PROVE LostInv
    OBVIOUS
  <1>1. TypeOK /\ CleanInv /\ clean
    BY TypeInit, InvariantInit DEF Init
  <1>2. Layout /\ Window
    BY <1>1 DEF CleanInv, IInv
  <1>3. sent = <<>>
    BY DEF Init
  <1> QED
    BY <1>1, <1>2, <1>3 DEF LostInv, Accounted

LEMMA LostImplied == LostInv => LostOnlyToFalseFrames
PROOF
  <1> SUFFICES ASSUME LostInv, NEW i \in 1 .. Len(sent), End(i) <= Consumed
               PROVE  \E k \in 1 .. Len(handed) : Overlap(k, i)
    BY DEF LostOnlyToFalseFrames, Overlap
  <1>0. TypeOK /\ Layout /\ Accounted
    BY DEF LostInv
  <1>1. /\ starts[i] \in Nat /\ End(i) \in Nat /\ starts[i] + 2 <= End(i)
        /\ Consumed \in Nat
    BY <1>0, FrameAt, Numbers
  <1>2. starts[i] <= Consumed
    BY <1>1
  <1> QED
    BY <1>0, <1>2 DEF Accounted

\* Whatever the scooter and the air put on the link, _on_notify loses a frame
\* only by handing on, in its place, bytes that overlap it: it never discards
\* one as stray.
THEOREM FramesLostOnlyToFalseFrames == Spec => []LostOnlyToFalseFrames
PROOF
  <1> QED
    BY LostInit, LostStep, LostImplied, PTL DEF Spec
=============================================================================
