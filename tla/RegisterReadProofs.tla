------------------------- MODULE RegisterReadProofs -------------------------
(***************************************************************************)
(* Proofs about RegisterRead: its types, and that a read which begins with *)
(* nothing under way and is never answered without data leaves no answer   *)
(* behind and implements RegularRegister.                                  *)
(***************************************************************************)
EXTENDS RegisterRead, SequenceTheorems, TLAPS

\* The head and the tail of a sequence that is not empty.
LEMMA HeadAndTail ==
  ASSUME NEW S, NEW s \in Seq(S), s # <<>>
  PROVE  /\ Len(s) \in Nat /\ Len(s) >= 1
         /\ Head(s) = s[1] /\ Head(s) \in S
         /\ Tail(s) \in Seq(S) /\ Len(Tail(s)) = Len(s) - 1
         /\ \A i \in 1 .. Len(Tail(s)) : Tail(s)[i] = s[i + 1] /\ i + 1 \in 1 .. Len(s)
PROOF
  OBVIOUS

\* Appending to a sequence.
LEMMA Appended ==
  ASSUME NEW S, NEW s \in Seq(S), NEW e \in S
  PROVE  /\ Append(s, e) \in Seq(S) /\ Len(Append(s, e)) = Len(s) + 1
         /\ Len(s) \in Nat
         /\ \A i \in 1 .. Len(s) : Append(s, e)[i] = s[i]
         /\ Append(s, e)[Len(s) + 1] = e
PROOF
  OBVIOUS

\* Prefix(s, n) is the first n elements of s, or all of them.
LEMMA PrefixOf ==
  ASSUME NEW S, NEW s \in Seq(S), NEW n \in Nat
  PROVE  /\ Prefix(s, n) \in Seq(S)
         /\ n <= Len(s) => Len(Prefix(s, n)) = n
         /\ Len(s) <= n => Len(Prefix(s, n)) = Len(s)
         /\ \A i \in 1 .. Len(Prefix(s, n)) : Prefix(s, n)[i] = s[i]
PROOF
  <1> DEFINE l == IF n < Len(s) THEN n ELSE Len(s)
  <1>1. l \in Nat /\ l <= Len(s) /\ Len(s) \in Nat
    OBVIOUS
  <1>2. \A i \in 1 .. l : s[i] \in S
    BY <1>1, ElementOfSeq
  <1>3. /\ SubSeq(s, 1, l) \in Seq(S)
        /\ Len(SubSeq(s, 1, l)) = l
        /\ \A i \in 1 .. l : SubSeq(s, 1, l)[i] = s[i]
    <2> HIDE DEF l
    <2>1. /\ SubSeq(s, 1, l) \in Seq(S)
          /\ Len(SubSeq(s, 1, l)) = IF 1 <= l THEN l - 1 + 1 ELSE 0
          /\ \A i \in 1 .. l - 1 + 1 : SubSeq(s, 1, l)[i] = s[1 + i - 1]
      BY <1>1, <1>2, SubSeqProperties
    <2>2. l - 1 + 1 = l /\ \A i \in 1 .. l : 1 + i - 1 = i
      BY <1>1
    <2>3. ~(1 <= l) => l = 0
      BY <1>1
    <2> QED
      BY <2>1, <2>2, <2>3
  <1> QED
    BY <1>1, <1>3 DEF Prefix

-----------------------------------------------------------------------------
\* The index asked for is that of a word of the register.
LEMMA IndexIsAddress ==
  ASSUME TypeOK, Reading
  PROVE  /\ register \in Registers
         /\ First[register] \in Nat /\ Words[register] \in Nat \ {0}
         /\ Index \in Nat /\ Index \in Addresses
         /\ ask = 0 => Index .. Index + Words[register] - 1 \subseteq Addresses
PROOF
  <1>1. register \in Registers /\ ask \in Nat /\ ask <= Words[register]
    BY DEF TypeOK, Reading
  <1>2. /\ First[register] \in Nat /\ Words[register] \in Nat \ {0}
        /\ First[register] .. First[register] + Words[register] - 1 \subseteq Addresses
    BY <1>1, RegisterReadAssumption
  <1>3. CASE ask = 0
    <2>1. Index = First[register]
      BY <1>2, <1>3 DEF Index
    <2>2. First[register] \in First[register] .. First[register] + Words[register] - 1
      BY <1>2
    <2> QED
      BY <1>1, <1>2, <2>1, <2>2
  <1>4. CASE ask # 0
    <2>1. Index = First[register] + (ask - 1)
      BY <1>4 DEF Index
    <2>2. Index \in First[register] .. First[register] + Words[register] - 1
      BY <1>1, <1>2, <1>4, <2>1
    <2> QED
      BY <1>1, <1>2, <1>4, <2>1, <2>2
  <1> QED
    BY <1>3, <1>4

LEMMA TakeTypes ==
  ASSUME TypeOK, Reading, Take
  PROVE  /\ memory' = memory /\ requests' = requests /\ held' = held /\ waiting' = FALSE
         /\ answers' \in Seq(Answers) /\ clean' = clean
         /\ Head(answers) \in Answers /\ Head(answers).data \in Seq(Values)
PROOF
  <1>1. answers \in Seq(Answers) /\ answers # <<>>
    BY DEF TypeOK, Take
  <1>2. Head(answers) \in Answers /\ Tail(answers) \in Seq(Answers)
    BY <1>1, HeadAndTail
  <1> QED
    BY <1>2 DEF Take, Answers, linkVars

\* Only a read in progress waits, and it has returned nothing yet.
WaitingReads == (waiting => Reading) /\ (Reading => result = <<>>)

\* Every variable keeps its type.
LEMMA TypeStep == TypeOK /\ WaitingReads /\ [Next]_vars => TypeOK' /\ WaitingReads'
PROOF
  <1> SUFFICES ASSUME TypeOK, WaitingReads, [Next]_vars PROVE TypeOK' /\ WaitingReads'
    OBVIOUS
  <1> USE DEF WaitingReads, Reading
  <1>1. ASSUME NEW a \in Addresses, NEW v \in Values, Change(a, v)
        PROVE  TypeOK' /\ WaitingReads'
    <2>1. memory' \in [Addresses -> Values]
      BY <1>1 DEF Change, TypeOK
    <2> QED
      BY <1>1, <2>1 DEF Change, TypeOK, linkVars, readVars
  <1>2. ASSUME NEW n \in 0 .. Cardinality(Addresses), Answer(n)
        PROVE  TypeOK' /\ WaitingReads'
    <2> DEFINE request == Head(requests)
               data == [k \in 1 .. n |-> memory[request.first + k - 1]]
               answer == [first |-> request.first, data |-> data, ask |-> request.ask]
    <2>1. requests \in Seq(Requests) /\ requests # <<>>
      BY <1>2 DEF TypeOK, Answer
    <2>2. request \in Requests /\ Tail(requests) \in Seq(Requests)
      BY <2>1, HeadAndTail
    <2>3. /\ request.first \in Addresses /\ request.words \in Nat \ {0} /\ request.ask \in Nat
          /\ request.first .. request.first + request.words - 1 \subseteq Addresses
          /\ request.first \in Nat
      BY <2>2, RegisterReadAssumption DEF Requests
    <2>4. n <= request.words
      BY <1>2 DEF Answer
    <2>5. n \in Nat /\ n <= request.words
      BY <2>3, <2>4
    <2>6. data \in Seq(Values)
      <3> HIDE DEF request
      <3>1. ASSUME NEW k \in 1 .. n PROVE memory[request.first + k - 1] \in Values
        <4>1. request.first + k - 1 \in request.first .. request.first + request.words - 1
          BY <2>3, <2>5
        <4> QED
          BY <2>3, <4>1 DEF TypeOK
      <3>2. data \in [1 .. n -> Values]
        BY <3>1
      <3> QED
        BY <2>5, <3>2
    <2>7. answer \in Answers
      <3> HIDE DEF data, request
      <3> QED
        BY <2>3, <2>6 DEF Answers
    <2>8. answers' = Append(answers, answer) /\ requests' = Tail(requests)
      BY <1>2 DEF Answer
    <2>9. answers' \in Seq(Answers)
      <3> HIDE DEF answer
      <3> QED
        BY <2>7, <2>8, Appended DEF TypeOK
    <2> QED
      BY <1>2, <2>2, <2>8, <2>9 DEF Answer, TypeOK, readVars
  <1>3. ASSUME LoseRequest PROVE TypeOK' /\ WaitingReads'
    <2>1. requests' \in Seq(Requests)
      BY <1>3, HeadAndTail DEF LoseRequest, TypeOK
    <2> QED
      BY <1>3, <2>1 DEF LoseRequest, TypeOK, readVars
  <1>4. ASSUME LoseAnswer PROVE TypeOK' /\ WaitingReads'
    <2>1. answers' \in Seq(Answers)
      BY <1>4, HeadAndTail DEF LoseAnswer, TypeOK
    <2> QED
      BY <1>4, <2>1 DEF LoseAnswer, TypeOK, readVars
  <1>5. ASSUME Reconnect PROVE TypeOK' /\ WaitingReads'
    <2>1. requests' \in Seq(Requests) /\ answers' \in Seq(Answers)
      BY <1>5, EmptySeq DEF Reconnect
    <2> QED
      BY <1>5, <2>1 DEF Reconnect, TypeOK, readVars
  <1>6. ASSUME NEW r \in Registers, Begin(r) PROVE TypeOK' /\ WaitingReads'
    <2>1. payload' \in Seq(Values) /\ result' \in Seq(Values)
      BY <1>6, EmptySeq DEF Begin
    <2>2. Words[r] \in Nat
      BY RegisterReadAssumption
    <2>3. /\ memory' = memory /\ requests' = requests /\ answers' = answers
          /\ register' = r /\ ask' = 0 /\ waiting' = FALSE /\ held' = {memory}
          /\ clean' \in BOOLEAN /\ result' = <<>>
      BY <1>6 DEF Begin, Quiet, linkVars
    <2>4. ask' \in Nat /\ (register' # NoRegister => ask' <= Words[register'])
      BY <2>2, <2>3
    <2>5. held' \subseteq [Addresses -> Values]
      BY <2>3 DEF TypeOK
    <2> QED
      BY <2>1, <2>3, <2>4, <2>5 DEF TypeOK
  <1>7. ASSUME Ask PROVE TypeOK' /\ WaitingReads'
    <2> DEFINE m == [first |-> Index,
                     words |-> IF ask = 0 THEN Words[register] ELSE 1,
                     ask |-> ask]
    <2>1. Reading
      BY <1>7 DEF Ask
    <2>2. /\ Index \in Nat /\ Index \in Addresses /\ Words[register] \in Nat \ {0}
          /\ ask = 0 => Index .. Index + Words[register] - 1 \subseteq Addresses
          /\ ask \in Nat
      BY <2>1, IndexIsAddress DEF TypeOK
    <2>3. m \in Requests
      <3>1. m \in [first : Addresses, words : Nat \ {0}, ask : Nat]
        BY <2>2
      <3>2. m.first .. m.first + m.words - 1 \subseteq Addresses
        <4>1. CASE ask = 0
          BY <2>2, <4>1
        <4>2. CASE ask # 0
          <5>1. m.first = Index /\ m.words = 1
            BY <4>2
          <5>2. Index .. Index + 1 - 1 = {Index}
            BY <2>2
          <5> QED
            BY <2>2, <5>1, <5>2
        <4> QED
          BY <4>1, <4>2
      <3> QED
        BY <3>1, <3>2 DEF Requests
    <2>4. requests' = Append(requests, m)
      BY <1>7 DEF Ask
    <2>5. requests' \in Seq(Requests)
      <3> HIDE DEF m
      <3> QED
        BY <2>3, <2>4, Appended DEF TypeOK
    <2> QED
      BY <1>7, <2>5 DEF Ask, TypeOK
  <1>8. ASSUME Raise PROVE TypeOK' /\ WaitingReads'
    BY <1>8 DEF Raise, TypeOK, linkVars
  <1>9. ASSUME WriteFails PROVE TypeOK' /\ WaitingReads'
    BY <1>8, <1>9 DEF WriteFails
  <1>10. ASSUME Ignore PROVE TypeOK' /\ WaitingReads'
    <2>1. answers' \in Seq(Answers)
      BY <1>10, HeadAndTail DEF Ignore, TypeOK
    <2> QED
      BY <1>10, <2>1 DEF Ignore, TypeOK, readVars
  <1>11. ASSUME TakeBulk PROVE TypeOK' /\ WaitingReads'
    <2>1. Take /\ Reading
      BY <1>11 DEF TakeBulk, Take
    <2>2. result' \in Seq(Values)
      <3>1. Words[register] \in Nat
        BY <2>1, IndexIsAddress
      <3>2. Head(answers).data \in Seq(Values)
        BY <2>1, TakeTypes
      <3> QED
        BY <1>11, <3>1, <3>2, PrefixOf DEF TakeBulk
    <2> QED
      BY <1>11, <2>1, <2>2, TakeTypes DEF TakeBulk, TypeOK
  <1>12. ASSUME TakeShort PROVE TypeOK' /\ WaitingReads'
    <2>1. Take /\ Reading
      BY <1>12 DEF TakeShort, Take
    <2>2. Words[register] \in Nat \ {0}
      BY <2>1, IndexIsAddress
    <2>3. /\ memory' = memory /\ requests' = requests /\ held' = held /\ waiting' = FALSE
          /\ answers' \in Seq(Answers) /\ clean' = clean
      BY <2>1, TakeTypes
    <2>4. register' = register /\ ask' = 1 /\ payload' = payload /\ result' = result
      BY <1>12 DEF TakeShort
    <2>5. ask' \in Nat /\ (register' # NoRegister => ask' <= Words[register'])
      BY <2>2, <2>4
    <2> QED
      BY <2>3, <2>4, <2>5 DEF TypeOK
  <1>13. ASSUME TakeWord PROVE TypeOK' /\ WaitingReads'
    <2>1. Take /\ Reading
      BY <1>13 DEF TakeWord, Take
    <2>2. payload' \in Seq(Values)
      <3>1. Prefix(Head(answers).data, 1) \in Seq(Values)
        BY <2>1, TakeTypes, PrefixOf
      <3> QED
        BY <1>13, <3>1, ConcatProperties DEF TakeWord, TypeOK
    <2>3. Words[register] \in Nat
      BY <2>1, IndexIsAddress
    <2>4. /\ memory' = memory /\ requests' = requests /\ held' = held /\ waiting' = FALSE
          /\ answers' \in Seq(Answers) /\ clean' = clean
      BY <2>1, TakeTypes
    <2>5. register' = register /\ ask' = ask + 1 /\ result' = result /\ ask < Words[register]
      BY <1>13 DEF TakeWord
    <2>6. ask' \in Nat /\ (register' # NoRegister => ask' <= Words[register'])
      BY <2>3, <2>5 DEF TypeOK
    <2> QED
      BY <2>2, <2>4, <2>5, <2>6 DEF TypeOK
  <1>14. ASSUME TakeLastWord PROVE TypeOK' /\ WaitingReads'
    <2>1. Take /\ Reading
      BY <1>14 DEF TakeLastWord, Take
    <2>2. payload' \in Seq(Values)
      <3>1. Prefix(Head(answers).data, 1) \in Seq(Values)
        BY <2>1, TakeTypes, PrefixOf
      <3> QED
        BY <1>14, <3>1, ConcatProperties DEF TakeLastWord, TypeOK
    <2>3. result' \in Seq(Values)
      <3>1. Words[register] \in Nat
        BY <2>1, IndexIsAddress
      <3> QED
        BY <1>14, <2>2, <3>1, PrefixOf DEF TakeLastWord
    <2>4. /\ memory' = memory /\ requests' = requests /\ held' = held /\ waiting' = FALSE
          /\ answers' \in Seq(Answers) /\ clean' = clean
      BY <2>1, TakeTypes
    <2>5. register' = NoRegister /\ ask' = ask
      BY <1>14 DEF TakeLastWord
    <2> QED
      BY <2>2, <2>3, <2>4, <2>5 DEF TypeOK
  <1>15. ASSUME TimeOutBulk PROVE TypeOK' /\ WaitingReads'
    <2>1. Words[register] \in Nat /\ Words[register] > 1
      BY <1>15, IndexIsAddress DEF TimeOutBulk
    <2>2. /\ memory' = memory /\ requests' = requests /\ answers' = answers /\ held' = held
          /\ clean' = clean /\ register' = register /\ ask' = 1 /\ waiting' = FALSE
          /\ payload' = payload /\ result' = result
      BY <1>15 DEF TimeOutBulk, linkVars
    <2>3. ask' \in Nat /\ (register' # NoRegister => ask' <= Words[register'])
      BY <2>1, <2>2
    <2> QED
      BY <2>2, <2>3 DEF TypeOK
  <1>16. ASSUME TimeOut PROVE TypeOK' /\ WaitingReads'
    BY <1>8, <1>16 DEF TimeOut
  <1>17. CASE UNCHANGED vars
    BY <1>17 DEF vars, linkVars, readVars, TypeOK
  <1> QED
    BY <1>1, <1>2, <1>3, <1>4, <1>5, <1>6, <1>7, <1>9, <1>10, <1>11, <1>12, <1>13,
       <1>14, <1>15, <1>16, <1>17 DEF Next, Client

LEMMA TypeInit == Init => TypeOK /\ WaitingReads
PROOF
  <1> SUFFICES ASSUME Init PROVE TypeOK /\ WaitingReads
    OBVIOUS
  <1>1. /\ requests \in Seq(Requests) /\ answers \in Seq(Answers)
        /\ payload \in Seq(Values) /\ result \in Seq(Values)
    BY EmptySeq DEF Init
  <1> QED
    BY <1>1 DEF Init, TypeOK, WaitingReads

\* Every variable of RegisterRead keeps its type, whatever the scooter does:
\* the walk never asks for a word outside the register.
THEOREM ReadTypeCorrect == Spec => []TypeOK
PROOF
  <1> QED
    BY TypeInit, TypeStep, PTL DEF Spec

-----------------------------------------------------------------------------
(* The messages under way are of the read in progress, in the order asked. *)

PlaceOf(k) == First[register] + (IF k = 0 THEN 0 ELSE k - 1)

InOrder ==
    /\ \A i, j \in 1 .. Len(answers) : i < j => answers[i].ask < answers[j].ask
    /\ \A i, j \in 1 .. Len(requests) : i < j => requests[i].ask < requests[j].ask
    /\ \A i \in 1 .. Len(answers), j \in 1 .. Len(requests) :
           answers[i].ask < requests[j].ask

\* m was asked for by now, and by this read.
WasAsked(m) ==
    /\ m.ask <= ask /\ (~waiting => m.ask < ask)
    /\ m.first = PlaceOf(m.ask)

\* The words of s are, from address a on, as they were during the read.
HeldFrom(a, s) ==
    \A k \in 1 .. Len(s) : \E m \in held : s[k] = m[a + k - 1]

Underway ==
    /\ \A i \in 1 .. Len(requests) : WasAsked(requests[i])
    /\ \A i \in 1 .. Len(answers) :
           /\ WasAsked(answers[i])
           /\ Len(answers[i].data) >= 1
           /\ HeldFrom(answers[i].first, answers[i].data)

Walked ==
    /\ Len(payload) = (IF ask = 0 THEN 0 ELSE ask - 1)
    /\ HeldFrom(First[register], payload)
    /\ Words[register] = 1 => ask = 0
    /\ memory \in held

LeftNothing == ~Reading => Quiet

IInv ==
    /\ TypeOK /\ WaitingReads
    /\ LeftNothing
    /\ Reading => InOrder /\ Underway /\ Walked

CleanInv == TypeOK /\ WaitingReads /\ (clean => IInv)

\* The messages under way have their types.
LEMMA MessageTypes ==
  ASSUME TypeOK
  PROVE  /\ Len(answers) \in Nat /\ Len(requests) \in Nat
         /\ \A i \in 1 .. Len(answers) :
                answers[i] \in Answers /\ answers[i].ask \in Nat
                /\ answers[i].data \in Seq(Values) /\ answers[i].first \in Nat
         /\ \A i \in 1 .. Len(requests) :
                requests[i] \in Requests /\ requests[i].ask \in Nat
                /\ requests[i].first \in Nat /\ requests[i].words \in Nat \ {0}
PROOF
  <1>1. answers \in Seq(Answers) /\ requests \in Seq(Requests)
    BY DEF TypeOK
  <1>2. \A i \in 1 .. Len(answers) : answers[i] \in Answers
    BY <1>1, ElementOfSeq
  <1>3. \A i \in 1 .. Len(requests) : requests[i] \in Requests
    BY <1>1, ElementOfSeq
  <1>4. Addresses \subseteq Nat
    BY RegisterReadAssumption
  <1>5. \A m \in Answers : m.ask \in Nat /\ m.data \in Seq(Values) /\ m.first \in Nat
    BY <1>4 DEF Answers
  <1>6. \A m \in Requests : m.ask \in Nat /\ m.first \in Nat /\ m.words \in Nat \ {0}
    BY <1>4 DEF Requests
  <1>7. Len(answers) \in Nat /\ Len(requests) \in Nat
    BY <1>1
  <1> QED
    BY <1>2, <1>3, <1>5, <1>6, <1>7

\* Taking the next answer away leaves the others, which were asked for later.
LEMMA NextAnswerGone ==
  ASSUME TypeOK, InOrder, answers # <<>>, answers' = Tail(answers), requests' = requests
  PROVE  /\ InOrder'
         /\ Len(answers') = Len(answers) - 1 /\ Len(answers) >= 1
         /\ 1 \in 1 .. Len(answers) /\ Head(answers) = answers[1]
         /\ \A i \in 1 .. Len(answers') :
                /\ i + 1 \in 1 .. Len(answers) /\ answers'[i] = answers[i + 1]
                /\ answers[1].ask < answers'[i].ask
         /\ \A i \in 1 .. Len(requests) : answers[1].ask < requests[i].ask
PROOF
  <1>1. /\ Len(answers) \in Nat /\ Len(answers) >= 1 /\ Head(answers) = answers[1]
        /\ Len(answers') = Len(answers) - 1
        /\ \A i \in 1 .. Len(answers') : answers'[i] = answers[i + 1] /\ i + 1 \in 1 .. Len(answers)
    BY HeadAndTail DEF TypeOK
  <1>2. 1 \in 1 .. Len(answers)
    BY <1>1
  <1>3. \A i \in 1 .. Len(answers') : 1 < i + 1
    BY <1>1
  <1>4. ASSUME NEW i \in 1 .. Len(answers') PROVE answers[1].ask < answers'[i].ask
    BY <1>1, <1>2, <1>3 DEF InOrder
  <1>5. \A i \in 1 .. Len(requests) : answers[1].ask < requests[i].ask
    BY <1>2 DEF InOrder
  <1>6. ASSUME NEW i \in 1 .. Len(answers'), NEW j \in 1 .. Len(answers'), i < j
        PROVE  answers'[i].ask < answers'[j].ask
    <2>1. i + 1 < j + 1
      BY <1>1, <1>6
    <2> QED
      BY <1>1, <2>1 DEF InOrder
  <1>7. ASSUME NEW i \in 1 .. Len(answers'), NEW j \in 1 .. Len(requests)
        PROVE  answers'[i].ask < requests[j].ask
    BY <1>1 DEF InOrder
  <1>8. InOrder'
    BY <1>6, <1>7 DEF InOrder
  <1> QED
    BY <1>1, <1>2, <1>4, <1>5, <1>8

\* Taking the next request away leaves the others, which were asked later.
LEMMA NextRequestGone ==
  ASSUME TypeOK, InOrder, requests # <<>>, requests' = Tail(requests), answers' = answers
  PROVE  /\ InOrder'
         /\ \A i \in 1 .. Len(requests') :
                i + 1 \in 1 .. Len(requests) /\ requests'[i] = requests[i + 1]
PROOF
  <1>1. \A i \in 1 .. Len(requests') :
          requests'[i] = requests[i + 1] /\ i + 1 \in 1 .. Len(requests)
    BY HeadAndTail DEF TypeOK
  <1>1a. Len(requests') \in Nat
    BY HeadAndTail DEF TypeOK
  <1>2. ASSUME NEW i \in 1 .. Len(requests'), NEW j \in 1 .. Len(requests'), i < j
        PROVE  requests'[i].ask < requests'[j].ask
    <2>1. i + 1 < j + 1
      BY <1>1a, <1>2
    <2> QED
      BY <1>1, <2>1 DEF InOrder
  <1>3. ASSUME NEW i \in 1 .. Len(answers), NEW j \in 1 .. Len(requests')
        PROVE  answers[i].ask < requests'[j].ask
    BY <1>1 DEF InOrder
  <1>4. InOrder'
    BY <1>2, <1>3 DEF InOrder
  <1> QED
    BY <1>1, <1>4

\* The answer that Take takes belongs to the request being waited for, or,
\* while the walk waits for its first word, to the bulk read; in any case it
\* brings what the word asked for held during the read.
LEMMA TakenAnswer ==
  ASSUME IInv, Take
  PROVE  LET answer == Head(answers)
         IN  /\ Reading /\ InOrder /\ Underway /\ Walked
             /\ answer.ask \in Nat /\ answer.ask <= ask
             /\ answer.first = Index
             /\ answer.ask = ask \/ (answer.ask = 0 /\ ask = 1)
             /\ answer.data \in Seq(Values) /\ Len(answer.data) \in Nat
             /\ Len(answer.data) >= 1
             /\ HeldFrom(Index, answer.data)
PROOF
  <1>1. TypeOK /\ Reading /\ InOrder /\ Underway /\ Walked /\ answers # <<>>
    BY DEF IInv, Take, WaitingReads
  <1>2. 1 \in 1 .. Len(answers) /\ Head(answers) = answers[1]
    BY <1>1, HeadAndTail DEF TypeOK
  <1>3. answers[1].ask \in Nat /\ answers[1].data \in Seq(Values)
    BY <1>1, <1>2, MessageTypes
  <1>4. /\ answers[1].ask <= ask /\ answers[1].first = PlaceOf(answers[1].ask)
        /\ Len(answers[1].data) >= 1 /\ HeldFrom(answers[1].first, answers[1].data)
    BY <1>1, <1>2 DEF Underway, WasAsked
  <1>5. answers[1].first = Index
    BY <1>2 DEF Take, MatchesRequest
  <1>6. First[register] \in Nat /\ ask \in Nat
    BY <1>1, IndexIsAddress DEF TypeOK
  <1>7. answers[1].ask = ask \/ (answers[1].ask = 0 /\ ask = 1)
    BY <1>3, <1>4, <1>5, <1>6 DEF PlaceOf, Index
  <1> QED
    BY <1>1, <1>2, <1>3, <1>4, <1>5, <1>7

\* The walk with the word that Take brings: one word longer, and every word of
\* it as it was during the read.
LEMMA WalkedOn ==
  ASSUME IInv, Take, ask > 0
  PROVE  LET walk == payload \o Prefix(Head(answers).data, 1)
         IN  walk \in Seq(Values) /\ Len(walk) = ask /\ HeldFrom(First[register], walk)
PROOF
  <1>0. /\ TypeOK /\ Reading /\ Walked
        /\ Head(answers).data \in Seq(Values) /\ Len(Head(answers).data) \in Nat
        /\ Len(Head(answers).data) >= 1 /\ HeldFrom(Index, Head(answers).data)
    BY TakenAnswer DEF IInv
  <1>1. ask \in Nat /\ First[register] \in Nat /\ Index = First[register] + ask - 1
    <2>1. ask \in Nat /\ First[register] \in Nat
      BY <1>0, IndexIsAddress DEF TypeOK
    <2> QED
      BY <2>1 DEF Index
  <1>w. PICK w : w = Prefix(Head(answers).data, 1)
    OBVIOUS
  <1>2. /\ w \in Seq(Values) /\ Len(w) = 1 /\ \E m \in held : w[1] = m[Index]
    <2>1. w \in Seq(Values) /\ Len(w) = 1 /\ \A i \in 1 .. 1 : w[i] = Head(answers).data[i]
      BY <1>0, <1>w, PrefixOf
    <2>2. w[1] = Head(answers).data[1]
      BY <2>1
    <2>3. \E m \in held : Head(answers).data[1] = m[Index + 1 - 1]
      BY <1>0 DEF HeldFrom
    <2>4. Index + 1 - 1 = Index
      BY <1>1
    <2> QED
      BY <2>1, <2>2, <2>3, <2>4
  <1>3. payload \in Seq(Values) /\ Len(payload) = ask - 1
    BY <1>0, <1>1 DEF TypeOK, Walked
  <1>v. PICK v : v = payload \o w
    OBVIOUS
  <1>4. /\ v \in Seq(Values) /\ Len(v) = ask
        /\ \A k \in 1 .. ask - 1 : v[k] = payload[k]
        /\ v[ask] = w[1]
    <2>1. /\ payload \o w \in Seq(Values)
          /\ Len(payload \o w) = Len(payload) + Len(w)
          /\ \A k \in 1 .. Len(payload) + Len(w) :
                (payload \o w)[k]
                    = IF k <= Len(payload) THEN payload[k] ELSE w[k - Len(payload)]
      BY <1>2, <1>3, ConcatProperties
    <2>2. /\ Len(payload) + Len(w) = ask /\ ask - Len(payload) = 1
          /\ \A k \in 1 .. ask - 1 : k \in 1 .. ask /\ k <= Len(payload)
          /\ ask \in 1 .. ask /\ ~(ask <= Len(payload))
      BY <1>1, <1>2, <1>3
    <2> QED
      BY <1>v, <2>1, <2>2
  <1>5. ASSUME NEW k \in 1 .. ask
        PROVE  \E m \in held : v[k] = m[First[register] + k - 1]
    <2>1. CASE k \in 1 .. ask - 1
      BY <1>0, <1>3, <1>4, <2>1 DEF Walked, HeldFrom
    <2>2. CASE k = ask
      BY <1>1, <1>2, <1>4, <2>2
    <2> QED
      BY <1>1, <2>1, <2>2
  <1>6. HeldFrom(First[register], v)
    BY <1>4, <1>5 DEF HeldFrom
  <1> QED
    BY <1>w, <1>v, <1>4, <1>6

\* Once the last request has been answered nothing is under way.
LEMMA LastAnswer ==
  ASSUME IInv, Take, Head(answers).ask = ask
  PROVE  Quiet'
PROOF
  <1>1. TypeOK /\ InOrder /\ Underway
    BY TakenAnswer DEF IInv
  <1>2. answers # <<>> /\ answers' = Tail(answers) /\ requests' = requests
    BY DEF Take
  <1>3. /\ Head(answers) = answers[1]
        /\ \A i \in 1 .. Len(answers') :
               i + 1 \in 1 .. Len(answers) /\ answers'[i] = answers[i + 1]
               /\ answers[1].ask < answers'[i].ask
        /\ \A i \in 1 .. Len(requests) : answers[1].ask < requests[i].ask
    BY <1>1, <1>2, NextAnswerGone
  <1>4. ask \in Nat
    BY <1>1 DEF TypeOK
  <1>5. ASSUME NEW i \in 1 .. Len(answers') PROVE FALSE
    <2>1. answers[i + 1].ask <= ask /\ ask < answers[i + 1].ask /\ answers[i + 1].ask \in Nat
      BY <1>1, <1>3, MessageTypes DEF Underway, WasAsked
    <2> QED
      BY <1>4, <2>1
  <1>6. ASSUME NEW i \in 1 .. Len(requests) PROVE FALSE
    <2>1. requests[i].ask <= ask /\ ask < requests[i].ask /\ requests[i].ask \in Nat
      BY <1>1, <1>3, MessageTypes DEF Underway, WasAsked
    <2> QED
      BY <1>4, <2>1
  <1>7. answers' = <<>>
    <2>1. answers' \in Seq(Answers)
      BY <1>1, <1>2, HeadAndTail DEF TypeOK
    <2>2. Len(answers') = 0
      BY <1>5, <2>1
    <2> QED
      BY <2>1, <2>2, EmptySeq
  <1>8. requests' = <<>>
    <2>1. requests \in Seq(Requests)
      BY <1>1 DEF TypeOK
    <2>2. Len(requests) = 0
      BY <1>6, <2>1
    <2> QED
      BY <1>2, <2>1, <2>2, EmptySeq
  <1> QED
    BY <1>7, <1>8 DEF Quiet

\* What stays under way when nothing is added stays what it was.
LEMMA FewerUnderway ==
  ASSUME Underway, register' = register, ask' = ask, waiting' = waiting, held' = held,
         \A i \in 1 .. Len(requests') :
             \E j \in 1 .. Len(requests) : requests'[i] = requests[j],
         \A i \in 1 .. Len(answers') :
             \E j \in 1 .. Len(answers) : answers'[i] = answers[j]
  PROVE  Underway'
PROOF
  <1>1. ASSUME NEW i \in 1 .. Len(requests') PROVE WasAsked(requests[i])'
    <2>1. PICK j \in 1 .. Len(requests) : requests'[i] = requests[j]
      OBVIOUS
    <2>2. WasAsked(requests[j])
      BY DEF Underway
    <2> QED
      BY <2>1, <2>2 DEF WasAsked, PlaceOf
  <1>2. ASSUME NEW i \in 1 .. Len(answers')
        PROVE  /\ WasAsked(answers[i])' /\ Len(answers'[i].data) >= 1
               /\ HeldFrom(answers[i].first, answers[i].data)'
    <2>1. PICK j \in 1 .. Len(answers) : answers'[i] = answers[j]
      OBVIOUS
    <2>2. /\ WasAsked(answers[j]) /\ Len(answers[j].data) >= 1
          /\ HeldFrom(answers[j].first, answers[j].data)
      BY DEF Underway
    <2>3. WasAsked(answers[i])'
      BY <2>1, <2>2 DEF WasAsked, PlaceOf
    <2>4. HeldFrom(answers[i].first, answers[i].data)'
      BY <2>1, <2>2 DEF HeldFrom
    <2> QED
      BY <2>1, <2>2, <2>3, <2>4
  <1> QED
    BY <1>1, <1>2 DEF Underway

\* The board and the link keep the invariant.
LEMMA BoardKeeps ==
  ASSUME IInv, clean',
         \/ \E a \in Addresses, v \in Values : Change(a, v)
         \/ \E n \in 0 .. Cardinality(Addresses) : Answer(n)
         \/ LoseRequest \/ LoseAnswer
  PROVE  LeftNothing' /\ (Reading' => InOrder' /\ Underway' /\ Walked')
PROOF
  <1> USE DEF Reading
  <1>0. /\ TypeOK /\ LeftNothing
        /\ Reading => InOrder /\ Underway /\ Walked
    BY DEF IInv
  <1>1. ASSUME NEW a \in Addresses, NEW v \in Values, Change(a, v)
        PROVE  LeftNothing' /\ (Reading' => InOrder' /\ Underway' /\ Walked')
    <2>1. /\ requests' = requests /\ answers' = answers /\ register' = register /\ ask' = ask
          /\ waiting' = waiting /\ payload' = payload /\ held \subseteq held' /\ memory' \in held'
      BY <1>1 DEF Change, linkVars, readVars
    <2>2. LeftNothing'
      BY <1>0, <2>1 DEF LeftNothing, Quiet
    <2>3. ASSUME Reading' PROVE InOrder' /\ Underway' /\ Walked'
      <3>1. InOrder /\ Underway /\ Walked
        BY <1>0, <2>1, <2>3
      <3>2. InOrder'
        BY <2>1, <3>1 DEF InOrder
      <3>3. Underway'
        BY <2>1, <3>1 DEF Underway, WasAsked, PlaceOf, HeldFrom
      <3>4. Walked'
        BY <2>1, <3>1 DEF Walked, HeldFrom
      <3> QED
        BY <3>2, <3>3, <3>4
    <2> QED
      BY <2>2, <2>3
  <1>2. ASSUME NEW n \in 0 .. Cardinality(Addresses), Answer(n)
        PROVE  LeftNothing' /\ (Reading' => InOrder' /\ Underway' /\ Walked')
    <2>1. /\ register' = register /\ ask' = ask /\ waiting' = waiting /\ payload' = payload
          /\ held' = held /\ memory' = memory /\ requests # <<>> /\ requests' = Tail(requests)
      BY <1>2 DEF Answer, readVars
    <2>2. Reading
      BY <1>0, <2>1 DEF LeftNothing, Quiet
    <2>3. InOrder /\ Underway /\ Walked
      BY <1>0, <2>2
    <2>4. /\ Len(requests) \in Nat /\ Len(requests) >= 1 /\ Head(requests) = requests[1]
          /\ 1 \in 1 .. Len(requests) /\ Len(requests') = Len(requests) - 1
          /\ \A i \in 1 .. Len(requests') :
                requests'[i] = requests[i + 1] /\ i + 1 \in 1 .. Len(requests)
      BY <1>0, <2>1, HeadAndTail DEF TypeOK
    <2>r. PICK r : r = requests[1]
      OBVIOUS
    <2>5. /\ r \in Requests /\ r.first \in Nat /\ r.words \in Nat \ {0} /\ WasAsked(r)
      BY <1>0, <2>3, <2>4, <2>r, MessageTypes DEF Underway
    <2>d. PICK d : d = [k \in 1 .. n |-> memory[r.first + k - 1]]
      OBVIOUS
    <2>a. PICK a : a = [first |-> r.first, data |-> d, ask |-> r.ask]
      OBVIOUS
    <2>6. answers' = Append(answers, a) /\ n <= r.words /\ n > 0
      BY <1>2, <2>4, <2>r, <2>d, <2>a DEF Answer
    <2>7. n \in Nat /\ 1 <= n /\ n <= r.words
      BY <2>5, <2>6
    <2>8. d \in Seq(Values) /\ Len(d) = n /\ \A k \in 1 .. n : d[k] = memory[r.first + k - 1]
      <3>1. ASSUME NEW k \in 1 .. n PROVE memory[r.first + k - 1] \in Values
        <4>1. r.first + k - 1 \in r.first .. r.first + r.words - 1
          BY <2>5, <2>7
        <4>2. r.first + k - 1 \in Addresses
          BY <2>5, <4>1 DEF Requests
        <4> QED
          BY <1>0, <4>2 DEF TypeOK
      <3>2. d \in [1 .. n -> Values]
        BY <2>d, <3>1
      <3> QED
        BY <2>7, <2>d, <3>2
    <2>9. a.first = r.first /\ a.data = d /\ a.ask = r.ask /\ a \in Answers
      BY <2>a, <2>5, <2>8 DEF Answers, Requests
    <2>10. /\ Len(answers') = Len(answers) + 1 /\ Len(answers) \in Nat
           /\ answers'[Len(answers) + 1] = a
           /\ \A i \in 1 .. Len(answers) : answers'[i] = answers[i]
      BY <1>0, <2>6, <2>9, Appended DEF TypeOK
    <2>l. PICK l \in Nat : l = Len(answers)
      BY <2>10
    <2>11. InOrder'
      <3>1. ASSUME NEW i \in 1 .. Len(answers'), NEW j \in 1 .. Len(answers'), i < j
            PROVE  answers'[i].ask < answers'[j].ask
        <4>1. i \in 1 .. l
          BY <2>10, <2>l, <3>1
        <4>2. CASE j \in 1 .. l
          BY <2>3, <2>10, <2>l, <3>1, <4>1, <4>2 DEF InOrder
        <4>3. CASE j = l + 1
          BY <2>3, <2>4, <2>9, <2>10, <2>l, <2>r, <4>1, <4>3 DEF InOrder
        <4> QED
          BY <2>10, <2>l, <4>2, <4>3
      <3>2. ASSUME NEW i \in 1 .. Len(requests'), NEW j \in 1 .. Len(requests'), i < j
            PROVE  requests'[i].ask < requests'[j].ask
        <4>1. i + 1 < j + 1
          BY <2>4, <3>2
        <4> QED
          BY <2>3, <2>4, <4>1 DEF InOrder
      <3>3. ASSUME NEW i \in 1 .. Len(answers'), NEW j \in 1 .. Len(requests')
            PROVE  answers'[i].ask < requests'[j].ask
        <4>1. CASE i \in 1 .. l
          BY <2>3, <2>4, <2>10, <2>l, <4>1 DEF InOrder
        <4>2. CASE i = l + 1
          <5>1. 1 < j + 1
            BY <2>4
          <5> QED
            BY <2>3, <2>4, <2>9, <2>10, <2>l, <2>r, <4>2, <5>1 DEF InOrder
        <4> QED
          BY <2>10, <2>l, <4>1, <4>2
      <3> QED
        BY <3>1, <3>2, <3>3 DEF InOrder
    <2>12. Underway'
      <3>1. ASSUME NEW i \in 1 .. Len(requests') PROVE WasAsked(requests[i])'
        BY <2>1, <2>3, <2>4 DEF Underway, WasAsked, PlaceOf
      <3>2. ASSUME NEW i \in 1 .. Len(answers')
            PROVE  /\ WasAsked(answers[i])'
                   /\ Len(answers'[i].data) >= 1
                   /\ HeldFrom(answers[i].first, answers[i].data)'
        <4>1. CASE i \in 1 .. l
          <5>1. answers'[i] = answers[i] /\ i \in 1 .. Len(answers)
            BY <2>10, <2>l, <4>1
          <5>2. /\ WasAsked(answers[i]) /\ Len(answers[i].data) >= 1
                /\ HeldFrom(answers[i].first, answers[i].data)
            BY <2>3, <5>1 DEF Underway
          <5> QED
            BY <2>1, <5>1, <5>2 DEF WasAsked, PlaceOf, HeldFrom
        <4>2. CASE i = l + 1
          <5>1. answers'[i] = a
            BY <2>10, <2>l, <4>2
          <5>2. WasAsked(a)'
            BY <2>1, <2>5, <2>9 DEF WasAsked, PlaceOf
          <5>3. Len(a.data) >= 1
            BY <2>7, <2>8, <2>9
          <5>4. HeldFrom(a.first, a.data)'
            BY <2>1, <2>3, <2>8, <2>9 DEF HeldFrom, Walked
          <5> QED
            BY <5>1, <5>2, <5>3, <5>4 DEF WasAsked, HeldFrom
        <4> QED
          BY <2>10, <2>l, <4>1, <4>2
      <3> QED
        BY <3>1, <3>2 DEF Underway, WasAsked, HeldFrom
    <2>13. Walked'
      BY <2>1, <2>3 DEF Walked, HeldFrom
    <2>14. LeftNothing'
      BY <2>1, <2>2 DEF LeftNothing
    <2> QED
      BY <2>11, <2>12, <2>13, <2>14
  <1>3. ASSUME LoseRequest
        PROVE  LeftNothing' /\ (Reading' => InOrder' /\ Underway' /\ Walked')
    <2>1. /\ register' = register /\ ask' = ask /\ waiting' = waiting /\ payload' = payload
          /\ held' = held /\ memory' = memory /\ answers' = answers
          /\ requests # <<>> /\ requests' = Tail(requests)
      BY <1>3 DEF LoseRequest, readVars
    <2>2. Reading /\ InOrder /\ Underway /\ Walked
      BY <1>0, <2>1 DEF LeftNothing, Quiet
    <2>3. /\ InOrder'
          /\ \A i \in 1 .. Len(requests') :
                i + 1 \in 1 .. Len(requests) /\ requests'[i] = requests[i + 1]
      BY <1>0, <2>1, <2>2, NextRequestGone
    <2>4. Underway'
      BY <2>1, <2>2, <2>3, FewerUnderway
    <2>5. Walked'
      BY <2>1, <2>2 DEF Walked, HeldFrom
    <2> QED
      BY <2>1, <2>2, <2>3, <2>4, <2>5 DEF LeftNothing
  <1>4. ASSUME LoseAnswer
        PROVE  LeftNothing' /\ (Reading' => InOrder' /\ Underway' /\ Walked')
    <2>1. /\ register' = register /\ ask' = ask /\ waiting' = waiting /\ payload' = payload
          /\ held' = held /\ memory' = memory /\ requests' = requests
          /\ answers # <<>> /\ answers' = Tail(answers)
      BY <1>4 DEF LoseAnswer, readVars
    <2>2. Reading /\ InOrder /\ Underway /\ Walked
      BY <1>0, <2>1 DEF LeftNothing, Quiet
    <2>3. /\ InOrder'
          /\ \A i \in 1 .. Len(answers') :
                i + 1 \in 1 .. Len(answers) /\ answers'[i] = answers[i + 1]
      BY <1>0, <2>1, <2>2, NextAnswerGone
    <2>4. Underway'
      BY <2>1, <2>2, <2>3, FewerUnderway
    <2>5. Walked'
      BY <2>1, <2>2 DEF Walked, HeldFrom
    <2> QED
      BY <2>1, <2>2, <2>3, <2>4, <2>5 DEF LeftNothing
  <1> QED
    BY <1>1, <1>2, <1>3, <1>4

\* A read that begins with nothing under way.
LEMMA BeginKeeps ==
  ASSUME TypeOK', WaitingReads', clean', NEW r \in Registers, Begin(r)
  PROVE  IInv'
PROOF
  <1>1. /\ requests' = <<>> /\ answers' = <<>> /\ register' = r /\ ask' = 0
        /\ payload' = <<>> /\ held' = {memory} /\ memory' = memory
    BY DEF Begin, Quiet, linkVars
  <1>2. Len(requests') = 0 /\ Len(answers') = 0 /\ Len(payload') = 0
    BY <1>1
  <1>3. InOrder'
    BY <1>2 DEF InOrder
  <1>4. Underway'
    BY <1>2 DEF Underway
  <1>5. Walked'
    BY <1>1, <1>2 DEF Walked, HeldFrom
  <1>6. Reading'
    BY <1>1, RegisterReadAssumption DEF Reading
  <1> QED
    BY <1>3, <1>4, <1>5, <1>6 DEF LeftNothing, IInv

\* A read asks and raises with nothing of another read under way.
LEMMA AskingKeeps ==
  ASSUME IInv, TypeOK', clean',
         \/ Reconnect
         \/ Ask \/ WriteFails \/ TimeOut \/ TimeOutBulk
  PROVE  LeftNothing' /\ (Reading' => InOrder' /\ Underway' /\ Walked')
PROOF
  <1>0. /\ TypeOK /\ LeftNothing
        /\ Reading => InOrder /\ Underway /\ Walked
    BY DEF IInv
  <1>1. ASSUME Reconnect
        PROVE  LeftNothing' /\ (Reading' => InOrder' /\ Underway' /\ Walked')
    BY <1>1 DEF Reconnect, LeftNothing, Quiet, Reading, readVars
  <1>3. ASSUME Ask
        PROVE  LeftNothing' /\ (Reading' => InOrder' /\ Underway' /\ Walked')
    <2>1. /\ Reading /\ ~waiting /\ waiting' = TRUE /\ memory' = memory /\ answers' = answers
          /\ register' = register /\ ask' = ask /\ payload' = payload /\ held' = held
      BY <1>3 DEF Ask
    <2>2. InOrder /\ Underway /\ Walked
      BY <1>0, <2>1
    <2>m. PICK m : m = [first |-> Index,
                        words |-> IF ask = 0 THEN Words[register] ELSE 1,
                        ask |-> ask]
      OBVIOUS
    <2>l. PICK l \in Nat : l = Len(requests)
      BY <1>0, MessageTypes
    <2>3. requests' = Append(requests, m)
      BY <1>3, <2>m DEF Ask
    <2>4. m.first = PlaceOf(ask) /\ m.ask = ask
      BY <2>m DEF Index, PlaceOf
    <2>5. /\ Len(requests') = l + 1 /\ requests'[l + 1] = m
          /\ \A i \in 1 .. l : requests'[i] = requests[i]
      BY <1>0, <2>3, <2>l DEF TypeOK
    <2>6. /\ \A i \in 1 .. l : requests[i].ask < ask
          /\ \A i \in 1 .. Len(answers) : answers[i].ask < ask
      BY <2>1, <2>2, <2>l DEF Underway, WasAsked
    <2>7. InOrder'
      <3>1. ASSUME NEW i \in 1 .. l + 1, NEW j \in 1 .. l + 1, i < j
            PROVE  requests'[i].ask < requests'[j].ask
        <4>1. i \in 1 .. l
          BY <3>1
        <4>2. CASE j \in 1 .. l
          BY <2>2, <2>5, <2>l, <3>1, <4>1, <4>2 DEF InOrder
        <4>3. CASE j = l + 1
          BY <2>4, <2>5, <2>6, <4>1, <4>3
        <4> QED
          BY <4>2, <4>3
      <3>2. ASSUME NEW i \in 1 .. Len(answers), NEW j \in 1 .. l + 1
            PROVE  answers[i].ask < requests'[j].ask
        <4>1. CASE j \in 1 .. l
          BY <2>2, <2>5, <2>l, <4>1 DEF InOrder
        <4>2. CASE j = l + 1
          BY <2>4, <2>5, <2>6, <4>2
        <4> QED
          BY <4>1, <4>2
      <3> QED
        BY <2>1, <2>2, <2>5, <3>1, <3>2 DEF InOrder
    <2>8. Underway'
      <3>0. ask \in Nat
        BY <1>0 DEF TypeOK
      <3>1. ASSUME NEW i \in 1 .. l + 1 PROVE WasAsked(requests[i])'
        <4>1. CASE i \in 1 .. l
          BY <2>1, <2>2, <2>5, <2>l, <4>1 DEF Underway, WasAsked, PlaceOf
        <4>2. CASE i = l + 1
          BY <2>1, <2>4, <2>5, <3>0, <4>2 DEF WasAsked, PlaceOf
        <4> QED
          BY <4>1, <4>2
      <3>2. ASSUME NEW i \in 1 .. Len(answers)
            PROVE  /\ WasAsked(answers[i])' /\ Len(answers[i].data) >= 1
                   /\ HeldFrom(answers[i].first, answers[i].data)'
        BY <2>1, <2>2 DEF Underway, WasAsked, PlaceOf, HeldFrom
      <3> QED
        BY <2>1, <2>5, <3>1, <3>2 DEF Underway
    <2>9. Walked'
      BY <2>1, <2>2 DEF Walked, HeldFrom
    <2>10. Reading'
      BY <2>1 DEF Reading
    <2> QED
      BY <2>7, <2>8, <2>9, <2>10 DEF LeftNothing
  <1>4. ASSUME Raise
        PROVE  LeftNothing' /\ (Reading' => InOrder' /\ Underway' /\ Walked')
    BY <1>4 DEF Raise, LeftNothing, Quiet, Reading, linkVars
  <1>5. ASSUME TimeOutBulk
        PROVE  LeftNothing' /\ (Reading' => InOrder' /\ Underway' /\ Walked')
    <2>1. /\ Reading /\ ask = 0 /\ Words[register] > 1 /\ ask' = 1 /\ waiting' = FALSE
          /\ memory' = memory /\ requests' = requests /\ answers' = answers
          /\ register' = register /\ payload' = payload /\ held' = held
      BY <1>5 DEF TimeOutBulk, linkVars
    <2>2. InOrder /\ Underway /\ Walked
      BY <1>0, <2>1
    <2>3. InOrder'
      BY <2>1, <2>2 DEF InOrder
    <2>4. /\ \A i \in 1 .. Len(answers) : answers[i].ask \in Nat
          /\ \A i \in 1 .. Len(requests) : requests[i].ask \in Nat
      BY <1>0, MessageTypes
    <2>5. \A i \in 1 .. Len(answers) : answers[i].ask < 1 /\ answers[i].ask <= 1
      BY <2>1, <2>2, <2>4 DEF Underway, WasAsked
    <2>6. \A i \in 1 .. Len(requests) : requests[i].ask < 1 /\ requests[i].ask <= 1
      BY <2>1, <2>2, <2>4 DEF Underway, WasAsked
    <2>7. Underway'
      BY <2>1, <2>2, <2>5, <2>6 DEF Underway, WasAsked, PlaceOf, HeldFrom
    <2>8. Walked'
      <3>1. Words[register] # 1
        BY <2>1, IndexIsAddress, <1>0
      <3> QED
        BY <2>1, <2>2, <3>1 DEF Walked, HeldFrom
    <2> QED
      BY <2>1, <2>3, <2>7, <2>8 DEF LeftNothing, Reading
  <1> QED
    BY <1>1, <1>3, <1>4, <1>5 DEF WriteFails, TimeOut

\* Answers are taken or ignored; what a read returns was held during it.
LEMMA TakingKeeps ==
  ASSUME IInv, TypeOK', Ignore \/ TakeBulk \/ TakeShort \/ TakeWord \/ TakeLastWord
  PROVE  LeftNothing' /\ (Reading' => InOrder' /\ Underway' /\ Walked')
PROOF
  <1>0. /\ TypeOK /\ LeftNothing /\ WaitingReads
        /\ Reading => InOrder /\ Underway /\ Walked
    BY DEF IInv
  <1>1. ASSUME Ignore
        PROVE  LeftNothing' /\ (Reading' => InOrder' /\ Underway' /\ Walked')
    <2>1. /\ register' = register /\ ask' = ask /\ waiting' = waiting /\ payload' = payload
          /\ held' = held /\ memory' = memory /\ requests' = requests
          /\ answers # <<>> /\ answers' = Tail(answers) /\ Reading
      BY <1>0, <1>1 DEF Ignore, readVars, WaitingReads
    <2>2. InOrder /\ Underway /\ Walked
      BY <1>0, <2>1
    <2>3. /\ InOrder'
          /\ \A i \in 1 .. Len(answers') :
                i + 1 \in 1 .. Len(answers) /\ answers'[i] = answers[i + 1]
      BY <1>0, <2>1, <2>2, NextAnswerGone
    <2>4. Underway'
      BY <2>1, <2>2, <2>3, FewerUnderway
    <2>5. Walked'
      BY <2>1, <2>2 DEF Walked, HeldFrom
    <2>6. Reading'
      BY <2>1 DEF Reading
    <2> QED
      BY <2>3, <2>4, <2>5, <2>6 DEF LeftNothing
  <1>2. ASSUME TakeBulk PROVE Quiet' /\ ~Reading'
    <2>1. Take /\ ask = 0 /\ register' = NoRegister
      BY <1>2 DEF TakeBulk
    <2>2. Head(answers).ask \in Nat /\ Head(answers).ask <= 0
      BY <2>1, TakenAnswer
    <2>3. Head(answers).ask = ask
      BY <2>1, <2>2
    <2> QED
      BY <2>1, <2>3, LastAnswer DEF Reading
  <1>3. ASSUME TakeShort
        PROVE  Quiet' /\ Walked'
    <2>1. /\ Take /\ ask = 0 /\ register' = register /\ ask' = 1 /\ payload' = payload
          /\ Len(Head(answers).data) < Words[register]
          /\ memory' = memory /\ held' = held
      BY <1>3 DEF TakeShort, Take
    <2>2. /\ Head(answers).ask \in Nat /\ Head(answers).ask <= 0 /\ Reading /\ Walked
          /\ Len(Head(answers).data) \in Nat /\ Len(Head(answers).data) >= 1
      BY <2>1, TakenAnswer
    <2>3. Head(answers).ask = ask
      BY <2>1, <2>2
    <2>4. Words[register] # 1
      <3>1. Words[register] \in Nat
        BY <1>0, <2>2, IndexIsAddress
      <3> QED
        BY <2>1, <2>2, <3>1
    <2>5. Walked'
      BY <2>1, <2>2, <2>4 DEF Walked, HeldFrom
    <2> QED
      BY <2>1, <2>3, <2>5, LastAnswer
  <1>4. ASSUME TakeWord
        PROVE  Reading' /\ InOrder' /\ Underway' /\ Walked'
    <2>1. /\ Take /\ ask > 0 /\ ask < Words[register] /\ register' = register /\ ask' = ask + 1
          /\ payload' = payload \o Prefix(Head(answers).data, 1) /\ waiting' = FALSE
          /\ memory' = memory /\ held' = held /\ requests' = requests
          /\ answers # <<>> /\ answers' = Tail(answers)
      BY <1>4 DEF TakeWord, Take
    <2>2. Reading /\ InOrder /\ Underway /\ Walked
      BY <2>1, TakenAnswer
    <2>3. ask \in Nat /\ Words[register] \in Nat /\ First[register] \in Nat
      BY <1>0, <2>2, IndexIsAddress DEF TypeOK
    <2>4. /\ InOrder'
          /\ \A i \in 1 .. Len(answers') :
                i + 1 \in 1 .. Len(answers) /\ answers'[i] = answers[i + 1]
      BY <1>0, <2>1, <2>2, NextAnswerGone
    <2>5. Underway'
      <3>1. ASSUME NEW i \in 1 .. Len(requests') PROVE WasAsked(requests[i])'
        <4>1. requests[i].ask \in Nat /\ WasAsked(requests[i])
          BY <1>0, <2>1, <2>2, MessageTypes DEF Underway
        <4> QED
          BY <2>1, <2>3, <4>1 DEF WasAsked, PlaceOf
      <3>2. ASSUME NEW i \in 1 .. Len(answers')
            PROVE  /\ WasAsked(answers[i])' /\ Len(answers'[i].data) >= 1
                   /\ HeldFrom(answers[i].first, answers[i].data)'
        <4>1. /\ i + 1 \in 1 .. Len(answers) /\ answers'[i] = answers[i + 1]
          BY <2>4
        <4>2. /\ answers[i + 1].ask \in Nat /\ WasAsked(answers[i + 1])
              /\ Len(answers[i + 1].data) >= 1
              /\ HeldFrom(answers[i + 1].first, answers[i + 1].data)
          BY <1>0, <2>2, <4>1, MessageTypes DEF Underway
        <4>3. WasAsked(answers[i])'
          BY <2>1, <2>3, <4>1, <4>2 DEF WasAsked, PlaceOf
        <4>4. HeldFrom(answers[i].first, answers[i].data)'
          BY <2>1, <4>1, <4>2 DEF HeldFrom
        <4> QED
          BY <4>1, <4>2, <4>3, <4>4
      <3> QED
        BY <3>1, <3>2 DEF Underway
    <2>6. Walked'
      <3>1. Len(payload') = ask /\ HeldFrom(First[register], payload')
        BY <2>1, WalkedOn
      <3>6. Words[register] # 1 /\ ask' # 0 /\ ask' - 1 = ask
        BY <2>1, <2>3
      <3> QED
        BY <2>1, <2>2, <3>1, <3>6 DEF Walked, HeldFrom
    <2> QED
      BY <2>1, <2>2, <2>4, <2>5, <2>6 DEF Reading
  <1>5. ASSUME TakeLastWord PROVE Quiet' /\ ~Reading'
    <2>1. Take /\ ask > 0 /\ ask = Words[register] /\ register' = NoRegister
      BY <1>5 DEF TakeLastWord
    <2>2. Reading /\ Walked /\ (Head(answers).ask = ask \/ ask = 1)
      BY <2>1, TakenAnswer
    <2>3. ask # 1
      BY <2>1, <2>2 DEF Walked
    <2> QED
      BY <2>1, <2>2, <2>3, LastAnswer DEF Reading
  <1>6. ASSUME Quiet' PROVE LeftNothing' /\ InOrder' /\ Underway'
    <2>1. Len(requests') = 0 /\ Len(answers') = 0
      BY <1>6 DEF Quiet
    <2> QED
      BY <1>6, <2>1 DEF LeftNothing, InOrder, Underway
  <1> QED
    BY <1>1, <1>2, <1>3, <1>4, <1>5, <1>6 DEF LeftNothing

-----------------------------------------------------------------------------
\* Every step of a clean read keeps the invariant.
LEMMA CleanStep ==
  ASSUME IInv, clean', TypeOK', WaitingReads', [Next]_vars,
         ~(\E r \in Registers : Begin(r))
  PROVE  IInv'
PROOF
  <1>1. CASE \/ \E a \in Addresses, v \in Values : Change(a, v)
             \/ \E n \in 0 .. Cardinality(Addresses) : Answer(n)
             \/ LoseRequest \/ LoseAnswer
    BY <1>1, BoardKeeps DEF IInv
  <1>2. CASE Reconnect \/ Ask \/ WriteFails \/ TimeOut \/ TimeOutBulk
    BY <1>2, AskingKeeps DEF IInv
  <1>3. CASE Ignore \/ TakeBulk \/ TakeShort \/ TakeWord \/ TakeLastWord
    BY <1>3, TakingKeeps DEF IInv
  <1>4. CASE UNCHANGED vars
    <2>1. /\ requests' = requests /\ answers' = answers /\ register' = register /\ ask' = ask
          /\ waiting' = waiting /\ payload' = payload /\ held' = held /\ memory' = memory
      BY <1>4 DEF vars, linkVars, readVars
    <2>2. LeftNothing'
      BY <2>1 DEF IInv, LeftNothing, Quiet, Reading
    <2>3. Reading => InOrder' /\ Walked'
      BY <2>1 DEF IInv, InOrder, Walked, HeldFrom
    <2>4. Reading => Underway'
      BY <2>1, FewerUnderway DEF IInv
    <2> QED
      BY <2>1, <2>2, <2>3, <2>4 DEF Reading, IInv
  <1> QED
    BY <1>1, <1>2, <1>3, <1>4 DEF Next, Client

\* A read that is clean has been so since it began.
LEMMA StaysClean ==
  ASSUME [Next]_vars, clean', ~(\E r \in Registers : Begin(r))
  PROVE  clean
PROOF
  BY DEF Next, Client, vars, Change, Answer, LoseRequest, LoseAnswer, Reconnect, Ask,
         WriteFails, TimeOut, Raise, TimeOutBulk, Ignore, TakeBulk, TakeShort, TakeWord,
         TakeLastWord, Take

LEMMA InvariantStep == CleanInv /\ [Next]_vars => CleanInv'
PROOF
  <1> SUFFICES ASSUME CleanInv, [Next]_vars PROVE CleanInv'
    OBVIOUS
  <1>0. TypeOK' /\ WaitingReads'
    BY TypeStep DEF CleanInv
  <1>1. CASE \E r \in Registers : Begin(r)
    BY <1>0, <1>1, BeginKeeps DEF CleanInv
  <1>2. CASE ~(\E r \in Registers : Begin(r))
    BY <1>0, <1>2, StaysClean, CleanStep DEF CleanInv
  <1> QED
    BY <1>1, <1>2

LEMMA InvariantInit == Init => CleanInv
PROOF
  BY TypeInit DEF Init, CleanInv, IInv, LeftNothing, Quiet, Reading

\* A read that began with nothing under way, was never answered without data
\* and did not fail with its answer still to come leaves no answer behind: a
\* late answer to the bulk read is always used up by the walk that follows it
\* in _read_register.
THEOREM NoAnswerIsLeftBehind == Spec => []NothingLeftBehind
PROOF
  <1>1. CleanInv /\ [Next]_vars => CleanInv'
    BY InvariantStep
  <1>2. CleanInv => NothingLeftBehind
    BY DEF CleanInv, IInv, LeftNothing, NothingLeftBehind
  <1> QED
    BY <1>1, <1>2, InvariantInit, PTL DEF Spec

\* A read that returns does so with words held during the read, in their places.
LEMMA Returns ==
  ASSUME IInv, clean, TypeOK', TakeBulk \/ TakeLastWord
  PROVE  Regular!Return
PROOF
  <1>t. TypeOK /\ Take /\ Reading
    BY DEF IInv, TakeBulk, TakeLastWord, Take, WaitingReads
  <1>0. /\ Words[register] \in Nat \ {0} /\ First[register] \in Nat
        /\ Head(answers).data \in Seq(Values) /\ Len(Head(answers).data) \in Nat
        /\ HeldFrom(Index, Head(answers).data)
    BY <1>t, IndexIsAddress, TakenAnswer
  <1>1. register' = NoRegister /\ memory' = memory /\ clean' = clean
    BY DEF TakeBulk, TakeLastWord, Take
  <1>2. PICK s \in Seq(Values) :
          /\ result' = Prefix(s, Words[register]) /\ Words[register] <= Len(s)
          /\ HeldFrom(First[register], s)
    <2>1. CASE TakeBulk
      <3>1. /\ result' = Prefix(Head(answers).data, Words[register])
            /\ Words[register] <= Len(Head(answers).data) /\ ask = 0
        BY <1>0, <2>1 DEF TakeBulk
      <3>2. Index = First[register]
        BY <1>0, <3>1 DEF Index
      <3> QED
        BY <1>0, <3>1, <3>2
    <2>2. CASE TakeLastWord
      <3>1. /\ payload' = payload \o Prefix(Head(answers).data, 1)
            /\ result' = Prefix(payload', Words[register]) /\ ask = Words[register] /\ ask > 0
        BY <2>2 DEF TakeLastWord
      <3>2. payload' \in Seq(Values) /\ Len(payload') = ask /\ HeldFrom(First[register], payload')
        BY <1>t, <3>1, WalkedOn
      <3>3. Words[register] <= Len(payload')
        BY <1>0, <3>1, <3>2
      <3>4. result' = Prefix(payload', Words[register])
        BY <3>1
      <3> USE <3>2
      <3> WITNESS payload' \in Seq(Values)
      <3> QED
        BY <3>2, <3>3, <3>4
    <2> QED
      BY <2>1, <2>2
  <1>3. /\ result' \in Seq(Values) /\ Len(result') = Words[register]
        /\ \A k \in 1 .. Words[register] : result'[k] = s[k] /\ k \in 1 .. Len(s)
    BY <1>0, <1>2, PrefixOf
  <1>4. result' \in [1 .. Words[register] -> Values]
    BY <1>0, <1>3
  <1>5. \A k \in 1 .. Words[register] :
          \E m \in held : result'[k] = m[First[register] + k - 1]
    BY <1>2, <1>3 DEF HeldFrom
  <1>6. Regular!Held(result')
    BY <1>t, <1>5 DEF Regular!Held, OnClean
  <1> QED
    BY <1>t, <1>1, <1>4, <1>6 DEF Regular!Return, OnClean, Reading

\* A step of a clean read, or one that begins or spoils it, is a step of the
\* regular register, and one of another read none.
LEMMA RegularStep ==
  ASSUME CleanInv, [Next]_vars
  PROVE  [Regular!Next]_Regular!vars
PROOF
  <1> USE DEF Regular!vars, Regular!Next, OnClean
  <1>t. TypeOK' /\ WaitingReads' /\ TypeOK /\ WaitingReads
        /\ (clean => IInv /\ LeftNothing)
    BY TypeStep DEF CleanInv, IInv
  <1>1. ASSUME NEW a \in Addresses, NEW v \in Values, Change(a, v) PROVE Regular!Change
    BY <1>1, RegisterReadAssumption DEF Change, Regular!Change, readVars, Reading
  <1>2. ASSUME NEW n \in 0 .. Cardinality(Addresses), Answer(n)
        PROVE  Regular!Fail \/ UNCHANGED Regular!vars
    BY <1>2 DEF Answer, readVars, Regular!Fail, Reading
  <1>3. ASSUME LoseRequest \/ LoseAnswer \/ Reconnect \/ Ask \/ Ignore
        PROVE  UNCHANGED Regular!vars
    BY <1>3 DEF LoseRequest, LoseAnswer, Reconnect, Ask, Ignore, readVars, Reading
  <1>4. ASSUME NEW r \in Registers, Begin(r) PROVE Regular!Begin \/ Regular!Fail
    <2>1. /\ ~Reading /\ register' = r /\ result' = <<>> /\ held' = {memory}
          /\ memory' = memory /\ clean' = Quiet /\ r # NoRegister
      BY <1>4, RegisterReadAssumption DEF Begin
    <2>2. CASE Quiet
      BY <2>1, <2>2 DEF Regular!Begin, Reading
    <2>3. CASE ~Quiet
      BY <2>1, <2>3 DEF Regular!Fail, Reading
    <2> QED
      BY <2>2, <2>3
  <1>5. ASSUME WriteFails \/ TimeOut PROVE Regular!Fail \/ UNCHANGED Regular!vars
    <2>1. Raise /\ Reading
      BY <1>t, <1>5 DEF WriteFails, TimeOut
    <2>2. result = <<>>
      BY <1>t, <2>1 DEF WaitingReads
    <2> QED
      BY <2>1, <2>2 DEF Raise, Regular!Fail, Reading
  <1>6. ASSUME TakeBulk \/ TakeLastWord PROVE Regular!Return \/ UNCHANGED Regular!vars
    <2>1. CASE clean
      BY <1>6, <1>t, <2>1, Returns
    <2>2. CASE ~clean
      BY <1>6, <2>2 DEF TakeBulk, TakeLastWord, Take
    <2> QED
      BY <2>1, <2>2
  <1>7. ASSUME TakeShort \/ TakeWord \/ TimeOutBulk PROVE UNCHANGED Regular!vars
    BY <1>7 DEF TakeShort, TakeWord, TimeOutBulk, Take, Reading
  <1>8. CASE UNCHANGED vars
    BY <1>8 DEF vars, readVars, Reading
  <1> QED
    BY <1>1, <1>2, <1>3, <1>4, <1>5, <1>6, <1>7, <1>8 DEF Next, Client

\* RegisterRead implements RegularRegister: a clean read fails, or returns each
\* word as it was at some time since the read began.
THEOREM ReadImplementsRegular == Spec => RegularSpec
PROOF
  <1>1. Init => Regular!Init
    BY DEF Init, Regular!Init, OnClean, Reading
  <1>2. CleanInv /\ [Next]_vars => [Regular!Next]_Regular!vars
    BY RegularStep
  <1>3. CleanInv /\ [Next]_vars => CleanInv'
    BY InvariantStep
  <1> QED
    BY <1>1, <1>2, <1>3, InvariantInit, PTL DEF Spec, RegularSpec, Regular!Spec
=============================================================================
