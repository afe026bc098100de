----------------------------- MODULE TableProofs -----------------------------
(***************************************************************************)
(* Proofs about the two components that stand on the register table:       *)
(* Exchange, which reads and decodes registers byte by byte, and Entities, *)
(* which shows what they decode to.                                        *)
(***************************************************************************)
EXTENDS Entities, Exchange, SequenceTheorems, FiniteSetTheorems,
        WellFoundedInduction, TLAPS

(* Least and greatest numbers.  The finite subsets of Nat are well-founded *)
(* under inclusion, which gives the least number of a set, and with it an  *)
(* induction for what is defined by recursion here.                        *)

LEMMA LeastOf ==
  ASSUME NEW T, T \subseteq Nat, T # {}
  PROVE  \E m \in T : \A k \in T : m <= k
PROOF
  <1> DEFINE Below == {0 .. n : n \in T}
  <1>1. Below \subseteq FiniteSubsetsOf(Nat) /\ Below # {}
    <2>1. ASSUME NEW n \in T PROVE 0 .. n \in FiniteSubsetsOf(Nat)
      <3>1. n \in Int /\ 0 \in Int /\ 0 .. n \in SUBSET Nat
        OBVIOUS
      <3> QED
        BY <3>1, FS_Interval DEF FiniteSubsetsOf
    <2> QED
      BY <2>1
  <1>2. PICK x \in Below : \A y \in Below : ~ (<<y, x>> \in StrictSubsetOrdering(Nat))
    <2> HIDE DEF Below
    <2> QED
      BY <1>1, FS_StrictSubsetOrderingWellFounded, WFMin
  <1>3. PICK m \in T : x = 0 .. m
    OBVIOUS
  <1>4. ASSUME NEW k \in T, ~(m <= k) PROVE FALSE
    <2>1. 0 .. k \subseteq 0 .. m /\ m \in 0 .. m /\ m \notin 0 .. k
      BY <1>4
    <2>2. 0 .. k \in SUBSET Nat /\ 0 .. m \in SUBSET Nat
      OBVIOUS
    <2>3. <<0 .. k, 0 .. m>> \in StrictSubsetOrdering(Nat)
      BY <2>1, <2>2 DEF StrictSubsetOrdering
    <2> QED
      BY <1>2, <1>3, <2>3
  <1> QED
    BY <1>4

LEMMA GreatestOf ==
  ASSUME NEW T, T \subseteq Nat, T # {}, NEW N \in Nat, \A k \in T : k <= N
  PROVE  \E m \in T : \A k \in T : k <= m
PROOF
  <1>1. PICK d \in {N - k : k \in T} : \A e \in {N - k : k \in T} : d <= e
    <2>1. \A k \in T : N - k \in Nat
      OBVIOUS
    <2>2. {N - k : k \in T} \subseteq Nat /\ {N - k : k \in T} # {}
      BY <2>1
    <2> QED
      BY <2>2, LeastOf
  <1>2. PICK m \in T : d = N - m
    BY <1>1
  <1>3. ASSUME NEW k \in T PROVE k <= m
    <2>1. N - m <= N - k
      BY <1>1, <1>2
    <2> QED
      BY <2>1
  <1> QED
    BY <1>3

LEMMA MinOf ==
  ASSUME NEW T, T \subseteq Nat, T # {}
  PROVE  Min(T) \in T /\ \A k \in T : Min(T) <= k
PROOF
  BY LeastOf DEF Min

LEMMA MaxOf ==
  ASSUME NEW T, T \subseteq Nat, T # {}, NEW N \in Nat, \A k \in T : k <= N
  PROVE  Max(T) \in T /\ \A k \in T : k <= Max(T)
PROOF
  <1>1. \E m \in T : \A k \in T : m >= k
    BY GreatestOf
  <1> QED
    BY <1>1 DEF Max

-----------------------------------------------------------------------------
(* The register table.                                                     *)

NumberKeys ==
    {"battery_level", "battery_percent", "speed", "total_distance", "trip_distance",
     "remaining_range", "body_temperature", "battery_voltage", "battery_current",
     "battery_remaining_capacity", "battery_design_capacity", "battery_cycles",
     "battery_deep_discharges", "uptime", "max_power", "error_code", "warning_code",
     "gear_mode", "light_mode", "traction_control"}

\* What every row keeps to: its words lie on a board and an answer can hold
\* them, its length is the one its decoder takes, and the registers the entities
\* show decode to what those take.
Regular(r) ==
    /\ r.board \in {MCU, BMS, BLE} /\ r.index \in Nat
    /\ r.length \in 2 .. 255 /\ r.length % 2 = 0
    /\ r.index + r.length \div 2 <= 256
    /\ r.decode \in {"u16", "s16", "u32", "string", "hex", "version", "temperatures",
                     "cells", "bit0"}
    /\ r.decode \in {"u16", "s16", "version", "bit0"} => r.length = 2
    /\ r.decode \in {"u32", "temperatures"} => r.length = 4
    /\ r.key \in NumberKeys => r.decode \in {"u16", "s16", "u32"}
    /\ r.key = "locked" => r.decode = "bit0"
    /\ r.key = "battery_temperatures" => r.decode = "temperatures"
    /\ r.key = "cell_voltages" => r.decode = "cells"

LEMMA MCURows ==
  /\ Len(MCU_REGISTERS) = 23 /\ MCU_REGISTERS = [i \in 1 .. 23 |-> MCU_REGISTERS[i]]
  /\ \A i \in 1 .. 23 : Regular(MCU_REGISTERS[i])
PROOF
  BY SMTT(60) DEF MCU_REGISTERS, Regular, Row, MCU, BMS, BLE, NumberKeys

LEMMA BMSRows ==
  /\ Len(BMS_REGISTERS) = 15 /\ BMS_REGISTERS = [i \in 1 .. 15 |-> BMS_REGISTERS[i]]
  /\ \A i \in 1 .. 15 : Regular(BMS_REGISTERS[i])
PROOF
  BY SMTT(60) DEF BMS_REGISTERS, Regular, Row, MCU, BMS, BLE, NumberKeys

LEMMA BLERows ==
  /\ Len(BLE_REGISTERS) = 2 /\ BLE_REGISTERS = [i \in 1 .. 2 |-> BLE_REGISTERS[i]]
  /\ \A i \in 1 .. 2 : Regular(BLE_REGISTERS[i])
PROOF
  BY DEF BLE_REGISTERS, Regular, Row, MCU, BMS, BLE, NumberKeys

LEMMA Tabulated ==
  ASSUME NEW n \in Nat, NEW s, s = [i \in 1 .. n |-> s[i]], NEW T,
         \A i \in 1 .. n : s[i] \in T
  PROVE  s \in Seq(T)
PROOF
  OBVIOUS

LEMMA Joined ==
  ASSUME NEW T, NEW s \in Seq(T), NEW t \in Seq(T)
  PROVE  /\ s \o t \in Seq(T) /\ Len(s \o t) = Len(s) + Len(t)
         /\ \A i \in 1 .. Len(s) : (s \o t)[i] = s[i]
         /\ \A i \in 1 .. Len(t) : (s \o t)[Len(s) + i] = t[i]
PROOF
  <1>1. /\ s \o t \in Seq(T) /\ Len(s \o t) = Len(s) + Len(t)
        /\ \A i \in 1 .. Len(s) + Len(t) :
              (s \o t)[i] = IF i <= Len(s) THEN s[i] ELSE t[i - Len(s)]
    BY ConcatProperties
  <1>2. Len(s) \in Nat /\ Len(t) \in Nat
    BY LenProperties
  <1>3. \A i \in 1 .. Len(s) : i \in 1 .. Len(s) + Len(t) /\ i <= Len(s)
    BY <1>2
  <1>4. ASSUME NEW i \in 1 .. Len(t) PROVE (s \o t)[Len(s) + i] = t[i]
    <2>1. Len(s) + i \in 1 .. Len(s) + Len(t) /\ ~(Len(s) + i <= Len(s))
          /\ (Len(s) + i) - Len(s) = i
      BY <1>2
    <2> QED
      BY <1>1, <2>1
  <1> QED
    BY <1>1, <1>3, <1>4

\* The registers are the rows of the three boards.
LEMMA TableRows ==
  /\ \A r \in Registers : Regular(r)
  /\ \A i \in 1 .. 23 : MCU_REGISTERS[i] \in Registers
  /\ \A i \in 1 .. 15 : BMS_REGISTERS[i] \in Registers
PROOF
  <1>1. PICK T : T = {MCU_REGISTERS[i] : i \in 1 .. 23}
                       \union {BMS_REGISTERS[i] : i \in 1 .. 15}
                       \union {BLE_REGISTERS[i] : i \in 1 .. 2}
    OBVIOUS
  <1>2. MCU_REGISTERS \in Seq(T)
    BY <1>1, MCURows, Tabulated
  <1>3. BMS_REGISTERS \in Seq(T)
    BY <1>1, BMSRows, Tabulated
  <1>4. BLE_REGISTERS \in Seq(T)
    BY <1>1, BLERows, Tabulated
  <1>5. \A r \in T : Regular(r)
    BY <1>1, MCURows, BMSRows, BLERows
  <1>6. PICK two : two = MCU_REGISTERS \o BMS_REGISTERS
    OBVIOUS
  <1>7. /\ two \in Seq(T) /\ Len(two) = 38
        /\ \A i \in 1 .. 23 : two[i] = MCU_REGISTERS[i]
        /\ \A i \in 1 .. 15 : two[23 + i] = BMS_REGISTERS[i]
    BY <1>2, <1>3, <1>6, MCURows, BMSRows, Joined
  <1>8. PICK ble : ble = BLE_REGISTERS
    OBVIOUS
  <1>9. ble \in Seq(T) /\ Len(ble) = 2
    BY <1>4, <1>8, BLERows
  <1>10. PICK all : all = two \o ble
    OBVIOUS
  <1>11. /\ all \in Seq(T) /\ Len(all) = 40
        /\ \A i \in 1 .. 38 : all[i] = two[i]
    <2>1. two \in Seq(T) /\ Len(two) = 38
      BY <1>7
    <2>2. /\ all \in Seq(T)
          /\ Len(all) = Len(two) + Len(ble)
          /\ \A i \in 1 .. Len(two) : all[i] = two[i]
      <3>0. two \in Seq(T) /\ ble \in Seq(T)
        BY <1>9, <2>1
      <3>1. /\ two \o ble \in Seq(T) /\ Len(two \o ble) = Len(two) + Len(ble)
            /\ \A i \in 1 .. Len(two) : (two \o ble)[i] = two[i]
        BY <3>0, Joined
      <3> QED
        BY <1>10, <3>1, Zenon
    <2> QED
      BY <1>9, <2>1, <2>2
  <1>12. DOMAIN all = 1 .. 40 /\ \A i \in 1 .. 40 : all[i] \in T
    <2>1. all \in Seq(T) /\ Len(all) = 40
      BY <1>11
    <2>2. DOMAIN all = 1 .. 40
      BY <2>1, LenProperties
    <2>3. \A i \in 1 .. Len(all) : all[i] \in T
      BY <2>1, ElementOfSeq, Zenon
    <2> QED
      BY <2>1, <2>2, <2>3
  <1>13. Registers = {all[i] : i \in 1 .. 40}
    BY <1>6, <1>8, <1>10, <1>12 DEF Registers, REGISTERS
  <1>14. ASSUME NEW i \in 1 .. 38 PROVE two[i] \in Registers
    <2>1. i \in 1 .. 40
      BY <1>14
    <2>2. all[i] = two[i]
      BY <1>11, <1>14
    <2> QED
      BY <1>13, <2>1, <2>2
  <1>15. ASSUME NEW i \in 1 .. 23 PROVE MCU_REGISTERS[i] \in Registers
    <2>1. i \in 1 .. 38
      OBVIOUS
    <2> QED
      BY <1>7, <1>14, <2>1
  <1>16. ASSUME NEW i \in 1 .. 15 PROVE BMS_REGISTERS[i] \in Registers
    <2>1. 23 + i \in 1 .. 38
      OBVIOUS
    <2> QED
      BY <1>7, <1>14, <2>1
  <1> QED
    BY <1>5, <1>12, <1>13, <1>15, <1>16

LEMMA RegisterOfKey ==
  ASSUME NEW k \in Keys
  PROVE  RegisterOf(k) \in Registers /\ RegisterOf(k).key = k /\ Regular(RegisterOf(k))
PROOF
  <1>1. \E r \in Registers : r.key = k
    BY DEF Keys
  <1>2. RegisterOf(k) \in Registers /\ RegisterOf(k).key = k
    BY <1>1 DEF RegisterOf
  <1> QED
    BY <1>2, TableRows
-----------------------------------------------------------------------------
(* The decoders.                                                           *)

LEMMA LenEmpty == \A s : Len(s) # 0 => s # <<>>
PROOF
  <1>1. Len(<<>>) = 0
    BY EmptySeq
  <1> QED
    BY <1>1

\* A window of a sequence that lies within it.
LEMMA Window ==
  ASSUME NEW T, NEW s \in Seq(T), NEW m \in Nat, NEW n \in Nat, m + n <= Len(s)
  PROVE  /\ SubSeq(s, m + 1, m + n) \in Seq(T)
         /\ Len(SubSeq(s, m + 1, m + n)) = n
         /\ \A i \in 1 .. n : SubSeq(s, m + 1, m + n)[i] = s[m + i]
PROOF
  <1>1. Len(s) \in Nat
    BY LenProperties
  <1>2. \A i \in m + 1 .. m + n : i \in 1 .. Len(s)
    BY <1>1
  <1>3. \A i \in m + 1 .. m + n : s[i] \in T
    BY <1>2, ElementOfSeq
  <1>4. PICK w : w = SubSeq(s, m + 1, m + n)
    OBVIOUS
  <1>5. m + 1 \in Int /\ m + n \in Int
    OBVIOUS
  <1>6. /\ w \in Seq(T)
        /\ Len(w) = IF m + 1 <= m + n THEN (m + n) - (m + 1) + 1 ELSE 0
        /\ \A i \in 1 .. (m + n) - (m + 1) + 1 : w[i] = s[(m + 1) + i - 1]
    BY <1>3, <1>4, <1>5, SubSeqProperties
  <1>7. \A i \in 1 .. n : i \in 1 .. (m + n) - (m + 1) + 1 /\ (m + 1) + i - 1 = m + i
    OBVIOUS
  <1> QED
    BY <1>4, <1>6, <1>7

LEMMA WholeWord ==
  ASSUME NEW data \in Seq(Byte), NEW offset \in Nat, offset + 2 <= Len(data)
  PROVE  /\ WordAt(data, offset) \in Seq(Byte) /\ Len(WordAt(data, offset)) = 2
         /\ WordAt(data, offset)[1] = data[offset + 1]
         /\ WordAt(data, offset)[2] = data[offset + 2]
         /\ Little(WordAt(data, offset)) = data[offset + 1] + 256 * data[offset + 2]
PROOF
  <1>1. Len(data) \in Nat
    BY LenProperties
  <1>2. PICK w : w = WordAt(data, offset)
    OBVIOUS
  <1>3. w = SubSeq(data, offset + 1, offset + 2)
    BY <1>1, <1>2 DEF WordAt
  <1>4. /\ w \in Seq(Byte) /\ Len(w) = 2
        /\ \A i \in 1 .. 2 : w[i] = data[offset + i]
    BY <1>3, Window
  <1>5. w[1] = data[offset + 1] /\ w[2] = data[offset + 2]
    BY <1>4
  <1>6. w # <<>>
    <2>1. Len(w) # 0
      BY <1>4
    <2> QED
      BY <2>1, LenEmpty, Zenon
  <1>7. Little(w) = data[offset + 1] + 256 * data[offset + 2]
    BY <1>4, <1>5, <1>6 DEF Little
  <1> QED
    BY <1>2, <1>4, <1>5, <1>7

Words == 0 .. WORD_RANGE - 1

LEMMA WordOfBytes ==
  ASSUME NEW low \in 0 .. 255, NEW high \in 0 .. 255
  PROVE  low + 256 * high \in Words
PROOF
  <1>1. 256 * high <= 256 * 255
    OBVIOUS
  <1>2. PICK n \in Nat : n = low + 256 * high
    OBVIOUS
  <1>3. n <= 256 * 256 - 1
    BY <1>1, <1>2
  <1>4. n \in Words
    <2>1. PICK r \in Nat : r = WORD_RANGE
      BY DEF WORD_RANGE
    <2>2. n <= r - 1
      BY <1>3, <2>1 DEF WORD_RANGE
    <2>3. n \in 0 .. r - 1
      BY <2>2
    <2> QED
      BY <2>1, <2>3 DEF Words
  <1> QED
    BY <1>2, <1>4

LEMMA BytesOfWord ==
  ASSUME NEW x \in Words
  PROVE  /\ x % 256 \in 0 .. 255 /\ x \div 256 \in 0 .. 255
         /\ (x % 256) + 256 * (x \div 256) = x
PROOF
  <1>1. x \in Nat /\ x < 256 * 256
    BY SMTT(30) DEF Words, WORD_RANGE
  <1>2. x % 256 \in 0 .. 255 /\ x \div 256 \in Nat /\ x = 256 * (x \div 256) + (x % 256)
    BY <1>1
  <1>3. x \div 256 < 256
    BY <1>1, <1>2
  <1> QED
    BY <1>2, <1>3

\* A word that may lack bytes.
LEMMA LittleType ==
  ASSUME NEW w \in Seq(Byte), Len(w) <= 2
  PROVE  Little(w) \in Words
PROOF
  <1>1. PICK n \in Nat : n = Len(w)
    BY LenProperties
  <1>2. \A i \in 1 .. n : w[i] \in 0 .. 255
    BY <1>1, ElementOfSeq DEF Byte
  <1>3. n = 0 \/ n = 1 \/ n = 2
    BY <1>1
  <1>5. PICK low \in 0 .. 255 : low = IF w = <<>> THEN 0 ELSE w[1]
    <2>1. CASE w = <<>>
      BY <2>1
    <2>2. CASE w # <<>>
      <3>1. n # 0
        BY <1>1, <2>2, EmptySeq
      <3>2. w[1] \in 0 .. 255
        BY <1>2, <1>3, <3>1
      <3> QED
        BY <2>2, <3>2
    <2> QED
      BY <2>1, <2>2
  <1>6. PICK high \in 0 .. 255 :
            (IF Len(w) < 2 THEN 0 ELSE 256 * w[2]) = 256 * high
    <2>1. CASE n < 2
      BY <1>1, <2>1
    <2>2. CASE ~(n < 2)
      <3>1. w[2] \in 0 .. 255
        BY <1>2, <1>3, <2>2
      <3> QED
        BY <1>1, <2>2, <3>1
    <2> QED
      BY <2>1, <2>2
  <1>7. Little(w) = low + 256 * high
    BY <1>5, <1>6 DEF Little
  <1>8. low + 256 * high \in Words
    BY WordOfBytes, Zenon
  <1> QED
    BY <1>7, <1>8, Zenon

LEMMA WordType ==
  ASSUME NEW data \in Seq(Byte), NEW offset \in Nat
  PROVE  /\ WordAt(data, offset) \in Seq(Byte) /\ Len(WordAt(data, offset)) <= 2
         /\ Little(WordAt(data, offset)) \in Words
PROOF
  <1>1. Len(data) \in Nat
    BY LenProperties
  <1>2. PICK e : e = IF offset + 2 < Len(data) THEN offset + 2 ELSE Len(data)
    OBVIOUS
  <1>3. e \in Nat /\ e <= Len(data) /\ e <= offset + 2
    BY <1>1, <1>2
  <1>4. PICK w : w = WordAt(data, offset)
    OBVIOUS
  <1>5. w = SubSeq(data, offset + 1, e)
    BY <1>2, <1>4 DEF WordAt
  <1>6. \A i \in offset + 1 .. e : i \in 1 .. Len(data)
    BY <1>1, <1>3
  <1>7. \A i \in offset + 1 .. e : data[i] \in Byte
    BY <1>6, ElementOfSeq
  <1>8. /\ w \in Seq(Byte)
        /\ Len(w) = IF offset + 1 <= e THEN e - (offset + 1) + 1 ELSE 0
    <2>1. offset + 1 \in Int /\ e \in Int
      BY <1>3
    <2> QED
      BY <1>5, <1>7, <2>1, SubSeqProperties
  <1>9. Len(w) <= 2
    BY <1>3, <1>8
  <1> QED
    BY <1>4, <1>8, <1>9, LittleType

LEMMA WordsAreInts == Words \subseteq Nat /\ WORD_RANGE \in Nat
PROOF
  BY DEF Words, WORD_RANGE

LEMMA NumberType ==
  ASSUME NEW data \in Seq(Byte)
  PROVE  U16(data) \in Words /\ S16(data) \in Int /\ U32(data) \in Int
PROOF
  <1>1. PICK u \in Nat : u = U16(data)
    BY WordType, WordsAreInts DEF U16
  <1>2. PICK v \in Nat : v = Little(WordAt(data, 2))
    BY WordType, WordsAreInts
  <1>3. PICK range \in Nat :
            range = <<256, WORD_RANGE>>[IF Len(data) < 2 THEN 1 ELSE 2]
    BY WordsAreInts
  <1>4. S16(data) = IF u < range \div 2 THEN u ELSE u - range
    BY <1>1, <1>3 DEF S16
  <1>5. (IF u < range \div 2 THEN u ELSE u - range) \in Int
    BY <1>1, <1>3
  <1>6. U32(data) = u + WORD_RANGE * v
    BY <1>1, <1>2 DEF U32
  <1>7. u + WORD_RANGE * v \in Int
    BY <1>1, <1>2, WordsAreInts
  <1>8. U16(data) \in Words
    BY WordType DEF U16
  <1> QED
    BY <1>4, <1>5, <1>6, <1>7, <1>8

\* What a fold over a sequence yields at each length: the recursion of Kept
\* has a solution.
LEMMA KeptFolds ==
  ASSUME NEW T, NEW s \in Seq(T), NEW wanted
  PROVE  \E g : g = [n \in 0 .. Len(s) |->
                        IF n = 0 THEN <<>>
                        ELSE IF s[n] \in wanted THEN Append(g[n - 1], s[n]) ELSE g[n - 1]]
PROOF
  <1> DEFINE Step(g, n) ==
               IF n = 0 THEN <<>>
               ELSE IF s[n] \in wanted THEN Append(g[n - 1], s[n]) ELSE g[n - 1]
             Solves(g, k) == g \in [0 .. k -> Seq(T)] /\ \A n \in 0 .. k : g[n] = Step(g, n)
             m == Len(s)
             Bad == {k \in 0 .. m : ~ \E g : Solves(g, k)}
  <1>1. PICK L \in Nat : L = Len(s)
    BY LenProperties
  <1>2. m = L /\ m \in 0 .. L /\ m \in Nat
    BY <1>1
  <1>3. \A k \in 1 .. m : s[k] \in T
    BY <1>1, <1>2, ElementOfSeq
  <1>4. Solves([n \in 0 .. 0 |-> <<>>], 0)
    BY EmptySeq
  <1>5. ASSUME NEW k \in 1 .. m, NEW g, Solves(g, k - 1)
        PROVE  \E h : Solves(h, k)
    <2>1. PICK h : h = [n \in 0 .. k |-> IF n = k THEN Step(g, k) ELSE g[n]]
      OBVIOUS
    <2>2. Step(g, k) \in Seq(T)
      <3>1. k # 0 /\ k - 1 \in 0 .. k - 1 /\ g[k - 1] \in Seq(T) /\ s[k] \in T
        BY <1>3, <1>5
      <3>2. Append(g[k - 1], s[k]) \in Seq(T)
        BY <3>1, AppendProperties
      <3> QED
        BY <3>1, <3>2
    <2>3. ASSUME NEW n \in 0 .. k PROVE h[n] \in Seq(T) /\ h[n] = Step(h, n)
      <3>1. CASE n = k
        <4>1. k - 1 \in 0 .. k /\ k - 1 # k /\ k \in 0 .. k
          OBVIOUS
        <4>2. h[k] = Step(g, k) /\ h[k - 1] = g[k - 1]
          BY <2>1, <4>1
        <4>3. Step(h, k) = Step(g, k)
          BY <4>2
        <4> QED
          BY <2>2, <3>1, <4>2, <4>3
      <3>2. CASE n # k
        <4>1. n \in 0 .. k - 1 /\ (n # 0 => n - 1 \in 0 .. k /\ n - 1 # k)
          BY <3>2
        <4>2. h[n] = g[n] /\ (n # 0 => h[n - 1] = g[n - 1])
          BY <2>1, <3>2, <4>1
        <4>3. g[n] \in Seq(T) /\ g[n] = Step(g, n)
          BY <1>5, <4>1
        <4>4. Step(h, n) = Step(g, n)
          BY <4>2
        <4> QED
          BY <4>2, <4>3, <4>4
      <3> QED
        BY <3>1, <3>2
    <2>4. Solves(h, k)
      BY <2>1, <2>3
    <2> QED
      BY <2>4
  <1>6. Bad = {}
    <2>1. SUFFICES ASSUME Bad # {} PROVE FALSE
      OBVIOUS
    <2>2. Bad \subseteq Nat
      OBVIOUS
    <2>3. PICK k \in Bad : \A j \in Bad : k <= j
      <3> HIDE DEF Bad
      <3> QED
        BY <2>1, <2>2, LeastOf
    <2>4. k # 0
      BY <1>4
    <2>5. k \in 1 .. m /\ k - 1 \in 0 .. m /\ ~(k <= k - 1)
      BY <2>4
    <2>6. k - 1 \notin Bad
      BY <2>3, <2>5
    <2>7. \E g : Solves(g, k - 1)
      BY <2>5, <2>6
    <2> QED
      BY <1>5, <2>5, <2>7
  <1>7. PICK g : Solves(g, m)
    <2>1. m \in 0 .. m
      BY <1>2
    <2> QED
      BY <1>6, <2>1
  <1> QED
    BY <1>7

\* Whatever solves the recursion is a sequence at each length.
LEMMA KeptStaysTyped ==
  ASSUME NEW T, NEW s \in Seq(T), NEW wanted, NEW g,
         g = [n \in 0 .. Len(s) |->
                IF n = 0 THEN <<>>
                ELSE IF s[n] \in wanted THEN Append(g[n - 1], s[n]) ELSE g[n - 1]]
  PROVE  \A n \in 0 .. Len(s) : g[n] \in Seq(T)
PROOF
  <1>1. PICK L \in Nat : L = Len(s)
    BY LenProperties
  <1>2. PICK Bad : Bad = {n \in 0 .. L : g[n] \notin Seq(T)}
    OBVIOUS
  <1>3. g[0] \in Seq(T)
    <2>1. 0 \in 0 .. Len(s)
      BY <1>1
    <2>2. g[0] = <<>>
      BY <2>1
    <2> QED
      BY <2>2, EmptySeq
  <1>4. ASSUME NEW n \in 1 .. L, g[n - 1] \in Seq(T) PROVE g[n] \in Seq(T)
    <2>1. n \in 0 .. Len(s) /\ n # 0
      BY <1>1
    <2>2. g[n] = IF s[n] \in wanted THEN Append(g[n - 1], s[n]) ELSE g[n - 1]
      BY <2>1
    <2>3. s[n] \in T
      BY <1>1, ElementOfSeq
    <2>4. Append(g[n - 1], s[n]) \in Seq(T)
      BY <1>4, <2>3, AppendProperties
    <2> QED
      BY <1>4, <2>2, <2>4
  <1>5. Bad = {}
    <2>1. SUFFICES ASSUME Bad # {} PROVE FALSE
      OBVIOUS
    <2>2. Bad \subseteq Nat
      BY <1>2
    <2>3. PICK k \in Bad : \A j \in Bad : k <= j
      BY <2>1, <2>2, LeastOf
    <2>4. k # 0
      BY <1>2, <1>3
    <2>5. k \in 1 .. L /\ k - 1 \in 0 .. L /\ ~(k <= k - 1)
      BY <1>2, <2>4
    <2>6. k - 1 \notin Bad
      BY <2>3, <2>5
    <2>7. g[k - 1] \in Seq(T)
      BY <1>2, <2>5, <2>6
    <2> QED
      BY <1>2, <1>4, <2>5, <2>7
  <1> QED
    BY <1>1, <1>2, <1>5

\* What Kept computes is the end of that recursion.
LEMMA KeptIsFold ==
  ASSUME NEW T, NEW s \in Seq(T), NEW wanted
  PROVE  \E g :
           /\ g = [n \in 0 .. Len(s) |->
                     IF n = 0 THEN <<>>
                     ELSE IF s[n] \in wanted THEN Append(g[n - 1], s[n]) ELSE g[n - 1]]
           /\ Kept(s, wanted) = g[Len(s)]
PROOF
  <1> DEFINE Solves(g) == g = [n \in 0 .. Len(s) |->
                      IF n = 0 THEN <<>>
                      ELSE IF s[n] \in wanted THEN Append(g[n - 1], s[n]) ELSE g[n - 1]]
             kept == CHOOSE g : Solves(g)
  <1>1. \E g : Solves(g)
    BY KeptFolds, Zenon
  <1>2. Solves(kept)
    <2> HIDE DEF Solves
    <2> QED
      BY <1>1
  <1>3. Kept(s, wanted) = kept[Len(s)]
    BY DEF Kept
  <1>4. PICK k : k = kept
    OBVIOUS
  <1>5. Solves(k) /\ Kept(s, wanted) = k[Len(s)]
    <2> HIDE DEF kept
    <2> QED
      BY <1>2, <1>3, <1>4
  <1> QED
    BY <1>5

LEMMA KeptType ==
  ASSUME NEW T, NEW s \in Seq(T), NEW wanted
  PROVE  Kept(s, wanted) \in Seq(T)
PROOF
  <1>1. PICK g :
          /\ g = [n \in 0 .. Len(s) |->
                    IF n = 0 THEN <<>>
                    ELSE IF s[n] \in wanted THEN Append(g[n - 1], s[n]) ELSE g[n - 1]]
          /\ Kept(s, wanted) = g[Len(s)]
    BY KeptIsFold, Zenon
  <1>2. \A n \in 0 .. Len(s) : g[n] \in Seq(T)
    BY <1>1, KeptStaysTyped
  <1>3. Len(s) \in 0 .. Len(s)
    BY LenProperties
  <1> QED
    BY <1>1, <1>2, <1>3

\* When the wanted elements all come first, they are what is kept.
LEMMA KeptIsPrefix ==
  ASSUME NEW T, NEW s \in Seq(T), NEW wanted, NEW m \in 0 .. Len(s),
         \A k \in 1 .. m : s[k] \in wanted,
         \A k \in m + 1 .. Len(s) : s[k] \notin wanted
  PROVE  Kept(s, wanted) = SubSeq(s, 1, m)
PROOF
  <1>1. PICK L \in Nat : L = Len(s)
    BY LenProperties
  <1>2. PICK g :
          /\ g = [n \in 0 .. Len(s) |->
                    IF n = 0 THEN <<>>
                    ELSE IF s[n] \in wanted THEN Append(g[n - 1], s[n]) ELSE g[n - 1]]
          /\ Kept(s, wanted) = g[Len(s)]
    BY KeptIsFold, Zenon
  <1>3. PICK Bad : Bad = {n \in 0 .. L : g[n] # SubSeq(s, 1, IF n <= m THEN n ELSE m)}
    OBVIOUS
  <1>4. 0 \notin Bad
    <2>1. 0 \in 0 .. Len(s) /\ 0 <= m /\ 0 \in Int /\ 1 \in Int /\ 0 < 1
      BY <1>1
    <2>2. g[0] = <<>>
      BY <1>2, <2>1
    <2>3. SubSeq(s, 1, 0) = <<>>
      BY <2>1, SubSeqEmpty
    <2> QED
      BY <1>3, <2>1, <2>2, <2>3
  <1>5. ASSUME NEW n \in 1 .. L, n - 1 \notin Bad PROVE n \notin Bad
    <2>1. n - 1 \in 0 .. L /\ n \in 0 .. Len(s) /\ n # 0
      BY <1>1
    <2>2. g[n - 1] = SubSeq(s, 1, IF n - 1 <= m THEN n - 1 ELSE m)
      BY <1>3, <1>5, <2>1
    <2>3. g[n] = IF s[n] \in wanted THEN Append(g[n - 1], s[n]) ELSE g[n - 1]
      BY <1>2, <2>1
    <2>4. CASE n <= m
      <3>1. n - 1 <= m /\ n \in 1 .. m
        BY <2>4
      <3>2. g[n] = Append(SubSeq(s, 1, n - 1), s[n])
        BY <2>2, <2>3, <3>1
      <3>3. 1 \in 1 .. Len(s) /\ n \in 1 .. Len(s) /\ n - 1 \in Int /\ 1 \in Int
        BY <1>1
      <3>4. SubSeq(s, 1, n) = SubSeq(s, 1, n - 1) \o <<s[n]>>
        BY <3>3, SubSeqRecursiveSecond
      <3>5. s[n] \in T
        BY <3>3, ElementOfSeq
      <3>6. SubSeq(s, 1, n - 1) \in Seq(T)
        <4>1. \A i \in 1 .. n - 1 : i \in 1 .. Len(s)
          BY <1>1
        <4>2. \A i \in 1 .. n - 1 : s[i] \in T
          BY <4>1, ElementOfSeq
        <4> QED
          BY <3>3, <4>2, SubSeqProperties
      <3>7. Append(SubSeq(s, 1, n - 1), s[n]) = SubSeq(s, 1, n - 1) \o <<s[n]>>
        BY <3>5, <3>6, AppendIsConcat
      <3> QED
        BY <1>3, <2>4, <3>2, <3>4, <3>7
    <2>5. CASE ~(n <= m)
      <3>1. n \in m + 1 .. Len(s)
        BY <1>1, <2>5
      <3>2. g[n] = g[n - 1]
        BY <2>3, <3>1
      <3>3. (IF n - 1 <= m THEN n - 1 ELSE m) = m
        BY <1>1, <2>5
      <3>4. g[n] = SubSeq(s, 1, m)
        BY <2>2, <3>2, <3>3
      <3> QED
        BY <1>3, <2>5, <3>4
    <2> QED
      BY <2>4, <2>5
  <1>6. Bad = {}
    <2>1. SUFFICES ASSUME Bad # {} PROVE FALSE
      OBVIOUS
    <2>2. Bad \subseteq 0 .. L /\ Bad \subseteq Nat
      BY <1>3
    <2>3. PICK k \in Bad : \A j \in Bad : k <= j
      BY <2>1, <2>2, LeastOf
    <2>4. k \in 1 .. L /\ ~(k <= k - 1)
      <3>1. k \in 0 .. L /\ k # 0
        BY <1>4, <2>2
      <3> QED
        BY <3>1
    <2>5. k - 1 \notin Bad
      BY <2>3, <2>4
    <2> QED
      BY <1>5, <2>4, <2>5
  <1>7. g[L] = SubSeq(s, 1, IF L <= m THEN L ELSE m)
    BY <1>3, <1>6
  <1>8. (IF L <= m THEN L ELSE m) = m
    BY <1>1
  <1> QED
    BY <1>1, <1>2, <1>7, <1>8

LEMMA CellsType ==
  ASSUME NEW data \in Seq(Byte)
  PROVE  CellVoltages(data) \in Seq(Words)
PROOF
  <1>1. PICK h \in Nat : h = Len(data) \div 2
    BY LenProperties
  <1>2. PICK s : s = [k \in 1 .. h |-> Little(WordAt(data, 2 * (k - 1)))]
    OBVIOUS
  <1>3. ASSUME NEW k \in 1 .. h PROVE s[k] \in Words
    <2>1. 2 * (k - 1) \in Nat
      OBVIOUS
    <2>2. Little(WordAt(data, 2 * (k - 1))) \in Words
      BY <2>1, WordType
    <2> QED
      BY <1>2, <2>2
  <1>4. s = [k \in 1 .. h |-> s[k]]
    BY <1>2
  <1>5. s \in Seq(Words)
    BY <1>3, <1>4, Tabulated
  <1>6. CellVoltages(data) = Present(s)
    BY <1>1, <1>2 DEF CellVoltages
  <1> QED
    BY <1>5, <1>6, KeptType DEF Present

\* What the registers that the entities show decode to.
LEMMA ConvertType ==
  ASSUME NEW r, NEW data \in Seq(Byte), Converts(r, data)
  PROVE  /\ r.decode \in {"u16", "s16", "u32"} => Convert(r, data) \in Int
         /\ r.decode = "bit0" => Convert(r, data) \in BOOLEAN
         /\ r.decode = "temperatures" =>
              \E a, b \in Int : Convert(r, data) = <<a, b>>
         /\ r.decode = "cells" => Convert(r, data) \in Seq(Words)
PROOF
  <1>1. CASE r.decode \in {"u16", "s16", "u32"}
    <2>1. U16(data) \in Int /\ S16(data) \in Int /\ U32(data) \in Int
      <3>1. U16(data) \in Words /\ S16(data) \in Int /\ U32(data) \in Int
        BY NumberType
      <3>2. Words \subseteq Int
        BY WordsAreInts
      <3> QED
        BY <3>1, <3>2
    <2> QED
      BY <1>1, <2>1 DEF Convert
  <1>2. CASE r.decode = "bit0"
    BY <1>2 DEF Convert
  <1>3. CASE r.decode = "temperatures"
    <2>1. PICK n \in Nat : n = Len(data) /\ n >= 2
      BY <1>3, LenProperties DEF Converts
    <2>2. data[1] \in Byte /\ data[2] \in Byte
      <3>1. 1 \in 1 .. n /\ 2 \in 1 .. n
        BY <2>1
      <3> QED
        BY <2>1, <3>1, ElementOfSeq
    <2>3. data[1] - 20 \in Int /\ data[2] - 20 \in Int
      <3>1. \A x \in Byte : x - 20 \in Int
        BY DEF Byte
      <3> QED
        BY <2>2, <3>1
    <2>4. Convert(r, data) = <<data[1] - 20, data[2] - 20>>
      BY <1>3 DEF Convert, TemperaturePair
    <2> QED
      BY <1>3, <2>3, <2>4
  <1>4. CASE r.decode = "cells"
    <2>1. Convert(r, data) = CellVoltages(data)
      BY <1>4 DEF Convert
    <2> QED
      BY <1>4, <2>1, CellsType
  <1> QED
    BY <1>1, <1>2, <1>3, <1>4

LEMMA SummaryType ==
  ASSUME NEW cells \in Seq(Words), cells # <<>>, NEW stat \in {"min", "max", "delta"}
  PROVE  Summary(stat, cells) \in Int
PROOF
  <1>1. PICK n \in Nat : n = Len(cells) /\ n # 0
    BY EmptySeq, LenProperties
  <1>2. PICK volts : volts = {cells[i] : i \in DOMAIN cells}
    OBVIOUS
  <1>3. volts \subseteq Words /\ volts # {}
    <2>1. DOMAIN cells = 1 .. n
      BY <1>1, LenProperties
    <2>2. \A i \in 1 .. n : cells[i] \in Words
      BY <1>1, ElementOfSeq
    <2>3. 1 \in 1 .. n
      BY <1>1
    <2> QED
      BY <1>2, <2>1, <2>2, <2>3
  <1>4. volts \subseteq Nat
    BY <1>3, WordsAreInts
  <1>5. Min(volts) \in Nat
    BY <1>3, <1>4, MinOf
  <1>6. Max(volts) \in Nat
    <2>1. PICK most \in Nat : \A k \in Words : k <= most
      <3>1. PICK r \in Nat : r = WORD_RANGE
        BY WordsAreInts
      <3>2. \A k \in Words : k <= r
        BY <3>1 DEF Words
      <3> QED
        BY <3>2
    <2>2. \A k \in volts : k <= most
      BY <1>3, <2>1
    <2> QED
      BY <1>3, <1>4, <2>2, MaxOf
  <1>7. Max(volts) - Min(volts) \in Int
    BY <1>5, <1>6
  <1>8. Summary(stat, cells) \in {Min(volts), Max(volts), Max(volts) - Min(volts)}
    BY <1>2 DEF Summary
  <1> QED
    BY <1>5, <1>6, <1>7, <1>8
-----------------------------------------------------------------------------
(* Entities.                                                               *)

LEMMA InfoKeysAreKeys == InfoKeys \subseteq Keys
PROOF
  <1>1. /\ MCU_REGISTERS[1].key = "serial_number"
        /\ MCU_REGISTERS[2].key = "controller_firmware"
        /\ MCU_REGISTERS[8].key = "bms_firmware"
        /\ MCU_REGISTERS[9].key = "ble_firmware"
    BY DEF MCU_REGISTERS, Row
  <1>2. BMS_REGISTERS[1].key = "bms_serial_number"
    BY DEF BMS_REGISTERS, Row
  <1>3. /\ MCU_REGISTERS[1] \in Registers /\ MCU_REGISTERS[2] \in Registers
        /\ MCU_REGISTERS[8] \in Registers /\ MCU_REGISTERS[9] \in Registers
        /\ BMS_REGISTERS[1] \in Registers
    <2>1. 1 \in 1 .. 23 /\ 2 \in 1 .. 23 /\ 8 \in 1 .. 23 /\ 9 \in 1 .. 23 /\ 1 \in 1 .. 15
      OBVIOUS
    <2> QED
      BY <2>1, TableRows
  <1> QED
    BY <1>1, <1>2, <1>3 DEF InfoKeys, Keys

\* What was reported has kept a value since, and what is known of the scooter's
\* identity was taken from values.
ReportedHaveValues == \A k \in reported : values[k] # None
InfoIsOfValues == \A k \in InfoKeys : info.read[k] # None => values[k] # None

ShownInv == TypeOK /\ ReportedHaveValues /\ InfoIsOfValues /\ RawExplainsValue

LEMMA NothingShown ==
  /\ Nothing \in [Keys -> Fills \union {None}] /\ \A k \in Keys : Nothing[k] = None
  /\ NewInfo \in Infos /\ \A k \in InfoKeys : NewInfo.read[k] = None
PROOF
  BY DEF Nothing, NewInfo, Infos

LEMMA ShownInit == Init => ShownInv
PROOF
  <1> SUFFICES ASSUME Init PROVE ShownInv
    OBVIOUS
  <1>1. TypeOK
    BY NothingShown DEF Init, TypeOK
  <1>2. ReportedHaveValues /\ InfoIsOfValues
    BY NothingShown DEF Init, ReportedHaveValues, InfoIsOfValues
  <1>3. RawExplainsValue
    BY NothingShown DEF Init, RawExplainsValue, Diagnostics
  <1> QED
    BY <1>1, <1>2, <1>3 DEF ShownInv

\* A poll: what it read, and what of that decoded.
LEMMA PollShows ==
  ASSUME ShownInv, NEW fill \in Fills, NEW lost \in Losses, Poll(fill, lost)
  PROVE  ShownInv'
PROOF
  <1>1. PICK first \in BOOLEAN : first = (values = Nothing \/ ~linked)
    OBVIOUS
  <1>2. PICK read : read = (IF first THEN Keys ELSE DYNAMIC_REGISTERS) \ lost
    OBVIOUS
  <1>3. PICK decoded : decoded = Decodable(read, fill)
    OBVIOUS
  <1>4. /\ values' = Merge(values, decoded, fill) /\ raw' = Merge(raw, read, fill)
        /\ reported' = reported \union decoded
        /\ info' = IF first THEN BuildInfo(values', decoded, fill) ELSE info
        /\ linked' = TRUE /\ UNCHANGED <<loaded, heard, hardware>>
    BY <1>1, <1>2, <1>3 DEF Poll
  <1>5. read \subseteq Keys /\ decoded \subseteq read
        /\ \A k \in read :
              k \in decoded <=> Converts(RegisterOf(k), Payload(fill, RegisterOf(k)))
    BY <1>2, <1>3 DEF Decodable, DYNAMIC_REGISTERS
  <1>6. None # fill
    BY EntitiesAssumption
  <1>7. \A k \in Keys : /\ values'[k] = IF k \in decoded THEN fill ELSE values[k]
                        /\ raw'[k] = IF k \in read THEN fill ELSE raw[k]
    BY <1>4 DEF Merge
  <1>8. /\ values' \in [Keys -> Fills \union {None}]
        /\ raw' \in [Keys -> Fills \union {None}]
    BY <1>4 DEF Merge, ShownInv, TypeOK
  <1>9. info' \in Infos
    <2>1. CASE first
      <3>1. AdvertisedModel \in HardwareIds \union {DEFAULT_HARDWARE_ID}
        BY DEF AdvertisedModel, ShownInv, TypeOK
      <3>2. \A k \in InfoKeys : values'[k] \in Fills \union {None}
        BY <1>8, InfoKeysAreKeys
      <3> QED
        BY <1>4, <2>1, <3>1, <3>2 DEF BuildInfo, Infos
    <2>2. CASE ~first
      BY <1>4, <2>2 DEF ShownInv, TypeOK
    <2> QED
      BY <2>1, <2>2
  <1>10. ASSUME NEW k \in Keys, values'[k] # None
         PROVE  /\ raw'[k] # None
                /\ Converts(RegisterOf(k), Payload(values'[k], RegisterOf(k)))
    <2>1. CASE k \in decoded
      BY <1>5, <1>6, <1>7, <1>10, <2>1
    <2>2. CASE k \notin decoded
      BY <1>6, <1>7, <1>10, <2>2 DEF ShownInv, TypeOK
    <2> QED
      BY <2>1, <2>2
  <1>11. TypeOK'
    BY <1>4, <1>5, <1>8, <1>9, <1>10 DEF ShownInv, TypeOK
  <1>12. ReportedHaveValues'
    BY <1>4, <1>5, <1>6, <1>7 DEF ShownInv, TypeOK, ReportedHaveValues
  <1>13. InfoIsOfValues'
    <2> SUFFICES ASSUME NEW k \in InfoKeys, info'.read[k] # None PROVE values'[k] # None
      BY DEF InfoIsOfValues
    <2>1. k \in Keys
      BY InfoKeysAreKeys
    <2>2. CASE first
      BY <1>4, <2>2 DEF BuildInfo
    <2>3. CASE ~first
      BY <1>4, <1>6, <1>7, <2>1, <2>3 DEF ShownInv, InfoIsOfValues
    <2> QED
      BY <2>2, <2>3
  <1>14. RawExplainsValue'
    <2> SUFFICES ASSUME NEW k \in Keys, values'[k] # None,
                        Converts(RegisterOf(k), Payload(raw'[k], RegisterOf(k)))
                 PROVE  Get(k)' = Convert(RegisterOf(k), Payload(raw'[k], RegisterOf(k)))
      BY <1>10 DEF RawExplainsValue, Diagnostics
    <2>1. CASE k \in decoded
      <3>1. values'[k] = raw'[k]
        BY <1>5, <1>7, <2>1
      <3> QED
        BY <3>1 DEF Get
    <2>2. CASE k \notin decoded
      <3>1. k \notin read
        BY <1>5, <1>7, <2>2
      <3>2. values'[k] = values[k] /\ raw'[k] = raw[k]
        BY <1>7, <2>2, <3>1
      <3> QED
        BY <3>2 DEF ShownInv, RawExplainsValue, Diagnostics, Get
    <2> QED
      BY <2>1, <2>2
  <1> QED
    BY <1>11, <1>12, <1>13, <1>14 DEF ShownInv

LEMMA ShownStep == ShownInv /\ [Next]_vars => ShownInv'
PROOF
  <1> SUFFICES ASSUME ShownInv, [Next]_vars PROVE ShownInv'
    OBVIOUS
  <1>1. CASE SetUp
    <2>1. TypeOK'
      BY <1>1, NothingShown DEF SetUp, ShownInv, TypeOK
    <2>2. ReportedHaveValues' /\ InfoIsOfValues'
      BY <1>1, NothingShown DEF SetUp, ReportedHaveValues, InfoIsOfValues
    <2>3. RawExplainsValue'
      BY <1>1, NothingShown DEF SetUp, RawExplainsValue, Diagnostics
    <2> QED
      BY <2>1, <2>2, <2>3 DEF ShownInv
  <1>2. ASSUME NEW h \in HardwareIds \union {None}, Advertise(h) PROVE ShownInv'
    BY <1>2 DEF Advertise, ShownInv, TypeOK, ReportedHaveValues, InfoIsOfValues,
                RawExplainsValue, Diagnostics, Get
  <1>3. ASSUME NEW fill \in Fills, NEW lost \in Losses, Poll(fill, lost) PROVE ShownInv'
    BY <1>3, PollShows
  <1>4. CASE Unload \/ GoesQuiet \/ LinkDrop
    BY <1>4 DEF Unload, GoesQuiet, LinkDrop, ShownInv, TypeOK, ReportedHaveValues,
                InfoIsOfValues, RawExplainsValue, Diagnostics, Get
  <1>5. CASE UNCHANGED vars
    BY <1>5 DEF vars, ShownInv, TypeOK, ReportedHaveValues, InfoIsOfValues,
                RawExplainsValue, Diagnostics, Get
  <1> QED
    BY <1>1, <1>2, <1>3, <1>4, <1>5 DEF Next

LEMMA ShownHolds == Spec => []ShownInv
PROOF
  BY ShownInit, ShownStep, PTL DEF Spec

\* What is stored and shown has its type, and every value was decoded.
THEOREM EntitiesTypes == Spec => []TypeOK
PROOF
  <1>1. ShownInv => TypeOK
    BY DEF ShownInv
  <1> QED
    BY <1>1, ShownHolds, PTL

\* Whenever the raw payload that the diagnostics give of a register decodes, the
\* value beside it is what it decodes to.
THEOREM RawAlwaysExplainsValue == Spec => []RawExplainsValue
PROOF
  <1>1. ShownInv => RawExplainsValue
    BY DEF ShownInv
  <1> QED
    BY <1>1, ShownHolds, PTL

\* What a register that was reported is shown as.
LEMMA GetType ==
  ASSUME ShownInv, NEW k \in reported
  PROVE  /\ k \in Keys /\ values[k] # None /\ Regular(RegisterOf(k))
         /\ RegisterOf(k).key = k
         /\ RegisterOf(k).decode \in {"u16", "s16", "u32"} => Get(k) \in Int
         /\ RegisterOf(k).decode = "bit0" => Get(k) \in BOOLEAN
         /\ RegisterOf(k).decode = "temperatures" => \E a, b \in Int : Get(k) = <<a, b>>
         /\ RegisterOf(k).decode = "cells" => Get(k) \in Seq(Words)
PROOF
  <1>1. k \in Keys /\ values[k] # None
    BY DEF ShownInv, TypeOK, ReportedHaveValues
  <1>2. RegisterOf(k) \in Registers /\ RegisterOf(k).key = k /\ Regular(RegisterOf(k))
    BY <1>1, RegisterOfKey
  <1>3. values[k] \in Fills /\ Converts(RegisterOf(k), Payload(values[k], RegisterOf(k)))
    BY <1>1 DEF ShownInv, TypeOK
  <1>4. Payload(values[k], RegisterOf(k)) \in Seq(Byte)
    BY <1>2, <1>3, EntitiesAssumption
  <1>5. PICK data \in Seq(Byte) : data = Payload(values[k], RegisterOf(k))
    BY <1>4
  <1>6. PICK r : r = RegisterOf(k)
    OBVIOUS
  <1>7. Converts(r, data) /\ Get(k) = Convert(r, data)
    BY <1>3, <1>5, <1>6 DEF Get
  <1> QED
    BY <1>1, <1>2, <1>6, <1>7, ConvertType

PlainSensors == SENSORS \ (TemperatureSensors \union CellSensors)

LEMMA SensorKinds ==
  /\ \A s \in PlainSensors : s \in NumberKeys /\ ValueFn(s) = Value(s)
  /\ \A s \in TemperatureSensors : \E i \in {0, 1} : ValueFn(s) = Temperature(i)
  /\ \A s \in CellSensors : \E stat \in {"min", "max", "delta"} : ValueFn(s) = CellStat(stat)
  /\ "locked" \notin SENSORS /\ "problem" \notin SENSORS
PROOF
  <1>1. ASSUME NEW s \in PlainSensors PROVE s \in NumberKeys /\ ValueFn(s) = Value(s)
    BY <1>1 DEF PlainSensors, SENSORS, RideSensors, TemperatureSensors, BatterySensors,
             CellSensors, OtherSensors, NumberKeys, ValueFn
  <1>2. ASSUME NEW s \in TemperatureSensors
        PROVE  \E i \in {0, 1} : ValueFn(s) = Temperature(i)
    BY <1>2 DEF TemperatureSensors, ValueFn
  <1>3. ASSUME NEW s \in CellSensors
        PROVE  \E stat \in {"min", "max", "delta"} : ValueFn(s) = CellStat(stat)
    BY <1>3 DEF CellSensors, ValueFn
  <1>4. "locked" \notin SENSORS /\ "problem" \notin SENSORS
    BY DEF SENSORS, RideSensors, TemperatureSensors, BatterySensors, CellSensors, OtherSensors
  <1> QED
    BY <1>1, <1>2, <1>3, <1>4

LEMMA PlainShown ==
  ASSUME ShownInv, NEW s \in PlainSensors, s \in reported
  PROVE  NativeValue(s) # None
PROOF
  <1>1. s \in NumberKeys /\ ValueFn(s) = Value(s)
    BY SensorKinds
  <1>2. /\ values[s] # None
        /\ RegisterOf(s).decode \in {"u16", "s16", "u32"} /\ Get(s) \in Int
    BY <1>1, GetType DEF Regular
  <1>3. ValueFn(s).register = s /\ ValueFn(s).fn = "value"
    BY <1>1 DEF Value
  <1>4. RegisterOf(s).decode \notin Tuples
    BY <1>2 DEF Tuples
  <1>5. NativeValue(s) = Get(s)
    BY <1>2, <1>3, <1>4 DEF NativeValue
  <1> QED
    BY <1>2, <1>5, EntitiesAssumption

LEMMA TemperatureShown ==
  ASSUME ShownInv, NEW s \in TemperatureSensors, "battery_temperatures" \in reported
  PROVE  NativeValue(s) # None
PROOF
  <1>1. PICK i \in {0, 1} : ValueFn(s) = Temperature(i)
    BY SensorKinds
  <1>2. /\ ValueFn(s).register = "battery_temperatures"
        /\ ValueFn(s).fn = "temperature" /\ ValueFn(s).arg = i
    BY <1>1 DEF Temperature
  <1>3. /\ values["battery_temperatures"] # None
        /\ \E a, b \in Int : Get("battery_temperatures") = <<a, b>>
    BY GetType DEF Regular
  <1>4. PICK a \in Int, b \in Int : Get("battery_temperatures") = <<a, b>>
    BY <1>3
  <1>5. ~(i >= Len(<<a, b>>)) /\ <<a, b>>[i + 1] \in Int
    BY <1>1
  <1>6. NativeValue(s) = <<a, b>>[i + 1]
    BY <1>2, <1>3, <1>4, <1>5 DEF NativeValue
  <1> QED
    BY <1>5, <1>6, EntitiesAssumption

LEMMA CellShown ==
  ASSUME ShownInv, NEW s \in CellSensors, "cell_voltages" \in reported,
         Get("cell_voltages") # <<>>
  PROVE  NativeValue(s) # None
PROOF
  <1>1. PICK stat \in {"min", "max", "delta"} : ValueFn(s) = CellStat(stat)
    BY SensorKinds
  <1>2. /\ ValueFn(s).register = "cell_voltages"
        /\ ValueFn(s).fn = "cell" /\ ValueFn(s).arg = stat
    BY <1>1 DEF CellStat
  <1>3. values["cell_voltages"] # None /\ Get("cell_voltages") \in Seq(Words)
    BY GetType DEF Regular
  <1>4. Summary(stat, Get("cell_voltages")) \in Int
    BY <1>3, SummaryType
  <1>5. NativeValue(s) = Summary(stat, Get("cell_voltages"))
    BY <1>2, <1>3 DEF NativeValue
  <1> QED
    BY <1>4, <1>5, EntitiesAssumption

LEMMA LockShown ==
  ASSUME ShownInv, "locked" \in reported
  PROVE  IsOn("locked") # None
PROOF
  <1>1. values["locked"] # None /\ Get("locked") \in BOOLEAN
    BY GetType DEF Regular
  <1>2. IsOn("locked") \in BOOLEAN
    BY <1>1 DEF IsOn
  <1> QED
    BY <1>2, EntitiesAssumption

LEMMA ProblemShown ==
  ASSUME ShownInv, {"error_code", "warning_code"} \intersect reported # {}
  PROVE  IsOn("problem") # None
PROOF
  <1>1. values["error_code"] # None \/ values["warning_code"] # None
    BY DEF ShownInv, ReportedHaveValues
  <1>2. IsOn("problem") \in BOOLEAN
    BY <1>1 DEF IsOn, Truthy
  <1> QED
    BY <1>2, EntitiesAssumption

LEMMA ShownImplied == ShownInv => ShownOnceReported
PROOF
  <1> SUFFICES ASSUME ShownInv, loaded, heard,
                      NEW s \in SENSORS \union BINARY_SENSORS,
                      Sources(s) \intersect reported # {},
                      ~(s \in CellSensors /\ Get("cell_voltages") = <<>>)
               PROVE  Available(s)
    BY DEF ShownOnceReported
  <1>1. CASE s \in SENSORS
    <2>1. Sources(s) = {ValueFn(s).register} /\ ValueFn(s).register \in reported
      BY <1>1, SensorKinds DEF Sources
    <2>2. NativeValue(s) # None
      <3>1. CASE s \in PlainSensors
        <4>1. ValueFn(s).register = s
          BY <3>1, SensorKinds DEF Value
        <4> QED
          BY <2>1, <3>1, <4>1, PlainShown
      <3>2. CASE s \in TemperatureSensors
        <4>1. ValueFn(s).register = "battery_temperatures"
          BY <3>2, SensorKinds DEF Temperature
        <4> QED
          BY <2>1, <3>2, <4>1, TemperatureShown
      <3>3. CASE s \in CellSensors
        <4>1. ValueFn(s).register = "cell_voltages"
          BY <3>3, SensorKinds DEF CellStat
        <4> QED
          BY <2>1, <3>3, <4>1, CellShown
      <3> QED
        BY <1>1, <3>1, <3>2, <3>3 DEF PlainSensors
    <2> QED
      BY <1>1, <2>2 DEF Available
  <1>2. CASE s = "locked"
    <2>1. Sources(s) = {"locked"}
      BY <1>2, SensorKinds DEF Sources
    <2> QED
      BY <1>2, <2>1, LockShown, SensorKinds DEF Available
  <1>3. CASE s = "problem"
    <2>1. Sources(s) = {"error_code", "warning_code"}
      BY <1>3, SensorKinds DEF Sources
    <2> QED
      BY <1>3, <2>1, ProblemShown, SensorKinds DEF Available
  <1> QED
    BY <1>1, <1>2, <1>3 DEF BINARY_SENSORS

\* An entity of a scooter that is heard has something to show from the first
\* time its register was decoded on, whatever is read or lost later.
THEOREM ReportedIsShown == Spec => []ShownOnceReported
PROOF
  BY ShownHolds, ShownImplied, PTL

\* A poll on a new link takes what is known of the scooter's identity from the
\* merged state, so nothing of it is forgotten.
THEOREM IdentityKept == Spec => IdentityIsKept
PROOF
  <1>1. ShownInv /\ [Next]_vars =>
            [loaded /\ loaded' =>
               \A k \in InfoKeys : info.read[k] # None => info'.read[k] # None]_vars
    <2> SUFFICES ASSUME ShownInv, Next, loaded, loaded',
                        NEW k \in InfoKeys, info.read[k] # None
                 PROVE  info'.read[k] # None
      OBVIOUS
    <2>1. CASE SetUp \/ Unload \/ GoesQuiet \/ LinkDrop
      BY <2>1 DEF SetUp, Unload, GoesQuiet, LinkDrop
    <2>2. ASSUME NEW h \in HardwareIds \union {None}, Advertise(h)
          PROVE  info'.read[k] # None
      BY <2>2 DEF Advertise
    <2>3. ASSUME NEW fill \in Fills, NEW lost \in Losses, Poll(fill, lost)
          PROVE  info'.read[k] # None
      <3>1. PICK decoded : /\ values' = Merge(values, decoded, fill)
                           /\ info' = BuildInfo(values', decoded, fill) \/ info' = info
        BY <2>3 DEF Poll
      <3>2. k \in Keys /\ values[k] # None /\ fill # None
        BY InfoKeysAreKeys, EntitiesAssumption DEF ShownInv, InfoIsOfValues
      <3>3. values'[k] # None
        BY <3>1, <3>2 DEF Merge
      <3>4. CASE info' = BuildInfo(values', decoded, fill)
        BY <3>3, <3>4 DEF BuildInfo
      <3>5. CASE info' = info
        BY <3>5
      <3> QED
        BY <3>1, <3>4, <3>5
    <2> QED
      BY <2>1, <2>2, <2>3 DEF Next
  <1> QED
    BY <1>1, ShownHolds, PTL DEF Spec, IdentityIsKept
-----------------------------------------------------------------------------
(* Packets: a packet that is packed comes back when it is unpacked.        *)

LEMMA PackUnpacks ==
  ASSUME NEW s \in DeviceId, NEW t \in DeviceId, NEW c \in Command, NEW i \in Nat,
         NEW d \in Seq(Byte), Len(d) <= 255, NEW p,
         p = [source |-> s, target |-> t, command |-> c, index |-> i, data |-> d]
  PROVE  /\ Pack(p) # <<>> /\ Unpacks(Pack(p))
         /\ Unpack(Pack(p)) =
              [source |-> s, target |-> t, command |-> c, index |-> i % 256, data |-> d]
         /\ Unpack(Pack(p)) \in Received
PROOF
  <1>1. PICK n \in 0 .. 255 : n = Len(d)
    <2>1. PICK m \in Nat : m = Len(d)
      BY LenProperties
    <2>2. m <= 255
      BY <2>1
    <2>3. m \in 0 .. 255
      BY <2>2
    <2> QED
      BY <2>1, <2>3
  <1>2. PICK b \in Byte : b = i % 256
    <2>1. i % 256 \in 0 .. 255
      OBVIOUS
    <2> QED
      BY <2>1 DEF Byte
  <1>3. PICK head : head = <<90, 165>> \o <<n, s, t, c, b>>
    OBVIOUS
  <1>4. s \in Byte /\ t \in Byte /\ c \in Byte /\ n \in Byte /\ 90 \in Byte /\ 165 \in Byte
    BY DEF DeviceId, Command, Byte, MCU, BLE, BMS, HOST, PHONE, READ, WRITE,
           WRITE_NO_REPLY, READ_ACK, WRITE_ACK, INIT, PING, PAIR
  <1>5. /\ head \in Seq(Byte) /\ Len(head) = 7
        /\ head[1] = 90 /\ head[2] = 165 /\ head[3] = n /\ head[4] = s /\ head[5] = t
        /\ head[6] = c /\ head[7] = b
    <2>1. PICK magic : magic = <<90, 165>>
      OBVIOUS
    <2>2. PICK rest : rest = <<n, s, t, c, b>>
      OBVIOUS
    <2>3. magic \in Seq(Byte) /\ Len(magic) = 2 /\ magic[1] = 90 /\ magic[2] = 165
      BY <1>4, <2>1
    <2>4. /\ rest \in Seq(Byte) /\ Len(rest) = 5
          /\ rest[1] = n /\ rest[2] = s /\ rest[3] = t /\ rest[4] = c /\ rest[5] = b
      BY <1>4, <2>2
    <2>5. /\ magic \o rest \in Seq(Byte) /\ Len(magic \o rest) = Len(magic) + Len(rest)
          /\ \A k \in 1 .. Len(magic) : (magic \o rest)[k] = magic[k]
          /\ \A k \in 1 .. Len(rest) : (magic \o rest)[Len(magic) + k] = rest[k]
      <3>1. magic \in Seq(Byte) /\ rest \in Seq(Byte)
        BY <2>3, <2>4
      <3> QED
        BY <3>1, Joined
    <2>6. head = magic \o rest
      BY <1>3, <2>1, <2>2
    <2>7. /\ head \in Seq(Byte) /\ Len(head) = 2 + 5
          /\ \A k \in 1 .. 2 : head[k] = magic[k]
          /\ \A k \in 1 .. 5 : head[2 + k] = rest[k]
      <3>1. Len(magic) = 2 /\ Len(rest) = 5
        BY <2>3, <2>4
      <3> QED
        BY <2>5, <2>6, <3>1, Zenon
    <2> QED
      BY <2>3, <2>4, <2>7
  <1>6. head \in Seq(Byte) /\ Len(head) = 7
    BY <1>5
  <1>7. PICK packed : packed = head \o d
    OBVIOUS
  <1>8. packed = Pack(p)
    <2>1. /\ p.source = s /\ p.target = t /\ p.command = c /\ p.index % 256 = b
          /\ p.data = d /\ Len(p.data) = n
      BY <1>1, <1>2
    <2> QED
      BY <1>3, <1>7, <2>1, ZenonT(30) DEF Pack, PROTO2_MAGIC
  <1>9. /\ packed \in Seq(Byte) /\ Len(packed) = Len(head) + Len(d)
        /\ \A k \in 1 .. Len(head) : packed[k] = head[k]
        /\ \A k \in 1 .. Len(d) : packed[Len(head) + k] = d[k]
    <2>1. /\ head \o d \in Seq(Byte) /\ Len(head \o d) = Len(head) + Len(d)
          /\ \A k \in 1 .. Len(head) : (head \o d)[k] = head[k]
          /\ \A k \in 1 .. Len(d) : (head \o d)[Len(head) + k] = d[k]
      <3>1. head \in Seq(Byte) /\ d \in Seq(Byte)
        BY <1>6
      <3> QED
        BY <3>1, Joined
    <2> QED
      BY <1>7, <2>1, Zenon
  <1>10. /\ Len(packed) = 7 + n
         /\ packed[1] = 90 /\ packed[2] = 165 /\ packed[3] = n /\ packed[4] = s /\ packed[5] = t
         /\ packed[6] = c /\ packed[7] = b
    <2>1. /\ head[1] = 90 /\ head[2] = 165 /\ head[3] = n /\ head[4] = s /\ head[5] = t
          /\ head[6] = c /\ head[7] = b
      BY <1>5
    <2>2. \A k \in 1 .. 7 : packed[k] = head[k]
      BY <1>6, <1>9
    <2>3. /\ packed[1] = head[1] /\ packed[2] = head[2] /\ packed[3] = head[3] /\ packed[4] = head[4]
          /\ packed[5] = head[5] /\ packed[6] = head[6] /\ packed[7] = head[7]
      BY <2>2
    <2>4. Len(packed) = 7 + n
      BY <1>1, <1>6, <1>9, Zenon
    <2> QED
      BY <2>1, <2>3, <2>4, ZenonT(30)
  <1>11. SubSeq(packed, 1, 2) = <<90, 165>>
    <2>1. PICK w : w = SubSeq(packed, 0 + 1, 0 + 2)
      OBVIOUS
    <2>2. w \in Seq(Byte) /\ Len(w) = 2 /\ \A k \in 1 .. 2 : w[k] = packed[0 + k]
      <3>1. 0 \in Nat /\ 2 \in Nat /\ 0 + 2 <= Len(packed)
        BY <1>10
      <3> QED
        BY <1>9, <2>1, <3>1, Window
    <2>3. w[1] = 90 /\ w[2] = 165
      BY <1>10, <2>2
    <2>4. <<90, 165>> \in Seq(Byte) /\ Len(<<90, 165>>) = 2
      BY <1>4
    <2>5. w = <<90, 165>>
      BY <2>2, <2>3, <2>4, SeqEqual
    <2>6. 0 + 1 = 1 /\ 0 + 2 = 2
      OBVIOUS
    <2> QED
      BY <2>1, <2>5, <2>6
  <1>12. SubSeq(packed, 8, 7 + n) = d
    <2>1. PICK w : w = SubSeq(packed, 7 + 1, 7 + n)
      OBVIOUS
    <2>2. w \in Seq(Byte) /\ Len(w) = n /\ \A k \in 1 .. n : w[k] = packed[7 + k]
      <3>1. 7 \in Nat /\ n \in Nat /\ 7 + n <= Len(packed)
        BY <1>10
      <3> QED
        BY <1>9, <2>1, <3>1, Window
    <2>3. \A k \in 1 .. n : w[k] = d[k]
      BY <1>1, <1>6, <1>9, <2>2
    <2>4. w = d
      BY <1>1, <2>2, <2>3, SeqEqual
    <2> QED
      BY <2>1, <2>4
  <1>13. packed # <<>>
    <2>1. Len(packed) # 0
      BY <1>10
    <2> QED
      BY <2>1, LenEmpty, Zenon
  <1>14. Unpacks(packed)
    BY <1>10, <1>11 DEF Unpacks, HEADER_LENGTH, PROTO2_MAGIC
  <1>15. Unpack(packed) = [source |-> s, target |-> t, command |-> c, index |-> b, data |-> d]
    <2>1. HEADER_LENGTH + 1 = 8 /\ HEADER_LENGTH + packed[3] = 7 + n
      BY <1>10 DEF HEADER_LENGTH
    <2>2. SubSeq(packed, HEADER_LENGTH + 1, HEADER_LENGTH + packed[3]) = d
      BY <1>12, <2>1
    <2> QED
      BY <1>10, <2>2 DEF Unpack
  <1>16. Unpack(packed) \in Received
    <2>1. d \in {q \in Seq(Byte) : Len(q) <= MAX_DATA_LENGTH}
      BY DEF MAX_DATA_LENGTH
    <2> QED
      BY <1>15, <2>1 DEF Received
  <1> QED
    BY <1>2, <1>8, <1>13, <1>14, <1>15, <1>16
-----------------------------------------------------------------------------
(* The bytes of a board's memory.                                          *)

BoardIds == {MCU, BMS, BLE}

LEMMA MemoryWord ==
  ASSUME memory \in Memories, NEW b \in BoardIds, NEW i \in 0 .. 255
  PROVE  Word(memory, b, i) \in Words
PROOF
  BY ExchangeAssumption DEF BoardIds, Words, Byte

LEMMA BoardBytesType ==
  ASSUME memory \in Memories, NEW b \in BoardIds, NEW i \in Nat, NEW n \in Nat
  PROVE  BoardBytes(b, i, n) \in Seq(Byte) /\ Len(BoardBytes(b, i, n)) = n
PROOF
  <1>1. PICK s : s = BoardBytes(b, i, n)
    OBVIOUS
  <1>2. s = [k \in 1 .. n |->
               IF k % 2 = 1 THEN Word(memory, b, (i + (k - 1) \div 2) % 256) % 256
               ELSE Word(memory, b, (i + (k - 1) \div 2) % 256) \div 256]
    BY <1>1 DEF BoardBytes
  <1>3. ASSUME NEW k \in 1 .. n PROVE s[k] \in Byte
    <2>1. PICK j \in 0 .. 255 : j = (i + (k - 1) \div 2) % 256
      <3>1. (k - 1) \div 2 \in Nat
        OBVIOUS
      <3>2. (i + (k - 1) \div 2) % 256 \in 0 .. 255
        BY <3>1
      <3> QED
        BY <3>2
    <2>2. PICK w \in Words : w = Word(memory, b, j)
      BY MemoryWord
    <2>3. s[k] = IF k % 2 = 1 THEN w % 256 ELSE w \div 256
      BY <1>2, <2>1, <2>2
    <2> QED
      BY <2>3, BytesOfWord DEF Byte
  <1>4. s = [k \in 1 .. n |-> s[k]]
    BY <1>2
  <1>5. s \in Seq(Byte)
    BY <1>3, <1>4, Tabulated
  <1>6. Len(s) = n
    BY <1>2
  <1> QED
    BY <1>1, <1>5, <1>6

\* Word j of what was read is the board's word j.
LEMMA WordOfBoard ==
  ASSUME memory \in Memories, NEW b \in BoardIds, NEW i \in Nat, NEW n \in Nat,
         NEW j \in Nat, 2 * j + 2 <= n, i + j <= 255,
         NEW a, a = WordAt(BoardBytes(b, i, n), 2 * j)
  PROVE  /\ a \in Seq(Byte) /\ Len(a) = 2
         /\ a[1] = Word(memory, b, i + j) % 256 /\ a[2] = Word(memory, b, i + j) \div 256
         /\ Little(a) = Word(memory, b, i + j)
PROOF
  <1>1. PICK s : s = BoardBytes(b, i, n)
    OBVIOUS
  <1>2. s \in Seq(Byte) /\ Len(s) = n
    BY <1>1, BoardBytesType
  <1>3. PICK w \in Words : w = Word(memory, b, i + j)
    <2>1. i + j \in 0 .. 255
      OBVIOUS
    <2> QED
      BY <2>1, MemoryWord
  <1>4. s[2 * j + 1] = w % 256 /\ s[2 * j + 2] = w \div 256
    <2>1. 2 * j + 1 \in 1 .. n /\ 2 * j + 2 \in 1 .. n
      OBVIOUS
    <2>2. (2 * j + 1) % 2 = 1 /\ (2 * j + 2) % 2 # 1
      OBVIOUS
    <2>3. ((2 * j + 1) - 1) \div 2 = j /\ ((2 * j + 2) - 1) \div 2 = j
      OBVIOUS
    <2>4. (i + j) % 256 = i + j
      OBVIOUS
    <2>5. s[2 * j + 1] = Word(memory, b, (i + ((2 * j + 1) - 1) \div 2) % 256) % 256
      <3>1. PICK k \in 1 .. n : k = 2 * j + 1
        BY <2>1
      <3>2. k % 2 = 1
        BY <2>2, <3>1
      <3>3. s[k] = Word(memory, b, (i + (k - 1) \div 2) % 256) % 256
        BY <1>1, <3>2 DEF BoardBytes
      <3> QED
        BY <3>1, <3>3, Zenon
    <2>6. s[2 * j + 2] = Word(memory, b, (i + ((2 * j + 2) - 1) \div 2) % 256) \div 256
      <3>1. PICK k \in 1 .. n : k = 2 * j + 2
        BY <2>1
      <3>2. k % 2 # 1
        BY <2>2, <3>1
      <3>3. s[k] = Word(memory, b, (i + (k - 1) \div 2) % 256) \div 256
        BY <1>1, <3>2 DEF BoardBytes
      <3> QED
        BY <3>1, <3>3, Zenon
    <2> QED
      BY <1>3, <2>3, <2>4, <2>5, <2>6
  <1>5. 2 * j \in Nat /\ 2 * j + 2 <= Len(s)
    BY <1>2
  <1>6. a = WordAt(s, 2 * j)
    BY <1>1
  <1>7. /\ a \in Seq(Byte) /\ Len(a) = 2 /\ a[1] = w % 256 /\ a[2] = w \div 256
        /\ Little(a) = (w % 256) + 256 * (w \div 256)
    BY <1>2, <1>4, <1>5, <1>6, WholeWord
  <1>8. Little(a) = w
    BY <1>7, BytesOfWord
  <1> QED
    BY <1>3, <1>7, <1>8

LEMMA FirstWord ==
  ASSUME memory \in Memories, NEW b \in BoardIds, NEW i \in Nat, NEW n \in Nat,
         2 <= n, i <= 255, NEW a, a = WordAt(BoardBytes(b, i, n), 0)
  PROVE  /\ a \in Seq(Byte) /\ Len(a) = 2
         /\ a[1] = Word(memory, b, i) % 256 /\ a[2] = Word(memory, b, i) \div 256
         /\ Little(a) = Word(memory, b, i)
PROOF
  <1>1. PICK j \in Nat : j = 0
    OBVIOUS
  <1>2. 2 * j = 0 /\ i + j = i
    BY <1>1
  <1>3. a = WordAt(BoardBytes(b, i, n), 2 * j) /\ 2 * j + 2 <= n /\ i + j <= 255
    BY <1>2
  <1>4. /\ a \in Seq(Byte) /\ Len(a) = 2
        /\ a[1] = Word(memory, b, i + j) % 256 /\ a[2] = Word(memory, b, i + j) \div 256
        /\ Little(a) = Word(memory, b, i + j)
    BY <1>3, WordOfBoard
  <1> QED
    BY <1>2, <1>4

\* The first bytes of a longer read, and a read that goes on where another ends.
LEMMA BoardBytesPrefix ==
  ASSUME memory \in Memories, NEW b \in BoardIds, NEW i \in Nat, NEW n \in Nat,
         NEW m \in 0 .. n
  PROVE  SubSeq(BoardBytes(b, i, n), 1, m) = BoardBytes(b, i, m)
PROOF
  <1>1. PICK s : s = BoardBytes(b, i, n)
    OBVIOUS
  <1>2. PICK t : t = BoardBytes(b, i, m)
    OBVIOUS
  <1>3. s \in Seq(Byte) /\ Len(s) = n /\ t \in Seq(Byte) /\ Len(t) = m
    BY <1>1, <1>2, BoardBytesType
  <1>4. PICK w : w = SubSeq(s, 0 + 1, 0 + m)
    OBVIOUS
  <1>5. w \in Seq(Byte) /\ Len(w) = m /\ \A k \in 1 .. m : w[k] = s[0 + k]
    <2>1. 0 \in Nat /\ m \in Nat /\ 0 + m <= Len(s)
      BY <1>3
    <2> QED
      BY <1>3, <1>4, <2>1, Window
  <1>6. ASSUME NEW k \in 1 .. m PROVE w[k] = t[k]
    <2>1. w[k] = s[k] /\ k \in 1 .. n
      BY <1>5
    <2>2. s[k] = t[k]
      BY <1>1, <1>2, <2>1 DEF BoardBytes
    <2> QED
      BY <2>1, <2>2
  <1>7. w = t
    BY <1>3, <1>5, <1>6, SeqEqual
  <1>8. 0 + 1 = 1 /\ 0 + m = m
    OBVIOUS
  <1> QED
    BY <1>1, <1>2, <1>4, <1>7, <1>8

LEMMA BoardBytesNext ==
  ASSUME memory \in Memories, NEW b \in BoardIds, NEW i \in Nat, NEW j \in Nat,
         NEW n \in Nat, n >= 2, i + j <= 255
  PROVE  BoardBytes(b, i, 2 * j) \o WordAt(BoardBytes(b, i + j, n), 0)
           = BoardBytes(b, i, 2 * (j + 1))
PROOF
  <1>1. PICK s : s = BoardBytes(b, i, 2 * j)
    OBVIOUS
  <1>2. PICK a : a = WordAt(BoardBytes(b, i + j, n), 0)
    OBVIOUS
  <1>3. PICK t : t = BoardBytes(b, i, 2 * (j + 1))
    OBVIOUS
  <1>4. s \in Seq(Byte) /\ Len(s) = 2 * j
    BY <1>1, BoardBytesType
  <1>5. t \in Seq(Byte) /\ Len(t) = 2 * j + 2
    BY <1>3, BoardBytesType
  <1>6. PICK w : w = Word(memory, b, i + j)
    OBVIOUS
  <1>7. a \in Seq(Byte) /\ Len(a) = 2 /\ a[1] = w % 256 /\ a[2] = w \div 256
    <2>1. PICK h \in Nat : h = i + j
      OBVIOUS
    <2>2. h <= 255 /\ a = WordAt(BoardBytes(b, h, n), 0) /\ w = Word(memory, b, h)
      BY <1>2, <1>6, <2>1
    <2> QED
      BY <2>2, FirstWord
  <1>8. t[2 * j + 1] = w % 256 /\ t[2 * j + 2] = w \div 256
    <2>1. PICK m \in Nat : m = 2 * (j + 1)
      OBVIOUS
    <2>2. 2 * j + 2 <= m
      BY <2>1
    <2>3. PICK c : c = WordAt(t, 2 * j)
      OBVIOUS
    <2>4. c[1] = w % 256 /\ c[2] = w \div 256
      <3>1. c = WordAt(BoardBytes(b, i, m), 2 * j)
        BY <1>3, <2>1, <2>3
      <3> QED
        BY <1>6, <2>2, <3>1, WordOfBoard
    <2>5. c[1] = t[2 * j + 1] /\ c[2] = t[2 * j + 2]
      <3>1. 2 * j \in Nat /\ 2 * j + 2 <= Len(t)
        BY <1>5
      <3> QED
        BY <1>5, <2>3, <3>1, WholeWord
    <2> QED
      BY <2>4, <2>5
  <1>9. PICK u : u = s \o a
    OBVIOUS
  <1>10. /\ u \in Seq(Byte) /\ Len(u) = Len(s) + Len(a)
         /\ \A k \in 1 .. Len(s) : u[k] = s[k]
         /\ \A k \in 1 .. Len(a) : u[Len(s) + k] = a[k]
    <2>1. s \in Seq(Byte) /\ a \in Seq(Byte)
      BY <1>4, <1>7
    <2>2. /\ s \o a \in Seq(Byte) /\ Len(s \o a) = Len(s) + Len(a)
          /\ \A k \in 1 .. Len(s) : (s \o a)[k] = s[k]
          /\ \A k \in 1 .. Len(a) : (s \o a)[Len(s) + k] = a[k]
      BY <2>1, Joined
    <2> QED
      BY <1>9, <2>2, Zenon
  <1>11. Len(u) = 2 * j + 2 /\ u[2 * j + 1] = a[1] /\ u[2 * j + 2] = a[2]
    <2>1. Len(u) = 2 * j + 2 /\ \A k \in 1 .. 2 : u[2 * j + k] = a[k]
      BY <1>4, <1>7, <1>10, Zenon
    <2> QED
      BY <2>1
  <1>12. ASSUME NEW k \in 1 .. 2 * j + 2 PROVE u[k] = t[k]
    <2>1. CASE k <= 2 * j
      <3>1. k \in 1 .. 2 * j /\ k \in 1 .. 2 * (j + 1)
        BY <2>1
      <3>2. k \in 1 .. Len(s)
        BY <1>4, <3>1
      <3>3. u[k] = s[k]
        BY <1>10, <3>2
      <3>4. s[k] = t[k]
        BY <1>1, <1>3, <3>1 DEF BoardBytes
      <3> QED
        BY <3>3, <3>4
    <2>2. CASE k = 2 * j + 1 \/ k = 2 * j + 2
      BY <1>7, <1>8, <1>11, <2>2
    <2> QED
      BY <2>1, <2>2
  <1>13. u = t
    BY <1>5, <1>10, <1>11, <1>12, SeqEqual
  <1> QED
    BY <1>1, <1>2, <1>3, <1>9, <1>13
-----------------------------------------------------------------------------
(* What the words of a register mean is what its bytes decode to.          *)

LEMMA ShiftedResidue ==
  ASSUME NEW R \in Nat \ {0}, NEW m \in Int, -R <= m, m < 0
  PROVE  m % R = m + R
PROOF
  OBVIOUS

LEMMA SignedWord ==
  ASSUME NEW w \in Words
  PROVE  (CHOOSE n \in -(WORD_RANGE \div 2) .. WORD_RANGE \div 2 - 1 : n % WORD_RANGE = w)
           = IF w < WORD_RANGE \div 2 THEN w ELSE w - WORD_RANGE
PROOF
  <1>1. PICK R \in Nat \ {0} : R = WORD_RANGE
    BY DEF WORD_RANGE
  <1>2. PICK H \in Nat : H = R \div 2 /\ R = 2 * H
    BY <1>1 DEF WORD_RANGE
  <1>3. w \in Nat /\ w < R
    BY <1>1 DEF Words
  <1>4. PICK v \in Int : v = IF w < H THEN w ELSE w - R
    BY <1>3
  <1>5. v \in -H .. H - 1 /\ v % R = w
    <2>1. CASE w < H
      <3>1. w % R = w
        BY <1>3
      <3> QED
        BY <1>2, <1>3, <1>4, <2>1, <3>1
    <2>2. CASE ~(w < H)
      <3>1. v = w - R /\ -R <= v /\ v < 0
        BY <1>3, <1>4, <2>2
      <3>2. v % R = v + R
        BY <3>1, ShiftedResidue
      <3>3. v + R = w /\ v \in -H .. H - 1
        BY <1>2, <1>3, <2>2, <3>1
      <3> QED
        BY <3>2, <3>3
    <2> QED
      BY <2>1, <2>2
  <1>6. ASSUME NEW n \in -H .. H - 1, n % R = w PROVE n = v
    <2>1. CASE n >= 0
      <3>1. n % R = n
        BY <1>2, <2>1
      <3> QED
        BY <1>2, <1>4, <1>6, <3>1
    <2>2. CASE n < 0
      <3>1. -R <= n
        BY <1>2
      <3>2. n % R = n + R
        BY <2>2, <3>1, ShiftedResidue
      <3> QED
        BY <1>2, <1>4, <1>6, <3>2
    <2> QED
      BY <2>1, <2>2
  <1>7. (CHOOSE n \in -H .. H - 1 : n % R = w) = v
    BY <1>5, <1>6
  <1> QED
    BY <1>1, <1>2, <1>4, <1>7

LEMMA VersionWord ==
  ASSUME NEW w \in Words
  PROVE  (CHOOSE v \in (0 .. 255) \X (0 .. 15) \X (0 .. 15) :
             256 * v[1] + 16 * v[2] + v[3] = w)
           = <<w \div 256, (w \div 16) % 16, w % 16>>
PROOF
  <1>1. w \in Nat /\ w < 256 * 256
    BY SMTT(30) DEF Words, WORD_RANGE
  <1>2. PICK a \in Nat, b \in Nat, c \in Nat :
            a = w \div 256 /\ b = (w \div 16) % 16 /\ c = w % 16
    BY <1>1
  <1>3. a \in 0 .. 255 /\ b \in 0 .. 15 /\ c \in 0 .. 15 /\ 256 * a + 16 * b + c = w
    BY <1>1, <1>2
  <1>4. ASSUME NEW x \in 0 .. 255, NEW y \in 0 .. 15, NEW z \in 0 .. 15,
               256 * x + 16 * y + z = w
        PROVE  x = a /\ y = b /\ z = c
    BY <1>3, <1>4
  <1>5. PICK u : u = <<a, b, c>>
    OBVIOUS
  <1>6. /\ u \in (0 .. 255) \X (0 .. 15) \X (0 .. 15)
        /\ 256 * u[1] + 16 * u[2] + u[3] = w
    BY <1>3, <1>5
  <1>7. ASSUME NEW v \in (0 .. 255) \X (0 .. 15) \X (0 .. 15),
               256 * v[1] + 16 * v[2] + v[3] = w
        PROVE  v = u
    <2>1. v[1] \in 0 .. 255 /\ v[2] \in 0 .. 15 /\ v[3] \in 0 .. 15 /\ v = <<v[1], v[2], v[3]>>
      OBVIOUS
    <2>2. v[1] = a /\ v[2] = b /\ v[3] = c
      <3>1. PICK x \in 0 .. 255, y \in 0 .. 15, z \in 0 .. 15 :
                x = v[1] /\ y = v[2] /\ z = v[3]
        BY <2>1
      <3>2. 256 * x + 16 * y + z = w
        BY <1>7, <3>1
      <3>3. x = a /\ y = b /\ z = c
        BY <1>3, <3>2
      <3> QED
        BY <3>1, <3>3
    <2> QED
      BY <1>5, <2>1, <2>2
  <1>8. (CHOOSE v \in (0 .. 255) \X (0 .. 15) \X (0 .. 15) :
             256 * v[1] + 16 * v[2] + v[3] = w) = u
    BY <1>6, <1>7
  <1> QED
    BY <1>2, <1>5, <1>8

LEMMA TextUpToNul ==
  ASSUME NEW bytes \in Seq(Byte)
  PROVE  UpToNul(bytes) =
           LET Before(n) == \A i \in 1 .. n : bytes[i] # 0
               n == CHOOSE n \in 0 .. Len(bytes) :
                        Before(n) /\ (n < Len(bytes) => ~Before(n + 1))
           IN  SubSeq(bytes, 1, n)
PROOF
  <1> DEFINE Before(n) == \A i \in 1 .. n : bytes[i] # 0
             Ends(n) == Before(n) /\ (n < Len(bytes) => ~Before(n + 1))
  <1>1. PICK L \in Nat : L = Len(bytes) /\ DOMAIN bytes = 1 .. L
    BY LenProperties
  <1>2. PICK nuls : nuls = {i \in DOMAIN bytes : bytes[i] = 0}
    OBVIOUS
  <1>3. PICK e \in 0 .. L : Ends(e) /\ UpToNul(bytes) = SubSeq(bytes, 1, e)
    <2>1. CASE nuls = {}
      <3>1. Ends(L)
        BY <1>1, <1>2, <2>1
      <3>2. UpToNul(bytes) = bytes
        BY <1>2, <2>1 DEF UpToNul
      <3>3. SubSeq(bytes, 1, L) = bytes
        BY <1>1, SubSeqFull
      <3>4. L \in 0 .. L
        OBVIOUS
      <3> QED
        BY <3>1, <3>2, <3>3, <3>4
    <2>2. CASE nuls # {}
      <3>1. nuls \subseteq 1 .. L /\ nuls \subseteq Nat
        BY <1>1, <1>2
      <3>2. Min(nuls) \in nuls /\ \A k \in nuls : Min(nuls) <= k
        BY <2>2, <3>1, MinOf
      <3>3. PICK m \in 1 .. L : m = Min(nuls)
        BY <3>1, <3>2
      <3>4. bytes[m] = 0 /\ \A i \in 1 .. m - 1 : bytes[i] # 0
        <4>1. bytes[m] = 0
          BY <1>2, <3>2, <3>3
        <4>2. ASSUME NEW i \in 1 .. m - 1 PROVE bytes[i] # 0
          <5>1. i \in 1 .. L /\ ~(m <= i)
            BY <1>1
          <5>2. i \notin nuls
            BY <3>2, <3>3, <5>1
          <5> QED
            BY <1>1, <1>2, <5>1, <5>2
        <4> QED
          BY <4>1, <4>2
      <3>5. m - 1 \in 0 .. L /\ m \in 1 .. (m - 1) + 1
        BY <1>1
      <3>6. Ends(m - 1)
        BY <3>4, <3>5
      <3>7. UpToNul(bytes) = SubSeq(bytes, 1, m - 1)
        BY <1>2, <2>2, <3>3 DEF UpToNul
      <3> QED
        BY <3>5, <3>6, <3>7
    <2> QED
      BY <2>1, <2>2
  <1>4. ASSUME NEW n \in 0 .. L, Ends(n) PROVE n = e
    <2>1. CASE n < e
      <3>1. n + 1 \in 0 .. L /\ \A i \in 1 .. n + 1 : i \in 1 .. e
        BY <1>1, <2>1
      <3>2. Before(n + 1)
        BY <1>3, <3>1
      <3> QED
        BY <1>1, <1>4, <2>1, <3>2
    <2>2. CASE e < n
      <3>1. e + 1 \in 0 .. L /\ \A i \in 1 .. e + 1 : i \in 1 .. n
        BY <1>1, <2>2
      <3>2. Before(e + 1)
        BY <1>4, <3>1
      <3> QED
        BY <1>1, <1>3, <2>2, <3>2
    <2> QED
      BY <1>1, <2>1, <2>2
  <1>5. (CHOOSE n \in 0 .. Len(bytes) : Ends(n)) = e
    <2> HIDE DEF Ends
    <2> QED
      BY <1>1, <1>3, <1>4
  <1> QED
    BY <1>3, <1>5

\* Without holes, dropping what is not used is dropping the tail.
LEMMA KeptIsWithoutTail ==
  ASSUME NEW T, NEW s \in Seq(T), NEW used, ~HasHole(s, used)
  PROVE  /\ Kept(s, used) = WithoutTail(s, used)
         /\ WithoutTail(s, used) \in Seq(T)
PROOF
  <1>1. PICK L \in Nat : L = Len(s) /\ DOMAIN s = 1 .. L
    BY LenProperties
  <1>2. PICK U : U = {k \in DOMAIN s : s[k] \in used}
    OBVIOUS
  <1>3. /\ {0} \union U \subseteq Nat /\ {0} \union U # {}
        /\ {0} \union U \subseteq 0 .. L /\ \A k \in {0} \union U : k <= L
    BY <1>1, <1>2
  <1>4. PICK m \in 0 .. L : m = Max({0} \union U) /\ m \in {0} \union U /\ \A k \in U : k <= m
    <2>1. Max({0} \union U) \in {0} \union U /\ \A k \in {0} \union U : k <= Max({0} \union U)
      BY <1>3, MaxOf
    <2> QED
      BY <1>3, <2>1
  <1>5. ASSUME NEW k \in 1 .. m PROVE s[k] \in used
    <2>1. m \in U /\ k \in DOMAIN s /\ m \in DOMAIN s /\ (k = m \/ k < m)
      BY <1>1, <1>2, <1>4
    <2>2. s[m] \in used
      BY <1>2, <2>1
    <2> QED
      BY <2>1, <2>2 DEF HasHole
  <1>6. ASSUME NEW k \in m + 1 .. Len(s) PROVE s[k] \notin used
    <2>1. k \in DOMAIN s /\ ~(k <= m)
      BY <1>1
    <2> QED
      BY <1>2, <1>4, <2>1
  <1>7. WithoutTail(s, used) = SubSeq(s, 1, m)
    BY <1>2, <1>4 DEF WithoutTail
  <1>8. Kept(s, used) = SubSeq(s, 1, m)
    BY <1>1, <1>5, <1>6, KeptIsPrefix
  <1>9. Kept(s, used) \in Seq(T)
    BY KeptType
  <1> QED
    BY <1>7, <1>8, <1>9

\* A text without blanks at its ends stays as it is.
LEMMA StripKeeps ==
  ASSUME NEW T, NEW text \in Seq(T),
         \A k \in {1, Len(text)} \intersect DOMAIN text : text[k] \notin Blank
  PROVE  Strip(text) = text
PROOF
  <1>1. PICK L \in Nat : L = Len(text) /\ DOMAIN text = 1 .. L
    BY LenProperties
  <1>2. PICK ink : ink = {i \in DOMAIN text : text[i] \notin Blank}
    OBVIOUS
  <1>3. Strip(text) = IF ink = {} THEN <<>> ELSE SubSeq(text, Min(ink), Max(ink))
    BY <1>2 DEF Strip
  <1>4. CASE L = 0
    <2>1. ink = {}
      BY <1>1, <1>2, <1>4
    <2>2. text = <<>>
      BY <1>1, <1>4, EmptySeq
    <2> QED
      BY <1>3, <2>1, <2>2
  <1>5. CASE L # 0
    <2>1. 1 \in ink /\ L \in ink /\ ink \subseteq 1 .. L
      BY <1>1, <1>2, <1>5
    <2>2. ink \subseteq Nat /\ ink # {} /\ \A k \in ink : k <= L
      BY <2>1
    <2>3. Min(ink) \in ink /\ \A k \in ink : Min(ink) <= k
      BY <2>2, MinOf
    <2>4. Max(ink) \in ink /\ \A k \in ink : k <= Max(ink)
      BY <2>2, MaxOf
    <2>5. Min(ink) = 1 /\ Max(ink) = L
      <3>1. Min(ink) \in 1 .. L /\ Max(ink) \in 1 .. L /\ Min(ink) <= 1 /\ L <= Max(ink)
        BY <2>1, <2>3, <2>4
      <3> QED
        BY <3>1
    <2>6. SubSeq(text, 1, Len(text)) = text
      BY SubSeqFull
    <2> QED
      BY <1>1, <1>3, <2>1, <2>5, <2>6
  <1> QED
    BY <1>4, <1>5

LEMMA TextBytes ==
  ASSUME NEW bytes \in Seq(Byte)
  PROVE  UpToNul(bytes) \in Seq(Byte)
PROOF
  <1>1. PICK L \in Nat : L = Len(bytes) /\ DOMAIN bytes = 1 .. L
    BY LenProperties
  <1>2. PICK nuls : nuls = {i \in DOMAIN bytes : bytes[i] = 0}
    OBVIOUS
  <1>3. CASE nuls = {}
    BY <1>2, <1>3 DEF UpToNul
  <1>4. CASE nuls # {}
    <2>1. nuls \subseteq 1 .. L /\ nuls \subseteq Nat
      BY <1>1, <1>2
    <2>2. PICK m \in 1 .. L : m = Min(nuls)
      BY <1>4, <2>1, MinOf
    <2>3. UpToNul(bytes) = SubSeq(bytes, 1, m - 1)
      BY <1>2, <1>4, <2>2 DEF UpToNul
    <2>4. 1 \in Int /\ m - 1 \in Int /\ \A i \in 1 .. m - 1 : i \in 1 .. Len(bytes)
      BY <1>1
    <2>5. \A i \in 1 .. m - 1 : bytes[i] \in Byte
      BY <2>4, ElementOfSeq
    <2>6. SubSeq(bytes, 1, m - 1) \in Seq(Byte)
      BY <2>4, <2>5, SubSeqProperties
    <2> QED
      BY <2>3, <2>6
  <1> QED
    BY <1>3, <1>4

\* The words of a register, as numbers.
LEMMA RegisterWords ==
  ASSUME memory \in Memories, NEW r, Regular(r),
         NEW D, D = BoardBytes(r.board, r.index, r.length)
  PROVE  /\ D \in Seq(Byte) /\ Len(D) = r.length
         /\ WordsOf(r) \in 1 .. 127 /\ r.length = 2 * WordsOf(r)
         /\ \A k \in 1 .. WordsOf(r) :
              /\ Slots(r)[k] = Little(WordAt(D, 2 * (k - 1)))
              /\ Slots(r)[k] \in Words
         /\ U16(D) = Slots(r)[1]
         /\ D[1] = Slots(r)[1] % 256 /\ D[2] = Slots(r)[1] \div 256
PROOF
  <1>1. PICK b \in BoardIds, i \in Nat, n \in 2 .. 255 :
            b = r.board /\ i = r.index /\ n = r.length
    BY DEF Regular, BoardIds
  <1>2. n % 2 = 0 /\ i + n \div 2 <= 256
    BY <1>1 DEF Regular
  <1>3. PICK h \in 1 .. 127 : h = WordsOf(r) /\ n = 2 * h /\ i + h <= 256
    <2>1. n \div 2 \in 1 .. 127 /\ n = 2 * (n \div 2) /\ i + n \div 2 <= 256
      BY <1>2
    <2> QED
      BY <1>1, <2>1 DEF WordsOf
  <1>4. D = BoardBytes(b, i, n) /\ n \in Nat
    BY <1>1
  <1>5. D \in Seq(Byte) /\ Len(D) = n
    BY <1>4, BoardBytesType
  <1>6. PICK slots : slots = Slots(r)
    OBVIOUS
  <1>7. slots = [k \in 1 .. h |-> Word(memory, b, i + k - 1)]
    BY <1>1, <1>3, <1>6 DEF Slots
  <1>8. ASSUME NEW k \in 1 .. h
        PROVE  /\ slots[k] = Little(WordAt(D, 2 * (k - 1))) /\ slots[k] \in Words
               /\ WordAt(D, 2 * (k - 1))[1] = slots[k] % 256
               /\ WordAt(D, 2 * (k - 1))[2] = slots[k] \div 256
    <2>1. PICK j \in Nat : j = k - 1
      OBVIOUS
    <2>2. 2 * j + 2 <= n /\ i + j <= 255 /\ i + k - 1 = i + j
      <3>1. k <= h /\ k = j + 1
        BY <2>1
      <3> QED
        BY <1>3, <3>1
    <2>3. slots[k] = Word(memory, b, i + j)
      BY <1>7, <2>2
    <2>4. PICK a : a = WordAt(D, 2 * j)
      OBVIOUS
    <2>5. a = WordAt(BoardBytes(b, i, n), 2 * j)
      BY <1>4, <2>4
    <2>6. /\ a[1] = Word(memory, b, i + j) % 256 /\ a[2] = Word(memory, b, i + j) \div 256
          /\ Little(a) = Word(memory, b, i + j)
      BY <1>4, <2>2, <2>5, WordOfBoard
    <2>7. Little(a) \in Words
      BY <1>5, <2>4, WordType
    <2> QED
      BY <2>1, <2>3, <2>4, <2>6, <2>7
  <1>9. U16(D) = slots[1] /\ D[1] = slots[1] % 256 /\ D[2] = slots[1] \div 256
    <2>1. 1 \in 1 .. h /\ 2 * (1 - 1) = 0
      BY <1>3
    <2>2. /\ slots[1] = Little(WordAt(D, 0))
          /\ WordAt(D, 0)[1] = slots[1] % 256 /\ WordAt(D, 0)[2] = slots[1] \div 256
      BY <1>8, <2>1
    <2>3. PICK o \in Nat : o = 0
      OBVIOUS
    <2>4. o + 2 <= Len(D) /\ o + 1 = 1 /\ o + 2 = 2
      BY <1>5, <2>3
    <2>5. WordAt(D, o)[1] = D[o + 1] /\ WordAt(D, o)[2] = D[o + 2]
      BY <1>5, <2>4, WholeWord
    <2> QED
      BY <2>2, <2>3, <2>4, <2>5 DEF U16
  <1> QED
    BY <1>1, <1>3, <1>5, <1>6, <1>8, <1>9

\* The bytes of a register's words decode, and to what the words mean where the
\* decoders do as documented.
LEMMA DecodesToMeaning ==
  ASSUME memory \in Memories, NEW r, Regular(r),
         NEW D, D = BoardBytes(r.board, r.index, r.length)
  PROVE  Converts(r, D) /\ (AsDocumented(r) => Convert(r, D) = Meaning(r))
PROOF
  <1>1. /\ D \in Seq(Byte) /\ Len(D) = r.length
        /\ WordsOf(r) \in 1 .. 127 /\ r.length = 2 * WordsOf(r)
    BY RegisterWords
  <1>2. PICK slots : slots = Slots(r)
    OBVIOUS
  <1>3. PICK w \in Words : w = slots[1]
    <2>1. \A h \in 1 .. 127 : 1 \in 1 .. h
      OBVIOUS
    <2>2. 1 \in 1 .. WordsOf(r)
      BY <1>1, <2>1
    <2> QED
      BY <1>2, <2>2, RegisterWords
  <1>4. U16(D) = w /\ D[1] = w % 256 /\ D[2] = w \div 256
    BY <1>2, <1>3, RegisterWords
  <1>5. Converts(r, D)
    BY <1>1 DEF Converts, Regular
  <1> SUFFICES ASSUME AsDocumented(r) PROVE Convert(r, D) = Meaning(r)
    BY <1>5
  <1>6. CASE r.decode = "u16"
    BY <1>2, <1>3, <1>4, <1>6 DEF Convert, Meaning
  <1>7. CASE r.decode = "s16"
    <2>1. ~(Len(D) < 2)
      BY <1>1, <1>7 DEF Regular
    <2>2. S16(D) = IF w < WORD_RANGE \div 2 THEN w ELSE w - WORD_RANGE
      BY <1>4, <2>1 DEF S16
    <2>3. Convert(r, D) = S16(D)
      BY <1>7 DEF Convert
    <2>4. Meaning(r) = CHOOSE n \in -(WORD_RANGE \div 2) .. WORD_RANGE \div 2 - 1 :
                           n % WORD_RANGE = w
      BY <1>2, <1>3, <1>7 DEF Meaning
    <2> QED
      BY <2>2, <2>3, <2>4, SignedWord
  <1>8. CASE r.decode = "u32"
    <2>1. WordsOf(r) = 2
      <3>1. r.length = 4
        BY <1>8 DEF Regular
      <3>2. \A h \in 1 .. 127 : 4 = 2 * h => h = 2
        OBVIOUS
      <3> QED
        BY <1>1, <3>1, <3>2
    <2>2. slots[2] = Little(WordAt(D, 2)) /\ slots[2] \in Words
      <3>1. 2 \in 1 .. WordsOf(r) /\ 2 * (2 - 1) = 2
        BY <2>1
      <3> QED
        BY <1>2, <3>1, RegisterWords
    <2>3. Convert(r, D) = w + WORD_RANGE * slots[2]
      BY <1>4, <1>8, <2>2 DEF Convert, U32
    <2>4. Meaning(r) = slots[2] * WORD_RANGE + w
      BY <1>2, <1>3, <1>8 DEF Meaning
    <2>5. PICK x \in Nat, R \in Nat, y \in Nat : x = slots[2] /\ R = WORD_RANGE /\ y = w
      BY <2>2, WordsAreInts
    <2>6. y + R * x = x * R + y
      OBVIOUS
    <2> QED
      BY <2>3, <2>4, <2>5, <2>6
  <1>9. CASE r.decode = "string"
    <2>1. PICK text : text = TextOf(r)
      OBVIOUS
    <2>2. text = UpToNul(D)
      <3>1. TextOf(r) =
              LET Before(n) == \A i \in 1 .. n : D[i] # 0
                  n == CHOOSE n \in 0 .. Len(D) :
                           Before(n) /\ (n < Len(D) => ~Before(n + 1))
              IN  SubSeq(D, 1, n)
        BY DEF TextOf, BytesOf
      <3> QED
        BY <1>1, <2>1, <3>1, TextUpToNul
    <2>3. text \in Seq(Byte)
      BY <1>1, <2>2, TextBytes
    <2>4. Convert(r, D) = Strip(Kept(text, ASCII_BYTES))
      BY <1>9, <2>2 DEF Convert, String, Ascii, ASCII_BYTES
    <2>5. PICK shown : shown = WithoutTail(text, ASCII_BYTES)
      OBVIOUS
    <2>6. Meaning(r) = shown
      BY <1>9, <2>1, <2>5 DEF Meaning
    <2>7. /\ ~HasHole(text, ASCII_BYTES)
          /\ \A k \in {1, Len(shown)} \intersect DOMAIN shown : shown[k] \notin Blank
      BY <1>9, <2>1, <2>6 DEF AsDocumented
    <2>8. Kept(text, ASCII_BYTES) = shown /\ shown \in Seq(Byte)
      BY <2>3, <2>5, <2>7, KeptIsWithoutTail
    <2>9. Strip(shown) = shown
      BY <2>7, <2>8, StripKeeps
    <2> QED
      BY <2>4, <2>6, <2>8, <2>9
  <1>10. CASE r.decode = "hex"
    BY <1>10 DEF Convert, Meaning, BytesOf
  <1>11. CASE r.decode = "version"
    <2>1. Convert(r, D) = <<w \div 256, (w \div 16) % 16, w % 16>>
      BY <1>4, <1>11 DEF Convert, Version
    <2>2. Meaning(r) = CHOOSE v \in (0 .. 255) \X (0 .. 15) \X (0 .. 15) :
                           256 * v[1] + 16 * v[2] + v[3] = w
      <3>1. Slots(r)[1] = w
        BY <1>2, <1>3, Zenon
      <3>2. PICK c : c = r.decode
        OBVIOUS
      <3>3. c = "version"
        BY <1>11, <3>2
      <3> QED
        BY <3>1, <3>2, <3>3, ZenonT(60) DEF Meaning
    <2> QED
      BY <2>1, <2>2, VersionWord
  <1>12. CASE r.decode = "temperatures"
    BY <1>2, <1>3, <1>4, <1>12 DEF Convert, TemperaturePair, Meaning
  <1>13. CASE r.decode = "cells"
    <2>1. Len(D) \div 2 = WordsOf(r)
      <3>1. \A h \in 1 .. 127 : (2 * h) \div 2 = h
        OBVIOUS
      <3> QED
        BY <1>1, <3>1
    <2>2. PICK s : s = [k \in 1 .. WordsOf(r) |-> Little(WordAt(D, 2 * (k - 1)))]
      OBVIOUS
    <2>3. \A k \in 1 .. WordsOf(r) : slots[k] = Little(WordAt(D, 2 * (k - 1)))
      BY <1>2, RegisterWords
    <2>4. slots = [k \in 1 .. WordsOf(r) |-> slots[k]]
      BY <1>2 DEF Slots
    <2>5. s = slots
      BY <2>2, <2>3, <2>4
    <2>6. Convert(r, D) = Kept(s, USED_SLOTS)
      BY <1>13, <2>1, <2>2 DEF Convert, CellVoltages, Present, USED_SLOTS
    <2>7. Meaning(r) = WithoutTail(slots, USED_SLOTS) /\ ~HasHole(slots, USED_SLOTS)
      BY <1>2, <1>13 DEF Meaning, AsDocumented
    <2>8. slots \in Seq(Words)
      <3>1. \A k \in 1 .. WordsOf(r) : slots[k] \in Words
        BY <1>2, RegisterWords
      <3>2. PICK h \in Nat : h = WordsOf(r)
        BY <1>1
      <3>3. slots = [k \in 1 .. h |-> slots[k]] /\ \A k \in 1 .. h : slots[k] \in Words
        BY <2>4, <3>1, <3>2
      <3> QED
        BY <3>3, Tabulated
    <2>9. Kept(slots, USED_SLOTS) = WithoutTail(slots, USED_SLOTS)
      BY <2>7, <2>8, KeptIsWithoutTail
    <2> QED
      BY <2>5, <2>6, <2>7, <2>9
  <1>14. CASE r.decode = "bit0"
    <2>1. PICK x \in Nat : x = w
      BY WordsAreInts
    <2>2. (x % 2 = 1) = (x % 2 # 0)
      OBVIOUS
    <2>3. Convert(r, D) = (x % 2 = 1)
      BY <1>4, <1>14, <2>1 DEF Convert
    <2>4. Meaning(r) = (x % 2 # 0)
      BY <1>2, <1>3, <1>14, <2>1 DEF Meaning
    <2> QED
      BY <2>2, <2>3, <2>4
  <1> QED
    BY <1>5, <1>6, <1>7, <1>8, <1>9, <1>10, <1>11, <1>12, <1>13, <1>14 DEF Regular
-----------------------------------------------------------------------------
(* Exchange.                                                               *)

\* An answer to a read, of n bytes from word i of board b on.
Answer(b, i, n) ==
    Pack([source |-> b, target |-> HOST, command |-> READ_ACK, index |-> i,
          data |-> BoardBytes(b, i, n)])

RequestIsOfRead == request # <<>> => request = Pack(Request)

AnswerIsOfMemory ==
    answer # <<>> =>
        \E b \in BoardIds, i \in 0 .. 255, n \in 2 .. 255 : answer = Answer(b, i, n)

WalkedSoFar == ask > 0 => payload = BoardBytes(Reg.board, Reg.index, 2 * (ask - 1))

ReadInv ==
    /\ ExchangeTypeOK
    /\ RequestIsOfRead /\ AnswerIsOfMemory /\ WalkedSoFar
    /\ ReadsWhatIsThere

LEMMA RegOfKey ==
  ASSUME NEW k \in ReadKeys
  PROVE  Regular(RegisterOf(k))
PROOF
  <1>1. k \in Keys
    BY DEF ReadKeys, Keys
  <1> QED
    BY <1>1, RegisterOfKey

LEMMA BoardsAreDevices == BoardIds \subseteq DeviceId /\ HOST \in DeviceId
PROOF
  BY DEF BoardIds, DeviceId

\* A read of the table, as the scooter unpacks it.
LEMMA ReadUnpacks ==
  ASSUME NEW r, Regular(r), NEW k \in 0 .. WordsOf(r), NEW p, p = ReadOf(r, k)
  PROVE  /\ Packs(p) /\ Pack(p) # <<>> /\ Unpacks(Pack(p)) /\ Unpack(Pack(p)) = p
         /\ Unpack(Pack(p)) \in Received
         /\ p.target = r.board /\ r.board \in BoardIds /\ p.index \in 0 .. 255
         /\ p.data[1] \in 2 .. 255
         /\ k = 0 => p.index = r.index
         /\ k # 0 => p.index = r.index + (k - 1)
PROOF
  <1>1. PICK b \in BoardIds, i \in Nat, n \in 2 .. 255 :
            b = r.board /\ i = r.index /\ n = r.length
    BY DEF Regular, BoardIds
  <1>2. PICK h \in Nat : h = WordsOf(r) /\ i + h <= 256 /\ h >= 1
    <2>1. i + n \div 2 <= 256
      BY <1>1 DEF Regular
    <2>2. n \div 2 \in Nat /\ n \div 2 >= 1
      OBVIOUS
    <2> QED
      BY <1>1, <2>1, <2>2 DEF WordsOf
  <1>3. PICK x \in 0 .. 255 : x = i + (IF k = 0 THEN 0 ELSE k - 1)
    <2>1. k \in 0 .. h
      BY <1>2
    <2>2. CASE k = 0
      BY <1>2, <2>2
    <2>3. CASE k # 0
      BY <1>2, <2>1, <2>3
    <2> QED
      BY <2>2, <2>3
  <1>4. PICK m \in 2 .. 255 : m = IF k = 0 THEN n ELSE 2
    OBVIOUS
  <1>5. PICK d : d = <<m>>
    OBVIOUS
  <1>6. d \in Seq(Byte) /\ Len(d) = 1 /\ d[1] = m
    <2>1. m \in Byte
      BY DEF Byte
    <2> QED
      BY <1>5, <2>1
  <1>7. p = [source |-> HOST, target |-> b, command |-> READ, index |-> x, data |-> d]
    BY <1>1, <1>3, <1>4, <1>5 DEF ReadOf
  <1>8. x % 256 = x
    OBVIOUS
  <1>9. Len(d) <= 255 /\ x \in Nat /\ READ \in Command /\ b \in DeviceId
    BY <1>6, BoardsAreDevices DEF Command
  <1>10. /\ Pack(p) # <<>> /\ Unpacks(Pack(p)) /\ Unpack(Pack(p)) \in Received
         /\ Unpack(Pack(p)) =
              [source |-> HOST, target |-> b, command |-> READ, index |-> x % 256, data |-> d]
    <2>1. HOST \in DeviceId /\ b \in DeviceId /\ READ \in Command /\ x \in Nat
      BY <1>9, BoardsAreDevices
    <2>2. d \in Seq(Byte) /\ Len(d) <= 255
      BY <1>6, <1>9
    <2> QED
      BY <1>7, <2>1, <2>2, PackUnpacks
  <1>11. Packs(p)
    <2>1. p.data = d
      BY <1>7
    <2>2. 1 <= 255
      OBVIOUS
    <2> QED
      BY <1>6, <2>1, <2>2 DEF Packs, MAX_DATA_LENGTH
  <1>12. k = 0 => x = i
    BY <1>3
  <1>13. k # 0 => x = i + (k - 1)
    BY <1>3
  <1>14. p.target = b /\ p.index = x /\ p.data[1] = m
    BY <1>6, <1>7
  <1>15. Unpack(Pack(p)) = p
    BY <1>7, <1>8, <1>10, Zenon
  <1> QED
    BY <1>1, <1>10, <1>11, <1>12, <1>13, <1>14, <1>15

\* An answer, as the client unpacks it.
LEMMA AnswerUnpacks ==
  ASSUME memory \in Memories, NEW b \in BoardIds, NEW i \in 0 .. 255, NEW n \in 2 .. 255
  PROVE  /\ Unpacks(Answer(b, i, n)) /\ Unpack(Answer(b, i, n)) \in Received
         /\ Unpack(Answer(b, i, n)) =
              [source |-> b, target |-> HOST, command |-> READ_ACK, index |-> i,
               data |-> BoardBytes(b, i, n)]
PROOF
  <1>1. PICK d : d = BoardBytes(b, i, n)
    OBVIOUS
  <1>2. i \in Nat /\ n \in Nat /\ n <= 255 /\ i % 256 = i
    OBVIOUS
  <1>3. d \in Seq(Byte) /\ Len(d) = n
    BY <1>1, <1>2, BoardBytesType
  <1>4. Len(d) <= 255 /\ READ_ACK \in Command /\ b \in DeviceId
    BY <1>2, <1>3, BoardsAreDevices DEF Command
  <1>5. PICK p : p = [source |-> b, target |-> HOST, command |-> READ_ACK, index |-> i,
                      data |-> d]
    OBVIOUS
  <1>6. /\ Unpacks(Pack(p)) /\ Unpack(Pack(p)) \in Received
        /\ Unpack(Pack(p)) = [source |-> b, target |-> HOST, command |-> READ_ACK,
                              index |-> i % 256, data |-> d]
    BY <1>2, <1>3, <1>4, <1>5, BoardsAreDevices, PackUnpacks
  <1>7. Answer(b, i, n) = Pack(p)
    BY <1>1, <1>5 DEF Answer
  <1> QED
    BY <1>1, <1>2, <1>6, <1>7

\* The answer that matches the read under way is of the words asked for.
LEMMA MatchingAnswer ==
  ASSUME ReadInv, answer # <<>>, Matching
  PROVE  \E n \in 2 .. 255 :
            Unpack(answer).data = BoardBytes(Reg.board, Request.index, n)
PROOF
  <1>1. PICK b \in BoardIds, i \in 0 .. 255, n \in 2 .. 255 : answer = Answer(b, i, n)
    BY DEF ReadInv, AnswerIsOfMemory
  <1>2. memory \in Memories
    BY DEF ReadInv, ExchangeTypeOK
  <1>3. Unpack(answer) = [source |-> b, target |-> HOST, command |-> READ_ACK,
                          index |-> i, data |-> BoardBytes(b, i, n)]
    BY <1>1, <1>2, AnswerUnpacks
  <1>4. /\ Request.target = Reg.board /\ Request.command = READ
    BY DEF Request, ReadOf
  <1>5. b = Reg.board /\ i = Request.index
    BY <1>3, <1>4 DEF Matching, MatchesRequest, READ, INIT
  <1>6. Unpack(answer).data = BoardBytes(b, i, n)
    BY <1>3
  <1>7. Unpack(answer).data = BoardBytes(Reg.board, Request.index, n)
    BY <1>5, <1>6, Zenon
  <1> QED
    BY <1>7

\* What the client's step does not touch.
LEMMA MemoryStays ==
  ASSUME UNCHANGED <<memory, key>>
  PROVE  /\ Reg' = Reg /\ Meaning(Reg)' = Meaning(Reg)
         /\ BytesOf(Reg)' = BytesOf(Reg)
         /\ AsDocumented(Reg)' <=> AsDocumented(Reg)
         /\ \A b, i, n : BoardBytes(b, i, n)' = BoardBytes(b, i, n)
         /\ \A b, i, n : Answer(b, i, n)' = Answer(b, i, n)
PROOF
  <1>1. Reg' = Reg
    BY DEF Reg
  <1>2. \A b, i, n : BoardBytes(b, i, n)' = BoardBytes(b, i, n)
    BY DEF BoardBytes
  <1>3. \A b, i, n : Answer(b, i, n)' = Answer(b, i, n)
    BY <1>2 DEF Answer
  <1>4. BytesOf(Reg)' = BytesOf(Reg)
    BY DEF Reg, BytesOf, BoardBytes
  <1>5. Slots(Reg)' = Slots(Reg)
    BY DEF Reg, Slots
  <1>6. TextOf(Reg)' = TextOf(Reg)
    BY <1>4 DEF TextOf
  <1>7. Meaning(Reg)' = Meaning(Reg)
    BY <1>1, <1>4, <1>5, <1>6 DEF Meaning
  <1>8. AsDocumented(Reg)' <=> AsDocumented(Reg)
    BY <1>1, <1>5, <1>6, <1>7 DEF AsDocumented
  <1> QED
    BY <1>1, <1>2, <1>3, <1>4, <1>7, <1>8

LEMMA ReadRegister ==
  ASSUME ReadInv
  PROVE  /\ key \in ReadKeys /\ memory \in Memories
         /\ Regular(Reg) /\ WordsOf(Reg) \in 1 .. 127 /\ Reg.length = 2 * WordsOf(Reg)
         /\ Reg.length \in Nat /\ Reg.index \in Nat /\ Reg.board \in BoardIds
         /\ Reg.index + WordsOf(Reg) <= 256
         /\ ask \in 0 .. WordsOf(Reg)
PROOF
  <1>1. key \in ReadKeys /\ memory \in Memories /\ ask \in 0 .. WordsOf(Reg)
    BY DEF ReadInv, ExchangeTypeOK, Reg
  <1>2. Regular(Reg)
    BY <1>1, RegOfKey DEF Reg
  <1>3. PICK D : D = BoardBytes(Reg.board, Reg.index, Reg.length)
    OBVIOUS
  <1>4. WordsOf(Reg) \in 1 .. 127 /\ Reg.length = 2 * WordsOf(Reg)
    BY <1>1, <1>2, <1>3, RegisterWords
  <1>5. Reg.length \in 2 .. 255 /\ Reg.index \in Nat /\ Reg.board \in BoardIds
    BY <1>2 DEF Regular, BoardIds
  <1>6. Reg.index + WordsOf(Reg) <= 256
    BY <1>2 DEF Regular, WordsOf
  <1> QED
    BY <1>1, <1>2, <1>4, <1>5, <1>6

\* A register has been read in full: it is its bytes, and what they mean.
LEMMA FinishReads ==
  ASSUME ReadInv, UNCHANGED <<memory, key>>, request' = <<>>, answer' = <<>>,
         NEW data, data = BoardBytes(Reg.board, Reg.index, Reg.length), Finish(data)
  PROVE  ReadInv'
PROOF
  <1>1. /\ Regular(Reg) /\ memory \in Memories /\ Reg.length \in Nat /\ Reg.index \in Nat
        /\ Reg.board \in BoardIds /\ WordsOf(Reg) \in 1 .. 127
    BY ReadRegister
  <1>2. payload' = data /\ value' = Convert(Reg, data) /\ ask' = 0
    BY DEF Finish
  <1>3. data \in Seq(Byte) /\ Len(data) = Reg.length
    BY <1>1, BoardBytesType
  <1>4. /\ payload' = BytesOf(Reg)
        /\ AsDocumented(Reg) => value' = Meaning(Reg)
    BY <1>1, <1>2, DecodesToMeaning DEF BytesOf
  <1>5. ExchangeTypeOK'
    <2>1. memory' \in Memories /\ key' \in ReadKeys
      BY ReadRegister
    <2>2. ask' \in 0 .. WordsOf(RegisterOf(key'))
      <3>1. \A h \in 1 .. 127 : 0 \in 0 .. h
        OBVIOUS
      <3>2. RegisterOf(key') = Reg
        BY DEF Reg
      <3> QED
        BY <1>1, <1>2, <3>1, <3>2
    <2>3. payload' \in Seq(Byte) /\ Len(payload') <= RegisterOf(key').length
      <3>1. \A h \in Nat : h <= h
        OBVIOUS
      <3>2. RegisterOf(key') = Reg
        BY DEF Reg
      <3> QED
        BY <1>1, <1>2, <1>3, <3>1, <3>2
    <2> QED
      BY <1>2, <2>1, <2>2, <2>3 DEF ExchangeTypeOK
  <1>6. ReadsWhatIsThere'
    BY <1>4, MemoryStays DEF ReadsWhatIsThere
  <1>7. RequestIsOfRead' /\ AnswerIsOfMemory'
    BY DEF RequestIsOfRead, AnswerIsOfMemory
  <1>8. WalkedSoFar'
    BY <1>2 DEF WalkedSoFar
  <1> QED
    BY <1>5, <1>6, <1>7, <1>8 DEF ReadInv

\* The walk goes on with what it has read.
LEMMA WalkReads ==
  ASSUME ReadInv, ~Done, UNCHANGED <<memory, key>>, request' = <<>>, answer' = <<>>,
         NEW k \in 1 .. WordsOf(Reg), NEW data,
         data = BoardBytes(Reg.board, Reg.index, 2 * (k - 1)), Walk(k, data)
  PROVE  ReadInv'
PROOF
  <1>1. /\ Regular(Reg) /\ memory \in Memories /\ Reg.index \in Nat
        /\ Reg.board \in BoardIds
    BY ReadRegister
  <1>2. PICK h \in 1 .. 127 : h = WordsOf(Reg) /\ Reg.length = 2 * h
    BY ReadRegister
  <1>3. payload' = data /\ ask' = k /\ value' = value
    BY DEF Walk
  <1>4. k \in 1 .. h
    BY <1>2
  <1>5. PICK m \in Nat : m = 2 * (k - 1) /\ m <= 2 * h
    BY <1>4
  <1>6. data \in Seq(Byte) /\ Len(data) = m
    BY <1>1, <1>5, BoardBytesType
  <1>7. ExchangeTypeOK'
    <2>1. memory' \in Memories /\ key' \in ReadKeys
      BY ReadRegister
    <2>2. RegisterOf(key') = Reg
      BY DEF Reg
    <2>3. ask' \in 0 .. WordsOf(RegisterOf(key'))
      <3>1. k \in 0 .. h
        BY <1>4
      <3> QED
        BY <1>2, <1>3, <2>2, <3>1
    <2>4. payload' \in Seq(Byte) /\ Len(payload') <= RegisterOf(key').length
      BY <1>2, <1>3, <1>5, <1>6, <2>2
    <2>5. value' = NoValue
      BY <1>3 DEF Done
    <2> QED
      BY <2>1, <2>3, <2>4, <2>5 DEF ExchangeTypeOK
  <1>8. ReadsWhatIsThere'
    BY <1>3 DEF ReadsWhatIsThere, Done
  <1>9. RequestIsOfRead' /\ AnswerIsOfMemory'
    BY DEF RequestIsOfRead, AnswerIsOfMemory
  <1>10. WalkedSoFar'
    BY <1>3, MemoryStays DEF WalkedSoFar
  <1> QED
    BY <1>7, <1>8, <1>9, <1>10 DEF ReadInv

\* The walk starts with nothing read.
LEMMA WalkStarts ==
  ASSUME ReadInv, ~Done, UNCHANGED <<memory, key>>, request' = <<>>, answer' = <<>>,
         Walk(1, <<>>)
  PROVE  ReadInv'
PROOF
  <1>1. /\ memory \in Memories /\ Reg.index \in Nat /\ Reg.board \in BoardIds
        /\ WordsOf(Reg) \in 1 .. 127
    BY ReadRegister
  <1>2. PICK m \in Nat : m = 2 * (1 - 1) /\ m = 0
    OBVIOUS
  <1>3. PICK s : s = BoardBytes(Reg.board, Reg.index, m)
    OBVIOUS
  <1>4. s \in Seq(Byte) /\ Len(s) = 0
    BY <1>1, <1>2, <1>3, BoardBytesType
  <1>5. s = <<>>
    BY <1>4, EmptySeq
  <1>6. <<>> = BoardBytes(Reg.board, Reg.index, 2 * (1 - 1))
    BY <1>2, <1>3, <1>5
  <1>7. 1 \in 1 .. WordsOf(Reg)
    <2>1. \A h \in 1 .. 127 : 1 \in 1 .. h
      OBVIOUS
    <2> QED
      BY <1>1, <2>1
  <1> QED
    BY <1>6, <1>7, WalkReads

LEMMA FreshRead ==
  ASSUME NEW k \in ReadKeys
  PROVE  /\ 0 \in 0 .. WordsOf(RegisterOf(k))
         /\ <<>> \in Seq(Byte) /\ Len(<<>>) <= RegisterOf(k).length
PROOF
  <1>1. RegisterOf(k).length \in 2 .. 255
    BY RegOfKey DEF Regular
  <1>2. PICK n \in 2 .. 255 : n = RegisterOf(k).length
    BY <1>1
  <1>3. n \div 2 \in Nat /\ 0 <= n
    OBVIOUS
  <1>4. 0 \in 0 .. n \div 2
    BY <1>3
  <1> QED
    BY <1>2, <1>3, <1>4, EmptySeq DEF WordsOf

\* An answer turns up that was made of the memory.
LEMMA AnswerArrives ==
  ASSUME ReadInv, UNCHANGED <<memory, key, ask, request, payload, value>>,
         request # <<>>,
         NEW b \in BoardIds, NEW i \in 0 .. 255, NEW n \in 2 .. 255,
         answer' = Answer(b, i, n)
  PROVE  ReadInv'
PROOF
  <1>1. memory \in Memories
    BY ReadRegister
  <1>2. Unpacks(answer') /\ Unpack(answer') \in Received
    BY <1>1, AnswerUnpacks
  <1>3. value = NoValue
    BY DEF ReadInv, ExchangeTypeOK
  <1>4. ExchangeTypeOK'
    BY <1>2, <1>3 DEF ReadInv, ExchangeTypeOK
  <1>5. RequestIsOfRead'
    BY DEF ReadInv, RequestIsOfRead, Request, Reg
  <1>6. AnswerIsOfMemory'
    <2>1. answer' = Answer(b, i, n)'
      BY MemoryStays
    <2> QED
      BY <2>1 DEF AnswerIsOfMemory
  <1>7. WalkedSoFar'
    BY MemoryStays DEF ReadInv, WalkedSoFar
  <1>8. ReadsWhatIsThere'
    BY <1>3 DEF ReadsWhatIsThere, Done
  <1> QED
    BY <1>4, <1>5, <1>6, <1>7, <1>8 DEF ReadInv

LEMMA ServeReads ==
  ASSUME ReadInv, Serve
  PROVE  ReadInv'
PROOF
  <1>1. request # <<>> /\ UNCHANGED <<memory, key, ask, request, payload, value>>
    BY DEF Serve
  <1>2. request = Pack(Request)
    BY <1>1 DEF ReadInv, RequestIsOfRead
  <1>3. Regular(Reg) /\ ask \in 0 .. WordsOf(Reg) /\ Request = ReadOf(Reg, ask)
    BY ReadRegister DEF Request
  <1>4. /\ Unpack(request) = Request /\ Request.target \in BoardIds
        /\ Request.index \in 0 .. 255 /\ Request.data[1] \in 2 .. 255
    <2>1. PICK r, k, p : r = Reg /\ k = ask /\ p = Request
      OBVIOUS
    <2>2. Regular(r) /\ k \in 0 .. WordsOf(r) /\ p = ReadOf(r, k)
      BY <1>3, <2>1
    <2>3. /\ Unpack(Pack(p)) = p /\ p.target = r.board /\ r.board \in BoardIds
          /\ p.index \in 0 .. 255 /\ p.data[1] \in 2 .. 255
      <3>1. Unpack(Pack(p)) = p
        BY <2>2, ReadUnpacks
      <3>2. p.target = r.board /\ r.board \in BoardIds
        BY <2>2, ReadUnpacks
      <3>3. p.index \in 0 .. 255
        BY <2>2, ReadUnpacks
      <3>4. p.data[1] \in 2 .. 255
        BY <2>2, ReadUnpacks
      <3> QED
        BY <3>1, <3>2, <3>3, <3>4
    <2> QED
      BY <1>2, <2>1, <2>3, Zenon
  <1>5. PICK n \in {Request.data[1], 2} : answer' = Answered(Request, n)
    BY <1>4 DEF Serve
  <1>6. n \in 2 .. 255
    BY <1>4, <1>5
  <1>7. answer' = Answer(Request.target, Request.index, n)
    BY <1>5 DEF Answered, Answer
  <1> QED
    BY <1>1, <1>4, <1>6, <1>7, AnswerArrives

LEMMA StrayReads ==
  ASSUME ReadInv, Stray
  PROVE  ReadInv'
PROOF
  <1>1. request # <<>> /\ UNCHANGED <<memory, key, ask, request, payload, value>>
    BY DEF Stray
  <1>2. PICK r \in Registers : \E k \in {0, 1, WordsOf(r)} :
            answer' = Answered(ReadOf(r, k), IF k = 0 THEN r.length ELSE 2)
    BY DEF Stray
  <1>3. PICK k \in {0, 1, WordsOf(r)} :
            answer' = Answered(ReadOf(r, k), IF k = 0 THEN r.length ELSE 2)
    BY <1>2
  <1>4. Regular(r)
    BY TableRows
  <1>5. k \in 0 .. WordsOf(r)
    <2>1. PICK h \in Nat : h = WordsOf(r) /\ h >= 1
      <3>1. r.length \in 2 .. 255
        BY <1>4 DEF Regular
      <3>2. r.length \div 2 \in Nat /\ r.length \div 2 >= 1
        BY <3>1
      <3> QED
        BY <3>2 DEF WordsOf
    <2>2. k \in {0, 1, h}
      BY <2>1
    <2>3. k \in 0 .. h
      BY <2>1, <2>2
    <2> QED
      BY <2>1, <2>3
  <1>6. PICK p : p = ReadOf(r, k)
    OBVIOUS
  <1>7. p.target \in BoardIds /\ p.index \in 0 .. 255
    <2>1. p.target = r.board /\ r.board \in BoardIds
      BY <1>4, <1>5, <1>6, ReadUnpacks
    <2>2. p.index \in 0 .. 255
      BY <1>4, <1>5, <1>6, ReadUnpacks
    <2> QED
      BY <2>1, <2>2
  <1>8. PICK n \in 2 .. 255 : n = IF k = 0 THEN r.length ELSE 2
    <2>1. r.length \in 2 .. 255 /\ 2 \in 2 .. 255
      BY <1>4 DEF Regular
    <2> QED
      BY <2>1
  <1>9. answer' = Answer(p.target, p.index, n)
    BY <1>3, <1>6, <1>8 DEF Answered, Answer
  <1> QED
    BY <1>1, <1>7, <1>9, AnswerArrives

LEMMA SendReads ==
  ASSUME ReadInv, Send
  PROVE  ReadInv'
PROOF
  <1>1. /\ value = NoValue /\ request' = Pack(Request)
        /\ UNCHANGED <<memory, key, ask, answer, payload, value>>
    BY DEF Send, Done
  <1>2. Regular(Reg) /\ ask \in 0 .. WordsOf(Reg) /\ Request = ReadOf(Reg, ask)
    BY ReadRegister DEF Request
  <1>3. Unpacks(request') /\ Unpack(request') \in Received
    BY <1>1, <1>2, ReadUnpacks
  <1>4. ExchangeTypeOK'
    BY <1>1, <1>3 DEF ReadInv, ExchangeTypeOK
  <1>5. RequestIsOfRead'
    BY <1>1 DEF RequestIsOfRead, Request, Reg
  <1>6. AnswerIsOfMemory' /\ WalkedSoFar'
    BY <1>1, MemoryStays DEF ReadInv, AnswerIsOfMemory, WalkedSoFar
  <1>7. ReadsWhatIsThere'
    BY <1>1 DEF ReadsWhatIsThere, Done
  <1> QED
    BY <1>4, <1>5, <1>6, <1>7 DEF ReadInv

LEMMA TakeBulkReads ==
  ASSUME ReadInv, TakeBulk
  PROVE  ReadInv'
PROOF
  <1>1. /\ answer # <<>> /\ Matching /\ ask = 0
        /\ request' = <<>> /\ answer' = <<>> /\ UNCHANGED <<memory, key>>
    BY DEF TakeBulk
  <1>2. ~Done
    BY <1>1 DEF ReadInv, ExchangeTypeOK, Done
  <1>3. /\ Regular(Reg) /\ memory \in Memories /\ Reg.length \in Nat /\ Reg.index \in Nat
        /\ Reg.board \in BoardIds /\ WordsOf(Reg) \in 1 .. 127
    BY ReadRegister
  <1>4. Request.index = Reg.index
    BY <1>1, <1>3 DEF Request, ReadOf
  <1>5. PICK n \in 2 .. 255 : Unpack(answer).data = BoardBytes(Reg.board, Reg.index, n)
    BY <1>1, <1>4, MatchingAnswer
  <1>6. PICK data : data = BoardBytes(Reg.board, Reg.index, n)
    OBVIOUS
  <1>7. Len(data) = n
    <2>1. n \in Nat
      OBVIOUS
    <2> QED
      BY <1>3, <1>6, <2>1, BoardBytesType
  <1>8. CASE n >= Reg.length
    <2>1. SubSeq(data, 1, Reg.length) = BoardBytes(Reg.board, Reg.index, Reg.length)
      <3>1. n \in Nat /\ Reg.length \in 0 .. n
        BY <1>3, <1>8
      <3> QED
        BY <1>3, <1>6, <3>1, BoardBytesPrefix
    <2>2. Finish(SubSeq(data, 1, Reg.length))
      <3>1. ~(n < Reg.length)
        BY <1>3, <1>8
      <3> QED
        BY <1>5, <1>6, <1>7, <3>1 DEF TakeBulk
    <2> QED
      BY <1>1, <2>1, <2>2, FinishReads
  <1>9. CASE ~(n >= Reg.length)
    <2>1. Walk(1, <<>>)
      BY <1>5, <1>6, <1>7, <1>9 DEF TakeBulk
    <2> QED
      BY <1>1, <1>2, <1>3, <2>1, WalkStarts
  <1> QED
    BY <1>8, <1>9

LEMMA TakeWordReads ==
  ASSUME ReadInv, TakeWord
  PROVE  ReadInv'
PROOF
  <1>1. /\ answer # <<>> /\ Matching /\ ask > 0
        /\ request' = <<>> /\ answer' = <<>> /\ UNCHANGED <<memory, key>>
    BY DEF TakeWord
  <1>2. ~Done
    BY <1>1 DEF ReadInv, ExchangeTypeOK, Done
  <1>3. memory \in Memories /\ Reg.index \in Nat /\ Reg.board \in BoardIds
    BY ReadRegister
  <1>4. PICK h \in 1 .. 127 : h = WordsOf(Reg) /\ Reg.length = 2 * h /\ Reg.index + h <= 256
    BY ReadRegister
  <1>5. PICK j \in Nat : ask = j + 1 /\ j + 1 <= h /\ Reg.index + j <= 255
    <2>1. ask \in 0 .. h
      BY <1>4, ReadRegister
    <2>2. ask - 1 \in Nat /\ ask = (ask - 1) + 1 /\ (ask - 1) + 1 <= h
      BY <1>1, <2>1
    <2>3. Reg.index + (ask - 1) <= 255
      BY <1>3, <1>4, <2>2
    <2> QED
      BY <2>2, <2>3
  <1>6. PICK i \in Nat : i = Reg.index + j
    BY <1>3
  <1>7. Request.index = i
    <2>1. ask # 0 /\ ask - 1 = j
      BY <1>5
    <2> QED
      BY <1>6, <2>1 DEF Request, ReadOf
  <1>8. PICK n \in 2 .. 255 : Unpack(answer).data = BoardBytes(Reg.board, i, n)
    BY <1>1, <1>7, MatchingAnswer
  <1>9. payload = BoardBytes(Reg.board, Reg.index, 2 * j)
    <2>1. ask - 1 = j
      BY <1>5
    <2> QED
      BY <1>1, <2>1 DEF ReadInv, WalkedSoFar
  <1>10. PICK data : data = payload \o WordAt(Unpack(answer).data, 0)
    OBVIOUS
  <1>11. data = BoardBytes(Reg.board, Reg.index, 2 * (j + 1))
    <2>1. n \in Nat /\ n >= 2
      OBVIOUS
    <2>2. BoardBytes(Reg.board, Reg.index, 2 * j)
              \o WordAt(BoardBytes(Reg.board, Reg.index + j, n), 0)
            = BoardBytes(Reg.board, Reg.index, 2 * (j + 1))
      BY <1>3, <1>5, <2>1, BoardBytesNext
    <2> QED
      BY <1>6, <1>8, <1>9, <1>10, <2>2
  <1>12. CASE ask = WordsOf(Reg)
    <2>1. 2 * (j + 1) = Reg.length
      BY <1>4, <1>5, <1>12
    <2>2. Finish(data)
      <3>1. ~(ask < WordsOf(Reg))
        BY <1>4, <1>5, <1>12
      <3> QED
        BY <1>10, <3>1 DEF TakeWord
    <2> QED
      BY <1>1, <1>11, <2>1, <2>2, FinishReads
  <1>13. CASE ask # WordsOf(Reg)
    <2>1. Walk(ask + 1, data)
      BY <1>10, <1>13 DEF TakeWord
    <2>2. PICK k \in 1 .. h : k = ask + 1
      BY <1>4, <1>5, <1>13
    <2>3. 2 * (k - 1) = 2 * (j + 1)
      BY <1>5, <2>2
    <2>4. data = BoardBytes(Reg.board, Reg.index, 2 * (k - 1)) /\ k \in 1 .. WordsOf(Reg)
      BY <1>4, <1>11, <2>3
    <2> QED
      BY <1>1, <1>2, <2>1, <2>2, <2>4, WalkReads
  <1> QED
    BY <1>12, <1>13

LEMMA TimeOutReads ==
  ASSUME ReadInv, BulkTimesOut
  PROVE  ReadInv'
PROOF
  <1>1. /\ answer' = <<>> /\ request' = <<>> /\ UNCHANGED <<memory, key>> /\ Walk(1, <<>>)
        /\ request # <<>>
    BY DEF BulkTimesOut
  <1>2. ~Done
    BY <1>1 DEF ReadInv, ExchangeTypeOK, Done
  <1> QED
    BY <1>1, <1>2, WalkStarts

LEMMA NextReadReads ==
  ASSUME ReadInv, NextRead
  PROVE  ReadInv'
PROOF
  <1>1. PICK k \in ReadKeys : Begin(k)
    BY DEF NextRead
  <1>2. /\ key' = k /\ ask' = 0 /\ payload' = <<>> /\ value' = NoValue
        /\ request' = <<>> /\ answer' = <<>> /\ memory' = memory
    BY <1>1 DEF NextRead, Begin
  <1>3. memory \in Memories
    BY ReadRegister
  <1>4. ExchangeTypeOK'
    BY <1>2, <1>3, FreshRead DEF ExchangeTypeOK
  <1>5. ReadsWhatIsThere' /\ RequestIsOfRead' /\ AnswerIsOfMemory' /\ WalkedSoFar'
    BY <1>2 DEF ReadsWhatIsThere, Done, RequestIsOfRead, AnswerIsOfMemory, WalkedSoFar
  <1> QED
    BY <1>4, <1>5 DEF ReadInv

LEMMA ReadInit == ExchangeInit => ReadInv
PROOF
  <1> SUFFICES ASSUME ExchangeInit PROVE ReadInv
    OBVIOUS
  <1>1. /\ memory \in Memories /\ key \in ReadKeys /\ ask = 0 /\ payload = <<>>
        /\ value = NoValue /\ request = <<>> /\ answer = <<>>
    BY DEF ExchangeInit
  <1>2. ExchangeTypeOK
    BY <1>1, FreshRead DEF ExchangeTypeOK
  <1>3. ReadsWhatIsThere /\ RequestIsOfRead /\ AnswerIsOfMemory /\ WalkedSoFar
    BY <1>1 DEF ReadsWhatIsThere, Done, RequestIsOfRead, AnswerIsOfMemory, WalkedSoFar
  <1> QED
    BY <1>2, <1>3 DEF ReadInv

LEMMA ReadStep == ReadInv /\ [ExchangeNext]_exchangeVars => ReadInv'
PROOF
  <1> SUFFICES ASSUME ReadInv, [ExchangeNext]_exchangeVars PROVE ReadInv'
    OBVIOUS
  <1>1. CASE Ignore
    <2>1. answer' = <<>> /\ UNCHANGED <<memory, key, ask, request, payload, value>>
      BY <1>1 DEF Ignore
    <2>2. ExchangeTypeOK'
      BY <2>1 DEF ReadInv, ExchangeTypeOK
    <2>3. RequestIsOfRead' /\ AnswerIsOfMemory'
      BY <2>1 DEF ReadInv, RequestIsOfRead, Request, Reg, AnswerIsOfMemory
    <2>4. WalkedSoFar' /\ ReadsWhatIsThere'
      BY <2>1, MemoryStays DEF ReadInv, WalkedSoFar, ReadsWhatIsThere, Done
    <2> QED
      BY <2>2, <2>3, <2>4 DEF ReadInv
  <1>2. CASE UNCHANGED exchangeVars
    <2>1. UNCHANGED <<memory, key, ask, request, answer, payload, value>>
      BY <1>2 DEF exchangeVars
    <2>2. ExchangeTypeOK'
      BY <2>1 DEF ReadInv, ExchangeTypeOK
    <2>3. RequestIsOfRead'
      BY <2>1 DEF ReadInv, RequestIsOfRead, Request, Reg
    <2>4. AnswerIsOfMemory' /\ WalkedSoFar' /\ ReadsWhatIsThere'
      BY <2>1, MemoryStays
         DEF ReadInv, AnswerIsOfMemory, WalkedSoFar, ReadsWhatIsThere, Done
    <2> QED
      BY <2>2, <2>3, <2>4 DEF ReadInv
  <1> QED
    BY <1>1, <1>2, NextReadReads, ServeReads, StrayReads, SendReads, TakeBulkReads,
       TakeWordReads, TimeOutReads DEF ExchangeNext

LEMMA ReadHolds == ExchangeSpec => []ReadInv
PROOF
  BY ReadInit, ReadStep, PTL DEF ExchangeSpec

\* Requests and answers are packets, and a read never holds more bytes than its
\* register has.
THEOREM ExchangeTypes == ExchangeSpec => []ExchangeTypeOK
PROOF
  <1>1. ReadInv => ExchangeTypeOK
    BY DEF ReadInv
  <1> QED
    BY <1>1, ReadHolds, PTL

\* Whatever the boards' memories hold, and whatever other answers turn up, a read
\* of a register yields its own bytes and no others (_read_register), decoded to
\* what the decoder's docstring and units say; but for cells and texts that the
\* decoders treat otherwise (AsDocumented).
THEOREM ReadsYieldMeaning == ExchangeSpec => []ReadsWhatIsThere
PROOF
  <1>1. ReadInv => ReadsWhatIsThere
    BY DEF ReadInv
  <1> QED
    BY <1>1, ReadHolds, PTL

====
