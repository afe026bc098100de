------------------------------ MODULE Exchange ------------------------------
(***************************************************************************)
(* Reading the E2 Pro's registers byte by byte: the requests and answers   *)
(* of NinebotClient._read_register as they are packed, matched, put        *)
(* together and decoded, for every register of the table.  The scooter's   *)
(* memory stands still here and messages are not lost (RegisterRead has    *)
(* that); instead any answer to any read may turn up, unasked.             *)
(***************************************************************************)
EXTENDS RegisterMap

CONSTANTS
    Boards,             \* the boards read
    Memories,           \* bound: what the boards' memories may be filled with
    Word(_, _, _),      \* a memory's word at an index of a board
    NoValue

ASSUME ExchangeAssumption ==
    \A fill \in Memories, board \in {MCU, BMS, BLE}, index \in Byte :
        Word(fill, board, index) \in 0 .. WORD_RANGE - 1

VARIABLES
    memory,     \* what the boards' memories are filled with
    key,        \* the register being read, or read last
    ask,        \* 0: the bulk read, k: the walk's read of the k-th word
    request,    \* the bytes of the request under way, <<>> when there is none
    answer,     \* the bytes of the answer under way
    payload,    \* what has been read of the register
    value       \* what it decoded to, NoValue while it is being read

exchangeVars == <<memory, key, ask, request, answer, payload, value>>

ReadKeys == {r.key : r \in {x \in Registers : x.board \in Boards}}

ExchangeTypeOK ==
    /\ memory \in Memories
    /\ key \in ReadKeys
    /\ ask \in 0 .. WordsOf(RegisterOf(key))
    /\ request # <<>> => Unpacks(request) /\ Unpack(request) \in Received
    /\ answer # <<>> => Unpacks(answer) /\ Unpack(answer) \in Received
    /\ payload \in Seq(Byte) /\ Len(payload) <= RegisterOf(key).length
    /\ value # NoValue => ask = 0 /\ request = <<>> /\ answer = <<>>

Begin(k) ==
    /\ key' = k
    /\ ask' = 0 /\ payload' = <<>> /\ value' = NoValue
    /\ request' = <<>> /\ answer' = <<>>

ExchangeInit ==
    /\ memory \in Memories
    /\ \E k \in ReadKeys :
         /\ key = k
         /\ ask = 0 /\ payload = <<>> /\ value = NoValue
         /\ request = <<>> /\ answer = <<>>

Done == value # NoValue

NextRead ==
    /\ Done
    /\ \E k \in ReadKeys : Begin(k)
    /\ UNCHANGED memory
-----------------------------------------------------------------------------
(* The scooter.                                                            *)

\* What a board answers to a read of n bytes from a word on.
BoardBytes(board, index, n) ==
    [i \in 1 .. n |->
        LET word == Word(memory, board, (index + (i - 1) \div 2) % 256)
        IN  IF i % 2 = 1 THEN word % 256 ELSE word \div 256]

Answered(read, n) ==
    Pack([source |-> read.target, target |-> HOST, command |-> READ_ACK,
          index |-> read.index, data |-> BoardBytes(read.target, read.index, n)])

\* The scooter answers, in full or, a bulk read, with a single word.
Serve ==
    /\ request # <<>> /\ answer = <<>>
    /\ LET read == Unpack(request)
       IN  \E n \in {read.data[1], 2} : answer' = Answered(read, n)
    /\ UNCHANGED <<memory, key, ask, request, payload, value>>

\* The read of word k of a register, or for k = 0 of the whole of it.
ReadOf(r, k) ==
    [source |-> HOST, target |-> r.board, command |-> READ,
     index |-> r.index + (IF k = 0 THEN 0 ELSE k - 1),
     data |-> <<IF k = 0 THEN r.length ELSE 2>>]

\* The answer to some read of another register turns up.
Stray ==
    /\ request # <<>> /\ answer = <<>>
    /\ \E r \in {x \in Registers : x.key # key /\ x.board \in Boards} :
         \E k \in {0, 1, WordsOf(r)} :
            answer' = Answered(ReadOf(r, k), IF k = 0 THEN r.length ELSE 2)
    /\ UNCHANGED <<memory, key, ask, request, payload, value>>
-----------------------------------------------------------------------------
(* The client.  Definitions marked "fault" are seeded faults.              *)

Reg == RegisterOf(key)

\* The packet _read_register asks with.
Request == ReadOf(Reg, ask)

\* _send.
Send ==
    /\ ~Done /\ request = <<>>
    /\ Packs(Request)
    /\ request' = Pack(Request)
    /\ UNCHANGED <<memory, key, ask, answer, payload, value>>

Matching == MatchesRequest(Unpack(answer), Request)

\* _request: not what was asked for.
Ignore ==
    /\ answer # <<>> /\ ~Matching
    /\ answer' = <<>>
    /\ UNCHANGED <<memory, key, ask, request, payload, value>>

\* The read is complete: convert it.
Finish(data) ==
    /\ Converts(Reg, data)
    /\ payload' = data
    /\ value' = Convert(Reg, data)
    /\ ask' = 0

\* The walk goes on to word k.
Walk(k, data) ==
    /\ payload' = data
    /\ ask' = k
    /\ UNCHANGED value

\* The bulk read was answered.
TakeBulk ==
    /\ answer # <<>> /\ Matching
    /\ ask = 0
    /\ LET data == Unpack(answer).data
       IN  \/ Len(data) >= Reg.length /\ Finish(SubSeq(data, 1, Reg.length))
           \/ Len(data) < Reg.length /\ Walk(1, <<>>)
    /\ request' = <<>> /\ answer' = <<>>
    /\ UNCHANGED <<memory, key>>

TakeWord_PastEnd ==   \* fault: the walk does not end with the register
    /\ answer # <<>> /\ Matching
    /\ ask > 0
    /\ Walk(ask + 1, payload \o WordAt(Unpack(answer).data, 0))
    /\ request' = <<>> /\ answer' = <<>>
    /\ UNCHANGED <<memory, key>>

\* A word of the walk was answered.
TakeWord ==
    /\ answer # <<>> /\ Matching
    /\ ask > 0
    /\ LET data == payload \o WordAt(Unpack(answer).data, 0)
       IN  \/ ask = WordsOf(Reg) /\ Finish(data)
           \/ ask < WordsOf(Reg) /\ Walk(ask + 1, data)
    /\ request' = <<>> /\ answer' = <<>>
    /\ UNCHANGED <<memory, key>>

\* The bulk read of more than one word is not answered.
BulkTimesOut ==
    /\ request # <<>> /\ answer = <<>>
    /\ ask = 0 /\ WordsOf(Reg) > 1
    /\ Walk(1, <<>>)
    /\ request' = <<>>
    /\ UNCHANGED <<memory, key, answer>>

ExchangeNext ==
    \/ NextRead \/ Serve \/ Stray
    \/ Send \/ Ignore \/ TakeBulk \/ TakeWord \/ BulkTimesOut

ExchangeSpec == ExchangeInit /\ [][ExchangeNext]_exchangeVars
-----------------------------------------------------------------------------
\* What the words of a register mean, as the docstrings of its decoder and the
\* units of the table have it.
Slots(r) == [k \in 1 .. WordsOf(r) |-> Word(memory, r.board, r.index + k - 1)]

BytesOf(r) == BoardBytes(r.board, r.index, r.length)

\* The bytes before the first NUL.
TextOf(r) ==
    LET bytes == BytesOf(r)
        Before(n) == \A i \in 1 .. n : bytes[i] # 0
        n == CHOOSE n \in 0 .. Len(bytes) :
                 Before(n) /\ (n < Len(bytes) => ~Before(n + 1))
    IN  SubSeq(bytes, 1, n)

ASCII_BYTES == 0 .. 127
USED_SLOTS == 1 .. WORD_RANGE - 1

\* "ignoring undecodable trailing bytes" (_string), "Trailing empty slots are
\* dropped" (_cell_voltages).
WithoutTail(s, used) == SubSeq(s, 1, Max({0} \union {k \in DOMAIN s : s[k] \in used}))

HasHole(s, used) == \E j, k \in DOMAIN s : j < k /\ s[j] \notin used /\ s[k] \in used

Meaning(r) ==
    LET word == Slots(r)[1]
    IN  CASE r.decode = "u16" -> word
          [] r.decode = "s16" -> CHOOSE n \in -(WORD_RANGE \div 2) .. WORD_RANGE \div 2 - 1 :
                                n % WORD_RANGE = word
          [] r.decode = "u32" -> Slots(r)[2] * WORD_RANGE + word
          [] r.decode = "hex" -> BytesOf(r)
          [] r.decode = "string" -> WithoutTail(TextOf(r), ASCII_BYTES)
          [] r.decode = "version" ->
               CHOOSE v \in (0 .. 255) \X (0 .. 15) \X (0 .. 15) :
                   256 * v[1] + 16 * v[2] + v[3] = word
          [] r.decode = "temperatures" -> <<(word % 256) - 20, (word \div 256) - 20>>
          [] r.decode = "cells" -> WithoutTail(Slots(r), USED_SLOTS)
          [] r.decode = "bit0" -> word % 2 # 0

\* The words that the decoders treat as their docstrings say.  The code also
\* drops empty slots and undecodable bytes that do not trail, and strips blanks
\* from a text.
AsDocumented(r) ==
    /\ r.decode = "cells" => ~HasHole(Slots(r), USED_SLOTS)
    /\ r.decode = "string" =>
         /\ ~HasHole(TextOf(r), ASCII_BYTES)
         /\ \A k \in {1, Len(Meaning(r))} \intersect DOMAIN Meaning(r) :
                Meaning(r)[k] \notin Blank

\* A read of any register of the table, in bulk or word by word, and whatever
\* other answers turn up meanwhile, yields the register's own bytes and no
\* others, decoded to what their documentation says they mean, wherever the
\* decoders keep to it (AsDocumented).
ReadsWhatIsThere ==
    Done => payload = BytesOf(Reg) /\ (AsDocumented(Reg) => value = Meaning(Reg))
=============================================================================
