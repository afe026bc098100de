---------------------------- MODULE RegisterRead ----------------------------
(***************************************************************************)
(* NinebotClient._read_register over _request: one bulk read of the whole  *)
(* register, and when that is short or times out a walk over its words.    *)
(* Requests and answers each travel in order (Framing); either can be      *)
(* lost, an answer can come after its request was given up, and an answer  *)
(* is matched to the request being waited for by its index alone.          *)
(***************************************************************************)
EXTENDS Naturals, Sequences, FiniteSets

CONSTANTS
    Registers, NoRegister,
    First, Words,           \* [Registers -> Nat]
    Addresses, Values,      \* the words of one board, and what they hold
    MaxHeld,                \* bound: contents of memory seen by one read
    MaxUnderway             \* bound: messages under way when a read begins

ASSUME RegisterReadAssumption ==
    /\ NoRegister \notin Registers
    /\ First \in [Registers -> Nat] /\ Words \in [Registers -> Nat \ {0}]
    /\ \A r \in Registers : First[r] .. First[r] + Words[r] - 1 \subseteq Addresses
    /\ Addresses \subseteq Nat
    /\ MaxHeld \in Nat /\ MaxUnderway \in Nat

VARIABLES
    memory,     \* the board's words
    requests,   \* requests on their way to the scooter
    answers,    \* answers on their way back, _responses among them
    register,   \* the register being read
    ask,        \* 0: the bulk read, k: the walk's read of the k-th word
    waiting,    \* the request was written; _request waits in _receive
    payload,    \* the walk's payload so far
    result,     \* what the last read returned, <<>> if it raised
    held,       \* history: memory as it was since the read began
    clean       \* history: nothing was under way when the latest read began,
                \* nor when it failed, and no answer to it was empty

linkVars == <<requests, answers>>
readVars == <<register, ask, waiting, payload, result>>
vars == <<memory, linkVars, readVars, held, clean>>

\* A message carries, as history, which of the read's requests it belongs to.
Requests ==
    {m \in [first : Addresses, words : Nat \ {0}, ask : Nat] :
        m.first .. m.first + m.words - 1 \subseteq Addresses}
Answers == [first : Addresses, data : Seq(Values), ask : Nat]

TypeOK ==
    /\ memory \in [Addresses -> Values]
    /\ requests \in Seq(Requests) /\ answers \in Seq(Answers)
    /\ register \in Registers \union {NoRegister}
    /\ ask \in Nat /\ (register # NoRegister => ask <= Words[register])
    /\ waiting \in BOOLEAN
    /\ payload \in Seq(Values) /\ result \in Seq(Values)
    /\ held \subseteq [Addresses -> Values]
    /\ clean \in BOOLEAN

Init ==
    /\ memory \in [Addresses -> Values]
    /\ requests = <<>> /\ answers = <<>>
    /\ register = NoRegister /\ ask = 0 /\ waiting = FALSE
    /\ payload = <<>> /\ result = <<>>
    /\ held = {}
    /\ clean = TRUE

Reading == register # NoRegister
-----------------------------------------------------------------------------
(* The scooter and the link.                                               *)

Change(a, v) ==
    /\ memory' = [memory EXCEPT ![a] = v]
    /\ held' = held \union {memory'}
    /\ Cardinality(held') <= MaxHeld
    /\ UNCHANGED <<linkVars, readVars, clean>>

\* The scooter answers the next request with its words as they are now, or, as
\* some boards do, with the first n of them.
Answer(n) ==
    /\ requests # <<>>
    /\ LET request == Head(requests)
       IN  /\ n <= request.words
           /\ answers' = Append(answers,
                [first |-> request.first,
                 data  |-> [k \in 1 .. n |-> memory[request.first + k - 1]],
                 ask   |-> request.ask])
    /\ requests' = Tail(requests)
    /\ clean' = (clean /\ n > 0)
    /\ UNCHANGED <<memory, readVars, held>>

\* The scooter does not answer, or the request does not reach it.
LoseRequest ==
    /\ requests # <<>>
    /\ requests' = Tail(requests)
    /\ UNCHANGED <<memory, answers, readVars, held, clean>>

\* The notification is lost, or _dispatch drops the frame.
LoseAnswer ==
    /\ answers # <<>>
    /\ answers' = Tail(answers)
    /\ UNCHANGED <<memory, requests, readVars, held, clean>>

\* _connect_transport: the queue is emptied with the old link.
Reconnect ==
    /\ ~Reading
    /\ requests' = <<>> /\ answers' = <<>>
    /\ UNCHANGED <<memory, readVars, held, clean>>

\* Nothing that was asked for can still be answered.
Quiet == requests = <<>> /\ answers = <<>>
-----------------------------------------------------------------------------
(* The client.  Definitions marked "fault" are seeded faults: no action    *)
(* uses them.                                                              *)

\* async_poll or async_read turns to a register.
Begin(r) ==
    /\ ~Reading
    /\ Len(requests) + Len(answers) <= MaxUnderway
    /\ register' = r
    /\ ask' = 0 /\ waiting' = FALSE /\ payload' = <<>> /\ result' = <<>>
    /\ held' = {memory}
    /\ clean' = Quiet
    /\ UNCHANGED <<memory, linkVars>>

Index == First[register] + (IF ask = 0 THEN 0 ELSE ask - 1)

\* _send.
Ask ==
    /\ Reading /\ ~waiting
    /\ requests' = Append(requests,
           [first |-> Index,
            words |-> IF ask = 0 THEN Words[register] ELSE 1,
            ask   |-> ask])
    /\ waiting' = TRUE
    /\ UNCHANGED <<memory, answers, register, ask, payload, result, held, clean>>

\* The read raises.
Raise ==
    /\ register' = NoRegister
    /\ waiting' = FALSE
    /\ clean' = (clean /\ Quiet)
    /\ UNCHANGED <<memory, linkVars, ask, payload, result, held>>

\* The write fails: NinebotConnectionError leaves _read_register at once.
WriteFails ==
    /\ Reading /\ ~waiting
    /\ Raise

MatchesRequest_AnyIndex(answer) ==   \* fault: the index is not compared
    answer.first \in Addresses

\* Packet.matches_request, for answers of the board asked.
MatchesRequest(answer) == answer.first = Index

\* _request ignores what it did not ask for.
Ignore ==
    /\ waiting /\ answers # <<>>
    /\ ~MatchesRequest(Head(answers))
    /\ answers' = Tail(answers)
    /\ UNCHANGED <<memory, requests, readVars, held, clean>>

\* Take the next answer as that to the request being waited for.
Take ==
    /\ waiting /\ answers # <<>>
    /\ MatchesRequest(Head(answers))
    /\ answers' = Tail(answers)
    /\ waiting' = FALSE
    /\ UNCHANGED <<memory, requests, held, clean>>

Prefix(s, n) == SubSeq(s, 1, IF n < Len(s) THEN n ELSE Len(s))

\* The bulk read brought the whole register.
TakeBulk ==
    /\ Take
    /\ ask = 0
    /\ Len(Head(answers).data) >= Words[register]
    /\ result' = Prefix(Head(answers).data, Words[register])
    /\ register' = NoRegister
    /\ UNCHANGED <<ask, payload>>

TakeShort_KeepsPart ==   \* fault: the walk starts with what the bulk read brought
    /\ Take
    /\ ask = 0
    /\ Len(Head(answers).data) < Words[register]
    /\ payload' = Head(answers).data
    /\ ask' = 1
    /\ UNCHANGED <<register, result>>

\* The bulk read came short: walk.
TakeShort ==
    /\ Take
    /\ ask = 0
    /\ Len(Head(answers).data) < Words[register]
    /\ ask' = 1
    /\ UNCHANGED <<register, payload, result>>

TakeWord_Again ==   \* fault: the walk does not go on to the next word
    /\ Take
    /\ ask > 0 /\ ask < Words[register]
    /\ payload' = payload \o Prefix(Head(answers).data, 1)
    /\ UNCHANGED <<register, result, ask>>

TakeWord_OneMore ==   \* fault: the walk may run one word too far
    /\ Take
    /\ ask > 0 /\ ask <= Words[register]
    /\ payload' = payload \o Prefix(Head(answers).data, 1)
    /\ ask' = ask + 1
    /\ UNCHANGED <<register, result>>

\* A word of the walk, with more to come.
TakeWord ==
    /\ Take
    /\ ask > 0 /\ ask < Words[register]
    /\ payload' = payload \o Prefix(Head(answers).data, 1)
    /\ ask' = ask + 1
    /\ UNCHANGED <<register, result>>

\* The walk's last word.
TakeLastWord ==
    /\ Take
    /\ ask > 0 /\ ask = Words[register]
    /\ payload' = payload \o Prefix(Head(answers).data, 1)
    /\ result' = Prefix(payload', Words[register])
    /\ register' = NoRegister
    /\ UNCHANGED ask

\* The bulk read of more than one word timed out, and may still be answered.
TimeOutBulk ==
    /\ Reading /\ waiting
    /\ ask = 0 /\ Words[register] > 1
    /\ ask' = 1 /\ waiting' = FALSE
    /\ UNCHANGED <<memory, linkVars, register, payload, result, held, clean>>

\* Any other request timed out.
TimeOut ==
    /\ Reading /\ waiting
    /\ ask > 0 \/ Words[register] = 1
    /\ Raise

Client ==
    \/ Ask \/ Ignore
    \/ TakeBulk \/ TakeShort \/ TakeWord \/ TakeLastWord
    \/ TimeOutBulk \/ TimeOut

Next ==
    \/ \E a \in Addresses, v \in Values : Change(a, v)
    \/ \E n \in 0 .. Cardinality(Addresses) : Answer(n)
    \/ LoseRequest \/ LoseAnswer \/ Reconnect
    \/ \E r \in Registers : Begin(r)
    \/ WriteFails
    \/ Client

Spec == Init /\ [][Next]_vars

\* asyncio runs a waiting client, and its timeout expires.
FairSpec == Spec /\ WF_vars(Client)
-----------------------------------------------------------------------------
\* A clean read fails or returns each of the register's words, in its place, as
\* it was at some time since the read began -- also when the bulk read is
\* answered only after the walk has begun.
OnClean(v, idle) == IF clean THEN v ELSE idle
Regular == INSTANCE RegularRegister
    WITH register <- OnClean(register, NoRegister),
         held     <- IF Reading THEN OnClean(held, {}) ELSE {},
         result   <- OnClean(result, <<>>)
RegularSpec == Regular!Spec

\* No answer outlives a clean read, so none can be taken for the answer to a
\* later one.
NothingLeftBehind == clean /\ ~Reading => Quiet

\* A read ends, however the scooter answers.
EveryReadEnds == Reading ~> ~Reading
=============================================================================
