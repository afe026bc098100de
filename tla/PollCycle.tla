----------------------------- MODULE PollCycle ------------------------------
(***************************************************************************)
(* One poll after another: NinebotClient.async_poll reads the registers,   *)
(* ScooterState.update merges the snapshot into the coordinator's state,   *)
(* and the coordinator decides whether the poll was good and whether the   *)
(* link is kept.  A read is a request and its outcome; how packets answer  *)
(* requests and how a link is set up are the subject of other modules.     *)
(***************************************************************************)
EXTENDS Naturals, Sequences

CONSTANTS
    Static,         \* registers read on the first poll of a link, in order
    Dynamic,        \* registers read on every poll, in order
    Narrow,         \* registers of one word, which have no word-by-word retry
    Unsupported,    \* registers this scooter never answers
    Good,           \* payloads that decode
    Bad,            \* payloads on which convert raises
    None,
    MaxTimeouts     \* MAX_CONSECUTIVE_TIMEOUTS

Elements(s) == {s[i] : i \in DOMAIN s}
Distinct(s) == \A i, j \in DOMAIN s : s[i] = s[j] => i = j
Regs == Elements(Static) \cup Elements(Dynamic)
Payloads == Good \cup Bad

\* The keys of the register table are unique.
ASSUME PollAssumption ==
    /\ Static \in Seq(Elements(Static)) /\ Dynamic \in Seq(Elements(Dynamic))
    /\ Distinct(Static) /\ Distinct(Dynamic)
    /\ Dynamic # <<>>
    /\ Elements(Static) \cap Elements(Dynamic) = {}
    /\ Narrow \subseteq Regs /\ Unsupported \subseteq Regs
    /\ None \notin Payloads /\ Good \cap Bad = {}
    /\ MaxTimeouts \in Nat \ {0}

VARIABLES
    link,       \* client.is_connected
    task,       \* where the poll is: "idle", "connect", "send", "wait", "raised"
    first,      \* first_poll
    plan,       \* registers still to be read
    timeouts,   \* consecutive_timeouts
    snapshot,   \* the ScooterState async_poll is filling
    state,      \* coordinator.state
    infoFresh,  \* history: coordinator.info was built on the open link
    pollOk,     \* coordinator.last_poll_successful
    calm        \* TRUE once the scooter is awake and in range for good

pollVars == <<task, first, plan, timeouts, snapshot>>
vars == <<link, pollVars, state, infoFresh, pollOk, calm>>

\* Why a register could not be read, "no" when it could: a timeout, a lost
\* link, a payload that does not decode.
Failures == {"no", "timeout", "connection", "decode"}

ScooterStates ==
    [values : [Regs -> Good \cup {None}], raw : [Regs -> Payloads \cup {None}],
     failures : [Regs -> Failures]]

EmptyState ==
    [values |-> [r \in Regs |-> None], raw |-> [r \in Regs |-> None],
     failures |-> [r \in Regs |-> "no"]]

TypeOK ==
    /\ link \in {"up", "down"}
    /\ task \in {"idle", "connect", "send", "wait", "raised"}
    /\ first \in BOOLEAN
    /\ plan \in Seq(Regs)
    /\ timeouts \in 0 .. MaxTimeouts
    /\ snapshot \in ScooterStates
    /\ state \in ScooterStates
    /\ infoFresh \in BOOLEAN
    /\ pollOk \in BOOLEAN
    /\ calm \in BOOLEAN

Init ==
    /\ link = "down"
    /\ task = "idle"
    /\ first = FALSE
    /\ plan = <<>>
    /\ timeouts = 0
    /\ snapshot = EmptyState
    /\ state = EmptyState
    /\ infoFresh = FALSE
    /\ pollOk = TRUE
    /\ calm = FALSE
-----------------------------------------------------------------------------
(* The poll.  Definitions marked "fault" are seeded faults: no action uses *)
(* them.                                                                   *)

\* async_poll begins: which registers it is going to read.
Schedule(isFirst) == IF isFirst THEN Static \o Dynamic ELSE Dynamic

Begin(isFirst) ==
    /\ first' = isFirst
    /\ plan' = Schedule(isFirst)
    /\ timeouts' = 0
    /\ snapshot' = EmptyState
    /\ task' = "send"

\* An advertisement arrives and a poll is due.  The registers that never
\* change are read when there is no state yet.
StartPoll ==
    /\ task = "idle"
    /\ \/ /\ link = "up"
          /\ Begin(\A r \in Regs : state.values[r] = None)
       \/ /\ link = "down"
          /\ task' = "connect"
          /\ UNCHANGED <<first, plan, timeouts, snapshot>>
    /\ UNCHANGED <<link, state, infoFresh, pollOk, calm>>

ConnectOk_ForgetsFirst ==   \* fault: first_poll is not set after a connect
    /\ task = "connect"
    /\ link' = "up"
    /\ infoFresh' = FALSE
    /\ Begin(\A r \in Regs : state.values[r] = None)
    /\ UNCHANGED <<state, pollOk, calm>>

\* A new link: the registers that never change are read again.
ConnectOk ==
    /\ task = "connect"
    /\ link' = "up"
    /\ infoFresh' = FALSE
    /\ Begin(TRUE)
    /\ UNCHANGED <<state, pollOk, calm>>

Raise ==
    /\ task' = "raised"
    /\ UNCHANGED <<link, first, state, infoFresh, pollOk, calm>>

ConnectFails ==
    /\ task = "connect"
    /\ ~calm
    /\ Raise
    /\ UNCHANGED <<plan, timeouts, snapshot>>

Update_KeepsFailures(old, new) ==   \* fault: new failures are not merged
    [values |-> [r \in Regs |-> IF new.values[r] = None THEN old.values[r]
                                                       ELSE new.values[r]],
     raw |-> [r \in Regs |-> IF new.raw[r] = None THEN old.raw[r] ELSE new.raw[r]],
     failures |-> [r \in Regs |-> IF new.values[r] = None THEN old.failures[r]
                                                          ELSE "no"]]

\* ScooterState.update: old values outlive a failure, old failures a success
\* does not.
Update(old, new) ==
    [values |-> [r \in Regs |-> IF new.values[r] = None THEN old.values[r]
                                                       ELSE new.values[r]],
     raw |-> [r \in Regs |-> IF new.raw[r] = None THEN old.raw[r] ELSE new.raw[r]],
     failures |-> [r \in Regs |->
         IF new.failures[r] # "no" THEN new.failures[r]
         ELSE IF new.values[r] # None THEN "no" ELSE old.failures[r]]]

\* async_poll returns s: the coordinator merges it and is content.
Complete(s) ==
    /\ state' = Update(state, s)
    /\ infoFresh' = (infoFresh \/ first)
    /\ pollOk' = TRUE
    /\ task' = "idle"
    /\ first' = FALSE
    /\ timeouts' = 0
    /\ snapshot' = EmptyState

\* The outcome of the register at the head of the plan is s; go on with the
\* next one, or return.
Advance(s, count) ==
    /\ plan' = Tail(plan)
    /\ \/ /\ Tail(plan) = <<>>
          /\ Complete(s)
       \/ /\ Tail(plan) # <<>>
          /\ task' = "send"
          /\ snapshot' = s
          /\ timeouts' = count
          /\ UNCHANGED <<first, state, infoFresh, pollOk>>
    /\ UNCHANGED <<link, calm>>

Register == Head(plan)
Failed(why) == [snapshot EXCEPT !.failures[Register] = why]

SendRead ==
    /\ task = "send"
    /\ link = "up"
    /\ task' = "wait"
    /\ UNCHANGED <<link, first, plan, timeouts, snapshot, state, infoFresh, pollOk,
                   calm>>

\* A NinebotError that is no timeout is noted, whatever it was.
SendFails ==
    /\ task = "send"
    /\ link = "down" \/ ~calm
    /\ Advance(Failed("connection"), timeouts)

Answered_KeepsCount ==   \* fault: an answer does not reset the count
    /\ task = "wait"
    /\ link = "up" /\ Register \notin Unsupported
    /\ \/ \E p \in Good :
            Advance([snapshot EXCEPT !.raw[Register] = p, !.values[Register] = p],
                    timeouts)
       \/ /\ ~calm
          /\ \E p \in Bad :
               Advance([snapshot EXCEPT !.raw[Register] = p,
                                        !.failures[Register] = "decode"],
                       timeouts)

Answered ==
    /\ task = "wait"
    /\ link = "up" /\ Register \notin Unsupported
    /\ \/ \E p \in Good :
            Advance([snapshot EXCEPT !.raw[Register] = p, !.values[Register] = p], 0)
       \/ /\ ~calm
          /\ \E p \in Bad :
               Advance([snapshot EXCEPT !.raw[Register] = p,
                                        !.failures[Register] = "decode"], 0)

\* No answer, to the bulk read nor, for a register of several words, to one of
\* the words asked for after it.
Silence == Register \in Unsupported \/ link = "down" \/ ~calm

ReadTimesOut_NoBound ==   \* fault: the count is not compared with the bound
    /\ task = "wait"
    /\ Silence
    /\ Advance(Failed("timeout"), timeouts + 1)

ReadTimesOut ==
    /\ task = "wait"
    /\ Silence
    /\ timeouts + 1 < MaxTimeouts
    /\ Advance(Failed("timeout"), timeouts + 1)

\* One timeout too many in a row ends the poll; the snapshot is lost.
PollAborts ==
    /\ task = "wait"
    /\ Silence
    /\ timeouts + 1 >= MaxTimeouts
    /\ plan' = Tail(plan)
    /\ snapshot' = Failed("timeout")
    /\ timeouts' = timeouts + 1
    /\ Raise

\* The bulk read timed out or came back short, and a word cannot be asked for.
WalkSendFails ==
    /\ task = "wait"
    /\ Register \notin Narrow
    /\ link = "down" \/ ~calm
    /\ Advance(Failed("connection"), timeouts)

\* The except clauses of _async_poll.
HandleError ==
    /\ task = "raised"
    /\ task' = "idle"
    /\ link' = "down"
    /\ infoFresh' = FALSE
    /\ pollOk' = FALSE
    /\ first' = FALSE
    /\ plan' = <<>>
    /\ timeouts' = 0
    /\ snapshot' = EmptyState
    /\ UNCHANGED <<state, calm>>

LinkDrop ==
    /\ ~calm
    /\ link = "up"
    /\ link' = "down"
    /\ infoFresh' = FALSE
    /\ UNCHANGED <<pollVars, state, pollOk, calm>>

Settle ==
    /\ ~calm
    /\ calm' = TRUE
    /\ UNCHANGED <<link, pollVars, state, infoFresh, pollOk>>

PollStep ==
    \/ StartPoll \/ ConnectOk \/ ConnectFails \/ SendRead \/ SendFails \/ Answered
    \/ ReadTimesOut \/ PollAborts \/ WalkSendFails \/ HandleError

Next == PollStep \/ LinkDrop \/ Settle

Spec == Init /\ [][Next]_vars

FairSpec == Spec /\ WF_vars(PollStep) /\ WF_vars(Settle)
-----------------------------------------------------------------------------
\* A register that is not listed as failing shows the payload it was last
\* read with; after a good poll every dynamic register was read or is listed
\* (ScooterState.update): no success hides a failure, no failure outlives a
\* success.
FailuresAreCurrent ==
    /\ \A r \in Regs : state.failures[r] = "no" => state.values[r] = state.raw[r]
    /\ pollOk /\ state # EmptyState =>
         \A r \in Elements(Dynamic) :
             state.failures[r] = "no" => state.values[r] # None

\* "Immutable facts about a scooter, read once per connection" (ScooterInfo):
\* whenever a link is open between polls, a poll that asked for the static
\* registers has finished on it.
InfoIsReadPerLink == link = "up" /\ task = "idle" => infoFresh

\* A poll is only aborted when the last MaxTimeouts registers it asked for
\* all stayed unread: one register the scooter lacks never ends a poll.
AbortsOnlyWhenQuiet ==
    [][task = "wait" /\ task' = "raised" =>
         LET order == Schedule(first)
             asked == Len(order) - Len(plan')
         IN  \A i \in asked - MaxTimeouts + 1 .. asked :
                 /\ i >= 1
                 /\ snapshot'.failures[order[i]] \in {"timeout", "connection"}]_vars

\* An unsupported register never hides the others: once the scooter is awake
\* for good, every dynamic register it supports is read and stays current.
SupportedRegistersAppear ==
    <>[](\A r \in Elements(Dynamic) \ Unsupported :
            state.values[r] # None /\ state.failures[r] = "no")

\* A link that is lost during a poll ends it as a failure: a poll that could
\* not send a single read is not a good one.
LostLinkIsNoticed ==
    [][(task \in {"send", "wait"} /\ task' = "idle") =>
         \E r \in Elements(Dynamic) : state'.failures[r] # "connection"]_vars
=============================================================================
