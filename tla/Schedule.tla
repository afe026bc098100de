------------------------------ MODULE Schedule ------------------------------
(***************************************************************************)
(* When the coordinator polls: an advertisement of the scooter starts a    *)
(* poll when the last one ended a poll interval ago or more, and the      *)
(* owner may change the interval at any time (the options flow).  The      *)
(* clock counts ticks.  One coordinator's life: a reload starts anew.      *)
(***************************************************************************)
EXTENDS Naturals

CONSTANTS
    Intervals,      \* what the options flow accepts
    Default,        \* DEFAULT_POLL_INTERVAL
    Unset,          \* no option stored
    Never,          \* no poll has ended yet
    MaxAge          \* bound: the age from which on time is not told apart

ASSUME ScheduleAssumption ==
    /\ Intervals \subseteq Nat /\ Default \in Nat
    /\ Unset \notin Nat /\ Never \notin Nat
    /\ MaxAge \in Nat /\ Default <= MaxAge
    /\ \A i \in Intervals : i <= MaxAge

VARIABLES
    option,     \* entry.options[CONF_POLL_INTERVAL]
    age,        \* ticks since _last_poll
    poll,       \* where _async_poll is suspended
    stopping,   \* hass.is_stopping
    rest        \* history: ticks the scooter has been left alone, after a poll

vars == <<option, age, poll, stopping, rest>>

Ages == (0 .. MaxAge) \union {Never}

TypeOK ==
    /\ option \in Intervals \union {Unset}
    /\ age \in Ages /\ rest \in Ages /\ (age = Never <=> rest = Never)
    /\ poll \in {"idle", "reading", "dropping"} /\ stopping \in BOOLEAN

Init ==
    /\ option \in Intervals \union {Unset}
    /\ age = Never /\ rest = Never
    /\ poll = "idle" /\ stopping = FALSE
-----------------------------------------------------------------------------
(* Definitions marked "fault" are seeded faults: no action uses them.      *)

\* poll_interval.
poll_interval == IF option = Unset THEN Default ELSE option

NeedsPoll_NotFirst ==   \* fault: the first poll is not due
    /\ ~stopping
    /\ age # Never /\ age >= poll_interval

\* _needs_poll.
NeedsPoll ==
    /\ ~stopping
    /\ age # Never => age >= poll_interval

Polling == poll # "idle"

Older(a) == IF a = Never \/ a = MaxAge THEN a ELSE a + 1

Tick ==
    /\ age' = Older(age)
    /\ rest' = IF Polling THEN rest ELSE Older(rest)
    /\ UNCHANGED <<option, poll, stopping>>

\* An advertisement (_async_handle_bluetooth_event).  One that arrives during a
\* poll starts none: Home Assistant's debouncer lets one poll run at a time.
Advertise ==
    /\ ~Polling /\ NeedsPoll
    /\ poll' = "reading"
    /\ UNCHANGED <<option, age, stopping, rest>>

\* The finally clause of _async_poll, and its end.
Noted ==
    /\ poll' = "idle"
    /\ age' = 0
    /\ rest' = 0

\* Connecting and reading succeed.
PollOk ==
    /\ poll = "reading"
    /\ Noted
    /\ UNCHANGED <<option, stopping>>

\* They raise, and any of the three except clauses drops the link.
PollFails ==
    /\ poll = "reading"
    /\ poll' = "dropping"
    /\ UNCHANGED <<option, age, stopping, rest>>

Dropped_NotNoted ==   \* fault: the time of a failed poll is not noted
    /\ poll = "dropping"
    /\ poll' = "idle"
    /\ rest' = 0
    /\ UNCHANGED <<option, age, stopping>>

\* _async_drop_connection returns, and the except clause with it.
Dropped ==
    /\ poll = "dropping"
    /\ Noted
    /\ UNCHANGED <<option, stopping>>

PollCancelled_NotNoted ==   \* fault: the except clauses note the time
    /\ Polling
    /\ poll' = "idle"
    /\ rest' = 0
    /\ UNCHANGED <<option, age, stopping>>

\* The task is cancelled: no except clause is for that, only the finally clause.
PollCancelled ==
    /\ Polling
    /\ Noted
    /\ UNCHANGED <<option, stopping>>

PollStep == PollOk \/ PollFails \/ Dropped \/ PollCancelled

\* NinebotOptionsFlow.async_step_init.  There is no update listener: nothing
\* else happens.
SetInterval(i) ==
    /\ option' = i
    /\ UNCHANGED <<age, poll, stopping, rest>>

Stop ==
    /\ stopping' = TRUE
    /\ UNCHANGED <<option, age, poll, rest>>

Next ==
    \/ Tick \/ Advertise \/ PollStep \/ Stop
    \/ \E i \in Intervals : SetInterval(i)

Spec == Init /\ [][Next]_vars

\* Time passes, a poll goes on (each of its waits has a timeout), and the scooter
\* advertises again and again.
FairSpec ==
    /\ Spec
    /\ WF_vars(Tick)
    /\ WF_vars(PollStep)
    /\ WF_vars(Advertise)
-----------------------------------------------------------------------------
\* "Each poll wakes the scooter's Bluetooth module, so longer is gentler"
\* (README): between two polls, however the first ends, the scooter is left
\* alone for the interval the options ask for when the second begins.
LeftAlone ==
    [][~Polling /\ Polling' =>
         rest = Never \/ rest >= (IF option = Unset THEN Default ELSE option)]_vars

\* A scooter that keeps advertising is polled again and again, however often
\* the interval is changed.
PolledAgain == []<>Polling \/ <>stopping
=============================================================================
