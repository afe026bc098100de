--------------------------- MODULE ScheduleProofs ---------------------------
(***************************************************************************)
(* Schedule, for any poll intervals and any bound on the clock.  The time  *)
(* the coordinator notes is the time the scooter has been left alone,      *)
(* whenever no poll runs: every way out of a poll passes the finally       *)
(* clause of _async_poll.                                                  *)
(***************************************************************************)
EXTENDS Schedule, TLAPS

IInv == TypeOK /\ (~Polling => age = rest)

LEMMA OlderIsAge ==
  ASSUME NEW a \in Ages
  PROVE  /\ Older(a) \in Ages
         /\ Older(a) = Never <=> a = Never
PROOF
  BY ScheduleAssumption DEF Ages, Older

LEMMA IInvStep == IInv /\ [Next]_vars => IInv'
PROOF
  <1> SUFFICES ASSUME IInv, [Next]_vars PROVE IInv'
    OBVIOUS
  <1> USE DEF IInv, TypeOK, Polling
  <1>z. 0 \in Ages /\ 0 # Never
    BY ScheduleAssumption DEF Ages
  <1>1. CASE Tick
    BY <1>1, OlderIsAge DEF Tick
  <1>2. CASE Advertise
    BY <1>2 DEF Advertise
  <1>3. CASE PollStep
    <2>1. CASE PollOk
      BY <1>z, <2>1 DEF PollOk, Noted
    <2>2. CASE PollFails
      BY <2>2 DEF PollFails
    <2>3. CASE Dropped
      BY <1>z, <2>3 DEF Dropped, Noted
    <2>4. CASE PollCancelled
      BY <1>z, <2>4 DEF PollCancelled, Noted
    <2> QED
      BY <1>3, <2>1, <2>2, <2>3, <2>4 DEF PollStep
  <1>4. ASSUME NEW i \in Intervals, SetInterval(i) PROVE IInv'
    BY <1>4 DEF SetInterval
  <1>5. CASE Stop
    BY <1>5 DEF Stop
  <1>6. CASE UNCHANGED vars
    BY <1>6 DEF vars
  <1> QED
    BY <1>1, <1>2, <1>3, <1>4, <1>5, <1>6 DEF Next

LEMMA IInvInit == Init => IInv
PROOF
  BY DEF Init, IInv, TypeOK, Ages, Polling

\* Every variable of Schedule keeps its type, and a poll has been noted exactly
\* when one has ended.
THEOREM ScheduleTypeCorrect == Spec => []TypeOK
PROOF
  <1>1. IInv => TypeOK
    BY DEF IInv
  <1> QED
    BY <1>1, IInvInit, IInvStep, PTL DEF Spec

\* Whatever intervals the owner chooses and however polls end, the scooter is
\* left alone for the configured interval between two polls.
THEOREM ScooterIsLeftAlone == Spec => LeftAlone
PROOF
  <1>1. IInv /\ [Next]_vars =>
          [~Polling /\ Polling' =>
             rest = Never \/ rest >= (IF option = Unset THEN Default ELSE option)]_vars
    <2> SUFFICES ASSUME IInv, Next, ~Polling, Polling'
                 PROVE  rest = Never \/ rest >= (IF option = Unset THEN Default ELSE option)
      OBVIOUS
    <2>1. Advertise
      BY DEF Next, Tick, PollStep, PollOk, PollFails, Dropped, PollCancelled, Noted,
             SetInterval, Stop, Polling
    <2> QED
      BY <2>1 DEF Advertise, NeedsPoll, poll_interval, IInv
  <1> QED
    BY <1>1, IInvInit, IInvStep, PTL DEF Spec, LeftAlone
=============================================================================
