-------------------------- MODULE PollCycleProofs ---------------------------
(***************************************************************************)
(* Machine-checked safety of PollCycle, for any register table, any set of *)
(* registers the scooter lacks, and any limit of timeouts.                 *)
(***************************************************************************)
EXTENDS PollCycle, TLAPS

Reading == task \in {"send", "wait"}

\* How many registers of the schedule the poll has asked for.
Asked == Len(Schedule(first)) - Len(plan)

\* The plan is what is left of the schedule.
PlanInv ==
    Reading =>
        /\ plan # <<>>
        /\ Len(plan) <= Len(Schedule(first))
        /\ \A i \in 1 .. Len(plan) : plan[i] = Schedule(first)[Asked + i]

\* A count of n means that the last n registers stayed unread.
Unread == {"timeout", "connection"}

QuietInv ==
    Reading =>
        /\ timeouts < MaxTimeouts
        /\ timeouts <= Asked
        /\ \A i \in Asked - timeouts + 1 .. Asked :
             snapshot.failures[Schedule(first)[i]] \in Unread

\* A snapshot has an outcome for every register asked for.
Settled(s, r) == s.failures[r] = "no" => s.values[r] # None
Agrees(s) == \A r \in Regs : s.failures[r] = "no" => s.values[r] = s.raw[r]

SnapshotInv ==
    Reading =>
        /\ Agrees(snapshot)
        /\ \A r \in Elements(Dynamic) : r \in Elements(plan) \/ Settled(snapshot, r)

\* An open link whose facts are not read yet is on its first poll.
InfoInv == link = "up" /\ Reading => first \/ infoFresh

IInv ==
    /\ TypeOK
    /\ PlanInv /\ QuietInv /\ SnapshotInv /\ InfoInv
    /\ FailuresAreCurrent /\ InfoIsReadPerLink
-----------------------------------------------------------------------------
\* Schedules, snapshots and their merge.

LEMMA ScheduleFacts ==
    ASSUME NEW f \in BOOLEAN
    PROVE  /\ Schedule(f) \in Seq(Regs) /\ Schedule(f) # <<>>
           /\ Distinct(Schedule(f))
           /\ Elements(Dynamic) \subseteq Elements(Schedule(f))
  <1>1. /\ Static \in Seq(Elements(Static)) /\ Dynamic \in Seq(Elements(Dynamic))
        /\ Dynamic # <<>> /\ Distinct(Static) /\ Distinct(Dynamic)
        /\ Elements(Static) \cap Elements(Dynamic) = {}
    BY PollAssumption
  <1>2. Static \in Seq(Regs) /\ Dynamic \in Seq(Regs)
    BY <1>1 DEF Regs, Elements
  <1>3. CASE ~f
    BY <1>1, <1>2, <1>3 DEF Schedule
  <1>4. CASE f
    <2> DEFINE both == Static \o Dynamic
    <2>1. /\ both \in Seq(Regs) /\ Len(both) = Len(Static) + Len(Dynamic)
          /\ \A i \in 1 .. Len(Static) : both[i] = Static[i]
          /\ \A i \in 1 .. Len(Dynamic) : both[Len(Static) + i] = Dynamic[i]
      BY <1>2
    <2>2. both # <<>>
      BY <1>1, <1>2, <2>1
    <2>3. Elements(Dynamic) \subseteq Elements(both)
      <3> SUFFICES ASSUME NEW i \in DOMAIN Dynamic PROVE Dynamic[i] \in Elements(both)
        BY DEF Elements
      <3>1. Len(Static) + i \in DOMAIN both /\ both[Len(Static) + i] = Dynamic[i]
        BY <1>2, <2>1
      <3> QED
        BY <3>1 DEF Elements
    <2>4. Distinct(both)
      <3> SUFFICES ASSUME NEW i \in DOMAIN both, NEW j \in DOMAIN both,
                          both[i] = both[j]
                   PROVE  i = j
        BY DEF Distinct
      <3>1. /\ i \in 1 .. Len(Static) \/ \E k \in 1 .. Len(Dynamic) : i = Len(Static) + k
            /\ j \in 1 .. Len(Static) \/ \E k \in 1 .. Len(Dynamic) : j = Len(Static) + k
        <4>1. i \in 1 .. Len(both) /\ j \in 1 .. Len(both)
          BY <2>1
        <4>2. Len(Static) \in Nat /\ Len(Dynamic) \in Nat
          BY <1>2
        <4>3. ASSUME NEW n \in 1 .. Len(both), n \notin 1 .. Len(Static)
              PROVE  n - Len(Static) \in 1 .. Len(Dynamic)
                     /\ n = Len(Static) + (n - Len(Static))
          BY <2>1, <4>2, <4>3
        <4> QED
          BY <4>1, <4>3
      <3>2. \A k \in 1 .. Len(Static) : Static[k] \in Elements(Static)
        BY <1>2 DEF Elements
      <3>3. \A k \in 1 .. Len(Dynamic) : Dynamic[k] \in Elements(Dynamic)
        BY <1>2 DEF Elements
      <3>4. CASE i \in 1 .. Len(Static) /\ j \in 1 .. Len(Static)
        BY <1>1, <1>2, <2>1, <3>4 DEF Distinct
      <3>5. CASE \E k \in 1 .. Len(Dynamic) : i = Len(Static) + k
        <4>1. PICK k \in 1 .. Len(Dynamic) : i = Len(Static) + k
          BY <3>5
        <4>2. both[i] = Dynamic[k]
          BY <2>1, <4>1
        <4>3. j \notin 1 .. Len(Static)
          BY <1>1, <2>1, <3>2, <3>3, <4>2
        <4>4. PICK m \in 1 .. Len(Dynamic) : j = Len(Static) + m
          BY <3>1, <4>3
        <4>5. Dynamic[k] = Dynamic[m]
          BY <2>1, <4>2, <4>4
        <4> QED
          BY <1>1, <1>2, <4>1, <4>4, <4>5 DEF Distinct
      <3>6. CASE i \in 1 .. Len(Static) /\ j \notin 1 .. Len(Static)
        <4>1. PICK m \in 1 .. Len(Dynamic) : j = Len(Static) + m
          BY <3>1, <3>6
        <4>2. both[j] = Dynamic[m] /\ both[i] = Static[i]
          BY <2>1, <3>6, <4>1
        <4> QED
          BY <1>1, <3>2, <3>3, <3>6, <4>2
      <3> QED
        BY <3>1, <3>4, <3>5, <3>6
    <2> QED
      BY <1>4, <2>1, <2>2, <2>3, <2>4 DEF Schedule
  <1> QED
    BY <1>3, <1>4

LEMMA EmptyStateType == EmptyState \in ScooterStates /\ Agrees(EmptyState)
  BY DEF EmptyState, ScooterStates, Failures, Agrees

\* ScooterState.update: failures and values stay consistent.
LEMMA UpdateFacts ==
    ASSUME NEW old \in ScooterStates, NEW new \in ScooterStates, Agrees(old), Agrees(new)
    PROVE  /\ Update(old, new) \in ScooterStates
           /\ Agrees(Update(old, new))
           /\ \A r \in Regs : Settled(new, r) => Settled(Update(old, new), r)
  <1>1. Update(old, new) \in ScooterStates
    BY DEF Update, ScooterStates, Failures
  <1>2. Agrees(Update(old, new))
    BY DEF Update, ScooterStates, Agrees
  <1>3. \A r \in Regs : Settled(new, r) => Settled(Update(old, new), r)
    BY DEF Update, ScooterStates, Settled
  <1> QED
    BY <1>1, <1>2, <1>3
-----------------------------------------------------------------------------
LEMMA NothingPlanned == <<>> \in Seq(Regs) /\ 0 \in 0 .. MaxTimeouts
  BY PollAssumption

LEMMA InitIInv == ASSUME Init PROVE IInv
  <1>1. TypeOK
    BY NothingPlanned, EmptyStateType DEF Init, TypeOK
  <1>2. FailuresAreCurrent
    BY EmptyStateType DEF Init, FailuresAreCurrent, Agrees
  <1>3. ~Reading /\ link = "down"
    BY DEF Init, Reading
  <1>4. PlanInv /\ QuietInv /\ SnapshotInv
    BY <1>3 DEF PlanInv, QuietInv, SnapshotInv
  <1>5. InfoInv /\ InfoIsReadPerLink
    BY <1>3 DEF InfoInv, InfoIsReadPerLink
  <1> QED
    BY <1>1, <1>2, <1>4, <1>5 DEF IInv

\* A poll starts with the whole schedule ahead of it.
LEMMA BeginEffect ==
    ASSUME NEW f \in BOOLEAN, Begin(f)
    PROVE  /\ PlanInv' /\ QuietInv' /\ SnapshotInv' /\ Reading'
           /\ first' = f /\ plan' \in Seq(Regs) /\ timeouts' \in 0 .. MaxTimeouts
           /\ snapshot' \in ScooterStates /\ task' = "send"
  <1> DEFINE order == Schedule(f)
  <1>1. /\ order \in Seq(Regs) /\ order # <<>>
        /\ Elements(Dynamic) \subseteq Elements(order)
    BY ScheduleFacts
  <1>2. /\ first' = f /\ plan' = order /\ timeouts' = 0 /\ snapshot' = EmptyState
        /\ task' = "send"
    BY DEF Begin
  <1>3. Schedule(first)' = order
    BY <1>2 DEF Schedule
  <1> HIDE DEF order
  <1>4. Len(order) \in Nat /\ Asked' = 0
    BY <1>1, <1>2, <1>3 DEF Asked
  <1>5. PlanInv'
    BY <1>1, <1>2, <1>3, <1>4 DEF PlanInv
  <1>6. QuietInv'
    BY <1>2, <1>3, <1>4, PollAssumption DEF QuietInv
  <1>7. SnapshotInv'
    BY <1>1, <1>2, EmptyStateType DEF SnapshotInv, Agrees, Elements
  <1> QED
    BY <1>1, <1>2, <1>5, <1>6, <1>7, EmptyStateType, PollAssumption DEF Reading

\* What any outcome of the register at the head of the plan must satisfy for
\* the poll to go on, with count consecutive timeouts.
Outcome(s, count) ==
    /\ s \in ScooterStates /\ Agrees(s) /\ Settled(s, Register)
    /\ \A r \in Regs \ {Register} :
         s.failures[r] = snapshot.failures[r] /\ s.values[r] = snapshot.values[r]
    /\ count \in 0 .. MaxTimeouts - 1
    /\ count # 0 => count <= timeouts + 1 /\ s.failures[Register] \in Unread

\* The head of the plan is the next register of the schedule.
LEMMA HeadOfPlan ==
    ASSUME IInv, Reading
    PROVE  /\ Schedule(first) \in Seq(Regs) /\ Distinct(Schedule(first))
           /\ Len(Schedule(first)) \in Nat /\ Len(plan) \in Nat \ {0}
           /\ plan \in Seq(Regs) /\ plan # <<>>
           /\ Asked \in Nat /\ Asked + 1 \in 1 .. Len(Schedule(first))
           /\ Register = Schedule(first)[Asked + 1] /\ Register \in Regs
           /\ Tail(plan) \in Seq(Regs) /\ Len(Tail(plan)) = Len(plan) - 1
           /\ \A i \in 1 .. Len(Tail(plan)) : Tail(plan)[i] = plan[i + 1]
           /\ Elements(plan) \subseteq {Register} \cup Elements(Tail(plan))
  <1>1. /\ plan \in Seq(Regs) /\ plan # <<>> /\ Len(plan) <= Len(Schedule(first))
        /\ \A i \in 1 .. Len(plan) : plan[i] = Schedule(first)[Asked + i]
    BY DEF IInv, TypeOK, PlanInv
  <1>2. Schedule(first) \in Seq(Regs) /\ Distinct(Schedule(first))
    BY ScheduleFacts DEF IInv, TypeOK
  <1>3. Len(Schedule(first)) \in Nat /\ Len(plan) \in Nat \ {0}
    BY <1>1, <1>2
  <1>4. Asked \in Nat /\ Asked + 1 \in 1 .. Len(Schedule(first))
    BY <1>1, <1>3 DEF Asked
  <1>5. Register = plan[1] /\ Register \in Regs
    BY <1>1, <1>3 DEF Register
  <1>6. /\ Tail(plan) \in Seq(Regs) /\ Len(Tail(plan)) = Len(plan) - 1
        /\ \A i \in 1 .. Len(Tail(plan)) : Tail(plan)[i] = plan[i + 1]
    BY <1>1, <1>3
  <1>7. Elements(plan) \subseteq {Register} \cup Elements(Tail(plan))
    <2> SUFFICES ASSUME NEW i \in 1 .. Len(plan), i # 1
                 PROVE  plan[i] \in Elements(Tail(plan))
      BY <1>1, <1>5 DEF Elements
    <2>1. i - 1 \in 1 .. Len(Tail(plan)) /\ Tail(plan)[i - 1] = plan[i]
      BY <1>3, <1>6
    <2>2. i - 1 \in DOMAIN Tail(plan)
      BY <1>6, <2>1
    <2> QED
      BY <2>1, <2>2 DEF Elements
  <1> QED
    BY <1>1, <1>2, <1>3, <1>4, <1>5, <1>6, <1>7

\* An outcome of the current register leaves those of the registers before
\* it alone, and adds one to a run of unread ones.
LEMMA RunGoesOn ==
    ASSUME IInv, Reading, NEW s \in ScooterStates, NEW count \in Nat,
           \A r \in Regs \ {Register} : s.failures[r] = snapshot.failures[r],
           count # 0 => count <= timeouts + 1 /\ s.failures[Register] \in Unread
    PROVE  /\ count <= Asked + 1
           /\ \A i \in Asked + 1 - count + 1 .. Asked + 1 :
                s.failures[Schedule(first)[i]] \in Unread
  <1> DEFINE order == Schedule(first)
  <1>1. /\ order \in Seq(Regs) /\ Distinct(order) /\ Len(order) \in Nat
        /\ Asked \in Nat /\ Asked + 1 \in 1 .. Len(order)
        /\ Register = order[Asked + 1]
    BY HeadOfPlan
  <1>2. /\ timeouts \in Nat /\ timeouts <= Asked
        /\ \A i \in Asked - timeouts + 1 .. Asked : snapshot.failures[order[i]] \in Unread
    BY PollAssumption DEF IInv, TypeOK, QuietInv
  <1> HIDE DEF order
  <1>3. count <= Asked + 1
    BY <1>1, <1>2
  <1>4. ASSUME NEW i \in Asked + 1 - count + 1 .. Asked + 1
        PROVE  s.failures[order[i]] \in Unread
    <2>1. count # 0 /\ count <= timeouts + 1 /\ s.failures[Register] \in Unread
      BY <1>1, <1>4
    <2>2. CASE i = Asked + 1
      BY <1>1, <2>1, <2>2
    <2>3. CASE i # Asked + 1
      <3>1. i \in Asked - timeouts + 1 .. Asked /\ i \in 1 .. Len(order)
        BY <1>1, <1>2, <1>3, <2>1, <2>3
      <3>2. order[i] \in Regs /\ order[i] # Register
        BY <1>1, <2>3, <3>1 DEF Distinct
      <3> QED
        BY <1>2, <3>1, <3>2
    <2> QED
      BY <2>2, <2>3
  <1> QED
    BY <1>3, <1>4 DEF order

LEMMA AdvanceEffect ==
    ASSUME IInv, Reading, NEW s, NEW count, Outcome(s, count), Advance(s, count)
    PROVE  IInv'
  <1> USE DEF IInv
  <1>1. /\ s \in ScooterStates /\ Agrees(s) /\ Settled(s, Register)
        /\ count \in 0 .. MaxTimeouts - 1 /\ MaxTimeouts \in Nat \ {0}
    BY PollAssumption DEF Outcome
  <1>2. \A r \in Elements(Dynamic) : r \in Elements(Tail(plan)) \/ Settled(s, r)
    <2> SUFFICES ASSUME NEW r \in Elements(Dynamic), r \notin Elements(Tail(plan)),
                        r # Register
                 PROVE  Settled(s, r)
      BY <1>1
    <2>1. r \in Regs
      BY DEF Regs
    <2>2. Settled(snapshot, r)
      BY HeadOfPlan DEF SnapshotInv
    <2> QED
      BY <2>1, <2>2 DEF Outcome, Settled
  <1>3. CASE Tail(plan) = <<>>
    <2>1. /\ state' = Update(state, s) /\ infoFresh' = (infoFresh \/ first)
          /\ pollOk' = TRUE /\ task' = "idle" /\ first' = FALSE /\ timeouts' = 0
          /\ snapshot' = EmptyState /\ plan' = <<>> /\ link' = link /\ calm' = calm
      BY <1>3, HeadOfPlan DEF Advance, Complete
    <2>2. Agrees(state) /\ state \in ScooterStates
      BY DEF TypeOK, FailuresAreCurrent, Agrees
    <2>3. /\ state' \in ScooterStates /\ Agrees(state')
          /\ \A r \in Elements(Dynamic) : Settled(state', r)
      <3>1. \A r \in Elements(Dynamic) : r \in Regs /\ Settled(s, r)
        BY <1>2, <1>3 DEF Elements, Regs
      <3> QED
        BY <1>1, <2>1, <2>2, <3>1, UpdateFacts
    <2>4. TypeOK'
      BY <2>1, <2>3, NothingPlanned, EmptyStateType DEF TypeOK
    <2>5. FailuresAreCurrent'
      BY <2>3 DEF FailuresAreCurrent, Agrees, Settled
    <2>6. ~Reading'
      BY <2>1 DEF Reading
    <2>7. InfoIsReadPerLink'
      BY <2>1 DEF InfoIsReadPerLink, InfoInv, TypeOK
    <2> QED
      BY <2>4, <2>5, <2>6, <2>7 DEF PlanInv, QuietInv, SnapshotInv, InfoInv
  <1>4. CASE Tail(plan) # <<>>
    <2>1. /\ plan' = Tail(plan) /\ task' = "send" /\ snapshot' = s
          /\ timeouts' = count
          /\ UNCHANGED <<first, state, infoFresh, pollOk, link, calm>>
      BY <1>4 DEF Advance
    <2>2. Reading' /\ Schedule(first)' = Schedule(first)
      BY <2>1 DEF Reading, Schedule
    <2>3. Asked' = Asked + 1
      BY <2>1, <2>2, HeadOfPlan DEF Asked
    <2>4. TypeOK'
      BY <1>1, <2>1, HeadOfPlan DEF TypeOK
    <2>5. PlanInv'
      <3>1. \A i \in 1 .. Len(Tail(plan)) :
              Tail(plan)[i] = Schedule(first)[(Asked + 1) + i]
        <4> TAKE i \in 1 .. Len(Tail(plan))
        <4>1. i + 1 \in 1 .. Len(plan) /\ Asked + (i + 1) = (Asked + 1) + i
          BY HeadOfPlan
        <4> QED
          BY <4>1, HeadOfPlan DEF PlanInv
      <3>2. Len(Tail(plan)) <= Len(Schedule(first))
        BY HeadOfPlan DEF PlanInv
      <3> QED
        BY <1>4, <2>1, <2>2, <2>3, <3>1, <3>2 DEF PlanInv
    <2>6. QuietInv'
      <3>1. /\ count <= Asked + 1
            /\ \A i \in Asked + 1 - count + 1 .. Asked + 1 :
                 s.failures[Schedule(first)[i]] \in Unread
        BY <1>1, RunGoesOn DEF Outcome
      <3>2. count < MaxTimeouts /\ count \in Nat /\ Asked \in Nat
        BY <1>1, HeadOfPlan
      <3>3. (timeouts < MaxTimeouts /\ timeouts <= Asked)'
        BY <2>1, <2>3, <3>1, <3>2
      <3>4. ASSUME NEW i \in Asked' - timeouts' + 1 .. Asked'
            PROVE  snapshot'.failures[Schedule(first)'[i]] \in Unread
        <4>1. Asked' - timeouts' + 1 = Asked + 1 - count + 1
          BY <2>1, <2>3, <3>2
        <4>2. s.failures[Schedule(first)[i]] \in Unread
          BY <2>3, <3>1, <3>4, <4>1
        <4> QED
          BY <2>1, <2>2, <4>2
      <3> QED
        BY <3>3, <3>4 DEF QuietInv
    <2>7. SnapshotInv'
      BY <1>1, <1>2, <2>1 DEF SnapshotInv
    <2>8. FailuresAreCurrent' /\ InfoIsReadPerLink' /\ InfoInv'
      BY <2>1 DEF FailuresAreCurrent, InfoIsReadPerLink, InfoInv, Reading
    <2> QED
      BY <2>4, <2>5, <2>6, <2>7, <2>8
  <1> QED
    BY <1>3, <1>4
-----------------------------------------------------------------------------
\* The outcomes a read can have.

LEMMA UnreadOutcome ==
    ASSUME IInv, Reading, NEW why \in Unread,
           NEW count \in 0 .. MaxTimeouts - 1, count <= timeouts + 1
    PROVE  Outcome(Failed(why), count)
  <1>1. Register \in Regs /\ snapshot \in ScooterStates /\ Agrees(snapshot)
    BY HeadOfPlan DEF IInv, TypeOK, SnapshotInv
  <1>2. /\ Failed(why) \in ScooterStates /\ Agrees(Failed(why))
        /\ Failed(why).failures[Register] = why
        /\ \A r \in Regs \ {Register} :
             /\ Failed(why).failures[r] = snapshot.failures[r]
             /\ Failed(why).values[r] = snapshot.values[r]
    BY <1>1 DEF Failed, ScooterStates, Failures, Agrees, Unread
  <1>3. Settled(Failed(why), Register)
    BY <1>2 DEF Settled, Unread
  <1> QED
    BY <1>2, <1>3 DEF Outcome

LEMMA ReadOutcome ==
    ASSUME IInv, Reading, NEW p \in Good
    PROVE  Outcome([snapshot EXCEPT !.raw[Register] = p, !.values[Register] = p], 0)
  <1> DEFINE s == [snapshot EXCEPT !.raw[Register] = p, !.values[Register] = p]
  <1>1. Register \in Regs /\ snapshot \in ScooterStates /\ Agrees(snapshot)
    BY HeadOfPlan DEF IInv, TypeOK, SnapshotInv
  <1>2. p \in Payloads /\ p # None
    BY PollAssumption DEF Payloads
  <1>3. /\ s \in ScooterStates /\ Agrees(s) /\ Settled(s, Register)
        /\ \A r \in Regs \ {Register} :
             s.failures[r] = snapshot.failures[r] /\ s.values[r] = snapshot.values[r]
    BY <1>1, <1>2 DEF ScooterStates, Agrees, Settled
  <1>4. 0 \in 0 .. MaxTimeouts - 1
    BY PollAssumption
  <1> QED
    BY <1>3, <1>4 DEF Outcome

LEMMA UndecodedOutcome ==
    ASSUME IInv, Reading, NEW p \in Bad
    PROVE  Outcome([snapshot EXCEPT !.raw[Register] = p,
                                    !.failures[Register] = "decode"], 0)
  <1> DEFINE s == [snapshot EXCEPT !.raw[Register] = p,
                                   !.failures[Register] = "decode"]
  <1>1. Register \in Regs /\ snapshot \in ScooterStates /\ Agrees(snapshot)
    BY HeadOfPlan DEF IInv, TypeOK, SnapshotInv
  <1>2. p \in Payloads
    BY DEF Payloads
  <1>3. /\ s \in ScooterStates /\ Agrees(s) /\ Settled(s, Register)
        /\ \A r \in Regs \ {Register} :
             s.failures[r] = snapshot.failures[r] /\ s.values[r] = snapshot.values[r]
    BY <1>1, <1>2 DEF ScooterStates, Failures, Agrees, Settled
  <1>4. 0 \in 0 .. MaxTimeouts - 1
    BY PollAssumption
  <1> QED
    BY <1>3, <1>4 DEF Outcome
-----------------------------------------------------------------------------
LEMMA NextIInv == ASSUME IInv, [Next]_vars PROVE IInv'
  <1>1. CASE StartPoll
    <2>1. UNCHANGED <<link, state, infoFresh, pollOk, calm>> /\ task = "idle"
      BY <1>1 DEF StartPoll
    <2>2. CASE link = "up" /\ Begin(\A r \in Regs : state.values[r] = None)
      <3>1. PICK f \in BOOLEAN : Begin(f)
        BY <2>2
      <3>2. PlanInv' /\ QuietInv' /\ SnapshotInv' /\ TypeOK' /\ task' = "send"
        BY <2>1, <3>1, BeginEffect DEF IInv, TypeOK
      <3>3. FailuresAreCurrent' /\ InfoIsReadPerLink' /\ InfoInv'
        BY <2>1, <2>2, <3>2
           DEF IInv, FailuresAreCurrent, InfoIsReadPerLink, InfoInv
      <3> QED
        BY <3>2, <3>3 DEF IInv
    <2>3. CASE task' = "connect" /\ UNCHANGED <<first, plan, timeouts, snapshot>>
      BY <2>1, <2>3
         DEF IInv, TypeOK, PlanInv, QuietInv, SnapshotInv, InfoInv, Reading,
             FailuresAreCurrent, InfoIsReadPerLink
    <2> QED
      BY <1>1, <2>2, <2>3 DEF StartPoll
  <1>2. CASE ConnectOk
    <2>1. /\ Begin(TRUE) /\ link' = "up" /\ infoFresh' = FALSE
          /\ UNCHANGED <<state, pollOk, calm>>
      BY <1>2 DEF ConnectOk
    <2>2. /\ PlanInv' /\ QuietInv' /\ SnapshotInv' /\ TypeOK'
          /\ task' = "send" /\ first' = TRUE
      BY <2>1, BeginEffect DEF IInv, TypeOK
    <2>3. FailuresAreCurrent' /\ InfoIsReadPerLink' /\ InfoInv'
      BY <2>1, <2>2 DEF IInv, FailuresAreCurrent, InfoIsReadPerLink, InfoInv
    <2> QED
      BY <2>2, <2>3 DEF IInv
  <1>3. CASE ConnectFails
    BY <1>3 DEF ConnectFails, Raise, IInv, TypeOK, PlanInv, QuietInv, SnapshotInv,
                InfoInv, Reading, FailuresAreCurrent, InfoIsReadPerLink
  <1>4. CASE SendRead
    <2>1. /\ Reading /\ Reading' /\ task' = "wait"
          /\ UNCHANGED <<link, first, plan, timeouts, snapshot, state, infoFresh,
                         pollOk, calm>>
      BY <1>4 DEF SendRead, Reading
    <2>2. Schedule(first)' = Schedule(first) /\ Asked' = Asked
      BY <2>1 DEF Schedule, Asked
    <2>3. TypeOK'
      BY <2>1 DEF IInv, TypeOK
    <2>4. PlanInv' /\ QuietInv' /\ SnapshotInv'
      BY <2>1, <2>2 DEF IInv, PlanInv, QuietInv, SnapshotInv
    <2>5. InfoInv' /\ FailuresAreCurrent' /\ InfoIsReadPerLink'
      BY <2>1 DEF IInv, InfoInv, FailuresAreCurrent, InfoIsReadPerLink
    <2> QED
      BY <2>3, <2>4, <2>5 DEF IInv
  <1>5. CASE SendFails
    <2>1. Reading /\ Advance(Failed("connection"), timeouts)
      BY <1>5 DEF SendFails, Reading
    <2>2. timeouts \in 0 .. MaxTimeouts - 1 /\ timeouts <= timeouts + 1
      BY <2>1, PollAssumption DEF IInv, TypeOK, QuietInv
    <2>3. Outcome(Failed("connection"), timeouts)
      BY <2>1, <2>2, UnreadOutcome DEF Unread
    <2> QED
      BY <2>1, <2>3, AdvanceEffect
  <1>6. CASE Answered
    <2>1. Reading
      BY <1>6 DEF Answered, Reading
    <2>2. ASSUME NEW p \in Good,
                 Advance([snapshot EXCEPT !.raw[Register] = p,
                                          !.values[Register] = p], 0)
          PROVE  IInv'
      BY <2>1, <2>2, ReadOutcome, AdvanceEffect
    <2>3. ASSUME NEW p \in Bad,
                 Advance([snapshot EXCEPT !.raw[Register] = p,
                                          !.failures[Register] = "decode"], 0)
          PROVE  IInv'
      BY <2>1, <2>3, UndecodedOutcome, AdvanceEffect
    <2> QED
      BY <1>6, <2>2, <2>3 DEF Answered
  <1>7. CASE ReadTimesOut
    <2>1. /\ Reading /\ Advance(Failed("timeout"), timeouts + 1)
          /\ timeouts + 1 < MaxTimeouts
      BY <1>7 DEF ReadTimesOut, Reading
    <2>2. timeouts + 1 \in 0 .. MaxTimeouts - 1
      BY <2>1, PollAssumption DEF IInv, TypeOK
    <2>3. Outcome(Failed("timeout"), timeouts + 1)
      BY <2>1, <2>2, UnreadOutcome DEF Unread
    <2> QED
      BY <2>1, <2>3, AdvanceEffect
  <1>8. CASE PollAborts
    <2>1. /\ Reading /\ plan' = Tail(plan) /\ snapshot' = Failed("timeout")
          /\ timeouts' = timeouts + 1 /\ task' = "raised"
          /\ UNCHANGED <<link, first, state, infoFresh, pollOk, calm>>
      BY <1>8 DEF PollAborts, Raise, Reading
    <2>2. plan' \in Seq(Regs) /\ timeouts' \in 0 .. MaxTimeouts
      BY <2>1, HeadOfPlan, PollAssumption DEF IInv, TypeOK, QuietInv
    <2>3. snapshot' \in ScooterStates
      BY <2>1, HeadOfPlan DEF IInv, TypeOK, Failed, ScooterStates, Failures
    <2>4. TypeOK'
      BY <2>1, <2>2, <2>3 DEF IInv, TypeOK
    <2>5. PlanInv' /\ QuietInv' /\ SnapshotInv' /\ InfoInv'
      BY <2>1 DEF PlanInv, QuietInv, SnapshotInv, InfoInv, Reading
    <2>6. FailuresAreCurrent' /\ InfoIsReadPerLink'
      BY <2>1 DEF IInv, FailuresAreCurrent, InfoIsReadPerLink
    <2> QED
      BY <2>4, <2>5, <2>6 DEF IInv
  <1>9. CASE WalkSendFails
    <2>1. Reading /\ Advance(Failed("connection"), timeouts)
      BY <1>9 DEF WalkSendFails, Reading
    <2>2. timeouts \in 0 .. MaxTimeouts - 1 /\ timeouts <= timeouts + 1
      BY <2>1, PollAssumption DEF IInv, TypeOK, QuietInv
    <2>3. Outcome(Failed("connection"), timeouts)
      BY <2>1, <2>2, UnreadOutcome DEF Unread
    <2> QED
      BY <2>1, <2>3, AdvanceEffect
  <1>10. CASE HandleError
    <2>1. /\ task' = "idle" /\ link' = "down" /\ infoFresh' = FALSE /\ pollOk' = FALSE
          /\ first' = FALSE /\ plan' = <<>> /\ timeouts' = 0 /\ snapshot' = EmptyState
          /\ UNCHANGED <<state, calm>>
      BY <1>10 DEF HandleError
    <2>2. TypeOK'
      BY <2>1, NothingPlanned, EmptyStateType DEF IInv, TypeOK
    <2>3. PlanInv' /\ QuietInv' /\ SnapshotInv' /\ InfoInv' /\ InfoIsReadPerLink'
      BY <2>1 DEF PlanInv, QuietInv, SnapshotInv, InfoInv, InfoIsReadPerLink, Reading
    <2>4. FailuresAreCurrent'
      BY <2>1 DEF IInv, FailuresAreCurrent
    <2> QED
      BY <2>2, <2>3, <2>4 DEF IInv
  <1>11. CASE LinkDrop \/ Settle \/ UNCHANGED vars
    <2>1. /\ UNCHANGED <<task, first, plan, timeouts, snapshot, state, pollOk>>
          /\ (link' = "down" /\ infoFresh' = FALSE) \/ UNCHANGED <<link, infoFresh>>
          /\ calm' \in BOOLEAN
      BY <1>11 DEF LinkDrop, Settle, vars, pollVars, IInv, TypeOK
    <2>2. /\ Schedule(first)' = Schedule(first) /\ Asked' = Asked
          /\ Reading' = Reading
      BY <2>1 DEF Schedule, Asked, Reading
    <2>3. TypeOK'
      BY <2>1 DEF IInv, TypeOK
    <2>4. PlanInv' /\ QuietInv' /\ SnapshotInv'
      BY <2>1, <2>2 DEF IInv, PlanInv, QuietInv, SnapshotInv
    <2>5. InfoInv' /\ FailuresAreCurrent' /\ InfoIsReadPerLink'
      BY <2>1, <2>2 DEF IInv, InfoInv, FailuresAreCurrent, InfoIsReadPerLink
    <2> QED
      BY <2>3, <2>4, <2>5 DEF IInv
  <1> QED
    BY <1>1, <1>2, <1>3, <1>4, <1>5, <1>6, <1>7, <1>8, <1>9, <1>10, <1>11
       DEF Next, PollStep

\* IInv holds throughout: the plan, the count of timeouts and the snapshot of
\* a poll tell the same story (async_poll).
THEOREM IInvHolds == Spec => []IInv
  BY InitIInv, NextIInv, PTL DEF Spec

\* Every variable keeps its type; the count never passes the limit.
THEOREM PollTypeCorrect == Spec => []TypeOK
  BY IInvHolds, PTL DEF IInv

\* The merged state tells which registers failed (ScooterState.update).
THEOREM FailuresStayCurrent == Spec => []FailuresAreCurrent
  BY IInvHolds, PTL DEF IInv

\* A link kept between polls has had its static registers asked for
\* (first_poll in _async_update).
THEOREM InfoReadPerLink == Spec => []InfoIsReadPerLink
  BY IInvHolds, PTL DEF IInv

LEMMA AbortStep ==
    ASSUME IInv, [Next]_vars, task = "wait", task' = "raised"
    PROVE  LET order == Schedule(first)
               asked == Len(order) - Len(plan')
           IN  \A i \in asked - MaxTimeouts + 1 .. asked :
                   /\ i >= 1
                   /\ snapshot'.failures[order[i]] \in {"timeout", "connection"}
  <1>1. PollAborts
    BY DEF Next, PollStep, StartPoll, ConnectOk, ConnectFails, SendRead, SendFails,
           Answered, ReadTimesOut, WalkSendFails, Advance, Complete, HandleError,
           LinkDrop, Settle, vars, pollVars
  <1>2. /\ Reading /\ plan' = Tail(plan) /\ snapshot' = Failed("timeout")
        /\ timeouts + 1 >= MaxTimeouts
    BY <1>1 DEF PollAborts, Reading
  <1>3. timeouts \in Nat /\ timeouts + 1 = MaxTimeouts
    BY <1>2, PollAssumption DEF IInv, TypeOK, QuietInv
  <1>4. /\ Register \in Regs /\ Asked \in Nat
        /\ Len(Schedule(first)) - Len(plan') = Asked + 1
    BY <1>2, HeadOfPlan DEF Asked
  <1>5. /\ Failed("timeout") \in ScooterStates
        /\ Failed("timeout").failures[Register] \in Unread
        /\ \A r \in Regs \ {Register} :
             Failed("timeout").failures[r] = snapshot.failures[r]
    BY <1>4 DEF IInv, TypeOK, Failed, ScooterStates, Failures, Unread
  <1>6. /\ MaxTimeouts <= Asked + 1
        /\ \A i \in Asked + 1 - MaxTimeouts + 1 .. Asked + 1 :
             Failed("timeout").failures[Schedule(first)[i]] \in Unread
    BY <1>2, <1>3, <1>5, RunGoesOn
  <1>7. \A i \in Asked + 1 - MaxTimeouts + 1 .. Asked + 1 : i >= 1
    BY <1>3, <1>4, <1>6
  <1> DEFINE asked == Len(Schedule(first)) - Len(plan')
  <1>8. asked = Asked + 1 /\ asked - MaxTimeouts + 1 = Asked + 1 - MaxTimeouts + 1
    BY <1>3, <1>4
  <1> HIDE DEF asked
  <1>9. ASSUME NEW i \in asked - MaxTimeouts + 1 .. asked
        PROVE  i >= 1 /\ snapshot'.failures[Schedule(first)[i]] \in Unread
    <2>1. i \in Asked + 1 - MaxTimeouts + 1 .. Asked + 1
      BY <1>8, <1>9
    <2> QED
      BY <1>2, <1>6, <1>7, <2>1
  <1> QED
    BY <1>9 DEF asked, Unread

\* A poll is only given up after MaxTimeouts registers in a row stayed unread,
\* wherever in the table the scooter's missing registers are.
THEOREM PollAbortsOnlyWhenQuiet == Spec => AbortsOnlyWhenQuiet
  <1> DEFINE Quiet ==
          LET order == Schedule(first)
              asked == Len(order) - Len(plan')
          IN  \A i \in asked - MaxTimeouts + 1 .. asked :
                  /\ i >= 1
                  /\ snapshot'.failures[order[i]] \in {"timeout", "connection"}
  <1>1. IInv /\ [Next]_vars => [task = "wait" /\ task' = "raised" => Quiet]_vars
    BY AbortStep
  <1> QED
    BY <1>1, IInvHolds, PTL DEF Spec, AbortsOnlyWhenQuiet
=============================================================================
