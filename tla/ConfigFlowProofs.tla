-------------------------- MODULE ConfigFlowProofs --------------------------
(***************************************************************************)
(* Machine-checked safety of ConfigFlow, for any scooters and any number   *)
(* of flows in progress: a scooter is offered once, and no flow replaces   *)
(* an entry that has its key.                                              *)
(***************************************************************************)
EXTENDS ConfigFlow, TLAPS

IInv == TypeOK /\ OneInvitation

\* What TypeOK says of the flows whatever their number.
LEMMA FlowTypes ==
    ASSUME TypeOK
    PROVE  /\ DOMAIN entries = Addresses
           /\ \A f \in Flows : /\ step[f] \in {"none", "confirm", "user"}
                               /\ uniqueId[f] \in Scooters \union {None}
                               /\ step[f] = "confirm" => uniqueId[f] \in Scooters
                               /\ discovered[f] \in SUBSET Scooters
  BY DEF TypeOK, Flows

\* Ending flows disturbs no invariant of the flows that go on.
LEMMA EndKeepsTypes ==
    ASSUME TypeOK, NEW fs \in SUBSET Flows, End(fs),
           advertising' \subseteq Addresses,
           entries' \in [Addresses -> {"none", "ignored", "new", "paired"}],
           \A a \in Others : entries'[a] = "none"
    PROVE  TypeOK'
  <1>1. step' = [f \in Flows |-> IF f \in fs THEN "none" ELSE step[f]]
    BY DEF End
  <1>2. uniqueId' = [f \in Flows |-> IF f \in fs THEN None ELSE uniqueId[f]]
    BY DEF End
  <1>3. discovered' = [f \in Flows |-> IF f \in fs THEN {} ELSE discovered[f]]
    BY DEF End
  <1>4. \A f \in Discoveries : step'[f] # "user" /\ discovered'[f] = {}
    BY <1>1, <1>3 DEF TypeOK, Flows
  <1>5. /\ step' \in [Flows -> {"none", "confirm", "user"}]
        /\ \A f \in Manuals : step'[f] # "confirm"
    BY <1>1 DEF TypeOK, Flows
  <1>6. uniqueId' \in [Flows -> Scooters \union {None}]
    BY <1>2 DEF TypeOK
  <1>7. discovered' \in [Flows -> SUBSET Scooters]
    BY <1>3 DEF TypeOK
  <1>8. \A f \in Flows : uniqueId'[f] # None <=> step'[f] = "confirm"
    BY <1>1, <1>2 DEF TypeOK
  <1> QED
    BY <1>4, <1>5, <1>6, <1>7, <1>8 DEF TypeOK

LEMMA CreateKeepsInv ==
    ASSUME IInv, NEW f \in Flows, NEW a \in Scooters, NEW kind \in {"new", "ignored"},
           CreateEntry(f, a, kind), UNCHANGED advertising
    PROVE  IInv'
  <1> DEFINE fs == {f} \union {g \in Flows : uniqueId[g] = a}
  <1>1. entries' = [entries EXCEPT ![a] = kind] /\ End(fs)
    BY DEF CreateEntry
  <1>2. a \in Addresses /\ a \notin Others
    BY ConfigFlowAssumption DEF Addresses
  <1>3. fs \in SUBSET Flows
    OBVIOUS
  <1>4. /\ entries' \in [Addresses -> {"none", "ignored", "new", "paired"}]
        /\ \A b \in Others : entries'[b] = "none"
        /\ advertising' \subseteq Addresses
    BY <1>1, <1>2 DEF IInv, TypeOK, Addresses
  <1>5. TypeOK'
    BY <1>1, <1>3, <1>4, EndKeepsTypes DEF IInv
  <1>6. OneInvitation'
    <2> SUFFICES ASSUME NEW d \in Discoveries, step'[d] = "confirm"
                 PROVE  /\ entries'[uniqueId'[d]] = "none"
                        /\ \A g \in Flows : uniqueId'[g] = uniqueId'[d] => g = d
      BY DEF OneInvitation
    <2>1. d \in Flows /\ d \notin fs /\ step[d] = "confirm" /\ uniqueId'[d] = uniqueId[d]
      BY <1>1 DEF End, Flows
    <2>2. uniqueId[d] # a /\ uniqueId[d] \in Scooters /\ uniqueId[d] # None
      BY <2>1, FlowTypes DEF IInv, TypeOK
    <2>3. /\ entries[uniqueId[d]] = "none"
          /\ \A g \in Flows : uniqueId[g] = uniqueId[d] => g = d
      BY <2>1 DEF IInv, OneInvitation
    <2>4. entries'[uniqueId'[d]] = "none"
      BY <1>1, <1>4, <2>1, <2>2, <2>3 DEF Addresses, IInv, TypeOK
    <2>5. ASSUME NEW g \in Flows, uniqueId'[g] = uniqueId'[d] PROVE g = d
      BY <1>1, <2>1, <2>2, <2>3, <2>5 DEF End
    <2> QED
      BY <2>4, <2>5
  <1> QED
    BY <1>5, <1>6 DEF IInv

LEMMA EndKeepsInv ==
    ASSUME IInv, NEW f \in Flows, End({f}), UNCHANGED <<advertising, entries>>
    PROVE  IInv'
  <1>1. TypeOK'
    BY EndKeepsTypes DEF IInv, TypeOK
  <1>2. OneInvitation'
    <2> SUFFICES ASSUME NEW d \in Discoveries, step'[d] = "confirm"
                 PROVE  /\ entries'[uniqueId'[d]] = "none"
                        /\ \A g \in Flows : uniqueId'[g] = uniqueId'[d] => g = d
      BY DEF OneInvitation
    <2>1. d \in Flows /\ d # f /\ step[d] = "confirm" /\ uniqueId'[d] = uniqueId[d]
      BY DEF End, Flows
    <2>2. uniqueId[d] # None
      BY <2>1 DEF IInv, TypeOK
    <2>3. /\ entries[uniqueId[d]] = "none"
          /\ \A g \in Flows : uniqueId[g] = uniqueId[d] => g = d
      BY <2>1 DEF IInv, OneInvitation
    <2> QED
      BY <2>1, <2>2, <2>3 DEF End
  <1> QED
    BY <1>1, <1>2 DEF IInv
-----------------------------------------------------------------------------
LEMMA InitIInv == ASSUME Init PROVE IInv
  BY DEF Init, IInv, TypeOK, OneInvitation, Flows, Addresses

LEMMA NextIInv == ASSUME IInv, [Next]_vars PROVE IInv'
  <1>1. ASSUME NEW f \in Discoveries, NEW a \in Addresses, Discover(f, a) PROVE IInv'
    <2> USE <1>1 DEF Discover
    <2>1. f \in Flows /\ f \notin Manuals /\ a \in Scooters /\ a # None
      BY ConfigFlowAssumption DEF Flows, IsNinebot, Addresses
    <2>2. TypeOK'
      BY <2>1 DEF IInv, TypeOK, Flows
    <2>3. \A g \in Flows : uniqueId[g] # a
      BY <2>1 DEF IInv, TypeOK, InProgress
    <2>4. \A g \in Flows : uniqueId'[g] = IF g = f THEN a ELSE uniqueId[g]
      BY DEF IInv, TypeOK
    <2>5. \A g \in Discoveries : step'[g] = IF g = f THEN "confirm" ELSE step[g]
      BY <2>2 DEF TypeOK, IInv
    <2>6. OneInvitation'
      <3> SUFFICES ASSUME NEW d \in Discoveries, step'[d] = "confirm"
                   PROVE  /\ entries'[uniqueId'[d]] = "none"
                          /\ \A g \in Flows : uniqueId'[g] = uniqueId'[d] => g = d
        BY DEF OneInvitation
      <3>1. CASE d = f
        BY <2>1, <2>3, <2>4, <3>1
      <3>2. CASE d # f
        <4>1. step[d] = "confirm" /\ d \in Flows /\ uniqueId'[d] = uniqueId[d]
          BY <2>4, <2>5, <3>2 DEF Flows
        <4>2. /\ entries[uniqueId[d]] = "none"
              /\ \A g \in Flows : uniqueId[g] = uniqueId[d] => g = d
          BY <4>1 DEF IInv, OneInvitation
        <4> QED
          BY <2>3, <2>4, <4>1, <4>2
      <3> QED
        BY <3>1, <3>2
    <2> QED
      BY <2>2, <2>6 DEF IInv
  <1>2. ASSUME NEW f \in Discoveries, Confirm(f) \/ Ignore(f) PROVE IInv'
    <2>1. f \in Flows /\ uniqueId[f] \in Scooters
      BY <1>2, FlowTypes DEF Confirm, Ignore, IInv, Flows
    <2> QED
      BY <1>2, <2>1, CreateKeepsInv DEF Confirm, Ignore
  <1>3. ASSUME NEW f \in Manuals, AskUser(f) PROVE IInv'
    <2>1. Listed \in SUBSET Scooters
      BY DEF Listed, IsNinebot
    <2>2. f \in Flows /\ f \notin Discoveries
      BY ConfigFlowAssumption DEF Flows
    <2>3. /\ step' = [step EXCEPT ![f] = "user"]
          /\ discovered' = [discovered EXCEPT ![f] = Listed]
          /\ step[f] = "none"
          /\ UNCHANGED <<advertising, entries, uniqueId>>
      BY <1>3 DEF AskUser
    <2>4. TypeOK'
      BY <2>1, <2>2, <2>3 DEF IInv, TypeOK, Flows
    <2>5. OneInvitation'
      BY <2>2, <2>3, <2>4 DEF IInv, TypeOK, OneInvitation
    <2> QED
      BY <2>4, <2>5 DEF IInv
  <1>4. ASSUME NEW f \in Manuals, NEW a \in Addresses, Pick(f, a) PROVE IInv'
    <2>1. f \in Flows /\ a \in Scooters
      BY <1>4, FlowTypes DEF Pick, Flows, IInv
    <2>2. CASE CreateEntry(f, a, "new") /\ UNCHANGED advertising
      BY <2>1, <2>2, CreateKeepsInv
    <2>3. CASE End({f}) /\ UNCHANGED <<advertising, entries>>
      BY <2>1, <2>3, EndKeepsInv
    <2> QED
      BY <1>4, <2>2, <2>3 DEF Pick
  <1>5. ASSUME NEW f \in Manuals, Close(f) PROVE IInv'
    BY <1>5, EndKeepsInv DEF Close, Flows
  <1>6. ASSUME NEW a \in Addresses, Advertises(a) \/ Sleeps(a) PROVE IInv'
    BY <1>6 DEF Advertises, Sleeps, IInv, TypeOK, OneInvitation, flowVars
  <1>7. ASSUME NEW a \in Addresses, Pair(a) \/ Remove(a) PROVE IInv'
    <2>1. PICK kind \in {"paired", "none"} :
            /\ entries[a] # "none"
            /\ entries' = [entries EXCEPT ![a] = kind]
            /\ UNCHANGED <<advertising, flowVars>>
      BY <1>7 DEF Pair, Remove
    <2>2. TypeOK'
      BY <2>1 DEF IInv, TypeOK, Addresses, flowVars
    <2>3. \A b \in Addresses : entries[b] = "none" => entries'[b] = "none"
      BY <2>1 DEF IInv, TypeOK
    <2>4. OneInvitation'
      <3>1. \A d \in Discoveries : step[d] = "confirm" => uniqueId[d] \in Addresses
        BY FlowTypes DEF IInv, Flows, Addresses
      <3> QED
        BY <2>1, <2>3, <3>1 DEF IInv, OneInvitation, flowVars
    <2> QED
      BY <2>2, <2>4 DEF IInv
  <1>8. CASE UNCHANGED vars
    BY <1>8 DEF vars, flowVars, IInv, TypeOK, OneInvitation
  <1> QED
    BY <1>1, <1>2, <1>3, <1>4, <1>5, <1>6, <1>7, <1>8 DEF Next

\* Flows and entries keep their types, and no device but a scooter gets an
\* entry, however many flows are in progress.
THEOREM ConfigFlowTypeCorrect == Spec => []TypeOK
  <1>1. IInv /\ [Next]_vars => IInv'
    BY NextIInv
  <1> QED
    BY InitIInv, <1>1, PTL DEF Spec, IInv

\* A scooter is offered in one dialog at a time (async_set_unique_id) and only
\* while it has no entry, however many flows are in progress and although the
\* manual flow does not stop for a discovery.
THEOREM OfferedOnce == Spec => []OneInvitation
  <1>1. IInv /\ [Next]_vars => IInv'
    BY NextIInv
  <1> QED
    BY InitIInv, <1>1, PTL DEF Spec, IInv

\* What a step of the flows may do to an entry that has its key.
LEMMA StepKeepsKey ==
    ASSUME IInv, [Next]_vars, NEW b \in Addresses, entries[b] = "paired"
    PROVE  entries'[b] \in {"paired", "none"}
  <1>0. entries \in [Addresses -> {"none", "ignored", "new", "paired"}]
    BY DEF IInv, TypeOK
  <1>1. ASSUME NEW f \in Discoveries, Confirm(f) \/ Ignore(f)
        PROVE  entries'[b] = "paired"
    <2>1. PICK kind \in {"new", "ignored"} : CreateEntry(f, uniqueId[f], kind)
      BY <1>1 DEF Confirm, Ignore
    <2>2. uniqueId[f] # b
      BY <1>1 DEF Confirm, Ignore, IInv, OneInvitation
    <2> QED
      BY <1>0, <2>1, <2>2 DEF CreateEntry
  <1>2. ASSUME NEW f \in Manuals, NEW a \in Addresses, Pick(f, a)
        PROVE  entries'[b] = "paired"
    BY <1>0, <1>2 DEF Pick, CreateEntry, Configured
  <1>3. ASSUME NEW a \in Addresses, Pair(a) \/ Remove(a)
        PROVE  entries'[b] \in {"paired", "none"}
    BY <1>0, <1>3 DEF Pair, Remove
  <1>4. CASE UNCHANGED entries
    BY <1>4
  <1> QED
    BY <1>1, <1>2, <1>3, <1>4
       DEF Next, vars, Discover, AskUser, Close, Advertises, Sleeps

\* The key of a scooter survives every flow: only removing the entry loses it.
THEOREM NoFlowReplacesAKey == Spec => KeyIsKept
  <1>1. IInv /\ [Next]_vars => IInv'
    BY NextIInv
  <1>2. IInv /\ [Next]_vars =>
          [\A a \in Addresses : entries[a] = "paired" => entries'[a] \in {"paired", "none"}]_vars
    BY StepKeepsKey
  <1> QED
    BY InitIInv, <1>1, <1>2, PTL DEF Spec, KeyIsKept
=============================================================================
