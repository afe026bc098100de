----------------------------- MODULE ConfigFlow -----------------------------
(***************************************************************************)
(* NinebotConfigFlow: how scooters become config entries, from a Bluetooth *)
(* discovery the owner confirms or from a list the owner picks from.       *)
(* Several flows can be in progress at once; each of their steps runs      *)
(* without an await that suspends it.  Home Assistant's flow manager       *)
(* creates the entry a flow asks for, in place of one with the same unique *)
(* ID, and aborts every other flow with that unique ID.                    *)
(***************************************************************************)
EXTENDS Naturals, FiniteSets

CONSTANTS
    Scooters,       \* addresses that advertise with MANUFACTURER_ID
    Others,         \* addresses of other devices
    Discoveries,    \* bound: flows started by discoveries
    Manuals,        \* bound: flows started by the owner
    None

Addresses == Scooters \union Others
Flows == Discoveries \union Manuals

ASSUME ConfigFlowAssumption ==
    /\ Scooters \intersect Others = {} /\ Discoveries \intersect Manuals = {}
    /\ None \notin Addresses

VARIABLES
    advertising,    \* addresses in async_discovered_service_info
    entries,        \* the entry of each address, "paired" once it has an app key
    step,           \* which form each flow shows, "none" when it is not in progress
    uniqueId,       \* unique ID of each flow
    discovered      \* _discovered of each flow

flowVars == <<step, uniqueId, discovered>>
vars == <<advertising, entries, flowVars>>

TypeOK ==
    /\ advertising \subseteq Addresses
    /\ entries \in [Addresses -> {"none", "ignored", "new", "paired"}]
    /\ step \in [Flows -> {"none", "confirm", "user"}]
    /\ \A f \in Discoveries : step[f] # "user" /\ discovered[f] = {}
    /\ \A f \in Manuals : step[f] # "confirm"
    /\ uniqueId \in [Flows -> Scooters \union {None}]
    /\ discovered \in [Flows -> SUBSET Scooters]
    /\ \A f \in Flows : uniqueId[f] # None <=> step[f] = "confirm"
    /\ \A a \in Others : entries[a] = "none"

Init ==
    /\ advertising = {}
    /\ entries = [a \in Addresses |-> "none"]
    /\ step = [f \in Flows |-> "none"]
    /\ uniqueId = [f \in Flows |-> None]
    /\ discovered = [f \in Flows |-> {}]
-----------------------------------------------------------------------------
(* Flows.  Definitions marked "fault" are seeded faults: no action uses    *)
(* them.                                                                   *)

\* _is_ninebot.
IsNinebot(a) == a \in Scooters

\* async_set_unique_id finds another flow with unique ID a in progress.
InProgress(a) == \E f \in Flows : step[f] # "none" /\ uniqueId[f] = a

\* The flows in fs are no longer in progress.
End(fs) ==
    /\ step' = [f \in Flows |-> IF f \in fs THEN "none" ELSE step[f]]
    /\ uniqueId' = [f \in Flows |-> IF f \in fs THEN None ELSE uniqueId[f]]
    /\ discovered' = [f \in Flows |-> IF f \in fs THEN {} ELSE discovered[f]]

\* The flow manager creates what flow f asks for.
CreateEntry(f, a, kind) ==
    /\ entries' = [entries EXCEPT ![a] = kind]
    /\ End({f} \union {g \in Flows : uniqueId[g] = a})

Discover_InProgress(f, a) ==   \* fault: a discovery in progress does not stop it
    /\ step[f] = "none" /\ a \in advertising
    /\ entries[a] = "none"
    /\ IsNinebot(a)
    /\ step' = [step EXCEPT ![f] = "confirm"]
    /\ uniqueId' = [uniqueId EXCEPT ![f] = a]
    /\ UNCHANGED <<advertising, entries, discovered>>

Discover_NoManual(f, a) ==   \* fault: any flow in progress stops it
    /\ step[f] = "none" /\ a \in advertising
    /\ \A g \in Flows : step[g] = "none"
    /\ entries[a] = "none"
    /\ IsNinebot(a)
    /\ step' = [step EXCEPT ![f] = "confirm"]
    /\ uniqueId' = [uniqueId EXCEPT ![f] = a]
    /\ UNCHANGED <<advertising, entries, discovered>>

\* async_step_bluetooth, when it does not abort.
Discover(f, a) ==
    /\ step[f] = "none" /\ a \in advertising
    /\ ~InProgress(a)
    /\ entries[a] = "none"
    /\ IsNinebot(a)
    /\ step' = [step EXCEPT ![f] = "confirm"]
    /\ uniqueId' = [uniqueId EXCEPT ![f] = a]
    /\ UNCHANGED <<advertising, entries, discovered>>

\* async_step_confirm, submitted.
Confirm(f) ==
    /\ step[f] = "confirm"
    /\ CreateEntry(f, uniqueId[f], "new")
    /\ UNCHANGED advertising

\* The owner ignores a discovery.
Ignore(f) ==
    /\ step[f] = "confirm"
    /\ CreateEntry(f, uniqueId[f], "ignored")
    /\ UNCHANGED advertising

Configured == {a \in Addresses : entries[a] \in {"new", "paired"}}

Listed_All == advertising \ Configured   \* fault: other devices are listed

\* The scooters async_step_user offers.
Listed == {a \in advertising \ Configured : IsNinebot(a)}

\* async_step_user, when it does not abort.
AskUser(f) ==
    /\ step[f] = "none"
    /\ Listed # {}
    /\ step' = [step EXCEPT ![f] = "user"]
    /\ discovered' = [discovered EXCEPT ![f] = Listed]
    /\ UNCHANGED <<advertising, entries, uniqueId>>

Pick_Unchecked(f, a) ==   \* fault: _abort_if_unique_id_configured is not called
    /\ step[f] = "user" /\ a \in discovered[f]
    /\ CreateEntry(f, a, "new")
    /\ UNCHANGED advertising

\* async_step_user, submitted: the scooter may have been set up meanwhile.
Pick(f, a) ==
    /\ step[f] = "user" /\ a \in discovered[f]
    /\ \/ a \notin Configured /\ CreateEntry(f, a, "new")
       \/ a \in Configured /\ End({f}) /\ UNCHANGED entries
    /\ UNCHANGED advertising

\* The owner closes the dialog of a manual flow.
Close(f) ==
    /\ step[f] = "user"
    /\ End({f})
    /\ UNCHANGED <<advertising, entries>>
-----------------------------------------------------------------------------
(* The rest of the world.                                                  *)

Advertises(a) ==
    /\ advertising' = advertising \union {a}
    /\ UNCHANGED <<entries, flowVars>>

Sleeps(a) ==
    /\ advertising' = advertising \ {a}
    /\ UNCHANGED <<entries, flowVars>>

\* _persist_app_key.
Pair(a) ==
    /\ entries[a] = "new"
    /\ entries' = [entries EXCEPT ![a] = "paired"]
    /\ UNCHANGED <<advertising, flowVars>>

\* The owner removes an entry.
Remove(a) ==
    /\ entries[a] # "none"
    /\ entries' = [entries EXCEPT ![a] = "none"]
    /\ UNCHANGED <<advertising, flowVars>>

Next ==
    \/ \E f \in Discoveries : (\E a \in Addresses : Discover(f, a)) \/ Confirm(f) \/ Ignore(f)
    \/ \E f \in Manuals : AskUser(f) \/ (\E a \in Addresses : Pick(f, a)) \/ Close(f)
    \/ \E a \in Addresses : Advertises(a) \/ Sleeps(a) \/ Pair(a) \/ Remove(a)

Spec == Init /\ [][Next]_vars

\* Home Assistant starts a flow for every device it discovers.
FairSpec ==
    /\ Spec
    /\ \A a \in Addresses : WF_vars(\E f \in Discoveries : Discover(f, a))
-----------------------------------------------------------------------------
\* "The pairing key is then stored in the config entry and reused, so restarts
\* and reconnects do not ask again" (README): no flow replaces an entry that has
\* its key, however many flows were opened for the scooter before.
KeyIsKept ==
    [][\A a \in Addresses : entries[a] = "paired" => entries'[a] \in {"paired", "none"}]_vars

\* A scooter is offered for confirmation once, and only while it has no entry.
OneInvitation ==
    \A f \in Discoveries : step[f] = "confirm" =>
        /\ entries[uniqueId[f]] = "none"
        /\ \A g \in Flows : uniqueId[g] = uniqueId[f] => g = f

\* "The scooter is discovered automatically once it advertises" (README), also
\* while other flows are in progress.
FoundOnceAwake ==
    \A a \in Scooters :
        <>[](a \in advertising /\ entries[a] = "none") => <>[]InProgress(a)
=============================================================================
