----------------------------- MODULE PairedLink -----------------------------
(***************************************************************************)
(* What pairing promises about three keys: the one the config entry keeps, *)
(* the one the scooter is paired with, and the one the scooter has moved   *)
(* the latest link's session to.  A link is used only under one key that   *)
(* all three agree on; the entry takes a key only from a session; and      *)
(* while a link is in use none of the three changes.                       *)
(***************************************************************************)
CONSTANTS Keys, NoKey

VARIABLES
    stored,     \* the key in the config entry
    paired,     \* the key the scooter is paired with
    session,    \* the key of the latest link's session, NoKey before it has one
    inUse       \* a link is open and no handshake is running on it

vars == <<stored, paired, session, inUse>>

Init ==
    /\ stored \in Keys \cup {NoKey}
    /\ paired \in Keys \cup {NoKey}
    /\ session = NoKey
    /\ inUse = FALSE

\* A link is opened: its session is none of the keys'.
Open ==
    /\ ~inUse
    /\ session' = NoKey
    /\ UNCHANGED <<stored, paired, inUse>>

\* The scooter knows the key it is offered.
Admit ==
    /\ session = NoKey /\ paired # NoKey
    /\ session' = paired
    /\ UNCHANGED <<stored, paired, inUse>>

\* The power button is pressed: the scooter takes the key it is offered.
Pair ==
    /\ session = NoKey
    /\ paired' \in Keys
    /\ session' = paired'
    /\ UNCHANGED <<stored, inUse>>

\* The handshake is through: the entry keeps the session's key, and the link is
\* used, unless it has dropped meanwhile.
Agree ==
    /\ ~inUse /\ session # NoKey
    /\ stored' = session
    /\ inUse' => session = paired
    /\ inUse' \in BOOLEAN
    /\ UNCHANGED <<paired, session>>

\* The link drops, or is given up after an error.
Drop ==
    /\ inUse /\ ~inUse'
    /\ UNCHANGED <<stored, paired, session>>

\* The scooter is reset, or paired from elsewhere.
Reset ==
    /\ ~inUse
    /\ paired' \in Keys \cup {NoKey}
    /\ UNCHANGED <<stored, session, inUse>>

Next == Open \/ Admit \/ Pair \/ Agree \/ Drop \/ Reset

Spec == Init /\ [][Next]_vars
=============================================================================
