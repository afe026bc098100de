------------------------------- MODULE Pairing ------------------------------
(***************************************************************************)
(* Pairing from end to end: the coordinator's polls (coordinator.py), the  *)
(* client's connect, the scooter, the key kept in the config entry, and    *)
(* what the environment does to them: links that drop, keys the scooter    *)
(* forgets, restarts of Home Assistant.  The reads of a poll are the       *)
(* subject of another module; here a poll only succeeds or fails.          *)
(***************************************************************************)
EXTENDS Client, Scooter

VARIABLES
    entryKey,           \* entry.data[CONF_APP_KEY], NoKey when absent
    pairingRequired,    \* coordinator.pairing_required
    lastPollOk          \* coordinator.last_poll_successful

coordinatorVars == <<entryKey, pairingRequired, lastPollOk>>
vars == <<wireVars, calm, scooterVars, clientVars, coordinatorVars>>

TypeOK ==
    /\ WireTypeOK
    /\ ScooterTypeOK
    /\ ClientTypeOK
    /\ entryKey \in Keys \cup {NoKey}
    /\ pairingRequired \in BOOLEAN
    /\ lastPollOk \in BOOLEAN

\* Sixteen random bytes differ from every key already in use.
FreshKeys == Keys \ {appKey, scKey, entryKey}

\* async_setup_entry: a new client with the stored key, or with a fresh one.
Init ==
    /\ WireInit
    /\ ScooterInit
    /\ entryKey \in Keys \cup {NoKey}
    /\ \/ entryKey \in Keys /\ appKey = entryKey /\ supplied = TRUE
       \/ /\ entryKey = NoKey
          /\ appKey \in Keys \ {scKey}
          /\ supplied = FALSE
    /\ pc = "idle"
    /\ crypto = NameKey
    /\ responses = <<>>
    /\ word = 0
    /\ error = "none"
    /\ pairingRequired = FALSE
    /\ lastPollOk = TRUE

\* An advertisement arrives when a poll is due.
StartPoll ==
    /\ pc = "idle"
    /\ \/ conn = "up" /\ pc' = "polling" /\ UNCHANGED <<crypto, responses>>
       \/ conn = "down" /\ OpenTransport
    /\ UNCHANGED <<wireVars, calm, scooterVars, appKey, supplied, word, error,
                   coordinatorVars>>

PersistAppKey_FirstOnly ==   \* fault: a re-paired key is not stored
    entryKey' = IF pc' = "polling" /\ entryKey = NoKey THEN appKey' ELSE entryKey
PersistAppKey_Early ==   \* fault: stored before the scooter accepts it
    entryKey' = IF pc' \in {"pairing", "polling"} THEN appKey' ELSE entryKey
PersistAppKey_InFinally ==   \* fault: stored also when connect has failed
    entryKey' = IF pc' \in {"polling", "raised"} THEN appKey' ELSE entryKey

\* connect has returned: _persist_app_key runs before anything else does.
PersistAppKey == entryKey' = IF pc' = "polling" THEN appKey' ELSE entryKey

\* A step of the client, with its effect on the scooter and on the entry.
ClientDoes(step) ==
    /\ step
    /\ IF conn = "down" /\ conn' = "up" THEN LinkOpened
                                        ELSE UNCHANGED scooterVars
    /\ PersistAppKey
    /\ UNCHANGED <<calm, pairingRequired, lastPollOk>>

ClientConnect == ClientDoes(ConnectStep)

ClientRePair ==
    /\ \E k \in FreshKeys : RePair(k)
    /\ UNCHANGED <<calm, scooterVars, coordinatorVars>>

ClientNotify == OnNotify /\ UNCHANGED <<calm, scooterVars, coordinatorVars>>

\* async_poll returned, with or without failed registers.
PollSucceeds ==
    /\ pc = "polling"
    /\ pc' = "idle"
    /\ pairingRequired' = FALSE
    /\ lastPollOk' = TRUE
    /\ UNCHANGED <<wireVars, calm, scooterVars, appKey, supplied, crypto,
                   responses, word, error, entryKey>>

\* The link was down when async_poll began, or three registers in a row
\* went unanswered.
PollFails ==
    /\ pc = "polling"
    /\ conn = "down" \/ ~calm
    /\ pc' = "raised"
    /\ error' = "connection"
    /\ UNCHANGED <<wireVars, calm, scooterVars, appKey, supplied, crypto,
                   responses, word, coordinatorVars>>

HandleError_KeepsLink ==   \* fault: the link survives the error
    /\ pc = "raised"
    /\ pc' = "idle"
    /\ pairingRequired' = (pairingRequired \/ error = "pairing")
    /\ lastPollOk' = FALSE
    /\ UNCHANGED <<wireVars, calm, scooterVars, appKey, supplied, crypto,
                   responses, word, error, entryKey>>

\* The except clauses of _async_poll: note the failure and drop the link.
HandleError ==
    /\ pc = "raised"
    /\ pc' = "idle"
    /\ pairingRequired' = (pairingRequired \/ error = "pairing")
    /\ lastPollOk' = FALSE
    /\ Unlink
    /\ UNCHANGED <<calm, scooterVars, appKey, supplied, crypto, responses,
                   word, error, entryKey>>

ScooterStep ==
    /\ ScooterHandle
    /\ UNCHANGED <<calm, clientVars, coordinatorVars>>

ScooterForgets ==
    /\ \E k \in FreshKeys \cup {NoKey} : Forget(k)
    /\ UNCHANGED <<wireVars, calm, clientVars, coordinatorVars>>

\* Out of range, asleep, or the adapter gave up.
LinkDrop ==
    /\ ~calm
    /\ conn = "up"
    /\ Unlink
    /\ UNCHANGED <<calm, scooterVars, clientVars, coordinatorVars>>

\* Home Assistant stops at any await and sets the entry up again.
Restart ==
    /\ ~calm
    /\ Unlink
    /\ \/ entryKey \in Keys /\ appKey' = entryKey /\ supplied' = TRUE
       \/ entryKey = NoKey /\ appKey' \in FreshKeys /\ supplied' = FALSE
    /\ pc' = "idle"
    /\ crypto' = NameKey
    /\ responses' = <<>>
    /\ word' = 0
    /\ error' = "none"
    /\ pairingRequired' = FALSE
    /\ lastPollOk' = TRUE
    /\ UNCHANGED <<calm, scooterVars, entryKey>>

\* From here on the scooter is awake, in range, and its owner presses the
\* button when asked.
Settle ==
    /\ ~calm
    /\ calm' = TRUE
    /\ UNCHANGED <<wireVars, scooterVars, clientVars, coordinatorVars>>

Next ==
    \/ StartPoll \/ ClientConnect \/ ClientRePair \/ ClientNotify
    \/ PollSucceeds \/ PollFails \/ HandleError
    \/ ScooterStep \/ ScooterForgets \/ LinkDrop \/ Restart \/ Settle

Spec == Init /\ [][Next]_vars

\* Each task keeps running and, once calm, answers come; the pairing deadline
\* is a clock that the retries cannot outrun (strong fairness).
Fairness ==
    /\ WF_vars(StartPoll)
    /\ WF_vars(ClientConnect)
    /\ SF_vars(ClientDoes(PairingExpires))
    /\ WF_vars(ClientRePair)
    /\ WF_vars(ClientNotify)
    /\ WF_vars(PollSucceeds \/ PollFails)
    /\ WF_vars(HandleError)
    /\ WF_vars(ScooterStep)
    /\ WF_vars(Settle)

FairSpec == Spec /\ Fairness
-----------------------------------------------------------------------------
\* A link is open and no handshake is running on it.
InUse == conn = "up" /\ pc \in {"polling", "idle"}

\* The key the scooter has moved the session to.
SessionKey == IF scSess \in Keys THEN scSess ELSE NoKey

\* Polls, handshakes, resets, drops and restarts, in any order, keep the promise
\* of PairedLink: the entry, the scooter and the session agree on one key
\* whenever a link is used (connect, _persist_app_key).
Paired == INSTANCE PairedLink
              WITH stored <- entryKey, paired <- scKey, inUse <- InUse,
                   session <- SessionKey
PairedSpec == Paired!Spec

\* Whenever a link is open and no handshake is running, the client's cipher
\* and the scooter hold the session key of the client's application key: the
\* closing PAIR and _verify_session let no other link through.
SessionAgreement ==
    conn = "up" /\ pc \in {"polling", "idle"} =>
        crypto = appKey /\ scSess = appKey

\* The key of a link in use is in the config entry, so a restart at any
\* point of it needs no button press (_persist_app_key).
LiveLinkIsPersisted ==
    conn = "up" /\ pc \in {"polling", "idle"} => entryKey = appKey

\* A link is kept between polls only after a successful one: after an error
\* the next poll starts from a clean handshake (_async_drop_connection).
IdleLinkIsHealthy ==
    conn = "up" /\ pc = "idle" =>
        lastPollOk /\ ~pairingRequired

\* A key replaces the stored one only once the scooter has accepted it and
\* uses it for the link; a failed or half-finished pairing never costs the
\* entry its working key.
PersistOnlyAgreedKey ==
    [][entryKey' # entryKey /\ conn = "up" =>
         scKey = entryKey' /\ scSess = entryKey']_vars

\* The power button is asked for only when the scooter does not hold the key
\* the client offered: "restarts and reconnects do not ask again".
AskedOnlyWhenUnknown ==
    [][pc # "pairing" /\ pc' = "pairing" => scKey # appKey]_vars

\* Once the environment is calm the link comes up under a key that scooter
\* and entry share, and stays up.
EventuallyPaired ==
    <>[](conn = "up" /\ scSess = entryKey /\ scKey = entryKey /\ lastPollOk)

\* connect discards a rejected stored key only if the scooter has forgotten
\* it: never one that the scooter is using on the open link.
DiscardsOnlyForgottenKeys ==
    [][pc = "repair" /\ error = "auth" /\ supplied' # supplied /\ conn = "up"
        => scSess # appKey]_vars

\* A stored key that the scooter has forgotten is detected, discarded and
\* paired again from scratch.
ForgottenKeyRecovers ==
    (calm /\ supplied /\ scKey # appKey) ~> (conn = "up" /\ entryKey = scKey)
=============================================================================
