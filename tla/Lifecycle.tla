----------------------------- MODULE Lifecycle ------------------------------
(***************************************************************************)
(* Who opens and who closes the Bluetooth links (__init__.py,              *)
(* coordinator.py, and the transport part of pynebot/client.py).  Two      *)
(* tasks of the event loop share a NinebotClient: the coordinator's poll,  *)
(* and Home Assistant unloading the config entry.  Every setup of the      *)
(* entry makes a new client, numbered by the setup.  What the packets on a *)
(* link say is the subject of Pairing; here a handshake or a poll ends     *)
(* well or badly.                                                          *)
(***************************************************************************)
EXTENDS Naturals

CONSTANTS
    Links,              \* identities of physical links
    NoLink,
    MaxSetups           \* bound: setups of the entry

ASSUME LinksAssumption == NoLink \notin Links
ASSUME SetupsAssumption == MaxSetups \in Nat \ {0}

Clients == 1 .. MaxSetups

VARIABLES
    entry,      \* state of the config entry
    current,    \* the client of the latest setup
    task,       \* task[c]: where c's poll is suspended
    held,       \* held[c]: the link in c._client
    open,       \* open[l]: the client that opened l, 0 when l is closed
    closing,    \* closing[c]: the link c's poll is closing in disconnect
    unlinking,  \* the link the unload is closing in disconnect
    leaked,     \* history: open links that start_notify or disconnect failed on
    late,       \* history: open links of clients that were disconnected for good
    verified    \* history: open links with a handshake, and no error since

history == <<leaked, late, verified>>
vars == <<entry, current, task, held, open, closing, unlinking,
          leaked, late, verified>>

Stages == {"idle", "establish", "subscribe", "handshake", "polling",
           "dropping", "repairing"}

TypeOK ==
    /\ entry \in {"loaded", "platforms", "disconnecting", "unloaded"}
    /\ current \in Clients
    /\ task \in [Clients -> Stages]
    /\ held \in [Clients -> Links \cup {NoLink}]
    /\ open \in [Links -> Clients \cup {0}]
    /\ closing \in [Clients -> Links \cup {NoLink}]
    /\ unlinking \in Links \cup {NoLink}
    /\ leaked \subseteq Links /\ late \subseteq Links /\ verified \subseteq Links
    /\ \A c \in Clients :
         (closing[c] # NoLink) <=> (task[c] \in {"dropping", "repairing"})
    /\ (unlinking # NoLink) <=> (entry = "disconnecting")

\* async_setup_entry has run once.
Init ==
    /\ entry = "loaded"
    /\ current = 1
    /\ task = [c \in Clients |-> "idle"]
    /\ held = [c \in Clients |-> NoLink]
    /\ open = [l \in Links |-> 0]
    /\ closing = [c \in Clients |-> NoLink]
    /\ unlinking = NoLink
    /\ leaked = {} /\ late = {} /\ verified = {}

Connected(c) == held[c] # NoLink /\ open[held[c]] = c

GoTo(c, stage) == task' = [task EXCEPT ![c] = stage]

\* disconnect gives up the link at once; closing it takes an await.
Released(c) == IF Connected(c) THEN held[c] ELSE NoLink
LetGo(c) == held' = [held EXCEPT ![c] = NoLink]

\* The unload of c's entry has called disconnect: nobody will do so again.
Unlinked(c) == c # current \/ entry \in {"disconnecting", "unloaded"}

Closed(l) ==
    /\ open' = [m \in Links |-> IF m = l THEN 0 ELSE open[m]]
    /\ leaked' = leaked \ {l}
    /\ late' = late \ {l}
    /\ verified' = verified \ {l}

\* The link stays open, and whoever had it does not have it any more.
Leaked(l) ==
    /\ leaked' = leaked \cup {l}
    /\ UNCHANGED <<open, late, verified>>

\* stop_notify and disconnect of the BleakClient have returned or failed; the
\* client swallows the failure of either, with the link still open or not.
LinkEnds(l) == Closed(l) \/ (open[l] # 0 /\ Leaked(l))
-----------------------------------------------------------------------------
(* The poll of client c.  Definitions marked "fault" are seeded faults: no *)
(* action uses them.                                                       *)

\* An advertisement arrives and a poll is due.  The debouncer keeps polls of
\* one coordinator apart; the coordinator listens until the unload is over.
StartPoll(c) ==
    /\ c = current
    /\ entry # "unloaded"
    /\ task[c] = "idle"
    /\ GoTo(c, IF Connected(c) THEN "polling" ELSE "establish")
    /\ UNCHANGED <<entry, current, held, open, closing, unlinking, history>>

\* establish_connection returns and _client is set.
Established(c) ==
    /\ task[c] = "establish"
    /\ \E l \in Links :
         /\ open[l] = 0
         /\ \A d \in Clients : held[d] # l /\ closing[d] # l
         /\ unlinking # l
         /\ open' = [open EXCEPT ![l] = c]
         /\ held' = [held EXCEPT ![c] = l]
         /\ late' = IF Unlinked(c) THEN late \cup {l} ELSE late
    /\ GoTo(c, "subscribe")
    /\ UNCHANGED <<entry, current, closing, unlinking, leaked, verified>>

\* _client = None, then the exception reaches the coordinator, whose own
\* disconnect finds nothing to close.
EstablishFails(c) ==
    /\ task[c] = "establish"
    /\ LetGo(c)
    /\ GoTo(c, "idle")
    /\ UNCHANGED <<entry, current, open, closing, unlinking, history>>

\* start_notify returns.  Without _client the next line raises.
Subscribed(c) ==
    /\ task[c] = "subscribe"
    /\ GoTo(c, IF held[c] = NoLink THEN "idle" ELSE "handshake")
    /\ UNCHANGED <<entry, current, held, open, closing, unlinking, history>>

\* start_notify fails: because the link has gone, or on an open link.  The
\* except clause only forgets the link.
SubscribeFails(c) ==
    /\ task[c] = "subscribe"
    /\ LetGo(c)
    /\ GoTo(c, "idle")
    /\ IF Connected(c) THEN Leaked(held[c]) ELSE UNCHANGED <<open, history>>
    /\ UNCHANGED <<entry, current, closing, unlinking>>

HandshakeOk(c) ==
    /\ task[c] = "handshake"
    /\ Connected(c)
    /\ GoTo(c, "polling")
    /\ verified' = verified \cup {held[c]}
    /\ UNCHANGED <<entry, current, held, open, closing, unlinking, leaked, late>>

\* Where the task goes on once disconnect has returned.
After(stage) == IF stage = "dropping" THEN "idle" ELSE "establish"

Disconnect_KeepsClient(c, stage) ==   \* fault: _client is not given up
    /\ closing' = [closing EXCEPT ![c] = Released(c)]
    /\ GoTo(c, IF Released(c) = NoLink THEN After(stage) ELSE stage)
    /\ verified' = verified \ {Released(c)}
    /\ UNCHANGED <<entry, current, held, open, unlinking, leaked, late>>

\* disconnect returns without an await when there is nothing to close.
Disconnect(c, stage) ==
    /\ closing' = [closing EXCEPT ![c] = Released(c)]
    /\ LetGo(c)
    /\ GoTo(c, IF Released(c) = NoLink THEN After(stage) ELSE stage)
    /\ verified' = verified \ {Released(c)}
    /\ UNCHANGED <<entry, current, open, unlinking, leaked, late>>

\* An error drops the link: in connect when the UART characteristic is
\* missing, else in the coordinator.
Fails(c) ==
    /\ task[c] \in {"subscribe", "handshake", "polling"}
    /\ Disconnect(c, "dropping")

\* connect drops the link before it starts over with a new key.
RePairs(c) ==
    /\ task[c] = "handshake"
    /\ Disconnect(c, "repairing")

Disconnected_OnlyForgets(c) ==   \* fault: the BleakClient is not disconnected
    /\ task[c] \in {"dropping", "repairing"}
    /\ closing' = [closing EXCEPT ![c] = NoLink]
    /\ GoTo(c, After(task[c]))
    /\ UNCHANGED <<entry, current, held, open, unlinking, history>>

Disconnected_KeepsLocal(c) ==   \* fault: the task goes on before it is closed
    /\ task[c] \in {"dropping", "repairing"}
    /\ LinkEnds(closing[c])
    /\ GoTo(c, After(task[c]))
    /\ UNCHANGED <<entry, current, held, closing, unlinking>>

\* disconnect returns to the task that drops the link.
Disconnected(c) ==
    /\ task[c] \in {"dropping", "repairing"}
    /\ LinkEnds(closing[c])
    /\ closing' = [closing EXCEPT ![c] = NoLink]
    /\ GoTo(c, After(task[c]))
    /\ UNCHANGED <<entry, current, held, unlinking>>

\* async_poll returns and the link is kept for the next poll.
PollOk(c) ==
    /\ task[c] = "polling"
    /\ GoTo(c, "idle")
    /\ UNCHANGED <<entry, current, held, open, closing, unlinking, history>>

\* The scooter goes out of range or to sleep.
LinkLost(l) ==
    /\ open[l] # 0
    /\ Closed(l)
    /\ UNCHANGED <<entry, current, task, held, closing, unlinking>>
-----------------------------------------------------------------------------
(* Setting up and unloading the entry.                                     *)

\* async_unload_platforms.  Nothing waits for a poll to end.
UnloadBegins ==
    /\ entry = "loaded"
    /\ entry' = "platforms"
    /\ UNCHANGED <<current, task, held, open, closing, unlinking, history>>

UnloadDisconnects_Skipped ==   \* fault: the client keeps its link
    /\ entry = "platforms"
    /\ entry' = "unloaded"
    /\ UNCHANGED <<current, task, held, open, closing, unlinking, history>>

\* client.disconnect(), in the task of the unload.
UnloadDisconnects ==
    /\ entry = "platforms"
    /\ entry' = IF Released(current) = NoLink THEN "unloaded" ELSE "disconnecting"
    /\ unlinking' = Released(current)
    /\ LetGo(current)
    /\ UNCHANGED <<current, task, open, closing, history>>

\* disconnect returns; only now is the coordinator stopped.
Unloaded ==
    /\ entry = "disconnecting"
    /\ entry' = "unloaded"
    /\ LinkEnds(unlinking)
    /\ unlinking' = NoLink
    /\ UNCHANGED <<current, task, held, closing>>

\* async_setup_entry: a new client and a new coordinator.
Setup ==
    /\ entry = "unloaded"
    /\ current < MaxSetups
    /\ entry' = "loaded"
    /\ current' = current + 1
    /\ UNCHANGED <<task, held, open, closing, unlinking, history>>

PollStep(c) ==
    \/ Established(c) \/ EstablishFails(c) \/ Subscribed(c) \/ SubscribeFails(c)
    \/ HandshakeOk(c) \/ Fails(c) \/ RePairs(c) \/ Disconnected(c) \/ PollOk(c)

Next ==
    \/ \E c \in Clients : StartPoll(c) \/ PollStep(c)
    \/ \E l \in Links : LinkLost(l)
    \/ UnloadBegins \/ UnloadDisconnects \/ Unloaded \/ Setup

Spec == Init /\ [][Next]_vars
-----------------------------------------------------------------------------
\* An open link is in _client of the client that opened it, or on its way to
\* be closed: none is lost track of (_connect_transport, disconnect), whatever
\* polls and unloads do to the client, but those that start_notify or
\* disconnect failed on while they were open.
NoOrphanLinks ==
    \A l \in Links, c \in Clients :
        open[l] = c => l \in {held[c], closing[c], unlinking} \cup leaked

\* "Close the link so the next poll starts from a clean handshake"
\* (_async_drop_connection): a poll reads registers over a link whose handshake
\* succeeded and on which nothing has failed since, also when the link that
\* failed could not be closed and stays open.
ReadsVerifiedLink ==
    \A c \in Clients :
        task[c] = "polling" /\ Connected(c) => held[c] \in verified

\* Unloading an entry leaves the scooter free for other hosts: whatever its poll
\* was doing, all that is open afterwards is what the poll is itself closing,
\* what failed to close (NoOrphanLinks), and what the poll opened after the
\* unload's disconnect, which does not wait for it (async_unload_entry).
UnloadedIsClosed ==
    \A l \in Links, c \in Clients :
        open[l] = c /\ (c < current \/ entry = "unloaded") =>
            l \in {closing[c]} \cup leaked \cup late
=============================================================================
