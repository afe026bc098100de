# Formal model of the Ninebot integration

TLA+ specifications, model-checking configurations and machine-checked proofs
for the Home Assistant integration of Segway-Ninebot scooters in this
repository (`custom_components/ninebot`, with its client library `pynebot`).

## 1. The system

A Home Assistant config entry per scooter owns one `NinebotClient` and one
`NinebotCoordinator`. Each advertisement of the scooter, when a poll is due,
makes the coordinator connect (if the link is down), read the registers, merge
them into its state and notify the entities. Everything runs on one event loop:
interleavings happen at `await`s, between the poll, the notification callback,
the unload of the entry, and the scooter itself.

| Component | State | Operations | Talks to |
|---|---|---|---|
| Client: connect (`pynebot/client.py`) | `_app_key`, `_app_key_was_supplied`, `_crypto`, `_responses`, `_serial_challenge` | `connect`, `_connect_transport`, `_handshake`, `_await_pairing`, `_verify_session`, `_request`, `_receive` | scooter by packets; coordinator by return or exception |
| Client: link | `_client` (a BleakClient or None) | `connect`, `disconnect`, `is_connected` | Bluetooth stack; coordinator and unload, from different tasks |
| Client: polling | local snapshot, count of consecutive timeouts | `async_poll`, `_read_register`, `async_read` | scooter by READ / READ_ACK |
| Client: framing | `_buffer` | `_on_notify`, `_dispatch` | callback of the Bluetooth stack; fills `_responses` |
| Packets (`protocol.py`) | none | `pack`, `unpack`, `matches_request`, `expected_frame_length` | client |
| Registers (`registers.py`) | table of registers | `convert` and its decoders | `async_poll` |
| Models (`models.py`) | `ScooterState`: values, raw, failures; `ScooterInfo` | `update`, `parse_hardware_id` | coordinator, entities |
| Coordinator (`coordinator.py`) | `state`, `info`, `pairing_required`, `last_poll_successful`, `_hardware_id` | `_needs_poll`, `_async_update`, `_async_poll`, `_persist_app_key`, `_async_drop_connection` | client; config entry (stores the key); entities |
| Setup and unload (`__init__.py`) | the entry's data and state | `async_setup_entry`, `async_unload_entry` | creates client and coordinator, disconnects the client |
| Config and options flow (`config_flow.py`) | the form and the unique ID of each flow in progress, `_discovered` | bluetooth, confirm, user and options steps | Home Assistant's flow manager; the coordinator reads the options |
| Entities (`entity.py`, `sensor.py`, `binary_sensor.py`), diagnostics | none of their own; `DeviceInfo` copied at set-up | value, availability, the register dump | read the coordinator |
| Scooter (external) | paired key, session key of the link | answers INIT, PING, PAIR, READ | client |
| `scripts/probe.py` | none | command line around the client | client |

What is hard about it:

* **The handshake is a distributed agreement.** Client and scooter each switch
  session keys (name, then INIT data, then application key) at their own
  moment, on a link that may drop, go silent, or deliver late; a packet under
  the wrong key is lost without a trace.
* **The pairing key lives in three places** (scooter, client, config entry) and
  the scooter may forget it, the entry may not have it yet, and Home Assistant
  may restart in between.
* **Recovery is driven by exceptions**: which class is raised decides whether a
  stored key is kept or thrown away, whether a link is kept or dropped, whether
  a poll is a success.
* **Two tasks share a client** that says it must not be shared: the poll, and
  the unload of the entry.
* **Failures are counted and merged** over registers and over polls.
* **Answers carry little**: an answer is matched by boards, command and index,
  so one that comes late can answer another read; a wide register is read at
  several times while it changes.
* **Frames come in pieces**, several at once, or after stray bytes that look
  like the beginning of one.
* **Several config flows race** for one scooter.

What makes each component correct:

* connect: a link it returns is one both ends can use; it recovers from every
  state the faults can leave behind; it asks for the button only when needed
  and discards a key only when the scooter has forgotten it;
* link: every link opened is held, being closed, or one the Bluetooth stack
  failed to close; registers are read only over a link whose handshake succeeded
  and on which nothing has failed; an unload closes what its client has;
* polling: a poll ends early only because the scooter is quiet, an unsupported
  register hides no other, a lost link is noticed;
* coordinator: a key in use is stored, a link after an error is dropped, merged
  state says what failed, static registers are read once per link;
* framing: while no stray bytes pass for a preamble, every frame sent is
  delivered once, in order and at once; when some do, only the frames they
  overlap are lost, and the buffer stays bounded;
* requests: a read ends; it fails or returns what the register held meanwhile;
  no answer outlives its read;
* packets and registers: a read of any register of the table, in bulk or by
  word, yields its own bytes, and they decode to what the documentation says;
* coordinator's timing: the scooter is left alone for the interval the owner
  chose, and is polled for as long as it advertises;
* config flow: a scooter is offered once, is not kept from being offered, and no
  flow replaces the entry that has its key;
* entities: what was reported stays shown, the identity stays known, and the
  diagnostics' raw bytes explain their values.

## 2. The modules

```
Wire  <-- Scooter --+
  ^                 +-- Pairing <-- MCPairing, PairingProofs
  +----- Client ----+
Lifecycle  <-- MCLifecycle, LifecycleProofs
PollCycle  <-- MCPollCycle, PollCycleProofs
PairedLink       <==(implements)== Pairing
FrameFifo        <==(implements)== Framing       <-- FramingProofs
RegularRegister  <==(implements)== RegisterRead  <-- MCRegisterRead, RegisterReadProofs
Packets <-- RegisterMap +-- Exchange <-- MCExchange, TableProofs
                        +-- Entities <-- MCEntities, TableProofs
Schedule   <-- ScheduleProofs
ConfigFlow <-- ConfigFlowProofs
```

`A <-- B`: B extends A. The layers are cut where the code cuts them, and each
module takes from the one below what that one is shown to give: Pairing and
RegisterRead get whole packets in order, which is what FrameFifo promises;
PollCycle gets a read that ends with an outcome, which is what RegisterRead
shows; Entities take a poll as one step.

**Wire** is the link: whether it is up, the packets in flight in each direction,
and the encryption, which is reduced to what matters: a packet carries the
session key it was encrypted under and only a receiver with the same one reads
it. **Scooter** is the firmware as the client expects it, with the answers of
`tests/fake_scooter.py` and the misbehaviour the client's comments mention:
silence, short answers, ignoring bulk reads, refusing before the button is
pressed, forgetting its key. Until faults stop it may also say "paired" to a key
it does not hold, which is the only way the recovery described at
`client.py:156` ("a session key that encrypts but does not decrypt") can begin;
with `ClaimsPaired` it goes on doing so.

**Client** is `connect` with everything below it, one action for each stretch of
code between two `await`s; `pc` names the await. `Raise` is the class dispatch
of `connect`'s `except` clause. The notification callback (`OnNotify`) decrypts
with the cipher the client has *at that moment* and fills the bounded queue; the
packet layer delivers whole frames here.

**Pairing** composes them with the coordinator's `_async_update`,
`_persist_app_key` and `_async_poll`, the key in the config entry, link drops,
restarts of Home Assistant at any await, and resets of the scooter. Polling is
one action with two outcomes. **PairedLink** is what all this promises, without a
packet in it: a link is used only under one key that the entry, the scooter and
the link's session share; the entry takes a key only from a session; while the
link is used none of the three changes.

**Lifecycle** is who opens and closes links: the same code seen from `_client`.
The poll and the unload are two tasks, each of whose awaits is a state;
`disconnect` is two steps because it gives up `_client` before it awaits, and
its second step has two outcomes (`LinkEnds`): the link is closed, or the stack
fails, which the code swallows, and the link stays open. Each setup of the entry
has its own client, so what an old client's task still does after a reload is
part of the model.

**PollCycle** is one poll after another: the loop over the registers in
`async_poll` with its three failure paths, `ScooterState.update`, and the
coordinator's verdict. A read is `SendRead` followed by one outcome; a payload
decodes (`Good`) or makes `convert` raise (`Bad`).

**Framing** is `_on_notify` and `expected_frame_length` over a stream of bytes:
frames whose body may hold any bytes, stray bytes between them, notifications of
any size up to the MTU that cut anywhere. Each round of the loop is a step, and
`busy` keeps the world out until the handler returns. **FrameFifo** is what it
promises: the frames of a link come out as they were sent.

**RegisterRead** is `_read_register`, `async_read`, `_request` and `_receive`:
the bulk read, the walk over the words, what a timeout, a short answer or a
failing write does at each point, with requests and answers in order and a
memory that changes at any time. A message carries, as history only, which of
the read's requests it belongs to. **RegularRegister** is what a read promises:
it fails, or returns each word as that word was at some time since the read
began (a register that is regular word by word, not atomic).

**Packets** is the byte layout of `Packet`, what `pack` and `unpack` accept and
`matches_request`; **RegisterMap** the register table, row for row, and the
decoders. A number is held in whole units of its register's scale (10^-digits),
which makes `convert`'s multiplication and rounding exact. **Exchange** puts
them to work: it reads any register of three boards byte by byte, in bulk or by
word, while answers to other registers' reads turn up. Its references are
`BytesOf`, the register's own bytes, and `Meaning`, which says what its words
mean as the decoders' docstrings and the units of the table have it, and shares
no operator with the decoders: trailing empty cells go and no others, trailing
undecodable bytes go and no others, a signed or packed number is the one with
that encoding. `AsDocumented` names the words on which the code does what these
say. (Its names carry the prefix `Exchange` where Entities has the same, since
TableProofs extends both.)

**Entities** is what the owner sees: every sensor and binary sensor with the
register it reads, `native_value`, `is_on` and `available`; `build_info`; the
registers of the diagnostics. A poll is one step. What the scooter's registers
are filled with is a *fill*, so that the state says which poll each value came
from, and the decoders of RegisterMap compute what is shown.

**Schedule** is `_needs_poll`, `poll_interval`, the ways out of `_async_poll` and
the options form, against a clock, over one coordinator's life. A poll succeeds,
or fails and drops the link, or is cancelled at either await, where no `except`
clause runs; each way out is an action that passes the `finally` clause
(`Noted`).

**ConfigFlow** is the three steps of `NinebotConfigFlow`, any number of flows at
once, with what Home Assistant's flow manager does about unique IDs.

**History variables** record what happened for properties to refer to, and no
guard reads them, but for the bound on how often a memory changes in a read
(`MaxHeld`). Four of them delimit promises the code does not keep everywhere, so
that each run explores the case as well as its complement: `late` (Lifecycle:
open links of clients that had been disconnected for good when they opened
them), `leaked` (open links that `start_notify` or `disconnect` failed on),
`clean` (Framing: no stray bytes of this link passed for a preamble;
RegisterRead: nothing was under way when the read began or failed, no answer was
empty). Section 6 says what happens outside.

Variables keep the names of the attributes they model where possible; the
comment at each VARIABLE says which one it is.

Operators whose comment says *fault* are seeded faults: variants of a modelled
definition with a plausible bug. No action uses them; they document, for each
property, a change of the code that the property notices.

## 3. What is checked

| Run | Checks | States |
|---|---|---|
| `Pairing_recovers` | `TypeOK`, `SessionAgreement`, `LiveLinkIsPersisted`, `IdleLinkIsHealthy`, `PersistOnlyAgreedKey`, `AskedOnlyWhenUnknown`, and that Pairing implements `PairedLink`, under all faults, a scooter that misreports its pairing among them; `EventuallyPaired`: once faults stop, every reachable state recovers to an open link under a stored, agreed key | 600,000 |
| `Pairing_discard` | `DiscardsOnlyForgottenKeys` is **violated**, section 6 | |
| `Pairing_stale_key` | `ForgottenKeyRecovers` is **violated**, section 6 | |
| `Lifecycle_shared` | `TypeOK`, `NoOrphanLinks`, `ReadsVerifiedLink`, `UnloadedIsClosed` with polls and unloads interleaving at every await, and links that fail to close | 763,000 |
| `PollCycle_polls` | `TypeOK`, `FailuresAreCurrent`, `InfoIsReadPerLink`, `AbortsOnlyWhenQuiet`, `SupportedRegistersAppear` for a scooter lacking every other register | 832,000 |
| `PollCycle_lost` | `LostLinkIsNoticed` is **violated**, section 6 | |
| `Framing_frames` | `TypeOK`, `PromptDelivery`, `LostOnlyToFalseFrames`, `BufferIsBounded`, and that Framing implements `FrameFifo` | 4,736,000 |
| `RegisterRead_reads` | `TypeOK`, `NothingLeftBehind`, `EveryReadEnds`, and that RegisterRead implements `RegularRegister` | 270,000 |
| `Exchange_reads` | `ExchangeTypeOK`, `ReadsWhatIsThere` for all 40 registers | 26,100 |
| `Entities_shown` | `TypeOK`, `ShownOnceReported`, `RawExplainsValue`, `IdentityIsKept` | 20,600 |
| `Schedule_polls` | `TypeOK`, `LeftAlone`, `PolledAgain` | 1,024,000 |
| `ConfigFlow_entries` | `TypeOK`, `OneInvitation`, `KeyIsKept`, `FoundOnceAwake` | 4,350 |

**Bounds.**

* *Pairing*: four keys: one each in the scooter, the client and the entry, and a
  fresh one, which is all a state can hold at once; `FreshKeys` then always has
  a member, so 16 random bytes never collide. Two packets in flight per
  direction and a queue of two let a late answer and a current one coexist, and
  the queue overflow; the code's queue holds 64. The serial number has two words
  instead of seven: a first one and a last one. `MaxWire` blocks a sender when
  the wire is full (a write that waits), it drops nothing.
* *Lifecycle*: four links and three set-ups let an old client, its successor and
  the one after each hold or close links while another stays open.
* *PollCycle*: one static and three dynamic registers with a limit of two
  timeouts (the code: 40 registers of which 13 are static, limit three) put an
  abort both at the first register it can come at and at the last, and silent
  registers on both sides of a supported one.
* *Framing*: bytes 0, 1, 2 with preamble 1 2, at most one data byte, headers of
  three bytes and one of overhead, notifications of up to five bytes and streams
  of ten: two frames with stray bytes around them, every cut, every
  preamble that ends or begins at a cut, inside a body or across a boundary.
* *RegisterRead*: a register of three words and one of one word, binary
  contents, two memories seen by one read (one change while it runs), and one
  message still under way when a read begins: the smallest in which an answer
  can be torn, late and mistaken for another.
* *Exchange*: three boards; five fills: no two words alike; texts that end in an
  undecodable byte, a NUL and rubbish, and a pack of ten cells; numbers beyond
  their signed range; packs with empty cells between used ones; texts of blanks
  and undecodable bytes. The last two, and the undecodable bytes inside the texts
  of the first, are outside `AsDocumented`.
* *Entities*: three fills (typical, all zero, wide registers without data) and
  polls that lose nothing, a board, or either error register.
* *Schedule*: the least, the default and the greatest interval and one between,
  in ticks of ten seconds; older than the greatest is the same as greatest.
* *ConfigFlow*: two flows of each kind, two scooters and a lamp: two flows for
  one scooter while others are for the other.

**Fairness.** A task of the event loop that can run does run: weak fairness on
the client's steps, the notification callback, the coordinator's error
handling, and the scooter. `StartPoll` is weakly fair because the scooter keeps
advertising while it is awake. `Settle` is weakly fair: faults last for some
time and then stop (the scooter is awake, in range, truthful about its pairing,
its owner presses the button); nothing is claimed for a scooter that never
answers. Before `Settle` any timeout may strike; after it a timeout strikes only
when no answer is coming. `PairingExpires` is strongly fair because the pairing
deadline is a clock that retries cannot postpone. RegisterRead asks for less:
the client runs and its timeouts expire, the scooter need not answer. Schedule's
clock ticks, a poll goes on (each of its waits has a timeout, the client's own or
the Bluetooth stack's), the scooter advertises. In ConfigFlow, Home Assistant starts a flow for every device it
discovers; owners need do nothing. `CHECK_DEADLOCK FALSE` appears only in the
Lifecycle run, where an unloaded entry whose set-ups are used up is the end.

## 4. What is proved

The theorems hold for every value of the constants, by proofs TLAPS checks, from
the named assumptions of the module they are about.

**PairingProofs**, whatever scooter `ClaimsPaired` allows: `TypeCorrect`,
`SessionsAgree`, `LiveLinksPersisted`, `IdleLinksHealthy` and
`PersistsOnlyAgreedKey`. The first three invariants are not inductive: that a
verified link is an agreed one depends on what is in flight. The inductive
invariant `IInv` adds that a closed link carries nothing and a new one starts
with an empty queue (`LinkInv`), that the client only ever offers its own key
and sends INIT under the name's (`RequestInv`), that on an open link the
scooter's session is that of the name, of its INIT data or of the client's key,
the last only if it is paired with that key (`ScooterInv`), that a READ_ACK
exists only once the scooter has moved to the client's key (`AnswerInv`), and
that from the closing PAIR on the client's cipher holds that key
(`CipherInv`). The verification read is then what carries the agreement: connect
returns only with a READ_ACK.

`AsksOnlyWhenUnknown` rests on `HandshakeInv`, what can be in flight at each early
stage: nothing on a fresh link, INITs only while INIT is awaited, no PAIR while
PING is awaited. Without a PAIR the scooter cannot change its key, so a status of
0 that reaches the client is still true.

`PairingImplementsPairedLink` is the refinement. It needs one fact more
(`QueueInv`): a READ_ACK in the client's queue is of its key even when the link
it came on has dropped, since connect then still returns and the entry takes the
key.

**LifecycleProofs**: `LifecycleTypeCorrect`, `NoLinkIsOrphaned`,
`OnlyVerifiedLinksAreRead`, `UnloadLeavesNoLink`. `EstablishInv` (a client that
is connecting or disconnecting holds no open link in `_client`, so that setting
it forgets none) makes the second inductive. `VerifiedInv` (between polls, too,
an open link in `_client` is a verified one) carries the third: a poll that
finds its link open skips the handshake, and only a poll that succeeded leaves
one. `GoneInv` (what a client holds once it has been disconnected for good is a
link it opened since) is what the last needs.

**PollCycleProofs**, from `PollAssumption` (the register table has unique keys,
as `tests/test_registers.py` checks, and at least one dynamic register):
`PollTypeCorrect`, `FailuresStayCurrent`, `InfoReadPerLink` and
`PollAbortsOnlyWhenQuiet`, for any register table, any set of registers the
scooter lacks and any limit. The invariant ties the loop's variables together:
the plan is the rest of the schedule (`PlanInv`); a count of n means that the
last n registers asked for stayed unread (`QuietInv`), which holds because an
answer resets the count and the keys are unique; every register asked for has an
outcome in the snapshot (`SnapshotInv`); a link whose facts are not read yet is
on its first poll (`InfoInv`).

**FramingProofs**, for any alphabet, preamble of two different bytes, header,
overhead, frame and notification size: `FramingTypeCorrect`,
`FramingBufferBounded`, `FramesArePrompt`, and `FramingImplementsFifo`, the
refinement. What carries them on a clean link (`CleanInv`): the stream is the
frames in order (`Layout`, `InOrder`) with gaps that hold no preamble
(`CleanGaps`); the buffer is the end of what has arrived (`Window`); the frames
handed on are the first ones sent, and the next has lost no byte (`InStep`); so
the buffer's first preamble, if any, is where the next frame begins.
`FramesLostOnlyToFalseFrames` is about every link, clean or not, and rests on
less (`LostInv`): the buffer is the end of what has arrived, and every frame that
began before it is overlapped by something handed on (`Accounted`). The handler
discards only bytes before a preamble, or all but the last of a buffer without
one, and a frame begins with a preamble: it cuts into no frame but by handing on.

**RegisterReadProofs**, for any table of registers and any memory:
`ReadTypeCorrect`, `NoAnswerIsLeftBehind` and `ReadImplementsRegular`, the
refinement. The invariant says that all that is under way in a clean read is of
that read, in the order asked (`InOrder`, `Underway`), each answer holding words
of memories since the read began, and that the walk has one word for each it has
asked for (`Walked`). A late bulk answer matches the first word's request and
brings that word first; the answer meant for that word comes while a later one is
asked for, and is ignored by its index. As answers keep their order, none is left
when the last word's has come.

**ScheduleProofs**: `ScheduleTypeCorrect` and `ScooterIsLeftAlone`, for any set
of intervals; the time noted in `_last_poll` equals the time the scooter has
been left alone whenever no poll runs, since every way out of a poll passes the
`finally` clause.

**ConfigFlowProofs**: `ConfigFlowTypeCorrect`, `OfferedOnce` and
`NoFlowReplacesAKey`, for any number of flows and scooters: the flow that
confirms is the only one with its unique ID and its scooter has no entry, and a
manual flow checks again when it is submitted.

**TableProofs** is about the two modules that compute over the register table.
Its first part shows that every row of the table is `Regular`: its words fit on
its board and into one answer, its length is the one its decoder takes, the
registers of the entities decode to what those show. Its second gives the
decoders their types, and its fourth shows that a packet that is packed comes
back when it is unpacked (`PackUnpacks`) and that the bytes of a register's words
decode to what its documentation says (`DecodesToMeaning`), for the sign, the
text up to a NUL, the version's fields and the cells alike, wherever
`AsDocumented` holds. For cells and texts that is `KeptIsWithoutTail`: filtering a
sequence that has no hole is cutting off its tail.

* *Entities*, for any fills of the registers, from `EntitiesAssumption` (a payload
  is a sequence of bytes; `None` is no fill, number or Boolean):
  `EntitiesTypes`, `RawAlwaysExplainsValue`, `ReportedIsShown` and
  `IdentityKept`. The invariant `ShownInv` adds that what was ever reported has a
  value (`ReportedHaveValues`: `update` never removes one) and that what is known
  of the scooter was taken from values (`InfoIsOfValues`), which is why reading it
  again on a new link forgets nothing.
* *Exchange*, for any contents of the memories, from `ExchangeAssumption` (a word
  is two bytes): `ExchangeTypes` and `ReadsYieldMeaning`. The invariant `ReadInv`
  adds that a request under way is that of the step of the read
  (`RequestIsOfRead`), that an answer under way holds words of the memory from the
  index it carries (`AnswerIsOfMemory`), and that the walk has read the
  register's first words (`WalkedSoFar`). An answer to another register's read
  that matches has the same board and index; it therefore holds the same words,
  more of them or fewer, and the code cuts a long one and walks after a short one.

Two definitions have the form they have because of the prover. `Kept`, which
filters cells and texts, is a recursive function and not `SelectSeq`, which a
proof cannot expand; what it returns is shown with `LeastOf` (a set of numbers
has a least one, from the well-foundedness of the finite subsets of Nat), which
stands in for the library's induction theorems. And 65536 is `WORD_RANGE`, as
the prover's arithmetic fails on large literals.

**Only model-checked**: liveness (`EventuallyPaired`,
`SupportedRegistersAppear`, `EveryReadEnds`, `PolledAgain`, `FoundOnceAwake`),
which is beyond the prover. Every invariant and every action property of a
passing run, and all three refinements, are theorems.

## 5. Plan

Done, in this order because pairing is where a fault costs the owner most:
Pairing, Lifecycle, PollCycle; the wire side (Framing, RegisterRead with their
abstract specifications); the data (Packets, RegisterMap, Exchange); what the
owner sees and does (Entities, Schedule, ConfigFlow); the proofs of every safety
property and refinement.

Left:

1. The composition of Schedule and Entities: how old a value shown can be.
2. An abstract account of `_client` that Lifecycle implements, beside its three
   invariants, and links that fail to close in Pairing and PollCycle too.

## 6. Where the code differs from what it says

Shown by a run that finds the statement violated:

* `Pairing_discard` (`client.py:155-168`): a verification read that merely
  times out twice counts as a rejected key; the stored key is discarded while
  the scooter uses it, and the owner must press the button again.
* `Pairing_stale_key`: a scooter that does not decrypt the session stays silent
  at the closing PAIR already; that is a `NinebotTimeoutError`, which the
  re-pairing clause does not catch. Every poll fails the same way for ever.
* `PollCycle_lost` (`client.py:311`): a link lost in the middle of a poll fails
  all remaining registers, uncounted, and the poll is a success.

Written into a property as its limit, and reached by its run (dropping the
limit makes TLC find the behaviour):

* Lifecycle, `late` (`__init__.py:53`): a poll that is establishing its link
  while the entry is unloaded opens it after the unload's `disconnect`, and
  nobody closes it, although the client is "not safe to use from multiple tasks
  concurrently" (`client.py:65`).
* Lifecycle, `leaked`: a failing `start_notify` (`client.py:184-186`) makes the
  client forget an open link, and so does a failing `disconnect`
  (`client.py:270-273`), which has given up `_client` before and swallows the
  error. The next poll opens a second link beside it, although the client "owns
  one connection at a time" (`client.py:65`); an unload succeeds with the
  scooter still connected.
* Framing, `clean` (`client.py:434`): stray bytes with `5A A5` in them make the
  handler wait for a frame that was never sent and hand its mixture with the
  next one to the decryption, although "a frame is only handed to the decryption
  layer once every byte of it has arrived" (`client.py:428`).
* RegisterRead, `clean` (`protocol.py:140`, `client.py:384`): an answer that
  outlives its read answers the next read of that index with an old value; an
  answer without data leaves a hole in the walk's payload, the words after it
  move up, and the read counts as a success.
* RegularRegister itself (`client.py:374`): a register wider than a word that is
  walked may return a value it never had (`total_distance` across a carry),
  although `async_poll` is to "return a snapshot".
* Exchange, `AsDocumented`: `_cell_voltages` drops every empty slot, not only the
  trailing ones its docstring names (`registers.py:67-70`), so the cells behind
  a dead one move up a place; `_string` drops every undecodable byte, not only
  trailing ones, and strips blanks (`registers.py:43-45`).
* Entities, `RawExplainsValue` (`client.py:318-322`): `raw` is stored before
  `convert` runs; after a payload that does not decode the diagnostics show it
  next to a value of an earlier one.

Outside the modules: the entities copy `coordinator.info` into their device when
the platforms are set up (`entity.py:25`), before the coordinator listens for the
advertisement that starts the first poll (`__init__.py:38-39`); what the first
poll reads never reaches the device registry, although serial numbers and
firmware versions are to "become device attributes" (`README.md:27`).

## 7. What is not modelled

* The cipher, an external library: a packet is read by who holds its session key.
* The device an entity describes to the registry when it is made; titles, units,
  icons, extra attributes, log messages: text that nothing reads back.
* Redaction and the copies of the entry's data and options in the diagnostics.
* `scripts/probe.py`: one connect, one poll and one disconnect in sequence, with
  no state of its own.
* `ConfigEntryNotReady`, which Home Assistant retries before any state exists, and
  a platform that refuses to unload, which leaves the state as it was.
* A link that fails to close, outside Lifecycle: in Pairing and PollCycle a
  `disconnect` ends the link. Whether the scooter accepts a second link while the
  first is open, and what the first may still deliver to `_on_notify`, is not
  modelled. A failing `stop_notify` in `disconnect` has no effect of its own.
  Exceptions of the stack that `disconnect` does not catch (other than `BleakError`
  and `OSError`) are not modelled: they would fail the unload.
* Packets nobody asked for: the answers in Pairing and RegisterRead are to requests
  of the client, late ones included, and Exchange lets any answer turn up, but no
  endless run of them keeps one request waiting; the deadline in `_request`
  (`client.py:390-396`) is what bounds that.
* Home Assistant's Bluetooth coordinator, debouncer and flow manager are
  modelled from how the code uses them: polls of one coordinator do not overlap,
  it listens from set-up until the entry's unload callbacks have run, and the
  debouncer's cooldown (ten seconds) is shorter than the least poll interval
  (thirty) and cannot delay a poll that is due. In Pairing, Lifecycle and
  PollCycle a poll is due at any time, which allows every timing of Schedule.
* The chunks of one `write_gatt_char`: `_send` is one step. A write that fails
  after some of them leaves the scooter with part of a frame, and what its
  firmware does with it is not in the repository.
