------------------------------ MODULE Packets -------------------------------
(***************************************************************************)
(* The packets of the protocol (protocol.py): how one is laid out in       *)
(* bytes, what a receiver accepts, and which answer belongs to which       *)
(* request.  Definitions marked "fault" are seeded faults.                 *)
(***************************************************************************)
EXTENDS Naturals, Sequences

Byte == 0 .. 255

\* Command and DeviceId.
READ == 1
WRITE == 2
WRITE_NO_REPLY == 3
READ_ACK == 4
WRITE_ACK == 5
INIT == 91
PING == 92
PAIR == 93
Command == {READ, WRITE, WRITE_NO_REPLY, READ_ACK, WRITE_ACK, INIT, PING, PAIR}

MCU == 32
BLE == 33
BMS == 34
HOST == 61
PHONE == 62
DeviceId == {MCU, BLE, BMS, HOST, PHONE}

PROTO2_MAGIC == <<90, 165>>
HEADER_LENGTH == 7
MAX_DATA_LENGTH == 255

\* What a Packet may hold: Python bounds neither its index nor its data.
Packet ==
    [source : DeviceId, target : DeviceId, command : Command, index : Nat,
     data : Seq(Byte)]

\* What Packet.unpack can return.
Received ==
    [source : DeviceId, target : DeviceId, command : Command, index : Byte,
     data : {s \in Seq(Byte) : Len(s) <= MAX_DATA_LENGTH}]

\* Packet.pack accepts p.
Packs(p) == Len(p.data) <= MAX_DATA_LENGTH

\* Packet.pack.
Pack(p) ==
    PROTO2_MAGIC \o <<Len(p.data), p.source, p.target, p.command, p.index % 256>>
        \o p.data

\* Packet.unpack accepts raw.
Unpacks(raw) ==
    /\ Len(raw) >= HEADER_LENGTH
    /\ SubSeq(raw, 1, 2) = PROTO2_MAGIC
    /\ Len(raw) >= HEADER_LENGTH + raw[3]
    /\ raw[4] \in DeviceId /\ raw[5] \in DeviceId /\ raw[6] \in Command

\* Packet.unpack.
Unpack(raw) ==
    [source |-> raw[4], target |-> raw[5], command |-> raw[6], index |-> raw[7],
     data |-> SubSeq(raw, HEADER_LENGTH + 1, HEADER_LENGTH + raw[3])]

\* RESPONSE_COMMANDS.
ResponseCommand(command) ==
    CASE command = READ -> READ_ACK
      [] command = WRITE -> WRITE_ACK
      [] OTHER -> command

MatchesRequest_AnyBoard(response, request) ==   \* fault: the board is not compared
    /\ response.command = ResponseCommand(request.command)
    /\ request.command < INIT => response.index = request.index

\* Packet.matches_request.
MatchesRequest(response, request) ==
    /\ response.source = request.target /\ response.target = request.source
    /\ response.command = ResponseCommand(request.command)
    /\ request.command < INIT => response.index = request.index
=============================================================================
