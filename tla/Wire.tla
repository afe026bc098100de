-------------------------------- MODULE Wire --------------------------------
(***************************************************************************)
(* The Bluetooth link between the client and one scooter, as the client    *)
(* sees it, and the packets that travel on it.  A packet is encrypted      *)
(* under one session key; the receiver can only read it while its own      *)
(* cipher holds the same key.  Keys are model values:                      *)
(*   NameKey  derived from the advertised name, used for INIT;             *)
(*   BleKey   derived from the scooter's INIT data, used until pairing;    *)
(*   Keys     application keys, each giving one session key.               *)
(***************************************************************************)
EXTENDS Naturals, Sequences

CONSTANTS
    Keys,       \* application keys, secrets.token_bytes(16) in the code
    NoKey,      \* no application key
    NameKey,    \* the cipher after set_name
    BleKey,     \* the cipher after set_ble_data
    Words,      \* 16-bit words of the serial number register (7 in the code)
    MaxWire,    \* bound: packets in flight in one direction
    QueueSize   \* capacity of the client's response queue (64 in the code)

ASSUME KeysAssumption ==
    /\ NoKey \notin Keys /\ NameKey \notin Keys /\ BleKey \notin Keys
    /\ NoKey # NameKey /\ NoKey # BleKey /\ NameKey # BleKey

\* The serial number is longer than one word, so a bulk read that times out
\* falls back to walking the register.
ASSUME SizesAssumption ==
    /\ Words \in Nat \ {0, 1}
    /\ MaxWire \in Nat \ {0}
    /\ QueueSize \in Nat \ {0}

VARIABLES
    conn,       \* "up" while NinebotClient.is_connected
    toScooter,  \* requests in flight
    toClient,   \* notifications in flight
    calm        \* TRUE once the environment has stopped misbehaving

wireVars == <<conn, toScooter, toClient>>

Sessions == {NameKey, BleKey} \cup Keys

\* app is the key a PING offers; bulk tells a whole-register READ from a
\* two-byte one.
Requests ==
    [cmd : {"INIT", "PING", "PAIR", "READ"}, idx : 0 .. Words - 1,
     sess : Sessions, app : Keys \cup {NoKey}, bulk : BOOLEAN]

\* full is FALSE for an INIT with less than 16 bytes of key and for a
\* READ_ACK with less data than the register holds.
Responses ==
    [cmd : {"INIT", "PING", "PAIR", "READ_ACK"}, idx : Nat,
     sess : Sessions, full : BOOLEAN]

WireTypeOK ==
    /\ conn \in {"up", "down"}
    /\ toScooter \in Seq(Requests)
    /\ toClient \in Seq(Responses)
    /\ calm \in BOOLEAN

WireInit ==
    /\ conn = "down"
    /\ toScooter = <<>>
    /\ toClient = <<>>
    /\ calm = FALSE

\* The link is gone, with everything in flight on it.
Unlink ==
    /\ conn' = "down"
    /\ toScooter' = <<>>
    /\ toClient' = <<>>
=============================================================================
