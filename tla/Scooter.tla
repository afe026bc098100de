------------------------------ MODULE Scooter -------------------------------
(***************************************************************************)
(* The scooter's side of the handshake.  The firmware is not part of the   *)
(* repository: it is modelled from what the client expects of it and from  *)
(* the in-memory scooter of tests/fake_scooter.py, with the faults that    *)
(* the client's comments name (silence, short answers, a forgotten key).   *)
(***************************************************************************)
EXTENDS Wire

CONSTANT ClaimsPaired   \* TRUE: a PING with a key the scooter does not hold
                        \* may be answered as if it were paired at any time,
                        \* else only while the environment misbehaves
ASSUME ClaimsPairedAssumption == ClaimsPaired \in BOOLEAN

VARIABLES
    scKey,      \* the application key the scooter is paired with
    scSess,     \* the session key of the current link
    scOffer     \* the key offered by the PING of the current link

scooterVars == <<scKey, scSess, scOffer>>

ScooterTypeOK ==
    /\ scKey \in Keys \cup {NoKey}
    /\ scSess \in Sessions
    /\ scOffer \in Keys \cup {NoKey}

ScooterInit ==
    /\ scKey \in Keys \cup {NoKey}
    /\ scSess = NameKey
    /\ scOffer = NoKey

\* A fresh link starts from the key derived from the advertised name.
LinkOpened ==
    /\ scSess' = NameKey
    /\ scOffer' = NoKey
    /\ UNCHANGED scKey

\* The request at the head of the wire, and the answer to it.
Asked == Head(toScooter)

Take ==
    /\ toScooter # <<>>
    /\ toScooter' = Tail(toScooter)

Serve(cmd) ==
    /\ Take
    /\ Asked.cmd = cmd
    /\ Asked.sess = scSess

Reply(cmd, idx, full) ==
    /\ Len(toClient) < MaxWire
    /\ toClient' =
         Append(toClient, [cmd |-> cmd, idx |-> idx, sess |-> scSess, full |-> full])

\* A request under another session key cannot be decrypted and is dropped.
HandleUndecodable ==
    /\ Take
    /\ Asked.sess # scSess
    /\ UNCHANGED <<toClient, scooterVars>>

\* A request gets no answer.  Boards that only answer two-byte reads ignore
\* every bulk one.
HandleSilently ==
    /\ Take
    /\ ~calm \/ (Asked.cmd = "READ" /\ Asked.bulk)
    /\ UNCHANGED <<toClient, scooterVars>>

HandleInit ==
    \E full \in BOOLEAN :
        /\ Serve("INIT")
        /\ full \/ ~calm
        /\ Reply("INIT", 0, full)
        /\ scSess' = BleKey
        /\ UNCHANGED <<scKey, scOffer>>

\* A key the scooter does not hold gets status 1 too, without a session for it.
Misreport == (ClaimsPaired \/ ~calm) /\ Reply("PING", 1, TRUE)

\* Status 1 if the offered key is the paired one, and the session moves to it.
HandlePing ==
    /\ Serve("PING")
    /\ scOffer' = Asked.app
    /\ UNCHANGED scKey
    /\ \/ /\ Asked.app = scKey
          /\ Reply("PING", 1, TRUE)
          /\ scSess' = Asked.app
       \/ /\ Asked.app # scKey
          /\ Reply("PING", 0, TRUE) \/ Misreport
          /\ UNCHANGED scSess

\* The power button is pressed: the offered key becomes the paired one.
HandlePairAccept ==
    \E cmd \in {"PING", "PAIR"} :
        /\ Serve("PAIR")
        /\ scSess = BleKey /\ scOffer # NoKey
        /\ Reply(cmd, 1, TRUE)
        /\ scKey' = scOffer
        /\ scSess' = scOffer
        /\ UNCHANGED scOffer

\* The button has not been pressed yet and the scooter says so.
HandlePairRefuse ==
    /\ Serve("PAIR")
    /\ scSess = BleKey /\ ~calm
    /\ Reply("PAIR", 0, TRUE)
    /\ UNCHANGED scooterVars

\* The PAIR that closes the handshake, under the application's session key.
HandlePairClose ==
    /\ Serve("PAIR")
    /\ scSess \in Keys
    /\ Reply("PAIR", 1, TRUE)
    /\ UNCHANGED scooterVars

HandleRead ==
    \E full \in BOOLEAN :
        /\ Serve("READ")
        /\ scSess \in Keys
        /\ Reply("READ_ACK", Asked.idx, full)
        /\ UNCHANGED scooterVars

\* A factory reset, or pairing cleared (k = NoKey) or redone from another host.
Forget(k) ==
    /\ ~calm
    /\ conn = "down"
    /\ scKey # k
    /\ scKey' = k
    /\ UNCHANGED <<scSess, scOffer>>

ScooterHandle ==
    /\ \/ HandleUndecodable \/ HandleSilently \/ HandleInit \/ HandlePing
       \/ HandlePairAccept \/ HandlePairRefuse \/ HandlePairClose \/ HandleRead
    /\ UNCHANGED conn
=============================================================================
