------------------------------- MODULE Client -------------------------------
(***************************************************************************)
(* NinebotClient.connect (pynebot/client.py): open the link, run the       *)
(* INIT / PING / PAIR handshake, verify the session key with one register  *)
(* read, and recover once from a rejected stored key.  pc names the await  *)
(* at which the polling task is suspended, or where it has got to:         *)
(*   establish, subscribe        _connect_transport                        *)
(*   init, ping, pairing, pair   _handshake and _await_pairing             *)
(*   verify, walk                _verify_session: bulk read, word reads    *)
(*   repair                      the except clause of connect              *)
(*   polling                     connect has returned, async_poll runs     *)
(*   raised                      an exception has left connect or the poll *)
(*   idle                        no poll is running                        *)
(***************************************************************************)
EXTENDS Wire

VARIABLES
    pc,
    appKey,     \* _app_key
    supplied,   \* _app_key_was_supplied
    crypto,     \* the session key _crypto holds
    responses,  \* the _responses queue
    word,       \* the next word _read_register walks to
    error       \* the exception that was raised last

clientVars == <<pc, appKey, supplied, crypto, responses, word, error>>

Stages == {"establish", "subscribe", "init", "ping", "pairing", "pair",
           "verify", "walk", "repair", "polling", "raised", "idle"}

\* The classes of exceptions.py; NinebotPairingRequiredError is a subclass
\* of NinebotAuthError.
Errors == {"none", "connection", "timeout", "auth", "pairing"}
AuthErrors == {"auth", "pairing"}

ClientTypeOK ==
    /\ pc \in Stages
    /\ appKey \in Keys
    /\ supplied \in BOOLEAN
    /\ crypto \in Sessions
    /\ responses \in Seq(Responses)
    /\ word \in 0 .. Words - 1
    /\ error \in Errors

\* connect handles an AuthError once, and only for a key it was given.
Raise(e) ==
    /\ pc' = IF e \in AuthErrors /\ supplied THEN "repair" ELSE "raised"
    /\ error' = e

\* A timeout strikes at any time while the environment misbehaves, an answer
\* on its way or not; afterwards only when no answer is coming.
Late ==
    \/ ~calm
    \/ toScooter = <<>> /\ toClient = <<>> /\ responses = <<>>

\* _send, then wait in stage for the answer.  The write fails when the link
\* is down, and may fail while the environment misbehaves.
Request(cmd, idx, sess, app, bulk, stage) ==
    \/ /\ conn = "up"
       /\ Len(toScooter) < MaxWire
       /\ toScooter' = Append(toScooter, [cmd |-> cmd, idx |-> idx,
                              sess |-> sess, app |-> app, bulk |-> bulk])
       /\ pc' = stage
       /\ UNCHANGED error
    \/ /\ conn = "down" \/ ~calm
       /\ Raise("connection")
       /\ UNCHANGED toScooter

SendPair(sess, stage) == Request("PAIR", 0, sess, NoKey, FALSE, stage)
SendRead(idx, bulk, stage) == Request("READ", idx, crypto, NoKey, bulk, stage)

-----------------------------------------------------------------------------
(* Definitions marked "fault" are seeded faults: no action uses them.      *)

\* The start of _connect_transport, up to the await of establish_connection.
OpenTransport_KeepsCipher ==   \* fault: no new NbCrypto
    /\ pc' = "establish"
    /\ responses' = <<>>
    /\ UNCHANGED crypto

OpenTransport ==
    /\ pc' = "establish"
    /\ crypto' = NameKey
    /\ responses' = <<>>

EstablishOk ==
    /\ pc = "establish"
    /\ pc' = "subscribe"
    /\ conn' = "up"
    /\ UNCHANGED <<toScooter, toClient, appKey, supplied, crypto, responses,
                   word, error>>

\* establish_connection or start_notify raised, or the scooter has no UART
\* characteristic; either way the client is left without a link.
TransportFails ==
    /\ pc \in {"establish", "subscribe"}
    /\ ~calm
    /\ Unlink
    /\ Raise("connection")
    /\ UNCHANGED <<appKey, supplied, crypto, responses, word>>

\* start_notify has returned: _handshake sends INIT.
Subscribe ==
    /\ pc = "subscribe"
    /\ Request("INIT", 0, NameKey, NoKey, FALSE, "init")
    /\ UNCHANGED <<conn, toClient, appKey, supplied, crypto, responses, word>>

\* The answer at the head of the queue, and its removal by _receive.
Answer == Head(responses)

Receive ==
    /\ responses # <<>>
    /\ responses' = Tail(responses)

\* Packet.matches_request for the request the task is waiting on.
Matches(p) ==
    CASE pc = "init"   -> p.cmd = "INIT"
      [] pc = "ping"   -> p.cmd = "PING"
      [] pc = "pair"   -> p.cmd = "PAIR"
      [] pc = "verify" -> p.cmd = "READ_ACK" /\ p.idx = 0
      [] pc = "walk"   -> p.cmd = "READ_ACK" /\ p.idx = word
      [] OTHER         -> FALSE

ReceiveMatch(stage) ==
    /\ pc = stage
    /\ Receive
    /\ Matches(Answer)

\* INIT answered: take the scooter's key and offer ours, or give up on a
\* short answer.
OnInit ==
    /\ ReceiveMatch("init")
    /\ \/ /\ Answer.full
          /\ crypto' = BleKey
          /\ Request("PING", 0, BleKey, appKey, FALSE, "ping")
       \/ /\ ~Answer.full
          /\ Raise("auth")
          /\ UNCHANGED <<crypto, toScooter>>
    /\ UNCHANGED <<conn, toClient, appKey, supplied, word>>

\* connect returns and the coordinator goes on to async_poll.
Connected ==
    /\ pc' = "polling"
    /\ UNCHANGED <<toScooter, error>>

SwitchSession_Optimistic ==   \* fault: no closing PAIR, no verification
    /\ crypto' = appKey
    /\ Connected

\* Switch to the application's session key and close the handshake.
SwitchSession ==
    /\ crypto' = appKey
    /\ SendPair(appKey, "pair")

OnPing_AlwaysPairs ==   \* fault: the status is not looked at
    /\ ReceiveMatch("ping")
    /\ SendPair(crypto, "pairing")
    /\ UNCHANGED <<conn, toClient, appKey, supplied, crypto, word>>

\* PING answered: status 0 asks for the power button.
OnPing ==
    /\ ReceiveMatch("ping")
    /\ \/ /\ Answer.idx = 0
          /\ SendPair(crypto, "pairing")
          /\ UNCHANGED crypto
       \/ /\ Answer.idx # 0
          /\ SwitchSession
    /\ UNCHANGED <<conn, toClient, appKey, supplied, word>>

Accepts(p) == p.cmd \in {"PING", "PAIR"} /\ p.idx = 1

PairingAccepted ==
    /\ pc = "pairing"
    /\ Receive
    /\ Accepts(Answer)
    /\ SwitchSession
    /\ UNCHANGED <<conn, toClient, appKey, supplied, word>>

\* Another answer, or none within the retry interval.
Unaccepted ==
    /\ pc = "pairing"
    /\ \/ Receive /\ ~Accepts(Answer)
       \/ Late /\ UNCHANGED responses
    /\ UNCHANGED <<conn, toClient, appKey, supplied, crypto, word>>

\* Before the pairing deadline: ask again.
PairingRetry == Unaccepted /\ SendPair(crypto, "pairing")

\* Past the deadline: NinebotPairingRequiredError.
PairingExpires == Unaccepted /\ Raise("pairing") /\ UNCHANGED toScooter

\* The handshake is closed: _verify_session reads the serial number.
OnPair ==
    /\ ReceiveMatch("pair")
    /\ SendRead(0, TRUE, "verify")
    /\ UNCHANGED <<conn, toClient, appKey, supplied, crypto, word>>

OnSerial ==
    /\ ReceiveMatch("verify")
    /\ \/ Answer.full /\ Connected /\ UNCHANGED word
       \/ ~Answer.full /\ SendRead(0, FALSE, "walk") /\ word' = 0
    /\ UNCHANGED <<conn, toClient, appKey, supplied, crypto>>

OnSerialWord_OffByOne ==   \* fault: one word too many
    /\ ReceiveMatch("walk")
    /\ \/ word = Words /\ Connected /\ UNCHANGED word
       \/ /\ word < Words
          /\ SendRead(word + 1, FALSE, "walk")
          /\ word' = word + 1
    /\ UNCHANGED <<conn, toClient, appKey, supplied, crypto>>

OnSerialWord ==
    /\ ReceiveMatch("walk")
    /\ \/ word = Words - 1 /\ Connected /\ UNCHANGED word
       \/ /\ word < Words - 1
          /\ SendRead(word + 1, FALSE, "walk")
          /\ word' = word + 1
    /\ UNCHANGED <<conn, toClient, appKey, supplied, crypto>>

\* A packet that answers no outstanding request is thrown away.
IgnoreUnsolicited ==
    /\ pc \in {"init", "ping", "pair", "verify", "walk"}
    /\ Receive
    /\ ~Matches(Answer)
    /\ UNCHANGED <<wireVars, pc, appKey, supplied, crypto, word, error>>

\* No answer to INIT, PING or the closing PAIR: a NinebotTimeoutError, which
\* connect does not handle.
HandshakeTimeout ==
    /\ pc \in {"init", "ping", "pair"}
    /\ Late
    /\ Raise("timeout")
    /\ UNCHANGED <<wireVars, appKey, supplied, crypto, responses, word>>

VerifyTimeout ==
    /\ pc = "verify"
    /\ Late
    /\ SendRead(0, FALSE, "walk")
    /\ word' = 0
    /\ UNCHANGED <<conn, toClient, appKey, supplied, crypto, responses>>

\* A word that stays unread rejects the session key.
WalkTimeout ==
    /\ pc = "walk"
    /\ Late
    /\ Raise("auth")
    /\ UNCHANGED <<wireVars, appKey, supplied, crypto, responses, word>>

\* The except clause of connect: a new key, and the handshake once more.
RePair(k) ==
    /\ pc = "repair"
    /\ appKey' = k
    /\ supplied' = FALSE
    /\ Unlink
    /\ OpenTransport
    /\ UNCHANGED <<word, error>>

\* _on_notify and _dispatch: a frame that the cipher cannot read is dropped,
\* and so is one that finds the queue full.
OnNotify ==
    /\ toClient # <<>>
    /\ toClient' = Tail(toClient)
    /\ responses' =
         IF Head(toClient).sess = crypto /\ Len(responses) < QueueSize
         THEN Append(responses, Head(toClient)) ELSE responses
    /\ UNCHANGED <<conn, toScooter, pc, appKey, supplied, crypto, word, error>>

ConnectStep ==
    \/ EstablishOk \/ TransportFails \/ Subscribe
    \/ OnInit \/ OnPing \/ PairingAccepted \/ PairingRetry
    \/ PairingExpires \/ OnPair \/ OnSerial \/ OnSerialWord \/ IgnoreUnsolicited
    \/ HandshakeTimeout \/ VerifyTimeout \/ WalkTimeout
=============================================================================
