---------------------------- MODULE PairingProofs ---------------------------
(***************************************************************************)
(* Machine-checked safety of Pairing, for any set of keys, any bounds, and *)
(* whether or not the scooter misreports its pairing.                      *)
(*                                                                         *)
(* IInv says why a link in use is sound: READ_ACKs only exist once the     *)
(* scooter has moved its session to the client's key, and a client that    *)
(* takes a READ_ACK after the closing PAIR can only have found one.        *)
(***************************************************************************)
EXTENDS Pairing, TLAPS

\* The packets in a queue.
Packets(s) == {s[i] : i \in DOMAIN s}

\* Nothing is in flight on a closed link, and a new link starts with an
\* empty response queue.
LinkInv ==
    /\ conn = "down" => toScooter = <<>> /\ toClient = <<>>
    /\ pc = "establish" => conn = "down" /\ responses = <<>>

\* What the client may have put on the wire.
Honest(p) ==
    /\ p.cmd = "PING" => p.app = appKey
    /\ p.cmd = "INIT" => p.sess = NameKey

RequestInv == \A p \in Packets(toScooter) : Honest(p)

\* The scooter only ever learns the client's current key on an open link.
ScooterInv ==
    conn = "up" =>
        /\ scOffer \in {NoKey, appKey}
        /\ scSess \in {NameKey, BleKey, appKey}
        /\ scSess = appKey => scKey = appKey

\* A register is only ever read under the client's key.
AnswerInv ==
    conn = "up" =>
        \A p \in Packets(toClient) \cup Packets(responses) :
            p.cmd = "READ_ACK" => scSess = appKey

CipherInv == pc \in {"pair", "verify", "walk"} => crypto = appKey

IInv ==
    /\ TypeOK
    /\ LinkInv /\ RequestInv /\ ScooterInv /\ AnswerInv /\ CipherInv
    /\ SessionAgreement /\ LiveLinkIsPersisted /\ IdleLinkIsHealthy
-----------------------------------------------------------------------------
\* Queues.

LEMMA AppendPackets ==
    ASSUME NEW T, NEW s \in Seq(T), NEW e \in T
    PROVE  /\ Append(s, e) \in Seq(T)
           /\ Packets(Append(s, e)) \subseteq Packets(s) \cup {e}
  BY DEF Packets

LEMMA TailPackets ==
    ASSUME NEW T, NEW s \in Seq(T), s # <<>>
    PROVE  /\ Tail(s) \in Seq(T)
           /\ Head(s) \in T /\ Head(s) \in Packets(s)
           /\ Packets(Tail(s)) \subseteq Packets(s)
  BY DEF Packets

LEMMA EmptyPackets == Packets(<<>>) = {}
  BY DEF Packets

LEMMA EmptySeq == ASSUME NEW T PROVE <<>> \in Seq(T)
  OBVIOUS
-----------------------------------------------------------------------------
\* The building blocks of the client's and the scooter's actions.

LEMMA RequestEffect ==
    ASSUME WireTypeOK, ClientTypeOK,
           NEW cmd \in {"INIT", "PING", "PAIR", "READ"},
           NEW idx \in 0 .. Words - 1, NEW sess \in Sessions,
           NEW app \in Keys \cup {NoKey}, NEW bulk \in BOOLEAN,
           NEW stage \in Stages,
           Request(cmd, idx, sess, app, bulk, stage),
           cmd = "PING" => app = appKey,
           cmd = "INIT" => sess = NameKey
    PROVE  /\ toScooter' \in Seq(Requests)
           /\ \A p \in Packets(toScooter') : p \in Packets(toScooter) \/ Honest(p)
           /\ (pc' = stage /\ conn = "up") \/ pc' \in {"repair", "raised"}
           /\ conn = "down" => toScooter' = toScooter
           /\ error' \in Errors
  <1> DEFINE pkt == [cmd |-> cmd, idx |-> idx, sess |-> sess, app |-> app,
                     bulk |-> bulk]
  <1>1. CASE /\ conn = "up"
             /\ toScooter' = Append(toScooter, pkt)
             /\ pc' = stage
             /\ error' = error
    <2>1. pkt \in Requests /\ Honest(pkt)
      BY DEF Requests, Honest
    <2>2. toScooter \in Seq(Requests)
      BY DEF WireTypeOK
    <2> HIDE DEF pkt
    <2>3. /\ toScooter' \in Seq(Requests)
          /\ Packets(toScooter') \subseteq Packets(toScooter) \cup {pkt}
      BY <1>1, <2>1, <2>2, AppendPackets
    <2> QED
      BY <1>1, <2>1, <2>3 DEF ClientTypeOK
  <1>2. CASE Raise("connection") /\ toScooter' = toScooter
    BY <1>2 DEF Raise, AuthErrors, Errors, WireTypeOK
  <1> QED
    BY <1>1, <1>2 DEF Request

LEMMA ReceiveEffect ==
    ASSUME ClientTypeOK, Receive
    PROVE  /\ responses' \in Seq(Responses)
           /\ Packets(responses') \subseteq Packets(responses)
           /\ Answer \in Packets(responses)
           /\ Answer \in Responses
  BY TailPackets DEF ClientTypeOK, Receive, Answer

LEMMA TakeEffect ==
    ASSUME WireTypeOK, Take
    PROVE  /\ toScooter' \in Seq(Requests)
           /\ Packets(toScooter') \subseteq Packets(toScooter)
           /\ Asked \in Requests /\ Asked \in Packets(toScooter)
           /\ toScooter # <<>>
  BY TailPackets DEF WireTypeOK, Take, Asked

LEMMA ReplyEffect ==
    ASSUME WireTypeOK, ScooterTypeOK,
           NEW cmd \in {"INIT", "PING", "PAIR", "READ_ACK"},
           NEW idx \in Nat, NEW full \in BOOLEAN,
           Reply(cmd, idx, full)
    PROVE  /\ toClient' \in Seq(Responses)
           /\ \A p \in Packets(toClient') : p \in Packets(toClient) \/ p.cmd = cmd
  <1> DEFINE pkt == [cmd |-> cmd, idx |-> idx, sess |-> scSess, full |-> full]
  <1>1. pkt \in Responses /\ pkt.cmd = cmd
    BY DEF Responses, ScooterTypeOK
  <1>2. toClient' = Append(toClient, pkt) /\ toClient \in Seq(Responses)
    BY DEF Reply, WireTypeOK
  <1> HIDE DEF pkt
  <1> QED
    BY <1>1, <1>2, AppendPackets
-----------------------------------------------------------------------------
\* What every step of connect guarantees.

ConnectPost ==
    /\ ClientTypeOK'
    /\ conn' \in {"up", "down"}
    /\ toScooter' \in Seq(Requests) /\ toClient' \in Seq(Responses)
    /\ appKey' = appKey
    /\ \A p \in Packets(toScooter') : p \in Packets(toScooter) \/ Honest(p)
    /\ Packets(toClient') \subseteq Packets(toClient)
    /\ Packets(responses') \subseteq Packets(responses)
    /\ conn' = "down" => toScooter' = <<>> /\ toClient' = <<>>
    /\ conn' = "up" /\ conn = "down" =>
         responses' = <<>> /\ toScooter' = <<>> /\ toClient' = <<>>
    /\ pc' \notin {"establish", "idle"}
    /\ pc' \in {"pair", "verify", "walk", "polling"} => crypto' = appKey
    /\ pc' = "polling" =>
         conn' = conn /\ \E p \in Packets(responses) : p.cmd = "READ_ACK"

LEMMA ConnectEffect ==
    ASSUME TypeOK, LinkInv, CipherInv, ConnectStep
    PROVE  ConnectPost
  <1> USE DEF TypeOK
  <1>0. /\ WireTypeOK /\ ClientTypeOK
        /\ 0 \in 0 .. Words - 1 /\ Words - 1 \in 0 .. Words - 1
        /\ appKey \in Sessions /\ crypto \in Sessions /\ NameKey \in Sessions
        /\ BleKey \in Sessions
        /\ appKey \in Keys \cup {NoKey} /\ NoKey \in Keys \cup {NoKey}
    BY SizesAssumption DEF ClientTypeOK, Sessions
  <1> DEFINE Sent ==
        /\ toScooter' \in Seq(Requests)
        /\ \A p \in Packets(toScooter') : p \in Packets(toScooter) \/ Honest(p)
        /\ conn = "down" => toScooter' = toScooter
        /\ error' \in Errors
  <1>1. ASSUME NEW stage \in Stages, SendPair(appKey, stage)
        PROVE  Sent /\ pc' \in {stage, "repair", "raised"}
    BY <1>0, <1>1, RequestEffect DEF SendPair
  <1>2. ASSUME NEW stage \in Stages, SendPair(crypto, stage)
        PROVE  Sent /\ pc' \in {stage, "repair", "raised"}
    BY <1>0, <1>2, RequestEffect DEF SendPair
  <1>3. ASSUME NEW stage \in Stages, NEW idx \in 0 .. Words - 1,
               NEW bulk \in BOOLEAN, SendRead(idx, bulk, stage)
        PROVE  Sent /\ pc' \in {stage, "repair", "raised"}
    <2>1. Request("READ", idx, crypto, NoKey, bulk, stage)
      BY <1>3 DEF SendRead
    <2>2. "READ" \in {"INIT", "PING", "PAIR", "READ"}
          /\ "READ" # "PING" /\ "READ" # "INIT"
      OBVIOUS
    <2> HIDE DEF TypeOK, Sent
    <2>3. /\ toScooter' \in Seq(Requests)
          /\ \A p \in Packets(toScooter') : p \in Packets(toScooter) \/ Honest(p)
          /\ (pc' = stage /\ conn = "up") \/ pc' \in {"repair", "raised"}
          /\ conn = "down" => toScooter' = toScooter
          /\ error' \in Errors
      BY <1>0, <2>1, <2>2, RequestEffect
    <2> QED
      BY <2>3 DEF Sent
  <1>4. ASSUME NEW e \in Errors, Raise(e)
        PROVE  pc' \in {"repair", "raised"} /\ error' \in Errors
    BY <1>4 DEF Raise
  <1>5. ASSUME Receive
        PROVE  /\ responses' \in Seq(Responses)
               /\ Packets(responses') \subseteq Packets(responses)
               /\ Answer \in Packets(responses)
    BY <1>0, <1>5, ReceiveEffect
  <1>6. CASE EstablishOk
    BY <1>0, <1>6, EmptyPackets
       DEF EstablishOk, ConnectPost, LinkInv, WireTypeOK, ClientTypeOK, Stages
  <1>7. CASE TransportFails
    BY <1>0, <1>4, <1>7, EmptyPackets, EmptySeq
       DEF TransportFails, Unlink, ConnectPost, ClientTypeOK, Stages, Errors
  <1>8. CASE Subscribe
    <2>1. Sent /\ pc' \in {"init", "repair", "raised"}
      BY <1>0, <1>8, RequestEffect DEF Subscribe, Stages
    <2> QED
      BY <1>0, <1>8, <2>1
         DEF Subscribe, ConnectPost, LinkInv, WireTypeOK, ClientTypeOK, Stages
  <1>9. CASE OnInit
    <2>1. CASE crypto' = BleKey /\ Request("PING", 0, BleKey, appKey, FALSE, "ping")
      <3>1. Sent /\ pc' \in {"ping", "repair", "raised"}
        BY <1>0, <2>1, RequestEffect DEF Stages
      <3> QED
        BY <1>0, <1>5, <1>9, <2>1, <3>1
           DEF OnInit, ReceiveMatch, ConnectPost, LinkInv, WireTypeOK,
               ClientTypeOK, Stages
    <2>2. CASE Raise("auth") /\ UNCHANGED <<crypto, toScooter>>
      BY <1>0, <1>4, <1>5, <1>9, <2>2
         DEF OnInit, ReceiveMatch, ConnectPost, LinkInv, WireTypeOK,
             ClientTypeOK, Stages, Errors
    <2> QED
      BY <1>9, <2>1, <2>2 DEF OnInit
  <1>10. CASE OnPing
    <2>1. CASE SendPair(crypto, "pairing") /\ UNCHANGED crypto
      <3>1. Sent /\ pc' \in {"pairing", "repair", "raised"}
        BY <1>2, <2>1 DEF Stages
      <3> QED
        BY <1>0, <1>5, <1>10, <2>1, <3>1
           DEF OnPing, ReceiveMatch, ConnectPost, LinkInv, WireTypeOK,
               ClientTypeOK, Stages
    <2>2. CASE SwitchSession
      <3>1. Sent /\ pc' \in {"pair", "repair", "raised"} /\ crypto' = appKey
        BY <1>1, <2>2 DEF Stages, SwitchSession
      <3> QED
        BY <1>0, <1>5, <1>10, <3>1
           DEF OnPing, ReceiveMatch, ConnectPost, LinkInv, WireTypeOK,
               ClientTypeOK, Stages
    <2> QED
      BY <1>10, <2>1, <2>2 DEF OnPing
  <1>11. CASE PairingAccepted
    <2>1. Sent /\ pc' \in {"pair", "repair", "raised"} /\ crypto' = appKey
      BY <1>1, <1>11 DEF Stages, SwitchSession, PairingAccepted
    <2> QED
      BY <1>0, <1>5, <1>11, <2>1
         DEF PairingAccepted, ConnectPost, LinkInv, WireTypeOK, ClientTypeOK,
             Stages
  <1>12. CASE PairingRetry
    <2>1. Sent /\ pc' \in {"pairing", "repair", "raised"}
      BY <1>2, <1>12 DEF Stages, PairingRetry
    <2>2. /\ responses' \in Seq(Responses)
          /\ Packets(responses') \subseteq Packets(responses)
      BY <1>0, <1>5, <1>12 DEF PairingRetry, Unaccepted, ClientTypeOK
    <2> QED
      BY <1>0, <1>12, <2>1, <2>2
         DEF PairingRetry, Unaccepted, ConnectPost, LinkInv, WireTypeOK,
             ClientTypeOK, Stages
  <1>13. CASE PairingExpires
    <2>1. /\ responses' \in Seq(Responses)
          /\ Packets(responses') \subseteq Packets(responses)
      BY <1>0, <1>5, <1>13 DEF PairingExpires, Unaccepted, ClientTypeOK
    <2> QED
      BY <1>0, <1>4, <1>13, <2>1
         DEF PairingExpires, Unaccepted, ConnectPost, LinkInv, WireTypeOK,
             ClientTypeOK, Stages, Errors
  <1>14. CASE OnPair
    <2>1. Sent /\ pc' \in {"verify", "repair", "raised"}
      BY <1>0, <1>3, <1>14 DEF Stages, OnPair
    <2> QED
      BY <1>0, <1>5, <1>14, <2>1
         DEF OnPair, ReceiveMatch, ConnectPost, LinkInv, CipherInv, WireTypeOK,
             ClientTypeOK, Stages
  <1>15. CASE OnSerial
    <2>1. Answer.cmd = "READ_ACK" /\ pc = "verify"
      BY <1>15 DEF OnSerial, ReceiveMatch, Matches
    <2>2. CASE Connected /\ UNCHANGED word
      BY <1>0, <1>5, <1>15, <2>1, <2>2
         DEF OnSerial, ReceiveMatch, Connected, ConnectPost, LinkInv, CipherInv,
             WireTypeOK, ClientTypeOK, Stages
    <2>3. CASE SendRead(0, FALSE, "walk") /\ word' = 0
      <3>1. Sent /\ pc' \in {"walk", "repair", "raised"}
        BY <1>0, <1>3, <2>3 DEF Stages
      <3> QED
        BY <1>0, <1>5, <1>15, <2>1, <2>3, <3>1
           DEF OnSerial, ReceiveMatch, ConnectPost, LinkInv, CipherInv,
               WireTypeOK, ClientTypeOK, Stages
    <2> QED
      BY <1>15, <2>2, <2>3 DEF OnSerial
  <1>16. CASE OnSerialWord
    <2>1. Answer.cmd = "READ_ACK" /\ pc = "walk"
      BY <1>16 DEF OnSerialWord, ReceiveMatch, Matches
    <2>2. CASE Connected /\ UNCHANGED word
      BY <1>0, <1>5, <1>16, <2>1, <2>2
         DEF OnSerialWord, ReceiveMatch, Connected, ConnectPost, LinkInv,
             CipherInv, WireTypeOK, ClientTypeOK, Stages
    <2>3. CASE /\ word < Words - 1
               /\ SendRead(word + 1, FALSE, "walk")
               /\ word' = word + 1
      <3>1. word + 1 \in 0 .. Words - 1
        BY <1>0, <2>3, SizesAssumption DEF ClientTypeOK
      <3>2. Sent /\ pc' \in {"walk", "repair", "raised"}
        BY <1>3, <2>3, <3>1 DEF Stages
      <3> QED
        BY <1>0, <1>5, <1>16, <2>1, <2>3, <3>1, <3>2
           DEF OnSerialWord, ReceiveMatch, ConnectPost, LinkInv, CipherInv,
               WireTypeOK, ClientTypeOK, Stages
    <2> QED
      BY <1>16, <2>2, <2>3 DEF OnSerialWord
  <1>17. CASE IgnoreUnsolicited
    BY <1>0, <1>5, <1>17
       DEF IgnoreUnsolicited, wireVars, ConnectPost, LinkInv, CipherInv,
           WireTypeOK, ClientTypeOK
  <1>18. CASE HandshakeTimeout
    BY <1>0, <1>4, <1>18
       DEF HandshakeTimeout, wireVars, ConnectPost, LinkInv, WireTypeOK,
           ClientTypeOK, Stages, Errors
  <1>19. CASE VerifyTimeout
    <2>1. Sent /\ pc' \in {"walk", "repair", "raised"}
      BY <1>0, <1>3, <1>19 DEF VerifyTimeout, Stages
    <2> QED
      BY <1>0, <1>19, <2>1
         DEF VerifyTimeout, ConnectPost, LinkInv, CipherInv, WireTypeOK,
             ClientTypeOK, Stages
  <1>20. CASE WalkTimeout
    BY <1>0, <1>4, <1>20
       DEF WalkTimeout, wireVars, ConnectPost, LinkInv, WireTypeOK,
           ClientTypeOK, Stages, Errors
  <1> QED
    BY <1>6, <1>7, <1>8, <1>9, <1>10, <1>11, <1>12, <1>13, <1>14, <1>15, <1>16,
       <1>17, <1>18, <1>19, <1>20 DEF ConnectStep
-----------------------------------------------------------------------------
\* What every step of the scooter guarantees.

ScooterPost ==
    /\ ScooterTypeOK'
    /\ conn' = conn /\ conn = "up"
    /\ toScooter' \in Seq(Requests) /\ toClient' \in Seq(Responses)
    /\ Packets(toScooter') \subseteq Packets(toScooter)
    /\ scOffer' \in {NoKey, appKey}
    /\ scSess' \in {NameKey, BleKey, appKey}
    /\ scSess' = appKey => scKey' = appKey
    /\ scSess = appKey => scSess' = appKey
    /\ \A p \in Packets(toClient') :
          p \in Packets(toClient) \/ (p.cmd = "READ_ACK" => scSess' = appKey)

LEMMA ScooterEffect ==
    ASSUME IInv, ScooterHandle
    PROVE  ScooterPost
  <1>1. /\ WireTypeOK /\ ScooterTypeOK /\ appKey \in Keys
        /\ NameKey \notin Keys /\ BleKey \notin Keys /\ NoKey \notin Keys
        /\ NameKey # BleKey
        /\ NameKey \in Sessions /\ BleKey \in Sessions
    BY KeysAssumption DEF IInv, TypeOK, ClientTypeOK, Sessions
  <1>2. Take
    BY DEF ScooterHandle, HandleUndecodable, HandleSilently, HandleInit,
           HandlePing, Misreport, HandlePairAccept, HandlePairRefuse, HandlePairClose,
           HandleRead, Serve
  <1>3. /\ toScooter' \in Seq(Requests)
        /\ Packets(toScooter') \subseteq Packets(toScooter)
        /\ Asked \in Requests /\ Asked \in Packets(toScooter)
        /\ toScooter # <<>>
    BY <1>1, <1>2, TakeEffect
  <1>4. Honest(Asked) /\ Asked.app \in Keys \cup {NoKey} /\ Asked.idx \in Nat
    BY <1>3, SizesAssumption DEF IInv, RequestInv, Requests
  <1>5. conn = "up" /\ conn' = conn
    BY <1>1, <1>3 DEF IInv, LinkInv, WireTypeOK, ScooterHandle
  <1>6. /\ scOffer \in {NoKey, appKey}
        /\ scSess \in {NameKey, BleKey, appKey}
        /\ scSess = appKey => scKey = appKey
    BY <1>5 DEF IInv, ScooterInv
  <1>7. ASSUME NEW cmd \in {"INIT", "PING", "PAIR", "READ_ACK"},
               NEW idx \in Nat, NEW full \in BOOLEAN, Reply(cmd, idx, full)
        PROVE  /\ toClient' \in Seq(Responses)
               /\ \A p \in Packets(toClient') : p \in Packets(toClient) \/ p.cmd = cmd
    BY <1>1, <1>7, ReplyEffect
  <1>8. CASE HandleUndecodable \/ HandleSilently
    BY <1>1, <1>3, <1>5, <1>6, <1>8
       DEF HandleUndecodable, HandleSilently, scooterVars, ScooterPost,
           ScooterTypeOK, WireTypeOK
  <1>9. CASE HandleInit
    <2>1. PICK full \in BOOLEAN :
            Serve("INIT") /\ Reply("INIT", 0, full) /\ scSess' = BleKey
            /\ UNCHANGED <<scKey, scOffer>>
      BY <1>9 DEF HandleInit
    <2>2. scSess = NameKey
      BY <1>4, <2>1 DEF Serve, Honest
    <2>3. /\ toClient' \in Seq(Responses)
          /\ \A p \in Packets(toClient') : p \in Packets(toClient) \/ p.cmd = "INIT"
      BY <1>7, <2>1
    <2> QED
      BY <1>1, <1>3, <1>5, <1>6, <2>1, <2>2, <2>3 DEF ScooterPost, ScooterTypeOK
  <1>10. CASE HandlePing
    <2>1. Asked.cmd = "PING" /\ Asked.app = appKey /\ scOffer' = appKey
      BY <1>4, <1>10 DEF HandlePing, Misreport, Serve, Honest
    <2>2. /\ toClient' \in Seq(Responses)
          /\ \A p \in Packets(toClient') : p \in Packets(toClient) \/ p.cmd = "PING"
      BY <1>7, <1>10 DEF HandlePing, Misreport
    <2>3. /\ scKey' = scKey
          /\ scSess' = scSess \/ (scSess' = appKey /\ appKey = scKey)
      BY <1>10, <2>1 DEF HandlePing, Misreport
    <2> QED
      BY <1>1, <1>3, <1>5, <1>6, <2>1, <2>2, <2>3
         DEF ScooterPost, ScooterTypeOK, Sessions
  <1>11. CASE HandlePairAccept
    <2>1. PICK cmd \in {"PING", "PAIR"} :
            Reply(cmd, 1, TRUE) /\ scSess = BleKey /\ scOffer # NoKey
            /\ scKey' = scOffer /\ scSess' = scOffer /\ scOffer' = scOffer
      BY <1>11 DEF HandlePairAccept
    <2>2. /\ toClient' \in Seq(Responses)
          /\ \A p \in Packets(toClient') : p \in Packets(toClient) \/ p.cmd = cmd
      BY <1>7, <2>1
    <2> QED
      BY <1>1, <1>3, <1>5, <1>6, <2>1, <2>2
         DEF ScooterPost, ScooterTypeOK, Sessions
  <1>12. CASE HandlePairRefuse \/ HandlePairClose
    <2>1. PICK idx \in {0, 1} : Reply("PAIR", idx, TRUE)
      BY <1>12 DEF HandlePairRefuse, HandlePairClose
    <2>2. /\ toClient' \in Seq(Responses)
          /\ \A p \in Packets(toClient') : p \in Packets(toClient) \/ p.cmd = "PAIR"
      BY <1>7, <2>1
    <2> QED
      BY <1>1, <1>3, <1>5, <1>6, <1>12, <2>2
         DEF HandlePairRefuse, HandlePairClose, scooterVars, ScooterPost,
             ScooterTypeOK
  <1>13. CASE HandleRead
    <2>1. PICK full \in BOOLEAN :
            Reply("READ_ACK", Asked.idx, full) /\ scSess \in Keys
            /\ UNCHANGED scooterVars
      BY <1>13 DEF HandleRead
    <2>2. toClient' \in Seq(Responses)
      BY <1>4, <1>7, <2>1
    <2>3. \A p \in Packets(toClient') :
             p \in Packets(toClient) \/ p.cmd = "READ_ACK"
      BY <1>4, <1>7, <2>1
    <2>4. scSess = appKey
      BY <1>1, <1>6, <2>1
    <2> QED
      BY <1>1, <1>3, <1>5, <1>6, <2>1, <2>2, <2>3, <2>4
         DEF scooterVars, ScooterPost, ScooterTypeOK
  <1> QED
    BY <1>8, <1>9, <1>10, <1>11, <1>12, <1>13 DEF ScooterHandle
-----------------------------------------------------------------------------
\* The inductive invariant.

LEMMA InitIInv == ASSUME Init PROVE IInv
  <1>0. 0 \in 0 .. Words - 1
    BY SizesAssumption
  <1>3. WireTypeOK /\ ScooterTypeOK
    BY EmptySeq DEF Init, WireInit, ScooterInit, WireTypeOK, ScooterTypeOK, Sessions
  <1>4. ClientTypeOK
    <2>1. appKey \in Keys /\ supplied \in BOOLEAN
      BY DEF Init
    <2> QED
      BY <1>0, <2>1, EmptySeq DEF Init, ClientTypeOK, Sessions, Stages, Errors
  <1>1. WireTypeOK /\ ScooterTypeOK /\ ClientTypeOK
    BY <1>3, <1>4
  <1>2. TypeOK
    BY <1>1 DEF Init, TypeOK
  <1> QED
    BY <1>2, EmptyPackets
       DEF Init, WireInit, IInv, LinkInv, RequestInv, ScooterInv, AnswerInv,
           CipherInv, SessionAgreement, LiveLinkIsPersisted, IdleLinkIsHealthy

LEMMA ConnectIInv == ASSUME IInv, ClientConnect PROVE IInv'
  <1>1. TypeOK /\ LinkInv /\ CipherInv /\ ScooterTypeOK
    BY DEF IInv, TypeOK
  <1>2. ConnectPost
    BY <1>1, ConnectEffect DEF ClientConnect, ClientDoes
  <1>3. /\ \/ conn = "down" /\ conn' = "up" /\ LinkOpened
           \/ ~(conn = "down" /\ conn' = "up") /\ UNCHANGED scooterVars
        /\ entryKey' = IF pc' = "polling" THEN appKey' ELSE entryKey
        /\ UNCHANGED <<calm, pairingRequired, lastPollOk>>
    BY DEF ClientConnect, ClientDoes, PersistAppKey
  <1>4. TypeOK'
    BY <1>1, <1>2, <1>3
       DEF ConnectPost, TypeOK, WireTypeOK, ScooterTypeOK, ClientTypeOK,
           LinkOpened, scooterVars, Sessions
  <1>5. LinkInv' /\ CipherInv'
    BY <1>2 DEF ConnectPost, LinkInv, CipherInv
  <1>6. RequestInv'
    BY <1>2 DEF IInv, ConnectPost, RequestInv, Honest
  <1>7. ScooterInv'
    BY <1>1, <1>2, <1>3, KeysAssumption
       DEF IInv, ConnectPost, ScooterInv, LinkOpened, scooterVars, TypeOK,
           WireTypeOK, ClientTypeOK
  <1>8. AnswerInv'
    <2>1. CASE conn = "up"
      BY <1>2, <1>3, <2>1 DEF IInv, ConnectPost, AnswerInv, scooterVars
    <2>2. CASE conn = "down"
      BY <1>2, <2>2, EmptyPackets DEF ConnectPost, AnswerInv
    <2> QED
      BY <1>1, <2>1, <2>2 DEF TypeOK, WireTypeOK
  <1>9. pc' = "polling" /\ conn' = "up" => crypto' = appKey' /\ scSess' = appKey'
    BY <1>2, <1>3 DEF IInv, ConnectPost, AnswerInv, scooterVars
  <1>10. SessionAgreement' /\ LiveLinkIsPersisted' /\ IdleLinkIsHealthy'
    BY <1>2, <1>3, <1>9
       DEF ConnectPost, SessionAgreement, LiveLinkIsPersisted, IdleLinkIsHealthy
  <1> QED
    BY <1>4, <1>5, <1>6, <1>7, <1>8, <1>10 DEF IInv

LEMMA ScooterIInv == ASSUME IInv, ScooterStep PROVE IInv'
  <1>1. /\ ScooterPost /\ TypeOK
        /\ UNCHANGED <<calm, clientVars, coordinatorVars>>
    BY ScooterEffect DEF ScooterStep, IInv
  <1>2. TypeOK'
    BY <1>1
       DEF ScooterPost, TypeOK, WireTypeOK, ClientTypeOK, clientVars,
           coordinatorVars
  <1>3. LinkInv' /\ RequestInv' /\ CipherInv' /\ ScooterInv'
    BY <1>1
       DEF IInv, ScooterPost, LinkInv, RequestInv, Honest, CipherInv, ScooterInv,
           clientVars
  <1>4. AnswerInv'
    BY <1>1 DEF IInv, ScooterPost, AnswerInv, clientVars
  <1>5. SessionAgreement' /\ LiveLinkIsPersisted' /\ IdleLinkIsHealthy'
    BY <1>1
       DEF IInv, ScooterPost, SessionAgreement, LiveLinkIsPersisted,
           IdleLinkIsHealthy, clientVars, coordinatorVars
  <1> QED
    BY <1>2, <1>3, <1>4, <1>5 DEF IInv

\* Steps after which the link is down, or that leave link, scooter and
\* client alone.
LEMMA NotifyIInv == ASSUME IInv, ClientNotify PROVE IInv'
  <1>1. /\ toClient # <<>> /\ toClient' = Tail(toClient)
        /\ \/ responses' = responses
           \/ responses' = Append(responses, Head(toClient))
        /\ UNCHANGED <<conn, toScooter, pc, appKey, supplied, crypto, word, error,
                       calm, scooterVars, coordinatorVars>>
    BY DEF ClientNotify, OnNotify
  <1>2. toClient \in Seq(Responses) /\ responses \in Seq(Responses)
    BY DEF IInv, TypeOK, WireTypeOK, ClientTypeOK
  <1>3. /\ toClient' \in Seq(Responses)
        /\ Head(toClient) \in Responses /\ Head(toClient) \in Packets(toClient)
        /\ Packets(toClient') \subseteq Packets(toClient)
    BY <1>1, <1>2, TailPackets
  <1>4. /\ responses' \in Seq(Responses)
        /\ Packets(responses') \subseteq Packets(responses) \cup Packets(toClient)
    <2>1. CASE responses' = responses
      BY <1>2, <2>1
    <2>2. CASE responses' = Append(responses, Head(toClient))
      BY <1>2, <1>3, <2>2, AppendPackets
    <2> QED
      BY <1>1, <2>1, <2>2
  <1>5. TypeOK'
    BY <1>1, <1>3, <1>4
       DEF IInv, TypeOK, WireTypeOK, ClientTypeOK, ScooterTypeOK, scooterVars,
           coordinatorVars
  <1>6. LinkInv' /\ RequestInv' /\ CipherInv' /\ ScooterInv'
    BY <1>1
       DEF IInv, TypeOK, WireTypeOK, LinkInv, RequestInv, Honest, CipherInv,
           ScooterInv, scooterVars
  <1>7. AnswerInv'
    BY <1>1, <1>3, <1>4 DEF IInv, AnswerInv, scooterVars
  <1>8. SessionAgreement' /\ LiveLinkIsPersisted' /\ IdleLinkIsHealthy'
    BY <1>1
       DEF IInv, SessionAgreement, LiveLinkIsPersisted, IdleLinkIsHealthy,
           scooterVars, coordinatorVars
  <1> QED
    BY <1>5, <1>6, <1>7, <1>8 DEF IInv

LEMMA UnlinkIInv ==
    ASSUME IInv, TypeOK', Unlink, pc' \notin {"pair", "verify", "walk"} \/
               (pc' = pc /\ crypto' = crypto /\ appKey' = appKey),
           pc' = "establish" => responses' = <<>>
    PROVE  IInv'
  BY EmptyPackets
     DEF IInv, Unlink, LinkInv, RequestInv, ScooterInv, AnswerInv, CipherInv,
         SessionAgreement, LiveLinkIsPersisted, IdleLinkIsHealthy

LEMMA NextIInv == ASSUME IInv, [Next]_vars PROVE IInv'
  <1> USE DEF clientVars, scooterVars, coordinatorVars, wireVars
  <1>0. TypeOK /\ WireTypeOK /\ ClientTypeOK /\ ScooterTypeOK
    BY DEF IInv, TypeOK
  <1>1. CASE StartPoll
    <2>1. TypeOK'
      <3>1. WireTypeOK' /\ ScooterTypeOK'
        BY <1>0, <1>1 DEF StartPoll, WireTypeOK, ScooterTypeOK
      <3>2. ClientTypeOK'
        BY <1>0, <1>1, EmptySeq
           DEF StartPoll, OpenTransport, ClientTypeOK, Stages, Sessions
      <3> QED
        BY <1>0, <1>1, <3>1, <3>2 DEF StartPoll, TypeOK
    <2>2. CASE conn = "up"
      BY <1>1, <2>1, <2>2
         DEF IInv, StartPoll, LinkInv, RequestInv, Honest, ScooterInv, AnswerInv,
             CipherInv, SessionAgreement, LiveLinkIsPersisted, IdleLinkIsHealthy
    <2>3. CASE conn = "down"
      BY <1>1, <2>1, <2>3
         DEF IInv, StartPoll, OpenTransport, LinkInv, RequestInv, Honest,
             ScooterInv, AnswerInv, CipherInv, SessionAgreement,
             LiveLinkIsPersisted, IdleLinkIsHealthy
    <2> QED
      BY <1>0, <2>2, <2>3 DEF WireTypeOK
  <1>2. CASE ClientConnect
    BY <1>2, ConnectIInv
  <1>3. CASE ClientRePair
    <2>1. PICK k \in FreshKeys : RePair(k)
      BY <1>3 DEF ClientRePair
    <2>2. TypeOK'
      BY <1>0, <1>3, <2>1, EmptySeq
         DEF ClientRePair, RePair, Unlink, OpenTransport, FreshKeys, TypeOK,
             WireTypeOK, ClientTypeOK, ScooterTypeOK, Stages, Sessions
    <2> QED
      BY <2>1, <2>2, UnlinkIInv DEF RePair, OpenTransport
  <1>4. CASE ClientNotify
    BY <1>4, NotifyIInv
  <1>5. CASE PollSucceeds
    <2>1. TypeOK'
      BY <1>0, <1>5
         DEF PollSucceeds, TypeOK, WireTypeOK, ClientTypeOK, ScooterTypeOK, Stages
    <2> QED
      BY <1>5, <2>1
         DEF IInv, PollSucceeds, LinkInv, RequestInv, Honest, ScooterInv,
             AnswerInv, CipherInv, SessionAgreement, LiveLinkIsPersisted,
             IdleLinkIsHealthy
  <1>6. CASE PollFails
    <2>1. TypeOK'
      BY <1>0, <1>6
         DEF PollFails, TypeOK, WireTypeOK, ClientTypeOK, ScooterTypeOK, Stages,
             Errors
    <2> QED
      BY <1>6, <2>1
         DEF IInv, PollFails, LinkInv, RequestInv, Honest, ScooterInv,
             AnswerInv, CipherInv, SessionAgreement, LiveLinkIsPersisted,
             IdleLinkIsHealthy
  <1>7. CASE HandleError
    <2>1. TypeOK'
      BY <1>0, <1>7, EmptySeq
         DEF HandleError, Unlink, TypeOK, WireTypeOK, ClientTypeOK,
             ScooterTypeOK, Stages
    <2> QED
      BY <1>7, <2>1, UnlinkIInv DEF HandleError
  <1>8. CASE ScooterStep
    BY <1>8, ScooterIInv
  <1>9. CASE ScooterForgets
    <2>1. PICK k \in FreshKeys \cup {NoKey} : Forget(k)
      BY <1>9 DEF ScooterForgets
    <2>2. TypeOK'
      BY <1>0, <1>9, <2>1
         DEF ScooterForgets, Forget, FreshKeys, TypeOK, WireTypeOK,
             ClientTypeOK, ScooterTypeOK
    <2> QED
      BY <1>9, <2>1, <2>2
         DEF IInv, ScooterForgets, Forget, LinkInv, RequestInv, Honest,
             ScooterInv, AnswerInv, CipherInv, SessionAgreement,
             LiveLinkIsPersisted, IdleLinkIsHealthy
  <1>10. CASE LinkDrop
    <2>1. TypeOK'
      BY <1>0, <1>10, EmptySeq
         DEF LinkDrop, Unlink, TypeOK, WireTypeOK, ClientTypeOK, ScooterTypeOK
    <2> QED
      BY <1>10, <2>1, UnlinkIInv DEF LinkDrop, IInv, LinkInv
  <1>11. CASE Restart
    <2>1. TypeOK'
      <3>1. 0 \in 0 .. Words - 1
        BY SizesAssumption
      <3>2. appKey' \in Keys /\ supplied' \in BOOLEAN
        BY <1>11 DEF Restart, FreshKeys
      <3>3. ClientTypeOK'
        BY <1>11, <3>1, <3>2, EmptySeq
           DEF Restart, ClientTypeOK, Stages, Sessions, Errors
      <3> QED
        BY <1>0, <1>11, <3>3, EmptySeq
           DEF Restart, Unlink, TypeOK, WireTypeOK, ScooterTypeOK
    <2> QED
      BY <1>11, <2>1, UnlinkIInv DEF Restart
  <1>12. CASE Settle \/ UNCHANGED vars
    <2>1. TypeOK'
      BY <1>0, <1>12
         DEF Settle, vars, TypeOK, WireTypeOK, ClientTypeOK, ScooterTypeOK
    <2> QED
      BY <1>12, <2>1
         DEF IInv, Settle, vars, LinkInv, RequestInv, Honest, ScooterInv,
             AnswerInv, CipherInv, SessionAgreement, LiveLinkIsPersisted,
             IdleLinkIsHealthy
  <1> QED
    BY <1>1, <1>2, <1>3, <1>4, <1>5, <1>6, <1>7, <1>8, <1>9, <1>10, <1>11, <1>12
       DEF Next

THEOREM IInvHolds == Spec => []IInv
  BY InitIInv, NextIInv, PTL DEF Spec

\* Every variable keeps its type.
THEOREM TypeCorrect == Spec => []TypeOK
  BY IInvHolds, PTL DEF IInv

\* An open link outside a handshake is one both ends can read.
THEOREM SessionsAgree == Spec => []SessionAgreement
  BY IInvHolds, PTL DEF IInv

\* The key of a link in use is in the config entry.
THEOREM LiveLinksPersisted == Spec => []LiveLinkIsPersisted
  BY IInvHolds, PTL DEF IInv

\* A link between two polls follows a successful poll.
THEOREM IdleLinksHealthy == Spec => []IdleLinkIsHealthy
  BY IInvHolds, PTL DEF IInv

\* The entry only ever takes a key the scooter has accepted and uses.
THEOREM PersistsOnlyAgreedKey == Spec => PersistOnlyAgreedKey
  <1>1. ASSUME IInv, [Next]_vars
        PROVE  entryKey' # entryKey /\ conn = "up" =>
                 scKey = entryKey' /\ scSess = entryKey'
    <2> SUFFICES ASSUME entryKey' # entryKey, conn = "up"
                 PROVE  scKey = entryKey' /\ scSess = entryKey'
      OBVIOUS
    <2>1. ClientConnect
      BY <1>1 DEF Next, vars, StartPoll, ClientRePair, ClientNotify, PollSucceeds,
                  PollFails, HandleError, ScooterStep, ScooterForgets, LinkDrop,
                  Restart, Settle, coordinatorVars
    <2>2. ConnectPost
      BY <1>1, <2>1, ConnectEffect DEF IInv, ClientConnect, ClientDoes
    <2>3. pc' = "polling" /\ entryKey' = appKey'
      BY <2>1 DEF ClientConnect, ClientDoes, PersistAppKey
    <2>4. scSess = appKey
      BY <1>1, <2>2, <2>3 DEF IInv, ConnectPost, AnswerInv
    <2> QED
      BY <1>1, <2>2, <2>3, <2>4 DEF IInv, ScooterInv, ConnectPost
  <1>2. IInv /\ [Next]_vars => [entryKey' # entryKey /\ conn = "up" =>
                 scKey = entryKey' /\ scSess = entryKey']_vars
    BY <1>1
  <1> QED
    BY IInvHolds, <1>2, PTL DEF Spec, PersistOnlyAgreedKey
-----------------------------------------------------------------------------
(* The power button is asked for only when the scooter does not hold the   *)
(* key it was offered.  What IInv says of the packets in flight is refined *)
(* stage by stage: while the client waits for the answer to its PING       *)
(* nothing on the link can change the scooter's mind.                      *)

Answers == Packets(toClient) \cup Packets(responses)

FreshLink == toScooter = <<>> /\ toClient = <<>> /\ responses = <<>>

OnlyInits ==
    /\ \A p \in Packets(toScooter) : p.cmd = "INIT"
    /\ \A p \in Answers : p.cmd = "INIT"

\* No PAIR has been sent yet, and a status of 0 is still true.
NotPairing ==
    /\ \A p \in Packets(toScooter) : p.cmd \in {"INIT", "PING"}
    /\ \A p \in Answers : p.cmd = "PING" /\ p.idx = 0 => scKey # appKey

HandshakeInv ==
    conn = "up" =>
        /\ pc = "subscribe" => FreshLink
        /\ pc = "init" => OnlyInits
        /\ pc = "ping" => NotPairing

Early == {"subscribe", "init", "ping"}
-----------------------------------------------------------------------------
LEMMA RequestSends ==
    ASSUME TypeOK, NEW cmd \in {"INIT", "PING", "PAIR", "READ"},
           NEW idx \in 0 .. Words - 1, NEW sess \in Sessions,
           NEW app \in Keys \cup {NoKey}, NEW bulk \in BOOLEAN, NEW stage,
           Request(cmd, idx, sess, app, bulk, stage), pc' \notin {"repair", "raised"}
    PROVE  /\ conn = "up" /\ pc' = stage
           /\ \A p \in Packets(toScooter') : p \in Packets(toScooter) \/ p.cmd = cmd
  <1> DEFINE pkt == [cmd |-> cmd, idx |-> idx, sess |-> sess, app |-> app,
                     bulk |-> bulk]
  <1>1. conn = "up" /\ toScooter' = Append(toScooter, pkt) /\ pc' = stage
    BY DEF Request, Raise
  <1>2. pkt \in Requests /\ toScooter \in Seq(Requests)
    BY DEF Requests, TypeOK, WireTypeOK
  <1>3. pkt.cmd = cmd
    OBVIOUS
  <1> HIDE DEF pkt
  <1>4. Packets(toScooter') \subseteq Packets(toScooter) \cup {pkt}
    BY <1>1, <1>2, AppendPackets
  <1> QED
    BY <1>1, <1>3, <1>4

\* Past the answer to PING, connect never returns to an early stage, and only
\* that answer leads to asking for the button.
LEMMA StagesAfter ==
    ASSUME ConnectStep
    PROVE  \/ EstablishOk \/ Subscribe \/ OnInit \/ OnPing \/ IgnoreUnsolicited
           \/ pc' \notin Early /\ (pc' = "pairing" => pc = "pairing")
  <1>1. ASSUME NEW sess, NEW stage, SendPair(sess, stage)
        PROVE  pc' \in {stage, "repair", "raised"}
    BY <1>1 DEF SendPair, Request, Raise
  <1>2. ASSUME NEW e, Raise(e) PROVE pc' \in {"repair", "raised"}
    BY <1>2 DEF Raise
  <1>3. CASE TransportFails \/ HandshakeTimeout \/ WalkTimeout
    BY <1>2, <1>3 DEF TransportFails, HandshakeTimeout, WalkTimeout, Early
  <1>4. CASE PairingAccepted
    BY <1>1, <1>4 DEF PairingAccepted, SwitchSession, Early
  <1>5. CASE PairingRetry
    BY <1>1, <1>5 DEF PairingRetry, Unaccepted, Early
  <1>6. CASE PairingExpires
    BY <1>2, <1>6 DEF PairingExpires, Early
  <1>7. CASE OnPair \/ VerifyTimeout
    BY <1>7 DEF OnPair, VerifyTimeout, SendRead, Request, Raise, Early
  <1>8. CASE OnSerial
    BY <1>8 DEF OnSerial, Connected, SendRead, Request, Raise, Early
  <1>9. CASE OnSerialWord
    BY <1>9 DEF OnSerialWord, Connected, SendRead, Request, Raise, Early
  <1> QED
    BY <1>3, <1>4, <1>5, <1>6, <1>7, <1>8, <1>9 DEF ConnectStep

LEMMA ConnectHandshake ==
    ASSUME IInv, HandshakeInv, ClientConnect
    PROVE  HandshakeInv' /\ (pc # "pairing" /\ pc' = "pairing" => scKey # appKey)
  <1>0. /\ TypeOK /\ ConnectStep /\ scKey' = scKey /\ appKey' = appKey
        /\ Packets(toClient') \subseteq Packets(toClient)
        /\ Packets(responses') \subseteq Packets(responses)
    <2>1. ConnectPost
      BY ConnectEffect DEF IInv, ClientConnect, ClientDoes
    <2> QED
      BY <2>1
         DEF IInv, ConnectPost, ClientConnect, ClientDoes, LinkOpened, scooterVars
  <1>1. Answers' \subseteq Answers
    BY <1>0 DEF Answers
  <1>2. /\ 0 \in 0 .. Words - 1 /\ appKey \in Keys \cup {NoKey}
        /\ NoKey \in Keys \cup {NoKey} /\ NameKey \in Sessions /\ BleKey \in Sessions
    BY <1>0, SizesAssumption DEF TypeOK, ClientTypeOK, Sessions
  <1>3. CASE EstablishOk
    <2>1. /\ toScooter' = <<>> /\ toClient' = <<>> /\ responses' = <<>>
          /\ pc' = "subscribe"
      BY <1>3 DEF EstablishOk, IInv, LinkInv
    <2> QED
      BY <2>1 DEF HandshakeInv, FreshLink
  <1>4. CASE Subscribe
    <2>1. /\ Request("INIT", 0, NameKey, NoKey, FALSE, "init") /\ conn' = conn
          /\ pc = "subscribe"
      BY <1>4 DEF Subscribe
    <2>2. CASE pc' \in {"repair", "raised"}
      BY <2>2 DEF HandshakeInv
    <2>3. CASE pc' \notin {"repair", "raised"}
      <3>1. /\ conn = "up" /\ pc' = "init"
            /\ \A p \in Packets(toScooter') : p \in Packets(toScooter) \/ p.cmd = "INIT"
        BY <1>0, <1>2, <2>1, <2>3, RequestSends
      <3>2. Packets(toScooter) = {} /\ Answers' = {}
        BY <1>1, <2>1, <3>1, EmptyPackets DEF HandshakeInv, FreshLink, Answers
      <3>3. OnlyInits'
        BY <3>1, <3>2 DEF OnlyInits
      <3> QED
        BY <3>1, <3>3 DEF HandshakeInv
    <2> QED
      BY <2>2, <2>3
  <1>5. CASE OnInit
    <2>1. pc = "init" /\ conn' = conn
      BY <1>5 DEF OnInit, ReceiveMatch
    <2>2. CASE pc' \in {"repair", "raised"}
      BY <2>2 DEF HandshakeInv
    <2>3. CASE pc' \notin {"repair", "raised"}
      <3>1. Request("PING", 0, BleKey, appKey, FALSE, "ping")
        BY <1>5, <2>3 DEF OnInit, Raise
      <3>2. /\ conn = "up" /\ pc' = "ping"
            /\ \A p \in Packets(toScooter') : p \in Packets(toScooter) \/ p.cmd = "PING"
        BY <1>0, <1>2, <2>3, <3>1, RequestSends
      <3>3. OnlyInits
        BY <2>1, <3>2 DEF HandshakeInv
      <3>4. NotPairing'
        BY <1>1, <3>2, <3>3 DEF OnlyInits, NotPairing
      <3> QED
        BY <3>2, <3>4 DEF HandshakeInv
    <2> QED
      BY <2>2, <2>3
  <1>6. CASE OnPing
    <2>1. /\ pc = "ping" /\ Answer \in Packets(responses) /\ Answer.cmd = "PING"
      BY <1>0, <1>6, ReceiveEffect
         DEF OnPing, ReceiveMatch, Matches, TypeOK
    <2>2. pc' \notin Early
      BY <1>6 DEF OnPing, SwitchSession, SendPair, Request, Raise, Early
    <2>3. ASSUME pc' = "pairing" PROVE scKey # appKey
      <3>1. conn = "up" /\ Answer.idx = 0
        BY <1>6, <2>3 DEF OnPing, SwitchSession, SendPair, Request, Raise
      <3> QED
        BY <2>1, <3>1 DEF HandshakeInv, NotPairing, Answers
    <2> QED
      BY <2>2, <2>3 DEF HandshakeInv, Early
  <1>7. CASE IgnoreUnsolicited
    <2>1. UNCHANGED <<conn, toScooter, pc>> /\ pc # "subscribe"
      BY <1>7 DEF IgnoreUnsolicited, wireVars
    <2>2. OnlyInits => OnlyInits'
      BY <1>1, <2>1 DEF OnlyInits
    <2>3. NotPairing => NotPairing'
      BY <1>0, <1>1, <2>1 DEF NotPairing
    <2> QED
      BY <2>1, <2>2, <2>3 DEF HandshakeInv
  <1>8. CASE pc' \notin Early /\ (pc' = "pairing" => pc = "pairing")
    BY <1>8 DEF HandshakeInv, Early
  <1> QED
    BY <1>0, <1>3, <1>4, <1>5, <1>6, <1>7, <1>8, StagesAfter

\* The scooter answers status 0 only to a key it does not hold, and learns a
\* key only from a PAIR.
LEMMA ScooterHandshake ==
    ASSUME IInv, HandshakeInv, ScooterStep
    PROVE  HandshakeInv'
  <1>1. /\ WireTypeOK /\ ScooterTypeOK /\ conn' = conn /\ pc' = pc
        /\ appKey' = appKey /\ responses' = responses /\ ScooterHandle
    BY DEF IInv, TypeOK, ScooterStep, ScooterHandle, clientVars
  <1>2. Take
    BY <1>1 DEF ScooterHandle, HandleUndecodable, HandleSilently, HandleInit,
                HandlePing, Misreport, HandlePairAccept, HandlePairRefuse, HandlePairClose,
                HandleRead, Serve
  <1>3. /\ Packets(toScooter') \subseteq Packets(toScooter)
        /\ Asked \in Packets(toScooter) /\ toScooter # <<>>
        /\ Asked \in Requests
    BY <1>1, <1>2, TakeEffect
  <1>4. ASSUME NEW cmd \in {"INIT", "PING", "PAIR", "READ_ACK"},
               NEW idx \in Nat, NEW full \in BOOLEAN, Reply(cmd, idx, full)
        PROVE  \A p \in Answers' : p \in Answers \/ (p.cmd = cmd /\ p.idx = idx)
    <2> DEFINE pkt == [cmd |-> cmd, idx |-> idx, sess |-> scSess, full |-> full]
    <2>1. toClient' = Append(toClient, pkt) /\ toClient \in Seq(Responses)
      BY <1>1, <1>4 DEF Reply, WireTypeOK
    <2>2. pkt \in Responses /\ pkt.cmd = cmd /\ pkt.idx = idx
      BY <1>1 DEF Responses, ScooterTypeOK
    <2> HIDE DEF pkt
    <2>3. Packets(toClient') \subseteq Packets(toClient) \cup {pkt}
      BY <2>1, <2>2, AppendPackets
    <2> QED
      BY <1>1, <2>2, <2>3 DEF Answers
  <1> SUFFICES ASSUME conn = "up"
               PROVE  /\ pc # "subscribe"
                      /\ pc = "init" => OnlyInits'
                      /\ pc = "ping" => NotPairing'
    BY <1>1 DEF HandshakeInv
  <1>5. pc # "subscribe"
    BY <1>3 DEF HandshakeInv, FreshLink
  <1>6. ASSUME pc = "init" PROVE OnlyInits'
    <2>1. OnlyInits /\ Asked.cmd = "INIT"
      BY <1>3, <1>6 DEF HandshakeInv, OnlyInits
    <2>2. \A p \in Answers' : p \in Answers \/ p.cmd = "INIT"
      <3>1. CASE HandleUndecodable \/ HandleSilently
        BY <1>1, <3>1 DEF HandleUndecodable, HandleSilently, Answers
      <3>2. CASE HandleInit
        BY <1>4, <3>2 DEF HandleInit
      <3> QED
        BY <1>1, <2>1, <3>1, <3>2
           DEF ScooterHandle, HandlePing, Misreport, HandlePairAccept, HandlePairRefuse,
               HandlePairClose, HandleRead, Serve
    <2> QED
      BY <1>3, <2>1, <2>2 DEF OnlyInits
  <1>7. ASSUME pc = "ping" PROVE NotPairing'
    <2>1. NotPairing /\ Asked.cmd \in {"INIT", "PING"}
      BY <1>3, <1>7 DEF HandshakeInv, NotPairing
    <2>2. /\ scKey' = scKey
          /\ \A p \in Answers' : \/ p \in Answers
                                 \/ p.cmd = "PING" /\ p.idx = 0 => scKey # appKey
      <3>1. CASE HandleUndecodable \/ HandleSilently
        BY <1>1, <3>1 DEF HandleUndecodable, HandleSilently, Answers, scooterVars
      <3>2. CASE HandleInit
        BY <1>4, <3>2 DEF HandleInit
      <3>3. CASE HandlePing
        <4>1. Asked.app = appKey
          BY <1>3, <3>3 DEF HandlePing, Misreport, Serve, IInv, RequestInv, Honest
        <4>2. /\ scKey' = scKey
              /\ Reply("PING", 1, TRUE) \/ (Reply("PING", 0, TRUE) /\ scKey # appKey)
          BY <3>3, <4>1 DEF HandlePing, Misreport
        <4>3. CASE Reply("PING", 1, TRUE)
          <5>1. \A p \in Answers' : p \in Answers \/ (p.cmd = "PING" /\ p.idx = 1)
            BY <1>4, <4>3
          <5> QED
            BY <4>2, <5>1
        <4>4. CASE Reply("PING", 0, TRUE) /\ scKey # appKey
          <5>1. \A p \in Answers' : p \in Answers \/ (p.cmd = "PING" /\ p.idx = 0)
            BY <1>4, <4>4
          <5> QED
            BY <4>2, <4>4, <5>1
        <4> QED
          BY <4>2, <4>3, <4>4
      <3> QED
        BY <1>1, <2>1, <3>1, <3>2, <3>3
           DEF ScooterHandle, HandlePairAccept, HandlePairRefuse, HandlePairClose,
               HandleRead, Serve
    <2> QED
      BY <1>1, <1>3, <2>1, <2>2 DEF NotPairing
  <1> QED
    BY <1>5, <1>6, <1>7

LEMMA NotifyHandshake ==
    ASSUME IInv, HandshakeInv, ClientNotify
    PROVE  HandshakeInv'
  <1>1. /\ toClient \in Seq(Responses) /\ responses \in Seq(Responses)
        /\ toClient # <<>> /\ toClient' = Tail(toClient)
        /\ responses' \in {Append(responses, Head(toClient)), responses}
        /\ UNCHANGED <<conn, toScooter, pc, appKey, scKey>>
    BY DEF IInv, TypeOK, WireTypeOK, ClientTypeOK, ClientNotify, OnNotify, scooterVars
  <1>2. /\ Head(toClient) \in Responses /\ Head(toClient) \in Packets(toClient)
        /\ Packets(Tail(toClient)) \subseteq Packets(toClient)
    BY <1>1, TailPackets
  <1>3. Packets(responses') \subseteq Packets(responses) \cup {Head(toClient)}
    BY <1>1, <1>2, AppendPackets
  <1>4. Answers' \subseteq Answers
    BY <1>1, <1>2, <1>3 DEF Answers
  <1>5. (OnlyInits => OnlyInits') /\ (NotPairing => NotPairing')
    BY <1>1, <1>4 DEF OnlyInits, NotPairing
  <1> QED
    BY <1>1, <1>5 DEF HandshakeInv, FreshLink

LEMMA NextHandshake ==
    ASSUME IInv, HandshakeInv, [Next]_vars
    PROVE  HandshakeInv' /\ (pc # "pairing" /\ pc' = "pairing" => scKey # appKey)
  <1>1. CASE ClientConnect
    BY <1>1, ConnectHandshake
  <1>2. CASE ScooterStep
    BY <1>2, ScooterHandshake DEF ScooterStep, clientVars
  <1>3. CASE ClientNotify
    BY <1>3, NotifyHandshake DEF ClientNotify, OnNotify
  <1>4. CASE StartPoll \/ PollSucceeds \/ PollFails
    BY <1>4 DEF StartPoll, OpenTransport, PollSucceeds, PollFails, HandshakeInv
  <1>5. CASE ClientRePair \/ HandleError \/ LinkDrop \/ Restart
    <2>1. conn' = "down" /\ (pc' = pc \/ pc' # "pairing")
      BY <1>5 DEF ClientRePair, RePair, OpenTransport, HandleError, LinkDrop, Restart,
                  Unlink, clientVars
    <2> QED
      BY <2>1 DEF HandshakeInv
  <1>6. CASE ScooterForgets
    <2>1. conn = "down" /\ conn' = conn /\ pc' = pc
      BY <1>6 DEF ScooterForgets, Forget, wireVars, clientVars
    <2> QED
      BY <2>1 DEF HandshakeInv
  <1>7. CASE Settle \/ UNCHANGED vars
    <2>1. UNCHANGED <<wireVars, scooterVars, clientVars>>
      BY <1>7 DEF Settle, vars
    <2> QED
      BY <2>1 DEF wireVars, scooterVars, clientVars, HandshakeInv, FreshLink, OnlyInits,
                  NotPairing, Answers
  <1> QED
    BY <1>1, <1>2, <1>3, <1>4, <1>5, <1>6, <1>7 DEF Next

\* The power button is asked for only when the scooter does not hold the key
\* the client offered, whatever is lost or late ("restarts and reconnects do
\* not ask again").
THEOREM AsksOnlyWhenUnknown == Spec => AskedOnlyWhenUnknown
  <1>1. Init => HandshakeInv
    BY DEF Init, WireInit, HandshakeInv
  <1>2. IInv /\ HandshakeInv /\ [Next]_vars =>
          /\ HandshakeInv'
          /\ [pc # "pairing" /\ pc' = "pairing" => scKey # appKey]_vars
    BY NextHandshake
  <1> QED
    BY <1>1, <1>2, IInvHolds, PTL DEF Spec, AskedOnlyWhenUnknown
-----------------------------------------------------------------------------
(* Pairing implements PairedLink.  A link may drop while the last answer   *)
(* of the handshake is in the queue: connect still returns, and the entry  *)
(* takes a key, so that the refinement needs AnswerInv of the queue        *)
(* whether or not the link is open.                                        *)

QueueInv == \A p \in Packets(responses) : p.cmd = "READ_ACK" => scSess = appKey

LEMMA QueueInit == Init => QueueInv
  BY EmptyPackets DEF Init, QueueInv

LEMMA QueueStep == ASSUME IInv, QueueInv, [Next]_vars PROVE QueueInv'
  <1> USE DEF clientVars, scooterVars, coordinatorVars
  <1>1. CASE /\ responses' \in {responses, <<>>}
             /\ responses' = <<>> \/ UNCHANGED <<appKey, scSess>>
    BY <1>1, EmptyPackets DEF QueueInv
  <1>2. CASE ClientConnect
    <2>1. ConnectPost
      BY <1>2, ConnectEffect DEF IInv, ClientConnect, ClientDoes
    <2>2. CASE conn = "down" /\ conn' = "up"
      BY <2>1, <2>2, EmptyPackets DEF ConnectPost, QueueInv
    <2>3. CASE ~(conn = "down" /\ conn' = "up")
      BY <1>2, <2>1, <2>3 DEF ClientConnect, ClientDoes, ConnectPost, QueueInv
    <2> QED
      BY <2>2, <2>3
  <1>3. CASE ClientNotify
    <2>1. /\ toClient # <<>> /\ conn = "up" /\ UNCHANGED <<appKey, scSess>>
          /\ \/ responses' = responses
             \/ responses' = Append(responses, Head(toClient))
      BY <1>3 DEF ClientNotify, OnNotify, IInv, LinkInv, TypeOK, WireTypeOK
    <2>2. CASE responses' = responses
      BY <2>1, <2>2 DEF QueueInv
    <2>3. CASE responses' = Append(responses, Head(toClient))
      <3>1. toClient \in Seq(Responses) /\ responses \in Seq(Responses)
        BY DEF IInv, TypeOK, WireTypeOK, ClientTypeOK
      <3>2. Head(toClient) \in Responses /\ Head(toClient) \in Packets(toClient)
        BY <2>1, <3>1, TailPackets
      <3>3. Packets(responses') \subseteq Packets(responses) \cup Packets(toClient)
        BY <2>3, <3>1, <3>2, AppendPackets
      <3> QED
        BY <2>1, <3>3 DEF IInv, AnswerInv, QueueInv
    <2> QED
      BY <2>1, <2>2, <2>3
  <1>4. CASE ScooterStep
    BY <1>4, ScooterEffect DEF ScooterStep, ScooterPost, QueueInv
  <1>5. CASE StartPoll
    BY <1>1, <1>5 DEF StartPoll, OpenTransport
  <1>6. CASE ClientRePair
    BY <1>1, <1>6 DEF ClientRePair, RePair, OpenTransport
  <1>7. CASE PollSucceeds \/ PollFails \/ HandleError \/ LinkDrop \/ Settle \/ UNCHANGED vars
    BY <1>1, <1>7 DEF PollSucceeds, PollFails, HandleError, LinkDrop, Settle, vars
  <1>8. CASE ScooterForgets
    BY <1>1, <1>8 DEF ScooterForgets, Forget
  <1>9. CASE Restart
    BY <1>1, <1>9 DEF Restart
  <1> QED
    BY <1>2, <1>3, <1>4, <1>5, <1>6, <1>7, <1>8, <1>9 DEF Next

\* connect runs only while no link is in use.
LEMMA ConnectIsApart == ASSUME ConnectStep PROVE pc \notin {"polling", "idle"}
  BY DEF ConnectStep, EstablishOk, TransportFails, Subscribe, ReceiveMatch, OnInit, OnPing,
         PairingAccepted, Unaccepted, PairingRetry, PairingExpires, OnPair, OnSerial,
         OnSerialWord, IgnoreUnsolicited, HandshakeTimeout, VerifyTimeout, WalkTimeout

\* What a step of the scooter means for the keys.
LEMMA ScooterMoves ==
    ASSUME IInv, ScooterHandle
    PROVE  \/ UNCHANGED <<scKey, SessionKey>>
           \/ SessionKey = NoKey /\ scKey' = scKey /\ scKey # NoKey /\ SessionKey' = scKey
           \/ SessionKey = NoKey /\ scKey' \in Keys /\ SessionKey' = scKey'
  <1>1. /\ NameKey \notin Keys /\ BleKey \notin Keys /\ NoKey \notin Keys /\ appKey \in Keys
    BY KeysAssumption DEF IInv, TypeOK, ClientTypeOK
  <1>2. ScooterPost
    BY ScooterEffect
  <1>3. CASE HandleUndecodable \/ HandleSilently \/ HandlePairRefuse \/ HandlePairClose \/ HandleRead
    BY <1>3 DEF HandleUndecodable, HandleSilently, HandlePairRefuse, HandlePairClose,
                HandleRead, scooterVars, SessionKey
  <1>4. ASSUME NEW c, Serve(c) PROVE Asked.cmd = c /\ Asked.sess = scSess /\ Honest(Asked)
    <2>1. Asked \in Packets(toScooter)
      BY <1>4, TakeEffect DEF Serve, IInv, TypeOK
    <2> QED
      BY <1>4, <2>1 DEF Serve, IInv, RequestInv
  <1>5. CASE HandleInit
    <2>1. Serve("INIT") /\ scSess' = BleKey /\ scKey' = scKey
      BY <1>5 DEF HandleInit
    <2>2. scSess = NameKey
      BY <1>4, <2>1 DEF Honest
    <2> QED
      BY <1>1, <2>1, <2>2 DEF SessionKey
  <1>6. CASE HandlePing
    <2>1. /\ Serve("PING") /\ scKey' = scKey
          /\ scSess' = scSess \/ (scSess' = Asked.app /\ Asked.app = scKey)
      BY <1>6 DEF HandlePing, Misreport
    <2>2. Asked.app = appKey
      BY <1>4, <2>1 DEF Honest
    <2>3. scSess = appKey => scSess' = appKey
      BY <1>2 DEF ScooterPost
    <2>4. scSess \in Keys => scSess = appKey
      BY <1>1, <1>2 DEF ScooterPost, IInv, ScooterInv
    <2> QED
      BY <1>1, <2>1, <2>2, <2>3, <2>4 DEF SessionKey
  <1>7. CASE HandlePairAccept
    <2>1. scSess = BleKey /\ scKey' = scSess' /\ scOffer # NoKey /\ scKey' = scOffer
      BY <1>7 DEF HandlePairAccept
    <2>2. scOffer \in Keys
      BY <2>1 DEF IInv, TypeOK, ScooterTypeOK
    <2> QED
      BY <1>1, <2>1, <2>2 DEF SessionKey
  <1> QED
    BY <1>3, <1>5, <1>6, <1>7 DEF ScooterHandle

LEMMA PairedStep ==
    ASSUME IInv, QueueInv, [Next]_vars
    PROVE  [Paired!Next]_(Paired!vars)
  <1> USE DEF clientVars, scooterVars, coordinatorVars, wireVars
  <1>0. /\ NoKey \notin Keys /\ NameKey \notin Keys /\ appKey \in Keys
        /\ conn \in {"up", "down"} /\ scKey \in Keys \cup {NoKey}
    BY KeysAssumption DEF IInv, TypeOK, WireTypeOK, ClientTypeOK, ScooterTypeOK
  <1>1. CASE UNCHANGED <<entryKey, scKey, SessionKey, InUse>>
    BY <1>1 DEF Paired!vars
  <1>2. CASE UNCHANGED <<entryKey, scKey, SessionKey>> /\ ~InUse'
    <2>1. CASE InUse
      BY <1>2, <2>1 DEF Paired!Next, Paired!Drop
    <2>2. CASE ~InUse
      <3>1. InUse' = InUse
        BY <1>2, <2>2 DEF InUse
      <3> QED
        BY <1>1, <1>2, <3>1
    <2> QED
      BY <2>1, <2>2
  <1>3. CASE ClientConnect
    <2>1. ConnectPost /\ ~InUse
      BY <1>3, ConnectEffect, ConnectIsApart DEF IInv, ClientConnect, ClientDoes, InUse
    <2>2. /\ IF conn = "down" /\ conn' = "up" THEN LinkOpened ELSE UNCHANGED scooterVars
          /\ entryKey' = IF pc' = "polling" THEN appKey ELSE entryKey
      BY <1>3, <2>1 DEF ClientConnect, ClientDoes, PersistAppKey, ConnectPost
    <2>3. CASE pc' = "polling"
      <3>1. scSess = appKey /\ conn' = conn /\ UNCHANGED <<scKey, scSess>>
        BY <2>1, <2>2, <2>3 DEF ConnectPost, QueueInv
      <3>2. SessionKey = appKey /\ SessionKey' = appKey /\ entryKey' = appKey
        BY <1>0, <2>2, <2>3, <3>1 DEF SessionKey
      <3>3. InUse' => scKey = appKey
        BY <3>1 DEF InUse, IInv, ScooterInv
      <3>4. Paired!Agree
        <4>1. InUse' \in BOOLEAN
          BY DEF InUse
        <4>2. InUse' => SessionKey = scKey
          BY <3>2, <3>3
        <4>3. SessionKey # NoKey /\ entryKey' = SessionKey /\ UNCHANGED <<scKey, SessionKey>>
          BY <1>0, <3>1, <3>2
        <4> QED
          BY <2>1, <4>1, <4>2, <4>3, Zenon DEF Paired!Agree
      <3> QED
        BY <3>4 DEF Paired!Next
    <2>4. CASE pc' # "polling"
      <3>1. ~InUse' /\ entryKey' = entryKey /\ scKey' = scKey
        BY <2>1, <2>2, <2>4 DEF ConnectPost, InUse, LinkOpened
      <3>2. SessionKey' \in {SessionKey, NoKey}
        BY <1>0, <2>2 DEF LinkOpened, SessionKey
      <3>3. InUse' = InUse
        BY <2>1, <3>1 DEF InUse
      <3> QED
        BY <2>1, <3>1, <3>2, <3>3 DEF Paired!Next, Paired!Open, Paired!vars
    <2> QED
      BY <2>3, <2>4
  <1>4. CASE ScooterStep
    <2>1. /\ UNCHANGED <<entryKey, InUse>>
      BY <1>4 DEF ScooterStep, ScooterHandle, InUse
    <2>2. CASE UNCHANGED <<scKey, SessionKey>>
      BY <1>1, <2>1, <2>2
    <2>3. CASE SessionKey = NoKey /\ scKey' = scKey /\ scKey # NoKey /\ SessionKey' = scKey
      BY <2>1, <2>3 DEF Paired!Next, Paired!Admit
    <2>4. CASE SessionKey = NoKey /\ scKey' \in Keys /\ SessionKey' = scKey'
      BY <2>1, <2>4 DEF Paired!Next, Paired!Pair
    <2> QED
      BY <1>4, <2>2, <2>3, <2>4, ScooterMoves DEF ScooterStep
  <1>5. CASE StartPoll
    BY <1>1, <1>2, <1>5 DEF StartPoll, OpenTransport, InUse, SessionKey
  <1>6. CASE ClientRePair
    BY <1>2, <1>6 DEF ClientRePair, RePair, Unlink, InUse, SessionKey
  <1>7. CASE ClientNotify \/ Settle \/ UNCHANGED vars
    BY <1>1, <1>7 DEF ClientNotify, OnNotify, Settle, vars, InUse, SessionKey
  <1>8. CASE PollSucceeds
    BY <1>1, <1>8 DEF PollSucceeds, InUse, SessionKey
  <1>9. CASE PollFails
    BY <1>2, <1>9 DEF PollFails, InUse, SessionKey
  <1>10. CASE HandleError \/ LinkDrop \/ Restart
    BY <1>2, <1>10 DEF HandleError, LinkDrop, Restart, Unlink, InUse, SessionKey
  <1>11. CASE ScooterForgets
    <2>1. PICK k \in FreshKeys \cup {NoKey} : Forget(k)
      BY <1>11 DEF ScooterForgets
    <2>2. /\ ~InUse /\ UNCHANGED <<entryKey, SessionKey, InUse>>
          /\ scKey' \in Keys \cup {NoKey}
      BY <1>11, <2>1 DEF ScooterForgets, Forget, FreshKeys, InUse, SessionKey
    <2> QED
      BY <2>2 DEF Paired!Next, Paired!Reset
  <1> QED
    BY <1>3, <1>4, <1>5, <1>6, <1>7, <1>8, <1>9, <1>10, <1>11 DEF Next

\* Whatever drops, is late, restarts or is reset: a link is used only under one
\* key that the scooter, the session and the entry agree on, the entry takes a
\* key only from a session, and none of them changes while the link is used.
THEOREM PairingImplementsPairedLink == Spec => PairedSpec
  <1>1. Init => Paired!Init
    <2> SUFFICES ASSUME Init PROVE Paired!Init
      OBVIOUS
    <2>1. scSess = NameKey /\ NameKey \notin Keys
      BY KeysAssumption DEF Init, ScooterInit
    <2> QED
      BY <2>1 DEF Init, ScooterInit, WireInit, Paired!Init, SessionKey, InUse
  <1>2. IInv /\ QueueInv /\ [Next]_vars => QueueInv' /\ [Paired!Next]_(Paired!vars)
    BY QueueStep, PairedStep
  <1> QED
    BY <1>1, <1>2, QueueInit, IInvHolds, PTL DEF Spec, PairedSpec, Paired!Spec
=============================================================================
