-------------------------- MODULE LifecycleProofs ---------------------------
(***************************************************************************)
(* Machine-checked safety of Lifecycle, for any number of links and        *)
(* setups, any interleaving of polls and unloads and any failure of the    *)
(* Bluetooth stack: no link is lost track of but one that it failed on, a  *)
(* failed link is not read again, and an unload leaves only what failed or *)
(* was opened after it.                                                    *)
(***************************************************************************)
EXTENDS Lifecycle, TLAPS

\* A client that is connecting or disconnecting holds no open link, so setting
\* _client forgets none.
EstablishInv ==
    \A c \in Clients :
        task[c] \in {"establish", "dropping", "repairing"} => ~Connected(c)

IInv == TypeOK /\ EstablishInv /\ NoOrphanLinks

\* Between two polls, too, an open link that a client holds is a verified one.
VerifiedInv ==
    \A c \in Clients :
        task[c] \in {"idle", "polling"} /\ Connected(c) => held[c] \in verified

\* After its unload's disconnect a client holds only links it opened later, and
\* that disconnect is closing a link of the entry's own client.
GoneInv ==
    /\ \A c \in Clients : Unlinked(c) /\ Connected(c) => held[c] \in late
    /\ unlinking # NoLink => open[unlinking] \in {0, current}
-----------------------------------------------------------------------------
LEMMA NextType == ASSUME TypeOK, [Next]_vars PROVE TypeOK'
  <1> USE LinksAssumption, SetupsAssumption DEF TypeOK, Connected, GoTo, LetGo, Leaked, history
  <1>0. /\ 0 \notin Clients /\ current \in Clients
        /\ {"idle", "establish", "subscribe", "handshake", "polling", "dropping",
            "repairing"} = Stages
    BY DEF Clients, Stages
  <1>1. ASSUME NEW c \in Clients, StartPoll(c) PROVE TypeOK'
    BY <1>0, <1>1 DEF StartPoll
  <1>2. ASSUME NEW c \in Clients, Established(c) PROVE TypeOK'
    BY <1>0, <1>2 DEF Established
  <1>3. ASSUME NEW c \in Clients, EstablishFails(c) \/ SubscribeFails(c) PROVE TypeOK'
    BY <1>0, <1>3 DEF EstablishFails, SubscribeFails
  <1>4. ASSUME NEW c \in Clients, Subscribed(c) \/ HandshakeOk(c) \/ PollOk(c)
        PROVE  TypeOK'
    BY <1>0, <1>4 DEF Subscribed, HandshakeOk, PollOk
  <1>5. ASSUME NEW c \in Clients, Fails(c) \/ RePairs(c) PROVE TypeOK'
    <2>1. PICK stage \in {"dropping", "repairing"} : Disconnect(c, stage)
      BY <1>5 DEF Fails, RePairs
    <2>2. task[c] \in {"subscribe", "handshake", "polling"} /\ closing[c] = NoLink
      BY <1>0, <1>5 DEF Fails, RePairs
    <2> QED
      BY <1>0, <2>1, <2>2 DEF Disconnect, Released, After
  <1>6. ASSUME NEW c \in Clients, Disconnected(c) PROVE TypeOK'
    BY <1>0, <1>6 DEF Disconnected, LinkEnds, Closed, After
  <1>7. ASSUME NEW l \in Links, LinkLost(l) PROVE TypeOK'
    BY <1>0, <1>7 DEF LinkLost, Closed
  <1>8. CASE UnloadBegins \/ UnloadDisconnects \/ Unloaded
    BY <1>0, <1>8 DEF UnloadBegins, UnloadDisconnects, Unloaded, Released, LinkEnds, Closed
  <1>9. CASE Setup
    BY <1>0, <1>9 DEF Setup, Clients
  <1>10. CASE UNCHANGED vars
    BY <1>10 DEF vars
  <1> QED
    BY <1>1, <1>2, <1>3, <1>4, <1>5, <1>6, <1>7, <1>8, <1>9, <1>10 DEF Next, PollStep

\* The variables keep their types, a link is being closed exactly in the stages
\* that close one, and the unload closes one exactly while it disconnects: also
\* when start_notify fails on an open link and the entry is unloaded mid-poll.
THEOREM LifecycleTypeCorrect == Spec => []TypeOK
  <1>1. Init => TypeOK
    BY LinksAssumption, SetupsAssumption DEF Init, TypeOK, Stages, Clients
  <1>2. TypeOK /\ [Next]_vars => TypeOK'
    BY NextType
  <1> QED
    BY <1>1, <1>2, PTL DEF Spec
-----------------------------------------------------------------------------
LEMMA InitIInv == ASSUME Init PROVE IInv
  BY LinksAssumption, SetupsAssumption
     DEF Init, IInv, TypeOK, EstablishInv, NoOrphanLinks, Connected, Stages, Clients

LEMMA NextIInv == ASSUME IInv, [Next]_vars PROVE IInv'
  <1> USE LinksAssumption, SetupsAssumption
      DEF IInv, TypeOK, EstablishInv, NoOrphanLinks, Connected, GoTo, LetGo, Leaked, history
  <1>0. /\ 0 \notin Clients /\ current \in Clients
        /\ {"idle", "establish", "subscribe", "handshake", "polling", "dropping",
            "repairing"} = Stages
    BY DEF Clients, Stages
  <1>1. ASSUME NEW c \in Clients, StartPoll(c) PROVE IInv'
    BY <1>0, <1>1 DEF StartPoll
  <1>2. ASSUME NEW c \in Clients, Established(c) PROVE IInv'
    <2>1. PICK l \in Links :
            /\ open[l] = 0
            /\ \A d \in Clients : held[d] # l /\ closing[d] # l
            /\ unlinking # l
            /\ open' = [open EXCEPT ![l] = c]
            /\ held' = [held EXCEPT ![c] = l]
            /\ late' \in {late, late \cup {l}}
      BY <1>2 DEF Established
    <2>2. /\ task[c] = "establish" /\ task' = [task EXCEPT ![c] = "subscribe"]
          /\ UNCHANGED <<entry, current, closing, unlinking, leaked, verified>>
      BY <1>2 DEF Established
    <2>3. TypeOK'
      BY <1>0, <2>1, <2>2
    <2>4. EstablishInv'
      BY <1>0, <2>1, <2>2
    <2>5. NoOrphanLinks'
      BY <1>0, <2>1, <2>2
    <2> QED
      BY <2>3, <2>4, <2>5
  <1>3. ASSUME NEW c \in Clients, EstablishFails(c) \/ SubscribeFails(c) PROVE IInv'
    BY <1>0, <1>3 DEF EstablishFails, SubscribeFails
  <1>4. ASSUME NEW c \in Clients, Subscribed(c) \/ HandshakeOk(c) \/ PollOk(c)
        PROVE  IInv'
    BY <1>0, <1>4 DEF Subscribed, HandshakeOk, PollOk
  <1>5. ASSUME NEW c \in Clients, Fails(c) \/ RePairs(c) PROVE IInv'
    <2>1. PICK stage \in {"dropping", "repairing"} : Disconnect(c, stage)
      BY <1>5 DEF Fails, RePairs
    <2>2. task[c] \in {"subscribe", "handshake", "polling"} /\ closing[c] = NoLink
      BY <1>0, <1>5 DEF Fails, RePairs
    <2>3. TypeOK'
      BY <1>0, <2>1, <2>2 DEF Disconnect, Released, After
    <2>4. EstablishInv'
      BY <1>0, <2>1, <2>2 DEF Disconnect, Released, After
    <2>5. NoOrphanLinks'
      BY <1>0, <2>1, <2>2 DEF Disconnect, Released, After
    <2> QED
      BY <2>3, <2>4, <2>5
  <1>6. ASSUME NEW c \in Clients, Disconnected(c) PROVE IInv'
    <2>1. TypeOK'
      BY <1>0, <1>6 DEF Disconnected, LinkEnds, Closed, After
    <2>2. EstablishInv'
      BY <1>0, <1>6 DEF Disconnected, LinkEnds, Closed, After
    <2>3. NoOrphanLinks'
      BY <1>0, <1>6 DEF Disconnected, LinkEnds, Closed
    <2> QED
      BY <2>1, <2>2, <2>3
  <1>7. ASSUME NEW l \in Links, LinkLost(l) PROVE IInv'
    BY <1>0, <1>7 DEF LinkLost, Closed
  <1>8. CASE UnloadBegins
    BY <1>0, <1>8 DEF UnloadBegins
  <1>9. CASE UnloadDisconnects
    BY <1>0, <1>9 DEF UnloadDisconnects, Released
  <1>10. CASE Unloaded
    BY <1>0, <1>10 DEF Unloaded, LinkEnds, Closed
  <1>11. CASE Setup
    BY <1>0, <1>11 DEF Setup, Clients
  <1>12. CASE UNCHANGED vars
    BY <1>12 DEF vars
  <1> QED
    BY <1>1, <1>2, <1>3, <1>4, <1>5, <1>6, <1>7, <1>8, <1>9, <1>10, <1>11, <1>12
       DEF Next, PollStep

\* Every open link that neither start_notify nor disconnect has failed on is in
\* the hands of its client or of a task that is closing it.
THEOREM NoLinkIsOrphaned == Spec => []NoOrphanLinks
  <1>1. IInv /\ [Next]_vars => IInv'
    BY NextIInv
  <1> QED
    BY InitIInv, <1>1, PTL DEF Spec, IInv
-----------------------------------------------------------------------------
LEMMA InitVerified == ASSUME Init PROVE VerifiedInv
  BY DEF Init, VerifiedInv, Connected

LEMMA NextVerified ==
    ASSUME IInv, VerifiedInv, [Next]_vars
    PROVE  VerifiedInv'
  <1> USE LinksAssumption, SetupsAssumption
      DEF IInv, TypeOK, VerifiedInv, Connected, GoTo, LetGo, Leaked, history
  <1>0. 0 \notin Clients
    BY DEF Clients
  <1>1. ASSUME NEW c \in Clients, StartPoll(c) PROVE VerifiedInv'
    BY <1>0, <1>1 DEF StartPoll
  <1>2. ASSUME NEW c \in Clients, Established(c) PROVE VerifiedInv'
    BY <1>0, <1>2 DEF Established
  <1>3. ASSUME NEW c \in Clients, EstablishFails(c) \/ SubscribeFails(c) PROVE VerifiedInv'
    BY <1>0, <1>3 DEF EstablishFails, SubscribeFails
  <1>4. ASSUME NEW c \in Clients, Subscribed(c) \/ HandshakeOk(c) \/ PollOk(c)
        PROVE  VerifiedInv'
    BY <1>0, <1>4 DEF Subscribed, HandshakeOk, PollOk
  <1>5. ASSUME NEW c \in Clients, Fails(c) \/ RePairs(c) PROVE VerifiedInv'
    <2>1. PICK stage \in {"dropping", "repairing"} : Disconnect(c, stage)
      BY <1>5 DEF Fails, RePairs
    <2> QED
      BY <1>0, <2>1 DEF Disconnect, Released, After
  <1>6. ASSUME NEW c \in Clients, Disconnected(c) PROVE VerifiedInv'
    BY <1>0, <1>6 DEF Disconnected, LinkEnds, Closed, After, EstablishInv
  <1>7. ASSUME NEW l \in Links, LinkLost(l) PROVE VerifiedInv'
    BY <1>0, <1>7 DEF LinkLost, Closed
  <1>8. CASE UnloadBegins \/ UnloadDisconnects
    BY <1>0, <1>8 DEF UnloadBegins, UnloadDisconnects
  <1>9. CASE Unloaded
    BY <1>0, <1>9 DEF Unloaded, LinkEnds, Closed
  <1>10. CASE Setup
    BY <1>10 DEF Setup
  <1>11. CASE UNCHANGED vars
    BY <1>11 DEF vars
  <1> QED
    BY <1>1, <1>2, <1>3, <1>4, <1>5, <1>6, <1>7, <1>8, <1>9, <1>10, <1>11
       DEF Next, PollStep

\* Every poll reads over a link whose handshake succeeded and on which nothing
\* has failed since, whether failed links could be closed or not.
THEOREM OnlyVerifiedLinksAreRead == Spec => []ReadsVerifiedLink
  <1>1. Init => IInv /\ VerifiedInv
    BY InitIInv, InitVerified
  <1>2. (IInv /\ VerifiedInv) /\ [Next]_vars => (IInv /\ VerifiedInv)'
    BY NextIInv, NextVerified
  <1>3. VerifiedInv => ReadsVerifiedLink
    BY DEF VerifiedInv, ReadsVerifiedLink
  <1> QED
    BY <1>1, <1>2, <1>3, PTL DEF Spec
-----------------------------------------------------------------------------
LEMMA InitGone == ASSUME Init PROVE GoneInv
  BY LinksAssumption, SetupsAssumption DEF Init, GoneInv, Connected

LEMMA NextGone ==
    ASSUME IInv, GoneInv, [Next]_vars
    PROVE  GoneInv'
  <1> USE LinksAssumption, SetupsAssumption
      DEF IInv, TypeOK, GoneInv, Unlinked, Connected, GoTo, LetGo, Leaked, history
  <1>0. 0 \notin Clients /\ current \in Clients
    BY DEF Clients
  <1>1. ASSUME NEW c \in Clients, StartPoll(c) PROVE GoneInv'
    BY <1>0, <1>1 DEF StartPoll
  <1>2. ASSUME NEW c \in Clients, Established(c) PROVE GoneInv'
    BY <1>0, <1>2 DEF Established
  <1>3. ASSUME NEW c \in Clients, EstablishFails(c) \/ SubscribeFails(c) PROVE GoneInv'
    BY <1>0, <1>3 DEF EstablishFails, SubscribeFails
  <1>4. ASSUME NEW c \in Clients, Subscribed(c) \/ HandshakeOk(c) \/ PollOk(c)
        PROVE  GoneInv'
    BY <1>0, <1>4 DEF Subscribed, HandshakeOk, PollOk
  <1>5. ASSUME NEW c \in Clients, Fails(c) \/ RePairs(c) PROVE GoneInv'
    <2>1. PICK stage \in {"dropping", "repairing"} : Disconnect(c, stage)
      BY <1>5 DEF Fails, RePairs
    <2> QED
      BY <1>0, <2>1 DEF Disconnect
  <1>6. ASSUME NEW c \in Clients, Disconnected(c) PROVE GoneInv'
    BY <1>0, <1>6 DEF Disconnected, LinkEnds, Closed
  <1>7. ASSUME NEW l \in Links, LinkLost(l) PROVE GoneInv'
    BY <1>0, <1>7 DEF LinkLost, Closed
  <1>8. CASE UnloadBegins
    BY <1>0, <1>8 DEF UnloadBegins
  <1>9. CASE UnloadDisconnects
    BY <1>0, <1>9 DEF UnloadDisconnects, Released
  <1>10. CASE Unloaded
    BY <1>0, <1>10 DEF Unloaded, LinkEnds, Closed
  <1>11. CASE Setup
    <2>1. unlinking = NoLink
      BY <1>11 DEF Setup
    <2> QED
      BY <1>0, <1>11, <2>1 DEF Setup
  <1>12. CASE UNCHANGED vars
    BY <1>12 DEF vars
  <1> QED
    BY <1>1, <1>2, <1>3, <1>4, <1>5, <1>6, <1>7, <1>8, <1>9, <1>10, <1>11, <1>12
       DEF Next, PollStep

LEMMA GoneIsClosed ==
    ASSUME IInv, GoneInv PROVE UnloadedIsClosed
  <1> SUFFICES ASSUME NEW c \in Clients, c < current \/ entry = "unloaded",
                      NEW l \in Links, open[l] = c,
                      l # closing[c], l \notin leaked, l \notin late
               PROVE  FALSE
    BY DEF UnloadedIsClosed
  <1>1. Unlinked(c) /\ current \in Clients /\ c # 0
    BY SetupsAssumption DEF IInv, TypeOK, Unlinked, Clients
  <1>2. l # held[c]
    BY <1>1, LinksAssumption DEF IInv, TypeOK, GoneInv, Connected
  <1>3. l = unlinking /\ unlinking # NoLink
    BY <1>2, LinksAssumption DEF IInv, NoOrphanLinks
  <1>4. entry = "disconnecting" /\ c = current
    BY <1>1, <1>3 DEF IInv, TypeOK, GoneInv
  <1> QED
    BY <1>4, SetupsAssumption DEF Clients

\* Whatever its poll does during and after the unload, an unloaded client has no
\* link open but one it is closing, those the Bluetooth stack failed on, and
\* those its poll opened after the unload's disconnect.
THEOREM UnloadLeavesNoLink == Spec => []UnloadedIsClosed
  <1>1. Init => IInv /\ GoneInv
    BY InitIInv, InitGone
  <1>2. (IInv /\ GoneInv) /\ [Next]_vars => (IInv /\ GoneInv)'
    BY NextIInv, NextGone
  <1>3. IInv /\ GoneInv => UnloadedIsClosed
    BY GoneIsClosed
  <1> QED
    BY <1>1, <1>2, <1>3, PTL DEF Spec
=============================================================================
