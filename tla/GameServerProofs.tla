-------------------------- MODULE GameServerProofs --------------------------
(* What the server keeps of every player, for any number of players, client  *)
(* programs, frames and broadcasts.                                          *)
EXTENDS GameServer, FiniteSetTheorems, SequenceTheorems, TLAPS

-----------------------------------------------------------------------------
(* Sessions: links, their states and the relay of packets.                   *)

SessionTypes ==
    /\ next \in Player
    /\ myState \in [Player -> State]
    /\ clientLink \in [Player -> Nat]
    /\ loopback \in [Player -> BOOLEAN]
    /\ programs \in [Player -> Nat]

(* The state of one player, all that the steps below disturb.                *)
LinkOK(state, link, relay) ==
    /\ link = NoLink <=> state \in {"UNCONNECTED", "DISCONNECTED"}
    /\ relay => state \in {"CONNECTED", "INGAME"}
    /\ ~earlyReturn /\ state \in {"CONNECTED", "INGAME"} => relay

SessionInv == SessionTypes /\ LinkMeansPresent

LEMMA LinkParts ==
    LinkMeansPresent <=> \A p \in Player : LinkOK(myState[p], clientLink[p], loopback[p])
  BY DEF LinkMeansPresent, LinkOK

LEMMA NextPlayerTyped == SessionInv /\ NextPlayer => next' \in Player
  BY GameServerAssumption DEF SessionInv, SessionTypes, NextPlayer, Player

(* Kill leaves a link that lingers or none, and no relay.                    *)
LEMMA KilledOK ==
    ASSUME SessionInv, NEW p \in Player, NEW flush \in BOOLEAN
    PROVE  /\ Killed(p, flush).state \in State /\ Killed(p, flush).link \in Nat
           /\ LinkOK(Killed(p, flush).state, Killed(p, flush).link, FALSE)
  BY LinkParts DEF SessionInv, SessionTypes, Killed, LinkOK, State, NoLink

LEMMA KillSessions ==
    ASSUME SessionInv, NEW p \in Player, NEW flush \in BOOLEAN, Kill(p, flush),
           next' \in Player, earlyReturn' = earlyReturn, programs' = programs
    PROVE  SessionInv'
  <1>1. /\ Killed(p, flush).state \in State /\ Killed(p, flush).link \in Nat
        /\ LinkOK(Killed(p, flush).state, Killed(p, flush).link, FALSE)
    BY KilledOK
  <1>2. /\ myState' = [myState EXCEPT ![p] = Killed(p, flush).state]
        /\ clientLink' = [clientLink EXCEPT ![p] = Killed(p, flush).link]
        /\ loopback' = [loopback EXCEPT ![p] = FALSE]
    BY DEF Kill
  <1>3. SessionTypes'
    BY <1>1, <1>2 DEF SessionInv, SessionTypes
  <1>4. \A q \in Player : LinkOK(myState'[q], clientLink'[q], loopback'[q])
    BY <1>1, <1>2, LinkParts DEF SessionInv, SessionTypes
  <1>5. LinkMeansPresent'
    BY <1>4 DEF LinkMeansPresent, LinkOK
  <1> QED  BY <1>3, <1>5 DEF SessionInv

LEMMA NewClientSessions ==
    ASSUME SessionInv, NEW p \in Player, NewClient(p),
           NEW relay \in BOOLEAN, earlyReturn \/ relay,
           clientLink' = [clientLink EXCEPT ![p] = programs[p] + 1],
           myState' = [myState EXCEPT ![p] = "CONNECTED"],
           loopback' = [loopback EXCEPT ![p] = relay]
    PROVE  SessionInv'
  <1>1. /\ next' = next /\ earlyReturn' = earlyReturn
        /\ programs' = [programs EXCEPT ![p] = programs[p] + 1]
    BY DEF NewClient, setting
  <1>2. programs[p] + 1 \in Nat /\ programs[p] + 1 # NoLink
    BY DEF SessionInv, SessionTypes, NoLink
  <1>3. SessionTypes'
    BY <1>1, <1>2 DEF SessionInv, SessionTypes, State
  <1>4. \A q \in Player : LinkOK(myState'[q], clientLink'[q], loopback'[q])
    BY <1>2, LinkParts DEF SessionInv, SessionTypes, LinkOK
  <1>5. LinkMeansPresent'
    BY <1>1, <1>4 DEF LinkMeansPresent, LinkOK
  <1> QED  BY <1>3, <1>5 DEF SessionInv

LEMMA SameSessions ==
    ASSUME SessionInv, next' \in Player, UNCHANGED <<myState, clientLink, loopback>>,
           earlyReturn' = earlyReturn, programs' \in [Player -> Nat]
    PROVE  SessionInv'
  BY DEF SessionInv, SessionTypes, LinkMeansPresent

LEMMA NextSessions == SessionInv /\ Next => SessionInv'
  <1> SUFFICES ASSUME SessionInv, Next PROVE SessionInv'
    OBVIOUS
  <1>0. next \in Player /\ programs \in [Player -> Nat]
    BY DEF SessionInv, SessionTypes
  <1> USE DEF session, setting, clients
  <1>1. ASSUME NEW p \in Player, NEW silent, RejectConnection(p, silent) PROVE SessionInv'
    <2>1. programs' \in [Player -> Nat]
      BY <1>0, <1>1 DEF RejectConnection, NewClient
    <2> QED  BY <1>0, <1>1, <2>1, SameSessions DEF RejectConnection, NewClient
  <1>2. ASSUME NEW p \in Player, NEW silent, Reconnect(p, silent) PROVE SessionInv'
    BY <1>0, <1>2, SameSessions DEF Reconnect
  <1>3. ASSUME NEW p \in Player, NEW silent, Connect(p, silent) PROVE SessionInv'
    BY <1>3, NewClientSessions DEF Connect
  <1>4. ASSUME NEW p \in Player, Revive(p) PROVE SessionInv'
    <2>1. myState[p] = "DISCONNECTING" /\ earlyReturn
      BY <1>4 DEF Revive, NewClient, Present
    <2>2. loopback' = [loopback EXCEPT ![p] = FALSE]
      <3>1. loopback[p] = FALSE
        BY <2>1, LinkParts DEF SessionInv, SessionTypes, LinkOK
      <3>2. loopback = [loopback EXCEPT ![p] = FALSE]
        BY <3>1 DEF SessionInv, SessionTypes
      <3> QED  BY <1>4, <3>2 DEF Revive
    <2> QED  BY <1>4, <2>1, <2>2, NewClientSessions DEF Revive
  <1>5. ASSUME NEW p \in Player, KickPlayer(p) PROVE SessionInv'
    BY <1>0, <1>5, KillSessions DEF KickPlayer
  <1>6. CASE NoMoreAttempts \/ StartLater \/ NextRound \/ (\E late \in BOOLEAN : CountDown(late))
    BY <1>0, <1>6, SameSessions DEF NoMoreAttempts, StartLater, NextRound, CountDown
  <1>7. CASE ReadNothing
    BY <1>0, <1>7, SameSessions, NextPlayerTyped DEF ReadNothing
  <1>8. CASE TimeOut
    BY <1>0, <1>8, KillSessions, NextPlayerTyped DEF TimeOut
  <1>9. CASE ReadPlayerName
    <2>1. /\ clientLink[next] # NoLink /\ loopback[next] /\ next' = next
          /\ myState' = [myState EXCEPT ![next] = "INGAME"]
          /\ UNCHANGED <<clientLink, loopback, earlyReturn, programs>>
      BY <1>9 DEF ReadPlayerName, Processing
    <2>2. SessionTypes'
      BY <2>1 DEF SessionInv, SessionTypes, State
    <2>3. \A q \in Player : LinkOK(myState'[q], clientLink[q], loopback[q])
      BY <2>1, LinkParts DEF SessionInv, SessionTypes, LinkOK
    <2> QED  BY <2>1, <2>2, <2>3 DEF SessionInv, LinkMeansPresent, LinkOK
  <1>10. CASE ReadSyncResponse
    BY <1>0, <1>10, SameSessions DEF ReadSyncResponse
  <1>11. CASE ReadQuit
    BY <1>0, <1>11, KillSessions, NextPlayerTyped DEF ReadQuit
  <1>12. ASSUME NEW expired \in SUBSET Player, ExpireConnections(expired) PROVE SessionInv'
    <2>1. SessionTypes'
      BY <1>12 DEF ExpireConnections, SessionInv, SessionTypes, State, NoLink
    <2>2. \A q \in Player : LinkOK(myState'[q], clientLink'[q], loopback'[q])
      BY <1>12, LinkParts DEF ExpireConnections, SessionInv, SessionTypes, LinkOK
    <2>3. earlyReturn' = earlyReturn
      BY <1>12 DEF ExpireConnections
    <2> QED  BY <2>1, <2>2, <2>3 DEF SessionInv, LinkMeansPresent, LinkOK
  <1>13. ASSUME NEW n \in Nat, StartGame(n) \/ NewFrames(n) PROVE SessionInv'
    BY <1>0, <1>13, SameSessions DEF StartGame, NewFrames
  <1>14. 0 .. MaxNewFrames \subseteq Nat
    BY GameServerAssumption
  <1> QED
    BY <1>1, <1>2, <1>3, <1>4, <1>5, <1>6, <1>7, <1>8, <1>9, <1>10, <1>11, <1>12,
       <1>13, <1>14 DEF Next

(* A link is there exactly for who is connected or lingers, and packets are  *)
(* relayed only for who is connected.                                        *)
THEOREM LinksAreRight == Spec => []LinkMeansPresent
  <1>1. Init => SessionInv
    BY GameServerAssumption
    DEF Init, SessionInv, SessionTypes, LinkMeansPresent, Player, State, NoLink
  <1>2. SessionInv /\ UNCHANGED vars => SessionInv'
    BY DEF vars, session, setting, clients, SessionInv, SessionTypes, LinkMeansPresent
  <1>3. SessionInv => LinkMeansPresent
    BY DEF SessionInv
  <1> QED  BY <1>1, <1>2, <1>3, NextSessions, PTL DEF Spec

-----------------------------------------------------------------------------
(* Checksums.                                                                *)

ResponseInv ==
    /\ syncResponse \in [Player -> SUBSET outstandingSyncFrames]
    /\ \A p \in Player : ~Present(p) => syncResponse[p] = {}

LEMMA ResponseParts == ResponseInv => ResponsesBelong
  BY DEF ResponseInv, ResponsesBelong

(* Whoever is there and is not the one who is killed stays there.            *)
LEMMA KillPresence ==
    ASSUME SessionInv, NEW p \in Player, NEW flush \in BOOLEAN, Kill(p, flush)
    PROVE  /\ ~Present(p)'
           /\ \A q \in Player \ {p} : Present(q)' <=> Present(q)
  BY DEF Kill, Killed, Present, SessionInv, SessionTypes

LEMMA KillResponses ==
    ASSUME SessionInv, ResponseInv, NEW p \in Player, NEW flush \in BOOLEAN,
           Kill(p, flush), outstandingSyncFrames' = outstandingSyncFrames
    PROVE  ResponseInv'
  <1>1. syncResponse' = [syncResponse EXCEPT ![p] = {}]
    BY DEF Kill
  <1>2. ~Present(p)' /\ \A q \in Player \ {p} : Present(q)' <=> Present(q)
    BY KillPresence
  <1> QED  BY <1>1, <1>2 DEF ResponseInv

LEMMA SameResponses ==
    ASSUME ResponseInv,
           UNCHANGED <<myState, clientLink, syncResponse, outstandingSyncFrames>>
    PROVE  ResponseInv'
  BY DEF ResponseInv, Present

LEMMA FrameResponses ==
    ASSUME SessionInv, ResponseInv, NEW n, NEW start, NEW cache, NEW started,
           CreateNewFrame(n, start, cache, started), UNCHANGED <<myState, clientLink>>
    PROVE  ResponseInv'
  <1> DEFINE kept == {f \in outstandingSyncFrames : ~completeResponseSet(f)}
  <1>1. /\ syncResponse' = [p \in Player |->
               IF myState[p] \in {"DISCONNECTING", "DISCONNECTED"}
               THEN syncResponse[p] ELSE syncResponse[p] \intersect kept]
        /\ kept \subseteq outstandingSyncFrames'
    BY DEF CreateNewFrame
  <1>2. ASSUME NEW p \in Player, myState[p] \in {"DISCONNECTING", "DISCONNECTED"}
        PROVE  syncResponse[p] = {}
    BY <1>2, LinkParts DEF SessionInv, LinkOK, Present, ResponseInv
  <1> HIDE DEF kept
  <1>3. \A p \in Player : syncResponse'[p] \subseteq syncResponse[p] \intersect outstandingSyncFrames'
    BY <1>1, <1>2 DEF ResponseInv
  <1>4. \A p \in Player : Present(p)' <=> Present(p)
    BY DEF Present
  <1>5. syncResponse' \in [Player -> SUBSET outstandingSyncFrames']
    BY <1>1, <1>3
  <1> QED  BY <1>3, <1>4, <1>5 DEF ResponseInv

LEMMA NextResponses == SessionInv /\ ResponseInv /\ Next => ResponseInv'
  <1> SUFFICES ASSUME SessionInv, ResponseInv, Next PROVE ResponseInv'
    OBVIOUS
  <1> USE DEF session
  <1>0. next \in Player
    BY DEF SessionInv, SessionTypes
  <1>1. ASSUME NEW p \in Player, NEW silent, RejectConnection(p, silent) PROVE ResponseInv'
    BY <1>1, SameResponses DEF RejectConnection, NewClient
  <1>2. ASSUME NEW p \in Player, NEW silent, Reconnect(p, silent) PROVE ResponseInv'
    BY <1>2, SameResponses DEF Reconnect
  <1>3. ASSUME NEW p \in Player, NEW silent, Connect(p, silent) PROVE ResponseInv'
    <2>1. /\ clientLink' = [clientLink EXCEPT ![p] = programs[p] + 1]
          /\ myState' = [myState EXCEPT ![p] = "CONNECTED"]
          /\ outstandingSyncFrames' = outstandingSyncFrames
          /\ syncResponse' = IF Present(p) THEN [syncResponse EXCEPT ![p] = {}]
                             ELSE syncResponse
      BY <1>3 DEF Connect, NewClient
    <2>2. \A q \in Player \ {p} : Present(q)' <=> Present(q)
      BY <2>1 DEF Present, SessionInv, SessionTypes
    <2>3. syncResponse'[p] = {}
      BY <2>1 DEF ResponseInv
    <2> QED  BY <2>1, <2>2, <2>3 DEF ResponseInv
  <1>4. ASSUME NEW p \in Player, Revive(p) PROVE ResponseInv'
    <2>1. /\ clientLink' = [clientLink EXCEPT ![p] = programs[p] + 1]
          /\ myState' = [myState EXCEPT ![p] = "CONNECTED"]
          /\ UNCHANGED <<syncResponse, outstandingSyncFrames>> /\ ~Present(p)
      BY <1>4 DEF Revive, NewClient
    <2>2. \A q \in Player \ {p} : Present(q)' <=> Present(q)
      BY <2>1 DEF Present, SessionInv, SessionTypes
    <2> QED  BY <2>1, <2>2 DEF ResponseInv
  <1>5. ASSUME NEW p \in Player, KickPlayer(p) PROVE ResponseInv'
    BY <1>5, KillResponses DEF KickPlayer
  <1>6. CASE NoMoreAttempts \/ StartLater \/ NextRound \/ (\E late \in BOOLEAN : CountDown(late))
    BY <1>6, SameResponses DEF NoMoreAttempts, StartLater, NextRound, CountDown
  <1>7. CASE ReadNothing
    BY <1>7, SameResponses DEF ReadNothing
  <1>8. CASE TimeOut
    BY <1>0, <1>8, KillResponses DEF TimeOut
  <1>9. CASE ReadPlayerName
    <2>1. /\ myState' = [myState EXCEPT ![next] = "INGAME"]
          /\ UNCHANGED <<clientLink, syncResponse, outstandingSyncFrames>>
          /\ clientLink[next] # NoLink /\ loopback[next]
      BY <1>9 DEF ReadPlayerName, Processing
    <2>2. Present(next)
      BY <1>0, <2>1, LinkParts DEF SessionInv, LinkOK, Present
    <2>3. \A q \in Player : Present(q)' <=> Present(q)
      BY <1>0, <2>1, <2>2 DEF Present, SessionInv, SessionTypes
    <2> QED  BY <2>1, <2>3 DEF ResponseInv
  <1>10. CASE ReadSyncResponse
    <2>1. /\ Store(next, heard[next].frames + 1)
          /\ UNCHANGED <<myState, clientLink, outstandingSyncFrames>>
          /\ clientLink[next] # NoLink /\ loopback[next]
      BY <1>10 DEF ReadSyncResponse, Processing
    <2>2. Present(next) /\ \A q \in Player : Present(q)' <=> Present(q)
      BY <1>0, <2>1, LinkParts DEF SessionInv, LinkOK, Present
    <2> QED  BY <1>0, <2>1, <2>2 DEF ResponseInv, Store
  <1>11. CASE ReadQuit
    BY <1>0, <1>11, KillResponses DEF ReadQuit
  <1>12. ASSUME NEW expired \in SUBSET Player, ExpireConnections(expired) PROVE ResponseInv'
    <2>1. \A q \in Player : Present(q)' <=> Present(q)
      BY <1>12 DEF ExpireConnections, Present
    <2> QED  BY <1>12, <2>1 DEF ExpireConnections, ResponseInv
  <1>13. ASSUME NEW n \in Nat, StartGame(n) \/ NewFrames(n) PROVE ResponseInv'
    BY <1>13, FrameResponses DEF StartGame, NewFrames
  <1>14. 0 .. MaxNewFrames \subseteq Nat
    BY GameServerAssumption
  <1> QED
    BY <1>1, <1>2, <1>3, <1>4, <1>5, <1>6, <1>7, <1>8, <1>9, <1>10, <1>11, <1>12,
       <1>13, <1>14 DEF Next

LEMMA ResponseInvAlways == Spec => [](SessionInv /\ ResponseInv)
  <1> DEFINE Both == SessionInv /\ ResponseInv
  <1>1. Init => Both
    <2>1. Init => SessionInv
      BY GameServerAssumption
      DEF Init, SessionInv, SessionTypes, LinkMeansPresent, Player, State, NoLink
    <2>2. Init => ResponseInv
      BY DEF Init, ResponseInv
    <2> QED  BY <2>1, <2>2
  <1>2. Both /\ Next => Both'
    BY NextSessions, NextResponses
  <1>3. Both /\ UNCHANGED vars => Both'
    BY DEF vars, session, setting, clients, SessionInv, SessionTypes,
           LinkMeansPresent, ResponseInv, Present
  <1> QED  BY <1>1, <1>2, <1>3, PTL DEF Spec

(* No checksum outlives its frame or its player's session.                   *)
THEOREM NoStaleResponse == Spec => []ResponsesBelong
  BY ResponseInvAlways, ResponseParts, PTL

-----------------------------------------------------------------------------
(* Broadcasts: the cache is the history as long as somebody may come, and a  *)
(* client was sent the history after his greeting.                           *)

Greeting(p) == Welcome \o <<About("JOINTEAM", p)>>

StreamTypes ==
    /\ packetCache \in Seq(Packet) /\ history \in Seq(Packet)
    /\ received \in [Player -> Seq(Packet)]

CacheIsHistory ==
    /\ ~gameHasStarted \/ canReconnect => packetCache = history
    /\ accepting => ~gameHasStarted \/ canReconnect

StreamInv == StreamTypes /\ CacheIsHistory /\ StreamIsHistory

LEMMA StreamParts ==
    StreamIsHistory <=>
        (~earlyReturn =>
            \A p \in Player : Present(p) => received[p] = Greeting(p) \o history)
  BY DEF StreamIsHistory, Greeting

LEMMA GreetingTyped == ASSUME NEW p \in Player PROVE Greeting(p) \in Seq(Packet)
  <1>1. /\ Own("GAMEDATA") \in Packet /\ Own("SETPLAYERNUM") \in Packet
        /\ About("JOINTEAM", p) \in Packet
    BY DEF Own, About, Packet
  <1>2. Welcome \in Seq(Packet) /\ <<About("JOINTEAM", p)>> \in Seq(Packet)
    BY <1>1 DEF Welcome
  <1> QED  BY <1>2, ConcatProperties DEF Greeting

LEMMA LeftTyped ==
    ASSUME NEW p \in Player
    PROVE  /\ <<About("PLAYERLEFT", p)>> \in Seq(Packet)
           /\ <<About("PLAYERNAME", p)>> \in Seq(Packet)
           /\ Arrival(p) \in Seq(Packet)
  <1>1. /\ About("PLAYERLEFT", p) \in Packet /\ About("PLAYERNAME", p) \in Packet
        /\ About("JOINTEAM", p) \in Packet
    BY DEF About, Packet
  <1>2. /\ <<About("PLAYERLEFT", p)>> \in Seq(Packet) /\ <<>> \in Seq(Packet)
        /\ <<About("JOINTEAM", p)>> \in Seq(Packet)
        /\ <<About("PLAYERNAME", p)>> \in Seq(Packet)
    BY <1>1
  <1> QED  BY <1>2, ConcatProperties DEF Arrival

(* What a broadcast of s to R leaves of it, when those who are left out are  *)
(* no longer there.                                                          *)
LEMMA BroadcastStream ==
    ASSUME StreamInv, NEW s \in Seq(Packet), NEW R, NEW cache, NEW started \in BOOLEAN,
           Broadcast(s, R, cache, started),
           gameHasStarted' = started, gameHasStarted => started,
           cache = packetCache \/ (started /\ ~canReconnect /\ cache = <<>>),
           canReconnect' = canReconnect, earlyReturn' = earlyReturn,
           accepting' => accepting /\ (~started \/ canReconnect),
           \A p \in Player : Present(p)' => Present(p) /\ p \in R
    PROVE  StreamInv'
  <1>1. /\ received' = [p \in Player |->
                           IF ~Present(p) THEN received[p]
                           ELSE IF p \in R THEN received[p] \o s ELSE <<>>]
        /\ packetCache' = IF canReconnect \/ ~started THEN cache \o s ELSE cache
        /\ history' = history \o s
    BY DEF Broadcast
  <1>2. packetCache \in Seq(Packet) /\ history \in Seq(Packet) /\ cache \in Seq(Packet)
    <2>1. packetCache \in Seq(Packet) /\ history \in Seq(Packet)
      BY DEF StreamInv, StreamTypes
    <2>2. <<>> \in Seq(Packet)
      OBVIOUS
    <2> QED  BY <2>1, <2>2
  <1>3. history' \in Seq(Packet) /\ packetCache' \in Seq(Packet)
    BY <1>1, <1>2, ConcatProperties
  <1>4. ASSUME NEW p \in Player PROVE received[p] \o s \in Seq(Packet)
    <2>1. received[p] \in Seq(Packet)
      BY DEF StreamInv, StreamTypes
    <2> QED  BY <2>1, ConcatProperties
  <1>5. received' \in [Player -> Seq(Packet)]
    <2>1. <<>> \in Seq(Packet)
      OBVIOUS
    <2>2. \A p \in Player : received[p] \in Seq(Packet)
      BY DEF StreamInv, StreamTypes
    <2> HIDE DEF Packet
    <2> QED  BY <1>1, <1>4, <2>1, <2>2
  <1>6. CacheIsHistory'
    <2>1. ~started \/ canReconnect => packetCache = history
      BY DEF StreamInv, CacheIsHistory
    <2> QED  BY <1>1, <2>1 DEF CacheIsHistory
  <1>7. ASSUME ~earlyReturn, NEW p \in Player, Present(p)'
        PROVE  received'[p] = Greeting(p) \o history'
    <2>1. Present(p) /\ p \in R
      BY <1>7
    <2>2. received'[p] = received[p] \o s /\ received[p] = Greeting(p) \o history
      BY <1>1, <1>7, <2>1, StreamParts DEF StreamInv
    <2>3. (Greeting(p) \o history) \o s = Greeting(p) \o (history \o s)
      <3>1. Greeting(p) \in Seq(Packet)
        BY GreetingTyped
      <3> HIDE DEF Packet, Greeting
      <3> QED  BY <1>2, <3>1, ConcatAssociative, SMTT(30)
    <2> QED  BY <1>1, <2>2, <2>3
  <1>8. StreamIsHistory'
    BY <1>7 DEF StreamIsHistory, Greeting
  <1> QED  BY <1>3, <1>5, <1>6, <1>8 DEF StreamInv, StreamTypes

LEMMA KillStream ==
    ASSUME SessionInv, StreamInv, NEW p \in Player, NEW flush \in BOOLEAN,
           Kill(p, flush), gameHasStarted \in BOOLEAN,
           UNCHANGED <<gameHasStarted, canReconnect, accepting, earlyReturn>>
    PROVE  StreamInv'
  <1>1. ~Present(p)' /\ \A q \in Player \ {p} : Present(q)' <=> Present(q)
    BY KillPresence
  <1>2. Broadcast(<<About("PLAYERLEFT", p)>>, Player \ {p}, packetCache, gameHasStarted)
    BY DEF Kill, Announce
  <1>3. accepting' => accepting /\ (~gameHasStarted \/ canReconnect)
    BY DEF StreamInv, CacheIsHistory
  <1>4. \A q \in Player : Present(q)' => Present(q) /\ q \in Player \ {p}
    BY <1>1
  <1> QED  BY <1>2, <1>3, <1>4, LeftTyped, BroadcastStream

LEMMA SameStream ==
    ASSUME StreamInv, UNCHANGED <<packetCache, history, received, gameHasStarted,
                                  earlyReturn, accepting>>,
           \/ canReconnect' = canReconnect
           \/ accepting,
           canReconnect => canReconnect',
           earlyReturn \/ \A p \in Player : Present(p)' => Present(p)
    PROVE  StreamInv'
  <1>1. StreamTypes'
    BY DEF StreamInv, StreamTypes
  <1>2. CacheIsHistory'
    BY DEF StreamInv, CacheIsHistory
  <1>3. StreamIsHistory'
    BY DEF StreamInv, StreamIsHistory
  <1> QED  BY <1>1, <1>2, <1>3 DEF StreamInv

LEMMA ConnectStream ==
    ASSUME SessionInv, StreamInv, NEW p \in Player, NEW silent, Connect(p, silent)
    PROVE  StreamInv'
  <1>1. /\ accepting /\ UNCHANGED <<accepting, gameHasStarted, earlyReturn>>
        /\ packetCache' = packetCache \o Arrival(p)
        /\ history' = history \o Arrival(p)
        /\ received' = [q \in Player |->
               IF q = p THEN Missed(p)
               ELSE IF Present(q) THEN received[q] \o Arrival(p) ELSE received[q]]
        /\ clientLink' = [clientLink EXCEPT ![p] = programs[p] + 1]
        /\ myState' = [myState EXCEPT ![p] = "CONNECTED"]
        /\ canReconnect' = (canReconnect \/ reconnectTimeout)
    BY DEF Connect, NewClient, setting, nowReconnectable
  <1>2. packetCache = history
    BY <1>1 DEF StreamInv, CacheIsHistory
  <1>3. history \in Seq(Packet) /\ Arrival(p) \in Seq(Packet)
    BY LeftTyped DEF StreamInv, StreamTypes
  <1>4. history' \in Seq(Packet)
    BY <1>1, <1>3, ConcatProperties
  <1>5. Missed(p) = Greeting(p) \o history'
    <2>1. Missed(p) = (Greeting(p) \o history) \o Arrival(p)
      BY <1>2 DEF Missed, Greeting
    <2>2. (Greeting(p) \o history) \o Arrival(p) = Greeting(p) \o (history \o Arrival(p))
      BY <1>3, GreetingTyped, ConcatAssociative
    <2> QED  BY <1>1, <2>1, <2>2
  <1>6. Missed(p) \in Seq(Packet)
    BY <1>4, <1>5, GreetingTyped, ConcatProperties
  <1>7. \A q \in Player : received[q] \in Seq(Packet)
    BY DEF StreamInv, StreamTypes
  <1>8. \A q \in Player : received[q] \o Arrival(p) \in Seq(Packet)
    BY <1>3, <1>7, ConcatProperties
  <1>9. received' \in [Player -> Seq(Packet)]
    BY <1>1, <1>6, <1>7, <1>8
  <1>10. StreamTypes' /\ CacheIsHistory'
    <2>1. packetCache' = history'
      BY <1>1, <1>2
    <2>2. ~gameHasStarted \/ canReconnect'
      BY <1>1 DEF StreamInv, CacheIsHistory
    <2> QED  BY <1>1, <1>4, <1>9, <2>1, <2>2 DEF StreamTypes, CacheIsHistory
  <1>11. ASSUME ~earlyReturn, NEW q \in Player, Present(q)'
         PROVE  received'[q] = Greeting(q) \o history'
    <2>1. CASE q = p
      BY <1>1, <1>5, <2>1
    <2>2. CASE q # p
      <3>1. Present(q)
        BY <1>1, <1>11, <2>2 DEF Present, SessionInv, SessionTypes
      <3>2. received'[q] = received[q] \o Arrival(p) /\ received[q] = Greeting(q) \o history
        BY <1>1, <1>11, <2>2, <3>1, StreamParts DEF StreamInv
      <3>3. (Greeting(q) \o history) \o Arrival(p) = Greeting(q) \o (history \o Arrival(p))
        BY <1>3, GreetingTyped, ConcatAssociative
      <3> QED  BY <1>1, <3>2, <3>3
    <2> QED  BY <2>1, <2>2
  <1>12. StreamIsHistory'
    BY <1>1, <1>11 DEF StreamIsHistory, Greeting
  <1> QED  BY <1>10, <1>12 DEF StreamInv

LEMMA FramesTyped ==
    ASSUME NEW n \in Nat, NEW start \in Seq(Packet)
    PROVE  start \o [i \in 1..n |-> Frame] \in Seq(Packet)
  <1>1. Frame \in Packet
    BY DEF Frame, Own, Packet
  <1>2. [i \in 1..n |-> Frame] \in Seq(Packet)
    BY <1>1
  <1> QED  BY <1>2, ConcatProperties

Booleans == gameHasStarted \in BOOLEAN /\ canReconnect \in BOOLEAN

LEMMA NextStream == SessionInv /\ StreamInv /\ Booleans /\ Next => StreamInv'
  <1> SUFFICES ASSUME SessionInv, StreamInv, Booleans, Next PROVE StreamInv'
    OBVIOUS
  <1>0. next \in Player
    BY DEF SessionInv, SessionTypes
  <1> USE DEF session, broadcasts, setting, clients, game
  <1>1. ASSUME NEW p \in Player, NEW silent, RejectConnection(p, silent) PROVE StreamInv'
    BY <1>1, SameStream DEF RejectConnection, NewClient, nowReconnectable, Present, Booleans
  <1>2. ASSUME NEW p \in Player, NEW silent, Reconnect(p, silent) PROVE StreamInv'
    BY <1>2, SameStream DEF Reconnect, nowReconnectable, Present, Booleans
  <1>3. ASSUME NEW p \in Player, NEW silent, Connect(p, silent) PROVE StreamInv'
    BY <1>3, ConnectStream
  <1>4. ASSUME NEW p \in Player, Revive(p) PROVE StreamInv'
    <2>1. earlyReturn
      BY <1>4, LinkParts DEF Revive, NewClient, Present
    <2> QED  BY <1>4, <2>1, SameStream DEF Revive, NewClient, nowReconnectable, Booleans
  <1>5. ASSUME NEW p \in Player, KickPlayer(p) PROVE StreamInv'
    BY <1>5, KillStream DEF KickPlayer, Booleans
  <1>6. CASE NoMoreAttempts \/ ReadNothing \/ StartLater \/ NextRound
             \/ (\E late \in BOOLEAN : CountDown(late))
    BY <1>6, SameStream
    DEF NoMoreAttempts, ReadNothing, StartLater, NextRound, CountDown, Present
  <1>7. CASE TimeOut
    BY <1>0, <1>7, KillStream DEF TimeOut, Booleans
  <1>8. CASE ReadPlayerName
    <2>1. /\ Broadcast(<<About("PLAYERNAME", next)>>, Player, packetCache, gameHasStarted)
          /\ UNCHANGED <<gameHasStarted, canReconnect, accepting, earlyReturn, clientLink>>
          /\ myState' = [myState EXCEPT ![next] = "INGAME"]
          /\ clientLink[next] # NoLink /\ loopback[next]
      BY <1>8 DEF ReadPlayerName, Processing
    <2>2. \A q \in Player : Present(q)' => Present(q)
      BY <1>0, <2>1, LinkParts DEF SessionInv, SessionTypes, LinkOK, Present
    <2>3. accepting' => accepting /\ (~gameHasStarted \/ canReconnect)
      BY <2>1 DEF StreamInv, CacheIsHistory
    <2>4. <<About("PLAYERNAME", next)>> \in Seq(Packet)
      BY <1>0, LeftTyped
    <2> QED  BY <2>1, <2>2, <2>3, <2>4, BroadcastStream DEF Booleans
  <1>9. CASE ReadSyncResponse
    BY <1>9, SameStream DEF ReadSyncResponse, Present
  <1>10. CASE ReadQuit
    BY <1>0, <1>10, KillStream DEF ReadQuit, Booleans
  <1>11. ASSUME NEW expired \in SUBSET Player, ExpireConnections(expired) PROVE StreamInv'
    BY <1>11, SameStream DEF ExpireConnections, Present
  <1>12. ASSUME NEW n \in Nat, StartGame(n) PROVE StreamInv'
    <2> DEFINE s == <<Own("STARTPLAYING")>> \o [i \in 1..n |-> Frame]
    <2>1. /\ Broadcast(s, Player, CacheAtStart, TRUE)
          /\ ~gameHasStarted /\ gameHasStarted' = TRUE
          /\ accepting' = (accepting /\ canReconnect)
          /\ UNCHANGED <<canReconnect, earlyReturn, clientLink, myState>>
      BY <1>12 DEF StartGame, CreateNewFrame
    <2>2. s \in Seq(Packet)
      <3>1. Own("STARTPLAYING") \in Packet
        BY DEF Own, Packet
      <3>2. <<Own("STARTPLAYING")>> \in Seq(Packet)
        BY <3>1
      <3>3. \A start \in Seq(Packet) : start \o [i \in 1..n |-> Frame] \in Seq(Packet)
        BY FramesTyped
      <3> QED  BY <3>2, <3>3
    <2>3. CacheAtStart = packetCache \/ (~canReconnect /\ CacheAtStart = <<>>)
      BY DEF CacheAtStart
    <2>4. \A p \in Player : Present(p)' => Present(p) /\ p \in Player
      BY <2>1 DEF Present
    <2> HIDE DEF s
    <2> QED  BY <2>1, <2>2, <2>3, <2>4, BroadcastStream
  <1>13. ASSUME NEW n \in Nat, NewFrames(n) PROVE StreamInv'
    <2> DEFINE s == <<>> \o [i \in 1..n |-> Frame]
    <2>1. /\ Broadcast(s, Player, packetCache, TRUE) /\ gameHasStarted
          /\ UNCHANGED <<gameHasStarted, accepting, canReconnect, earlyReturn,
                         clientLink, myState>>
      BY <1>13 DEF NewFrames, CreateNewFrame
    <2>2. s \in Seq(Packet)
      <3>1. <<>> \in Seq(Packet)
        OBVIOUS
      <3>2. \A start \in Seq(Packet) : start \o [i \in 1..n |-> Frame] \in Seq(Packet)
        BY FramesTyped
      <3>3. <<>> \o [i \in 1..n |-> Frame] \in Seq(Packet)
        BY <3>1, <3>2
      <3> QED  BY <3>3
    <2>3. accepting' => accepting /\ canReconnect
      BY <2>1 DEF StreamInv, CacheIsHistory
    <2>4. \A p \in Player : Present(p)' => Present(p) /\ p \in Player
      BY <2>1 DEF Present
    <2>5. gameHasStarted' = TRUE
      BY <2>1 DEF Booleans
    <2> HIDE DEF s
    <2> QED  BY <2>1, <2>2, <2>3, <2>4, <2>5, BroadcastStream
  <1>14. 0 .. MaxNewFrames \subseteq Nat
    BY GameServerAssumption
  <1> QED
    BY <1>1, <1>2, <1>3, <1>4, <1>5, <1>6, <1>7, <1>8, <1>9, <1>10, <1>11, <1>12,
       <1>13, <1>14 DEF Next

LEMMA NextBooleans == Booleans /\ reconnectTimeout \in BOOLEAN /\ Next =>
                          Booleans' /\ reconnectTimeout' \in BOOLEAN
  BY DEF Booleans, Next, NewClient, RejectConnection, Reconnect, Connect, Revive, KickPlayer,
         NoMoreAttempts, ReadNothing, TimeOut, ReadPlayerName, ReadSyncResponse, ReadQuit,
         ExpireConnections, CountDown, StartLater, StartGame, NewFrames, NextRound,
         nowReconnectable, game, setting

ServerInv == SessionInv /\ StreamInv /\ Booleans /\ reconnectTimeout \in BOOLEAN

LEMMA ServerInvAlways == Spec => []ServerInv
  <1>1. Init => ServerInv
    <2>1. Init => SessionInv
      BY GameServerAssumption
      DEF Init, SessionInv, SessionTypes, LinkMeansPresent, Player, State, NoLink
    <2>2. Init => Booleans /\ reconnectTimeout \in BOOLEAN
      BY GameServerAssumption DEF Init, Booleans
    <2>3. Init => StreamInv
      BY DEF Init, StreamInv, StreamTypes, CacheIsHistory, StreamIsHistory, Present
    <2> QED  BY <2>1, <2>2, <2>3 DEF ServerInv
  <1>2. ServerInv /\ Next => ServerInv'
    BY NextSessions, NextStream, NextBooleans DEF ServerInv
  <1>3. ServerInv /\ UNCHANGED vars => ServerInv'
    BY DEF ServerInv, vars, session, game, broadcasts, setting, clients, SessionInv,
           SessionTypes, LinkMeansPresent, StreamInv, StreamTypes, CacheIsHistory,
           StreamIsHistory, Present, Booleans
  <1> QED  BY <1>1, <1>2, <1>3, PTL DEF Spec

(* Whoever is there, whenever and however often he came, was sent everything *)
(* that was ever broadcast, in order and once, after his greeting.           *)
THEOREM EverybodyHearsAll == Spec => []StreamIsHistory
  <1>1. ServerInv => StreamIsHistory
    BY DEF ServerInv, StreamInv
  <1> QED  BY <1>1, ServerInvAlways, PTL

-----------------------------------------------------------------------------
(* Presence: what was broadcast last of a player tells whether he plays.     *)

LEMMA LastPacket ==
    ASSUME NEW s \in Seq(Packet), NEW packet \in Packet
    PROVE  /\ Len(s \o <<packet>>) = Len(s) + 1
           /\ DOMAIN (s \o <<packet>>) = 1..(Len(s) + 1)
           /\ (s \o <<packet>>)[Len(s) + 1] = packet
           /\ \A i \in 1..Len(s) : (s \o <<packet>>)[i] = s[i]
  <1> HIDE DEF Packet
  <1> QED  OBVIOUS

(* What one more packet does to what is announced of the player q.           *)
AnnouncedBy(h, q) ==
    \E i \in DOMAIN h :
        /\ h[i] = About("PLAYERNAME", q)
        /\ \A j \in (i + 1)..Len(h) : h[j] # About("PLAYERLEFT", q)

LEMMA AnnouncedNext ==
    ASSUME NEW h \in Seq(Packet), NEW packet \in Packet, NEW q \in Player
    PROVE  AnnouncedBy(h \o <<packet>>, q) <=>
               \/ packet = About("PLAYERNAME", q)
               \/ packet # About("PLAYERLEFT", q) /\ AnnouncedBy(h, q)
  <1> DEFINE g == h \o <<packet>>
  <1>1. /\ Len(g) = Len(h) + 1 /\ Len(h) \in Nat
        /\ DOMAIN g = 1..(Len(h) + 1) /\ DOMAIN h = 1..Len(h)
        /\ g[Len(h) + 1] = packet
        /\ \A i \in 1..Len(h) : g[i] = h[i]
    BY LastPacket
  <1> HIDE DEF g
  <1>2. About("PLAYERNAME", q) # About("PLAYERLEFT", q)
    BY DEF About
  <1>3. ASSUME packet = About("PLAYERNAME", q) PROVE AnnouncedBy(g, q)
    <2>1. /\ Len(h) + 1 \in DOMAIN g
          /\ \A j \in (Len(h) + 1 + 1)..Len(g) : FALSE
      BY <1>1
    <2> QED  BY <1>1, <1>3, <2>1 DEF AnnouncedBy
  <1>4. ASSUME packet # About("PLAYERLEFT", q), AnnouncedBy(h, q) PROVE AnnouncedBy(g, q)
    <2>1. PICK i \in DOMAIN h :
             /\ h[i] = About("PLAYERNAME", q)
             /\ \A j \in (i + 1)..Len(h) : h[j] # About("PLAYERLEFT", q)
      BY <1>4 DEF AnnouncedBy
    <2>2. /\ i \in DOMAIN g /\ g[i] = About("PLAYERNAME", q)
          /\ \A j \in (i + 1)..Len(g) : g[j] # About("PLAYERLEFT", q)
      BY <1>1, <1>4, <2>1
    <2> QED  BY <2>2 DEF AnnouncedBy
  <1>5. ASSUME AnnouncedBy(g, q), packet # About("PLAYERNAME", q)
        PROVE  packet # About("PLAYERLEFT", q) /\ AnnouncedBy(h, q)
    <2>1. PICK i \in DOMAIN g :
             /\ g[i] = About("PLAYERNAME", q)
             /\ \A j \in (i + 1)..Len(g) : g[j] # About("PLAYERLEFT", q)
      BY <1>5 DEF AnnouncedBy
    <2>2. i \in DOMAIN h /\ Len(h) + 1 \in (i + 1)..Len(g)
      BY <1>1, <1>5, <2>1
    <2>3. \A j \in (i + 1)..Len(h) : j \in 1..Len(h) /\ j \in (i + 1)..Len(g)
      BY <1>1, <2>2
    <2> QED  BY <1>1, <2>1, <2>2, <2>3 DEF AnnouncedBy
  <1>6. AnnouncedBy(g, q) <=>
            \/ packet = About("PLAYERNAME", q)
            \/ packet # About("PLAYERLEFT", q) /\ AnnouncedBy(h, q)
    BY <1>2, <1>3, <1>4, <1>5
  <1> QED  BY <1>6 DEF g

LEMMA AnnouncedNow ==
    ASSUME NEW q \in Player
    PROVE  /\ Announced(q) <=> AnnouncedBy(history, q)
           /\ Announced(q)' <=> AnnouncedBy(history', q)
  BY DEF Announced, AnnouncedBy

HistoryType == history \in Seq(Packet)

LEMMA KillPresenceAnnounced ==
    ASSUME SessionInv, HistoryType, PresenceAnnounced, NEW p \in Player,
           NEW flush \in BOOLEAN, Kill(p, flush)
    PROVE  PresenceAnnounced'
  <1>1. /\ history' = history \o <<About("PLAYERLEFT", p)>>
        /\ myState' = [myState EXCEPT ![p] = Killed(p, flush).state]
    BY DEF Kill, Announce, Broadcast
  <1>2. Killed(p, flush).state # "INGAME"
    BY DEF Killed
  <1>3. About("PLAYERLEFT", p) \in Packet
    BY DEF About, Packet
  <1>4. ASSUME NEW q \in Player PROVE myState'[q] = "INGAME" <=> Announced(q)'
    <2>1. Announced(q)' <=> q # p /\ Announced(q)
      <3>1. About("PLAYERLEFT", p) # About("PLAYERNAME", q)
        BY DEF About
      <3>2. About("PLAYERLEFT", p) = About("PLAYERLEFT", q) <=> p = q
        BY DEF About
      <3> QED  BY <1>1, <1>3, <3>1, <3>2, AnnouncedNext, AnnouncedNow DEF HistoryType
    <2> QED  BY <1>1, <1>2, <2>1 DEF PresenceAnnounced, SessionInv, SessionTypes
  <1> QED  BY <1>4 DEF PresenceAnnounced

(* Frames and the start of the game say nothing of players.                  *)
LEMMA FramesAnnounceNothing ==
    ASSUME HistoryType, PresenceAnnounced, NEW s \in Seq(Packet),
           \A i \in DOMAIN s : s[i].what \notin {"PLAYERNAME", "PLAYERLEFT"},
           history' = history \o s, myState' = myState
    PROVE  PresenceAnnounced'
  <1>1. /\ Len(history') = Len(history) + Len(s) /\ Len(history) \in Nat /\ Len(s) \in Nat
        /\ DOMAIN history' = 1..(Len(history) + Len(s)) /\ DOMAIN history = 1..Len(history)
        /\ DOMAIN s = 1..Len(s)
        /\ \A i \in 1..Len(history) : history'[i] = history[i]
        /\ \A i \in (Len(history) + 1)..(Len(history) + Len(s)) : history'[i] = s[i - Len(history)]
    <2> HIDE DEF Packet
    <2> QED  BY DEF HistoryType
  <1>2. \A i \in DOMAIN history' \ DOMAIN history :
           history'[i].what \notin {"PLAYERNAME", "PLAYERLEFT"}
    <2>1. ASSUME NEW i \in DOMAIN history' \ DOMAIN history
          PROVE  i - Len(history) \in DOMAIN s /\ history'[i] = s[i - Len(history)]
      BY <1>1
    <2> QED  BY <2>1
  <1>3. ASSUME NEW q \in Player PROVE Announced(q)' <=> Announced(q)
    <2>1. /\ About("PLAYERNAME", q).what = "PLAYERNAME"
          /\ About("PLAYERLEFT", q).what = "PLAYERLEFT"
      BY DEF About
    <2>2. ASSUME NEW i \in DOMAIN history', history'[i] = About("PLAYERNAME", q)
          PROVE  i \in DOMAIN history
      BY <1>2, <2>1, <2>2
    <2>3. ASSUME NEW i \in DOMAIN history,
                 \A j \in (i + 1)..Len(history) : history[j] # About("PLAYERLEFT", q)
          PROVE  \A j \in (i + 1)..Len(history') : history'[j] # About("PLAYERLEFT", q)
      <3> SUFFICES ASSUME NEW j \in (i + 1)..Len(history')
                   PROVE  history'[j] # About("PLAYERLEFT", q)
        OBVIOUS
      <3>1. CASE j \in DOMAIN history
        BY <1>1, <2>3, <3>1
      <3>2. CASE j \notin DOMAIN history
        <4>1. j \in DOMAIN history' \ DOMAIN history
          BY <1>1, <3>2
        <4> QED  BY <1>2, <2>1, <4>1
      <3> QED  BY <3>1, <3>2
    <2>4. ASSUME NEW i \in DOMAIN history,
                 \A j \in (i + 1)..Len(history') : history'[j] # About("PLAYERLEFT", q)
          PROVE  \A j \in (i + 1)..Len(history) : history[j] # About("PLAYERLEFT", q)
      BY <1>1, <2>4
    <2>5. Announced(q) => Announced(q)'
      <3>1. ASSUME Announced(q) PROVE Announced(q)'
        <4>1. PICK i \in DOMAIN history :
                 /\ history[i] = About("PLAYERNAME", q)
                 /\ \A j \in (i + 1)..Len(history) : history[j] # About("PLAYERLEFT", q)
          BY <3>1 DEF Announced
        <4>2. i \in DOMAIN history' /\ history'[i] = history[i]
          BY <1>1
        <4> QED  BY <2>3, <4>1, <4>2 DEF Announced
      <3> QED  BY <3>1
    <2>6. Announced(q)' => Announced(q)
      <3>1. ASSUME Announced(q)' PROVE Announced(q)
        <4>1. PICK i \in DOMAIN history' :
                 /\ history'[i] = About("PLAYERNAME", q)
                 /\ \A j \in (i + 1)..Len(history') : history'[j] # About("PLAYERLEFT", q)
          BY <3>1 DEF Announced
        <4>2. i \in DOMAIN history /\ history'[i] = history[i]
          BY <1>1, <2>2, <4>1
        <4> QED  BY <2>4, <4>1, <4>2 DEF Announced
      <3> QED  BY <3>1
    <2> QED  BY <2>5, <2>6
  <1> QED  BY <1>3 DEF PresenceAnnounced

LEMMA SamePresence ==
    ASSUME PresenceAnnounced, history' = history,
           \A q \in Player : myState'[q] = "INGAME" <=> myState[q] = "INGAME"
    PROVE  PresenceAnnounced'
  <1>1. \A q \in Player : Announced(q)' <=> Announced(q)
    BY DEF Announced
  <1> QED  BY <1>1 DEF PresenceAnnounced

LEMMA ConnectAnnounced ==
    ASSUME SessionInv, HistoryType, PresenceAnnounced, NEW p \in Player, NEW silent,
           Connect(p, silent)
    PROVE  PresenceAnnounced'
  <1>1. /\ history' = history \o Arrival(p)
        /\ myState' = [myState EXCEPT ![p] = "CONNECTED"]
        /\ clientLink[p] = NoLink \/ Present(p)
    BY DEF Connect
  <1>2. \A q \in Player : q # p => (myState'[q] = "INGAME" <=> myState[q] = "INGAME")
    BY <1>1 DEF SessionInv, SessionTypes
  <1>3. myState'[p] # "INGAME"
    BY <1>1 DEF SessionInv, SessionTypes
  <1>4. About("PLAYERLEFT", p) \in Packet /\ About("JOINTEAM", p) \in Packet
    BY DEF About, Packet
  <1>5. /\ \A q \in Player : About("JOINTEAM", p) # About("PLAYERLEFT", q)
        /\ \A q \in Player : About("JOINTEAM", p) # About("PLAYERNAME", q)
        /\ \A q \in Player : About("PLAYERLEFT", p) # About("PLAYERNAME", q)
        /\ \A q \in Player : About("PLAYERLEFT", p) = About("PLAYERLEFT", q) <=> p = q
    BY DEF About
  <1>6. CASE Present(p)
    <2>1. history' = (history \o <<About("PLAYERLEFT", p)>>) \o <<About("JOINTEAM", p)>>
      <3>1. Arrival(p) = <<About("PLAYERLEFT", p)>> \o <<About("JOINTEAM", p)>>
        BY <1>6 DEF Arrival
      <3>2. /\ <<About("PLAYERLEFT", p)>> \in Seq(Packet)
            /\ <<About("JOINTEAM", p)>> \in Seq(Packet)
        BY <1>4
      <3> QED  BY <1>1, <3>1, <3>2, ConcatAssociative DEF HistoryType
    <2>2. history \o <<About("PLAYERLEFT", p)>> \in Seq(Packet)
      <3>1. <<About("PLAYERLEFT", p)>> \in Seq(Packet)
        BY <1>4
      <3> QED  BY <3>1, ConcatProperties DEF HistoryType
    <2>3. ASSUME NEW q \in Player PROVE Announced(q)' <=> q # p /\ Announced(q)
      <3>1. AnnouncedBy(history', q) <=> AnnouncedBy(history \o <<About("PLAYERLEFT", p)>>, q)
        BY <1>4, <1>5, <2>1, <2>2, AnnouncedNext
      <3>2. AnnouncedBy(history \o <<About("PLAYERLEFT", p)>>, q) <=>
                p # q /\ AnnouncedBy(history, q)
        BY <1>4, <1>5, AnnouncedNext DEF HistoryType
      <3> QED  BY <3>1, <3>2, AnnouncedNow
    <2> QED  BY <1>2, <1>3, <2>3 DEF PresenceAnnounced
  <1>7. CASE ~Present(p)
    <2>1. history' = history \o <<About("JOINTEAM", p)>>
      BY <1>1, <1>4, <1>7 DEF Arrival, HistoryType
    <2>2. \A q \in Player : Announced(q)' <=> Announced(q)
      BY <1>4, <1>5, <2>1, AnnouncedNext, AnnouncedNow DEF HistoryType
    <2>3. myState[p] # "INGAME"
      BY <1>1, <1>7, LinkParts DEF SessionInv, LinkOK
    <2> QED  BY <1>2, <1>3, <2>2, <2>3 DEF PresenceAnnounced
  <1> QED  BY <1>6, <1>7

LEMMA NextPresence == ServerInv /\ PresenceAnnounced /\ Next => PresenceAnnounced'
  <1> SUFFICES ASSUME ServerInv, PresenceAnnounced, Next PROVE PresenceAnnounced'
    OBVIOUS
  <1>0. SessionInv /\ HistoryType /\ next \in Player
    BY DEF ServerInv, SessionInv, SessionTypes, StreamInv, StreamTypes, HistoryType
  <1> USE DEF session, broadcasts
  <1>1. ASSUME NEW p \in Player, NEW silent, RejectConnection(p, silent)
        PROVE  PresenceAnnounced'
    BY <1>1, SamePresence DEF RejectConnection
  <1>2. ASSUME NEW p \in Player, NEW silent, Reconnect(p, silent)
        PROVE  PresenceAnnounced'
    BY <1>2, SamePresence DEF Reconnect
  <1>3. ASSUME NEW p \in Player, NEW silent, Connect(p, silent) PROVE PresenceAnnounced'
    BY <1>0, <1>3, ConnectAnnounced
  <1>4. ASSUME NEW p \in Player, Revive(p) PROVE PresenceAnnounced'
    <2>1. /\ history' = history /\ myState[p] = "DISCONNECTING"
          /\ myState' = [myState EXCEPT ![p] = "CONNECTED"]
      BY <1>4 DEF Revive, Present
    <2>2. \A q \in Player : myState'[q] = "INGAME" <=> myState[q] = "INGAME"
      BY <1>0, <2>1 DEF SessionInv, SessionTypes
    <2> QED  BY <2>1, <2>2, SamePresence
  <1>5. ASSUME NEW p \in Player, KickPlayer(p) PROVE PresenceAnnounced'
    BY <1>0, <1>5, KillPresenceAnnounced DEF KickPlayer
  <1>6. CASE NoMoreAttempts \/ ReadNothing \/ StartLater \/ NextRound
             \/ (\E late \in BOOLEAN : CountDown(late)) \/ ReadSyncResponse
    BY <1>6, SamePresence
    DEF NoMoreAttempts, ReadNothing, StartLater, NextRound, CountDown, ReadSyncResponse
  <1>7. CASE TimeOut
    BY <1>0, <1>7, KillPresenceAnnounced DEF TimeOut
  <1>8. CASE ReadQuit
    BY <1>0, <1>8, KillPresenceAnnounced DEF ReadQuit
  <1>9. CASE ReadPlayerName
    <2>1. /\ history' = history \o <<About("PLAYERNAME", next)>>
          /\ myState' = [myState EXCEPT ![next] = "INGAME"]
      BY <1>9 DEF ReadPlayerName, Broadcast
    <2>2. About("PLAYERNAME", next) \in Packet
      BY <1>0 DEF About, Packet
    <2>3. ASSUME NEW q \in Player PROVE Announced(q)' <=> q = next \/ Announced(q)
      <3>1. About("PLAYERNAME", next) # About("PLAYERLEFT", q)
        BY DEF About
      <3>2. About("PLAYERNAME", next) = About("PLAYERNAME", q) <=> q = next
        BY DEF About
      <3> QED  BY <1>0, <2>1, <2>2, <3>1, <3>2, AnnouncedNext, AnnouncedNow DEF HistoryType
    <2> QED  BY <1>0, <2>1, <2>3 DEF PresenceAnnounced, SessionInv, SessionTypes
  <1>10. ASSUME NEW expired \in SUBSET Player, ExpireConnections(expired)
         PROVE  PresenceAnnounced'
    BY <1>10, SamePresence DEF ExpireConnections
  <1>11. ASSUME NEW n \in Nat, NEW start \in Seq(Packet), NEW cache, NEW started,
                \A i \in DOMAIN start : start[i].what \notin {"PLAYERNAME", "PLAYERLEFT"},
                CreateNewFrame(n, start, cache, started), myState' = myState
         PROVE  PresenceAnnounced'
    <2> DEFINE s == start \o [i \in 1..n |-> Frame]
    <2>1. s \in Seq(Packet)
      BY FramesTyped
    <2>2. \A i \in DOMAIN s : s[i].what \notin {"PLAYERNAME", "PLAYERLEFT"}
      <3>1. Frame.what = "NEWFRAME"
        BY DEF Frame, Own
      <3>2. ASSUME NEW i \in DOMAIN s PROVE (i \in DOMAIN start /\ s[i] = start[i]) \/ s[i] = Frame
        OBVIOUS
      <3> QED  BY <1>11, <3>1, <3>2
    <2>3. history' = history \o s
      BY <1>11 DEF CreateNewFrame, Broadcast
    <2> HIDE DEF s
    <2> QED  BY <1>0, <1>11, <2>1, <2>2, <2>3, FramesAnnounceNothing
  <1>12. ASSUME NEW n \in Nat, StartGame(n) PROVE PresenceAnnounced'
    <2>1. Own("STARTPLAYING") \in Packet /\ Own("STARTPLAYING").what = "STARTPLAYING"
      BY DEF Own, Packet
    <2>2. <<Own("STARTPLAYING")>> \in Seq(Packet)
      BY <2>1
    <2>3. \A i \in DOMAIN <<Own("STARTPLAYING")>> :
             <<Own("STARTPLAYING")>>[i].what \notin {"PLAYERNAME", "PLAYERLEFT"}
      BY <2>1
    <2> QED  BY <1>11, <1>12, <2>2, <2>3 DEF StartGame
  <1>13. ASSUME NEW n \in Nat, NewFrames(n) PROVE PresenceAnnounced'
    <2>1. <<>> \in Seq(Packet) /\ DOMAIN <<>> = {}
      OBVIOUS
    <2> QED  BY <1>11, <1>13, <2>1 DEF NewFrames
  <1>14. 0 .. MaxNewFrames \subseteq Nat
    BY GameServerAssumption
  <1> QED
    BY <1>1, <1>2, <1>3, <1>4, <1>5, <1>6, <1>7, <1>8, <1>9, <1>10, <1>12, <1>13, <1>14
    DEF Next

(* What was broadcast tells every client exactly who is in the game, over    *)
(* reconnections, kicks and timeouts.                                        *)
THEOREM PresenceIsAnnounced == Spec => []PresenceAnnounced
  <1>1. Init => PresenceAnnounced
    BY DEF Init, PresenceAnnounced, Announced
  <1>2. PresenceAnnounced /\ UNCHANGED vars => PresenceAnnounced'
    BY SamePresence DEF vars, session, broadcasts
  <1> QED  BY <1>1, <1>2, NextPresence, ServerInvAlways, PTL DEF Spec

-----------------------------------------------------------------------------
(* Frames that wait for checksums.                                           *)

LEMMA FramesAreCounted ==
    ASSUME NEW s \in Seq(Packet)
    PROVE  IsFiniteSet({i \in DOMAIN s : s[i] = Frame}) /\ Frames(s) \in Nat
  <1>1. IsFiniteSet(1..Len(s)) /\ {i \in DOMAIN s : s[i] = Frame} \subseteq 1..Len(s)
    BY FS_Interval
  <1>2. IsFiniteSet({i \in DOMAIN s : s[i] = Frame})
    BY <1>1, FS_Subset
  <1> QED  BY <1>2, FS_CardinalityType DEF Frames

(* A packet that is not a frame, and n frames.                               *)
LEMMA NoFrameMore ==
    ASSUME NEW s \in Seq(Packet), NEW packet \in Packet, packet # Frame
    PROVE  Frames(s \o <<packet>>) = Frames(s)
  <1> DEFINE t == s \o <<packet>>
  <1>1. /\ DOMAIN t = 1..(Len(s) + 1) /\ DOMAIN s = 1..Len(s) /\ Len(s) \in Nat
        /\ t[Len(s) + 1] = packet
        /\ \A i \in 1..Len(s) : t[i] = s[i]
    BY LastPacket
  <1> HIDE DEF t
  <1>2. {i \in DOMAIN t : t[i] = Frame} = {i \in DOMAIN s : s[i] = Frame}
    BY <1>1
  <1> QED  BY <1>2 DEF Frames, t

LEMMA NextNumbers ==
    ASSUME NEW a \in Nat, NEW n \in Nat
    PROVE  IsFiniteSet((a + 1)..(a + n)) /\ Cardinality((a + 1)..(a + n)) = n
  <1>1. a + 1 \in Int /\ a + n \in Int
    OBVIOUS
  <1>2. /\ IsFiniteSet((a + 1)..(a + n))
        /\ Cardinality((a + 1)..(a + n)) = IF a + 1 > a + n THEN 0 ELSE (a + n) - (a + 1) + 1
    BY <1>1, FS_Interval
  <1> QED  BY <1>2

LEMMA FramesMore ==
    ASSUME NEW s \in Seq(Packet), NEW n \in Nat
    PROVE  Frames(s \o [i \in 1..n |-> Frame]) = Frames(s) + n
  <1> DEFINE t == s \o [i \in 1..n |-> Frame]
             A == {i \in DOMAIN s : s[i] = Frame}
             B == (Len(s) + 1)..(Len(s) + n)
  <1>1. /\ Len(s) \in Nat /\ DOMAIN s = 1..Len(s) /\ DOMAIN t = 1..(Len(s) + n)
        /\ \A i \in 1..Len(s) : t[i] = s[i]
        /\ \A i \in B : t[i] = Frame
    <2> HIDE DEF Packet
    <2> QED  OBVIOUS
  <1> HIDE DEF t
  <1>2. {i \in DOMAIN t : t[i] = Frame} = A \cup B /\ A \cap B = {}
    BY <1>1
  <1>3. IsFiniteSet(A)
    BY FramesAreCounted
  <1>4. IsFiniteSet(B) /\ Cardinality(B) = n
    BY <1>1, NextNumbers
  <1> HIDE DEF A, B
  <1>5. Cardinality(A \cup B) = Cardinality(A) + Cardinality(B) - Cardinality(A \cap B)
    BY <1>3, <1>4, FS_Union
  <1>6. Cardinality(A \cap B) = 0
    BY <1>2, FS_EmptySet
  <1>7. Cardinality(A) \in Nat
    BY <1>3, FS_CardinalityType
  <1>8. Frames(s) = Cardinality(A) /\ Frames(t) = Cardinality(A \cup B)
    BY <1>2 DEF Frames, A
  <1> QED  BY <1>4, <1>5, <1>6, <1>7, <1>8 DEF t

FrameInv ==
    /\ outstandingSyncFrames \in SUBSET Nat
    /\ ~gameHasStarted => outstandingSyncFrames = {}
    /\ FramesAwaitThePresent

(* CreateNewFrame of n frames, when nothing else that counts is broadcast.   *)
LEMMA NewFramesAwaited ==
    ASSUME ServerInv, FrameInv, NEW n \in 0..MaxNewFrames, NEW start \in Seq(Packet),
           start = <<>> \/ \E packet \in Packet : packet # Frame /\ start = <<packet>>,
           NEW cache, NEW started, CreateNewFrame(n, start, cache, started),
           gameHasStarted' = TRUE, UNCHANGED <<myState, clientLink>>
    PROVE  FrameInv'
  <1> DEFINE kept == {f \in outstandingSyncFrames : ~completeResponseSet(f)}
  <1>1. /\ history' = history \o (start \o [i \in 1..n |-> Frame])
        /\ outstandingSyncFrames' =
              kept \union (serverFrameNum + 1)..(serverFrameNum + n)
        /\ syncResponse' = [p \in Player |->
              IF myState[p] \in {"DISCONNECTING", "DISCONNECTED"}
              THEN syncResponse[p] ELSE syncResponse[p] \intersect kept]
    BY DEF CreateNewFrame, Broadcast
  <1>2. history \in Seq(Packet) /\ n \in Nat /\ n <= MaxNewFrames
        /\ SyncTimeout \in Nat /\ MaxNewFrames \in Nat \ {0}
    BY GameServerAssumption DEF ServerInv, StreamInv, StreamTypes
  <1>3. serverFrameNum \in Nat /\ serverFrameNum' = serverFrameNum + n
    <2>1. [i \in 1..n |-> Frame] \in Seq(Packet)
      <3>1. Frame \in Packet
        BY DEF Frame, Own, Packet
      <3> HIDE DEF Packet
      <3> QED  BY <1>2, <3>1
    <2>2. history' = (history \o start) \o [i \in 1..n |-> Frame]
      <3>1. \A a, b, c \in Seq(Packet) : (a \o b) \o c = a \o (b \o c)
        BY ConcatAssociative
      <3> HIDE DEF Packet
      <3> QED  BY <1>1, <1>2, <2>1, <3>1
    <2>3. history \o start \in Seq(Packet) /\ Frames(history \o start) = Frames(history)
      <3>1. CASE start = <<>>
        BY <1>2, <3>1, ConcatEmptySeq
      <3>2. CASE \E packet \in Packet : packet # Frame /\ start = <<packet>>
        BY <1>2, <3>2, NoFrameMore, ConcatProperties
      <3> QED  BY <3>1, <3>2
    <2>4. Frames(history') = Frames(history) + n
      BY <1>2, <2>2, <2>3, FramesMore
    <2> QED  BY <1>2, <2>4, FramesAreCounted DEF serverFrameNum
  <1>4. outstandingSyncFrames \subseteq Nat
    BY DEF FrameInv
  <1>5. outstandingSyncFrames' \subseteq Nat
    <2>1. (serverFrameNum + 1)..(serverFrameNum + n) \subseteq Nat
      BY <1>2, <1>3
    <2> QED  BY <1>1, <1>4, <2>1
  <1>6. \A p \in Player : Present(p)' <=> Present(p)
    BY DEF Present
  <1>7. ASSUME NEW f \in kept
        PROVE  /\ f + SyncTimeout >= serverFrameNum
               /\ \E p \in Player : Present(p)' /\ f \notin syncResponse'[p]
    <2>1. f \in Nat /\ ~(f + SyncTimeout < serverFrameNum)
      BY <1>4 DEF completeResponseSet
    <2>2. PICK p \in Player : Present(p) /\ f \notin syncResponse[p]
      BY DEF completeResponseSet
    <2>3. f \notin syncResponse'[p]
      BY <1>1, <2>2
    <2> QED  BY <1>2, <1>3, <1>6, <2>1, <2>2, <2>3
  <1>8. ASSUME NEW f \in outstandingSyncFrames'
        PROVE  /\ f + SyncTimeout + MaxNewFrames >= serverFrameNum'
               /\ \/ f + MaxNewFrames > serverFrameNum'
                  \/ \E p \in Player : Present(p)' /\ f \notin syncResponse'[p]
    <2>1. f \in Nat
      BY <1>5
    <2>2. CASE f \in kept
      <3>1. f + SyncTimeout >= serverFrameNum
        BY <1>7, <2>2
      <3>2. f + SyncTimeout + MaxNewFrames >= serverFrameNum'
        BY <1>2, <1>3, <2>1, <3>1
      <3> QED  BY <1>7, <2>2, <3>2
    <2>3. CASE f \in (serverFrameNum + 1)..(serverFrameNum + n)
      BY <1>2, <1>3, <2>1, <2>3
    <2> QED  BY <1>1, <2>2, <2>3
  <1>9. FramesAwaitThePresent'
    BY <1>8 DEF FramesAwaitThePresent
  <1> QED  BY <1>5, <1>9 DEF FrameInv

(* Steps that create no frames do not lead to where they are looked at.      *)
LEMMA OtherFrames ==
    ASSUME FrameInv, outstandingSyncFrames' = outstandingSyncFrames,
           gameHasStarted' = gameHasStarted,
           place' # "host" \/ (~gameHasStarted /\ outstandingSyncFrames' = {})
    PROVE  FrameInv'
  BY DEF FrameInv, FramesAwaitThePresent

LEMMA NextFrames == ServerInv /\ FrameInv /\ Next => FrameInv'
  <1> SUFFICES ASSUME ServerInv, FrameInv, Next PROVE FrameInv'
    OBVIOUS
  <1> USE DEF game
  <1>1. ASSUME NEW p \in Player, NEW silent,
               RejectConnection(p, silent) \/ Reconnect(p, silent) \/ Connect(p, silent)
        PROVE  FrameInv'
    BY <1>1, OtherFrames DEF RejectConnection, Reconnect, Connect, NewClient
  <1>2. ASSUME NEW p \in Player, Revive(p) \/ KickPlayer(p) PROVE FrameInv'
    BY <1>2, OtherFrames DEF Revive, NewClient, KickPlayer
  <1>3. CASE NoMoreAttempts \/ NextRound \/ (\E late \in BOOLEAN : CountDown(late))
    BY <1>3, OtherFrames DEF NoMoreAttempts, NextRound, CountDown
  <1>4. CASE ReadNothing \/ TimeOut \/ ReadPlayerName \/ ReadSyncResponse \/ ReadQuit
    BY <1>4, OtherFrames
    DEF ReadNothing, TimeOut, ReadPlayerName, ReadSyncResponse, ReadQuit, NextPlayer
  <1>5. ASSUME NEW expired \in SUBSET Player, ExpireConnections(expired) PROVE FrameInv'
    BY <1>5, OtherFrames DEF ExpireConnections
  <1>6. CASE StartLater
    BY <1>6, OtherFrames DEF StartLater, FrameInv
  <1>7. ASSUME NEW n \in 0..MaxNewFrames, StartGame(n) PROVE FrameInv'
    <2>1. Own("STARTPLAYING") \in Packet /\ Own("STARTPLAYING") # Frame
      BY DEF Own, Packet, Frame
    <2>2. <<Own("STARTPLAYING")>> \in Seq(Packet)
      BY <2>1
    <2> QED  BY <1>7, <2>1, <2>2, NewFramesAwaited DEF StartGame
  <1>8. ASSUME NEW n \in 0..MaxNewFrames, NewFrames(n) PROVE FrameInv'
    <2>1. <<>> \in Seq(Packet)
      OBVIOUS
    <2>2. gameHasStarted' = TRUE
      BY <1>8 DEF NewFrames, ServerInv, Booleans
    <2> QED  BY <1>8, <2>1, <2>2, NewFramesAwaited DEF NewFrames
  <1> QED  BY <1>1, <1>2, <1>3, <1>4, <1>5, <1>6, <1>7, <1>8 DEF Next

LEMMA FrameInvAlways == Spec => []FrameInv
  <1>1. Init => FrameInv
    BY DEF Init, FrameInv, FramesAwaitThePresent
  <1>2. FrameInv /\ UNCHANGED vars => FrameInv'
    BY DEF vars, game, session, broadcasts, FrameInv, FramesAwaitThePresent,
           serverFrameNum, Present
  <1> QED  BY <1>1, <1>2, NextFrames, ServerInvAlways, PTL DEF Spec

(* After a check, a frame of an earlier round waits only for somebody who is *)
(* there, and not longer than SYNCCHECK_TIMEOUT frames.                      *)
THEOREM NobodyWaitsForTheGone == Spec => []FramesAwaitThePresent
  <1>1. FrameInv => FramesAwaitThePresent
    BY DEF FrameInv
  <1> QED  BY <1>1, FrameInvAlways, PTL

-----------------------------------------------------------------------------
(* Types: those of the invariants above, and of what is left.                *)

HeardOf == [name : BOOLEAN, frames : Nat]
OtherTypes ==
    /\ place \in {"connect", "read", "process", "update", "advance", "host", "quit"}
    /\ accepting \in BOOLEAN /\ readyTime \in BOOLEAN /\ earlyReturn \in BOOLEAN
    /\ heard \in [Player -> HeardOf]

LEMMA HeardTyped ==
    /\ Unheard \in HeardOf
    /\ \A r \in HeardOf : /\ [r EXCEPT !.name = TRUE] \in HeardOf
                          /\ [r EXCEPT !.frames = r.frames + 1] \in HeardOf
  <1>1. Unheard \in HeardOf
    BY DEF Unheard, HeardOf
  <1>2. ASSUME NEW r \in HeardOf PROVE [r EXCEPT !.name = TRUE] \in HeardOf
    BY DEF HeardOf
  <1>3. ASSUME NEW r \in HeardOf PROVE [r EXCEPT !.frames = r.frames + 1] \in HeardOf
    BY DEF HeardOf
  <1> QED  BY <1>1, <1>2, <1>3

LEMMA KillTypes ==
    ASSUME OtherTypes, NEW p \in Player, NEW flush, Kill(p, flush), NextPlayer \/ place' = "connect",
           UNCHANGED <<accepting, readyTime, earlyReturn>>
    PROVE  OtherTypes'
  <1>1. heard' = [heard EXCEPT ![p] = Unheard]
    BY DEF Kill
  <1> QED  BY <1>1, HeardTyped DEF OtherTypes, NextPlayer

LEMMA NextTypes == ServerInv /\ OtherTypes /\ Next => OtherTypes'
  <1> SUFFICES ASSUME ServerInv, OtherTypes, Next PROVE OtherTypes'
    OBVIOUS
  <1>0. next \in Player /\ canReconnect \in BOOLEAN
    BY DEF ServerInv, SessionInv, SessionTypes, Booleans
  <1> USE DEF game, setting, clients
  <1>1. ASSUME NEW p \in Player, NEW silent,
               RejectConnection(p, silent) \/ Reconnect(p, silent)
        PROVE  OtherTypes'
    BY <1>1 DEF OtherTypes, RejectConnection, Reconnect, NewClient
  <1>2. ASSUME NEW p \in Player, NEW silent, Connect(p, silent) PROVE OtherTypes'
    <2>1. heard' = [heard EXCEPT ![p] = Unheard]
      BY <1>2 DEF Connect
    <2> QED  BY <1>2, <2>1, HeardTyped DEF OtherTypes, Connect, NewClient
  <1>3. ASSUME NEW p \in Player, Revive(p) PROVE OtherTypes'
    BY <1>3 DEF OtherTypes, Revive, NewClient
  <1>4. ASSUME NEW p \in Player, KickPlayer(p) PROVE OtherTypes'
    BY <1>4, KillTypes DEF KickPlayer
  <1>5. CASE NoMoreAttempts \/ NextRound \/ StartLater \/ ReadNothing
             \/ (\E late \in BOOLEAN : CountDown(late))
    BY <1>5 DEF OtherTypes, NoMoreAttempts, NextRound, StartLater, ReadNothing, NextPlayer,
                CountDown
  <1>6. CASE TimeOut \/ ReadQuit
    BY <1>0, <1>6, KillTypes DEF TimeOut, ReadQuit
  <1>7. CASE ReadPlayerName
    <2>1. heard' = [heard EXCEPT ![next] = [heard[next] EXCEPT !.name = TRUE]]
      BY <1>7 DEF ReadPlayerName
    <2>2. heard' \in [Player -> HeardOf]
      BY <1>0, <2>1, HeardTyped DEF OtherTypes
    <2> QED  BY <1>7, <2>2 DEF OtherTypes, ReadPlayerName
  <1>8. CASE ReadSyncResponse
    <2>1. heard' = [heard EXCEPT ![next] =
                       [heard[next] EXCEPT !.frames = heard[next].frames + 1]]
      BY <1>8 DEF ReadSyncResponse
    <2>2. heard' \in [Player -> HeardOf]
      BY <1>0, <2>1, HeardTyped DEF OtherTypes
    <2> QED  BY <1>8, <2>2 DEF OtherTypes, ReadSyncResponse
  <1>9. ASSUME NEW expired \in SUBSET Player, ExpireConnections(expired) PROVE OtherTypes'
    BY <1>9 DEF OtherTypes, ExpireConnections
  <1>10. ASSUME NEW n, StartGame(n) PROVE OtherTypes'
    <2>1. accepting' = (accepting /\ canReconnect)
      BY <1>10 DEF StartGame
    <2>2. accepting' \in BOOLEAN
      BY <2>1, Zenon
    <2>3. place' = "host" /\ UNCHANGED <<readyTime, earlyReturn, heard>>
      BY <1>10 DEF StartGame
    <2> QED  BY <2>2, <2>3, Zenon DEF OtherTypes
  <1>11. ASSUME NEW n, NewFrames(n) PROVE OtherTypes'
    BY <1>11 DEF OtherTypes, NewFrames
  <1> QED
    BY <1>1, <1>2, <1>3, <1>4, <1>5, <1>6, <1>7, <1>8, <1>9, <1>10, <1>11 DEF Next

(* Every variable has its type, for any number of players and frames.        *)
THEOREM TypeCorrect == Spec => []TypeOK
  <1>1. Init => OtherTypes
    BY GameServerAssumption, HeardTyped DEF Init, OtherTypes
  <1>2. OtherTypes /\ UNCHANGED vars => OtherTypes'
    BY DEF OtherTypes, vars, game, setting, clients
  <1>3. Spec => []OtherTypes
    BY <1>1, <1>2, NextTypes, ServerInvAlways, PTL DEF Spec
  <1>4. ASSUME ServerInv, ResponseInv, FrameInv, OtherTypes PROVE TypeOK
    <2>1. syncResponse \in [Player -> SUBSET Nat]
      BY <1>4 DEF ResponseInv, FrameInv
    <2> QED
      BY <1>4, <2>1 DEF TypeOK, ServerInv, SessionInv, SessionTypes, StreamInv,
                         StreamTypes, Booleans, FrameInv, OtherTypes,
                         HeardOf
  <1> QED  BY <1>3, <1>4, ServerInvAlways, ResponseInvAlways, FrameInvAlways, PTL
=============================================================================
