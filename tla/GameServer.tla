----------------------------- MODULE GameServer -----------------------------
(***************************************************************************)
(* CGameServer and its GameParticipants: connection attempts, the life of a *)
(* player's session, what is broadcast and kept for players who come later, *)
(* the start of the game, new frames and the checksums that answer them.    *)
(*                                                                         *)
(* UpdateLoop is one thread: after udpListener->Update come ServerReadNet   *)
(* (connection attempts, then player by player) and Update, under a mutex.  *)
(* What the network and the clients do is seen when an attempt or a player  *)
(* is handled, and needs no steps of its own.                               *)
(*                                                                         *)
(* The server is dedicated (no local client), plays no demo and admits only *)
(* the players of the start script, who give the right version and password.*)
(* A player runs one client program at a time: with a new one the former    *)
(* has ended, although the server may not know yet.                         *)
(***************************************************************************)
EXTENDS Naturals, Sequences, SequencesExt, FiniteSets

CONSTANTS
    NumPlayers,     \* players of the start script
    ReconnectTimeout,   \* subset of BOOLEAN: is globalConfig.reconnectTimeout > 0?
    SyncTimeout,    \* SYNCCHECK_TIMEOUT, in frames
    EarlyReturn,    \* subset of BOOLEAN: may a player start a new client while
                    \* his former connection is being closed?
    MaxPrograms,    \* bound of the model: client programs that each player starts
    MaxNewFrames,   \* bound: new frames in one round of the loop
    MaxBroadcasts   \* bound: packets that are broadcast

ASSUME GameServerAssumption ==
    /\ NumPlayers \in Nat \ {0}
    /\ ReconnectTimeout \subseteq BOOLEAN /\ EarlyReturn \subseteq BOOLEAN
    /\ SyncTimeout \in Nat
    /\ MaxPrograms \in [1..NumPlayers -> Nat]
    /\ MaxNewFrames \in Nat \ {0} /\ MaxBroadcasts \in Nat

Player == 1..NumPlayers
State == {"UNCONNECTED", "CONNECTED", "INGAME", "DISCONNECTING", "DISCONNECTED"}
NoLink == 0
Unheard == [name |-> FALSE, frames |-> 0]

VARIABLES
    place,          \* where UpdateLoop is
    next,           \* the player that ServerReadNet reads next
    accepting,      \* does udpListener accept connections?
    myState,
    clientLink,     \* the client program at the other end, or NoLink
    loopback,       \* is there aiClientLinks[MAX_AIS].link?
    syncResponse,   \* frames whose checksum the player has sent
    outstandingSyncFrames,
    canReconnect, gameHasStarted,
    readyTime,      \* is it set?
    packetCache,
    history,        \* everything that was ever broadcast
    reconnectTimeout, earlyReturn,  \* see ReconnectTimeout, EarlyReturn
    programs,       \* client programs that each player has started
    received,       \* what the present one was sent
    heard           \* what was read of it: its name, how many checksums

session == <<myState, clientLink, loopback, syncResponse>>
game == <<accepting, canReconnect, gameHasStarted, readyTime>>
broadcasts == <<packetCache, history>>
setting == <<reconnectTimeout, earlyReturn>>
clients == <<programs, received, heard>>
vars == <<place, next, session, outstandingSyncFrames, game, broadcasts,
          setting, clients>>

Init ==
    /\ place = "connect" /\ next = 1
    /\ accepting = TRUE
    /\ myState = [p \in Player |-> "UNCONNECTED"]
    /\ clientLink = [p \in Player |-> NoLink]
    /\ loopback = [p \in Player |-> FALSE]
    /\ syncResponse = [p \in Player |-> {}]
    /\ outstandingSyncFrames = {}
    /\ canReconnect = FALSE /\ gameHasStarted = FALSE /\ readyTime = FALSE
    /\ packetCache = <<>> /\ history = <<>>
    /\ reconnectTimeout \in ReconnectTimeout /\ earlyReturn \in EarlyReturn
    /\ programs = [p \in Player |-> 0]
    /\ received = [p \in Player |-> <<>>]
    /\ heard = [p \in Player |-> Unheard]

-----------------------------------------------------------------------------
(* Packets.  Those of everyday play, chat and the countdown are left out.   *)

Own(what) == [what |-> what, who |-> 0]         \* not about a player
About(what, p) == [what |-> what, who |-> p]
Frame == Own("NEWFRAME")
Welcome == <<Own("GAMEDATA"), Own("SETPLAYERNUM")>>
Frames(s) == Cardinality({i \in DOMAIN s : s[i] = Frame})
serverFrameNum == Frames(history)       \* frames count from 1 here

(* Who gets what GameParticipant::SendData is given.                        *)
Present(p) == clientLink[p] # NoLink /\ myState[p] # "DISCONNECTING"

(* Broadcast to the players R, with the packets that were cached before:    *)
(* the cache is fed as long as somebody may come later.                     *)
Broadcast(s, R, cache, started) ==
    /\ Len(history) + Len(s) <= MaxBroadcasts
    /\ received' = [p \in Player |->
                       IF ~Present(p) THEN received[p]
                       ELSE IF p \in R THEN received[p] \o s ELSE <<>>]
    /\ packetCache' = IF canReconnect \/ ~started THEN cache \o s ELSE cache
    /\ history' = history \o s

(* Kill, after the Broadcast of PlayerLeft that all callers put before it.  *)
(* With flush the link is kept for a while to get the last messages out; a  *)
(* link that is already in that state keeps it.                             *)
Killed(p, flush) ==
    IF clientLink[p] # NoLink /\ (flush \/ myState[p] = "DISCONNECTING")
    THEN [state |-> "DISCONNECTING", link |-> clientLink[p]]
    ELSE [state |-> "DISCONNECTED", link |-> NoLink]
Announce(p) ==
    Broadcast(<<About("PLAYERLEFT", p)>>, Player \ {p}, packetCache, gameHasStarted)

(* Mutants of Kill: the relay to the player is left open; his checksums are *)
(* kept; the others are not told.                                           *)
KillRelaying(p, flush) ==
    /\ myState' = [myState EXCEPT ![p] = Killed(p, flush).state]
    /\ clientLink' = [clientLink EXCEPT ![p] = Killed(p, flush).link]
    /\ syncResponse' = [syncResponse EXCEPT ![p] = {}]
    /\ heard' = [heard EXCEPT ![p] = Unheard]
    /\ Announce(p) /\ UNCHANGED loopback
KillKeepingResponses(p, flush) ==
    /\ myState' = [myState EXCEPT ![p] = Killed(p, flush).state]
    /\ clientLink' = [clientLink EXCEPT ![p] = Killed(p, flush).link]
    /\ loopback' = [loopback EXCEPT ![p] = FALSE]
    /\ heard' = [heard EXCEPT ![p] = Unheard]
    /\ Announce(p) /\ UNCHANGED syncResponse
KillSilently(p, flush) ==
    /\ myState' = [myState EXCEPT ![p] = Killed(p, flush).state]
    /\ clientLink' = [clientLink EXCEPT ![p] = Killed(p, flush).link]
    /\ loopback' = [loopback EXCEPT ![p] = FALSE]
    /\ syncResponse' = [syncResponse EXCEPT ![p] = {}]
    /\ heard' = [heard EXCEPT ![p] = Unheard]
    /\ UNCHANGED <<received, broadcasts>>

Kill(p, flush) ==
    /\ myState' = [myState EXCEPT ![p] = Killed(p, flush).state]
    /\ clientLink' = [clientLink EXCEPT ![p] = Killed(p, flush).link]
    /\ loopback' = [loopback EXCEPT ![p] = FALSE]
    /\ syncResponse' = [syncResponse EXCEPT ![p] = {}]
    /\ heard' = [heard EXCEPT ![p] = Unheard]
    /\ Announce(p)

-----------------------------------------------------------------------------
(* HandleConnectionAttempts and BindConnection.  An attempt opens a new     *)
(* connection, as udpListener has none for its address; so the address of a *)
(* reconnection always differs from that of the player's link.  A rejected  *)
(* attempt changes nothing but canReconnect.                                *)

nowReconnectable == canReconnect \/ reconnectTimeout    \* CanReconnect()

(* GetConnectionFlags, for a player whose link is silent (for               *)
(* reconnectTimeout) or not.                                                *)
allowConnect(p, reconnect, silent) ==
    IF Present(p) THEN nowReconnectable /\ silent
    ELSE ~reconnect /\ (nowReconnectable \/ ~gameHasStarted)

(* The player starts a client program, which sends NETMSG_ATTEMPTCONNECT.   *)
NewClient(p) ==
    /\ place = "connect" /\ accepting
    /\ programs[p] < MaxPrograms[p]
    /\ myState[p] = "DISCONNECTING" => earlyReturn
    /\ programs' = [programs EXCEPT ![p] = @ + 1]
    /\ canReconnect' = nowReconnectable
    /\ UNCHANGED <<place, next, outstandingSyncFrames, accepting, gameHasStarted,
                   readyTime, setting>>

(* He is not heard: the game has started, or he is there already.           *)
RejectConnection(p, silent) ==
    /\ NewClient(p)
    /\ ~allowConnect(p, FALSE, silent)
    /\ UNCHANGED <<session, broadcasts, received, heard>>

(* "there is an open link -> reconnect": a running program that no longer   *)
(* hears the server (AttemptReconnect) gets its link and its session back...*)
Reconnect(p, silent) ==
    /\ place = "connect" /\ accepting
    /\ clientLink[p] # NoLink /\ clientLink[p] = programs[p]
    /\ allowConnect(p, TRUE, silent)
    /\ canReconnect' = nowReconnectable
    /\ UNCHANGED <<place, next, session, outstandingSyncFrames, accepting,
                   gameHasStarted, readyTime, broadcasts, setting, clients>>

(* ... and so does a new one, if the link is kept for the last messages.    *)
Revive(p) ==
    /\ NewClient(p)
    /\ clientLink[p] # NoLink /\ ~Present(p) /\ allowConnect(p, FALSE, FALSE)
    /\ clientLink' = [clientLink EXCEPT ![p] = programs[p] + 1]
    /\ myState' = [myState EXCEPT ![p] = "CONNECTED"]
    /\ UNCHANGED <<loopback, syncResponse, broadcasts, received, heard>>

(* Broadcasts of a new connection of p: he leaves, if his former link is    *)
(* terminated, and joins his team.                                          *)
Arrival(p) ==
    (IF Present(p) THEN <<About("PLAYERLEFT", p)>> ELSE <<>>)
        \o <<About("JOINTEAM", p)>>

(* Mutant: the cache is sent without what is broadcast of his arrival.      *)
MissedBeforeArrival(p) ==
    Welcome \o <<About("JOINTEAM", p)>> \o packetCache

(* All that the client of a new connection is sent at once.                 *)
Missed(p) ==
    Welcome \o <<About("JOINTEAM", p)>> \o packetCache \o Arrival(p)

(* A new connection, for which a link that is there and silent is killed    *)
(* (without flush).                                                         *)
Connect(p, silent) ==
    /\ NewClient(p)
    /\ clientLink[p] = NoLink \/ Present(p)
    /\ allowConnect(p, FALSE, silent)
    /\ Len(history \o Arrival(p)) <= MaxBroadcasts
    /\ clientLink' = [clientLink EXCEPT ![p] = programs[p] + 1]
    /\ myState' = [myState EXCEPT ![p] = "CONNECTED"]
    /\ loopback' = [loopback EXCEPT ![p] = TRUE]
    /\ syncResponse' = IF Present(p) THEN [syncResponse EXCEPT ![p] = {}]
                       ELSE syncResponse
    /\ packetCache' = packetCache \o Arrival(p)
    /\ history' = history \o Arrival(p)
    /\ received' = [q \in Player |->
           IF q = p THEN Missed(p)
           ELSE IF Present(q) THEN received[q] \o Arrival(p) ELSE received[q]]
    /\ heard' = [heard EXCEPT ![p] = Unheard]

NoMoreAttempts ==
    /\ place = "connect" /\ place' = "read"
    /\ UNCHANGED <<next, session, outstandingSyncFrames, game, broadcasts, setting,
                   clients>>

-----------------------------------------------------------------------------
(* ServerReadNet for the player `next`.                                     *)

(* Mutant: the loop over the players runs one too far.                      *)
NextPlayerTooFar ==
    IF next <= NumPlayers THEN next' = next + 1 /\ place' = "read"
    ELSE next' = 1 /\ place' = "update"

NextPlayer ==
    IF next < NumPlayers THEN next' = next + 1 /\ place' = "read"
    ELSE next' = 1 /\ place' = "update"

(* No link, or nothing (more) to read.                                      *)
ReadNothing ==
    /\ place \in {"read", "process"}
    /\ NextPlayer
    /\ UNCHANGED <<session, outstandingSyncFrames, game, broadcasts, setting,
                   clients>>

(* CheckTimeout: nothing was heard of him for networkTimeout.               *)
TimeOut ==
    /\ place = "read" /\ clientLink[next] # NoLink
    /\ Kill(next, FALSE)
    /\ NextPlayer
    /\ UNCHANGED <<outstandingSyncFrames, game, setting, programs>>

(* His packets pass through the loopback connection; without it they are    *)
(* lost.                                                                    *)
Processing ==
    /\ place \in {"read", "process"}
    /\ clientLink[next] # NoLink /\ loopback[next]

(* NETMSG_PLAYERNAME: sent when the client has loaded the game.             *)
ReadPlayerName ==
    /\ Processing /\ place' = "process"
    /\ ~heard[next].name
    /\ heard' = [heard EXCEPT ![next].name = TRUE]
    /\ myState' = [myState EXCEPT ![next] = "INGAME"]
    /\ Broadcast(<<About("PLAYERNAME", next)>>, Player, packetCache, gameHasStarted)
    /\ UNCHANGED <<next, clientLink, loopback, syncResponse, outstandingSyncFrames,
                   game, setting, programs>>

(* NETMSG_SYNCRESPONSE: the checksum of the next frame he simulated.        *)
(* Mutant: one for a frame that is no longer waited for is kept.            *)
StoreAlways(p, frame) ==
    syncResponse' = [syncResponse EXCEPT ![p] = @ \union {frame}]
Store(p, frame) ==
    syncResponse' = [syncResponse EXCEPT
                        ![p] = @ \union ({frame} \intersect outstandingSyncFrames)]

ReadSyncResponse ==
    /\ Processing /\ place' = "process"
    /\ heard[next].name /\ heard[next].frames < Frames(received[next])
    /\ heard' = [heard EXCEPT ![next].frames = @ + 1]
    /\ Store(next, heard[next].frames + 1)
    /\ UNCHANGED <<next, myState, clientLink, loopback, outstandingSyncFrames, game,
                   broadcasts, setting, programs, received>>

(* NETMSG_QUIT: a client sends nothing behind it.                           *)
ReadQuit ==
    /\ Processing
    /\ Kill(next, TRUE)
    /\ NextPlayer
    /\ UNCHANGED <<outstandingSyncFrames, game, setting, programs>>

-----------------------------------------------------------------------------
(* Update.                                                                  *)

(* CheckForExpiredConnection closes links that have lingered for a second.  *)
ExpireConnections(expired) ==
    /\ place = "update" /\ place' = "advance"
    /\ \A p \in expired : myState[p] = "DISCONNECTING"
    /\ myState' = [p \in Player |->
                      IF p \in expired THEN "DISCONNECTED" ELSE myState[p]]
    /\ clientLink' = [p \in Player |->
                         IF p \in expired THEN NoLink ELSE clientLink[p]]
    /\ UNCHANGED <<next, loopback, syncResponse, outstandingSyncFrames, game,
                   broadcasts, setting, clients>>

(* CheckForGameStart: is everybody ready?  `late` is 30 seconds after the   *)
(* start of the server, when those who never came are no longer waited for. *)
Loaded(p) == myState[p] \in {"INGAME", "DISCONNECTING", "DISCONNECTED"}
AllReady(late) ==
    /\ \A p \in Player : Loaded(p) \/ (late /\ myState[p] = "UNCONNECTED")
    /\ \E p \in Player : Loaded(p)

CountDown(late) ==
    /\ place = "advance" /\ ~gameHasStarted /\ ~readyTime
    /\ AllReady(late)
    /\ readyTime' = TRUE
    /\ UNCHANGED <<place, next, session, outstandingSyncFrames, accepting,
                   canReconnect, gameHasStarted, broadcasts, setting, clients>>

(* Not everybody is ready, or gameStartDelay is not over.                   *)
StartLater ==
    /\ place = "advance" /\ ~gameHasStarted
    /\ place' = "host"
    /\ UNCHANGED <<next, session, outstandingSyncFrames, game, broadcasts, setting,
                   clients>>

(* CheckSync: has every player who is there answered the frame f, or have   *)
(* they had SYNCCHECK_TIMEOUT frames to do so?                              *)
(* Mutant: those who are being disconnected are waited for.                 *)
completeOfLinked(f) ==
    \/ f + SyncTimeout < serverFrameNum
    \/ \A p \in Player : clientLink[p] # NoLink => f \in syncResponse[p]
completeResponseSet(f) ==
    \/ f + SyncTimeout < serverFrameNum
    \/ \A p \in Player : Present(p) => f \in syncResponse[p]

(* CreateNewFrame, of n frames after the packets `start`.  None is new      *)
(* while the game is paused or too little time has passed.                  *)
CreateNewFrame(n, start, cache, started) ==
    LET kept == {f \in outstandingSyncFrames : ~completeResponseSet(f)} IN
    /\ syncResponse' = [p \in Player |->
           IF myState[p] \in {"DISCONNECTING", "DISCONNECTED"}
           THEN syncResponse[p] ELSE syncResponse[p] \intersect kept]
    /\ outstandingSyncFrames' =
           kept \union (serverFrameNum + 1)..(serverFrameNum + n)
    /\ Broadcast(start \o [i \in 1..n |-> Frame], Player, cache, started)

(* StartGame drops packetCache when nobody can come any more.               *)
(* Mutant: it always does.                                                  *)
CacheDropped == <<>>
CacheAtStart == IF canReconnect THEN packetCache ELSE <<>>

StartGame(n) ==
    /\ place = "advance" /\ readyTime /\ ~gameHasStarted
    /\ place' = "host" /\ gameHasStarted' = TRUE
    /\ accepting' = (accepting /\ canReconnect)
    /\ CreateNewFrame(n, <<Own("STARTPLAYING")>>, CacheAtStart, TRUE)
    /\ UNCHANGED <<next, myState, clientLink, loopback, canReconnect, readyTime,
                   setting, programs, heard>>

NewFrames(n) ==
    /\ place = "advance" /\ gameHasStarted /\ place' = "host"
    /\ CreateNewFrame(n, <<>>, packetCache, TRUE)
    /\ UNCHANGED <<next, myState, clientLink, loopback, game, setting, programs,
                   heard>>

(* A command of hostif: KickPlayer.                                         *)
KickPlayer(p) ==
    /\ place = "host" /\ place' = "connect"
    /\ Present(p)
    /\ Kill(p, TRUE)
    /\ UNCHANGED <<next, outstandingSyncFrames, game, setting, programs>>

(* Another round, unless nobody is left.  (Before the game starts, the      *)
(* server waits for initialNetworkTimeout.)                                 *)
NobodyLeft == \A p \in Player : clientLink[p] = NoLink

NextRound ==
    /\ place = "host"
    /\ \/ place' = "connect" /\ ~(gameHasStarted /\ NobodyLeft)
       \/ place' = "quit" /\ NobodyLeft
    /\ UNCHANGED <<next, session, outstandingSyncFrames, game, broadcasts, setting,
                   clients>>

Next ==
    \/ \E p \in Player, silent \in {FALSE, reconnectTimeout} :
          RejectConnection(p, silent) \/ Reconnect(p, silent) \/ Connect(p, silent)
    \/ \E p \in Player : Revive(p) \/ KickPlayer(p)
    \/ NoMoreAttempts
    \/ ReadNothing \/ TimeOut \/ ReadPlayerName \/ ReadSyncResponse \/ ReadQuit
    \/ \E expired \in SUBSET Player : ExpireConnections(expired)
    \/ \E late \in BOOLEAN : CountDown(late)
    \/ StartLater
    \/ \E n \in 0..MaxNewFrames : StartGame(n) \/ NewFrames(n)
    \/ NextRound

Spec == Init /\ [][Next]_vars

-----------------------------------------------------------------------------
(* The variables have their types; a player's number never leaves players.  *)
Packet == [what : {"GAMEDATA", "SETPLAYERNUM", "JOINTEAM", "PLAYERNAME",
                   "PLAYERLEFT", "STARTPLAYING", "NEWFRAME"},
           who : {0} \union Player]
TypeOK ==
    /\ place \in {"connect", "read", "process", "update", "advance", "host", "quit"}
    /\ next \in Player
    /\ accepting \in BOOLEAN
    /\ myState \in [Player -> State]
    /\ clientLink \in [Player -> Nat] /\ loopback \in [Player -> BOOLEAN]
    /\ syncResponse \in [Player -> SUBSET Nat]
    /\ outstandingSyncFrames \in SUBSET Nat
    /\ canReconnect \in BOOLEAN /\ gameHasStarted \in BOOLEAN
    /\ readyTime \in BOOLEAN /\ reconnectTimeout \in BOOLEAN /\ earlyReturn \in BOOLEAN
    /\ packetCache \in Seq(Packet) /\ history \in Seq(Packet)
    /\ programs \in [Player -> Nat]
    /\ received \in [Player -> Seq(Packet)]
    /\ heard \in [Player -> [name : BOOLEAN, frames : Nat]]

(* A link is there exactly for those who are connected or whose connection  *)
(* lingers, and the relay to the loopback connection is open only for those *)
(* who are connected: nothing is read of one who was told to leave          *)
(* (Connected, Kill, CheckForExpiredConnection and the reconnection).       *)
LinkMeansPresent ==
    \A p \in Player :
        /\ clientLink[p] = NoLink <=> myState[p] \in {"UNCONNECTED", "DISCONNECTED"}
        /\ loopback[p] => myState[p] \in {"CONNECTED", "INGAME"}
        /\ ~earlyReturn /\ myState[p] \in {"CONNECTED", "INGAME"} => loopback[p]

(* "finally send player all packets he missed until now": whoever is        *)
(* connected, whenever and however often he came, was sent who he is, then  *)
(* everything that was ever broadcast, in order, once.                      *)
StreamIsHistory ==
    \A p \in Player :
        ~earlyReturn /\ Present(p) =>
            received[p] = Welcome \o <<About("JOINTEAM", p)>> \o history

(* Clients hold a player for active from NETMSG_PLAYERNAME to               *)
(* NETMSG_PLAYERLEFT (NetCommands): what was broadcast tells them exactly   *)
(* who is in the game, over reconnections, kicks and timeouts.              *)
Announced(p) ==
    \E i \in DOMAIN history :
        /\ history[i] = About("PLAYERNAME", p)
        /\ \A j \in (i + 1)..Len(history) : history[j] # About("PLAYERLEFT", p)
PresenceAnnounced == \A p \in Player : myState[p] = "INGAME" <=> Announced(p)

(* A checksum is kept only while its frame is outstanding and its player is *)
(* there, so that none is left over and taken for one of his next session   *)
(* (NETMSG_SYNCRESPONSE, CheckSync, Kill).                                  *)
ResponsesBelong ==
    \A p \in Player :
        /\ syncResponse[p] \subseteq outstandingSyncFrames
        /\ ~Present(p) => syncResponse[p] = {}

(* After a check, a frame of an earlier round is outstanding only for want  *)
(* of a player who is there, and only for SYNCCHECK_TIMEOUT frames: nobody  *)
(* waits for one who left (CheckSync).                                      *)
FramesAwaitThePresent ==
    place = "host" =>
        \A f \in outstandingSyncFrames :
            /\ f + SyncTimeout + MaxNewFrames >= serverFrameNum
            /\ \/ f + MaxNewFrames > serverFrameNum
               \/ \E p \in Player : Present(p) /\ f \notin syncResponse[p]

=============================================================================
