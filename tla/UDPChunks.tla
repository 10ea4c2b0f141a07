------------------------------ MODULE UDPChunks ------------------------------
(***************************************************************************)
(* The chunk layer of netcode::UDPConnection (rts/System/Net): two         *)
(* connection objects, one at each end of a UDP path that may lose,        *)
(* duplicate and reorder packets.                                          *)
(*                                                                         *)
(* Flush cuts the outgoing bytes into numbered chunks; SendIfNecessary     *)
(* packs new and re-requested chunks into packets together with the        *)
(* acknowledgement lastInOrder and the list of missing chunks (naks);      *)
(* ProcessRawPacket handles the other end's acknowledgement and naks and   *)
(* stores and consumes the chunks.  A chunk is its number here; what the   *)
(* numbers carry is the business of module UDPConnection.                  *)
(***************************************************************************)
EXTENDS Integers, Sequences, FiniteSets

CONSTANTS
    Client, Server,     \* the two ends
    Lossy,              \* ends whose SetLossFactor is above MIN_LOSS_FACTOR
    BandwidthLimited,   \* may linkOutgoingBandwidth stop a sender early?
    MaxResend,          \* 20 * netLossFactor
    MTU,                \* chunks that fit in one packet
    ContLimit,          \* 8 in the code: a longer hole is reported as a count
    NakLimit,           \* 127 in the code: the most chunks one nak reports
    NakWindow,          \* 255 in the code: the farthest chunk a nak reports
    AckWindow,          \* 256 in the code: naks farther away are ignored
    Closing,            \* ends that may call Close
    Reconnecting,       \* ends that may call AttemptReconnect
    MaxChunks,          \* bound of the model: chunks each end creates
    NetCap              \* bound of the model: packets kept in flight to an end

End == {Client, Server}
Other(e) == IF e = Client THEN Server ELSE Client

ASSUME EndAssumption == Client # Server
ASSUME SetAssumption ==
    /\ Lossy \subseteq End
    /\ Closing \subseteq End
    /\ Reconnecting \subseteq End
    /\ BandwidthLimited \in BOOLEAN
ASSUME BoundAssumption ==
    /\ MaxResend \in Nat /\ MTU \in Nat \ {0}
    /\ ContLimit \in Nat /\ NakLimit \in Nat /\ NakWindow \in Nat
    /\ AckWindow \in Nat
    /\ MaxChunks \in [End -> Nat] /\ NetCap \in Nat \ {0}

VARIABLES
    muted,              \* stealth until Unmute, and again after Close
    closed,
    polling,            \* Update has received packets and has not yet flushed
    created,            \* currentPacketChunkNum: the next chunk number
    newChunks,          \* created and not yet sent
    unackedChunks,      \* sent and not yet acknowledged
    resendRequested,    \* numbers of the chunks to send again
    lastInOrder,        \* the last chunk consumed
    waitingPackets,     \* chunks received out of order
    net                 \* net[e]: the packets in flight to e

sender == <<created, newChunks, unackedChunks, resendRequested>>
receiver == <<lastInOrder, waitingPackets>>
vars == <<muted, closed, polling, sender, receiver, net>>

-----------------------------------------------------------------------------
(* Small helpers. *)

Lesser(a, b) == IF a < b THEN a ELSE b
Elements(s) == {s[i] : i \in 1..Len(s)}
FirstN(s, n) == SubSeq(s, 1, n)
Skip(s, n) == SubSeq(s, n + 1, Len(s))
MinLoss(e) == e \notin Lossy

(***************************************************************************)
(* A packet: lastContinuous acknowledges every chunk up to it.  nakType    *)
(* -n says the n chunks after lastContinuous are missing, nakType n > 0    *)
(* that the n chunks at the offsets naks are.  probe marks the packets of  *)
(* the temporary connection of AttemptReconnect.                           *)
(***************************************************************************)
Packet == [lastContinuous : Int, nakType : Int, naks : SUBSET Nat,
           chunks : SUBSET Nat, probe : BOOLEAN]

Init ==
    /\ muted = [e \in End |-> TRUE]
    /\ closed = [e \in End |-> FALSE]
    /\ polling = [e \in End |-> FALSE]
    /\ created = [e \in End |-> 0]
    /\ newChunks = [e \in End |-> <<>>]
    /\ unackedChunks = [e \in End |-> <<>>]
    /\ resendRequested = [e \in End |-> {}]
    /\ lastInOrder = [e \in End |-> -1]
    /\ waitingPackets = [e \in End |-> {}]
    /\ net = [e \in End |-> {}]

(* Hand the packets P to the network: old packets may be pushed out (lost) *)
(* so that at most NetCap - 1 of them stay next to the new ones.           *)
Transmit(e, P) ==
    \E keep \in SUBSET net[e] :
        /\ Cardinality(keep) = Lesser(Cardinality(net[e]), NetCap - 1)
        /\ net' = [net EXCEPT ![e] = keep \cup P]

-----------------------------------------------------------------------------
(* SendIfNecessary, first half: which chunks the other end still owes us.  *)

droppedPackets(e) ==
    {m \in (lastInOrder[e] + 1)..(lastInOrder[e] + 1 + NakWindow) :
        m \notin waitingPackets[e] /\ \E w \in waitingPackets[e] : w > m}

numContinuous(e) ==
    Cardinality({m \in droppedPackets(e) :
                    (lastInOrder[e] + 1)..m \subseteq droppedPackets(e)})

(* nakDue: lastNakTime is more than half an unackTime ago *)
Nak(e, nakDue) ==
    IF numContinuous(e) < ContLimit /\ nakDue
    THEN Lesser(Cardinality(droppedPackets(e)), NakLimit)
    ELSE -Lesser(NakLimit, numContinuous(e))

(* Mutant of NakOffsets: offsets counted from lastInOrder + 2. *)
NakOffsetsTooSmall(e, nak) ==
    {m - (lastInOrder[e] + 2) :
        m \in {d \in droppedPackets(e) :
                 Cardinality({x \in droppedPackets(e) : x < d}) < nak}}
(* Mutant of NakOffsets: offsets counted from lastInOrder. *)
NakOffsetsTooLarge(e, nak) ==
    {m - lastInOrder[e] :
        m \in {d \in droppedPackets(e) :
                 Cardinality({x \in droppedPackets(e) : x < d}) < nak}}

(* the offsets of the first nak missing chunks *)
NakOffsets(e, nak) ==
    {m - (lastInOrder[e] + 1) :
        m \in {d \in droppedPackets(e) :
                 Cardinality({x \in droppedPackets(e) : x < d}) < nak}}

MakePacket(e, nak, chunks) ==
    [lastContinuous |-> lastInOrder[e], nakType |-> nak,
     naks |-> NakOffsets(e, nak), chunks |-> chunks, probe |-> FALSE]

(* The ways to fill packets of MTU chunks with the chunks C.  The order in *)
(* which the resend toggle alternates new and old chunks is abstracted.    *)
Packings(C) ==
    IF Cardinality(C) <= MTU
    THEN {{C}}
    ELSE {G \in SUBSET (SUBSET C \ {{}}) :
            /\ UNION G = C
            /\ \A g, h \in G : g = h \/ g \cap h = {}
            /\ \A g \in G : Cardinality(g) <= MTU
            /\ Cardinality({g \in G : Cardinality(g) < MTU}) <= 1}

(* MinLoss: the nak list rides in the first packet only.  Lossy: in all.   *)
PacketsFor(e, nak, G, first) ==
    {MakePacket(e, IF g = first \/ nak <= 0 \/ ~MinLoss(e) THEN nak ELSE 0, g) :
        g \in G}

(* Which of the requested chunks one call sends again: all of them, or     *)
(* MaxResend on a lossy connection, unless the bandwidth runs out.  They   *)
(* are taken from the front, on a lossy connection in turn from the front, *)
(* the back and twice the middle (where the middle starts is abstracted).  *)
Lowest(C, n) == {c \in C : Cardinality({x \in C : x < c}) < n}
Highest(C, n) == {c \in C : Cardinality({x \in C : x > c}) < n}
ResendChoices(e, requested) ==
    LET most == IF MinLoss(e) THEN Cardinality(requested)
                ELSE Lesser(Cardinality(requested), MaxResend)
    IN  {R \in SUBSET requested :
            LET r == Cardinality(R) IN
            /\ IF BandwidthLimited THEN r <= most ELSE r = most
            /\ IF MinLoss(e) THEN R = Lowest(requested, r)
               ELSE Lowest(requested, (r + 3) \div 4)
                        \cup Highest(requested, (r + 2) \div 4) \subseteq R}

(* Mutant of SendPackets: new chunks are put before the unacked ones. *)
SendPacketsToFront(e, nak, fresh, requested) ==
    \E R \in ResendChoices(e, requested), k \in 0..Len(fresh) :
        /\ BandwidthLimited \/ k = Len(fresh)
        /\ newChunks' = [newChunks EXCEPT ![e] = Skip(fresh, k)]
        /\ unackedChunks' =
             [unackedChunks EXCEPT ![e] = FirstN(fresh, k) \o @]
        /\ resendRequested' =
             [resendRequested EXCEPT ![e] =
                IF MinLoss(e) THEN requested \ R
                ELSE requested \cup Elements(FirstN(fresh, k))]
        /\ \E G \in Packings(R \cup Elements(FirstN(fresh, k))) :
             \E first \in G :
                Transmit(Other(e), PacketsFor(e, nak, G, first))
(* Mutant of SendPackets: what the bandwidth did not let through is gone. *)
SendPacketsForgetting(e, nak, fresh, requested) ==
    \E R \in ResendChoices(e, requested), k \in 0..Len(fresh) :
        /\ BandwidthLimited \/ k = Len(fresh)
        /\ newChunks' = [newChunks EXCEPT ![e] = <<>>]
        /\ unackedChunks' =
             [unackedChunks EXCEPT ![e] = @ \o FirstN(fresh, k)]
        /\ resendRequested' =
             [resendRequested EXCEPT ![e] =
                IF MinLoss(e) THEN requested \ R
                ELSE requested \cup Elements(FirstN(fresh, k))]
        /\ \/ \E G \in Packings(R \cup Elements(FirstN(fresh, k))) :
                \E first \in G :
                   Transmit(Other(e), PacketsFor(e, nak, G, first))
           \/ BandwidthLimited /\ R = {} /\ k = 0 /\ UNCHANGED net

(***************************************************************************)
(* The sending loop of SendIfNecessary over the chunks fresh (newChunks    *)
(* and what Flush has just created) and the chunks requested.              *)
(***************************************************************************)
SendPackets(e, nak, fresh, requested) ==
    \E R \in ResendChoices(e, requested), k \in 0..Len(fresh) :
        /\ BandwidthLimited \/ k = Len(fresh)
        /\ newChunks' = [newChunks EXCEPT ![e] = Skip(fresh, k)]
        /\ unackedChunks' =
             [unackedChunks EXCEPT ![e] = @ \o FirstN(fresh, k)]
        /\ resendRequested' =
             [resendRequested EXCEPT ![e] =
                IF MinLoss(e) THEN requested \ R
                ELSE requested \cup Elements(FirstN(fresh, k))]
        /\ \/ \E G \in Packings(R \cup Elements(FirstN(fresh, k))) :
                \E first \in G :
                   Transmit(Other(e), PacketsFor(e, nak, G, first))
           \/ BandwidthLimited /\ R = {} /\ k = 0 /\ UNCHANGED net

(* Mutant of SendIfNecessary: the last packet is never sent again. *)
SendIfNecessaryNoLast(e, forced, fresh, nakDue, resendDue, idle) ==
    LET nak == Nak(e, nakDue)
        requested == resendRequested[e]
        needed == \/ forced \/ fresh # <<>>
                  \/ MinLoss(e) /\ requested # {}
                  \/ nak > 0 \/ idle
    IN  IF needed
        THEN SendPackets(e, nak, fresh, requested)
        ELSE UNCHANGED <<newChunks, unackedChunks, resendRequested, net>>
(* Mutant of SendIfNecessary: an idle end sends nothing. *)
SendIfNecessaryNotIdle(e, forced, fresh, nakDue, resendDue, idle) ==
    LET nak == Nak(e, nakDue)
        lastOne == IF resendDue /\ fresh = <<>> /\ unackedChunks[e] # <<>>
                   THEN {unackedChunks[e][Len(unackedChunks[e])]} ELSE {}
        requested == resendRequested[e] \cup lastOne
        needed == \/ forced \/ fresh # <<>>
                  \/ MinLoss(e) /\ requested # {}
                  \/ nak > 0
    IN  IF needed
        THEN SendPackets(e, nak, fresh, requested)
        ELSE /\ resendRequested' = [resendRequested EXCEPT ![e] = requested]
             /\ UNCHANGED <<newChunks, unackedChunks, net>>

(***************************************************************************)
(* SendIfNecessary: resendDue when both unackTime timers have run out,     *)
(* idle when nothing was sent for half an unackTime.                       *)
(***************************************************************************)
SendIfNecessary(e, forced, fresh, nakDue, resendDue, idle) ==
    LET nak == Nak(e, nakDue)
        lastOne == IF resendDue /\ fresh = <<>> /\ unackedChunks[e] # <<>>
                   THEN {unackedChunks[e][Len(unackedChunks[e])]} ELSE {}
        requested == resendRequested[e] \cup lastOne
        needed == \/ forced \/ fresh # <<>>
                  \/ MinLoss(e) /\ requested # {}
                  \/ nak > 0 \/ idle
    IN  IF needed
        THEN SendPackets(e, nak, fresh, requested)
        ELSE /\ resendRequested' = [resendRequested EXCEPT ![e] = requested]
             /\ UNCHANGED <<newChunks, unackedChunks, net>>

(* Flush of a connection that is not muted, with n chunks cut from the     *)
(* outgoing data (none when it waits for more, or has none).               *)
FlushChunks(e, forced, n, nakDue, resendDue, idle) ==
    LET cut == [i \in 1..n |-> created[e] + i - 1]
    IN  /\ created' = [created EXCEPT ![e] = @ + n]
        /\ SendIfNecessary(e, forced, newChunks[e] \o cut,
                           nakDue, resendDue, idle)
        /\ UNCHANGED receiver

(* The chunk numbers left under the bound MaxChunks. *)
Cuts(e) == 0..(MaxChunks[e] - created[e])

-----------------------------------------------------------------------------
(* ProcessRawPacket. *)

(* a packet of an end that has consumed nothing, though this end has *)
Superfluous(e, p) ==
    /\ p.lastContinuous < 0 /\ lastInOrder[e] >= 0
    /\ unackedChunks[e] = <<>> \/ unackedChunks[e][1] > 0

(* Mutant of Acknowledged: the chunk after the acknowledged ones goes too. *)
AcknowledgedOneMore(u, ack, a) ==
    /\ a \in 0..Len(u)
    /\ \A i \in 1..a : u[i] <= ack + 1
    /\ a < Len(u) => u[a + 1] > ack + 1

(* AckChunks pops the first a chunks. *)
Acknowledged(u, ack, a) ==
    /\ a \in 0..Len(u)
    /\ \A i \in 1..a : u[i] <= ack
    /\ a < Len(u) => u[a + 1] > ack

(* How far the first chunk of u lies behind the first one the peer misses. *)
unAckDiff(u, p) == u[1] - (p.lastContinuous + 1)

NaksApply(u, p) ==
    u # <<>> /\ -AckWindow <= unAckDiff(u, p) /\ unAckDiff(u, p) <= AckWindow

(* The positions of u (from 0) that the naks of p point at. *)
NakPositions(u, p) ==
    (IF p.nakType < 0 THEN {i + unAckDiff(u, p) : i \in 0..(-p.nakType - 1)}
     ELSE IF p.nakType > 0 THEN {unAckDiff(u, p) + o : o \in p.naks}
     ELSE {}) \cap 0..(Len(u) - 1)

Asked(u, p) ==
    IF NaksApply(u, p) THEN {u[q + 1] : q \in NakPositions(u, p)} ELSE {}

(* "if there are gaps in the array, assume that further resends are not    *)
(* needed": the positions below a nak that no nak points at.               *)
Needless(u, p) ==
    IF NaksApply(u, p) /\ p.nakType > 0
    THEN {u[q + 1] : q \in {q \in 0..(Len(u) - 1) :
            /\ q \notin NakPositions(u, p)
            /\ \E o \in p.naks : unAckDiff(u, p) + o > q}}
    ELSE {}

(* Mutant of Held: chunks already consumed are stored again. *)
HeldAgain(e, p) == waitingPackets[e] \cup p.chunks

(* the chunks the receiver has once p is stored *)
Held(e, p) == waitingPackets[e] \cup {c \in p.chunks : c > lastInOrder[e]}

(* Mutant of ProcessAcks: acknowledged chunks stay on the resend list. *)
ProcessAcksKeeping(e, p) ==
    \E a \in 0..Len(unackedChunks[e]) :
        /\ Acknowledged(unackedChunks[e], p.lastContinuous, a)
        /\ LET u == Skip(unackedChunks[e], a) IN
           /\ unackedChunks' = [unackedChunks EXCEPT ![e] = u]
           /\ resendRequested' =
                [resendRequested EXCEPT ![e] =
                   (@ \cup Asked(u, p)) \ Needless(u, p)]

ProcessAcks(e, p) ==
    \E a \in 0..Len(unackedChunks[e]) :
        /\ Acknowledged(unackedChunks[e], p.lastContinuous, a)
        /\ LET u == Skip(unackedChunks[e], a)
               kept == {c \in resendRequested[e] : c > p.lastContinuous}
           IN  /\ unackedChunks' = [unackedChunks EXCEPT ![e] = u]
               /\ resendRequested' =
                    [resendRequested EXCEPT ![e] =
                       (kept \cup Asked(u, p)) \ Needless(u, p)]

ProcessChunks(e, p) ==
    \E n \in {lastInOrder[e]} \cup Held(e, p) :
        /\ (lastInOrder[e] + 1)..n \subseteq Held(e, p)
        /\ n + 1 \notin Held(e, p)
        /\ lastInOrder' = [lastInOrder EXCEPT ![e] = n]
        /\ waitingPackets' =
             [waitingPackets EXCEPT ![e] = {c \in Held(e, p) : c > n}]

ProcessRawPacket(e, p) ==
    IF Superfluous(e, p)
    THEN UNCHANGED <<unackedChunks, resendRequested, receiver>>
    ELSE ProcessAcks(e, p) /\ ProcessChunks(e, p)

-----------------------------------------------------------------------------
(* The actions. *)

Unmute(e) ==
    /\ muted[e] /\ ~closed[e]
    /\ muted' = [muted EXCEPT ![e] = FALSE]
    /\ UNCHANGED <<closed, polling, sender, receiver, net>>

(***************************************************************************)
(* Update drains the socket, one Receive per packet, and then flushes: the *)
(* flag polling keeps every other call of the end out until it has.  The   *)
(* network may keep a packet it delivers and deliver it again.             *)
(***************************************************************************)
Receive(e, p) ==
    /\ ~closed[e] /\ p \in net[e]
    /\ ProcessRawPacket(e, p)
    /\ polling' = [polling EXCEPT ![e] = TRUE]
    /\ \/ net' = [net EXCEPT ![e] = @ \ {p}]
       \/ UNCHANGED net
    /\ UNCHANGED <<muted, closed, created, newChunks>>

UpdateMuted(e) ==
    /\ polling[e] /\ muted[e]
    /\ polling' = [polling EXCEPT ![e] = FALSE]
    /\ UNCHANGED <<muted, closed, sender, receiver, net>>

(* The Flush(false) that ends Update. *)
Update(e, n, nakDue, resendDue, idle) ==
    /\ ~muted[e]
    /\ FlushChunks(e, FALSE, n, nakDue, resendDue, idle)
    /\ polling' = [polling EXCEPT ![e] = FALSE]
    /\ UNCHANGED <<muted, closed>>

(* Flush(true) called from outside. *)
ForcedFlush(e, n, nakDue, resendDue) ==
    /\ ~muted[e] /\ ~polling[e]
    /\ FlushChunks(e, TRUE, n, nakDue, resendDue, FALSE)
    /\ UNCHANGED <<muted, closed, polling>>

(* Close of a connection that is open to sending; it flushes a last time. *)
Close(e, flush, n, nakDue, resendDue, idle) ==
    /\ ~closed[e] /\ ~muted[e] /\ ~polling[e]
    /\ FlushChunks(e, flush, n, nakDue, resendDue, idle)
    /\ muted' = [muted EXCEPT ![e] = TRUE]
    /\ closed' = [closed EXCEPT ![e] = TRUE]
    /\ UNCHANGED polling

CloseMuted(e) ==
    /\ ~closed[e] /\ muted[e] /\ ~polling[e]
    /\ closed' = [closed EXCEPT ![e] = TRUE]
    /\ UNCHANGED <<muted, polling, sender, receiver, net>>

(***************************************************************************)
(* CNetProtocol::AttemptReconnect: a temporary connection to the same      *)
(* address announces the player in its own chunk 0 and is destroyed, which *)
(* flushes once more.  The game runs, so the other end has consumed the    *)
(* chunk 0 of the real connection long ago.                                *)
(***************************************************************************)
Probe(chunks) ==
    [lastContinuous |-> -1, nakType |-> 0, naks |-> {},
     chunks |-> chunks, probe |-> TRUE]

AttemptReconnect(e) ==
    /\ e \in Reconnecting /\ ~closed[e] /\ ~polling[e]
    /\ lastInOrder[e] >= 0 /\ lastInOrder[Other(e)] >= 0
    /\ Transmit(Other(e), {Probe({0}), Probe({})})
    /\ UNCHANGED <<muted, closed, polling, sender, receiver>>

(* The timers are free; one that cannot change what a flush does is not    *)
(* enumerated.                                                             *)
NakTimer(e) == IF waitingPackets[e] = {} THEN {TRUE} ELSE BOOLEAN
ResendTimer(e, n) ==
    IF unackedChunks[e] = <<>> \/ newChunks[e] # <<>> \/ n > 0
    THEN {FALSE} ELSE BOOLEAN

UpdateStep(e) ==
    \E n \in Cuts(e), nakDue \in NakTimer(e), idle \in BOOLEAN :
        \E resendDue \in ResendTimer(e, n) :
            Update(e, n, nakDue, resendDue, idle)
FlushStep(e) ==
    \E n \in Cuts(e), nakDue \in NakTimer(e) :
        \E resendDue \in ResendTimer(e, n) :
            ForcedFlush(e, n, nakDue, resendDue)
CloseStep(e) ==
    /\ e \in Closing
    /\ \/ CloseMuted(e)
       \/ \E n \in Cuts(e), flush, idle \in BOOLEAN, nakDue \in NakTimer(e) :
             \E resendDue \in ResendTimer(e, n) :
                Close(e, flush, n, nakDue, resendDue, idle)

Next ==
    \E e \in End :
        \/ Unmute(e)
        \/ \E p \in net[e] : Receive(e, p)
        \/ UpdateMuted(e)
        \/ UpdateStep(e)
        \/ FlushStep(e)
        \/ CloseStep(e)
        \/ AttemptReconnect(e)

Spec == Init /\ [][Next]_vars

-----------------------------------------------------------------------------
(* Properties. *)

(* Every variable keeps its type; chunk numbers stay below created.        *)
ChunkNum(e) == 0..(created[e] - 1)
TypeOK ==
    /\ muted \in [End -> BOOLEAN]
    /\ closed \in [End -> BOOLEAN]
    /\ polling \in [End -> BOOLEAN]
    /\ created \in [End -> Nat]
    /\ newChunks \in [End -> Seq(Nat)]
    /\ unackedChunks \in [End -> Seq(Nat)]
    /\ resendRequested \in [End -> SUBSET Nat]
    /\ lastInOrder \in [End -> Nat \cup {-1}]
    /\ waitingPackets \in [End -> SUBSET Nat]
    /\ net \in [End -> SUBSET Packet]

(* chunk c of the end e is in the hands of the other end *)
HeldByPeer(e, c) ==
    c <= lastInOrder[Other(e)] \/ c \in waitingPackets[Other(e)]

(* No chunk is lost whatever the network does: one that has left newChunks *)
(* and unackedChunks (AckChunks pops it for good) has been consumed by the *)
(* other end.                                                              *)
NoChunkLost ==
    \A e \in End : \A c \in ChunkNum(e) :
        \/ c \in Elements(newChunks[e]) \cup Elements(unackedChunks[e])
        \/ c <= lastInOrder[Other(e)]

(* unackedChunks is a run of consecutive numbers that goes on in newChunks *)
(* up to currentPacketChunkNum: what all the position arithmetic of        *)
(* ProcessRawPacket rests on.                                              *)
Contiguous ==
    \A e \in End :
        LET s == unackedChunks[e] \o newChunks[e]
        IN  \A i \in 1..Len(s) : s[i] = created[e] - Len(s) + i - 1

(* what AckChunks will leave of unackedChunks when p arrives *)
LeftBy(e, p) ==
    LET u == unackedChunks[e]
    IN  Skip(u, CHOOSE a \in 0..Len(u) : Acknowledged(u, p.lastContinuous, a))

(* The two asserts of ProcessRawPacket, for every packet that may still    *)
(* arrive, however stale: the position computed from a nak holds the chunk *)
(* the nak means.                                                          *)
NakAsserts ==
    \A e \in End : \A p \in net[e] :
        LET u == LeftBy(e, p) IN
        NaksApply(u, p) =>
            \A o \in IF p.nakType < 0 THEN 0..(-p.nakType - 1) ELSE p.naks :
                LET unAckPos == unAckDiff(u, p) + o IN
                unAckPos \in 0..(Len(u) - 1) =>
                    u[unAckPos + 1] = p.lastContinuous + 1 + o

(* the chunks that p reports missing *)
Missing(p) ==
    IF p.nakType < 0
    THEN (p.lastContinuous + 1)..(p.lastContinuous - p.nakType)
    ELSE {p.lastContinuous + 1 + o : o \in p.naks}

(* The naks that are current, those that come with the newest              *)
(* acknowledgement the sender has seen, ask for what is missing; and what  *)
(* their gaps make the sender give up re-sending ("if there are gaps in    *)
(* the array, assume that further resends are not needed"), the other end  *)
(* does hold.                                                              *)
CurrentNaksAreRight ==
    \A e \in End : \A p \in net[e] :
        LET u == LeftBy(e, p) IN
        u # <<>> /\ unAckDiff(u, p) = 0 =>
            /\ \A c \in Needless(u, p) : HeldByPeer(e, c)
            /\ Asked(u, p) = Missing(p) \cap Elements(u)

(* Every re-sent chunk is still unacknowledged: a stale or repeated nak    *)
(* cannot bring back a chunk that AckChunks has dropped.                   *)
ResendsOnlyUnacked ==
    \A e \in End : resendRequested[e] \subseteq Elements(unackedChunks[e])

(* A reconnection probe that reaches the connection it came from (the      *)
(* address did not change) leaves both its directions as they were.        *)
ProbeIsHarmless ==
    [][\A e \in End : \A p \in net[e] :
          p.probe /\ Receive(e, p) => UNCHANGED <<sender, receiver>>]_vars

(***************************************************************************)
(* Fairness: the program calls Update in a loop and time passes, so each   *)
(* of the timers runs out again and again before an Update; the network    *)
(* delivers a chunk, or an acknowledgement, that is sent again and again.  *)
(***************************************************************************)
Fairness ==
    \A e \in End :
        /\ WF_vars(Unmute(e))
        /\ WF_vars(UpdateMuted(e))
        /\ WF_vars(\E n \in Cuts(e), r, i \in BOOLEAN : Update(e, n, TRUE, r, i))
        /\ WF_vars(\E n \in Cuts(e), k, i \in BOOLEAN : Update(e, n, k, TRUE, i))
        /\ WF_vars(\E n \in Cuts(e), k, r \in BOOLEAN : Update(e, n, k, r, TRUE))
        /\ \A c \in 0..(MaxChunks[Other(e)] - 1) :
              SF_vars(\E p \in net[e] : c \in p.chunks /\ Receive(e, p))
        /\ \A c \in -1..(MaxChunks[e] - 1) :
              SF_vars(\E p \in net[e] :
                        ~p.probe /\ p.lastContinuous = c /\ Receive(e, p))

FairSpec == Spec /\ Fairness

(* Every chunk cut from the outgoing data is consumed by the other end,    *)
(* once that end has sent something itself: until then the test Superfluous *)
(* may discard everything but the first chunk, for ever.                   *)
EveryChunkArrives ==
    \A e \in End : \A c \in 0..(MaxChunks[e] - 1) :
        (created[e] > c /\ created[Other(e)] > 0)
            ~> (lastInOrder[Other(e)] >= c)

(* The sender learns of it: the buffers for sending and re-sending empty   *)
(* again, and do not grow for ever.                                        *)
UnackedDrains ==
    \A e \in End :
        created[Other(e)] > 0 ~>
            /\ newChunks[e] = <<>> /\ unackedChunks[e] = <<>>
            /\ resendRequested[e] = {}

=============================================================================
