--------------------------- MODULE UDPChunksProofs ---------------------------
(***************************************************************************)
(* Proofs about UDPChunks, for all values of its constants: the types,     *)
(* that no chunk is lost, and what nak lists, resend requests and probes   *)
(* may do however late they come.                                          *)
(***************************************************************************)
EXTENDS UDPChunks, FiniteSetTheorems, SequenceTheorems, TLAPS

-----------------------------------------------------------------------------
(* Types. *)

LEMMA OtherEnd ==
    ASSUME NEW e \in End
    PROVE  /\ Other(e) \in End /\ Other(e) # e /\ Other(Other(e)) = e
BY EndAssumption DEF End, Other

LEMMA LastInOrderType ==
    ASSUME TypeOK, NEW e \in End
    PROVE  lastInOrder[e] \in Int /\ lastInOrder[e] >= -1
<1>1. lastInOrder[e] \in Nat \cup {-1}
  BY DEF TypeOK
<1> QED BY <1>1

LEMMA DroppedFinite ==
    ASSUME TypeOK, NEW e \in End
    PROVE  IsFiniteSet(droppedPackets(e)) /\ droppedPackets(e) \subseteq Nat
<1> DEFINE I == (lastInOrder[e] + 1)..(lastInOrder[e] + 1 + NakWindow)
<1>1. lastInOrder[e] + 1 \in Nat /\ lastInOrder[e] + 1 + NakWindow \in Nat
  BY LastInOrderType, BoundAssumption
<1>2. IsFiniteSet(I)
  BY <1>1, FS_Interval
<1>2a. I \subseteq Nat
  BY <1>1
<1>3. droppedPackets(e) \subseteq I
  BY DEF droppedPackets
<1> QED BY <1>2, <1>2a, <1>3, FS_Subset

LEMMA NakType ==
    ASSUME TypeOK, NEW e \in End, NEW nakDue \in BOOLEAN
    PROVE  Nak(e, nakDue) \in Int
<1>1. Cardinality(droppedPackets(e)) \in Nat
  BY DroppedFinite, FS_CardinalityType
<1>2. numContinuous(e) \in Nat
  <2> DEFINE C == {m \in droppedPackets(e) :
                     (lastInOrder[e] + 1)..m \subseteq droppedPackets(e)}
  <2>1. IsFiniteSet(C)
    BY DroppedFinite, FS_Subset, C \subseteq droppedPackets(e)
  <2> QED BY <2>1, FS_CardinalityType DEF numContinuous
<1> QED BY <1>1, <1>2, BoundAssumption DEF Nak, Lesser

LEMMA PacketType ==
    ASSUME TypeOK, NEW e \in End, NEW nak \in Int, NEW C \in SUBSET Nat
    PROVE  /\ MakePacket(e, nak, C) \in Packet
           /\ MakePacket(e, nak, C).lastContinuous = lastInOrder[e]
<1>1. NakOffsets(e, nak) \subseteq Nat
  <2> SUFFICES ASSUME NEW m \in droppedPackets(e)
               PROVE  m - (lastInOrder[e] + 1) \in Nat
    BY DEF NakOffsets
  <2> QED BY LastInOrderType, BoundAssumption DEF droppedPackets
<1>2. lastInOrder[e] \in Int
  BY DEF TypeOK
<1> QED BY <1>1, <1>2 DEF MakePacket, Packet

LEMMA PacketsType ==
    ASSUME TypeOK, NEW e \in End, NEW nak \in Int, NEW C \in SUBSET Nat,
           NEW G \in Packings(C), NEW first \in G
    PROVE  \A p \in PacketsFor(e, nak, G, first) :
              p \in Packet /\ p.lastContinuous = lastInOrder[e]
<1>1. \A g \in G : g \in SUBSET Nat
  BY DEF Packings
<1> QED BY <1>1, PacketType DEF PacketsFor

LEMMA TransmitType ==
    ASSUME TypeOK, NEW e \in End, NEW P \in SUBSET Packet, Transmit(e, P)
    PROVE  /\ net' \in [End -> SUBSET Packet]
           /\ \A d \in End : net'[d] \subseteq
                               net[d] \cup (IF d = e THEN P ELSE {})
BY DEF Transmit, TypeOK

(* a SubSeq of a sequence is one, whose elements are its own *)
LEMMA Slices ==
    ASSUME NEW s \in Seq(Nat), NEW k \in 0..Len(s)
    PROVE  /\ FirstN(s, k) \in Seq(Nat) /\ Skip(s, k) \in Seq(Nat)
           /\ Len(FirstN(s, k)) = k /\ Len(Skip(s, k)) = Len(s) - k
           /\ \A i \in 1..k : FirstN(s, k)[i] = s[i]
           /\ \A i \in 1..(Len(s) - k) : Skip(s, k)[i] = s[i + k]
<1>1. Len(s) \in Nat /\ k \in Nat /\ k <= Len(s)
  OBVIOUS
<1>2. /\ FirstN(s, k) \in Seq(Nat) /\ Len(FirstN(s, k)) = k
      /\ \A i \in 1..k : FirstN(s, k)[i] = s[i]
  BY <1>1, SubSeqProperties DEF FirstN
<1>3. /\ Skip(s, k) \in Seq(Nat) /\ Len(Skip(s, k)) = Len(s) - k
      /\ \A i \in 1..(Len(s) - k) : Skip(s, k)[i] = s[i + k]
  BY <1>1, SubSeqProperties DEF Skip
<1> QED BY <1>2, <1>3

LEMMA ElementsType ==
    ASSUME NEW s \in Seq(Nat)
    PROVE  Elements(s) \subseteq Nat
BY DEF Elements

(* What SendPackets leaves behind, whatever it chooses to send. *)
LEMMA SendPacketsType ==
    ASSUME TypeOK, NEW e \in End, NEW nak \in Int, NEW fresh \in Seq(Nat),
           NEW requested \in SUBSET Nat, SendPackets(e, nak, fresh, requested)
    PROVE  /\ newChunks' \in [End -> Seq(Nat)]
           /\ unackedChunks' \in [End -> Seq(Nat)]
           /\ resendRequested' \in [End -> SUBSET Nat]
           /\ net' \in [End -> SUBSET Packet]
           /\ \A d \in End, p \in Packet :
                p \in net'[d] => \/ p \in net[d]
                                 \/ d = Other(e) /\ p.lastContinuous = lastInOrder[e]
<1>1. PICK R \in ResendChoices(e, requested), k \in 0..Len(fresh) :
        /\ newChunks' = [newChunks EXCEPT ![e] = Skip(fresh, k)]
        /\ unackedChunks' = [unackedChunks EXCEPT ![e] = @ \o FirstN(fresh, k)]
        /\ resendRequested' =
             [resendRequested EXCEPT ![e] =
                IF MinLoss(e) THEN requested \ R
                ELSE requested \cup Elements(FirstN(fresh, k))]
        /\ \/ \E G \in Packings(R \cup Elements(FirstN(fresh, k))) :
                \E first \in G :
                   Transmit(Other(e), PacketsFor(e, nak, G, first))
           \/ UNCHANGED net
  BY DEF SendPackets
<1>2. R \subseteq Nat
  BY DEF ResendChoices
<1>3. /\ FirstN(fresh, k) \in Seq(Nat) /\ Skip(fresh, k) \in Seq(Nat)
      /\ Elements(FirstN(fresh, k)) \subseteq Nat
  BY Slices, ElementsType
<1>4. newChunks' \in [End -> Seq(Nat)] /\ unackedChunks' \in [End -> Seq(Nat)]
  BY <1>1, <1>3 DEF TypeOK
<1>5. resendRequested' \in [End -> SUBSET Nat]
  BY <1>1, <1>3 DEF TypeOK
<1>6. /\ net' \in [End -> SUBSET Packet]
      /\ \A d \in End, p \in Packet :
           p \in net'[d] => \/ p \in net[d]
                            \/ d = Other(e) /\ p.lastContinuous = lastInOrder[e]
  <2>1. CASE UNCHANGED net
    BY <2>1 DEF TypeOK
  <2>2. CASE \E G \in Packings(R \cup Elements(FirstN(fresh, k))) :
                \E first \in G : Transmit(Other(e), PacketsFor(e, nak, G, first))
    <3> DEFINE C == R \cup Elements(FirstN(fresh, k))
    <3>0. PICK G \in Packings(C) : \E first \in G :
             Transmit(Other(e), PacketsFor(e, nak, G, first))
      BY <2>2
    <3>1. PICK first \in G : Transmit(Other(e), PacketsFor(e, nak, G, first))
      BY <3>0
    <3>2. C \in SUBSET Nat
      BY <1>2, <1>3
    <3>3. \A p \in PacketsFor(e, nak, G, first) :
             p \in Packet /\ p.lastContinuous = lastInOrder[e]
      <4> HIDE DEF C
      <4> QED BY <3>2, PacketsType
    <3>4. Other(e) \in End
      BY OtherEnd
    <3> QED BY <3>1, <3>3, <3>4, TransmitType
  <2> QED BY <1>1, <2>1, <2>2
<1> QED BY <1>4, <1>5, <1>6

(* The chunks that Flush cuts, and the resend of the last one. *)
LEMMA FreshType ==
    ASSUME TypeOK, NEW e \in End, NEW n \in Nat
    PROVE  LET cut == [i \in 1..n |-> created[e] + i - 1] IN
           /\ cut \in Seq(Nat) /\ Len(cut) = n
           /\ newChunks[e] \o cut \in Seq(Nat)
<1> DEFINE cut == [i \in 1..n |-> created[e] + i - 1]
<1>1. created[e] \in Nat /\ newChunks[e] \in Seq(Nat)
  BY DEF TypeOK
<1>2. \A i \in 1..n : created[e] + i - 1 \in Nat
  BY <1>1
<1>3. cut \in Seq(Nat) /\ Len(cut) = n
  BY <1>2
<1> QED BY <1>1, <1>3

(* What a flush leaves behind. *)
LEMMA FlushType ==
    ASSUME TypeOK, NEW e \in End, NEW forced \in BOOLEAN, NEW n \in Nat,
           NEW nakDue \in BOOLEAN, NEW resendDue \in BOOLEAN,
           NEW idle \in BOOLEAN,
           FlushChunks(e, forced, n, nakDue, resendDue, idle)
    PROVE  /\ created' \in [End -> Nat]
           /\ newChunks' \in [End -> Seq(Nat)]
           /\ unackedChunks' \in [End -> Seq(Nat)]
           /\ resendRequested' \in [End -> SUBSET Nat]
           /\ net' \in [End -> SUBSET Packet]
           /\ \A d \in End, p \in Packet :
                p \in net'[d] => \/ p \in net[d]
                                 \/ d = Other(e) /\ p.lastContinuous = lastInOrder[e]
<1> DEFINE fresh == newChunks[e] \o [i \in 1..n |-> created[e] + i - 1]
           lastOne == IF resendDue /\ fresh = <<>> /\ unackedChunks[e] # <<>>
                      THEN {unackedChunks[e][Len(unackedChunks[e])]} ELSE {}
           requested == resendRequested[e] \cup lastOne
           nak == Nak(e, nakDue)
<1>1. created' \in [End -> Nat]
  BY DEF FlushChunks, TypeOK
<1>2. fresh \in Seq(Nat)
  BY FreshType
<1>3. requested \in SUBSET Nat
  <2>1. unackedChunks[e] \in Seq(Nat) /\ resendRequested[e] \in SUBSET Nat
    BY DEF TypeOK
  <2>2. unackedChunks[e] # <<>> => unackedChunks[e][Len(unackedChunks[e])] \in Nat
    BY <2>1
  <2> QED BY <2>1, <2>2
<1>4. nak \in Int
  BY NakType
<1>5. \/ SendPackets(e, nak, fresh, requested)
      \/ /\ resendRequested' = [resendRequested EXCEPT ![e] = requested]
         /\ UNCHANGED <<newChunks, unackedChunks, net>>
  BY DEF FlushChunks, SendIfNecessary
<1>6. CASE SendPackets(e, nak, fresh, requested)
  <2> HIDE DEF nak, fresh, requested
  <2> QED BY <1>1, <1>2, <1>3, <1>4, <1>6, SendPacketsType
<1>7. CASE /\ resendRequested' = [resendRequested EXCEPT ![e] = requested]
           /\ UNCHANGED <<newChunks, unackedChunks, net>>
  <2> HIDE DEF requested
  <2> QED BY <1>1, <1>3, <1>7 DEF TypeOK
<1> QED BY <1>5, <1>6, <1>7

(* What a packet that is not discarded leaves behind. *)
LEMMA AcksType ==
    ASSUME TypeOK, NEW e \in End, NEW p \in Packet, ProcessAcks(e, p)
    PROVE  /\ unackedChunks' \in [End -> Seq(Nat)]
           /\ resendRequested' \in [End -> SUBSET Nat]
<1>1. PICK a \in 0..Len(unackedChunks[e]) :
        LET u == Skip(unackedChunks[e], a)
            kept == {c \in resendRequested[e] : c > p.lastContinuous}
        IN  /\ unackedChunks' = [unackedChunks EXCEPT ![e] = u]
            /\ resendRequested' = [resendRequested EXCEPT ![e] =
                                     (kept \cup Asked(u, p)) \ Needless(u, p)]
  BY DEF ProcessAcks
<1> DEFINE u == Skip(unackedChunks[e], a)
<1>2. u \in Seq(Nat)
  <2>1. unackedChunks[e] \in Seq(Nat)
    BY DEF TypeOK
  <2> QED BY <2>1, Slices
<1>3. Asked(u, p) \subseteq Nat
  <2>1. NakPositions(u, p) \subseteq 0..(Len(u) - 1)
    BY DEF NakPositions
  <2> HIDE DEF u
  <2>2. \A q \in 0..(Len(u) - 1) : u[q + 1] \in Nat
    BY <1>2
  <2> QED BY <2>1, <2>2 DEF Asked
<1>4. resendRequested[e] \subseteq Nat
  BY DEF TypeOK
<1> HIDE DEF u
<1>5. unackedChunks' = [unackedChunks EXCEPT ![e] = u]
  BY <1>1 DEF u
<1>6. resendRequested' =
        [resendRequested EXCEPT ![e] =
           ({c \in resendRequested[e] : c > p.lastContinuous} \cup Asked(u, p))
              \ Needless(u, p)]
  BY <1>1 DEF u
<1> QED BY <1>2, <1>3, <1>4, <1>5, <1>6 DEF TypeOK

LEMMA ChunksType ==
    ASSUME TypeOK, NEW e \in End, NEW p \in Packet, ProcessChunks(e, p)
    PROVE  /\ lastInOrder' \in [End -> Nat \cup {-1}]
           /\ waitingPackets' \in [End -> SUBSET Nat]
<1>1. Held(e, p) \subseteq Nat
  BY DEF Held, TypeOK, Packet
<1>2. lastInOrder[e] \in Nat \cup {-1}
  BY DEF TypeOK
<1> QED BY <1>1, <1>2 DEF ProcessChunks, TypeOK

(***************************************************************************)
(* The types hold in every reachable state.                                *)
(***************************************************************************)
LEMMA TypeStep ==
    ASSUME TypeOK, [Next]_vars
    PROVE  TypeOK'
<1> USE DEF sender, receiver
<1>1. CASE UNCHANGED vars
  BY <1>1 DEF vars, TypeOK
<1>2. ASSUME NEW e \in End, Unmute(e) PROVE TypeOK'
  BY <1>2 DEF Unmute, TypeOK
<1>3. ASSUME NEW e \in End, NEW p \in net[e], Receive(e, p) PROVE TypeOK'
  <2>1. p \in Packet
    BY DEF TypeOK
  <2>2. /\ unackedChunks' \in [End -> Seq(Nat)]
        /\ resendRequested' \in [End -> SUBSET Nat]
        /\ lastInOrder' \in [End -> Nat \cup {-1}]
        /\ waitingPackets' \in [End -> SUBSET Nat]
    <3>1. CASE Superfluous(e, p)
      BY <1>3, <3>1 DEF Receive, ProcessRawPacket, TypeOK
    <3>2. CASE ~Superfluous(e, p)
      BY <1>3, <2>1, <3>2, AcksType, ChunksType DEF Receive, ProcessRawPacket
    <3> QED BY <3>1, <3>2
  <2>3. /\ net' \in [End -> SUBSET Packet]
        /\ polling' \in [End -> BOOLEAN]
    BY <1>3 DEF Receive, TypeOK
  <2>4. UNCHANGED <<muted, closed, created, newChunks>>
    BY <1>3 DEF Receive
  <2> QED BY <2>2, <2>3, <2>4 DEF TypeOK
<1>4. ASSUME NEW e \in End, UpdateMuted(e) PROVE TypeOK'
  BY <1>4 DEF UpdateMuted, TypeOK
<1>5. ASSUME NEW e \in End, NEW forced \in BOOLEAN, NEW n \in Nat,
             NEW nakDue \in BOOLEAN, NEW resendDue \in BOOLEAN,
             NEW idle \in BOOLEAN,
             FlushChunks(e, forced, n, nakDue, resendDue, idle),
             muted' \in [End -> BOOLEAN], closed' \in [End -> BOOLEAN],
             polling' \in [End -> BOOLEAN]
      PROVE  TypeOK'
  <2>1. UNCHANGED <<lastInOrder, waitingPackets>>
    BY <1>5 DEF FlushChunks
  <2>2. /\ created' \in [End -> Nat]
        /\ newChunks' \in [End -> Seq(Nat)]
        /\ unackedChunks' \in [End -> Seq(Nat)]
        /\ resendRequested' \in [End -> SUBSET Nat]
        /\ net' \in [End -> SUBSET Packet]
    BY <1>5, FlushType
  <2> QED BY <1>5, <2>1, <2>2 DEF TypeOK
<1>6. \A e \in End : \A n \in Cuts(e) : n \in Nat
  BY DEF Cuts
<1>7. \A e \in End, n \in Nat : NakTimer(e) \subseteq BOOLEAN
                                  /\ ResendTimer(e, n) \subseteq BOOLEAN
  BY DEF NakTimer, ResendTimer
<1>8. ASSUME NEW e \in End, UpdateStep(e) PROVE TypeOK'
  <2>1. PICK n \in Nat, nakDue \in BOOLEAN, idle \in BOOLEAN,
             resendDue \in BOOLEAN : Update(e, n, nakDue, resendDue, idle)
    BY <1>6, <1>7, <1>8 DEF UpdateStep
  <2> QED BY <2>1, <1>5 DEF Update, TypeOK
<1>9. ASSUME NEW e \in End, FlushStep(e) PROVE TypeOK'
  <2>1. PICK n \in Nat, nakDue \in BOOLEAN, resendDue \in BOOLEAN :
             ForcedFlush(e, n, nakDue, resendDue)
    BY <1>6, <1>7, <1>9 DEF FlushStep
  <2> QED BY <2>1, <1>5 DEF ForcedFlush, TypeOK
<1>10. ASSUME NEW e \in End, CloseStep(e) PROVE TypeOK'
  <2>1. CASE CloseMuted(e)
    BY <2>1 DEF CloseMuted, TypeOK
  <2>2. ASSUME NEW n \in Nat, NEW flush \in BOOLEAN, NEW nakDue \in BOOLEAN,
               NEW resendDue \in BOOLEAN, NEW idle \in BOOLEAN,
               Close(e, flush, n, nakDue, resendDue, idle)
        PROVE  TypeOK'
    <3>1. FlushChunks(e, flush, n, nakDue, resendDue, idle)
      BY <2>2 DEF Close
    <3>2. /\ muted' \in [End -> BOOLEAN]
          /\ closed' \in [End -> BOOLEAN]
          /\ polling' \in [End -> BOOLEAN]
      BY <2>2 DEF Close, TypeOK
    <3> QED BY <1>5, <3>1, <3>2
  <2>3. CASE ~CloseMuted(e)
    <3>1. PICK n \in Cuts(e), flush \in BOOLEAN, idle \in BOOLEAN,
               nakDue \in NakTimer(e) :
            \E resendDue \in ResendTimer(e, n) :
               Close(e, flush, n, nakDue, resendDue, idle)
      BY <1>10, <2>3 DEF CloseStep
    <3>2. PICK resendDue \in ResendTimer(e, n) :
               Close(e, flush, n, nakDue, resendDue, idle)
      BY <3>1
    <3>3. n \in Nat /\ nakDue \in BOOLEAN /\ resendDue \in BOOLEAN
      BY <1>6, <1>7
    <3> QED BY <2>2, <3>2, <3>3
  <2> QED BY <2>1, <2>3
<1>11. ASSUME NEW e \in End, AttemptReconnect(e) PROVE TypeOK'
  <2>1. {Probe({0}), Probe({})} \in SUBSET Packet
    BY DEF Probe, Packet
  <2>2. net' \in [End -> SUBSET Packet]
    <3>1. Transmit(Other(e), {Probe({0}), Probe({})})
      BY <1>11 DEF AttemptReconnect
    <3> HIDE DEF sender, receiver
    <3> QED BY <2>1, <3>1, OtherEnd, TransmitType
  <2> QED BY <1>11, <2>2 DEF AttemptReconnect, TypeOK
<1> QED
  BY <1>1, <1>2, <1>3, <1>4, <1>8, <1>9, <1>10, <1>11 DEF Next

(* TypeOK: every variable keeps its type whatever the ends and the network *)
(* do.                                                                     *)
THEOREM TypeCorrect == Spec => []TypeOK
<1>1. Init => TypeOK
  BY DEF Init, TypeOK
<1>2. TypeOK /\ [Next]_vars => TypeOK'
  BY TypeStep
<1> QED BY <1>1, <1>2, PTL DEF Spec

-----------------------------------------------------------------------------
(***************************************************************************)
(* No chunk is lost.  NoChunkLost is not inductive: an acknowledgement on  *)
(* its way may pop any chunk up to its number, so the invariant also says  *)
(* that no packet in flight acknowledges more than its sender has          *)
(* consumed, and that the numbers in the buffers are a run, so that        *)
(* popping a front means dropping all the smallest numbers.                *)
(***************************************************************************)
Run(s, first) == \A i \in 1..Len(s) : s[i] = first + i - 1

(* the oldest chunk not acknowledged, or the next one to be created *)
Oldest(e) == created[e] - Len(newChunks[e]) - Len(unackedChunks[e])

Runs ==
    \A e \in End :
        /\ Run(unackedChunks[e], Oldest(e))
        /\ Run(newChunks[e], Oldest(e) + Len(unackedChunks[e]))

AckedConsumed == \A e \in End : Oldest(e) <= lastInOrder[Other(e)] + 1

AcksTruthful ==
    \A e \in End : \A p \in net[e] : p.lastContinuous <= lastInOrder[Other(e)]

WaitingAhead == \A e \in End : \A w \in waitingPackets[e] : w > lastInOrder[e]

IInv == TypeOK /\ Runs /\ AckedConsumed /\ AcksTruthful /\ WaitingAhead

LEMMA BuffersType ==
    ASSUME TypeOK, NEW e \in End
    PROVE  /\ created[e] \in Nat
           /\ newChunks[e] \in Seq(Nat) /\ Len(newChunks[e]) \in Nat
           /\ unackedChunks[e] \in Seq(Nat) /\ Len(unackedChunks[e]) \in Nat
           /\ Oldest(e) \in Int
<1>1. created[e] \in Nat /\ newChunks[e] \in Seq(Nat) /\ unackedChunks[e] \in Seq(Nat)
  BY DEF TypeOK
<1> QED BY <1>1 DEF Oldest

LEMMA RunOfSlices ==
    ASSUME NEW s \in Seq(Nat), NEW first \in Int, Run(s, first),
           NEW k \in 0..Len(s)
    PROVE  Run(FirstN(s, k), first) /\ Run(Skip(s, k), first + k)
<1>1. k \in Nat /\ Len(s) \in Nat /\ k <= Len(s)
  OBVIOUS
<1>2. /\ Len(FirstN(s, k)) = k /\ Len(Skip(s, k)) = Len(s) - k
      /\ \A i \in 1..k : FirstN(s, k)[i] = s[i]
      /\ \A i \in 1..(Len(s) - k) : Skip(s, k)[i] = s[i + k]
  BY Slices
<1>3. \A i \in 1..k : FirstN(s, k)[i] = first + i - 1
  <2> SUFFICES ASSUME NEW i \in 1..k
               PROVE  FirstN(s, k)[i] = first + i - 1
    OBVIOUS
  <2>1. i \in 1..Len(s)
    BY <1>1
  <2>2. s[i] = first + i - 1
    BY <2>1 DEF Run
  <2> QED BY <1>2, <2>2
<1>4. \A i \in 1..(Len(s) - k) : Skip(s, k)[i] = (first + k) + i - 1
  <2> SUFFICES ASSUME NEW i \in 1..(Len(s) - k)
               PROVE  Skip(s, k)[i] = (first + k) + i - 1
    OBVIOUS
  <2>1. i + k \in 1..Len(s)
    BY <1>1
  <2>2. s[i + k] = first + (i + k) - 1
    BY <2>1 DEF Run
  <2> QED BY <1>1, <1>2, <2>2
<1> QED BY <1>2, <1>3, <1>4 DEF Run

LEMMA RunOfJoin ==
    ASSUME NEW s \in Seq(Nat), NEW t \in Seq(Nat), NEW first \in Int,
           Run(s, first), Run(t, first + Len(s))
    PROVE  /\ Run(s \o t, first) /\ s \o t \in Seq(Nat)
           /\ Len(s \o t) = Len(s) + Len(t)
<1>1. Len(s) \in Nat /\ Len(t) \in Nat
  OBVIOUS
<1>2. s \o t \in Seq(Nat) /\ Len(s \o t) = Len(s) + Len(t)
  OBVIOUS
<1>3. ASSUME NEW i \in 1..(Len(s) + Len(t))
      PROVE  (s \o t)[i] = first + i - 1
  <2>1. CASE i <= Len(s)
    BY <1>1, <2>1 DEF Run
  <2>2. CASE i > Len(s)
    <3>1. (s \o t)[i] = t[i - Len(s)] /\ i - Len(s) \in 1..Len(t)
      BY <1>1, <2>2
    <3> QED BY <1>1, <3>1 DEF Run
  <2> QED BY <1>1, <2>1, <2>2
<1> QED BY <1>2, <1>3 DEF Run

(* A flush appends to the run and does not move its front.                 *)
LEMMA FlushRuns ==
    ASSUME TypeOK, Runs, NEW e \in End, NEW forced \in BOOLEAN, NEW n \in Nat,
           NEW nakDue \in BOOLEAN, NEW resendDue \in BOOLEAN,
           NEW idle \in BOOLEAN,
           FlushChunks(e, forced, n, nakDue, resendDue, idle)
    PROVE  /\ Runs'
           /\ \A d \in End : Oldest(d)' = Oldest(d)
<1> DEFINE cut == [i \in 1..n |-> created[e] + i - 1]
           fresh == newChunks[e] \o cut
<1>1. /\ created[e] \in Nat /\ Len(newChunks[e]) \in Nat
      /\ Len(unackedChunks[e]) \in Nat /\ Oldest(e) \in Int
      /\ newChunks[e] \in Seq(Nat) /\ unackedChunks[e] \in Seq(Nat)
  BY BuffersType
<1>2. cut \in Seq(Nat) /\ Len(cut) = n /\ Run(cut, created[e])
  BY FreshType DEF Run
<1>3. created[e] = Oldest(e) + Len(unackedChunks[e]) + Len(newChunks[e])
  BY <1>1 DEF Oldest
<1>4. /\ fresh \in Seq(Nat) /\ Len(fresh) = Len(newChunks[e]) + n
      /\ Run(fresh, Oldest(e) + Len(unackedChunks[e]))
  <2>1. Run(newChunks[e], Oldest(e) + Len(unackedChunks[e]))
    BY DEF Runs
  <2> DEFINE base == Oldest(e) + Len(unackedChunks[e])
  <2>2. base \in Int /\ created[e] = base + Len(newChunks[e])
    BY <1>1, <1>3
  <2>3. Run(cut, base + Len(newChunks[e])) /\ Run(newChunks[e], base)
    BY <1>2, <2>1, <2>2
  <2> HIDE DEF cut, base
  <2>4. /\ Run(fresh, base) /\ fresh \in Seq(Nat)
        /\ Len(fresh) = Len(newChunks[e]) + Len(cut)
    BY <1>1, <1>2, <2>2, <2>3, RunOfJoin
  <2> QED BY <1>2, <2>4 DEF base
<1>5. PICK k \in 0..Len(fresh) :
        /\ newChunks' = [newChunks EXCEPT ![e] = Skip(fresh, k)]
        /\ unackedChunks' = [unackedChunks EXCEPT ![e] = @ \o FirstN(fresh, k)]
  <2> HIDE DEF fresh
  <2>1. CASE \E nak, requested : SendPackets(e, nak, fresh, requested)
    BY <2>1 DEF SendPackets
  <2>2. CASE UNCHANGED <<newChunks, unackedChunks>> /\ fresh = <<>>
    <3>1. n = 0 /\ newChunks[e] = <<>>
      BY <1>1, <1>4, <2>2
    <3>2. /\ Skip(fresh, 0) = newChunks[e]
          /\ unackedChunks[e] \o FirstN(fresh, 0) = unackedChunks[e]
      BY <1>1, <2>2, <3>1 DEF Skip, FirstN
    <3>3. 0 \in 0..Len(fresh)
      BY <1>4
    <3> QED BY <2>2, <3>2, <3>3 DEF TypeOK
  <2> QED BY <2>1, <2>2 DEF FlushChunks, SendIfNecessary, fresh
<1>6. created' = [created EXCEPT ![e] = @ + n]
  BY DEF FlushChunks
<1> HIDE DEF fresh, cut
<1>7. /\ FirstN(fresh, k) \in Seq(Nat) /\ Len(FirstN(fresh, k)) = k
      /\ Skip(fresh, k) \in Seq(Nat) /\ Len(Skip(fresh, k)) = Len(fresh) - k
  BY <1>4, Slices
<1>8. /\ Run(FirstN(fresh, k), Oldest(e) + Len(unackedChunks[e]))
      /\ Run(Skip(fresh, k), Oldest(e) + Len(unackedChunks[e]) + k)
  BY <1>1, <1>4, RunOfSlices
<1>9. /\ Run(unackedChunks[e] \o FirstN(fresh, k), Oldest(e))
      /\ Len(unackedChunks[e] \o FirstN(fresh, k)) = Len(unackedChunks[e]) + k
  BY <1>1, <1>7, <1>8, RunOfJoin DEF Runs
<1>10. /\ created'[e] = created[e] + n
       /\ newChunks'[e] = Skip(fresh, k)
       /\ unackedChunks'[e] = unackedChunks[e] \o FirstN(fresh, k)
       /\ \A d \in End \ {e} : /\ created'[d] = created[d]
                               /\ newChunks'[d] = newChunks[d]
                               /\ unackedChunks'[d] = unackedChunks[d]
  BY <1>5, <1>6 DEF TypeOK
<1>11. \A d \in End : Oldest(d)' = Oldest(d)
  <2>1. /\ created'[e] = created[e] + n
        /\ Len(newChunks'[e]) = Len(newChunks[e]) + n - k
        /\ Len(unackedChunks'[e]) = Len(unackedChunks[e]) + k
    BY <1>4, <1>7, <1>9, <1>10
  <2>2. k \in Int
    BY <1>4
  <2>3. created'[e] - Len(newChunks'[e]) - Len(unackedChunks'[e])
          = created[e] - Len(newChunks[e]) - Len(unackedChunks[e])
    BY <1>1, <2>1, <2>2
  <2>4. Oldest(e)' = Oldest(e)
    BY <2>3 DEF Oldest
  <2>5. \A d \in End \ {e} : Oldest(d)' = Oldest(d)
    BY <1>10 DEF Oldest
  <2> QED BY <2>4, <2>5
<1>12. ASSUME NEW d \in End
       PROVE  /\ Run(unackedChunks'[d], Oldest(d)')
              /\ Run(newChunks'[d], Oldest(d)' + Len(unackedChunks'[d]))
  <2>1. CASE d = e
    <3>1. Oldest(e) + Len(unackedChunks[e]) + k = Oldest(e) + (Len(unackedChunks[e]) + k)
      BY <1>1, <1>4
    <3> QED BY <1>8, <1>9, <1>10, <1>11, <2>1, <3>1
  <2>2. CASE d # e
    BY <1>10, <1>11, <2>2 DEF Runs
  <2> QED BY <2>1, <2>2
<1> QED BY <1>11, <1>12 DEF Runs

(* A packet pops only what it acknowledges, and the receiver only moves on. *)
LEMMA AcksRuns ==
    ASSUME TypeOK, Runs, NEW e \in End, NEW p \in Packet, ProcessAcks(e, p),
           UNCHANGED <<created, newChunks>>
    PROVE  /\ Runs'
           /\ \A d \in End \ {e} : Oldest(d)' = Oldest(d)
           /\ Oldest(e)' = Oldest(e) \/ Oldest(e)' <= p.lastContinuous + 1
<1> DEFINE u == unackedChunks[e]
<1>1. PICK a \in 0..Len(u) :
        /\ Acknowledged(u, p.lastContinuous, a)
        /\ unackedChunks' = [unackedChunks EXCEPT ![e] = Skip(u, a)]
  BY DEF ProcessAcks
<1>2. /\ created[e] \in Nat /\ Len(newChunks[e]) \in Nat
      /\ Len(u) \in Nat /\ u \in Seq(Nat) /\ Oldest(e) \in Int
  BY BuffersType
<1>3. p.lastContinuous \in Int /\ a \in Nat /\ a <= Len(u)
  BY <1>2 DEF Packet
<1>4. Run(u, Oldest(e))
  BY DEF Runs
<1>5. /\ Skip(u, a) \in Seq(Nat) /\ Len(Skip(u, a)) = Len(u) - a
      /\ Run(Skip(u, a), Oldest(e) + a)
  <2> HIDE DEF u
  <2> QED BY <1>2, <1>4, Slices, RunOfSlices
<1>6. /\ unackedChunks'[e] = Skip(u, a)
      /\ \A d \in End \ {e} : unackedChunks'[d] = unackedChunks[d]
  BY <1>1 DEF TypeOK
<1>7. Oldest(e)' = Oldest(e) + a
  <2>1. Len(unackedChunks'[e]) = Len(unackedChunks[e]) - a
    BY <1>5, <1>6
  <2>2. created[e] - Len(newChunks[e]) - Len(unackedChunks'[e])
          = (created[e] - Len(newChunks[e]) - Len(unackedChunks[e])) + a
    BY <1>2, <1>3, <2>1
  <2> QED BY <2>2 DEF Oldest
<1>8. \A d \in End \ {e} : Oldest(d)' = Oldest(d)
  BY <1>6 DEF Oldest
<1>9. Oldest(e)' = Oldest(e) \/ Oldest(e)' <= p.lastContinuous + 1
  <2>1. CASE a = 0
    BY <1>2, <1>7, <2>1
  <2>2. CASE a > 0
    <3>1. a \in 1..a /\ a \in 1..Len(u)
      BY <1>2, <1>3, <2>2
    <3>2. u[a] <= p.lastContinuous /\ u[a] = Oldest(e) + a - 1
      BY <1>1, <1>4, <3>1 DEF Acknowledged, Run
    <3> QED BY <1>2, <1>3, <1>7, <3>2
  <2> QED BY <1>3, <2>1, <2>2
<1>10. ASSUME NEW d \in End
       PROVE  /\ Run(unackedChunks'[d], Oldest(d)')
              /\ Run(newChunks'[d], Oldest(d)' + Len(unackedChunks'[d]))
  <2>1. CASE d = e
    <3>1. Run(newChunks[e], Oldest(e) + Len(u))
      BY DEF Runs
    <3>2. (Oldest(e) + a) + (Len(u) - a) = Oldest(e) + Len(u)
      BY <1>2, <1>3
    <3> QED BY <1>5, <1>6, <1>7, <2>1, <3>1, <3>2
  <2>2. CASE d # e
    BY <1>6, <1>8, <2>2 DEF Runs
  <2> QED BY <2>1, <2>2
<1> QED BY <1>8, <1>9, <1>10 DEF Runs

LEMMA ChunksAhead ==
    ASSUME TypeOK, WaitingAhead, NEW e \in End, NEW p \in Packet,
           ProcessChunks(e, p)
    PROVE  /\ \A d \in End : lastInOrder[d] <= lastInOrder'[d]
           /\ \A d \in End \ {e} : lastInOrder'[d] = lastInOrder[d]
           /\ WaitingAhead'
<1>1. PICK n \in {lastInOrder[e]} \cup Held(e, p) :
        /\ lastInOrder' = [lastInOrder EXCEPT ![e] = n]
        /\ waitingPackets' =
             [waitingPackets EXCEPT ![e] = {c \in Held(e, p) : c > n}]
  BY DEF ProcessChunks
<1>2. \A d \in End : lastInOrder[d] \in Int
  BY LastInOrderType
<1>3. \A w \in Held(e, p) : w > lastInOrder[e]
  BY DEF Held, WaitingAhead
<1>4. Held(e, p) \subseteq Nat
  BY DEF Held, TypeOK, Packet
<1>5. lastInOrder[e] <= n
  BY <1>2, <1>3, <1>4
<1>6. /\ lastInOrder'[e] = n
      /\ \A d \in End \ {e} : lastInOrder'[d] = lastInOrder[d]
      /\ waitingPackets'[e] = {c \in Held(e, p) : c > n}
      /\ \A d \in End \ {e} : waitingPackets'[d] = waitingPackets[d]
  BY <1>1 DEF TypeOK
<1>7. \A d \in End : lastInOrder[d] <= lastInOrder'[d]
  BY <1>2, <1>5, <1>6
<1>8. WaitingAhead'
  BY <1>6 DEF WaitingAhead
<1> QED BY <1>6, <1>7, <1>8

(* What the steps do to the state the invariant is about. *)
LEMMA StepCases ==
    ASSUME TypeOK, [Next]_vars
    PROVE  \/ UNCHANGED <<created, newChunks, unackedChunks, resendRequested,
                          lastInOrder, waitingPackets, net>>
           \/ \E e \in End, p \in Packet : p \in net[e] /\ Receive(e, p)
           \/ \E e \in End, forced \in BOOLEAN, n \in Nat, nakDue \in BOOLEAN,
                 resendDue \in BOOLEAN, idle \in BOOLEAN :
                 FlushChunks(e, forced, n, nakDue, resendDue, idle)
           \/ \E e \in End :
                 /\ Transmit(Other(e), {Probe({0}), Probe({})})
                 /\ lastInOrder[Other(e)] >= 0
                 /\ UNCHANGED <<created, newChunks, unackedChunks, resendRequested,
                                lastInOrder, waitingPackets>>
<1> DEFINE Goal ==
           \/ UNCHANGED <<created, newChunks, unackedChunks, resendRequested,
                          lastInOrder, waitingPackets, net>>
           \/ \E e \in End, p \in Packet : p \in net[e] /\ Receive(e, p)
           \/ \E e \in End, forced \in BOOLEAN, n \in Nat, nakDue \in BOOLEAN,
                 resendDue \in BOOLEAN, idle \in BOOLEAN :
                 FlushChunks(e, forced, n, nakDue, resendDue, idle)
           \/ \E e \in End :
                 /\ Transmit(Other(e), {Probe({0}), Probe({})})
                 /\ lastInOrder[Other(e)] >= 0
                 /\ UNCHANGED <<created, newChunks, unackedChunks, resendRequested,
                                lastInOrder, waitingPackets>>
<1>1. ASSUME UNCHANGED vars PROVE Goal
  BY <1>1 DEF vars, sender, receiver
<1>2. ASSUME NEW e \in End, Unmute(e) \/ UpdateMuted(e) PROVE Goal
  BY <1>2 DEF Unmute, UpdateMuted, sender, receiver
<1>3. ASSUME NEW e \in End, NEW p \in net[e], Receive(e, p) PROVE Goal
  <2>1. p \in Packet
    BY DEF TypeOK
  <2> QED BY <1>3, <2>1
<1>4. \A e \in End : \A n \in Cuts(e) : n \in Nat
  BY DEF Cuts
<1>5. \A e \in End, n \in Nat : NakTimer(e) \subseteq BOOLEAN
                                  /\ ResendTimer(e, n) \subseteq BOOLEAN
  BY DEF NakTimer, ResendTimer
<1>6. ASSUME NEW e \in End, UpdateStep(e) PROVE Goal
  <2>1. PICK n \in Nat, nakDue \in BOOLEAN, idle \in BOOLEAN,
             resendDue \in BOOLEAN : Update(e, n, nakDue, resendDue, idle)
    BY <1>4, <1>5, <1>6 DEF UpdateStep
  <2>2. FlushChunks(e, FALSE, n, nakDue, resendDue, idle)
    BY <2>1 DEF Update
  <2> QED BY <2>2
<1>7. ASSUME NEW e \in End, FlushStep(e) PROVE Goal
  <2>1. PICK n \in Nat, nakDue \in BOOLEAN, resendDue \in BOOLEAN :
             ForcedFlush(e, n, nakDue, resendDue)
    BY <1>4, <1>5, <1>7 DEF FlushStep
  <2>2. FlushChunks(e, TRUE, n, nakDue, resendDue, FALSE)
    BY <2>1 DEF ForcedFlush
  <2> QED BY <2>2
<1>8. ASSUME NEW e \in End, CloseStep(e) PROVE Goal
  <2>1. CASE CloseMuted(e)
    BY <2>1 DEF CloseMuted, sender, receiver
  <2>2. CASE ~CloseMuted(e)
    <3>1. PICK n \in Cuts(e), flush \in BOOLEAN, idle \in BOOLEAN,
               nakDue \in NakTimer(e) :
            \E resendDue \in ResendTimer(e, n) :
               Close(e, flush, n, nakDue, resendDue, idle)
      BY <1>8, <2>2 DEF CloseStep
    <3>2. PICK resendDue \in ResendTimer(e, n) :
               Close(e, flush, n, nakDue, resendDue, idle)
      BY <3>1
    <3>3. n \in Nat /\ nakDue \in BOOLEAN /\ resendDue \in BOOLEAN
      BY <1>4, <1>5
    <3>4. FlushChunks(e, flush, n, nakDue, resendDue, idle)
      BY <3>2 DEF Close
    <3> QED BY <3>3, <3>4
  <2> QED BY <2>1, <2>2
<1>9. ASSUME NEW e \in End, AttemptReconnect(e) PROVE Goal
  BY <1>9 DEF AttemptReconnect, sender, receiver
<1> HIDE DEF Goal
<1>10. Goal
  <2>1. CASE Next
    <3>1. PICK e \in End :
            \/ Unmute(e) \/ UpdateMuted(e)
            \/ \E p \in net[e] : Receive(e, p)
            \/ UpdateStep(e) \/ FlushStep(e) \/ CloseStep(e)
            \/ AttemptReconnect(e)
      BY <2>1 DEF Next
    <3>2. CASE Unmute(e) \/ UpdateMuted(e)
      BY <1>2, <3>2
    <3>3. CASE \E p \in net[e] : Receive(e, p)
      <4>1. PICK p \in net[e] : Receive(e, p)
        BY <3>3
      <4> QED BY <1>3, <4>1
    <3>4. CASE UpdateStep(e)
      BY <1>6, <3>4
    <3>5. CASE FlushStep(e)
      BY <1>7, <3>5
    <3>6. CASE CloseStep(e)
      BY <1>8, <3>6
    <3>7. CASE AttemptReconnect(e)
      BY <1>9, <3>7
    <3> QED BY <3>1, <3>2, <3>3, <3>4, <3>5, <3>6, <3>7
  <2> QED BY <1>1, <2>1
<1> QED BY <1>10 DEF Goal

LEMMA IInvStep ==
    ASSUME IInv, [Next]_vars
    PROVE  IInv'
<1> USE DEF IInv
<1>1. TypeOK'
  BY TypeStep
<1>2. \A d \in End : lastInOrder[d] \in Int /\ Oldest(d) \in Int
  BY LastInOrderType, BuffersType
<1>3. \A d \in End : lastInOrder'[d] \in Int
  BY <1>1, LastInOrderType DEF TypeOK
<1>4. \A d \in End : \A p \in net[d] : p \in Packet /\ p.lastContinuous \in Int
  BY DEF TypeOK, Packet
<1>5. CASE UNCHANGED <<created, newChunks, unackedChunks, lastInOrder,
                       waitingPackets, net>>
  BY <1>1, <1>5 DEF Runs, AckedConsumed, AcksTruthful, WaitingAhead, Oldest
<1>6. ASSUME NEW e \in End, NEW p \in Packet, p \in net[e], Receive(e, p)
      PROVE  IInv'
  <2>1. \A d \in End : net'[d] \subseteq net[d]
    BY <1>6 DEF Receive, TypeOK
  <2>2. UNCHANGED <<created, newChunks>>
    BY <1>6 DEF Receive
  <2>3. CASE Superfluous(e, p)
    <3>1. UNCHANGED <<unackedChunks, lastInOrder, waitingPackets>>
      BY <1>6, <2>3 DEF Receive, ProcessRawPacket, receiver
    <3>2. Runs' /\ AckedConsumed' /\ WaitingAhead'
      BY <2>2, <3>1 DEF Runs, AckedConsumed, WaitingAhead, Oldest
    <3>3. AcksTruthful'
      BY <2>1, <3>1 DEF AcksTruthful
    <3> QED BY <1>1, <3>2, <3>3
  <2>4. CASE ~Superfluous(e, p)
    <3>1. ProcessAcks(e, p) /\ ProcessChunks(e, p)
      BY <1>6, <2>4 DEF Receive, ProcessRawPacket
    <3>2. /\ Runs'
          /\ \A d \in End \ {e} : Oldest(d)' = Oldest(d)
          /\ Oldest(e)' = Oldest(e) \/ Oldest(e)' <= p.lastContinuous + 1
      BY <2>2, <3>1, AcksRuns
    <3>3. /\ \A d \in End : lastInOrder[d] <= lastInOrder'[d]
          /\ \A d \in End \ {e} : lastInOrder'[d] = lastInOrder[d]
          /\ WaitingAhead'
      BY <3>1, ChunksAhead
    <3>4. AcksTruthful'
      <4> SUFFICES ASSUME NEW d \in End, NEW q \in net'[d]
                   PROVE  q.lastContinuous <= lastInOrder'[Other(d)]
        BY DEF AcksTruthful
      <4>1. q.lastContinuous <= lastInOrder[Other(d)] /\ q.lastContinuous \in Int
        BY <2>1, <1>4 DEF AcksTruthful
      <4>2. Other(d) \in End
        BY OtherEnd
      <4> QED BY <1>2, <1>3, <3>3, <4>1, <4>2
    <3>5. AckedConsumed'
      <4> SUFFICES ASSUME NEW d \in End
                   PROVE  Oldest(d)' <= lastInOrder'[Other(d)] + 1
        BY DEF AckedConsumed
      <4>1. /\ Other(d) \in End
            /\ Oldest(d) <= lastInOrder[Other(d)] + 1
        BY OtherEnd DEF AckedConsumed
      <4>2. lastInOrder[Other(d)] <= lastInOrder'[Other(d)]
        BY <3>3, <4>1
      <4>3. CASE Oldest(d)' = Oldest(d)
        BY <1>2, <1>3, <4>1, <4>2, <4>3
      <4>4. CASE Oldest(d)' # Oldest(d)
        <5>1. d = e
          BY <3>2, <4>4
        <5>2. Oldest(d)' <= p.lastContinuous + 1
          BY <3>2, <4>4, <5>1
        <5>3. p.lastContinuous <= lastInOrder[Other(d)]
          BY <1>6, <5>1 DEF AcksTruthful
        <5>4. Oldest(d)' \in Int
          BY <1>1, BuffersType DEF Oldest, TypeOK
        <5>5. p.lastContinuous \in Int
          BY DEF Packet
        <5> QED BY <1>2, <1>3, <4>1, <4>2, <5>2, <5>3, <5>4, <5>5
      <4> QED BY <4>3, <4>4
    <3> QED BY <1>1, <3>2, <3>3, <3>4, <3>5
  <2> QED BY <2>3, <2>4
<1>7. ASSUME NEW e \in End, NEW forced \in BOOLEAN, NEW n \in Nat,
             NEW nakDue \in BOOLEAN, NEW resendDue \in BOOLEAN,
             NEW idle \in BOOLEAN,
             FlushChunks(e, forced, n, nakDue, resendDue, idle)
      PROVE  IInv'
  <2>1. Runs' /\ \A d \in End : Oldest(d)' = Oldest(d)
    BY <1>7, FlushRuns
  <2>2. UNCHANGED <<lastInOrder, waitingPackets>>
    BY <1>7 DEF FlushChunks, receiver
  <2>3. \A d \in End, p \in Packet :
          p \in net'[d] => \/ p \in net[d]
                           \/ d = Other(e) /\ p.lastContinuous = lastInOrder[e]
    BY <1>7, FlushType
  <2>4. AckedConsumed'
    BY <2>1, <2>2 DEF AckedConsumed
  <2>5. WaitingAhead'
    BY <2>2 DEF WaitingAhead
  <2>6. AcksTruthful'
    <3> SUFFICES ASSUME NEW d \in End, NEW p \in net'[d]
                 PROVE  p.lastContinuous <= lastInOrder'[Other(d)]
      BY DEF AcksTruthful
    <3>1. p \in Packet
      BY <1>1 DEF TypeOK
    <3>2. CASE p \in net[d]
      BY <2>2, <3>2 DEF AcksTruthful
    <3>3. CASE d = Other(e) /\ p.lastContinuous = lastInOrder[e]
      BY <1>2, <2>2, <3>3, OtherEnd
    <3> QED BY <2>3, <3>1, <3>2, <3>3
  <2> QED BY <1>1, <2>1, <2>4, <2>5, <2>6
<1>8. ASSUME NEW e \in End, Transmit(Other(e), {Probe({0}), Probe({})}),
             UNCHANGED <<created, newChunks, unackedChunks, lastInOrder,
                         waitingPackets>>
      PROVE  IInv'
  <2>1. Runs' /\ AckedConsumed' /\ WaitingAhead'
    BY <1>8 DEF Runs, AckedConsumed, WaitingAhead, Oldest
  <2>2. AcksTruthful'
    <3> SUFFICES ASSUME NEW d \in End, NEW p \in net'[d]
                 PROVE  p.lastContinuous <= lastInOrder'[Other(d)]
      BY DEF AcksTruthful
    <3>1. p \in net[d] \/ p \in {Probe({0}), Probe({})}
      BY <1>8 DEF Transmit, TypeOK
    <3>2. CASE p \in net[d]
      BY <1>8, <3>2 DEF AcksTruthful
    <3>3. CASE p \in {Probe({0}), Probe({})}
      <4>1. p.lastContinuous = -1
        BY <3>3 DEF Probe
      <4>2. lastInOrder[Other(d)] >= -1
        BY LastInOrderType, OtherEnd
      <4> QED BY <1>2, <1>8, <4>1, <4>2, OtherEnd
    <3> QED BY <3>1, <3>2, <3>3
  <2> QED BY <1>1, <2>1, <2>2
<1> QED BY <1>5, <1>6, <1>7, <1>8, StepCases

LEMMA IInvInit == Init => IInv
<1> SUFFICES ASSUME Init PROVE IInv
  OBVIOUS
<1>1. TypeOK
  BY DEF Init, TypeOK
<1>2. \A e \in End : /\ Oldest(e) = 0
                     /\ Len(newChunks[e]) = 0 /\ Len(unackedChunks[e]) = 0
  BY DEF Init, Oldest
<1>3. Runs
  BY <1>2 DEF Runs, Run
<1>4. AckedConsumed
  BY <1>2, OtherEnd DEF Init, AckedConsumed
<1>5. AcksTruthful /\ WaitingAhead
  BY DEF Init, AcksTruthful, WaitingAhead
<1> QED BY <1>1, <1>3, <1>4, <1>5 DEF IInv

LEMMA IInvHolds == Spec => []IInv
<1>1. Init => IInv
  BY IInvInit
<1>2. IInv /\ [Next]_vars => IInv'
  BY IInvStep
<1> QED BY <1>1, <1>2, PTL DEF Spec

(***************************************************************************)
(* NoChunkLost: AckChunks never pops a chunk that the other end has not    *)
(* consumed, whatever is lost, repeated or reordered, for any number of    *)
(* chunks and packets.                                                     *)
(***************************************************************************)
THEOREM NoChunkIsLost == Spec => []NoChunkLost
<1>1. IInv => NoChunkLost
  <2> SUFFICES ASSUME IInv, NEW e \in End, NEW c \in ChunkNum(e)
               PROVE  \/ c \in Elements(newChunks[e]) \cup Elements(unackedChunks[e])
                      \/ c <= lastInOrder[Other(e)]
    BY DEF NoChunkLost
  <2> DEFINE u == unackedChunks[e]
             f == newChunks[e]
             base == Oldest(e)
  <2>1. /\ created[e] \in Nat /\ Len(f) \in Nat /\ Len(u) \in Nat
        /\ base \in Int
    BY BuffersType DEF IInv
  <2>2. created[e] = base + Len(u) + Len(f)
    BY <2>1 DEF Oldest
  <2>3. c \in Int /\ c < created[e]
    BY <2>1 DEF ChunkNum
  <2>4. Run(u, base) /\ Run(f, base + Len(u))
    BY DEF IInv, Runs
  <2>5. base <= lastInOrder[Other(e)] + 1 /\ lastInOrder[Other(e)] \in Int
    BY LastInOrderType, OtherEnd DEF IInv, AckedConsumed
  <2> HIDE DEF u, f, base
  <2>6. CASE c < base
    BY <2>1, <2>3, <2>5, <2>6
  <2>7. CASE base <= c /\ c < base + Len(u)
    <3>1. c - base + 1 \in 1..Len(u)
      BY <2>1, <2>3, <2>7
    <3>2. u[c - base + 1] = c
      BY <2>1, <2>3, <2>4, <3>1 DEF Run
    <3> QED BY <3>1, <3>2 DEF Elements, u
  <2>8. CASE base + Len(u) <= c
    <3>1. c - (base + Len(u)) + 1 \in 1..Len(f)
      BY <2>1, <2>2, <2>3, <2>8
    <3>2. f[c - (base + Len(u)) + 1] = c
      BY <2>1, <2>3, <2>4, <3>1 DEF Run
    <3> QED BY <3>1, <3>2 DEF Elements, f
  <2> QED BY <2>1, <2>3, <2>6, <2>7, <2>8
<1> QED BY <1>1, IInvHolds, PTL

(* Contiguous: the two send buffers always hold one run of numbers that    *)
(* ends at currentPacketChunkNum, which the position arithmetic of         *)
(* ProcessRawPacket (unAckDiff + index) takes for granted.                 *)
THEOREM BuffersContiguous == Spec => []Contiguous
<1>1. IInv => Contiguous
  <2> SUFFICES ASSUME IInv, NEW e \in End,
                      NEW i \in 1..Len(unackedChunks[e] \o newChunks[e])
               PROVE  (unackedChunks[e] \o newChunks[e])[i]
                        = created[e] - Len(unackedChunks[e] \o newChunks[e]) + i - 1
    BY DEF Contiguous
  <2> DEFINE u == unackedChunks[e]
             f == newChunks[e]
             base == Oldest(e)
  <2>1. /\ created[e] \in Nat /\ Len(f) \in Nat /\ Len(u) \in Nat
        /\ base \in Int /\ u \in Seq(Nat) /\ f \in Seq(Nat)
    BY BuffersType DEF IInv
  <2>2. base = created[e] - Len(f) - Len(u)
    BY DEF Oldest
  <2>3. Run(u, base) /\ Run(f, base + Len(u))
    BY DEF IInv, Runs
  <2>4. i \in 1..Len(u \o f)
    OBVIOUS
  <2> HIDE DEF u, f, base
  <2>5. Run(u \o f, base) /\ Len(u \o f) = Len(u) + Len(f)
    BY <2>1, <2>3, RunOfJoin
  <2>6. (u \o f)[i] = base + i - 1
    BY <2>4, <2>5 DEF Run
  <2>7. (u \o f)[i] = created[e] - Len(u \o f) + i - 1
    BY <2>1, <2>2, <2>5, <2>6
  <2> QED BY <2>7 DEF u, f
<1> QED BY <1>1, IInvHolds, PTL

-----------------------------------------------------------------------------
(***************************************************************************)
(* What travels in the packets.  A nak list rides ahead of the state it    *)
(* was made from: the invariant says what of it stays true for as long as  *)
(* the packet may be delivered.  A chunk that the list passes over was in  *)
(* the hands of the other end, which never lets go of a chunk; and a probe *)
(* was sent to an end that has consumed its first chunk.                   *)
(***************************************************************************)
NakListsTruthful ==
    \A e \in End : \A p \in net[e] :
        /\ p.nakType = 0 => p.naks = {}
        /\ \A o \in p.naks : \A q \in 0..(o - 1) :
              q \notin p.naks => HeldByPeer(e, p.lastContinuous + 1 + q)

ProbesLate ==
    \A e \in End : \A p \in net[e] :
        p.probe => p \in {Probe({0}), Probe({})} /\ lastInOrder[e] >= 0

(* ProcessRawPacket consumes all it can: the next chunk never waits.       *)
NextNeverWaits == \A e \in End : lastInOrder[e] + 1 \notin waitingPackets[e]

TravelInv == NakListsTruthful /\ ProbesLate /\ NextNeverWaits /\ ResendsOnlyUnacked

(* The first nak missing chunks leave out no missing chunk below another.  *)
LEMMA OffsetsSkipOnlyHeld ==
    ASSUME TypeOK, NEW e \in End, NEW nak \in Int, NEW o \in NakOffsets(e, nak),
           NEW q \in 0..(o - 1), q \notin NakOffsets(e, nak)
    PROVE  lastInOrder[e] + 1 + q \in waitingPackets[e]
<1> DEFINE D == droppedPackets(e)
           Below(x) == {d \in D : d < x}
           first == lastInOrder[e] + 1
<1>1. first \in Nat
  BY LastInOrderType
<1>2. IsFiniteSet(D) /\ D \subseteq Nat
  BY DroppedFinite
<1>3. PICK m \in D : o = m - first /\ Cardinality(Below(m)) < nak
  BY DEF NakOffsets
<1>4. m \in Nat /\ q \in Nat /\ first + q < m
  BY <1>1, <1>2, <1>3
<1>5. /\ m \in first..(first + NakWindow)
      /\ \E w \in waitingPackets[e] : w > m
  BY <1>3 DEF droppedPackets
<1>6. first + q \notin D
  <2> SUFFICES ASSUME first + q \in D PROVE FALSE
    OBVIOUS
  <2>1. Below(first + q) \subseteq Below(m)
    BY <1>1, <1>2, <1>4
  <2>2. IsFiniteSet(Below(m))
    BY <1>2, FS_Subset, Below(m) \subseteq D
  <2> HIDE DEF Below
  <2>3. /\ IsFiniteSet(Below(first + q))
        /\ Cardinality(Below(first + q)) <= Cardinality(Below(m))
    BY <2>1, <2>2, FS_Subset
  <2>4. Cardinality(Below(first + q)) < nak
    BY <1>3, <2>2, <2>3, FS_CardinalityType
  <2>5. (first + q) - first = q
    BY <1>1, <1>4
  <2>6. (first + q) - first \in NakOffsets(e, nak)
    BY <2>4 DEF NakOffsets, Below
  <2> QED BY <2>5, <2>6
<1>7. first + q \in first..(first + NakWindow)
  BY <1>1, <1>4, <1>5, BoundAssumption
<1>8. \E w \in waitingPackets[e] : w > first + q
  <2>1. PICK w \in waitingPackets[e] : w > m
    BY <1>5
  <2>2. w \in Nat
    BY DEF TypeOK
  <2> QED BY <1>1, <1>4, <2>1, <2>2
<1> QED BY <1>6, <1>7, <1>8 DEF droppedPackets

LEMMA Transmitted ==
    ASSUME TypeOK, NEW e \in End, NEW P, Transmit(e, P), NEW d \in End, NEW p \in net'[d]
    PROVE  p \in net[d] \/ (d = e /\ p \in P)
<1>1. PICK keep \in SUBSET net[e] : net' = [net EXCEPT ![e] = keep \cup P]
  BY DEF Transmit
<1>2. net \in [End -> SUBSET Packet]
  BY DEF TypeOK
<1>3. CASE d = e
  BY <1>1, <1>2, <1>3
<1>4. CASE d # e
  BY <1>1, <1>2, <1>4
<1> QED BY <1>3, <1>4

(* Every packet of a flush is made from the receiver's present state.      *)
LEMMA FlushPackets ==
    ASSUME TypeOK, NEW e \in End, NEW forced \in BOOLEAN, NEW n \in Nat,
           NEW nakDue \in BOOLEAN, NEW resendDue \in BOOLEAN,
           NEW idle \in BOOLEAN,
           FlushChunks(e, forced, n, nakDue, resendDue, idle),
           NEW d \in End, NEW p \in net'[d]
    PROVE  \/ p \in net[d]
           \/ d = Other(e) /\ \E k \in Int : \E c : p = MakePacket(e, k, c)
<1> DEFINE fresh == newChunks[e] \o [i \in 1..n |-> created[e] + i - 1]
           lastOne == IF resendDue /\ fresh = <<>> /\ unackedChunks[e] # <<>>
                      THEN {unackedChunks[e][Len(unackedChunks[e])]} ELSE {}
           requested == resendRequested[e] \cup lastOne
           nak == Nak(e, nakDue)
<1>1. nak \in Int
  BY NakType
<1>2. SendPackets(e, nak, fresh, requested) \/ UNCHANGED net
  BY DEF FlushChunks, SendIfNecessary
<1>3. CASE UNCHANGED net
  BY <1>3
<1>4. CASE ~UNCHANGED net
  <2> HIDE DEF nak, fresh, requested
  <2>1. PICK C : \E G \in Packings(C) : \E first \in G :
                    Transmit(Other(e), PacketsFor(e, nak, G, first))
    BY <1>2, <1>4 DEF SendPackets
  <2>2. PICK G \in Packings(C) : \E first \in G :
                    Transmit(Other(e), PacketsFor(e, nak, G, first))
    BY <2>1
  <2>3. PICK first \in G : Transmit(Other(e), PacketsFor(e, nak, G, first))
    BY <2>2
  <2>4. p \in net[d] \/ (d = Other(e) /\ p \in PacketsFor(e, nak, G, first))
    BY <2>3, OtherEnd, Transmitted
  <2>5. ASSUME p \in PacketsFor(e, nak, G, first)
        PROVE  \E k \in Int : \E c : p = MakePacket(e, k, c)
    <3>1. PICK g \in G :
            p = MakePacket(e, IF g = first \/ nak <= 0 \/ ~MinLoss(e) THEN nak ELSE 0, g)
      BY <2>5 DEF PacketsFor
    <3>2. CASE p = MakePacket(e, nak, g)
      BY <1>1, <3>2
    <3>3. CASE p = MakePacket(e, 0, g)
      BY <3>3, 0 \in Int
    <3> QED BY <3>1, <3>2, <3>3
  <2> QED BY <2>4, <2>5
<1> QED BY <1>3, <1>4

LEMMA MadePackets ==
    ASSUME TypeOK, NEW e \in End, NEW nak \in Int, NEW C
    PROVE  LET p == MakePacket(e, nak, C) IN
           /\ ~p.probe
           /\ p.nakType = 0 => p.naks = {}
           /\ \A o \in p.naks : \A q \in 0..(o - 1) :
                 q \notin p.naks => p.lastContinuous + 1 + q \in waitingPackets[e]
<1> DEFINE p == MakePacket(e, nak, C)
<1>1. /\ p.probe = FALSE /\ p.nakType = nak /\ p.lastContinuous = lastInOrder[e]
      /\ p.naks = NakOffsets(e, nak)
  BY DEF MakePacket
<1> HIDE DEF p
<1>2. ASSUME nak = 0 PROVE NakOffsets(e, nak) = {}
  <2> SUFFICES ASSUME NEW m \in droppedPackets(e),
                      Cardinality({x \in droppedPackets(e) : x < m}) < 0
               PROVE  FALSE
    BY <1>2 DEF NakOffsets
  <2>1. IsFiniteSet({x \in droppedPackets(e) : x < m})
    BY DroppedFinite, FS_Subset, {x \in droppedPackets(e) : x < m} \subseteq droppedPackets(e)
  <2> QED BY <2>1, FS_CardinalityType
<1>3. \A o \in p.naks : \A q \in 0..(o - 1) :
         q \notin p.naks => p.lastContinuous + 1 + q \in waitingPackets[e]
  BY <1>1, OffsetsSkipOnlyHeld
<1>4. ~p.probe /\ (p.nakType = 0 => p.naks = {})
  BY <1>1, <1>2
<1> QED BY <1>3, <1>4 DEF p

(* Whoever holds a chunk goes on holding it.                               *)
LEMMA HoldsOn ==
    ASSUME TypeOK, WaitingAhead, NextNeverWaits, NEW e \in End, NEW p \in Packet,
           ProcessChunks(e, p)
    PROVE  /\ NextNeverWaits'
           /\ \A d \in End : lastInOrder[d] <= lastInOrder'[d]
           /\ \A d \in End, c \in Int : HeldByPeer(d, c) => HeldByPeer(d, c)'
<1>1. PICK n \in {lastInOrder[e]} \cup Held(e, p) :
        /\ n + 1 \notin Held(e, p)
        /\ lastInOrder' = [lastInOrder EXCEPT ![e] = n]
        /\ waitingPackets' =
             [waitingPackets EXCEPT ![e] = {c \in Held(e, p) : c > n}]
  BY DEF ProcessChunks
<1>2. /\ lastInOrder'[e] = n
      /\ waitingPackets'[e] = {c \in Held(e, p) : c > n}
      /\ \A d \in End \ {e} : /\ lastInOrder'[d] = lastInOrder[d]
                              /\ waitingPackets'[d] = waitingPackets[d]
  BY <1>1 DEF TypeOK
<1>3. \A d \in End : lastInOrder[d] \in Int
  BY LastInOrderType
<1>4. \A d \in End : lastInOrder[d] <= lastInOrder'[d]
  BY ChunksAhead
<1>5. NextNeverWaits'
  BY <1>1, <1>2 DEF NextNeverWaits
<1>6. ASSUME NEW d \in End, NEW c \in Int, HeldByPeer(d, c)
      PROVE  HeldByPeer(d, c)'
  <2>1. Other(d) \in End
    BY OtherEnd
  <2>2. CASE c <= lastInOrder[Other(d)]
    <3>1. lastInOrder'[Other(d)] \in Int
      <4>1. n \in Int
        BY <1>3 DEF Held, TypeOK, Packet
      <4> QED BY <1>2, <1>3, <2>1, <4>1
    <3> QED BY <1>3, <1>4, <2>1, <2>2, <3>1 DEF HeldByPeer
  <2>3. CASE c \in waitingPackets[Other(d)]
    <3>1. CASE Other(d) # e
      BY <1>2, <2>1, <2>3, <3>1 DEF HeldByPeer
    <3>2. CASE Other(d) = e
      <4>1. c \in Held(e, p)
        BY <2>3, <3>2 DEF Held
      <4>2. n \in Int
        BY <1>3 DEF Held, TypeOK, Packet
      <4>3. c \in waitingPackets'[e] \/ c <= lastInOrder'[e]
        BY <1>2, <4>1, <4>2
      <4> QED BY <3>2, <4>3 DEF HeldByPeer
    <3> QED BY <3>1, <3>2
  <2> QED BY <1>6, <2>2, <2>3 DEF HeldByPeer
<1> QED BY <1>4, <1>5, <1>6

(* What AckChunks leaves of a run: the numbers above the acknowledgement.  *)
LEMMA LeftOfRun ==
    ASSUME NEW u \in Seq(Nat), NEW ack \in Int, NEW a \in 0..Len(u),
           Acknowledged(u, ack, a)
    PROVE  \A c \in Elements(u) : c > ack => c \in Elements(Skip(u, a))
<1> SUFFICES ASSUME NEW i \in 1..Len(u), u[i] > ack
             PROVE  u[i] \in Elements(Skip(u, a))
  BY DEF Elements
<1>1. Len(u) \in Nat /\ a \in Nat /\ a <= Len(u) /\ i \in Nat /\ u[i] \in Nat
  OBVIOUS
<1>2. i > a
  <2> SUFFICES ASSUME i <= a PROVE FALSE
    BY <1>1
  <2>1. i \in 1..a
    BY <1>1
  <2>2. u[i] <= ack
    BY <2>1 DEF Acknowledged
  <2> QED BY <1>1, <2>2
<1>3. i - a \in 1..(Len(u) - a)
  BY <1>1, <1>2
<1>4. i - a \in 1..Len(Skip(u, a)) /\ Skip(u, a)[i - a] = u[(i - a) + a]
  BY <1>3, Slices
<1>5. (i - a) + a = i
  BY <1>1
<1> QED BY <1>4, <1>5 DEF Elements

LEMMA AsksUnacked ==
    ASSUME NEW u \in Seq(Nat), NEW p
    PROVE  Asked(u, p) \subseteq Elements(u)
<1>1. Len(u) \in Nat
  OBVIOUS
<1>2. NakPositions(u, p) \subseteq 0..(Len(u) - 1)
  BY DEF NakPositions
<1>3. \A q \in 0..(Len(u) - 1) : u[q + 1] \in Elements(u)
  <2> TAKE q \in 0..(Len(u) - 1)
  <2>1. q + 1 \in 1..Len(u)
    BY <1>1
  <2> QED BY <2>1 DEF Elements
<1> QED BY <1>2, <1>3 DEF Asked

LEMMA AcksResends ==
    ASSUME TypeOK, ResendsOnlyUnacked, NEW e \in End, NEW p \in Packet,
           ProcessAcks(e, p)
    PROVE  ResendsOnlyUnacked'
<1> DEFINE u == unackedChunks[e]
           kept == {c \in resendRequested[e] : c > p.lastContinuous}
<1>1. PICK a \in 0..Len(u) :
        /\ Acknowledged(u, p.lastContinuous, a)
        /\ unackedChunks' = [unackedChunks EXCEPT ![e] = Skip(u, a)]
        /\ resendRequested' =
             [resendRequested EXCEPT ![e] =
                (kept \cup Asked(Skip(u, a), p)) \ Needless(Skip(u, a), p)]
  BY DEF ProcessAcks
<1>2. u \in Seq(Nat)
  BY BuffersType
<1>3. p.lastContinuous \in Int
  BY DEF Packet
<1>4. kept \subseteq Elements(Skip(u, a))
  <2>1. kept \subseteq Elements(u) /\ \A c \in kept : c > p.lastContinuous
    BY DEF ResendsOnlyUnacked
  <2> HIDE DEF u, kept
  <2> QED BY <1>1, <1>2, <1>3, <2>1, LeftOfRun
<1>5. Asked(Skip(u, a), p) \subseteq Elements(Skip(u, a))
  <2> HIDE DEF u
  <2> QED BY <1>2, Slices, AsksUnacked
<1> HIDE DEF u, kept
<1> DEFINE left == Skip(u, a)
           asked == Asked(left, p)
           needless == Needless(left, p)
<1>6. /\ unackedChunks' = [unackedChunks EXCEPT ![e] = left]
      /\ resendRequested' = [resendRequested EXCEPT ![e] = (kept \cup asked) \ needless]
      /\ kept \cup asked \subseteq Elements(left)
  BY <1>1, <1>4, <1>5
<1> HIDE DEF left, asked, needless
<1> QED BY <1>6 DEF ResendsOnlyUnacked, TypeOK

LEMMA FlushResends ==
    ASSUME TypeOK, ResendsOnlyUnacked, NEW e \in End, NEW forced \in BOOLEAN,
           NEW n \in Nat, NEW nakDue \in BOOLEAN, NEW resendDue \in BOOLEAN,
           NEW idle \in BOOLEAN,
           FlushChunks(e, forced, n, nakDue, resendDue, idle)
    PROVE  ResendsOnlyUnacked'
<1> DEFINE fresh == newChunks[e] \o [i \in 1..n |-> created[e] + i - 1]
           lastOne == IF resendDue /\ fresh = <<>> /\ unackedChunks[e] # <<>>
                      THEN {unackedChunks[e][Len(unackedChunks[e])]} ELSE {}
           requested == resendRequested[e] \cup lastOne
           nak == Nak(e, nakDue)
           u == unackedChunks[e]
<1>1. u \in Seq(Nat) /\ fresh \in Seq(Nat)
  BY BuffersType, FreshType
<1>2. requested \subseteq Elements(u)
  <2>1. u # <<>> => Len(u) \in 1..Len(u)
    BY <1>1
  <2> QED BY <2>1 DEF ResendsOnlyUnacked, Elements
<1>3. \/ SendPackets(e, nak, fresh, requested)
      \/ /\ resendRequested' = [resendRequested EXCEPT ![e] = requested]
         /\ UNCHANGED unackedChunks
  BY DEF FlushChunks, SendIfNecessary
<1>4. CASE /\ resendRequested' = [resendRequested EXCEPT ![e] = requested]
           /\ UNCHANGED unackedChunks
  <2> HIDE DEF requested
  <2> QED BY <1>2, <1>4 DEF ResendsOnlyUnacked, TypeOK
<1>5. CASE SendPackets(e, nak, fresh, requested)
  <2> HIDE DEF nak, fresh, requested
  <2>1. PICK R \in ResendChoices(e, requested), k \in 0..Len(fresh) :
          /\ unackedChunks' = [unackedChunks EXCEPT ![e] = @ \o FirstN(fresh, k)]
          /\ resendRequested' =
               [resendRequested EXCEPT ![e] =
                  IF MinLoss(e) THEN requested \ R
                  ELSE requested \cup Elements(FirstN(fresh, k))]
    BY <1>5 DEF SendPackets
  <2> DEFINE sent == FirstN(fresh, k)
  <2>2. sent \in Seq(Nat)
    BY <1>1, Slices
  <2> HIDE DEF sent, u
  <2>3. Elements(u) \cup Elements(sent) \subseteq Elements(u \o sent)
    <3>1. ASSUME NEW i \in 1..Len(u) PROVE u[i] \in Elements(u \o sent)
      <4>1. i \in 1..Len(u \o sent) /\ (u \o sent)[i] = u[i]
        BY <1>1, <2>2
      <4> QED BY <4>1 DEF Elements
    <3>2. ASSUME NEW i \in 1..Len(sent) PROVE sent[i] \in Elements(u \o sent)
      <4>1. Len(u) + i \in 1..Len(u \o sent) /\ (u \o sent)[Len(u) + i] = sent[i]
        BY <1>1, <2>2
      <4> QED BY <4>1 DEF Elements
    <3> QED BY <3>1, <3>2 DEF Elements
  <2>4. /\ unackedChunks' = [unackedChunks EXCEPT ![e] = u \o sent]
        /\ resendRequested'[e] \subseteq requested \cup Elements(sent)
        /\ \A d \in End \ {e} : resendRequested'[d] = resendRequested[d]
    BY <2>1 DEF sent, u, TypeOK
  <2> QED BY <1>2, <2>3, <2>4 DEF ResendsOnlyUnacked, TypeOK
<1> QED BY <1>3, <1>4, <1>5

LEMMA TravelStep ==
    ASSUME IInv, TravelInv, [Next]_vars
    PROVE  TravelInv'
<1> USE DEF IInv, TravelInv
<1>1. TypeOK'
  BY TypeStep
<1>2. \A d \in End : lastInOrder[d] \in Int /\ Other(d) \in End
  BY LastInOrderType, OtherEnd
<1>3. \A d \in End : \A p \in net[d] : p \in Packet
  BY DEF TypeOK
<1>4. \A p \in Packet : p.lastContinuous \in Int /\ p.naks \subseteq Nat
  BY DEF Packet
<1>5. CASE UNCHANGED <<created, newChunks, unackedChunks, resendRequested,
                       lastInOrder, waitingPackets, net>>
  BY <1>5 DEF NakListsTruthful, ProbesLate, NextNeverWaits, ResendsOnlyUnacked, HeldByPeer
<1>6. ASSUME NEW e \in End, NEW p \in Packet, p \in net[e], Receive(e, p)
      PROVE  TravelInv'
  <2>1. \A d \in End : net'[d] \subseteq net[d]
    BY <1>6 DEF Receive, TypeOK
  <2>2. CASE Superfluous(e, p)
    <3>1. UNCHANGED <<unackedChunks, resendRequested, lastInOrder, waitingPackets>>
      BY <1>6, <2>2 DEF Receive, ProcessRawPacket, receiver
    <3>2. NakListsTruthful' /\ ProbesLate'
      BY <2>1, <3>1 DEF NakListsTruthful, ProbesLate, HeldByPeer
    <3>3. NextNeverWaits' /\ ResendsOnlyUnacked'
      BY <3>1 DEF NextNeverWaits, ResendsOnlyUnacked
    <3> QED BY <3>2, <3>3
  <2>3. CASE ~Superfluous(e, p)
    <3>1. ProcessAcks(e, p) /\ ProcessChunks(e, p)
      BY <1>6, <2>3 DEF Receive, ProcessRawPacket
    <3>2. /\ NextNeverWaits'
          /\ \A d \in End : lastInOrder[d] <= lastInOrder'[d]
          /\ \A d \in End, c \in Int : HeldByPeer(d, c) => HeldByPeer(d, c)'
      BY <3>1, HoldsOn
    <3>3. ResendsOnlyUnacked'
      BY <3>1, AcksResends
    <3>4. NakListsTruthful'
      <4> SUFFICES ASSUME NEW d \in End, NEW r \in net'[d]
                   PROVE  /\ r.nakType = 0 => r.naks = {}
                          /\ \A o \in r.naks : \A q \in 0..(o - 1) :
                                q \notin r.naks => HeldByPeer(d, r.lastContinuous + 1 + q)'
        BY DEF NakListsTruthful
      <4>1. r \in net[d]
        BY <2>1
      <4>2. \A o \in r.naks : \A q \in 0..(o - 1) : r.lastContinuous + 1 + q \in Int
        BY <1>3, <1>4, <4>1
      <4> QED BY <3>2, <4>1, <4>2 DEF NakListsTruthful
    <3>5. ProbesLate'
      <4> SUFFICES ASSUME NEW d \in End, NEW r \in net'[d], r.probe
                   PROVE  r \in {Probe({0}), Probe({})} /\ lastInOrder'[d] >= 0
        BY DEF ProbesLate
      <4>1. r \in {Probe({0}), Probe({})} /\ lastInOrder[d] >= 0
        BY <2>1 DEF ProbesLate
      <4>2. lastInOrder'[d] \in Int /\ lastInOrder[d] <= lastInOrder'[d]
        BY <1>1, <3>2 DEF TypeOK
      <4> QED BY <1>2, <4>1, <4>2
    <3> QED BY <3>2, <3>3, <3>4, <3>5
  <2> QED BY <2>2, <2>3
<1>7. ASSUME NEW e \in End, NEW forced \in BOOLEAN, NEW n \in Nat,
             NEW nakDue \in BOOLEAN, NEW resendDue \in BOOLEAN,
             NEW idle \in BOOLEAN,
             FlushChunks(e, forced, n, nakDue, resendDue, idle)
      PROVE  TravelInv'
  <2>1. UNCHANGED <<lastInOrder, waitingPackets>>
    BY <1>7 DEF FlushChunks, receiver
  <2>2. ResendsOnlyUnacked'
    BY <1>7, FlushResends
  <2>3. NextNeverWaits'
    BY <2>1 DEF NextNeverWaits
  <2>4. ASSUME NEW d \in End, NEW p \in net'[d]
        PROVE  /\ p.nakType = 0 => p.naks = {}
               /\ \A o \in p.naks : \A q \in 0..(o - 1) :
                     q \notin p.naks => HeldByPeer(d, p.lastContinuous + 1 + q)
               /\ p.probe => p \in {Probe({0}), Probe({})} /\ lastInOrder[d] >= 0
    <3>1. CASE p \in net[d]
      BY <3>1 DEF NakListsTruthful, ProbesLate
    <3>2. CASE d = Other(e) /\ \E k \in Int : \E c : p = MakePacket(e, k, c)
      <4>1. PICK k \in Int : \E c : p = MakePacket(e, k, c)
        BY <3>2
      <4>2. PICK c : p = MakePacket(e, k, c)
        BY <4>1
      <4>3. Other(d) = e
        BY <3>2, OtherEnd
      <4> QED BY <4>2, <4>3, MadePackets DEF HeldByPeer
    <3> QED BY <1>7, <3>1, <3>2, FlushPackets
  <2>5. NakListsTruthful' /\ ProbesLate'
    BY <2>1, <2>4 DEF NakListsTruthful, ProbesLate, HeldByPeer
  <2> QED BY <2>2, <2>3, <2>5
<1>8. ASSUME NEW e \in End, Transmit(Other(e), {Probe({0}), Probe({})}),
             lastInOrder[Other(e)] >= 0,
             UNCHANGED <<created, newChunks, unackedChunks, resendRequested,
                         lastInOrder, waitingPackets>>
      PROVE  TravelInv'
  <2>1. ASSUME NEW d \in End, NEW p \in net'[d]
        PROVE  \/ p \in net[d]
               \/ d = Other(e) /\ p \in {Probe({0}), Probe({})}
    BY <1>2, <1>8, Transmitted
  <2>2. \A p \in {Probe({0}), Probe({})} : p.naks = {}
    BY DEF Probe
  <2>3. NakListsTruthful'
    BY <1>8, <2>1, <2>2 DEF NakListsTruthful, HeldByPeer
  <2>4. ProbesLate'
    BY <1>8, <2>1 DEF ProbesLate
  <2>5. NextNeverWaits' /\ ResendsOnlyUnacked'
    BY <1>8 DEF NextNeverWaits, ResendsOnlyUnacked
  <2> QED BY <2>3, <2>4, <2>5
<1> QED BY <1>5, <1>6, <1>7, <1>8, StepCases

LEMMA TravelHolds == Spec => [](IInv /\ TravelInv)
<1>1. Init => IInv /\ TravelInv
  <2> SUFFICES ASSUME Init PROVE TravelInv
    BY IInvInit
  <2> QED
    BY DEF Init, TravelInv, NakListsTruthful, ProbesLate, NextNeverWaits, ResendsOnlyUnacked
<1>2. (IInv /\ TravelInv) /\ [Next]_vars => (IInv /\ TravelInv)'
  BY IInvStep, TravelStep
<1> QED BY <1>1, <1>2, PTL DEF Spec

(* ResendsOnlyUnacked: no nak, timer or probe, however late, brings a      *)
(* chunk back on the resend list that AckChunks has dropped.               *)
THEOREM OnlyUnackedResent == Spec => []ResendsOnlyUnacked
<1>1. IInv /\ TravelInv => ResendsOnlyUnacked
  BY DEF TravelInv
<1> QED BY <1>1, TravelHolds, PTL

(***************************************************************************)
(* ProbeIsHarmless: the probe of a reconnection that finds the connection  *)
(* alive acknowledges nothing and asks for nothing, and its chunk 0 was    *)
(* consumed before the probe was sent.                                     *)
(***************************************************************************)
THEOREM ProbesAreHarmless == Spec => ProbeIsHarmless
<1> DEFINE Harmless == \A e \in End : \A p \in net[e] :
              p.probe /\ Receive(e, p) => UNCHANGED <<sender, receiver>>
<1>1. ASSUME IInv, TravelInv, NEW e \in End, NEW p \in net[e],
             p.probe, Receive(e, p)
      PROVE  UNCHANGED <<sender, receiver>>
  <2>1. p \in {Probe({0}), Probe({})} /\ lastInOrder[e] >= 0
    BY <1>1 DEF TravelInv, ProbesLate
  <2>2. /\ p.lastContinuous = -1 /\ p.nakType = 0 /\ p.naks = {}
        /\ p.chunks \subseteq {0}
    BY <2>1 DEF Probe
  <2>3. UNCHANGED <<created, newChunks>>
    BY <1>1 DEF Receive
  <2>4. CASE Superfluous(e, p)
    BY <1>1, <2>3, <2>4 DEF Receive, ProcessRawPacket, sender, receiver
  <2>5. CASE ~Superfluous(e, p)
    <3>1. ProcessAcks(e, p) /\ ProcessChunks(e, p)
      BY <1>1, <2>5 DEF Receive, ProcessRawPacket
    <3> DEFINE u == unackedChunks[e]
    <3>2. u \in Seq(Nat) /\ resendRequested[e] \subseteq Nat
      BY <1>1 DEF IInv, TypeOK
    <3>3. PICK a \in 0..Len(u) :
            /\ Acknowledged(u, p.lastContinuous, a)
            /\ unackedChunks' = [unackedChunks EXCEPT ![e] = Skip(u, a)]
            /\ resendRequested' =
                 [resendRequested EXCEPT ![e] =
                    ({c \in resendRequested[e] : c > p.lastContinuous}
                        \cup Asked(Skip(u, a), p)) \ Needless(Skip(u, a), p)]
      BY <3>1 DEF ProcessAcks
    <3>4. a = 0
      <4> SUFFICES ASSUME a # 0 PROVE FALSE
        OBVIOUS
      <4> HIDE DEF u
      <4>1. 1 \in 1..a /\ u[1] \in Nat
        BY <3>2
      <4> QED BY <2>2, <3>3, <4>1 DEF Acknowledged
    <3>5. Skip(u, 0) = u
      BY <3>2 DEF Skip
    <3>6. \A s : Asked(s, p) = {} /\ Needless(s, p) = {}
      BY <2>2 DEF Asked, Needless, NakPositions
    <3>7. {c \in resendRequested[e] : c > p.lastContinuous} = resendRequested[e]
      BY <2>2, <3>2
    <3>8. unackedChunks' = unackedChunks /\ resendRequested' = resendRequested
      <4>1. /\ unackedChunks' = [unackedChunks EXCEPT ![e] = unackedChunks[e]]
            /\ resendRequested' = [resendRequested EXCEPT ![e] = resendRequested[e]]
        BY <3>3, <3>4, <3>5, <3>6, <3>7
      <4> QED BY <1>1, <4>1 DEF IInv, TypeOK
    <3>9. Held(e, p) = waitingPackets[e]
      <4>1. lastInOrder[e] \in Int
        BY <1>1, LastInOrderType DEF IInv
      <4>2. \A c \in p.chunks : ~(c > lastInOrder[e])
        BY <2>1, <2>2, <4>1
      <4> QED BY <4>2 DEF Held
    <3>10. PICK n \in {lastInOrder[e]} \cup waitingPackets[e] :
             /\ (lastInOrder[e] + 1)..n \subseteq waitingPackets[e]
             /\ lastInOrder' = [lastInOrder EXCEPT ![e] = n]
             /\ waitingPackets' =
                  [waitingPackets EXCEPT ![e] = {c \in waitingPackets[e] : c > n}]
      BY <3>1, <3>9 DEF ProcessChunks
    <3>11. /\ \A w \in waitingPackets[e] : w > lastInOrder[e] /\ w \in Nat
           /\ lastInOrder[e] + 1 \notin waitingPackets[e]
           /\ lastInOrder[e] \in Int
      BY <1>1, LastInOrderType DEF IInv, TypeOK, WaitingAhead, TravelInv, NextNeverWaits
    <3>12. n = lastInOrder[e]
      <4> SUFFICES ASSUME n # lastInOrder[e] PROVE FALSE
        OBVIOUS
      <4>1. n \in Nat /\ n > lastInOrder[e]
        BY <3>10, <3>11
      <4>2. lastInOrder[e] + 1 \in (lastInOrder[e] + 1)..n
        BY <3>11, <4>1
      <4> QED BY <3>10, <3>11, <4>2
    <3>13. {c \in waitingPackets[e] : c > n} = waitingPackets[e]
      BY <3>11, <3>12
    <3>14. lastInOrder' = lastInOrder /\ waitingPackets' = waitingPackets
      BY <1>1, <3>10, <3>12, <3>13 DEF IInv, TypeOK
    <3> QED BY <2>3, <3>8, <3>14 DEF sender, receiver
  <2> QED BY <2>4, <2>5
<1>2. IInv /\ TravelInv /\ [Next]_vars => [Harmless]_vars
  BY <1>1
<1>3. Spec => [][Harmless]_vars
  BY <1>2, TravelHolds, PTL DEF Spec
<1> QED BY <1>3 DEF ProbeIsHarmless

-----------------------------------------------------------------------------
(***************************************************************************)
(* What a current nak list does.  After AckChunks the buffer is a run that *)
(* starts at the first chunk the other end misses, so that position and    *)
(* offset are the same number.                                             *)
(***************************************************************************)
LEMMA LeftIsRun ==
    ASSUME NEW u \in Seq(Nat), NEW first \in Int, Run(u, first), NEW ack \in Int,
           NEW left, left = Skip(u, CHOOSE a \in 0..Len(u) : Acknowledged(u, ack, a)),
           left # <<>>
    PROVE  left \in Seq(Nat) /\ Len(left) \in Nat \ {0} /\ Run(left, left[1])
<1> DEFINE a == CHOOSE k \in 0..Len(u) : Acknowledged(u, ack, k)
<1>1. Len(u) \in Nat
  OBVIOUS
<1>2. \E k \in 0..Len(u) : Acknowledged(u, ack, k)
  <2>1. CASE ack + 1 < first
    <3>1. Len(u) > 0 => u[1] = first
      BY <1>1 DEF Run
    <3> QED BY <1>1, <2>1, <3>1 DEF Acknowledged
  <2>2. CASE ack + 1 - first > Len(u)
    <3>1. \A i \in 1..Len(u) : u[i] <= ack
      BY <1>1, <2>2 DEF Run
    <3> QED BY <1>1, <3>1 DEF Acknowledged
  <2>3. CASE ack + 1 - first \in 0..Len(u)
    <3> DEFINE k == ack + 1 - first
    <3>1. \A i \in 1..k : u[i] <= ack
      BY <1>1, <2>3 DEF Run
    <3>2. k < Len(u) => u[k + 1] > ack
      <4> SUFFICES ASSUME k < Len(u) PROVE u[k + 1] > ack
        OBVIOUS
      <4>1. k + 1 \in 1..Len(u)
        BY <1>1, <2>3
      <4>2. u[k + 1] = first + (k + 1) - 1
        BY <4>1 DEF Run
      <4> QED BY <4>2
    <3> QED BY <2>3, <3>1, <3>2 DEF Acknowledged
  <2> QED BY <1>1, <2>1, <2>2, <2>3
<1>3. a \in 0..Len(u)
  BY <1>2
<1>4. left = Skip(u, a)
  OBVIOUS
<1> HIDE DEF a
<1>5. left \in Seq(Nat) /\ Run(left, first + a)
  BY <1>3, <1>4, Slices, RunOfSlices
<1>6. Len(left) \in Nat \ {0}
  BY <1>5
<1>7. left[1] = first + a
  <2>1. 1 \in 1..Len(left)
    BY <1>6
  <2>2. left[1] = (first + a) + 1 - 1
    BY <1>5, <2>1 DEF Run
  <2>3. a \in Int
    BY <1>3
  <2> QED BY <2>2, <2>3
<1> QED BY <1>5, <1>6, <1>7

LEMMA NaksOfRun ==
    ASSUME NEW u \in Seq(Nat), NEW p \in Packet, Len(u) # 0,
           Run(u, p.lastContinuous + 1), p.nakType = 0 => p.naks = {}
    PROVE  /\ Asked(u, p) = Missing(p) \cap Elements(u)
           /\ \A c \in Needless(u, p) :
                \E o \in p.naks : \E q \in 0..(o - 1) :
                   q \notin p.naks /\ c = p.lastContinuous + 1 + q
<1> DEFINE first == p.lastContinuous + 1
           P == 0..(Len(u) - 1)
<1>1. Len(u) \in Nat \ {0} /\ u # <<>>
  OBVIOUS
<1>2. first \in Int /\ p.nakType \in Int /\ p.naks \subseteq Nat /\ p.lastContinuous \in Int
  BY DEF Packet
<1>3. u[1] = first /\ unAckDiff(u, p) = 0
  BY <1>1, <1>2 DEF Run, unAckDiff
<1>4. NaksApply(u, p)
  BY <1>1, <1>3, BoundAssumption DEF NaksApply
<1>5. \A q \in P : u[q + 1] = first + q
  BY <1>1, <1>2 DEF Run
<1>6. Elements(u) = {first + q : q \in P}
  <2>1. ASSUME NEW i \in 1..Len(u) PROVE u[i] \in {first + q : q \in P}
    <3>1. i - 1 \in P /\ u[i] = first + (i - 1)
      BY <1>1, <1>2 DEF Run
    <3> QED BY <3>1
  <2>2. ASSUME NEW q \in P PROVE first + q \in Elements(u)
    <3>1. q + 1 \in 1..Len(u)
      BY <1>1
    <3> QED BY <1>5, <3>1 DEF Elements
  <2> QED BY <2>1, <2>2 DEF Elements
<1>7. Asked(u, p) = {first + q : q \in NakPositions(u, p)}
  <2>1. NakPositions(u, p) \subseteq P
    BY DEF NakPositions
  <2> QED BY <1>4, <1>5, <2>1 DEF Asked
<1>8. Missing(p) \cap Elements(u) = {first + q : q \in NakPositions(u, p)}
  <2>1. CASE p.nakType < 0
    <3>1. NakPositions(u, p) = 0..(-p.nakType - 1) \cap P
      <4>1. {i + unAckDiff(u, p) : i \in 0..(-p.nakType - 1)} = 0..(-p.nakType - 1)
        BY <1>2, <1>3, <2>1
      <4> QED BY <2>1, <4>1 DEF NakPositions
    <3>2. \A q \in P : first + q \in Missing(p) <=> q \in 0..(-p.nakType - 1)
      <4>1. Missing(p) = first..(p.lastContinuous - p.nakType)
        BY <2>1 DEF Missing
      <4>2. ASSUME NEW q \in P
            PROVE  first + q \in first..(p.lastContinuous - p.nakType)
                     <=> q \in 0..(-p.nakType - 1)
        <5>1. q \in Nat
          BY <1>1
        <5>2. first + q <= p.lastContinuous - p.nakType <=> q <= -p.nakType - 1
          BY <1>2, <5>1
        <5>3. /\ first + q \in Int /\ first <= first + q
              /\ p.lastContinuous - p.nakType \in Int /\ -p.nakType - 1 \in Int
          BY <1>2, <5>1
        <5> HIDE DEF first
        <5> QED BY <1>2, <5>1, <5>2, <5>3
      <4> QED BY <4>1, <4>2
    <3> QED BY <1>6, <3>1, <3>2
  <2>2. CASE p.nakType >= 0
    <3>1. NakPositions(u, p) = p.naks \cap P
      <4>1. {unAckDiff(u, p) + o : o \in p.naks} = p.naks
        BY <1>2, <1>3
      <4> QED BY <1>2, <2>2, <4>1 DEF NakPositions
    <3>2. \A q \in P : first + q \in Missing(p) <=> q \in p.naks
      <4>1. Missing(p) = {first + o : o \in p.naks}
        BY <1>2, <2>2 DEF Missing
      <4>2. \A q \in P, o \in p.naks : first + q = first + o => q = o
        BY <1>2
      <4> QED BY <4>1, <4>2
    <3> QED BY <1>6, <3>1, <3>2
  <2> QED BY <1>2, <2>1, <2>2
<1>9. ASSUME NEW c \in Needless(u, p)
      PROVE  \E o \in p.naks : \E q \in 0..(o - 1) : q \notin p.naks /\ c = first + q
  <2>1. p.nakType > 0
    BY <1>9 DEF Needless
  <2>2. PICK q \in P : /\ c = u[q + 1] /\ q \notin NakPositions(u, p)
                       /\ \E o \in p.naks : unAckDiff(u, p) + o > q
    BY <1>4, <1>9, <2>1 DEF Needless
  <2>3. PICK o \in p.naks : unAckDiff(u, p) + o > q
    BY <2>2
  <2>4. q \in 0..(o - 1)
    BY <1>2, <1>3, <2>3
  <2>5. q \notin p.naks
    <3> SUFFICES ASSUME q \in p.naks PROVE FALSE
      OBVIOUS
    <3>1. unAckDiff(u, p) + q = q
      BY <1>3
    <3> QED BY <1>2, <2>1, <2>2, <3>1 DEF NakPositions
  <2> QED BY <1>5, <2>2, <2>4, <2>5
<1> QED BY <1>7, <1>8, <1>9

(***************************************************************************)
(* CurrentNaksAreRight: a nak list that arrives with the newest            *)
(* acknowledgement asks for exactly what is missing, and what its gaps     *)
(* strike off the resend list is with the other end.                       *)
(***************************************************************************)
THEOREM NaksAreRight == Spec => []CurrentNaksAreRight
<1>1. ASSUME IInv, TravelInv, NEW e \in End, NEW p \in net[e], NEW u,
             u = LeftBy(e, p), u # <<>>, unAckDiff(u, p) = 0
      PROVE  /\ \A c \in Needless(u, p) : HeldByPeer(e, c)
             /\ Asked(u, p) = Missing(p) \cap Elements(u)
  <2>1. p \in Packet
    BY <1>1 DEF IInv, TypeOK
  <2>2. p.lastContinuous \in Int
    BY <2>1 DEF Packet
  <2>3. unackedChunks[e] \in Seq(Nat) /\ Oldest(e) \in Int
        /\ Run(unackedChunks[e], Oldest(e))
    BY <1>1, BuffersType DEF IInv, Runs
  <2>4. u \in Seq(Nat) /\ Len(u) \in Nat \ {0} /\ Run(u, u[1])
    BY <1>1, <2>2, <2>3, LeftIsRun DEF LeftBy
  <2>5. u[1] = p.lastContinuous + 1
    BY <1>1, <2>2, <2>4 DEF unAckDiff
  <2>6. p.nakType = 0 => p.naks = {}
    BY <1>1 DEF TravelInv, NakListsTruthful
  <2>7. /\ Asked(u, p) = Missing(p) \cap Elements(u)
        /\ \A c \in Needless(u, p) :
             \E o \in p.naks : \E q \in 0..(o - 1) :
                q \notin p.naks /\ c = p.lastContinuous + 1 + q
    BY <2>1, <2>4, <2>5, <2>6, NaksOfRun
  <2> QED BY <1>1, <2>7 DEF TravelInv, NakListsTruthful
<1>2. IInv /\ TravelInv => CurrentNaksAreRight
  BY <1>1 DEF CurrentNaksAreRight
<1> QED BY <1>2, TravelHolds, PTL

(***************************************************************************)
(* No chunk travels, waits or is consumed that its sender has not created: *)
(* what is consumed is always the bytes of some flush.                     *)
(***************************************************************************)
ChunksExist ==
    \A e \in End :
        /\ \A p \in net[e] : p.chunks \subseteq ChunkNum(Other(e))
        /\ waitingPackets[e] \subseteq ChunkNum(Other(e))
        /\ lastInOrder[e] < created[Other(e)]

(* The packings of a set pack nothing else. *)
LEMMA PackedChunks ==
    ASSUME NEW C, NEW G \in Packings(C), NEW g \in G
    PROVE  g \subseteq C
<1>1. CASE Cardinality(C) <= MTU
  BY <1>1 DEF Packings
<1>2. CASE ~(Cardinality(C) <= MTU)
  BY <1>2 DEF Packings
<1> QED BY <1>1, <1>2

LEMMA ElementsOfJoin ==
    ASSUME NEW s \in Seq(Nat), NEW t \in Seq(Nat)
    PROVE  Elements(s \o t) \subseteq Elements(s) \cup Elements(t)
<1>1. /\ Len(s) \in Nat /\ Len(t) \in Nat /\ Len(s \o t) = Len(s) + Len(t)
      /\ \A i \in 1..(Len(s) + Len(t)) :
            (s \o t)[i] = IF i <= Len(s) THEN s[i] ELSE t[i - Len(s)]
  BY ConcatProperties
<1> SUFFICES ASSUME NEW i \in 1..(Len(s) + Len(t))
             PROVE  (s \o t)[i] \in Elements(s) \cup Elements(t)
  BY <1>1 DEF Elements
<1>2. i <= Len(s) => i \in 1..Len(s)
  BY <1>1
<1>3. ~(i <= Len(s)) => i - Len(s) \in 1..Len(t)
  BY <1>1
<1> QED BY <1>1, <1>2, <1>3 DEF Elements

(* Every packet of a flush carries chunks created before or in the flush.  *)
LEMMA FlushCarries ==
    ASSUME TypeOK, Runs, ResendsOnlyUnacked, NEW e \in End,
           NEW forced \in BOOLEAN, NEW n \in Nat, NEW nakDue \in BOOLEAN,
           NEW resendDue \in BOOLEAN, NEW idle \in BOOLEAN,
           FlushChunks(e, forced, n, nakDue, resendDue, idle),
           NEW d \in End, NEW p \in net'[d]
    PROVE  \/ p \in net[d]
           \/ d = Other(e) /\ p.chunks \subseteq ChunkNum(e)'
<1> DEFINE cut == [i \in 1..n |-> created[e] + i - 1]
           fresh == newChunks[e] \o cut
           lastOne == IF resendDue /\ fresh = <<>> /\ unackedChunks[e] # <<>>
                      THEN {unackedChunks[e][Len(unackedChunks[e])]} ELSE {}
           requested == resendRequested[e] \cup lastOne
           nak == Nak(e, nakDue)
           u == unackedChunks[e]
           f == newChunks[e]
<1>1. /\ u \in Seq(Nat) /\ f \in Seq(Nat) /\ fresh \in Seq(Nat)
      /\ created[e] \in Nat /\ Len(u) \in Nat /\ Len(f) \in Nat
      /\ Oldest(e) \in Int /\ created[e] = Oldest(e) + Len(u) + Len(f)
  BY BuffersType, FreshType DEF Oldest
<1>2. created'[e] = created[e] + n
  BY DEF FlushChunks, TypeOK
<1>3. ASSUME NEW c \in Elements(u) PROVE c \in Nat /\ c < created[e]
  <2>1. PICK i \in 1..Len(u) : c = u[i]
    BY DEF Elements
  <2>2. u[i] = Oldest(e) + i - 1
    BY DEF Runs, Run
  <2> HIDE DEF u, f
  <2> QED BY <1>1, <2>1, <2>2
<1>4. ASSUME NEW c \in Elements(fresh) PROVE c \in Nat /\ c < created[e] + n
  <2>1. cut \in Seq(Nat) /\ Len(cut) = n /\ \A j \in 1..n : cut[j] = created[e] + j - 1
    BY FreshType
  <2>2. \A j \in 1..Len(f) : f[j] = Oldest(e) + Len(u) + j - 1
    BY DEF Runs, Run
  <2>3. c \in Elements(f \o cut) /\ n \in Nat
    OBVIOUS
  <2> HIDE DEF u, f, cut, fresh
  <2>4. CASE c \in Elements(f)
    <3>1. PICK j \in 1..Len(f) : c = f[j]
      BY <2>4 DEF Elements
    <3>2. c = Oldest(e) + Len(u) + j - 1 /\ f[j] \in Nat
      BY <1>1, <2>2, <3>1
    <3> QED BY <1>1, <2>3, <3>1, <3>2
  <2>5. CASE c \in Elements(cut)
    <3>1. PICK j \in 1..n : c = cut[j]
      BY <2>1, <2>5 DEF Elements
    <3>2. c = created[e] + j - 1
      BY <2>1, <3>1
    <3> QED BY <1>1, <2>3, <3>2
  <2> QED BY <1>1, <2>1, <2>3, <2>4, <2>5, ElementsOfJoin
<1>5. requested \subseteq Elements(u)
  <2>1. u # <<>> => Len(u) \in 1..Len(u)
    BY <1>1
  <2> QED BY <2>1 DEF ResendsOnlyUnacked, Elements
<1>6. SendPackets(e, nak, fresh, requested) \/ UNCHANGED net
  BY DEF FlushChunks, SendIfNecessary
<1>7. CASE UNCHANGED net
  BY <1>7
<1>8. CASE ~UNCHANGED net
  <2> HIDE DEF nak, fresh, requested, cut, u, f
  <2>1. PICK R \in ResendChoices(e, requested), k \in 0..Len(fresh) :
           \E G \in Packings(R \cup Elements(FirstN(fresh, k))) : \E first \in G :
              Transmit(Other(e), PacketsFor(e, nak, G, first))
    BY <1>6, <1>8 DEF SendPackets
  <2> DEFINE C == R \cup Elements(FirstN(fresh, k))
  <2>2. R \subseteq requested
    BY DEF ResendChoices
  <2>3. Elements(FirstN(fresh, k)) \subseteq Elements(fresh)
    <3>1. /\ Len(FirstN(fresh, k)) = k /\ k <= Len(fresh) /\ Len(fresh) \in Nat
          /\ \A i \in 1..k : FirstN(fresh, k)[i] = fresh[i]
      BY <1>1, Slices
    <3> QED BY <3>1 DEF Elements
  <2>4. \A c \in C : c \in 0..(created'[e] - 1)
    BY <1>1, <1>2, <1>3, <1>4, <1>5, <2>2, <2>3
  <2> HIDE DEF C
  <2>5. PICK G \in Packings(C) : \E first \in G :
                    Transmit(Other(e), PacketsFor(e, nak, G, first))
    BY <2>1 DEF C
  <2>6. PICK first \in G : Transmit(Other(e), PacketsFor(e, nak, G, first))
    BY <2>5
  <2>7. p \in net[d] \/ (d = Other(e) /\ p \in PacketsFor(e, nak, G, first))
    BY <2>6, OtherEnd, Transmitted
  <2>8. ASSUME p \in PacketsFor(e, nak, G, first)
        PROVE  p.chunks \subseteq ChunkNum(e)'
    <3>1. PICK g \in G :
            p = MakePacket(e, IF g = first \/ nak <= 0 \/ ~MinLoss(e) THEN nak ELSE 0, g)
      BY <2>8 DEF PacketsFor
    <3>2. p.chunks = g
      BY <3>1 DEF MakePacket
    <3>3. g \subseteq C
      BY PackedChunks
    <3> QED BY <2>4, <3>2, <3>3 DEF ChunkNum
  <2> QED BY <2>7, <2>8
<1> QED BY <1>7, <1>8

LEMMA ChunksExistStep ==
    ASSUME IInv, TravelInv, ChunksExist, [Next]_vars
    PROVE  ChunksExist'
<1> USE DEF IInv, TravelInv
<1>1. TypeOK'
  BY TypeStep
<1>2. \A d \in End : /\ lastInOrder[d] \in Int /\ created[d] \in Nat
                     /\ Other(d) \in End /\ Other(Other(d)) = d
  BY LastInOrderType, OtherEnd DEF TypeOK
<1>3. CASE UNCHANGED <<created, newChunks, unackedChunks, resendRequested,
                       lastInOrder, waitingPackets, net>>
  BY <1>3 DEF ChunksExist, ChunkNum
<1>4. ASSUME NEW e \in End, NEW p \in Packet, p \in net[e], Receive(e, p)
      PROVE  ChunksExist'
  <2>1. \A d \in End : net'[d] \subseteq net[d]
    BY <1>4 DEF Receive, TypeOK
  <2>2. created' = created
    BY <1>4 DEF Receive
  <2>3. CASE Superfluous(e, p)
    <3>1. UNCHANGED <<lastInOrder, waitingPackets>>
      BY <1>4, <2>3 DEF Receive, ProcessRawPacket, receiver
    <3> QED BY <2>1, <2>2, <3>1 DEF ChunksExist, ChunkNum
  <2>4. CASE ~Superfluous(e, p)
    <3>1. PICK n \in {lastInOrder[e]} \cup Held(e, p) :
            /\ lastInOrder' = [lastInOrder EXCEPT ![e] = n]
            /\ waitingPackets' =
                 [waitingPackets EXCEPT ![e] = {c \in Held(e, p) : c > n}]
      BY <1>4, <2>4 DEF Receive, ProcessRawPacket, ProcessChunks
    <3>2. Held(e, p) \subseteq ChunkNum(Other(e))
      BY <1>4 DEF Held, ChunksExist
    <3>3. n < created[Other(e)]
      BY <1>2, <3>2 DEF ChunksExist, ChunkNum
    <3>4. /\ lastInOrder'[e] = n
          /\ waitingPackets'[e] \subseteq Held(e, p)
          /\ \A d \in End \ {e} : /\ lastInOrder'[d] = lastInOrder[d]
                                  /\ waitingPackets'[d] = waitingPackets[d]
      BY <3>1 DEF TypeOK
    <3> QED BY <2>1, <2>2, <3>2, <3>3, <3>4 DEF ChunksExist, ChunkNum
  <2> QED BY <2>3, <2>4
<1>5. ASSUME NEW e \in End, NEW forced \in BOOLEAN, NEW n \in Nat,
             NEW nakDue \in BOOLEAN, NEW resendDue \in BOOLEAN,
             NEW idle \in BOOLEAN,
             FlushChunks(e, forced, n, nakDue, resendDue, idle)
      PROVE  ChunksExist'
  <2>1. UNCHANGED <<lastInOrder, waitingPackets>>
    BY <1>5 DEF FlushChunks, receiver
  <2>2. created' = [created EXCEPT ![e] = @ + n]
    BY <1>5 DEF FlushChunks
  <2>3. \A d \in End : created[d] <= created'[d] /\ created'[d] \in Nat
    <3>1. created \in [End -> Nat]
      BY DEF IInv, TypeOK
    <3>2. created'[e] = created[e] + n /\ \A d \in End \ {e} : created'[d] = created[d]
      BY <2>2, <3>1
    <3>3. ASSUME NEW d \in End PROVE created[d] <= created'[d] /\ created'[d] \in Nat
      <4>1. created[d] \in Nat
        BY <3>1
      <4> QED BY ONLY <3>2, <4>1, n \in Nat, d \in End
    <3> QED BY <3>3
  <2>4. \A d \in End : ChunkNum(d) \subseteq ChunkNum(d)'
    BY <1>2, <2>3 DEF ChunkNum
  <2>5. ASSUME NEW d \in End, NEW p \in net'[d]
        PROVE  p.chunks \subseteq ChunkNum(Other(d))'
    <3>1. CASE p \in net[d]
      BY <1>2, <2>4, <3>1 DEF ChunksExist
    <3>2. CASE d = Other(e) /\ p.chunks \subseteq ChunkNum(e)'
      <4>1. Other(d) = e
        BY <1>2, <3>2
      <4> QED BY <3>2, <4>1
    <3> QED BY <1>5, <3>1, <3>2, FlushCarries
  <2>6. ASSUME NEW d \in End
        PROVE  /\ waitingPackets'[d] \subseteq ChunkNum(Other(d))'
               /\ lastInOrder'[d] < created'[Other(d)]
    BY <1>2, <2>1, <2>3, <2>4 DEF ChunksExist
  <2> QED BY <2>5, <2>6 DEF ChunksExist
<1>6. ASSUME NEW e \in End, Transmit(Other(e), {Probe({0}), Probe({})}),
             lastInOrder[Other(e)] >= 0,
             UNCHANGED <<created, newChunks, unackedChunks, resendRequested,
                         lastInOrder, waitingPackets>>
      PROVE  ChunksExist'
  <2>1. 0 \in ChunkNum(e)
    BY <1>2, <1>6 DEF ChunksExist, ChunkNum
  <2>2. ASSUME NEW d \in End, NEW p \in net'[d]
        PROVE  p.chunks \subseteq ChunkNum(Other(d))
    <3>1. CASE p \in net[d]
      BY <3>1 DEF ChunksExist
    <3>2. CASE d = Other(e) /\ p \in {Probe({0}), Probe({})}
      <4>1. Other(d) = e /\ p.chunks \subseteq {0}
        BY <1>2, <3>2 DEF Probe
      <4> QED BY <2>1, <4>1
    <3> QED BY <1>2, <1>6, <3>1, <3>2, Transmitted
  <2> QED BY <1>6, <2>2 DEF ChunksExist, ChunkNum
<1> QED BY <1>3, <1>4, <1>5, <1>6, StepCases

(* ChunksExist: a packet carries, and an end stores and consumes, only     *)
(* chunks that the other end's Flush has created.                          *)
THEOREM OnlyCreatedChunks == Spec => []ChunksExist
<1>1. Init => ChunksExist
  <2> SUFFICES ASSUME Init PROVE ChunksExist
    OBVIOUS
  <2> QED BY OtherEnd DEF Init, ChunksExist
<1>2. (IInv /\ TravelInv) /\ ChunksExist /\ [Next]_vars => ChunksExist'
  BY ChunksExistStep
<1> QED BY <1>1, <1>2, TravelHolds, PTL DEF Spec

=============================================================================
