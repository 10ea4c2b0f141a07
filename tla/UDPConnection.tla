---------------------------- MODULE UDPConnection ----------------------------
(***************************************************************************)
(* netcode::UDPConnection with its messages: the chunk layer of UDPChunks, *)
(* and above it SendData, the fragmentation of the outgoing messages by    *)
(* Flush and their reassembly by ProcessRawPacket.                         *)
(***************************************************************************)
EXTENDS UDPChunks, SequencesExt

CONSTANTS
    Script,         \* Script[e]: the messages the end e hands to SendData
    MsgLen,         \* MsgLen[m]: bytes of message m, 0 if it is not valid
    HeaderLen,      \* HeaderLen[m]: leading bytes that tell the length of m
    maxChunkSize    \* bytes in a chunk, 254 in the code

ASSUME MessageAssumption ==
    /\ MsgLen \in [DOMAIN MsgLen -> Nat]
    /\ HeaderLen \in [DOMAIN MsgLen -> 1..3]
    /\ \A m \in DOMAIN MsgLen : MsgLen[m] = 0 \/ MsgLen[m] >= HeaderLen[m]
    /\ Script \in [End -> Seq(DOMAIN MsgLen)]
    /\ maxChunkSize \in Nat \ {0}

VARIABLES
    numSent,        \* how many messages of Script[e] were handed over
    outgoingData,   \* messages not yet cut into chunks
    data,           \* data[e][c + 1]: the bytes of chunk c of the end e
    fragmentBuffer, \* received bytes of an incomplete message
    msgQueue        \* the messages received, each as its bytes

messages == <<numSent, outgoingData, data, fragmentBuffer, msgQueue>>
allVars == <<vars, messages>>

-----------------------------------------------------------------------------
(* Messages and ProtocolDef.  Byte <<m, i>> is the i-th byte of message m: *)
(* the first is the message id, which tells the length, or that the second *)
(* byte, or the second and third, have it.                                 *)

Bytes(m) == [i \in 1..MsgLen[m] |-> <<m, i>>]
IsValidPacket(m) == MsgLen[m] > 0

(* the bytes of the messages s, without the messages that are not valid *)
Joined(s) ==
    FlattenSeq([i \in 1..Len(s) |->
                  IF IsValidPacket(s[i]) THEN Bytes(s[i]) ELSE <<>>])

PacketLength(buf) ==
    LET m == buf[1][1] IN
    IF buf[1][2] # 1 THEN -2
    ELSE IF Len(buf) < HeaderLen[m] THEN 0
    ELSE MsgLen[m]

MsgInit ==
    /\ Init
    /\ numSent = [e \in End |-> 0]
    /\ outgoingData = [e \in End |-> <<>>]
    /\ data = [e \in End |-> <<>>]
    /\ fragmentBuffer = [e \in End |-> <<>>]
    /\ msgQueue = [e \in End |-> <<>>]

SendData(e) ==
    /\ ~closed[e] /\ ~polling[e]
    /\ numSent[e] < Len(Script[e])
    /\ numSent' = [numSent EXCEPT ![e] = @ + 1]
    /\ outgoingData' =
         [outgoingData EXCEPT ![e] = Append(@, Script[e][numSent[e] + 1])]
    /\ UNCHANGED <<vars, data, fragmentBuffer, msgQueue>>

-----------------------------------------------------------------------------
(* Mutant of Cut: chunks overlap by a byte. *)
CutOverlapping(e, k) ==
    LET bytes == Joined(FirstN(outgoingData[e], k))
        count == (Len(bytes) + maxChunkSize - 1) \div maxChunkSize
    IN  [i \in 1..count |->
            SubSeq(bytes, (i - 1) * maxChunkSize + 1,
                   Lesser(i * maxChunkSize + 1, Len(bytes)))]

(* Flush: the bytes of the first k messages, the invalid ones discarded,   *)
(* cut into chunks of maxChunkSize bytes, the last one shorter.            *)
Cut(e, k) ==
    LET bytes == Joined(FirstN(outgoingData[e], k))
        count == (Len(bytes) + maxChunkSize - 1) \div maxChunkSize
    IN  [i \in 1..count |->
            SubSeq(bytes, (i - 1) * maxChunkSize + 1,
                   Lesser(i * maxChunkSize, Len(bytes)))]

(* A forced flush takes all messages; another waits for more of them, or   *)
(* takes all that the bandwidth allows.                                    *)
FlushCounts(e, forced) ==
    {k \in 0..Len(outgoingData[e]) :
        \/ k = Len(outgoingData[e])
        \/ ~forced /\ (k = 0 \/ BandwidthLimited)}

(* Mutant of CutMessages: what was cut stays in the queue. *)
CutMessagesTwice(e, k) ==
    /\ data' = [data EXCEPT ![e] = @ \o Cut(e, k)]
    /\ UNCHANGED <<numSent, outgoingData, fragmentBuffer, msgQueue>>

CutMessages(e, k) ==
    /\ outgoingData' = [outgoingData EXCEPT ![e] = Skip(@, k)]
    /\ data' = [data EXCEPT ![e] = @ \o Cut(e, k)]
    /\ UNCHANGED <<numSent, fragmentBuffer, msgQueue>>

-----------------------------------------------------------------------------
(* One pass of the loop over the received bytes buf: pos of them are done, *)
(* whole are the messages they completed.  A partial message ends the      *)
(* loop; of an invalid one a single byte is skipped.                       *)
AfterPass(buf, at) ==
    LET left == Skip(buf, at.pos)
        length == PacketLength(left)
    IN  IF left = <<>> THEN at
        ELSE IF length > 0 /\ length <= Len(left)
        THEN [pos |-> at.pos + length,
              whole |-> Append(at.whole, FirstN(left, length))]
        ELSE IF length >= 0 THEN at
        ELSE [at EXCEPT !.pos = @ + 1]

(* ProcessRawPacket: the messages completed by the bytes buf, and the rest *)
(* of buf.                                                                 *)
Reassemble(buf) ==
    LET loop[n \in Nat] ==
            IF n = 0 THEN [pos |-> 0, whole |-> <<>>]
            ELSE AfterPass(buf, loop[n - 1])
        end == loop[Len(buf)]
    IN  [whole |-> end.whole, rest |-> Skip(buf, end.pos)]

(* Mutant of ConsumeChunk: the fragment buffer is not emptied. *)
ConsumeChunkKeeping(sofar, bytes) ==
    LET got == Reassemble(sofar.rest \o bytes)
    IN  [whole |-> sofar.whole \o got.whole, rest |-> sofar.rest \o got.rest]
(* Mutant of ConsumeChunk: the fragment before a chunk is forgotten. *)
ConsumeChunkForgetting(sofar, bytes) ==
    LET got == Reassemble(bytes)
    IN  [whole |-> sofar.whole \o got.whole, rest |-> got.rest]

(* consume the chunk bytes after the messages and the fragment so far *)
ConsumeChunk(sofar, bytes) ==
    LET got == Reassemble(sofar.rest \o bytes)
    IN  [whole |-> sofar.whole \o got.whole, rest |-> got.rest]

(* the chunks that have become in order, one after the other *)
ConsumeChunks(e) ==
    LET count == lastInOrder'[e] - lastInOrder[e]
        after[n \in 0..count] ==
            IF n = 0 THEN [whole |-> <<>>, rest |-> fragmentBuffer[e]]
            ELSE ConsumeChunk(after[n - 1],
                              data[Other(e)][lastInOrder[e] + 1 + n])
        result == after[count]
    IN  /\ msgQueue' = [msgQueue EXCEPT ![e] = @ \o result.whole]
        /\ fragmentBuffer' = [fragmentBuffer EXCEPT ![e] = result.rest]
        /\ UNCHANGED <<numSent, outgoingData, data>>

-----------------------------------------------------------------------------
MsgReceive(e, p) == Receive(e, p) /\ ConsumeChunks(e)

(* A flush of k messages creates no more chunks than the bound MaxChunks   *)
(* leaves.                                                                 *)
Fits(e, k) == Len(Cut(e, k)) \in Cuts(e)

MsgUpdate(e, k, nakDue, resendDue, idle) ==
    /\ k \in FlushCounts(e, FALSE) /\ Fits(e, k)
    /\ Update(e, Len(Cut(e, k)), nakDue, resendDue, idle)
    /\ CutMessages(e, k)

MsgFlush(e, nakDue, resendDue) ==
    LET k == Len(outgoingData[e]) IN
    /\ Fits(e, k)
    /\ ForcedFlush(e, Len(Cut(e, k)), nakDue, resendDue)
    /\ CutMessages(e, k)

MsgClose(e, flush, k, nakDue, resendDue, idle) ==
    /\ k \in FlushCounts(e, flush) /\ Fits(e, k)
    /\ Close(e, flush, Len(Cut(e, k)), nakDue, resendDue, idle)
    /\ CutMessages(e, k)

MsgUpdateStep(e) ==
    \E k \in 0..Len(outgoingData[e]), nakDue \in NakTimer(e), idle \in BOOLEAN :
        \E resendDue \in ResendTimer(e, Len(Cut(e, k))) :
            MsgUpdate(e, k, nakDue, resendDue, idle)
MsgFlushStep(e) ==
    \E nakDue \in NakTimer(e) :
        \E resendDue \in ResendTimer(e, Len(Cut(e, Len(outgoingData[e])))) :
            MsgFlush(e, nakDue, resendDue)
MsgCloseStep(e) ==
    /\ e \in Closing
    /\ \/ CloseMuted(e) /\ UNCHANGED messages
       \/ \E k \in 0..Len(outgoingData[e]), flush, idle \in BOOLEAN,
             nakDue \in NakTimer(e) :
             \E resendDue \in ResendTimer(e, Len(Cut(e, k))) :
                MsgClose(e, flush, k, nakDue, resendDue, idle)

MsgNext ==
    \E e \in End :
        \/ SendData(e)
        \/ Unmute(e) /\ UNCHANGED messages
        \/ \E p \in net[e] : MsgReceive(e, p)
        \/ UpdateMuted(e) /\ UNCHANGED messages
        \/ MsgUpdateStep(e)
        \/ MsgFlushStep(e)
        \/ MsgCloseStep(e)

MsgSpec == MsgInit /\ [][MsgNext]_allVars

-----------------------------------------------------------------------------
(* Properties. *)

MsgTypeOK ==
    /\ TypeOK
    /\ \A e \in End :
        /\ numSent[e] \in 0..Len(Script[e])
        /\ outgoingData[e] \in Seq(DOMAIN MsgLen)
        /\ Len(data[e]) = created[e]
        /\ \A i \in 1..Len(data[e]) : Len(data[e][i]) \in 1..maxChunkSize

(* the valid messages handed over so far, as their bytes *)
Accepted(e) ==
    LET given == FirstN(Script[e], numSent[e])
    IN  FlattenSeq([i \in 1..Len(given) |->
                      IF IsValidPacket(given[i]) THEN <<Bytes(given[i])>>
                      ELSE <<>>])

WireMessage == {Bytes(m) : m \in DOMAIN MsgLen}

(* Each direction of the connection is a reliable channel: no message is   *)
(* lost between two that arrive, none is doubled, overtaken, cut short or  *)
(* glued to another, whatever the network does to the packets.             *)
ToServer == INSTANCE ReliableChannel
            WITH Message <- WireMessage,
                 sent <- Accepted(Client), received <- msgQueue[Server]
ToClient == INSTANCE ReliableChannel
            WITH Message <- WireMessage,
                 sent <- Accepted(Server), received <- msgQueue[Client]
ToServerReliable == ToServer!Spec
ToClientReliable == ToClient!Spec

(* The fragment buffer holds the beginning of the next message and nothing *)
(* else: the receiver never loses its place in the byte stream.            *)
FragmentIsNextMessage ==
    \A e \in End :
        LET next == Len(msgQueue[e]) + 1 IN
        fragmentBuffer[e] # <<>> =>
            /\ next <= Len(Accepted(Other(e)))
            /\ IsStrictPrefix(fragmentBuffer[e], Accepted(Other(e))[next])

=============================================================================
