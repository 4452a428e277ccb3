------------------------- MODULE SerialReceive_proofs -------------------------
(***************************************************************************)
(* Proofs about the serial receive path, for every queue capacity, FIFO    *)
(* depth and number of bytes.                                              *)
(***************************************************************************)
EXTENDS SerialReceive, SequenceLemmas, TLAPS

\* What TypeOK lacks to be inductive: between the two writes of resumeReceive the
\* line is active and the program's copy is not, so a handler that runs there does
\* not pause the peer; were the line inactive, the second write would leave the copy
\* hiding a stopped peer.
ResumeInv == pc = "noteActive" => RTS_STATE = "INACTIVE" /\ rtsLine = "ACTIVE"

ReceiveInv == TypeOK /\ ResumeInv /\ NoByteOverflows

\* Boot establishes the inductive invariant.
LEMMA ReceiveInit == Init => ReceiveInv
<1> SUFFICES ASSUME Init
             PROVE  ReceiveInv
  OBVIOUS
<1>1. TypeOK
  BY ReceiveAssumption DEF Init, TypeOK, Label
<1>2. ResumeInv
  BY DEF Init, ResumeInv
<1>3. NoByteOverflows
  BY EmptySeq, ConcatEmptySeq DEF Init, NoByteOverflows
<1> QED
  BY <1>1, <1>2, <1>3 DEF ReceiveInv

\* What the handler reads is a prefix of what the UART holds, and fits in the queue:
\* QUEUE_PUSH drops none of it.
LEMMA HandlerMovesPrefix ==
  ASSUME TypeOK, handleReceiveInterrupt
  PROVE  \E bytes \in Seq(Byte) :
            /\ taken' = taken \o bytes
            /\ receiveQueue' = receiveQueue \o bytes
            /\ Len(receiveQueue') <= QueueCapacity
            /\ rxFifo' \in Seq(Byte)
            /\ Len(rxFifo') <= Len(rxFifo)
<1> DEFINE bytes == SubSeq(rxFifo, 1, Room)
<1>1. /\ receiveQueue \in Seq(Byte) /\ Len(receiveQueue) \in 0 .. QueueCapacity
      /\ rxFifo \in Seq(Byte) /\ QueueCapacity \in Nat
  BY ReceiveAssumption DEF TypeOK
<1>2. Room \in 0 .. Len(rxFifo) /\ Room <= QueueCapacity - Len(receiveQueue)
  BY <1>1 DEF Room
<1>3. /\ bytes \in Seq(Byte) /\ Len(bytes) = Room
      /\ SubSeq(rxFifo, Room + 1, Len(rxFifo)) \in Seq(Byte)
      /\ Len(SubSeq(rxFifo, Room + 1, Len(rxFifo))) <= Len(rxFifo)
  BY <1>1, <1>2, CutInTwo
<1>4. /\ rxFifo' = SubSeq(rxFifo, Room + 1, Len(rxFifo))
      /\ taken' = taken \o bytes
      /\ receiveQueue' = PushAll(receiveQueue, bytes)
  BY DEF handleReceiveInterrupt
<1> HIDE DEF bytes
<1>5. SubSeq(bytes, 1, Len(bytes)) = bytes
  BY <1>3, SubSeqFull
<1>6. PushAll(receiveQueue, bytes) = receiveQueue \o bytes
  <2>1. (IF Len(bytes) < QueueCapacity - Len(receiveQueue)
            THEN Len(bytes) ELSE QueueCapacity - Len(receiveQueue)) = Len(bytes)
    BY <1>1, <1>2, <1>3
  <2> QED
    BY <1>5, <2>1 DEF PushAll
<1>7. Len(receiveQueue \o bytes) <= QueueCapacity
  BY <1>1, <1>2, <1>3
<1> QED
  BY <1>3, <1>4, <1>6, <1>7

\* The handler keeps the two copies of RTS in step: it writes both or none.
LEMMA HandlerRts ==
  ASSUME TypeOK, ResumeInv, handleReceiveInterrupt
  PROVE  /\ UNCHANGED rts \/ (/\ RTS_STATE = "ACTIVE" /\ pc # "noteActive"
                              /\ rtsLine' = "INACTIVE" /\ RTS_STATE' = "INACTIVE")
         /\ UNCHANGED pc
  BY DEF handleReceiveInterrupt, pauseReceive, ResumeInv

\* Every step keeps the queues within their bounds and the two copies of RTS equal,
\* but for the gap inside resumeReceive.
LEMMA ReceiveTypeStep == TypeOK /\ ResumeInv /\ [Next]_vars => (TypeOK /\ ResumeInv)'
<1> SUFFICES ASSUME TypeOK, ResumeInv, [Next]_vars
             PROVE  (TypeOK /\ ResumeInv)'
  OBVIOUS
<1> USE ReceiveAssumption DEF TypeOK, ResumeInv, MainAt, Label, rts, history
<1>1. CASE readFromSerial
  BY <1>1 DEF readFromSerial, TakeSnapshot
<1>2. CASE CheckFull
  BY <1>2 DEF CheckFull
<1>3. CASE Reset
  BY <1>3 DEF Reset
<1>4. CASE CheckRoom
  BY <1>4 DEF CheckRoom
<1>5. CASE resumeReceive
  BY <1>5 DEF resumeReceive
<1>6. CASE NoteActive
  BY <1>6 DEF NoteActive
<1>7. CASE handleReceiveInterrupt
  <2>1. PICK bytes \in Seq(Byte) :
            /\ taken' = taken \o bytes
            /\ receiveQueue' = receiveQueue \o bytes
            /\ Len(receiveQueue') <= QueueCapacity
            /\ rxFifo' \in Seq(Byte)
            /\ Len(rxFifo') <= Len(rxFifo)
    BY <1>7, HandlerMovesPrefix
  <2>2. receiveQueue' \in Seq(Byte) /\ taken' \in Seq(Byte)
    BY <2>1
  <2>3. UNCHANGED <<snapshot, sent, gone, pc>>
    BY <1>7 DEF handleReceiveInterrupt
  <2> QED
    BY <1>7, <2>1, <2>2, <2>3, HandlerRts
<1>8. ASSUME NEW b \in Byte, PeerSends(b)
      PROVE  (TypeOK /\ ResumeInv)'
  <2>1. rxFifo' \in Seq(Byte) /\ Len(rxFifo') <= RxFifoDepth
    BY <1>8, AppendWithRoom DEF PeerSends
  <2> QED
    BY <1>8, <2>1 DEF PeerSends
<1>9. CASE UNCHANGED vars
  BY <1>9 DEF vars
<1> QED
  BY <1>1, <1>2, <1>3, <1>4, <1>5, <1>6, <1>7, <1>8, <1>9 DEF Next, MainStep

\* No byte the handler takes from the UART is lost: it joins the queue at its end,
\* and leaves it only when the main loop clears the whole queue.
LEMMA OverflowStep == TypeOK /\ NoByteOverflows /\ [Next]_vars => NoByteOverflows'
<1> SUFFICES ASSUME TypeOK, NoByteOverflows, [Next]_vars
             PROVE  NoByteOverflows'
  OBVIOUS
<1>1. receiveQueue \in Seq(Byte) /\ taken \in Seq(Byte) /\ gone \in Seq(Byte)
  BY DEF TypeOK
<1>2. ASSUME UNCHANGED <<receiveQueue, taken, gone>>
      PROVE  NoByteOverflows'
  BY <1>2 DEF NoByteOverflows
<1>3. CASE readFromSerial \/ CheckFull \/ CheckRoom \/ resumeReceive \/ NoteActive
  BY <1>2, <1>3 DEF readFromSerial, CheckFull, CheckRoom, resumeReceive, NoteActive,
                    history
<1>4. CASE Reset
  <2>1. gone' = taken /\ receiveQueue' = <<>> /\ taken' = taken
    BY <1>4 DEF Reset, NoByteOverflows
  <2> QED
    BY <1>1, <2>1, ConcatEmptySeq DEF NoByteOverflows
<1>5. CASE handleReceiveInterrupt
  <2>1. PICK bytes \in Seq(Byte) :
            taken' = taken \o bytes /\ receiveQueue' = receiveQueue \o bytes
    BY <1>5, HandlerMovesPrefix
  <2>2. (gone \o receiveQueue) \o bytes = gone \o (receiveQueue \o bytes)
    BY <1>1, ConcatAssociative
  <2>3. gone' = gone
    BY <1>5 DEF handleReceiveInterrupt
  <2> QED
    BY <2>1, <2>2, <2>3 DEF NoByteOverflows
<1>6. ASSUME NEW b \in Byte, PeerSends(b)
      PROVE  NoByteOverflows'
  BY <1>2, <1>6 DEF PeerSends
<1>7. CASE UNCHANGED vars
  BY <1>2, <1>7 DEF vars
<1> QED
  BY <1>3, <1>4, <1>5, <1>6, <1>7 DEF Next, MainStep

-----------------------------------------------------------------------------
\* Every reachable state satisfies the inductive invariant.
THEOREM ReceiveInvariant == Spec => []ReceiveInv
<1>1. ReceiveInv /\ [Next]_vars => ReceiveInv'
  BY ReceiveTypeStep, OverflowStep DEF ReceiveInv
<1> QED
  BY <1>1, ReceiveInit, PTL DEF Spec

\* The queue, its snapshot and the FIFO keep their bounds, and the program's copy of
\* RTS differs from the line only between the two writes of resumeReceive.
THEOREM ReceiveTypeCorrect == Spec => []TypeOK
  BY ReceiveInvariant, PTL DEF ReceiveInv

\* However the handler and processQueue interleave, no byte taken from the UART is
\* lost for want of room in the queue.
THEOREM NoReceivedByteLost == Spec => []NoByteOverflows
  BY ReceiveInvariant, PTL DEF ReceiveInv
=============================================================================
