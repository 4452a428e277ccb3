------------------------ MODULE SerialTransmit_proofs ------------------------
(***************************************************************************)
(* Proofs about the serial transmit path, for every queue capacity, FIFO   *)
(* depth, set of bytes and number of bytes.                                *)
(***************************************************************************)
EXTENDS SerialTransmit, SequenceLemmas, TLAPS

-----------------------------------------------------------------------------
(* The type invariant is preserved, given that a byte about to be sent is   *)
(* the head of the queue (TransmitInv).                                     *)

\* Boot establishes the type invariant.
LEMMA TypeInit == Init => TypeOK
<1> SUFFICES ASSUME Init
             PROVE  TypeOK
  OBVIOUS
<1>1. /\ pc \in [Context -> Label]
      /\ byte \in [Context -> Byte \cup {NoByte}]
  BY DEF Init, Context, Label
<1>2. threEnabled \in BOOLEAN /\ txEnabled \in BOOLEAN
  BY DEF Init
<1>3. /\ sendQueue \in Seq(Byte) /\ Len(sendQueue) <= QueueCapacity
      /\ fifo \in Seq(Byte) /\ Len(fifo) <= FifoDepth
      /\ shift \in Seq(Byte) /\ Len(shift) <= 1
      /\ offered \in Seq(Byte) /\ Len(offered) <= MaxBytes
      /\ wire \in Seq(Byte)
  BY TransmitAssumption DEF Init
<1>4. /\ TRANSMIT_INTERRUPT_STATUS \in {"SET", "RESET"}
      /\ CTS_STATE \in {"ACTIVE", "INACTIVE"}
      /\ ctsLine \in {"ACTIVE", "INACTIVE"}
  BY DEF Init
<1>5. ctsDelta \in BOOLEAN /\ threPending \in BOOLEAN
  BY DEF Init
<1> QED
  BY <1>1, <1>2, <1>3, <1>4, <1>5, Zenon DEF TypeOK

\* One step of handleTransmitInterrupt, in either context, preserves it.
LEMMA TypeTransmit ==
  ASSUME TypeOK, TransmitInv, NEW c \in Context, handleTransmitInterrupt(c)
  PROVE  TypeOK'
<1> USE TransmitAssumption DEF TypeOK, At, Goto, Label
<1>1. CASE EnterTransmit(c)
  BY <1>1 DEF EnterTransmit, disableTransmitInterrupt, uart, cts
<1>2. CASE WaitWhileBusy(c)
  BY <1>2 DEF WaitWhileBusy, uart, cts, irq
<1>3. CASE PeekByte(c)
  <2>1. pc' \in [Context -> Label]
    BY <1>3 DEF PeekByte
  <2>2. byte' \in [Context -> Byte \cup {NoByte}]
    BY <1>3, HeadThenTail DEF PeekByte
  <2> QED
    BY <1>3, <2>1, <2>2 DEF PeekByte, uart, cts, irq
<1>4. CASE SendByte(c)
  <2>1. byte[c] \in Byte
    BY <1>4, HeadThenTail DEF SendByte, TransmitInv, MaskInv
  <2>2. fifo' = fifo \/ (Len(fifo) < FifoDepth /\ fifo' = Append(fifo, byte[c]))
    BY <1>4 DEF SendByte
  <2>3. fifo' \in Seq(Byte) /\ Len(fifo') <= FifoDepth
    <3>1. CASE fifo' = fifo
      BY <3>1
    <3>2. CASE Len(fifo) < FifoDepth /\ fifo' = Append(fifo, byte[c])
      BY <2>1, <3>2, AppendWithRoom
    <3> QED
      BY <2>2, <3>1, <3>2
  <2>4. pc' \in [Context -> Label] /\ byte' \in [Context -> Byte \cup {NoByte}]
    BY <1>4 DEF SendByte
  <2>5. UNCHANGED <<sendQueue, txEnabled, shift, wire, cts, threEnabled,
                    TRANSMIT_INTERRUPT_STATUS, offered>>
    BY <1>4 DEF SendByte
  <2>6. threPending' \in BOOLEAN
    BY <1>4 DEF SendByte
  <2> QED
    BY <2>3, <2>4, <2>5, <2>6, Zenon DEF cts
<1>5. CASE PopByte(c)
  BY <1>5, HeadThenTail DEF PopByte, uart, cts, irq, TransmitInv, MaskInv
<1>6. CASE Rearm(c)
  BY <1>6 DEF Rearm, enableTransmitInterrupt, disableTransmitInterrupt, uart, cts
<1>7. CASE RearmMark(c)
  BY <1>7 DEF RearmMark, noteInterruptEnabled, uart, cts
<1> QED
  BY <1>1, <1>2, <1>3, <1>4, <1>5, <1>6, <1>7 DEF handleTransmitInterrupt

\* Every step of the main loop, the handler, the UART and the peer preserves it:
\* no queue or FIFO outgrows its capacity and the shift register holds one byte.
LEMMA TypeStep == TypeOK /\ TransmitInv /\ [Next]_vars => TypeOK'
<1> SUFFICES ASSUME TypeOK, TransmitInv, [Next]_vars
             PROVE  TypeOK'
  OBVIOUS
<1> USE TransmitAssumption DEF TypeOK, At, Goto, Label, Context
<1>1. ASSUME NEW b \in Byte, Enqueue(b)
      PROVE  TypeOK'
  BY <1>1 DEF Enqueue, HasRoom, uart, cts, irq
<1>2. CASE processSerialSendQueue
  BY <1>2 DEF processSerialSendQueue, uart, cts, irq
<1>3. CASE Poll
  BY <1>3 DEF Poll, enableTransmitInterrupt, uart, cts
<1>4. CASE PollMark
  BY <1>4 DEF PollMark, noteInterruptEnabled, uart, cts
<1>5. CASE handleTransmitInterrupt("main") \/ handleTransmitInterrupt("isr")
  BY <1>5, TypeTransmit
<1>6. CASE InterruptThre
  BY <1>6 DEF InterruptThre, uart, cts
<1>7. CASE InterruptModem
  BY <1>7 DEF InterruptModem, TxCmd, irq
<1>8. CASE LoadShift
  BY <1>8, HeadThenTail DEF LoadShift, cts
<1>9. CASE ShiftOut
  BY <1>9 DEF ShiftOut, cts, irq
<1>10. CASE PeerTogglesCts
  BY <1>10 DEF PeerTogglesCts, uart, irq
<1>11. CASE UNCHANGED vars
  BY <1>11 DEF vars, uart, cts, irq
<1> QED
  BY <1>1, <1>2, <1>3, <1>4, <1>5, <1>6, <1>7, <1>8, <1>9, <1>10, <1>11
     DEF Next, MainStep, HandlerStep, UartStep
-----------------------------------------------------------------------------
(* The masking of the interrupt is preserved.                               *)

\* Boot establishes the inductive invariant.
LEMMA InvInit == Init => TransmitInv
<1> SUFFICES ASSUME Init
             PROVE  TransmitInv
  OBVIOUS
<1>1. MaskInv
  BY DEF Init, MaskInv, Masked, Context
<1>2. ExactlyOnceInOrder
  BY <1>1, EmptySeq, ConcatEmptySeq DEF Init, ExactlyOnceInOrder, Unsent, Context
<1> QED
  BY <1>1, <1>2 DEF TransmitInv

\* A context inside the masked part leaves the interrupt off until it rearms, and
\* what it peeked stays at the head of the queue.
LEMMA MaskTransmit ==
  ASSUME TypeOK, MaskInv, NEW c \in Context, handleTransmitInterrupt(c)
  PROVE  MaskInv'
<1> USE DEF TypeOK, MaskInv, Masked, At, Runs, Goto, Label, Context
<1>1. CASE EnterTransmit(c)
  BY <1>1 DEF EnterTransmit, disableTransmitInterrupt
<1>2. CASE WaitWhileBusy(c)
  BY <1>2 DEF WaitWhileBusy, irq
<1>3. CASE PeekByte(c)
  BY <1>3 DEF PeekByte, irq
<1>4. CASE SendByte(c)
  BY <1>4 DEF SendByte
<1>5. CASE PopByte(c)
  BY <1>5 DEF PopByte, irq
<1>6. CASE Rearm(c)
  BY <1>6 DEF Rearm, enableTransmitInterrupt, disableTransmitInterrupt
<1>7. CASE RearmMark(c)
  BY <1>7 DEF RearmMark, noteInterruptEnabled
<1> QED
  BY <1>1, <1>2, <1>3, <1>4, <1>5, <1>6, <1>7 DEF handleTransmitInterrupt

\* The handler starts only when the interrupt is enabled, hence when the main loop
\* is outside the masked part; no other step touches what the masking protects.
LEMMA MaskStep == TypeOK /\ MaskInv /\ [Next]_vars => MaskInv'
<1> SUFFICES ASSUME TypeOK, MaskInv, [Next]_vars
             PROVE  MaskInv'
  OBVIOUS
<1> USE DEF TypeOK, MaskInv, Masked, At, Runs, Goto, Label, Context
<1>1. ASSUME NEW b \in Byte, Enqueue(b)
      PROVE  MaskInv'
  BY <1>1 DEF Enqueue, irq
<1>2. CASE processSerialSendQueue
  BY <1>2 DEF processSerialSendQueue, irq
<1>3. CASE Poll
  BY <1>3 DEF Poll, enableTransmitInterrupt
<1>4. CASE PollMark
  BY <1>4 DEF PollMark, noteInterruptEnabled
<1>5. CASE handleTransmitInterrupt("main") \/ handleTransmitInterrupt("isr")
  BY <1>5, MaskTransmit
<1>6. CASE InterruptThre
  BY <1>6 DEF InterruptThre, ThreInterrupt
<1>7. CASE InterruptModem
  BY <1>7 DEF InterruptModem, irq
<1>8. CASE LoadShift
  BY <1>8 DEF LoadShift
<1>9. CASE ShiftOut
  BY <1>9 DEF ShiftOut, irq
<1>10. CASE PeerTogglesCts
  BY <1>10 DEF PeerTogglesCts, irq
<1>11. CASE UNCHANGED vars
  BY <1>11 DEF vars, irq
<1> QED
  BY <1>1, <1>2, <1>3, <1>4, <1>5, <1>6, <1>7, <1>8, <1>9, <1>10, <1>11
     DEF Next, MainStep, HandlerStep, UartStep
-----------------------------------------------------------------------------
(* Every byte stays in one place and in its turn.                           *)

Popping == \E c \in Context : pc[c] = "pop"

\* What is not sent yet is a sequence of bytes.
LEMMA UnsentType == TypeOK /\ MaskInv => Unsent \in Seq(Byte)
  BY HeadThenTail DEF TypeOK, MaskInv, Unsent, Context

\* A step that moves no byte and enters or leaves no pop keeps the order.
LEMMA NoMove ==
  ASSUME ExactlyOnceInOrder, UNCHANGED <<sendQueue, fifo, shift, wire, offered>>,
         Popping' <=> Popping
  PROVE  ExactlyOnceInOrder'
  BY DEF ExactlyOnceInOrder, Unsent, Popping

\* One step of handleTransmitInterrupt: the byte the UART accepts is the head of
\* what was unsent, and popping it moves nothing.
LEMMA OrderTransmit ==
  ASSUME TypeOK, TransmitInv, NEW c \in Context, handleTransmitInterrupt(c), Runs(c)
  PROVE  ExactlyOnceInOrder'
<1> USE DEF TypeOK, TransmitInv, At, Goto, Context
<1>1. \A d \in Context \ {c} : pc[d] \notin Masked \/ pc[c] \notin Masked
  BY DEF MaskInv, Runs, Masked
<1>2. CASE EnterTransmit(c)
  BY <1>2, NoMove DEF EnterTransmit, Popping, uart
<1>3. CASE WaitWhileBusy(c)
  BY <1>3, NoMove DEF WaitWhileBusy, Popping, uart
<1>4. CASE PeekByte(c)
  BY <1>4, NoMove DEF PeekByte, Popping, uart
<1>5. CASE SendByte(c)
  <2>1. ~Popping
    BY <1>1, <1>5 DEF SendByte, Popping, Masked
  <2>2. CASE /\ fifo' = Append(fifo, byte[c])
             /\ pc' = [pc EXCEPT ![c] = "pop"]
    <3>1. sendQueue # <<>> /\ byte[c] = Head(sendQueue)
      BY <1>5 DEF SendByte, MaskInv
    <3>2. Unsent = sendQueue /\ Unsent' = Tail(sendQueue)
      BY <1>5, <2>1, <2>2 DEF SendByte, Unsent, Popping
    <3>3. offered = (wire \o shift) \o fifo \o sendQueue
      BY <3>2 DEF ExactlyOnceInOrder
    <3>4. (wire \o shift) \o Append(fifo, Head(sendQueue))
            = Append(wire \o shift \o fifo, Head(sendQueue))
      <4>1. wire \o shift \in Seq(Byte) /\ Head(sendQueue) \in Byte
        BY <3>1, HeadThenTail
      <4> QED
        BY <4>1, AppendRight
    <3>5. Append(wire \o shift \o fifo, Head(sendQueue)) \o Tail(sendQueue)
            = wire \o shift \o fifo \o sendQueue
      <4>1. wire \o shift \o fifo \in Seq(Byte)
        OBVIOUS
      <4> QED
        BY <3>1, <4>1, MoveHead
    <3>6. fifo' = Append(fifo, Head(sendQueue)) /\ UNCHANGED <<offered, wire, shift>>
      BY <1>5, <2>2, <3>1 DEF SendByte
    <3> QED
      BY <3>2, <3>3, <3>4, <3>5, <3>6 DEF ExactlyOnceInOrder
  <2>3. CASE fifo' = fifo /\ pc' = [pc EXCEPT ![c] = "rearm"]
    BY <1>5, <2>1, <2>3, NoMove DEF SendByte, Popping
  <2> QED
    BY <1>5, <2>2, <2>3 DEF SendByte
<1>6. CASE PopByte(c)
  <2>1. Popping /\ ~Popping'
    BY <1>1, <1>6 DEF PopByte, Popping, Masked
  <2>2. Unsent = Tail(sendQueue) /\ Unsent' = Tail(sendQueue)
    BY <1>6, <2>1 DEF PopByte, Unsent, Popping
  <2> QED
    BY <1>6, <2>2 DEF PopByte, ExactlyOnceInOrder, uart
<1>7. CASE Rearm(c)
  BY <1>7, NoMove DEF Rearm, enableTransmitInterrupt, Popping, uart
<1>8. CASE RearmMark(c)
  BY <1>8, NoMove DEF RearmMark, noteInterruptEnabled, Popping, uart
<1> QED
  BY <1>2, <1>3, <1>4, <1>5, <1>6, <1>7, <1>8 DEF handleTransmitInterrupt

\* A byte joins the queue at its end, and the UART moves bytes to the peer from the
\* front: no step loses, repeats or reorders one.
LEMMA OrderStep == TypeOK /\ TransmitInv /\ [Next]_vars => ExactlyOnceInOrder'
<1> SUFFICES ASSUME TypeOK, TransmitInv, [Next]_vars
             PROVE  ExactlyOnceInOrder'
  OBVIOUS
<1> USE DEF TypeOK, TransmitInv, At, Goto, Context
<1>1. ASSUME NEW b \in Byte, Enqueue(b)
      PROVE  ExactlyOnceInOrder'
  <2>1. ~Popping /\ ~Popping'
    BY <1>1 DEF Enqueue, Popping, Runs
  <2>2. Unsent = sendQueue /\ Unsent' = Append(sendQueue, b)
    BY <1>1, <2>1 DEF Enqueue, Unsent, Popping
  <2>3. Append(offered, b) = (wire \o shift \o fifo) \o Append(sendQueue, b)
    <3>1. wire \o shift \o fifo \in Seq(Byte)
      OBVIOUS
    <3>2. (wire \o shift \o fifo) \o Append(sendQueue, b)
            = Append((wire \o shift \o fifo) \o sendQueue, b)
      BY <3>1, AppendRight
    <3> QED
      BY <2>2, <3>2 DEF ExactlyOnceInOrder
  <2> QED
    BY <1>1, <2>2, <2>3 DEF Enqueue, ExactlyOnceInOrder, uart
<1>2. CASE processSerialSendQueue
  BY <1>2, NoMove DEF processSerialSendQueue, Popping, uart
<1>3. CASE Poll
  BY <1>3, NoMove DEF Poll, enableTransmitInterrupt, Popping, uart
<1>4. CASE PollMark
  BY <1>4, NoMove DEF PollMark, noteInterruptEnabled, Popping, uart
<1>5. ASSUME NEW c \in Context, handleTransmitInterrupt(c)
      PROVE  ExactlyOnceInOrder'
  <2>1. Runs(c)
    BY <1>5 DEF handleTransmitInterrupt, EnterTransmit, WaitWhileBusy, PeekByte,
                SendByte, PopByte, Rearm, RearmMark
  <2> QED
    BY <1>5, <2>1, OrderTransmit
<1>6. CASE InterruptThre
  BY <1>6, NoMove DEF InterruptThre, Popping, uart
<1>7. CASE InterruptModem
  BY <1>7, NoMove DEF InterruptModem, Popping
<1>8. CASE LoadShift
  <2>1. shift = <<>> /\ fifo # <<>> /\ shift' = <<Head(fifo)>> /\ fifo' = Tail(fifo)
    BY <1>8 DEF LoadShift
  <2>2. wire \o shift \o fifo = wire \o shift' \o fifo'
    <3>1. wire \o shift = wire
      BY <2>1, ConcatEmptySeq
    <3>2. wire \o shift' = Append(wire, Head(fifo))
      BY <2>1, HeadThenTail, AppendIsConcat
    <3> QED
      BY <2>1, <3>1, <3>2, MoveHead
  <2>3. Unsent' = Unsent
    BY <1>8 DEF LoadShift, Unsent
  <2> QED
    BY <1>8, <2>2, <2>3 DEF LoadShift, ExactlyOnceInOrder
<1>9. CASE ShiftOut
  <2>1. wire' \o shift' = wire \o shift
    BY <1>9, ConcatEmptySeq, wire \o shift \in Seq(Byte) DEF ShiftOut
  <2>2. Unsent' = Unsent
    BY <1>9 DEF ShiftOut, Unsent
  <2> QED
    BY <1>9, <2>1, <2>2 DEF ShiftOut, ExactlyOnceInOrder
<1>10. CASE PeerTogglesCts
  BY <1>10, NoMove DEF PeerTogglesCts, Popping, uart
<1>11. CASE UNCHANGED vars
  BY <1>11, NoMove DEF vars, Popping, uart
<1> QED
  BY <1>1, <1>2, <1>3, <1>4, <1>5, <1>6, <1>7, <1>8, <1>9, <1>10, <1>11
     DEF Next, MainStep, HandlerStep, UartStep

-----------------------------------------------------------------------------
(* The theorems.                                                            *)

\* Every reachable state is well typed and satisfies the inductive invariant: no
\* queue outgrows its capacity and the masking of serialutil.c:92 is never broken.
THEOREM InvariantHolds == Spec => [](TypeOK /\ TransmitInv)
<1>1. Init => TypeOK /\ TransmitInv
  BY TypeInit, InvInit
<1>2. TypeOK /\ TransmitInv /\ [Next]_vars => (TypeOK /\ TransmitInv)'
  BY TypeStep, MaskStep, OrderStep DEF TransmitInv
<1> QED
  BY <1>1, <1>2, PTL DEF Spec

\* The variables keep their types: the send queue and the FIFO stay in their bounds.
THEOREM TypeCorrect == Spec => []TypeOK
  BY InvariantHolds, PTL

\* The main loop and the interrupt handler never drain the queue at the same time.
THEOREM MutualExclusion == Spec => []OneDrainer
<1>1. TransmitInv => OneDrainer
  BY DEF TransmitInv, MaskInv, Masked, OneDrainer, Draining
<1> QED
  BY <1>1, InvariantHolds, PTL

\* What the code counts on when it masks the interrupt (serialutil.c:92): a context
\* between the mask and the rearm runs with the interrupt off, it alone drains, and
\* the byte it peeked is still the head of the queue when it sends and pops it.
THEOREM Masking == Spec => []MaskInv
<1>1. TransmitInv => MaskInv
  BY DEF TransmitInv
<1> QED
  BY <1>1, InvariantHolds, PTL

\* No byte put in the send queue is lost, repeated or overtaken on its way out.
THEOREM ByteOrder == Spec => []ExactlyOnceInOrder
<1>1. TransmitInv => ExactlyOnceInOrder
  BY DEF TransmitInv
<1> QED
  BY <1>1, InvariantHolds, PTL

-----------------------------------------------------------------------------
(* The refinement: the transmit path implements ByteChannel.                *)

\* A byte that leaves the shift register is the next one the channel owes.
LEMMA ShiftOutDelivers == TypeOK /\ TransmitInv /\ ShiftOut => Channel!Deliver
<1> SUFFICES ASSUME TypeOK, TransmitInv, ShiftOut
             PROVE  Channel!Deliver
  OBVIOUS
<1> DEFINE n == Len(wire) + 1
           upToShift == wire \o shift
           upToFifo  == upToShift \o fifo
<1>1. /\ wire \in Seq(Byte) /\ shift \in Seq(Byte) /\ fifo \in Seq(Byte)
      /\ shift # <<>> /\ Len(shift) <= 1
  BY DEF TypeOK, ShiftOut
<1>2. Unsent \in Seq(Byte)
  BY UnsentType DEF TransmitInv
<1>3. shift[1] \in Byte /\ shift = <<shift[1]>>
  BY <1>1, Singleton
<1>4. upToShift = Append(wire, shift[1])
  BY <1>1, <1>3, AppendIsConcat
<1>5. upToShift \in Seq(Byte) /\ n \in 1 .. Len(upToShift) /\ upToShift[n] = shift[1]
  BY <1>1, <1>3, <1>4, AppendProperties
<1>6. offered = upToFifo \o Unsent
  BY DEF TransmitInv, ExactlyOnceInOrder
<1>7. wire' = upToShift /\ UNCHANGED offered
  BY DEF ShiftOut
<1> HIDE DEF upToShift
<1>8. upToFifo \in Seq(Byte) /\ n \in 1 .. Len(upToFifo) /\ upToFifo[n] = shift[1]
  BY <1>1, <1>5, KeepsPrefix
<1> HIDE DEF upToFifo
<1>9. n \in 1 .. Len(offered) /\ offered[n] = shift[1]
  BY <1>2, <1>6, <1>8, KeepsPrefix
<1> QED
  BY <1>1, <1>4, <1>7, <1>9, LenProperties DEF Channel!Deliver

\* The transmit path implements the channel: every step delivers the next byte,
\* offers one, or is invisible to the peer.
THEOREM Refinement == Spec => ImplementsByteChannel
<1>1. Init => Channel!ChanInit
  BY DEF Init, Channel!ChanInit
<1>2. TypeOK /\ TransmitInv /\ [Next]_vars => [Channel!ChanNext]_(Channel!chanVars)
  <2> SUFFICES ASSUME TypeOK, TransmitInv, [Next]_vars
               PROVE  Channel!ChanNext \/ UNCHANGED <<offered, wire>>
    BY DEF Channel!chanVars
  <2>1. ASSUME NEW b \in Byte, Enqueue(b)
        PROVE  Channel!Offer
    BY <2>1 DEF Enqueue, Channel!Offer, uart
  <2>2. CASE ShiftOut
    BY <2>2, ShiftOutDelivers DEF Channel!ChanNext
  <2>3. ASSUME NEW c \in Context, handleTransmitInterrupt(c)
        PROVE  UNCHANGED <<offered, wire>>
    BY <2>3 DEF handleTransmitInterrupt, EnterTransmit, WaitWhileBusy, PeekByte,
                SendByte, PopByte, Rearm, RearmMark, uart
  <2>4. CASE processSerialSendQueue \/ Poll \/ PollMark
    BY <2>4 DEF processSerialSendQueue, Poll, PollMark, uart
  <2>5. CASE InterruptThre \/ InterruptModem \/ LoadShift \/ PeerTogglesCts
    BY <2>5 DEF InterruptThre, InterruptModem, LoadShift, PeerTogglesCts, uart
  <2>6. CASE UNCHANGED vars
    BY <2>6 DEF vars, uart
  <2> QED
    BY <2>1, <2>2, <2>3, <2>4, <2>5, <2>6
       DEF Next, MainStep, HandlerStep, UartStep, Context, Channel!ChanNext
<1> QED
  BY <1>1, <1>2, InvariantHolds, PTL
     DEF Spec, ImplementsByteChannel, Channel!ChanSpec

-----------------------------------------------------------------------------
(* Flow control.                                                            *)

\* The transmitter is enabled only while the program believes that CTS is active.
StopInv == CTS_STATE = "INACTIVE" => ~txEnabled

\* Only the handler changes the transmitter, and its copy of CTS with it.
LEMMA StopStep == StopInv /\ [Next]_vars => StopInv'
<1> SUFFICES ASSUME StopInv, [Next]_vars
             PROVE  StopInv'
  OBVIOUS
<1>1. CASE InterruptModem
  BY <1>1 DEF InterruptModem, TxCmd, StopInv
<1>2. CASE LoadShift \/ ShiftOut
  BY <1>2 DEF LoadShift, ShiftOut, cts, StopInv
<1>3. CASE PeerTogglesCts
  BY <1>3 DEF PeerTogglesCts, uart, StopInv
<1>4. ASSUME UNCHANGED <<txEnabled, CTS_STATE>>
      PROVE  StopInv'
  BY <1>4 DEF StopInv
<1>5. ASSUME NEW b \in Byte, Enqueue(b)
      PROVE  UNCHANGED <<txEnabled, CTS_STATE>>
  BY <1>5 DEF Enqueue, uart, cts
<1>6. ASSUME NEW c \in Context, handleTransmitInterrupt(c)
      PROVE  UNCHANGED <<txEnabled, CTS_STATE>>
  BY <1>6 DEF handleTransmitInterrupt, EnterTransmit, WaitWhileBusy, PeekByte,
              SendByte, PopByte, Rearm, RearmMark, uart, cts
<1>7. CASE processSerialSendQueue \/ Poll \/ PollMark \/ InterruptThre \/ UNCHANGED vars
  BY <1>4, <1>7 DEF processSerialSendQueue, Poll, PollMark, InterruptThre, vars, uart, cts
<1> QED
  BY <1>1, <1>2, <1>3, <1>4, <1>5, <1>6, <1>7
     DEF Next, MainStep, HandlerStep, UartStep, Context

\* After the handler has noted that CTS was dropped no byte starts to leave the UART,
\* whatever is in its FIFO or still put there (serialutil.c:129-131).
THEOREM CtsStops == Spec => NoByteStartsWhileStopped
<1>1. Init => StopInv
  BY DEF Init, StopInv
<1>2. StopInv /\ [Next]_vars =>
        [CTS_STATE = "INACTIVE" => shift' \in {shift, <<>>}]_vars
  <2> SUFFICES ASSUME StopInv, Next, CTS_STATE = "INACTIVE"
               PROVE  shift' \in {shift, <<>>}
    OBVIOUS
  <2>1. ~LoadShift
    BY DEF StopInv, LoadShift
  <2>2. CASE ShiftOut
    BY <2>2 DEF ShiftOut
  <2>3. ASSUME NEW b \in Byte, Enqueue(b)
        PROVE  shift' = shift
    BY <2>3 DEF Enqueue, uart
  <2>4. ASSUME NEW c \in Context, handleTransmitInterrupt(c)
        PROVE  shift' = shift
    BY <2>4 DEF handleTransmitInterrupt, EnterTransmit, WaitWhileBusy, PeekByte,
                SendByte, PopByte, Rearm, RearmMark, uart
  <2>5. CASE processSerialSendQueue \/ Poll \/ PollMark
    BY <2>5 DEF processSerialSendQueue, Poll, PollMark, uart
  <2>6. CASE InterruptThre \/ InterruptModem \/ PeerTogglesCts
    BY <2>6 DEF InterruptThre, InterruptModem, PeerTogglesCts, uart
  <2> QED
    BY <2>1, <2>2, <2>3, <2>4, <2>5, <2>6
       DEF Next, MainStep, HandlerStep, UartStep, Context
<1> QED
  BY <1>1, <1>2, StopStep, PTL DEF Spec, NoByteStartsWhileStopped
=============================================================================
