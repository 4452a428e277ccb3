-------------------------- MODULE CanGateway_proofs --------------------------
(***************************************************************************)
(* Proofs about the CAN side of the main loop, for every number of buses,  *)
(* queue capacity, timeout, size of the clock and amount of traffic.       *)
(***************************************************************************)
EXTENDS CanGateway, SequenceLemmas, TLAPS

-----------------------------------------------------------------------------
(* The inductive invariant.                                                 *)

\* receiveCan holds a message only between the pop and the decoding, and its for
\* loops leave their index at the first bus.
LoopInv == /\ message # <<>> => pc = "decode"
           /\ pc \in {"hosts", "custom", "lights", "sleep", "listeners"} => bus = 1

\* The buses the loop of a pass has not come to yet; of the bus in hand, not yet
\* served before its message is popped.
Ahead(b) == IF pc = "receive" THEN b >= bus ELSE pc = "decode" /\ b > bus

\* In a pass no bus the loop has left behind is still waiting, and a bus it has not
\* come to that waits still has its message.
PassInv == /\ pc \in {"receive", "decode"} =>
                 \A b \in Bus : /\ b < bus => ~waiting[b]
                                /\ Ahead(b) /\ waiting[b] => receiveQueue[b] # <<>>
           /\ pc \in {"hosts", "write", "custom", "lights", "sleep", "listeners"} =>
                 \A b \in Bus : ~waiting[b]

\* The clock distance the program reads tells how long a bus was quiet until that is
\* the timeout, and a unit that is about to sleep has seen that of every bus.
QuietInv == /\ \A b \in Bus : quiet[b] < Timeout => sinceLast[b] = quiet[b]
            /\ pc = "sleep" => \A b \in Bus : quiet[b] = Timeout

GatewayInv == /\ TypeOK /\ LoopInv /\ PassInv /\ QuietInv
              /\ DecodedOnceInOrder /\ WrittenOnceInOrder

-----------------------------------------------------------------------------
(* Types.                                                                   *)

IsLog(f) == f \in [Bus -> Seq(Nat)]

IsQueue(f) == IsLog(f) /\ \A b \in Bus : Len(f[b]) <= QueueCapacity

\* The conjuncts of TypeOK, by the groups of variables that the actions leave alone.
InboundTypes  == IsQueue(receiveQueue) /\ IsLog(accepted) /\ IsLog(decoded)
OutboundTypes == IsQueue(sendQueue) /\ IsLog(asked) /\ IsLog(written)
ActivityTypes == /\ sinceLast \in [Bus -> 0 .. ClockSize - 1]
                 /\ quiet \in [Bus -> 0 .. Timeout]
                 /\ waiting \in [Bus -> BOOLEAN]
ModeTypes     == /\ busWasActive \in BOOLEAN /\ ticked \in BOOLEAN
                 /\ power \in {"awake", "asleep"}
                 /\ receiving \in [Bus -> BOOLEAN]
ControlTypes  == pc \in Label /\ bus \in Bus /\ message \in Seq(Nat) /\ Len(message) <= 1
CountTypes    == /\ arrivals \in 0 .. MaxArrivals
                 /\ requests \in 0 .. MaxRequests
                 /\ resets \in 0 .. MaxResets

\* The groups make up the type invariant.
LEMMA TypeParts == TypeOK <=> /\ InboundTypes /\ OutboundTypes /\ ActivityTypes
                             /\ ModeTypes /\ ControlTypes /\ CountTypes
  BY DEF TypeOK, InboundTypes, OutboundTypes, ActivityTypes, ModeTypes, ControlTypes,
         CountTypes, IsQueue, IsLog

\* What the assumption on the constants comes to: there is a first bus, and the clock
\* is longer than the timeout.
LEMMA GatewayFacts == /\ 1 \in Bus /\ BusCount \in Bus /\ BusCount \in Nat
                      /\ QueueCapacity \in Nat
                      /\ Timeout \in Nat /\ ClockSize \in Nat
                      /\ 1 < Timeout /\ Timeout < ClockSize
                      /\ MaxArrivals \in Nat /\ MaxRequests \in Nat /\ MaxResets \in Nat
<1>1. /\ BusCount \in Nat /\ BusCount >= 1 /\ Timeout \in Nat /\ ClockSize \in Nat
      /\ BusCount * (Timeout + 1) < ClockSize
  BY GatewayAssumption
<1>2. BusCount * (Timeout + 1) >= Timeout + 1
  BY <1>1
<1>3. Timeout < ClockSize
  BY <1>1, <1>2
<1>4. 1 \in Bus /\ BusCount \in Bus
  BY <1>1 DEF Bus
<1> QED
  BY <1>1, <1>3, <1>4, GatewayAssumption

\* The next index of a for loop over the buses is an index.
LEMMA NextBusType ==
  ASSUME bus \in Bus, NEW label, NEW after, NextBus(label, after)
  PROVE  /\ bus' \in Bus /\ pc' \in {label, after}
         /\ \/ pc' = after /\ bus = BusCount /\ bus' = 1
            \/ pc' = label /\ bus # BusCount /\ bus' = bus + 1
<1>1. CASE LastBus
  BY <1>1, GatewayFacts DEF NextBus, LastBus
<1>2. CASE ~LastBus
  <2>1. bus + 1 \in Bus
    BY <1>2, GatewayFacts DEF Bus, LastBus
  <2> QED
    BY <1>2, <2>1 DEF NextBus, LastBus
<1> QED
  BY <1>1, <1>2

\* Replacing one bus's queue by one that fits keeps all of them in their bounds.
LEMMA ReplaceQueue ==
  ASSUME NEW f, IsQueue(f), NEW c \in Bus, NEW q \in Seq(Nat), Len(q) <= QueueCapacity
  PROVE  IsQueue([f EXCEPT ![c] = q])
  BY DEF IsQueue, IsLog

\* The log of one bus may be replaced by any log.
LEMMA ReplaceLog ==
  ASSUME NEW f, IsLog(f), NEW c \in Bus, NEW q \in Seq(Nat)
  PROVE  IsLog([f EXCEPT ![c] = q])
  BY DEF IsLog

\* A tick keeps the clock distance within the clock, and is an ordinary step of a
\* distance that is not about to wrap.
LEMMA TickDistance ==
  ASSUME NEW x \in 0 .. ClockSize - 1
  PROVE  /\ (x + 1) % ClockSize \in 0 .. ClockSize - 1
         /\ x + 1 < ClockSize => (x + 1) % ClockSize = x + 1
<1>1. ClockSize \in Nat /\ ClockSize > 0
  BY GatewayFacts
<1> QED
  BY <1>1

\* Power up establishes the type invariant.
LEMMA GatewayTypeInit == Init => TypeOK
<1> SUFFICES ASSUME Init
             PROVE  TypeOK
  OBVIOUS
<1>1. IsQueue([b \in Bus |-> <<>>]) /\ IsLog([b \in Bus |-> <<>>])
  BY GatewayFacts DEF IsQueue, IsLog
<1>2. InboundTypes
  BY <1>1 DEF Init, InboundTypes
<1>3. OutboundTypes
  BY <1>1 DEF Init, OutboundTypes
<1>4. ActivityTypes
  <2>1. 0 \in 0 .. ClockSize - 1 /\ 0 \in 0 .. Timeout
    BY GatewayFacts
  <2>2. /\ sinceLast = [b \in Bus |-> 0]
        /\ quiet = [b \in Bus |-> 0]
        /\ waiting = [b \in Bus |-> FALSE]
    BY DEF Init
  <2> QED
    BY <2>1, <2>2 DEF ActivityTypes
<1>5. ModeTypes
  BY DEF Init, ModeTypes
<1>6. ControlTypes /\ CountTypes
  BY GatewayFacts DEF Init, ControlTypes, CountTypes, Label
<1> QED
  BY <1>2, <1>3, <1>4, <1>5, <1>6, TypeParts

\* A wake is a restart.
LEMMA WakeIsInit == handleWake => Init'
  BY DEF handleWake, Init

\* So it establishes the types.
LEMMA WakeTypes == handleWake => (/\ InboundTypes /\ OutboundTypes /\ ActivityTypes
                                  /\ ModeTypes /\ ControlTypes /\ CountTypes)'
<1>1. Init => /\ InboundTypes /\ OutboundTypes /\ ActivityTypes
              /\ ModeTypes /\ ControlTypes /\ CountTypes
  BY GatewayTypeInit, TypeParts
<1> QED
  BY <1>1, WakeIsInit, PTL

-----------------------------------------------------------------------------
(* What is received: types and order.                                       *)

\* Only these steps touch what was received.
LEMMA InboundFrame ==
  ASSUME [Next]_vars
  PROVE  \/ UNCHANGED inbound
         \/ initializeCan \/ ReceiveMessage \/ Decode
         \/ \E b \in Bus : CAN_IRQHandler(b)
         \/ handleWake
<1>1. CASE UNCHANGED vars
  BY <1>1 DEF vars, inbound
<1>2. ASSUME LoopStep, ~initializeCan, ~ReceiveMessage, ~Decode
      PROVE  UNCHANGED inbound
  BY <1>2 DEF LoopStep, ReceiveNothing, HostsRead, processCanWriteQueue,
              customLoopHandler, updateDataLights, enterLowPowerMode,
              handleControlRequest, processListenerQueues
<1>3. ASSUME NEW b \in Bus, HostWrites(b)
      PROVE  UNCHANGED inbound
  BY <1>3 DEF HostWrites
<1>4. CASE SysTick_Handler
  BY <1>4 DEF SysTick_Handler
<1> QED
  BY <1>1, <1>2, <1>3, <1>4 DEF Next

\* The queues, and what was accepted and decoded, keep their types.
LEMMA InboundTypeStep ==
  ASSUME TypeOK, [Next]_vars
  PROVE  InboundTypes'
<1>1. /\ IsQueue(receiveQueue) /\ IsLog(accepted) /\ IsLog(decoded)
      /\ bus \in Bus /\ message \in Seq(Nat) /\ arrivals \in Nat
  BY TypeParts, GatewayFacts DEF InboundTypes, ControlTypes, CountTypes
<1>2. CASE UNCHANGED inbound
  BY <1>1, <1>2 DEF inbound, InboundTypes
<1>3. CASE initializeCan
  <2>1. /\ receiveQueue' = [receiveQueue EXCEPT ![bus] = <<>>]
        /\ accepted' = [accepted EXCEPT ![bus] = decoded[bus]]
        /\ decoded' = decoded
    BY <1>3 DEF initializeCan, initializeCanCommon
  <2>2. <<>> \in Seq(Nat) /\ Len(<<>>) <= QueueCapacity /\ decoded[bus] \in Seq(Nat)
    BY <1>1, GatewayFacts DEF IsLog
  <2> QED
    BY <1>1, <2>1, <2>2, ReplaceQueue, ReplaceLog DEF InboundTypes
<1>4. CASE ReceiveMessage
  <2>1. /\ receiveQueue' = [receiveQueue EXCEPT ![bus] = Tail(receiveQueue[bus])]
        /\ receiveQueue[bus] # <<>> /\ UNCHANGED <<accepted, decoded>>
    BY <1>4 DEF ReceiveMessage, Pop
  <2>2. receiveQueue[bus] \in Seq(Nat) /\ Len(receiveQueue[bus]) <= QueueCapacity
    BY <1>1 DEF IsQueue, IsLog
  <2>3. /\ Tail(receiveQueue[bus]) \in Seq(Nat)
        /\ Len(Tail(receiveQueue[bus])) <= QueueCapacity
    BY <2>1, <2>2, HeadThenTail, GatewayFacts
  <2> QED
    BY <1>1, <2>1, <2>3, ReplaceQueue DEF InboundTypes
<1>5. CASE Decode
  <2>1. /\ decoded' = [decoded EXCEPT ![bus] = decoded[bus] \o message]
        /\ UNCHANGED <<receiveQueue, accepted>>
    BY <1>5 DEF Decode
  <2>2. decoded[bus] \o message \in Seq(Nat)
    BY <1>1 DEF IsLog
  <2> QED
    BY <1>1, <2>1, <2>2, ReplaceLog DEF InboundTypes
<1>6. ASSUME NEW b \in Bus, CAN_IRQHandler(b)
      PROVE  InboundTypes'
  <2>1. CASE HasRoom(receiveQueue[b])
    <3>1. /\ receiveQueue' = [receiveQueue EXCEPT ![b] = Append(receiveQueue[b], arrivals)]
          /\ accepted' = [accepted EXCEPT ![b] = Append(accepted[b], arrivals)]
          /\ decoded' = decoded
      BY <1>6, <2>1 DEF CAN_IRQHandler
    <3>2. /\ Append(receiveQueue[b], arrivals) \in Seq(Nat)
          /\ Len(Append(receiveQueue[b], arrivals)) <= QueueCapacity
          /\ Append(accepted[b], arrivals) \in Seq(Nat)
      BY <1>1, <2>1, GatewayFacts, AppendWithRoom DEF IsQueue, IsLog, HasRoom
    <3> QED
      BY <1>1, <3>1, <3>2, ReplaceQueue, ReplaceLog DEF InboundTypes
  <2>2. CASE ~HasRoom(receiveQueue[b])
    BY <1>1, <1>6, <2>2 DEF CAN_IRQHandler, InboundTypes
  <2> QED
    BY <2>1, <2>2
<1>7. CASE handleWake
  BY <1>7, WakeTypes
<1> QED
  BY <1>2, <1>3, <1>4, <1>5, <1>6, <1>7, InboundFrame

\* Every message that found room is decoded once and in its turn: the interrupt adds
\* at the end of the queue, receiveCan takes from its front.
LEMMA DecodedStep ==
  ASSUME TypeOK, LoopInv, DecodedOnceInOrder, [Next]_vars
  PROVE  DecodedOnceInOrder'
<1> SUFFICES ASSUME NEW b \in Bus
             PROVE  accepted'[b] = decoded'[b] \o InHand(b)' \o receiveQueue'[b]
  BY DEF DecodedOnceInOrder
<1>1. /\ IsLog(receiveQueue) /\ IsLog(accepted) /\ IsLog(decoded)
      /\ bus \in Bus /\ message \in Seq(Nat) /\ arrivals \in Nat
  BY TypeParts, GatewayFacts DEF InboundTypes, ControlTypes, CountTypes, IsQueue
<1>2. /\ receiveQueue[b] \in Seq(Nat) /\ accepted[b] \in Seq(Nat)
      /\ decoded[b] \in Seq(Nat) /\ InHand(b) \in Seq(Nat)
  BY <1>1 DEF IsLog, InHand
<1>3. accepted[b] = decoded[b] \o InHand(b) \o receiveQueue[b]
  BY DEF DecodedOnceInOrder
<1>4. ASSUME UNCHANGED inbound, InHand(b)' = InHand(b)
      PROVE  accepted'[b] = decoded'[b] \o InHand(b)' \o receiveQueue'[b]
  BY <1>3, <1>4 DEF inbound
<1>5. CASE UNCHANGED vars
  BY <1>4, <1>5 DEF vars, inbound, InHand
<1>6. CASE initializeCan
  <2>1. InHand(b) = <<>> /\ InHand(b)' = <<>>
    BY <1>6 DEF initializeCan, At, LoopInv, InHand
  <2>2. CASE b = bus
    <3>1. /\ accepted'[b] = decoded[b] /\ decoded'[b] = decoded[b]
          /\ receiveQueue'[b] = <<>>
      BY <1>1, <1>6, <2>2 DEF initializeCan, initializeCanCommon, IsLog
    <3> QED
      BY <1>2, <2>1, <3>1, ConcatEmptySeq
  <2>3. CASE b # bus
    <3>1. /\ accepted'[b] = accepted[b] /\ decoded'[b] = decoded[b]
          /\ receiveQueue'[b] = receiveQueue[b]
      BY <1>1, <1>6, <2>3 DEF initializeCan, initializeCanCommon, IsLog
    <3> QED
      BY <1>3, <2>1, <3>1
  <2> QED
    BY <2>2, <2>3
<1>7. CASE ReceiveMessage
  <2>1. /\ InHand(b) = <<>> /\ receiveQueue[bus] # <<>>
        /\ UNCHANGED <<accepted, decoded, bus>>
        /\ message' = <<Head(receiveQueue[bus])>>
        /\ receiveQueue' = [receiveQueue EXCEPT ![bus] = Tail(receiveQueue[bus])]
    BY <1>7 DEF ReceiveMessage, Pop, At, LoopInv, InHand
  <2>2. CASE b = bus
    <3>1. InHand(b)' = <<Head(receiveQueue[b])>> /\ receiveQueue'[b] = Tail(receiveQueue[b])
      BY <1>1, <2>1, <2>2 DEF InHand, IsLog
    <3>2. decoded[b] \o receiveQueue[b]
            = Append(decoded[b], Head(receiveQueue[b])) \o Tail(receiveQueue[b])
      BY <1>2, <2>1, <2>2, MoveHead
    <3>3. Append(decoded[b], Head(receiveQueue[b])) = decoded[b] \o <<Head(receiveQueue[b])>>
      BY <1>2, <2>1, <2>2, HeadThenTail, AppendIsConcat
    <3>4. accepted[b] = decoded[b] \o receiveQueue[b]
      BY <1>2, <1>3, <2>1, ConcatEmptySeq
    <3> QED
      BY <2>1, <3>1, <3>2, <3>3, <3>4
  <2>3. CASE b # bus
    <3>1. InHand(b)' = <<>> /\ receiveQueue'[b] = receiveQueue[b]
      BY <1>1, <2>1, <2>3 DEF InHand, IsLog
    <3> QED
      BY <1>3, <2>1, <3>1
  <2> QED
    BY <2>2, <2>3
<1>8. CASE Decode
  <2>1. /\ decoded' = [decoded EXCEPT ![bus] = decoded[bus] \o message]
        /\ UNCHANGED <<receiveQueue, accepted>>
        /\ InHand(b)' = <<>>
    BY <1>8 DEF Decode, InHand
  <2>2. decoded'[b] = decoded[b] \o InHand(b)
    BY <1>1, <1>2, <2>1, ConcatEmptySeq DEF InHand, IsLog
  <2>3. decoded'[b] \o <<>> = decoded'[b]
    BY <1>2, <2>2, ConcatEmptySeq, decoded[b] \o InHand(b) \in Seq(Nat)
  <2> QED
    BY <1>3, <2>1, <2>2, <2>3
<1>9. CASE ReceiveNothing \/ processCanWriteQueue
  BY <1>4, <1>9 DEF ReceiveNothing, processCanWriteQueue, At, LoopInv, InHand
<1>10. CASE \/ HostsRead \/ updateDataLights \/ enterLowPowerMode \/ customLoopHandler
            \/ handleControlRequest \/ processListenerQueues
  BY <1>4, <1>10 DEF HostsRead, updateDataLights, enterLowPowerMode, customLoopHandler,
                     handleControlRequest, processListenerQueues, InHand
<1>11. ASSUME NEW c \in Bus, HostWrites(c)
       PROVE  accepted'[b] = decoded'[b] \o InHand(b)' \o receiveQueue'[b]
  BY <1>4, <1>11 DEF HostWrites, control, InHand
<1>12. ASSUME NEW c \in Bus, CAN_IRQHandler(c)
       PROVE  accepted'[b] = decoded'[b] \o InHand(b)' \o receiveQueue'[b]
  <2>1. InHand(b)' = InHand(b) /\ decoded' = decoded
    BY <1>12 DEF CAN_IRQHandler, control, InHand
  <2>2. CASE HasRoom(receiveQueue[c]) /\ b = c
    <3>1. /\ receiveQueue'[b] = Append(receiveQueue[b], arrivals)
          /\ accepted'[b] = Append(accepted[b], arrivals)
      BY <1>1, <1>12, <2>2 DEF CAN_IRQHandler, IsLog
    <3> DEFINE front == decoded[b] \o InHand(b)
    <3>2. front \in Seq(Nat) /\ receiveQueue[b] \in Seq(Nat) /\ arrivals \in Nat
      BY <1>1, <1>2
    <3> HIDE DEF front
    <3>3. front \o Append(receiveQueue[b], arrivals)
            = Append(front \o receiveQueue[b], arrivals)
      BY <3>2, AppendRight
    <3> QED
      BY <1>3, <2>1, <3>1, <3>3 DEF front
  <2>3. CASE ~(HasRoom(receiveQueue[c]) /\ b = c)
    <3>1. receiveQueue'[b] = receiveQueue[b] /\ accepted'[b] = accepted[b]
      BY <1>1, <1>12, <2>3 DEF CAN_IRQHandler, IsLog
    <3> QED
      BY <1>3, <2>1, <3>1
  <2> QED
    BY <2>2, <2>3
<1>13. CASE SysTick_Handler
  BY <1>4, <1>13 DEF SysTick_Handler, control, InHand
<1>14. CASE handleWake
  <2>1. /\ accepted'[b] = <<>> /\ decoded'[b] = <<>> /\ receiveQueue'[b] = <<>>
        /\ InHand(b)' = <<>>
    BY <1>14 DEF handleWake, InHand
  <2> QED
    BY <2>1, ConcatEmptySeq, EmptySeq
<1> QED
  BY <1>5, <1>6, <1>7, <1>8, <1>9, <1>10, <1>11, <1>12, <1>13, <1>14 DEF Next, LoopStep

-----------------------------------------------------------------------------
(* What is written: types and order.                                        *)

\* Only these steps touch what is written.
LEMMA OutboundFrame ==
  ASSUME [Next]_vars
  PROVE  \/ UNCHANGED outbound
         \/ initializeCan \/ processCanWriteQueue
         \/ \E b \in Bus : enqueueCanMessage(b) /\ written' = written
         \/ handleWake
<1>1. CASE UNCHANGED vars
  BY <1>1 DEF vars, outbound
<1>2. ASSUME LoopStep, ~initializeCan, ~processCanWriteQueue, ~customLoopHandler
      PROVE  UNCHANGED outbound
  BY <1>2 DEF LoopStep, ReceiveNothing, ReceiveMessage, Decode, HostsRead,
              updateDataLights, enterLowPowerMode, handleControlRequest,
              processListenerQueues
<1>3. ASSUME NEW b \in Bus, CAN_IRQHandler(b)
      PROVE  UNCHANGED outbound
  BY <1>3 DEF CAN_IRQHandler
<1>4. CASE SysTick_Handler
  BY <1>4 DEF SysTick_Handler
<1>5. ASSUME NEW b \in Bus, HostWrites(b)
      PROVE  enqueueCanMessage(b) /\ written' = written
  BY <1>5 DEF HostWrites
<1>6. CASE customLoopHandler
  BY <1>6 DEF customLoopHandler, outbound
<1> QED
  BY <1>1, <1>2, <1>3, <1>4, <1>5, <1>6 DEF Next

\* What a write of the controller's turn does to the queue of its bus.
LEMMA WriteTakesHead ==
  ASSUME OutboundTypes, bus \in Bus, processCanWriteQueue
  PROVE  \/ UNCHANGED outbound
         \/ LET q == sendQueue[bus]
            IN  /\ q \in Seq(Nat) /\ q # <<>> /\ Len(q) <= QueueCapacity
                /\ sendQueue' = [sendQueue EXCEPT ![bus] = Tail(q)]
                /\ written' = [written EXCEPT ![bus] = Append(written[bus], Head(q))]
                /\ asked' = asked
  BY DEF processCanWriteQueue, OutboundTypes, IsQueue, IsLog, outbound

\* The send queues, and what was asked for and written, keep their types.
LEMMA OutboundTypeStep ==
  ASSUME TypeOK, [Next]_vars
  PROVE  OutboundTypes'
<1>1. /\ IsQueue(sendQueue) /\ IsLog(asked) /\ IsLog(written) /\ OutboundTypes
      /\ bus \in Bus /\ requests \in Nat
  BY TypeParts, GatewayFacts DEF OutboundTypes, ControlTypes, CountTypes
<1>2. CASE UNCHANGED outbound
  BY <1>1, <1>2 DEF outbound, OutboundTypes
<1>3. CASE initializeCan
  <2>1. /\ sendQueue' = [sendQueue EXCEPT ![bus] = <<>>]
        /\ asked' = [asked EXCEPT ![bus] = written[bus]]
        /\ written' = written
    BY <1>3 DEF initializeCan, initializeCanCommon
  <2>2. <<>> \in Seq(Nat) /\ Len(<<>>) <= QueueCapacity /\ written[bus] \in Seq(Nat)
    BY <1>1, GatewayFacts DEF IsLog
  <2> QED
    BY <1>1, <2>1, <2>2, ReplaceQueue, ReplaceLog DEF OutboundTypes
<1>4. CASE processCanWriteQueue
  <2> DEFINE q == sendQueue[bus]
  <2>1. CASE UNCHANGED outbound
    BY <1>2, <2>1
  <2>2. CASE ~UNCHANGED outbound
    <3>1. /\ q \in Seq(Nat) /\ q # <<>> /\ Len(q) <= QueueCapacity
          /\ sendQueue' = [sendQueue EXCEPT ![bus] = Tail(q)]
          /\ written' = [written EXCEPT ![bus] = Append(written[bus], Head(q))]
          /\ asked' = asked
      BY <1>1, <1>4, <2>2, WriteTakesHead
    <3> HIDE DEF q
    <3>2. /\ Tail(q) \in Seq(Nat) /\ Len(Tail(q)) <= QueueCapacity
          /\ Append(written[bus], Head(q)) \in Seq(Nat)
      <4>1. /\ Tail(q) \in Seq(Nat) /\ Len(Tail(q)) = Len(q) - 1 /\ Head(q) \in Nat
        BY <3>1, HeadThenTail
      <4>2. written[bus] \in Seq(Nat)
        BY <1>1 DEF IsLog
      <4> QED
        BY <3>1, <4>1, <4>2, GatewayFacts, LenProperties
    <3> QED
      BY <1>1, <3>1, <3>2, ReplaceQueue, ReplaceLog DEF OutboundTypes
  <2> QED
    BY <2>1, <2>2
<1>5. ASSUME NEW b \in Bus, enqueueCanMessage(b), written' = written
      PROVE  OutboundTypes'
  <2>1. CASE HasRoom(sendQueue[b])
    <3>1. /\ sendQueue' = [sendQueue EXCEPT ![b] = Append(sendQueue[b], requests)]
          /\ asked' = [asked EXCEPT ![b] = Append(asked[b], requests)]
          /\ written' = written
      BY <1>5, <2>1 DEF enqueueCanMessage
    <3>2. /\ Append(sendQueue[b], requests) \in Seq(Nat)
          /\ Len(Append(sendQueue[b], requests)) <= QueueCapacity
          /\ Append(asked[b], requests) \in Seq(Nat)
      BY <1>1, <2>1, GatewayFacts, AppendWithRoom DEF IsQueue, IsLog, HasRoom
    <3> QED
      BY <1>1, <3>1, <3>2, ReplaceQueue, ReplaceLog DEF OutboundTypes
  <2>2. CASE ~HasRoom(sendQueue[b])
    BY <1>1, <1>5, <2>2 DEF enqueueCanMessage, OutboundTypes
  <2> QED
    BY <2>1, <2>2
<1>6. CASE handleWake
  BY <1>6, WakeTypes
<1> QED
  BY <1>2, <1>3, <1>4, <1>5, <1>6, OutboundFrame

\* Every write that found room goes to the controller once and in its turn.
LEMMA WrittenStep ==
  ASSUME TypeOK, WrittenOnceInOrder, [Next]_vars
  PROVE  WrittenOnceInOrder'
<1> SUFFICES ASSUME NEW b \in Bus
             PROVE  asked'[b] = written'[b] \o sendQueue'[b]
  BY DEF WrittenOnceInOrder
<1>1. /\ IsLog(sendQueue) /\ IsLog(asked) /\ IsLog(written) /\ OutboundTypes
      /\ bus \in Bus /\ requests \in Nat
  BY TypeParts, GatewayFacts DEF OutboundTypes, ControlTypes, CountTypes, IsQueue
<1>2. /\ sendQueue[b] \in Seq(Nat) /\ asked[b] \in Seq(Nat) /\ written[b] \in Seq(Nat)
      /\ asked[b] = written[b] \o sendQueue[b]
  BY <1>1 DEF IsLog, WrittenOnceInOrder
<1>3. CASE UNCHANGED outbound
  BY <1>2, <1>3 DEF outbound
<1>4. CASE initializeCan
  <2>1. CASE b = bus
    <3>1. asked'[b] = written[b] /\ written'[b] = written[b] /\ sendQueue'[b] = <<>>
      BY <1>1, <1>4, <2>1 DEF initializeCan, initializeCanCommon, IsLog
    <3> QED
      BY <1>2, <3>1, ConcatEmptySeq
  <2>2. CASE b # bus
    BY <1>1, <1>2, <1>4, <2>2 DEF initializeCan, initializeCanCommon, IsLog
  <2> QED
    BY <2>1, <2>2
<1>5. CASE processCanWriteQueue
  <2>1. CASE UNCHANGED outbound
    BY <1>3, <2>1
  <2>2. CASE ~UNCHANGED outbound
    <3> DEFINE q == sendQueue[bus]
    <3>1. /\ q \in Seq(Nat) /\ q # <<>>
          /\ sendQueue' = [sendQueue EXCEPT ![bus] = Tail(q)]
          /\ written' = [written EXCEPT ![bus] = Append(written[bus], Head(q))]
          /\ asked' = asked
      BY <1>1, <1>5, <2>2, WriteTakesHead
    <3>2. CASE b = bus
      <4>1. /\ sendQueue'[b] = Tail(sendQueue[b])
            /\ written'[b] = Append(written[b], Head(sendQueue[b]))
        BY <1>1, <3>1, <3>2 DEF IsLog
      <4>2. written[b] \o sendQueue[b]
              = Append(written[b], Head(sendQueue[b])) \o Tail(sendQueue[b])
        BY <1>2, <3>1, <3>2, MoveHead
      <4> QED
        BY <1>2, <3>1, <4>1, <4>2
    <3>3. CASE b # bus
      BY <1>1, <1>2, <3>1, <3>3 DEF IsLog
    <3> QED
      BY <3>2, <3>3
  <2> QED
    BY <2>1, <2>2
<1>6. ASSUME NEW c \in Bus, enqueueCanMessage(c), written' = written
      PROVE  asked'[b] = written'[b] \o sendQueue'[b]
  <2>1. CASE HasRoom(sendQueue[c]) /\ b = c
    <3>1. /\ sendQueue'[b] = Append(sendQueue[b], requests)
          /\ asked'[b] = Append(asked[b], requests)
          /\ written'[b] = written[b]
      BY <1>1, <1>6, <2>1 DEF enqueueCanMessage, IsLog
    <3>2. written[b] \o Append(sendQueue[b], requests)
            = Append(written[b] \o sendQueue[b], requests)
      <4> DEFINE front == written[b]
                 back  == sendQueue[b]
      <4>1. front \in Seq(Nat) /\ back \in Seq(Nat) /\ requests \in Nat
        BY <1>1, <1>2
      <4> HIDE DEF front, back
      <4>2. front \o Append(back, requests) = Append(front \o back, requests)
        BY <4>1, AppendRight
      <4> QED
        BY <4>2 DEF front, back
    <3> QED
      BY <1>2, <3>1, <3>2
  <2>2. CASE ~(HasRoom(sendQueue[c]) /\ b = c)
    <3>1. /\ sendQueue'[b] = sendQueue[b] /\ asked'[b] = asked[b]
          /\ written'[b] = written[b]
      BY <1>1, <1>6, <2>2 DEF enqueueCanMessage, IsLog
    <3> QED
      BY <1>2, <3>1
  <2> QED
    BY <2>1, <2>2
<1>7. CASE handleWake
  <2>1. asked'[b] = <<>> /\ written'[b] = <<>> /\ sendQueue'[b] = <<>>
    BY <1>7 DEF handleWake
  <2> QED
    BY <2>1, ConcatEmptySeq, EmptySeq
<1> QED
  BY <1>3, <1>4, <1>5, <1>6, <1>7, OutboundFrame

-----------------------------------------------------------------------------
(* The loop: its control, the served buses, and the clock.                  *)

\* The steps of the loop keep its control and its types.
LEMMA ControlStep ==
  ASSUME TypeOK, LoopInv, [Next]_vars
  PROVE  ControlTypes' /\ LoopInv'
<1>1. ControlTypes /\ bus \in Bus /\ IsQueue(receiveQueue)
  BY TypeParts DEF ControlTypes, InboundTypes
<1>2. CASE UNCHANGED vars
  BY <1>1, <1>2 DEF vars, ControlTypes, LoopInv
<1>3. CASE initializeCan
  BY <1>1, <1>3, NextBusType DEF initializeCan, At, LoopInv, ControlTypes, Label
<1>4. CASE ReceiveNothing
  BY <1>1, <1>4, NextBusType DEF ReceiveNothing, At, LoopInv, ControlTypes, Label
<1>5. CASE ReceiveMessage
  <2>1. receiveQueue[bus] \in Seq(Nat) /\ receiveQueue[bus] # <<>>
    BY <1>1, <1>5 DEF ReceiveMessage, IsQueue, IsLog
  <2>2. Head(receiveQueue[bus]) \in Nat
    BY <2>1, HeadThenTail
  <2>3. message' \in Seq(Nat) /\ Len(message') <= 1
    BY <1>5, <2>2 DEF ReceiveMessage
  <2> QED
    BY <1>1, <1>5, <2>3 DEF ReceiveMessage, At, LoopInv, ControlTypes, Label
<1>6. CASE Decode
  <2>1. message' = <<>> /\ NextBus("receive", "hosts")
    BY <1>6 DEF Decode
  <2> QED
    BY <1>1, <2>1, NextBusType DEF LoopInv, ControlTypes, Label
<1>7. CASE HostsRead
  BY <1>1, <1>7 DEF HostsRead, At, LoopInv, ControlTypes, Label
<1>8. CASE processCanWriteQueue
  <2>1. /\ pc = "write" /\ message' = message
        /\ NextBus("write", "custom") \/ UNCHANGED <<pc, bus>>
    BY <1>8 DEF processCanWriteQueue, At
  <2> QED
    BY <1>1, <2>1, NextBusType DEF LoopInv, ControlTypes, Label
<1>9. CASE updateDataLights
  <2>1. pc = "lights" /\ pc' \in {"sleep", "listeners"} /\ UNCHANGED <<bus, message>>
    BY <1>9 DEF updateDataLights, At
  <2> QED
    BY <1>1, <2>1 DEF LoopInv, ControlTypes, Label
<1>10. CASE enterLowPowerMode
  BY <1>1, <1>10 DEF enterLowPowerMode, At, LoopInv, ControlTypes, Label
<1>11. CASE handleControlRequest
  BY <1>1, <1>11 DEF handleControlRequest, reset, At, LoopInv, ControlTypes, Label
<1>12. CASE processListenerQueues
  BY <1>1, <1>12 DEF processListenerQueues, At, LoopInv, ControlTypes, Label
<1>13. ASSUME UNCHANGED control
       PROVE  ControlTypes' /\ LoopInv'
  BY <1>1, <1>13 DEF control, LoopInv, ControlTypes
<1>14. ASSUME NEW b \in Bus, HostWrites(b) \/ CAN_IRQHandler(b)
       PROVE  ControlTypes' /\ LoopInv'
  BY <1>13, <1>14 DEF HostWrites, CAN_IRQHandler
<1>15. CASE SysTick_Handler
  BY <1>13, <1>15 DEF SysTick_Handler
<1>16. CASE handleWake
  <2>1. ControlTypes'
    BY <1>16, WakeTypes
  <2>2. pc' = "initialize" /\ message' = <<>>
    BY <1>16 DEF handleWake
  <2> QED
    BY <2>1, <2>2 DEF LoopInv
<1>17. CASE customLoopHandler
  <2>1. pc = "custom" /\ pc' = "lights" /\ UNCHANGED <<bus, message>>
    BY <1>17 DEF customLoopHandler, At
  <2> QED
    BY <1>1, <2>1 DEF LoopInv, ControlTypes, Label
<1> QED
  BY <1>2, <1>3, <1>4, <1>5, <1>6, <1>7, <1>8, <1>9, <1>10, <1>11, <1>12, <1>14,
     <1>15, <1>16, <1>17 DEF Next, LoopStep

\* The mode of the unit and the counts of the inputs keep their types.
LEMMA ModeCountStep ==
  ASSUME TypeOK, [Next]_vars
  PROVE  ModeTypes' /\ CountTypes'
<1>1. ModeTypes /\ CountTypes /\ bus \in Bus
  BY TypeParts DEF ControlTypes
<1>2. CASE initializeCan
  <2>1. receiving' \in [Bus -> BOOLEAN]
    BY <1>1, <1>2 DEF initializeCan, ModeTypes
  <2>2. ticked' \in BOOLEAN
    BY <1>1, <1>2 DEF initializeCan, BeginPass, ModeTypes
  <2> QED
    BY <1>1, <1>2, <2>1, <2>2 DEF initializeCan, ModeTypes, CountTypes, counts
<1>3. CASE updateDataLights
  <2>1. busWasActive' \in BOOLEAN
    BY <1>3 DEF updateDataLights, WasActive, BusActive
  <2> QED
    BY <1>1, <1>3, <2>1 DEF updateDataLights, ModeTypes, CountTypes, counts
<1>4. CASE enterLowPowerMode
  BY <1>1, <1>4 DEF enterLowPowerMode, ModeTypes, CountTypes, counts
<1>5. CASE handleControlRequest
  BY <1>1, <1>5, GatewayFacts DEF handleControlRequest, reset, mode, ModeTypes, CountTypes
<1>6. CASE processListenerQueues
  BY <1>1, <1>6 DEF processListenerQueues, BeginPass, mode, ModeTypes, CountTypes, counts
<1>7. ASSUME UNCHANGED <<mode, ticked, counts>>
      PROVE  ModeTypes' /\ CountTypes'
  BY <1>1, <1>7 DEF mode, counts, ModeTypes, CountTypes
<1>8. CASE \/ ReceiveNothing \/ ReceiveMessage \/ Decode
           \/ HostsRead \/ processCanWriteQueue
  BY <1>7, <1>8 DEF ReceiveNothing, ReceiveMessage, Decode, HostsRead,
                    processCanWriteQueue
<1>9. ASSUME NEW b \in Bus, HostWrites(b)
      PROVE  ModeTypes' /\ CountTypes'
  BY <1>1, <1>9, GatewayFacts DEF HostWrites, enqueueCanMessage, mode, ModeTypes, CountTypes
<1>10. ASSUME NEW b \in Bus, CAN_IRQHandler(b)
       PROVE  ModeTypes' /\ CountTypes'
  BY <1>1, <1>10, GatewayFacts DEF CAN_IRQHandler, mode, ModeTypes, CountTypes
<1>11. CASE SysTick_Handler
  BY <1>1, <1>11 DEF SysTick_Handler, mode, ModeTypes, CountTypes, counts
<1>12. CASE handleWake
  BY <1>12, WakeTypes
<1>13. CASE UNCHANGED vars
  BY <1>7, <1>13 DEF vars, mode, counts
<1>14. CASE customLoopHandler
  BY <1>1, <1>14, GatewayFacts DEF customLoopHandler, enqueueCanMessage, mode, ModeTypes,
                                   CountTypes
<1> QED
  BY <1>2, <1>3, <1>4, <1>5, <1>6, <1>8, <1>9, <1>10, <1>11, <1>12, <1>13, <1>14
     DEF Next, LoopStep
\* Only these steps touch how long a bus was quiet.
LEMMA QuietFrame ==
  ASSUME [Next]_vars
  PROVE  \/ UNCHANGED <<sinceLast, quiet>>
         \/ initializeCan \/ Decode \/ SysTick_Handler \/ handleWake
<1>1. CASE UNCHANGED vars
  BY <1>1 DEF vars
<1>2. ASSUME LoopStep, ~initializeCan, ~Decode
      PROVE  UNCHANGED <<sinceLast, quiet>>
  BY <1>2 DEF LoopStep, ReceiveNothing, ReceiveMessage, HostsRead, processCanWriteQueue,
              customLoopHandler, updateDataLights, enterLowPowerMode,
              handleControlRequest, processListenerQueues, activity
<1>3. ASSUME NEW b \in Bus, HostWrites(b) \/ CAN_IRQHandler(b)
      PROVE  UNCHANGED <<sinceLast, quiet>>
  BY <1>3 DEF HostWrites, CAN_IRQHandler, activity
<1> QED
  BY <1>1, <1>2, <1>3 DEF Next

\* A step that makes a bus active sets its clock distance and its quiet time together.
LEMMA ResetDistance ==
  ASSUME ActivityTypes, bus \in Bus, initializeCan \/ Decode
  PROVE  /\ sinceLast' = [sinceLast EXCEPT ![bus] = 0]
         /\ quiet' = [quiet EXCEPT ![bus] = 0]
         /\ waiting' \in [Bus -> BOOLEAN]
<1>1. CASE initializeCan
  BY <1>1 DEF initializeCan, initializeCanCommon, BeginPass, ActivityTypes
<1>2. CASE Decode
  BY <1>2 DEF Decode, ActivityTypes
<1> QED
  BY <1>1, <1>2

\* The clock and the served buses keep their types.
LEMMA ActivityTypeStep ==
  ASSUME TypeOK, [Next]_vars
  PROVE  ActivityTypes'
<1>1. ActivityTypes /\ bus \in Bus
  BY TypeParts DEF ControlTypes
<1>2. /\ sinceLast \in [Bus -> 0 .. ClockSize - 1] /\ quiet \in [Bus -> 0 .. Timeout]
      /\ waiting \in [Bus -> BOOLEAN]
  BY <1>1 DEF ActivityTypes
<1>3. CASE initializeCan \/ Decode
  <2>1. 0 \in 0 .. ClockSize - 1 /\ 0 \in 0 .. Timeout
    BY GatewayFacts
  <2> QED
    BY <1>1, <1>2, <1>3, <2>1, ResetDistance DEF ActivityTypes
<1>4. CASE SysTick_Handler
  <2>1. sinceLast' = [b \in Bus |-> (sinceLast[b] + 1) % ClockSize]
    BY <1>4 DEF SysTick_Handler
  <2>2. sinceLast' \in [Bus -> 0 .. ClockSize - 1]
    BY <1>2, <2>1, TickDistance
  <2>3. quiet' = [b \in Bus |-> IF quiet[b] < Timeout THEN quiet[b] + 1 ELSE Timeout]
    BY <1>4 DEF SysTick_Handler
  <2>4. quiet' \in [Bus -> 0 .. Timeout]
    BY <1>2, <2>3, GatewayFacts
  <2>5. waiting' = waiting
    BY <1>4 DEF SysTick_Handler
  <2> QED
    BY <1>2, <2>2, <2>4, <2>5 DEF ActivityTypes
<1>5. CASE handleWake
  BY <1>5, WakeTypes
<1>6. CASE processListenerQueues
  BY <1>2, <1>6 DEF processListenerQueues, BeginPass, ActivityTypes
<1>7. ASSUME UNCHANGED activity
      PROVE  ActivityTypes'
  BY <1>1, <1>7 DEF activity, ActivityTypes
<1>8. CASE \/ ReceiveNothing \/ ReceiveMessage \/ HostsRead \/ processCanWriteQueue
           \/ customLoopHandler \/ updateDataLights \/ enterLowPowerMode
  BY <1>7, <1>8 DEF ReceiveNothing, ReceiveMessage, HostsRead, processCanWriteQueue,
                    customLoopHandler, updateDataLights, enterLowPowerMode
<1>9. CASE handleControlRequest
  BY <1>7, <1>9 DEF handleControlRequest, reset, activity
<1>10. ASSUME NEW b \in Bus, HostWrites(b) \/ CAN_IRQHandler(b)
       PROVE  ActivityTypes'
  BY <1>7, <1>10 DEF HostWrites, CAN_IRQHandler
<1>11. CASE UNCHANGED vars
  BY <1>7, <1>11 DEF vars, activity
<1> QED
  BY <1>3, <1>4, <1>5, <1>6, <1>8, <1>9, <1>10, <1>11 DEF Next, LoopStep

\* Until a bus was quiet for the timeout the program's clock distance says exactly how
\* long it was, so a unit goes to sleep only after the timeout; nothing is decoded
\* between the decision and the sleep.
LEMMA QuietStep ==
  ASSUME TypeOK, QuietInv, [Next]_vars
  PROVE  QuietInv'
<1>1. ActivityTypes /\ bus \in Bus
  BY TypeParts DEF ControlTypes
<1>2. /\ sinceLast \in [Bus -> 0 .. ClockSize - 1] /\ quiet \in [Bus -> 0 .. Timeout]
  BY <1>1 DEF ActivityTypes
<1>3. ASSUME NEW b \in Bus, quiet'[b] < Timeout
      PROVE  sinceLast'[b] = quiet'[b]
  <2>1. CASE UNCHANGED <<sinceLast, quiet>>
    BY <1>3, <2>1 DEF QuietInv
  <2>2. CASE initializeCan \/ Decode
    BY <1>1, <1>2, <1>3, <2>2, ResetDistance DEF QuietInv
  <2>3. CASE SysTick_Handler
    <3>1. /\ sinceLast'[b] = (sinceLast[b] + 1) % ClockSize
          /\ quiet'[b] = IF quiet[b] < Timeout THEN quiet[b] + 1 ELSE Timeout
      BY <2>3 DEF SysTick_Handler
    <3>2. quiet[b] < Timeout /\ quiet'[b] = quiet[b] + 1
      BY <1>2, <1>3, <3>1, GatewayFacts
    <3>3. sinceLast[b] = quiet[b]
      BY <3>2 DEF QuietInv
    <3>4. sinceLast[b] \in 0 .. ClockSize - 1 /\ sinceLast[b] + 1 < ClockSize
      BY <1>2, <3>2, <3>3, GatewayFacts
    <3> QED
      BY <3>1, <3>2, <3>3, <3>4, TickDistance
  <2>4. CASE handleWake
    BY <2>4 DEF handleWake
  <2> QED
    BY <2>1, <2>2, <2>3, <2>4, QuietFrame
<1>4. ASSUME pc' = "sleep", NEW b \in Bus
      PROVE  quiet'[b] = Timeout
  <2>1. CASE updateDataLights
    <3>1. ~BusActive /\ quiet' = quiet
      BY <1>4, <2>1 DEF updateDataLights, activity
    <3>2. ~(sinceLast[b] < Timeout)
      BY <3>1 DEF BusActive, canBusActive
    <3>3. ~(quiet[b] < Timeout)
      BY <3>2 DEF QuietInv
    <3> QED
      BY <1>2, <3>1, <3>3, GatewayFacts
  <2>2. CASE ~updateDataLights
    <3>1. /\ ~initializeCan /\ ~ReceiveNothing /\ ~ReceiveMessage /\ ~Decode
          /\ ~HostsRead /\ ~processCanWriteQueue /\ ~customLoopHandler
      BY <1>4 DEF initializeCan, ReceiveNothing, ReceiveMessage, Decode, HostsRead,
                  processCanWriteQueue, customLoopHandler, NextBus, At
    <3>2. /\ ~enterLowPowerMode /\ ~handleControlRequest /\ ~processListenerQueues
          /\ ~handleWake
      BY <1>4 DEF enterLowPowerMode, handleControlRequest, reset,
                  processListenerQueues, handleWake
    <3>3. pc = "sleep"
      BY <1>4, <2>2, <3>1, <3>2 DEF Next, LoopStep, vars, HostWrites,
                                    CAN_IRQHandler, SysTick_Handler, control
    <3>4. quiet[b] = Timeout
      BY <3>3 DEF QuietInv
    <3>5. quiet'[b] = quiet[b] \/ SysTick_Handler
      BY <2>2, <3>1, <3>2, QuietFrame
    <3>6. ASSUME SysTick_Handler
          PROVE  quiet'[b] = Timeout
      <4>1. quiet'[b] = IF quiet[b] < Timeout THEN quiet[b] + 1 ELSE Timeout
        BY <3>6 DEF SysTick_Handler
      <4> QED
        BY <3>4, <4>1, GatewayFacts
    <3> QED
      BY <3>4, <3>5, <3>6
  <2> QED
    BY <2>1, <2>2
<1> QED
  BY <1>3, <1>4 DEF QuietInv
\* A step that moves the loop on from the bus it has just served.
LEMMA ServedBus ==
  ASSUME bus \in Bus, NextBus("receive", "hosts"),
         \A b \in Bus : b <= bus => ~waiting'[b],
         \A b \in Bus : b > bus /\ waiting'[b] => receiveQueue'[b] # <<>>
  PROVE  PassInv'
<1>1. \A b \in Bus : b \in Int /\ b <= BusCount
  BY GatewayFacts DEF Bus
<1>2. CASE pc' = "hosts" /\ bus = BusCount
  BY <1>1, <1>2 DEF PassInv
<1>3. CASE pc' = "receive" /\ bus' = bus + 1
  BY <1>1, <1>3 DEF PassInv, Ahead
<1> QED
  BY <1>2, <1>3, NextBusType

\* The loop of a pass serves the buses one after the other: one it comes to with an
\* empty queue was not waiting, and one it decodes waits no longer.
LEMMA PassStep ==
  ASSUME TypeOK, LoopInv, PassInv, [Next]_vars
  PROVE  PassInv'
<1>1. /\ bus \in Bus /\ IsLog(receiveQueue) /\ arrivals \in Nat
      /\ waiting \in [Bus -> BOOLEAN]
  BY TypeParts, GatewayFacts
     DEF ControlTypes, InboundTypes, ActivityTypes, CountTypes, IsQueue
<1>2. \A b \in Bus : b \in Int
  BY GatewayFacts DEF Bus
<1>3. CASE initializeCan
  <2>1. CASE pc' = "initialize"
    BY <2>1 DEF PassInv
  <2>2. CASE pc' # "initialize"
    <3>1. /\ pc' = "receive" /\ bus' = 1
          /\ waiting' = [b \in Bus |-> receiveQueue'[b] # <<>>]
      BY <1>3, <2>2 DEF initializeCan, NextBus, BeginPass
    <3>2. \A b \in Bus : ~(b < 1)
      BY GatewayFacts DEF Bus
    <3> QED
      BY <3>1, <3>2 DEF PassInv, Ahead
  <2> QED
    BY <2>1, <2>2
<1>4. CASE ReceiveNothing
  <2>1. /\ pc = "receive" /\ receiveQueue[bus] = <<>> /\ NextBus("receive", "hosts")
        /\ UNCHANGED <<receiveQueue, waiting>>
    BY <1>4 DEF ReceiveNothing, At, inbound, activity
  <2>2. ~waiting[bus]
    BY <1>1, <1>2, <2>1 DEF PassInv, Ahead
  <2>3. \A b \in Bus : b <= bus => ~waiting'[b]
    BY <1>1, <1>2, <2>1, <2>2 DEF PassInv
  <2>4. \A b \in Bus : b > bus /\ waiting'[b] => receiveQueue'[b] # <<>>
    BY <1>1, <1>2, <2>1 DEF PassInv, Ahead
  <2> QED
    BY <1>1, <2>1, <2>3, <2>4, ServedBus
<1>5. CASE ReceiveMessage
  <2>1. /\ pc = "receive" /\ pc' = "decode" /\ bus' = bus /\ waiting' = waiting
        /\ \A b \in Bus : b # bus => receiveQueue'[b] = receiveQueue[b]
    BY <1>1, <1>5 DEF ReceiveMessage, At, activity, Pop, IsLog
  <2> QED
    BY <1>1, <1>2, <2>1 DEF PassInv, Ahead
<1>6. CASE Decode
  <2>1. /\ pc = "decode" /\ NextBus("receive", "hosts") /\ receiveQueue' = receiveQueue
        /\ waiting' = [waiting EXCEPT ![bus] = FALSE]
    BY <1>6 DEF Decode, At
  <2>2. \A b \in Bus : b <= bus => ~waiting'[b]
    BY <1>1, <1>2, <2>1 DEF PassInv
  <2>3. \A b \in Bus : b > bus /\ waiting'[b] => receiveQueue'[b] # <<>>
    BY <1>1, <1>2, <2>1 DEF PassInv, Ahead
  <2> QED
    BY <1>1, <2>1, <2>2, <2>3, ServedBus
<1>7. CASE \/ HostsRead \/ processCanWriteQueue \/ customLoopHandler
           \/ updateDataLights \/ enterLowPowerMode
  <2>1. /\ pc \in {"hosts", "write", "custom", "lights", "sleep"}
        /\ pc' \in {"write", "custom", "lights", "sleep", "listeners"}
        /\ waiting' = waiting
    BY <1>7 DEF HostsRead, processCanWriteQueue, customLoopHandler, updateDataLights,
                enterLowPowerMode, NextBus, At, activity
  <2> QED
    BY <2>1 DEF PassInv
<1>8. CASE handleControlRequest
  BY <1>8 DEF handleControlRequest, reset, PassInv
<1>9. CASE processListenerQueues
  <2>1. /\ pc' = "receive" /\ bus' = 1
        /\ waiting' = [b \in Bus |-> receiveQueue'[b] # <<>>]
    BY <1>9 DEF processListenerQueues, At, LoopInv, BeginPass
  <2>2. \A b \in Bus : ~(b < 1)
    BY GatewayFacts DEF Bus
  <2> QED
    BY <2>1, <2>2 DEF PassInv, Ahead
<1>10. ASSUME UNCHANGED <<pc, bus, waiting>>,
              \A b \in Bus : receiveQueue[b] # <<>> => receiveQueue'[b] # <<>>
       PROVE  PassInv'
  BY <1>10 DEF PassInv, Ahead
<1>11. ASSUME NEW c \in Bus, HostWrites(c)
       PROVE  PassInv'
  BY <1>10, <1>11 DEF HostWrites, inbound, activity, control
<1>12. ASSUME NEW c \in Bus, CAN_IRQHandler(c)
       PROVE  PassInv'
  <2>1. UNCHANGED <<pc, bus, waiting>>
    BY <1>12 DEF CAN_IRQHandler, activity, control
  <2>2. ASSUME NEW b \in Bus, receiveQueue[b] # <<>>
        PROVE  receiveQueue'[b] # <<>>
    <3>1. CASE b = c /\ HasRoom(receiveQueue[c])
      <4>1. receiveQueue'[b] = Append(receiveQueue[b], arrivals)
        BY <1>1, <1>12, <3>1 DEF CAN_IRQHandler, IsLog
      <4>2. Len(receiveQueue'[b]) = Len(receiveQueue[b]) + 1 /\ Len(receiveQueue[b]) \in Nat
        BY <1>1, <4>1 DEF IsLog
      <4> QED
        BY <4>2, EmptySeq
    <3>2. CASE ~(b = c /\ HasRoom(receiveQueue[c]))
      BY <1>1, <1>12, <2>2, <3>2 DEF CAN_IRQHandler, IsLog
    <3> QED
      BY <3>1, <3>2
  <2> QED
    BY <1>10, <2>1, <2>2
<1>13. CASE SysTick_Handler
  BY <1>10, <1>13 DEF SysTick_Handler, inbound, control
<1>14. CASE handleWake
  BY <1>14 DEF handleWake, PassInv
<1>15. CASE UNCHANGED vars
  BY <1>10, <1>15 DEF vars
<1> QED
  BY <1>3, <1>4, <1>5, <1>6, <1>7, <1>8, <1>9, <1>11, <1>12, <1>13, <1>14, <1>15
     DEF Next, LoopStep

-----------------------------------------------------------------------------
(* The theorems.                                                            *)

\* Power up establishes the inductive invariant.
LEMMA GatewayInit == Init => GatewayInv
<1> SUFFICES ASSUME Init
             PROVE  GatewayInv
  OBVIOUS
<1>1. LoopInv /\ PassInv /\ QuietInv
  BY DEF Init, LoopInv, PassInv, QuietInv
<1>2. DecodedOnceInOrder
  <2>1. \A b \in Bus : /\ accepted[b] = <<>> /\ decoded[b] = <<>>
                      /\ InHand(b) = <<>> /\ receiveQueue[b] = <<>>
    BY DEF Init, InHand
  <2> QED
    BY <2>1, ConcatEmptySeq, EmptySeq DEF DecodedOnceInOrder
<1>3. WrittenOnceInOrder
  <2>1. \A b \in Bus : asked[b] = <<>> /\ written[b] = <<>> /\ sendQueue[b] = <<>>
    BY DEF Init
  <2> QED
    BY <2>1, ConcatEmptySeq, EmptySeq DEF WrittenOnceInOrder
<1> QED
  BY <1>1, <1>2, <1>3, GatewayTypeInit DEF GatewayInv

\* Every reachable state satisfies the inductive invariant.
THEOREM GatewayInvariant == Spec => []GatewayInv
<1>1. GatewayInv /\ [Next]_vars => GatewayInv'
  <2> SUFFICES ASSUME GatewayInv, [Next]_vars
               PROVE  GatewayInv'
    OBVIOUS
  <2>1. /\ InboundTypes' /\ OutboundTypes' /\ ActivityTypes' /\ ModeTypes'
        /\ ControlTypes' /\ CountTypes' /\ LoopInv'
    BY InboundTypeStep, OutboundTypeStep, ActivityTypeStep, ModeCountStep, ControlStep
       DEF GatewayInv
  <2>2. TypeOK'
    BY <2>1, TypeParts, PTL
  <2>3. PassInv' /\ QuietInv' /\ DecodedOnceInOrder' /\ WrittenOnceInOrder'
    BY PassStep, QuietStep, DecodedStep, WrittenStep DEF GatewayInv
  <2> QED
    BY <2>1, <2>2, <2>3 DEF GatewayInv
<1> QED
  BY <1>1, GatewayInit, PTL DEF Spec

\* The variables keep their types: no bus's queue outgrows its capacity.
THEOREM GatewayTypeCorrect == Spec => []TypeOK
  BY GatewayInvariant, PTL DEF GatewayInv

\* Each message that found room in its bus's queue is decoded once, in its turn.
THEOREM ReceivedInOrder == Spec => []DecodedOnceInOrder
  BY GatewayInvariant, PTL DEF GatewayInv

\* Each write that found room, a host's or customLoopHandler's, goes to the controller of
\* its bus once, in its turn, unless a reset comes first.
THEOREM SentInOrder == Spec => []WrittenOnceInOrder
  BY GatewayInvariant, PTL DEF GatewayInv

\* When a pass of the loop has come to the lights, every bus that had a message when
\* the pass began has had one decoded in it.
THEOREM PassServesBuses == Spec => []EachPassServesEachBus
<1>1. GatewayInv => EachPassServesEachBus
  BY DEF GatewayInv, PassInv, EachPassServesEachBus
<1> QED
  BY <1>1, GatewayInvariant, PTL

\* The unit goes to sleep only when no bus has had a message decoded for the timeout.
THEOREM SleepOnlyAfterTimeout == Spec => SleepsAfterTimeout
<1>1. GatewayInv /\ [Next]_vars =>
        [power' = "asleep" /\ power = "awake" => \A b \in Bus : quiet[b] = Timeout]_vars
  <2> SUFFICES ASSUME GatewayInv, Next, power' = "asleep", power = "awake"
               PROVE  \A b \in Bus : quiet[b] = Timeout
    OBVIOUS
  <2>1. enterLowPowerMode
    <3>1. ASSUME LoopStep, ~enterLowPowerMode
          PROVE  power' = power
      BY <3>1 DEF LoopStep, initializeCan, ReceiveNothing, ReceiveMessage, Decode,
                  HostsRead, processCanWriteQueue, customLoopHandler, updateDataLights,
                  handleControlRequest, processListenerQueues, mode
    <3>2. ASSUME NEW b \in Bus, HostWrites(b) \/ CAN_IRQHandler(b)
          PROVE  power' = power
      BY <3>2 DEF HostWrites, CAN_IRQHandler, mode
    <3>3. SysTick_Handler => power' = power
      BY DEF SysTick_Handler, mode
    <3>4. ~handleWake
      BY DEF handleWake
    <3> QED
      BY <3>1, <3>2, <3>3, <3>4 DEF Next
  <2> QED
    BY <2>1 DEF enterLowPowerMode, At, GatewayInv, QuietInv
<1> QED
  BY <1>1, GatewayInvariant, PTL DEF Spec, SleepsAfterTimeout
=============================================================================
