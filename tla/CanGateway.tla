------------------------------ MODULE CanGateway ------------------------------
(***************************************************************************)
(* The CAN side of the translator's main loop (src/src/cantranslator.cpp)  *)
(* on the LPC17xx: the interrupt that queues received messages, receiveCan *)
(* that decodes one message per bus in each pass of the loop, the writes   *)
(* that hosts ask for, the reset control request, and the sleep of a unit  *)
(* whose buses are quiet.                                                  *)
(*                                                                         *)
(* The CAN and timer interrupts run between any two steps of the loop.     *)
(* A bus counts as active if one of its messages was DECODED in the last   *)
(* Timeout ticks, not if one was received.  Of a bus's lastMessageReceived *)
(* only the distance to the clock is ever read: sinceLast, an unsigned     *)
(* number that wraps when the clock comes round.                           *)
(***************************************************************************)
EXTENDS Naturals, Sequences

CONSTANTS BusCount,       \* getCanBusCount()
          QueueCapacity,  \* of a bus's receive and send queues (16 in canutil.h)
          Timeout,        \* CAN_ACTIVE_TIMEOUT_S, in ticks of the clock
          ClockSize,      \* the clock counts modulo this (2^32 milliseconds): so
                          \* large that quiet buses do not look active by turns
          MaxArrivals,    \* bound on the messages received
          MaxRequests,    \* bound on the writes asked for
          MaxResets       \* bound on the reset requests

ASSUME GatewayAssumption == /\ BusCount \in Nat \ {0}
                            /\ QueueCapacity \in Nat
                            /\ Timeout \in Nat /\ ClockSize \in Nat
                            /\ 1 < Timeout /\ BusCount * (Timeout + 1) < ClockSize
                            /\ MaxArrivals \in Nat
                            /\ MaxRequests \in Nat
                            /\ MaxResets \in Nat

VARIABLES receiveQueue,         \* of each bus, written by the interrupt
          sendQueue,            \* of each bus
          sinceLast,            \* of each bus: systemTimeMs() - lastMessageReceived
          ticked,               \* the clock ticked in this pass of the loop
          busWasActive,         \* the static of updateDataLights
          power,                \* awake, or asleep in low power mode
          receiving,            \* of each bus: its controller raises the interrupt
          pc,                   \* where the loop is
          bus,                  \* the index of its for loops
          message,              \* the local of receiveCan: none or one message
          arrivals, requests, resets, \* history: how many there were
          accepted,             \* history: the messages the interrupt queued
          decoded,              \* history: the messages decoded
          asked,                \* history: the writes that were queued
          written,              \* history: the writes given to the CAN controller
          quiet,                \* history: ticks since a bus's last message, to Timeout
          waiting               \* history: a bus had a message when the pass began that
                                \* is not decoded yet

vars == <<receiveQueue, sendQueue, sinceLast, ticked, busWasActive, power, receiving,
          pc, bus, message, arrivals, requests, resets, accepted, decoded, asked,
          written, quiet, waiting>>

control  == <<pc, bus, message>>
counts   == <<arrivals, requests, resets>>
inbound  == <<receiveQueue, accepted, decoded>>
outbound == <<sendQueue, asked, written>>
activity == <<sinceLast, quiet, waiting>>
mode     == <<busWasActive, power, receiving>>

Bus == 1 .. BusCount

Label == {"initialize", "receive", "decode", "hosts", "write", "custom", "lights",
          "sleep", "listeners"}

-----------------------------------------------------------------------------
(* Power up: main() calls setup() before its first pass.                    *)

Init == /\ receiveQueue = [b \in Bus |-> <<>>]
        /\ sendQueue = [b \in Bus |-> <<>>]
        /\ sinceLast = [b \in Bus |-> 0]
        /\ ticked = FALSE
        /\ busWasActive = FALSE
        /\ power = "awake"
        /\ receiving = [b \in Bus |-> FALSE]
        /\ pc = "initialize" /\ bus = 1 /\ message = <<>>
        /\ arrivals = 0 /\ requests = 0 /\ resets = 0
        /\ accepted = [b \in Bus |-> <<>>]
        /\ decoded = [b \in Bus |-> <<>>]
        /\ asked = [b \in Bus |-> <<>>]
        /\ written = [b \in Bus |-> <<>>]
        /\ quiet = [b \in Bus |-> 0]
        /\ waiting = [b \in Bus |-> FALSE]

\* Mutant: one message too many fits.
HasRoomOffByOne(queue) == Len(queue) <= QueueCapacity

HasRoom(queue) == Len(queue) < QueueCapacity

At(label) == power = "awake" /\ pc = label

LastBus == bus = BusCount

\* Mutant: the loop that receives stops one bus short.
NextBusShort(label, after) ==
    LET last == LastBus \/ (label = "receive" /\ bus = BusCount - 1)
    IN  \/ last /\ pc' = after /\ bus' = 1
        \/ ~last /\ pc' = label /\ bus' = bus + 1

NextBus(label, after) == \/ LastBus /\ pc' = after /\ bus' = 1
                         \/ ~LastBus /\ pc' = label /\ bus' = bus + 1

\* The loop takes up its next pass.
BeginPass == /\ ticked' = FALSE
             /\ waiting' = [b \in Bus |-> receiveQueue'[b] # <<>>]

-----------------------------------------------------------------------------
(* initializeAllCan, at power up and in a reset: bus by bus, while the      *)
(* interrupt of those already initialized, in a reset of all, goes on.      *)

\* Mutant: the send queue is not emptied.
initializeCanCommonKept(b) == /\ receiveQueue' = [receiveQueue EXCEPT ![b] = <<>>]
                              /\ sinceLast' = [sinceLast EXCEPT ![b] = 0]
                              /\ quiet' = [quiet EXCEPT ![b] = 0]
                              /\ accepted' = [accepted EXCEPT ![b] = decoded[b]]
                              /\ asked' = [asked EXCEPT ![b] = written[b]]
                              /\ UNCHANGED sendQueue

initializeCanCommon(b) == /\ receiveQueue' = [receiveQueue EXCEPT ![b] = <<>>]
                          /\ sendQueue' = [sendQueue EXCEPT ![b] = <<>>]
                          /\ sinceLast' = [sinceLast EXCEPT ![b] = 0]
                          /\ quiet' = [quiet EXCEPT ![b] = 0]
                          /\ accepted' = [accepted EXCEPT ![b] = decoded[b]]
                          /\ asked' = [asked EXCEPT ![b] = written[b]]

\* Last, the controller's receive interrupt is switched on; a reset never switches it off.
initializeCan == /\ At("initialize")
                 /\ initializeCanCommon(bus)
                 /\ receiving' = [receiving EXCEPT ![bus] = TRUE]
                 /\ NextBus("initialize", "receive")
                 /\ IF LastBus THEN BeginPass ELSE UNCHANGED <<ticked, waiting>>
                 /\ UNCHANGED <<decoded, written, busWasActive, power, message, counts>>

-----------------------------------------------------------------------------
(* receiveCan, for each bus.                                                *)

ReceiveNothing == /\ At("receive")
                  /\ receiveQueue[bus] = <<>>
                  /\ NextBus("receive", "hosts")
                  /\ UNCHANGED <<inbound, outbound, activity, ticked, mode,
                                 message, counts>>

\* Mutant: the message is read but stays in the queue.
PeekOnly == UNCHANGED receiveQueue

Pop == receiveQueue' = [receiveQueue EXCEPT ![bus] = Tail(@)]

ReceiveMessage == /\ At("receive")
                  /\ receiveQueue[bus] # <<>>
                  /\ message' = <<Head(receiveQueue[bus])>>
                  /\ Pop
                  /\ pc' = "decode"
                  /\ UNCHANGED <<accepted, decoded, outbound, activity, ticked,
                                 mode, bus, counts>>

\* decodeCanMessage and the note that the bus is active.
Decode == /\ At("decode")
          /\ decoded' = [decoded EXCEPT ![bus] = @ \o message]
          /\ sinceLast' = [sinceLast EXCEPT ![bus] = 0]
          /\ quiet' = [quiet EXCEPT ![bus] = 0]
          /\ waiting' = [waiting EXCEPT ![bus] = FALSE]
          /\ message' = <<>>
          /\ NextBus("receive", "hosts")
          /\ UNCHANGED <<receiveQueue, accepted, outbound, ticked, mode,
                         counts>>

-----------------------------------------------------------------------------
(* The reads from the hosts, and the writes to CAN.                         *)

\* QUEUE_PUSH with no test of its result: a write that does not fit is lost.
enqueueCanMessage(b) ==
    /\ requests < MaxRequests
    /\ requests' = requests + 1
    /\ IF HasRoom(sendQueue[b])
       THEN /\ sendQueue' = [sendQueue EXCEPT ![b] = Append(@, requests)]
            /\ asked' = [asked EXCEPT ![b] = Append(@, requests)]
       ELSE UNCHANGED <<sendQueue, asked>>

HostWrites(b) == /\ At("hosts")
                 /\ enqueueCanMessage(b)
                 /\ UNCHANGED <<inbound, written, activity, ticked, mode, control,
                                arrivals, resets>>

HostsRead == /\ At("hosts")
             /\ pc' = "write"
             /\ UNCHANGED <<inbound, outbound, activity, ticked, mode, bus,
                            message, counts>>

\* A write the controller refuses is logged and not tried again.
processCanWriteQueue ==
    /\ At("write")
    /\ IF sendQueue[bus] = <<>>
       THEN NextBus("write", "custom") /\ UNCHANGED <<sendQueue, written>>
       ELSE /\ sendQueue' = [sendQueue EXCEPT ![bus] = Tail(@)]
            /\ written' = [written EXCEPT ![bus] = Append(@, Head(sendQueue[bus]))]
            /\ UNCHANGED <<pc, bus>>
    /\ UNCHANGED <<inbound, asked, activity, ticked, mode, message, counts>>

\* requestVIN writes too, when the queues have been sent for this pass, so its message
\* waits for the next one, or meets a reset or sleep before.  VinRequest says when it
\* writes; here it may in any pass.
customLoopHandler ==
    /\ At("custom")
    /\ \/ UNCHANGED <<sendQueue, asked, requests>>
       \/ \E b \in Bus : enqueueCanMessage(b)
    /\ pc' = "lights"
    /\ UNCHANGED <<inbound, written, activity, ticked, mode, bus, message, arrivals,
                   resets>>

-----------------------------------------------------------------------------
(* updateDataLights.                                                        *)

canBusActive(b) == sinceLast[b] < Timeout

\* Mutant: only the last bus counts.
LastBusActive == canBusActive(BusCount)

BusActive == \E b \in Bus : canBusActive(b)

\* Mutant: the unit does not note that it was active.
WasActiveNotNoted == busWasActive

WasActive == BusActive

updateDataLights == /\ At("lights")
                    /\ busWasActive' = WasActive
                    /\ pc' = IF busWasActive /\ ~BusActive THEN "sleep" ELSE "listeners"
                    /\ UNCHANGED <<inbound, outbound, activity, ticked, power, receiving,
                                   bus, message, counts>>

\* After a delay for the lights and Bluetooth.
enterLowPowerMode == /\ At("sleep")
                     /\ power' = "asleep"
                     /\ pc' = "listeners"
                     /\ UNCHANGED <<inbound, outbound, activity, ticked, busWasActive,
                                    receiving, bus, message, counts>>

-----------------------------------------------------------------------------
(* processListenerQueues runs the USB task, which may bring a control       *)
(* request.  A version request leaves all this alone.                       *)

reset == /\ resets < MaxResets
         /\ resets' = resets + 1
         /\ pc' = "initialize"
         /\ UNCHANGED <<arrivals, requests, ticked, waiting>>

handleControlRequest == /\ At("listeners")
                        /\ reset
                        /\ UNCHANGED <<inbound, outbound, sinceLast, quiet, mode, bus,
                                       message>>

processListenerQueues == /\ At("listeners")
                         /\ pc' = "receive"
                         /\ UNCHANGED <<inbound, outbound, sinceLast, quiet, counts, mode,
                                        bus, message>>
                         /\ BeginPass

-----------------------------------------------------------------------------
(* The interrupts.                                                          *)

CAN_IRQHandler(b) ==
    /\ power = "awake" /\ receiving[b]
    /\ arrivals < MaxArrivals
    /\ arrivals' = arrivals + 1
    /\ IF HasRoom(receiveQueue[b])
       THEN /\ receiveQueue' = [receiveQueue EXCEPT ![b] = Append(@, arrivals)]
            /\ accepted' = [accepted EXCEPT ![b] = Append(@, arrivals)]
       ELSE UNCHANGED <<receiveQueue, accepted>>
    /\ UNCHANGED <<decoded, outbound, activity, ticked, mode, control,
                   requests, resets>>

\* A pass of the loop takes less than a tick of this clock, whose Timeout is 30 s.
SysTick_Handler == /\ power = "awake"
                   /\ ~ticked
                   /\ ticked' = TRUE
                   /\ sinceLast' = [b \in Bus |-> (sinceLast[b] + 1) % ClockSize]
                   /\ quiet' = [b \in Bus |-> IF quiet[b] < Timeout THEN quiet[b] + 1
                                              ELSE Timeout]
                   /\ UNCHANGED <<inbound, outbound, waiting, mode, control, counts>>

\* CAN activity or the button: the handler resets the microcontroller.
handleWake == /\ power = "asleep"
              /\ power' = "awake"
              /\ receiveQueue' = [b \in Bus |-> <<>>]
              /\ sendQueue' = [b \in Bus |-> <<>>]
              /\ sinceLast' = [b \in Bus |-> 0]
              /\ ticked' = FALSE /\ busWasActive' = FALSE
              /\ receiving' = [b \in Bus |-> FALSE]
              /\ pc' = "initialize" /\ bus' = 1 /\ message' = <<>>
              /\ arrivals' = 0 /\ requests' = 0 /\ resets' = 0
              /\ accepted' = [b \in Bus |-> <<>>] /\ decoded' = [b \in Bus |-> <<>>]
              /\ asked' = [b \in Bus |-> <<>>] /\ written' = [b \in Bus |-> <<>>]
              /\ quiet' = [b \in Bus |-> 0] /\ waiting' = [b \in Bus |-> FALSE]

-----------------------------------------------------------------------------
LoopStep == \/ initializeCan
            \/ ReceiveNothing \/ ReceiveMessage \/ Decode
            \/ HostsRead \/ processCanWriteQueue \/ customLoopHandler
            \/ updateDataLights \/ enterLowPowerMode
            \/ handleControlRequest \/ processListenerQueues

Next == \/ LoopStep
        \/ \E b \in Bus : HostWrites(b) \/ CAN_IRQHandler(b)
        \/ SysTick_Handler
        \/ handleWake

Spec == Init /\ [][Next]_vars

\* The loop never ends and the clock ticks; nobody has to send or to wake the unit.
FairSpec == Spec /\ WF_vars(LoopStep) /\ WF_vars(SysTick_Handler)

-----------------------------------------------------------------------------
TypeOK == /\ receiveQueue \in [Bus -> Seq(Nat)]
          /\ sendQueue \in [Bus -> Seq(Nat)]
          /\ \A b \in Bus : /\ Len(receiveQueue[b]) <= QueueCapacity
                            /\ Len(sendQueue[b]) <= QueueCapacity
          /\ sinceLast \in [Bus -> 0 .. ClockSize - 1]
          /\ ticked \in BOOLEAN
          /\ busWasActive \in BOOLEAN
          /\ power \in {"awake", "asleep"}
          /\ receiving \in [Bus -> BOOLEAN]
          /\ pc \in Label
          /\ bus \in Bus
          /\ message \in Seq(Nat) /\ Len(message) <= 1
          /\ arrivals \in 0 .. MaxArrivals
          /\ requests \in 0 .. MaxRequests
          /\ resets \in 0 .. MaxResets
          /\ accepted \in [Bus -> Seq(Nat)] /\ decoded \in [Bus -> Seq(Nat)]
          /\ asked \in [Bus -> Seq(Nat)] /\ written \in [Bus -> Seq(Nat)]
          /\ quiet \in [Bus -> 0 .. Timeout]
          /\ waiting \in [Bus -> BOOLEAN]

\* The message receiveCan holds, if it holds one of bus b.
InHand(b) == IF b = bus THEN message ELSE <<>>

\* Each message of a bus that found room is decoded once and in its turn, however the
\* interrupt runs against the loop, except those a reset throws away.
DecodedOnceInOrder ==
    \A b \in Bus : accepted[b] = decoded[b] \o InHand(b) \o receiveQueue[b]

\* The same for the writes that found room, of hosts and of customLoopHandler, whose
\* write is still in the queue when the pass ends: they go to the controller once, in
\* order, except those a reset throws away.
WrittenOnceInOrder == \A b \in Bus : asked[b] = written[b] \o sendQueue[b]

\* The unit goes to sleep only when no bus has had a message decoded for the whole
\* timeout, whether the clock wrapped in between or not, and whatever bus the
\* traffic was on.
SleepsAfterTimeout ==
    [][power' = "asleep" /\ power = "awake" => \A b \in Bus : quiet[b] = Timeout]_vars

\* A pass of the loop decodes a message of every bus that had one when the pass
\* began, so with DecodedOnceInOrder no message waits longer than the queue is long,
\* and none that waited is lost to sleep.
EachPassServesEachBus ==
    pc \in {"custom", "lights", "sleep", "listeners"} => \A b \in Bus : ~waiting[b]

\* "Put the micro into low power mode when CAN is quiet" (CHANGELOG.mkd:17): the unit
\* does not stay awake on quiet buses, and does not after a wake either.  It holds
\* even if nothing is ever received, because initialization counts as activity.
QuietUnitSleeps == []<>(power = "asleep")

\* What canutil.h:175-179 says canBusActive tells ("a message was received on the CAN
\* bus within CAN_ACTIVE_TIMEOUT_S"): a unit that goes to sleep for want of active
\* buses has no message it received waiting.
NothingWaitsAtSleep ==
    power = "asleep" => \A b \in Bus : receiveQueue[b] = <<>>
=============================================================================
