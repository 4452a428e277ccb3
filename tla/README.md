# A TLA+ model of the OpenXC CAN translator firmware

The firmware (version 3.2, `src/`) runs on an LPC17xx or a PIC32. It reads CAN
messages, turns the signals in them into JSON, and sends that to a USB, UART or
Ethernet host. Hosts may write signals back to CAN. There is one main loop and
no operating system; everything concurrent is an interrupt handler that
preempts the loop.

```
             CAN_IRQHandler            loop()                        processListenerQueues()
  CAN bus ------------------> receive queue -> decode -> filter -> sendMessage
                                                                       |  one send queue each
                                                    USB   <------------+
  USB, UART, Ethernet                               UART  <------------+   (also drained by
     | readFrom*: receive queue -> processQueue     Ethernet <---------+    UART1_IRQHandler)
     +-> receiveWriteRequest -> CAN send queue -> processCanWriteQueue -> CAN bus
```

## Inventory

| Component | State | Operations | What is hard | What makes it correct |
|---|---|---|---|---|
| UART transmit, `lpc17xx/serialutil.c` | send queue, THRE enable bit and its copy `TRANSMIT_INTERRUPT_STATUS`, `CTS_STATE`, transmitter enable | `processSerialSendQueue`, `handleTransmitInterrupt`, `UART1_IRQHandler` | loop and handler run the same routine; the bit and its copy; CTS by hand; a busy wait | each byte once and in order; nothing starts while CTS is dropped; everything arrives if the peer allows it |
| UART receive, `lpc17xx/serialutil.c`, `buffers.c`, `strutil.c` | receive queue, RTS line and `RTS_STATE` | `handleReceiveInterrupt`, `readFromSerial`, `processQueue`, `pauseReceive`, `resumeReceive` | the queue grows while the loop works on a snapshot | no byte meets a full queue; the peer is let go on; a corrupted or full queue is cleared |
| Listener, `listener.cpp`, `buffers.c` | send queue per interface, `configured`, drop counters | `sendMessage`, `conditionalEnqueue`, `droppedMessage` | queues drained in mid-push, hosts that go and come | whole messages; a full interface costs the others nothing |
| Signal filter and handlers, `canread.cpp`, `shared_handlers.cpp`, `handlers.cpp:34` | `received`, `lastValue`, `sendClock` of a signal; totals and their baseline; the table of cell counters | `preTranslate`, a handler, `postTranslate`; `sendDoorStatus`, `sendTirePressure`, `handleCellBroadcast`, ... | first value, counter boundary, change seen and change sent; counters that wrap, a second signal | the documented fraction is sent; no change is missed; totals only grow; cells do not disturb each other |
| CAN gateway, `cantranslator.cpp`, `canutil.cpp`, `canwrite.cpp`, `lpc17xx/{canread.cpp,power.c,timer.c}` | receive and send queue per bus, `lastMessageReceived`, `busWasActive` | `CAN_IRQHandler`, `receiveCan`, `enqueueCanMessage`, `processCanWriteQueue`, `updateDataLights`, `reset`, sleep and wake | interrupt and reset against the loop; activity noted late; a clock that wraps | order; no bus starves; the unit sleeps when, and only when, its buses are quiet |
| USB, `lpc17xx/usbutil.c`, `pic32/usbutil.cpp` | `configured`, transfer handles, buffers, receive queue | `processUsbSendQueue`, `sendToHost`, `waitForHandle`, `usbCallback`, `readFromHost`, `armForRead` | host goes away in a transfer; PIC32 timeouts, buffers shared with the controller; 64-byte pushes whatever arrived | transfers hold whole messages; nothing is sent or executed twice; no host stops the loop |
| Ethernet, `pic32/ethernetutil.cpp` | the two queues | `processEthernetSendQueue`, `readFromSocket` | the test that ends the read never fails | as USB |
| Host writes, `cantranslator.cpp`, `canwrite.cpp` | send queue of a bus | `receiveWriteRequest`, the writers, `sendCanSignal`, `processCanWriteQueue` | writes refused, forced or lost; byte and bit orders of two boards | only writable signals are written; what is on the wire is what was asked |
| VIN, `handlers.cpp` | `mVin`, the loop count | `handleVINMessage`, `requestVIN`, `customLoopHandler` | parts late, repeated, out of order; requests refused | the VIN reaches the hosts, once |
| Bit fields, `bitfield.c` | none | `getBitField`, `setBitField`, `getTwosComplement` | widths, byte order | read what was written |
| Lookup tables, `canutil.cpp` | constant | `lookupSignal`, `lookupCommand`, ... | two entries of one name | the right one is found |
| PIC32 UART, `pic32/serialutil.cpp` | the same queues | `readFromSerial`, `processSerialSendQueue` | a write that blocks | as USB |
| PIC32 CAN, `pic32/can*.cpp` | the same queues | `handleCanInterrupt`, `receiveCanMessage`, `sendCanMessage` | reset inside the USB interrupt | as the gateway |
| Lights, Bluetooth, GPIO, log, start-up, emulator, code generator | pins and registers | | | |

Components share state only through the queues, the `configured` flag and the
system clock. The callback `receiveWriteRequest` runs inside `processQueue`, and
`reset()` runs inside the USB task.

## Modules

| Module | Models | State in the code |
|---|---|---|
| `SerialTransmit` | the LPC17xx transmit path, one step per access the other side can see; both contexts (`pc["main"]`, `pc["isr"]`) run `handleTransmitInterrupt(c)` | `sendQueue`, the enable bit and its copy, CTS, FIFO and shift register, the local `byte` of each context |
| `ByteChannel` | what that path promises: bytes in, the same bytes out | |
| `SerialReceive` | receive interrupt, RTS, `readFromSerial` with `processQueue` inlined | `receiveQueue`, `RTS_STATE` and the line, the `snapshot` local |
| `Listener`, `MCListener` | `sendMessage` byte by byte, the drains of three interfaces | `sendQueue`, `configured`, `droppedMessages`, the progress of the call |
| `SignalFilter` | the filter under every setting with every handler: of values, of states and truths, of totals, of messages | the fields of `CanSignal`, the globals of `shared_handlers.cpp`, `cellMsgCount` |
| `CanGateway` | power up and one pass of `main()`'s loop in its order, with the CAN and timer interrupts in between; the write that `customLoopHandler` queues behind the sending, which waits for the next pass or meets a reset | the queues of each bus, `lastMessageReceived` as its distance to the clock, `busWasActive`, each bus's receive interrupt |
| `BitField` | `bitfield.c` and the bytes of a frame; a word is the set of its bits, at the real 64 | |
| `HostWrite` | from a request to a frame: dispatch, lookup, writers, encoding, queue | `sendQueue` of each bus, the constant tables |
| `VinRequest`, `MCVinRequest` | the main loop around `HostWrite`: the VIN's request, the vehicle's answer in three parts; small vehicles | `mVin`, the static count of `customLoopHandler` |
| `LossyChannel` | what a path that may lose things promises: each at most once, in order | |
| `HostReceive` | `readFromHost` of both boards, the PIC32's `readFromSerial`, `readFromSocket`, each with `processQueue` | `receiveQueue`, the PIC32's `receiveBuffer` and whether it is armed |
| `PicSend` | the PIC32's `processUsbSendQueue` with its waits, and `processSerialSendQueue` | `sendQueue`, `sendBuffer`, the handle, `configured` |
| `HostLink` | the two above in the main loop, with host and USB interrupt in between | where the loop is |
| `SerialTransmit_proofs`, `SerialReceive_proofs`, `Listener_proofs`, `SignalFilter_proofs`, `CanGateway_proofs`, `HostLink_proofs`, `VinRequest_proofs` | each extends the module it is named after, and TLAPS: the inductive invariant, its lemmas, the theorems | |
| `SequenceLemmas` | facts about heads, tails, prefixes and concatenations that several of those proofs need | |

`HostWrite`, `HostReceive` and `PicSend` hold actions; `VinRequest` and `HostLink`
extend them and say when each is taken.

Variables called history in a module hold what was offered, accepted or sent, for
the properties; no guard of the code's part reads them except the named bounds
(`MaxBytes`, `MaxMessages`, `MaxReceived`, `MaxArrivals`, `MaxRequests`,
`MaxResets`, `MaxProduced`, `MaxConfigured`, `MaxTraffic`). Definitions under a comment `Mutant:` are plausible bugs, each used
to show that a property would notice one.

## Runs

| Run | Bounds | What it shows |
|---|---|---|
| `serial_transmit` | 2 byte values, queue 2, FIFO 1, 4 bytes | mutual exclusion, order, CTS, refinement of `ByteChannel`, delivery |
| `serial_receive` | queue 3, FIFO 2, 5 bytes of three kinds | no overflow, RTS and its copy, resumption, clearing of corrupted queues |
| `listener` | messages of 1 and 2 bytes, queue 7, 3 messages, network buffer 2, threshold 1 | whole frames, isolation of interfaces, whole USB transfers |
| `signal_filter` | every handler, frequencies 0 to 3, four values, 7 messages, 3-bit counter, 3 packs of 2 cells | the documented fraction, changes, repetitions, totals, cells |
| `can_gateway` | 2 buses, queues of 2, timeout 2, clock of 7, 3 arrivals, 2 writes, from hosts or `customLoopHandler`, 1 reset | order in both directions against interrupt and reset, a reset that meets queued messages and writes, service of each bus, sleep |
| `vin_request` | 21 vehicles, with factors of 1 to 5, 1/8, 1/10, 3/4 and 1/100, both boards, queue 1, 2 requests, a VIN request every third pass | layout on the wire, decoding back, permission, the VIN once and in the end |
| `host_link` | 4 kinds of link, packets of 2, queue 4, send queue and send buffer 3, messages of up to 2 bytes, requests of 1, 4 and 5 bytes, 4 bytes or requests together, one turn of waiting | requests and bytes pass a lossy channel, when they may be lost, the PIC32 loop goes on |
| `serial_transmit_cts`, `serial_receive_resume`, `serial_receive_lockup`, `signal_filter_zero`, `can_gateway_sleep` | as above or smaller; `serial_receive_lockup` has a queue of 1, a FIFO of 2 and 2 bytes | one finding each, below |

Why the bounds are enough. The code compares queue lengths only with empty, full
and the size of one message, so a queue that holds one to three elements meets
every case; the bounds let each queue fill, refuse, empty and fill again. With
four bytes the UART, the shift register and the queue are full at once and one
byte waits. Seven messages are more than two rounds of the filter and wrap its
three-bit counter. The gateway's clock of seven is the smallest that goes round
without two quiet buses looking active by turns; the model needs, and states in
`GatewayAssumption`, `BusCount * (Timeout + 1) < ClockSize` - the real clock
counts 2^32 ms against 30 s. The listener's run fits all three interfaces, which
no single board has: each build's behaviors are among those checked. The
vehicles of `vin_request` have fields that start and end at, before and behind the
edges of bytes, in words of the real width, one of 32 bits with a factor of 0.125 as in
`ampsignals.json`, and are asked for values on both sides of what `Exact` admits. In `host_link` a request may be shorter
than a packet, several packets, exactly the queue or too long for it; a send buffer is
a packet and a half, so that a transfer has a full and a short packet, and a wait that
runs out after one turn runs out at each place it can; a message of two bytes meets a
send queue with and without room for it.

Deadlock is not checked where the behavior ends at a bound (`SerialReceive`,
`Listener`, `SignalFilter`).

## Fairness

* `SerialTransmit.FairSpec`: the `for(;;)` of `main()` never ends, so the loop's
  steps are weakly fair; so are the handler (the NVIC serves an enabled
  interrupt) and the UART's shifting. The peer owes nothing: delivery is claimed
  only if CTS is active from some time on.
* `SerialReceive.FairSpec`: loop and handler. The handler comes first while the
  UART holds a byte. `PeerResumed` and `CorruptedQueueCleared` assume that the
  loop is not starved for ever; `FullQueueCleared` shows how it can be.
* `CanGateway.FairSpec`: loop and clock. Nobody has to send, nor to wake the unit.

* `VinRequest.FairSpec`: the loop, and for each part of the VIN strong fairness of the
  pass in which the vehicle answers and that part is received: of requests made for ever
  again, not all may be refused or have the same part of the answer lost.
* `HostLink.FairSpec`: the loop only. The host owes nothing, not even taking bytes.

`Listener` and `SignalFilter` make no liveness claims and state no fairness.

## Refinements

All three are checked by TLC and proved.

* `SerialTransmit` implements `ByteChannel` (`ImplementsByteChannel`).
* The requests a host makes and those the callback finds implement `LossyChannel`
  (`RequestsLostAtMost`): bytes stay in buffers and queues, are read again and are mixed
  with later ones, yet no request is executed twice or after a younger one. What may be
  lost is narrowed by `CleanRequestExecuted`: over USB and UART nothing that begins in an
  empty queue and fits. Over Ethernet only what is there at once is kept.
* The bytes the PIC32 queues and those the host takes implement it too
  (`BytesLostAtMost`), although a transfer that timed out is still pending over a buffer
  the program owns; `LostOnlyWhenGivenUp` says when a byte may be lost.

## Proofs

The theorems hold for every value of the constants that the named assumptions of the
modules allow. Each module's proof has the same shape: the invariants that TLC checks
are seldom inductive, so parts are added to them until every step keeps the whole; one
lemma for each part goes through the actions; the theorems about single properties
follow. Of each module but `SerialTransmit` (two parts) TLC was given the whole
strengthening as an invariant on the module's run before it was proved.

| Module | Theorem | States |
|---|---|---|
| `SerialTransmit_proofs` | `InvariantHolds` | `Spec => [](TypeOK /\ TransmitInv)` |
| | `TypeCorrect`, `MutualExclusion`, `Masking`, `ByteOrder` | `[]TypeOK`, `[]OneDrainer`, `[]MaskInv`, `[]ExactlyOnceInOrder` |
| | `CtsStops` | `NoByteStartsWhileStopped` |
| | `Refinement` | `ImplementsByteChannel` |
| `SerialReceive_proofs` | `ReceiveInvariant` | `[]ReceiveInv` |
| | `ReceiveTypeCorrect`, `NoReceivedByteLost` | `[]TypeOK`, `[]NoByteOverflows` |
| `Listener_proofs` | `ListenerInvariant` | `[]ListenerInv` |
| | `ListenerTypeCorrect`, `FramesAreWhole`, `DropsAreSeparate`, `TransfersAreWhole` | `[]TypeOK`, `[]WholeFrames`, `[]DroppedForThatInterfaceOnly`, `[]WholeTransfers` |
| `SignalFilter_proofs` | `FilterInvariant` | `[]FilterInv` |
| | `FilterTypeCorrect`, `EveryNth`, `ChangesReach`, `TotalsAddUp`, `CellsApart` | `[]TypeOK`, `[]EveryNthSent`, `[]NoChangeMissed`, `[]TotalsKept`, `[]CellsCountedApart` |
| | `NoRepeats`, `TotalsRise` | `NeverTwiceInARow`, `TotalNeverRunsBack` |
| `CanGateway_proofs` | `GatewayInvariant` | `[]GatewayInv` |
| | `GatewayTypeCorrect`, `ReceivedInOrder`, `SentInOrder`, `PassServesBuses` | `[]TypeOK`, `[]DecodedOnceInOrder`, `[]WrittenOnceInOrder`, `[]EachPassServesEachBus` |
| | `SleepOnlyAfterTimeout` | `SleepsAfterTimeout` |
| `HostLink_proofs` | `SendInvariant`, `RequestInvariant` | `[]SendInv`, `[]ReceiveInv` |
| | `LinkTypeCorrect`, `NoByteOutOfSight`, `CleanRequestsExecuted` | `[]TypeOK`, `[]LostOnlyWhenGivenUp`, `[]CleanRequestExecuted` |
| | `BytesAtMostOnce`, `RequestsAtMostOnce` | `BytesLostAtMost`, `RequestsLostAtMost` |
| `VinRequest_proofs` | `WriteInvariant` | `[]WriteInv` |
| | `WriteTypeCorrect`, `VinOnce`, `PermissionKept` | `[]TypeOK`, `[]VinSentOnce`, `[]WritePermission` |
| | `RequestsOnTheWire`, `ReadBack` | `[]OnTheWire`, `[]DecodedAsWritten` |

### Along which argument

* **UART transmit**, from `TransmitAssumption` (the byte of no one is no byte, the sizes
  are positive). Neither `OneDrainer` nor `ExactlyOnceInOrder` is inductive. `MaskInv`
  says that while either context is between the masking of the interrupt and its last
  look at the queue, the interrupt is off; that a handler which runs therefore found the
  main loop outside that part; and that the byte peeked is still the head of the queue
  when it is sent and popped. The order counts a byte that is in the queue and in the
  FIFO at once (label `pop`) once. For the refinement, a step that moves a byte to the
  wire is a `Deliver` because of the order, one that queues a byte is an `Offer`, all
  others stutter. `CtsStops` has an invariant of its own, `StopInv`: the transmitter is
  off whenever the program's copy of CTS is inactive.
* **UART receive**, from `ReceiveAssumption` (positive sizes). `TypeOK` states that RTS
  and its copy agree; `ResumeInv` adds what holds between the two writes of
  `resumeReceive`, where a handler may run.
* **Listener**, from `ListenerAssumption`; of it `QueueCapacity <= SendBufferSize`, as
  in the code, is what makes a transfer the whole queue. `RoomInv`: the room that
  `conditionalEnqueue` found lasts until the last push, as only the handler works on the
  queue meanwhile, and that only takes. `AnswerInv`: which interfaces have answered the
  message in hand, from the order in which they are asked. `UsbInv`: the USB queue starts
  with the start of a frame and, between messages, ends with the end of one.
* **Signal filter**, from `FilterAssumption`; frequencies are any set of numbers that an
  `int` of any size holds. `RoundInv` counts the messages of a signal as whole rounds of
  `sendFrequency` and what the clock shows of the next; `CellInv` does so for each entry
  of the table, whose index is shown to be that of one cell alone. `FirstInv` is needed
  for the clock and the counts to start together. `TotalInv`: what was sent of a total is
  never above what it is now, although the baseline may come in between.
* **CAN gateway**, from `GatewayAssumption`; only here numbers matter: 1 < `Timeout` and
  `Timeout` below the size of the clock. `LoopInv` ties the message in hand to the place
  in the loop; `PassInv` says of every bus on which side of the loop's index it is;
  `QuietInv` that the clock distance the code computes is how long a bus has been quiet,
  until that is the timeout, and that a unit about to sleep has seen that of every bus.
  A wake starts the program again, so each part is shown for it as for the start.
* **Host link, sending**, from `SendAssumption`: a full send queue, and a message, fit
  the send buffer, as both are sized in the code. `StageInv` says where in
  `processUsbSendQueue` a transfer may still be pending and what the code has found out
  by then, `TransferInv` that it covers neighbouring places that are already written,
  `OrderInv` that everything on its way is younger than what the host has. That the
  buffer is not filled while a transfer covers it is what keeps bytes from being seen
  twice. The search for this invariant found a mistake in an earlier model: the send
  queue had no capacity there, and so could outgrow the buffer it is copied to, which
  its type in the code rules out.
* **Host link, receiving**, from `ReceiveAssumption`, where a queue holds whole packets,
  and `TextAssumption`, that the text of a request has no NUL in it. A request is
  followed through three places. `YoungerInv`: the requests that begin in the queue, in
  the buffer and on the wire are in order and younger than any executed. `PacketInv`,
  `BufferInv`, `StreamInv`: what has begun in one of them goes on in the next without a
  gap. `CleanInv`: a clean request not yet executed is in the queue from its first byte
  up to the one before the byte that is read next.
* **Host writes and the VIN**, from `WriteAssumption`, `PeriodAssumption`,
  `VehicleAssumption` (a writer is one of the program's; a field lies within its frame and
  has at most 63 bits, 30 if it is signed, as the code's shifts of an `int` allow; factors
  are positive quotients of whole numbers; a state has a number) and
  `RequestAssumption` (what is asked for is a whole number, a raw write's data a 64-bit
  word). `QueuesInv` says of every message in a queue that it may be sent, and that it
  carries the word of what was asked; `FramesInv` that a frame was such a message. It
  needs that the lookups find an entry of the table, and that of several states of a name
  both the writer and `Intended` mean the first.
* **Bits and numbers**, for `OnTheWire` and `DecodedAsWritten`. `WireOrder`,
  `MessageRead` and `FieldRead` are about sets of positions: on both boards the bits go out
  the most significant first, a received message is the word that was sent, and a field is
  read as it was written, wherever it starts and however many bytes it touches.
  `UnsignedWord` is about numbers: the binary digits of a number below 2^31 add up to it.
  `RawFacts` and `ExactFacts` are about rounding: the raw value differs from the quotient
  by at most a half, and is below 2^31 where `Exact` holds. Only there does `ReadBack`
  claim anything, as the code's floats round elsewhere.
  The library's induction theorems take an operator, which the provers cannot instantiate,
  so the induction is over sets of numbers instead (`SetInduction`, from the least element
  of a set); that 2^(n+1) is twice 2^n comes from the library's count of subsets; and
  `Unsigned`, a fold that takes positions in an order of its own, is shown to give what
  any function does that adds up powers of two, whatever the order (`UnsignedAddsUp`).

### What is only model-checked

* Liveness, out of this prover's reach: `EveryByteDelivered`, `PeerResumed`,
  `CorruptedQueueCleared`, `QuietUnitSleeps`, `VinEventuallySent`, `MainLoopGoesOn`.
* The violations under "Findings".


## Findings

* `lpc17xx/serialutil.c:98`: the main loop waits for the UART to run empty, which
  never happens while the peer holds CTS inactive (`MainLoopNeverWaits`), although
  `:158-161` calls the writes asynchronous. USB and CAN stand still meanwhile.
* `lpc17xx/serialutil.c:151`: RTS may be raised on a queue that has just filled
  (`ResumedWithRoom`).
* `lpc17xx/serialutil.c:77`: a byte left in the UART because the queue is full has
  the handler re-entered for ever (`FullQueueCleared`). In the run the peer sends a
  second byte before the handler takes the first and drops RTS; RTS raised again on a
  full queue, the finding before, would lead there too.
* `canread.cpp:41`: a send frequency of zero, documented as "every value", sends
  the first value only (`EveryValueProcessed`).
* `cantranslator.cpp:165`: activity is noted when a message is decoded, so the unit
  can go to sleep with one in the queue (`NothingWaitsAtSleep`).

Other disagreements between code and comments met on the way, without a run:

* `usbutil.h:31-33` says `configured` is not set to false until the board is reset; both
  boards clear it when VBUS goes (`PicSend!CheckVbus`, `Listener`). On the PIC32
  `vbusEnabled` returns true when there is none; the model follows the code.
* `docs/output/usb.rst:72` says a message with an unlisted id is ignored;
  `receiveRawWriteRequest` consults no list. `:44` mentions an automatic
  re-initialization of which there is no trace.
* `shared_handlers.h:33-36` says a total counts from the start of the car, on the first
  known value of the odometer. The first reading of the rolling counter is added whole
  (it is compared with zero), and a wrap loses one unit, so the total is not that distance;
  `TotalsKept` states what the code keeps, not what the comment promises,
  and the baseline is the odometer's value at the first rolling message after it.
* `bitfield.h:30-31`, `tests/bitfield_tests.cpp:5-20` and `:85-101`, and
  `tests/canread_tests.cpp:49-58` number the bits of `getBitField` from the word's most
  significant bit, and so expect its bytes swapped on a little-endian machine.
  `bitfield.c:41` swaps only `if(bigEndian())`, so on both boards the bits are numbered
  from the first byte in memory. `setBitField` numbers from the most significant bit, so
  `getBitField` alone does not read back what `setBitField` made: the byte swap of
  `enqueueCanMessage` lies between. `DecodedAsWritten` is about that whole way, from a
  request over the wire to what another unit decodes, and would fail if `getBitField`
  did as documented and the rest stayed as it is.
* `pic32/ethernetutil.cpp:60` compares an unsigned byte with -1.
* A command is handed its value unchecked, so one without a value hands the handler NULL.
  A boolean for a signal that has no writer of its own is written as 0.
* `listener.cpp:25-28` logs 100 after 101 drops.

## Limits

* Register accesses of the vendor libraries are one step. The snapshot of a queue
  is one step, though `buffers.c` reads the length first; what `emqueue` does when
  the two differ is not in the repository. `QUEUE_INIT` is one step as well.
* JSON is not parsed. `SerialReceive` and `HostReceive` find a message between its first
  and its last byte; since the snapshot has no NUL at its end, a message that has only
  begun may also be taken for complete, and both outcomes are allowed.
* `HostWrite` has whole values and offsets, and positive factors that are quotients of
  whole numbers, such as 1/8 or 1/10. Where the code's floats (24 bits of precision) may
  cut at another raw value than exact arithmetic, every raw value within the error is
  allowed, and `OnTheWire` and `DecodedAsWritten`, and the theorems on them, claim nothing:
  8388609 in a field of 24 bits does go out as 8388610. `Exact` says where the two agree,
  for magnitudes below 2^20 units of 1/scale; why is argued in a comment there, from the
  error of a float operation, and is not proved. Negative raw values, which the cast
  leaves undefined, may give zero or their two's complement. A command's request has a
  value.
* What `Endpoint_Read_8` returns behind the end of a packet is the library's: NULs, junk,
  or what an earlier packet left there (`HostReceive!Leftovers`). Behind an empty packet
  it is taken not to be a request's first packet: if the library reports an empty packet
  and gives the last one's bytes again, a request that filled that packet is executed
  twice, which nothing in `readFromHost` would prevent.
* `SignalFilter` leaves out units: kilometres, litres and wheel radii are a factor of 1,
  and sums do not round.
* `HostReceive` sees one host at a time on one link; a USB packet holds bytes of one
  request. A receive queue holds a whole number of packets, as 512 does of 64.
* `VinRequest`'s vehicle has one VIN; `handleCellBroadcast` is given packs and cells from
  one up.
* `CanGateway` assumes that a pass of the loop takes less than one unit of its
  clock; the clock's unit is as coarse as the timeout needs. A write the controller
  refuses is counted as given to it: the code logs it and goes on.
* The UART's line status interrupt, which the handler does not acknowledge, is not
  modelled.

## Not modelled

| Part | Why |
|---|---|
| `handleGpsMessage` | floating-point arithmetic on six signals, no state |
| Acceptance filters, pins and transceivers, CAN timing (`configureFilters`, `initializeCan` beyond when a bus starts to receive) | register writes whose effect is the controller's |
| `handleCanInterrupt` of the PIC32 and its reset inside the USB interrupt | an emptied queue may be popped; what `emqueue` then does is not in the repository, and every property after it would be a guess |
| USB descriptors, endpoint set-up, the version reply | the libraries' |
| `updateInterfaceLight`, lights, Bluetooth, GPIO, log | pins and text that nothing reads |
| Platform and start-up code, fault handlers, the PIC32's empty power management | no state |
| The `TRANSMITTER` build, the CAN emulator | test builds; the first never sleeps, the second sends random values through the same listener |
| Code generator | runs before the build |
| `emqueue`, cJSON, nxpUSBlib, CDL, chipKIT | not in the repository; modelled only as far as `src/` uses them |
| A change the listener drops and the filter then never re-sends, as one run | `Listener` shows when a message is dropped, `SignalFilter` that its value is kept all the same; nothing says that it should be sent again |

## Plan

Done: the concurrency of the LPC17xx UART with its proofs first, where a test reaches
least; then reception, `Listener`, `SignalFilter`, `CanGateway`; then `BitField`,
`HostWrite` and `VinRequest`, the handlers of `SignalFilter`, and both directions of the
other links in `HostLink`.

All safety invariants and action properties that the passing runs check are proved as
well. All modules are free of recursive operators for that reason. What is left is
outside the models: the parts under "Not modelled", the values whose rounding in floats
`Exact` leaves open, and negative raw values, whose cast the code leaves undefined.
