--------------------------- MODULE SerialTransmit ---------------------------
(***************************************************************************)
(* The LPC17xx UART transmit path (src/src/lpc17xx/serialutil.c).          *)
(*                                                                         *)
(* The main loop puts bytes in the send queue and polls it once per        *)
(* iteration; the UART interrupt handler empties the same queue whenever   *)
(* the transmitter runs dry.  Both run handleTransmitInterrupt, which      *)
(* peeks a byte, offers it to the UART and only then pops it, so the       *)
(* routine must never run in both contexts at once.  CTS flow control is   *)
(* done by hand: a modem status interrupt stops and starts the             *)
(* transmitter.                                                            *)
(*                                                                         *)
(* A step is one access to state that the other side can see.  The handler *)
(* preempts the main loop between any two of its steps and runs to its end *)
(* while the hardware goes on.                                             *)
(***************************************************************************)
EXTENDS Naturals, Sequences

CONSTANTS Byte,           \* the values of a byte
          NoByte,         \* the local variable of a loop that is not running
          QueueCapacity,  \* of the send queue (512 in buffers.h)
          FifoDepth,      \* bytes the UART accepts before it refuses one
          MaxBytes        \* bound on the bytes offered in a behavior

ASSUME TransmitAssumption == /\ NoByte \notin Byte
                             /\ QueueCapacity \in Nat \ {0}
                             /\ FifoDepth \in Nat \ {0}
                             /\ MaxBytes \in Nat

VARIABLES sendQueue,      \* listener.serial->sendQueue
          threEnabled,    \* the THRE bit of the UART's interrupt enable register
          TRANSMIT_INTERRUPT_STATUS, \* the program's own copy of that bit
          CTS_STATE,      \* the program's copy of the CTS line
          ctsLine,        \* the line itself, driven by the peer
          ctsDelta,       \* an edge of the line is waiting for the handler
          txEnabled,      \* the transmitter is enabled (UART_TxCmd)
          threPending,    \* the THRE interrupt is latched
          fifo,           \* the UART's transmit FIFO
          shift,          \* its shift register: at most one byte
          pc,             \* where each context is in the transmit code
          byte,           \* the byte each context peeked
          offered,        \* history: every byte put in the send queue
          wire            \* history: every byte the peer received

uart == <<txEnabled, fifo, shift, wire>>
cts  == <<CTS_STATE, ctsLine, ctsDelta>>
irq  == <<threEnabled, TRANSMIT_INTERRUPT_STATUS, threPending>>
vars == <<sendQueue, uart, cts, irq, pc, byte, offered>>

Context == {"main", "isr"}

\* idle: not transmitting.  poll, pollMark: the arming in processSerialSendQueue.
\* enter .. rearmMark: handleTransmitInterrupt.
Label == {"idle", "poll", "pollMark", "enter", "busy", "drain", "send", "pop",
          "rearm", "rearmMark"}

-----------------------------------------------------------------------------
(* Scheduling: the handler preempts the main loop, never the reverse.       *)

Runs(c) == c = "isr" \/ pc["isr"] = "idle"

At(c, label) == Runs(c) /\ pc[c] = label

Goto(c, label) == pc' = [pc EXCEPT ![c] = label]

-----------------------------------------------------------------------------
(* Boot leaves CTS_STATE active whatever the line says, and the transmitter *)
(* enabled only if the line was active then.                                *)
Init == /\ sendQueue = <<>>
        /\ threEnabled = TRUE
        /\ TRANSMIT_INTERRUPT_STATUS = "SET"
        /\ CTS_STATE = "ACTIVE"
        /\ ctsLine \in {"ACTIVE", "INACTIVE"}
        /\ ctsDelta = FALSE
        /\ txEnabled = (ctsLine = "ACTIVE")
        /\ threPending = FALSE
        /\ fifo = <<>>
        /\ shift = <<>>
        /\ pc = [c \in Context |-> "idle"]
        /\ byte = [c \in Context |-> NoByte]
        /\ offered = <<>>
        /\ wire = <<>>

-----------------------------------------------------------------------------
(* The main loop.                                                           *)

\* Mutant: the room check is off by one.
HasRoomOffByOne == Len(sendQueue) <= QueueCapacity

HasRoom == Len(sendQueue) < QueueCapacity

\* One QUEUE_PUSH of conditionalEnqueue, which checked the room beforehand.
Enqueue(b) == /\ At("main", "idle")
              /\ HasRoom
              /\ Len(offered) < MaxBytes
              /\ sendQueue' = Append(sendQueue, b)
              /\ offered' = Append(offered, b)
              /\ UNCHANGED <<uart, cts, irq, pc, byte>>

processSerialSendQueue == /\ At("main", "idle")
                          /\ sendQueue # <<>>
                          /\ Goto("main", "poll")
                          /\ UNCHANGED <<sendQueue, uart, cts, irq, byte, offered>>

\* The interrupt is enabled before the program notes that it is: the handler
\* can run in between, at the label mark.
enableTransmitInterrupt(c, mark, next) ==
    \/ /\ TRANSMIT_INTERRUPT_STATUS = "RESET"
       /\ threEnabled' = TRUE
       /\ Goto(c, mark)
    \/ /\ TRANSMIT_INTERRUPT_STATUS = "SET"
       /\ UNCHANGED threEnabled
       /\ Goto(c, next)

noteInterruptEnabled(c, next) == /\ TRANSMIT_INTERRUPT_STATUS' = "SET"
                                 /\ Goto(c, next)

\* Mutant: the program's copy is cleared, the interrupt stays enabled.
disableCopyOnly == /\ UNCHANGED threEnabled
                   /\ TRANSMIT_INTERRUPT_STATUS' = "RESET"

disableTransmitInterrupt == /\ threEnabled' = FALSE
                            /\ TRANSMIT_INTERRUPT_STATUS' = "RESET"

Poll == /\ At("main", "poll")
        /\ enableTransmitInterrupt("main", "pollMark", "enter")
        /\ UNCHANGED <<sendQueue, uart, cts, TRANSMIT_INTERRUPT_STATUS,
                       threPending, byte, offered>>

PollMark == /\ At("main", "pollMark")
            /\ noteInterruptEnabled("main", "enter")
            /\ UNCHANGED <<sendQueue, uart, cts, threEnabled, threPending, byte, offered>>

-----------------------------------------------------------------------------
(* handleTransmitInterrupt, run by the main loop and by the handler.        *)

EnterTransmit(c) ==
    /\ At(c, "enter")
    /\ disableTransmitInterrupt
    /\ Goto(c, IF CTS_STATE = "INACTIVE" THEN "idle" ELSE "busy")
    /\ UNCHANGED <<sendQueue, uart, cts, threPending, byte, offered>>

UartBusy == fifo # <<>> \/ shift # <<>>

WaitWhileBusy(c) == /\ At(c, "busy")
                    /\ ~UartBusy
                    /\ Goto(c, "drain")
                    /\ UNCHANGED <<sendQueue, uart, cts, irq, byte, offered>>

PeekByte(c) == /\ At(c, "drain")
               /\ \/ /\ sendQueue # <<>>
                     /\ byte' = [byte EXCEPT ![c] = Head(sendQueue)]
                     /\ Goto(c, "send")
                  \/ /\ sendQueue = <<>>
                     /\ Goto(c, "rearm")
                     /\ UNCHANGED byte
               /\ UNCHANGED <<sendQueue, uart, cts, irq, offered>>

\* Mutant: the result of UART_Send is ignored and the byte popped anyway.
SendByteUnchecked(c) ==
    /\ At(c, "send")
    /\ fifo' = IF Len(fifo) < FifoDepth THEN Append(fifo, byte[c]) ELSE fifo
    /\ threPending' = FALSE
    /\ byte' = [byte EXCEPT ![c] = NoByte]
    /\ Goto(c, "pop")
    /\ UNCHANGED <<sendQueue, txEnabled, shift, wire, cts, threEnabled,
                   TRANSMIT_INTERRUPT_STATUS, offered>>

\* UART_Send, non-blocking: a byte the UART has no room for is refused.
SendByte(c) == /\ At(c, "send")
               /\ \/ /\ Len(fifo) < FifoDepth
                     /\ fifo' = Append(fifo, byte[c])
                     /\ threPending' = FALSE
                     /\ Goto(c, "pop")
                  \/ /\ Len(fifo) = FifoDepth
                     /\ Goto(c, "rearm")
                     /\ UNCHANGED <<fifo, threPending>>
               /\ byte' = [byte EXCEPT ![c] = NoByte]
               /\ UNCHANGED <<sendQueue, txEnabled, shift, wire, cts, threEnabled,
                              TRANSMIT_INTERRUPT_STATUS, offered>>

PopByte(c) == /\ At(c, "pop")
              /\ sendQueue' = Tail(sendQueue)
              /\ Goto(c, "drain")
              /\ UNCHANGED <<uart, cts, irq, byte, offered>>

Rearm(c) == /\ At(c, "rearm")
            /\ \/ /\ sendQueue = <<>>
                  /\ disableTransmitInterrupt
                  /\ Goto(c, "idle")
               \/ /\ sendQueue # <<>>
                  /\ enableTransmitInterrupt(c, "rearmMark", "idle")
                  /\ UNCHANGED TRANSMIT_INTERRUPT_STATUS
            /\ UNCHANGED <<sendQueue, uart, cts, threPending, byte, offered>>

RearmMark(c) == /\ At(c, "rearmMark")
                /\ noteInterruptEnabled(c, "idle")
                /\ UNCHANGED <<sendQueue, uart, cts, threEnabled, threPending,
                               byte, offered>>

handleTransmitInterrupt(c) ==
    \/ EnterTransmit(c) \/ WaitWhileBusy(c) \/ PeekByte(c) \/ SendByte(c)
    \/ PopByte(c) \/ Rearm(c) \/ RearmMark(c)

-----------------------------------------------------------------------------
(* UART1_IRQHandler.  Reading the interrupt's identity clears the THRE      *)
(* latch, and THRE is served before a modem status change.                  *)

ThreInterrupt == threEnabled /\ threPending

InterruptThre == /\ pc["isr"] = "idle"
                 /\ ThreInterrupt
                 /\ threPending' = FALSE
                 /\ Goto("isr", "enter")
                 /\ UNCHANGED <<sendQueue, uart, cts, threEnabled,
                                TRANSMIT_INTERRUPT_STATUS, byte, offered>>

\* Mutant: the handler forgets UART_TxCmd.
TxCmdForgotten == UNCHANGED txEnabled

TxCmd == txEnabled' = (ctsLine = "ACTIVE")

InterruptModem == /\ pc["isr"] = "idle"
                  /\ ctsDelta
                  /\ ~ThreInterrupt
                  /\ ctsDelta' = FALSE
                  /\ CTS_STATE' = ctsLine
                  /\ TxCmd
                  /\ UNCHANGED <<sendQueue, ctsLine, fifo, shift, wire, irq, pc,
                                 byte, offered>>

-----------------------------------------------------------------------------
(* The hardware and the peer.                                               *)

LoadShift == /\ txEnabled
             /\ shift = <<>>
             /\ fifo # <<>>
             /\ shift' = <<Head(fifo)>>
             /\ fifo' = Tail(fifo)
             /\ threPending' = (threPending \/ Len(fifo) = 1)
             /\ UNCHANGED <<sendQueue, txEnabled, wire, cts, threEnabled,
                            TRANSMIT_INTERRUPT_STATUS, pc, byte, offered>>

\* A byte that is being sent leaves even when the transmitter is disabled.
ShiftOut == /\ shift # <<>>
            /\ wire' = wire \o shift
            /\ shift' = <<>>
            /\ UNCHANGED <<sendQueue, txEnabled, fifo, cts, irq, pc, byte, offered>>

PeerTogglesCts == /\ ctsLine' = IF ctsLine = "ACTIVE" THEN "INACTIVE" ELSE "ACTIVE"
                  /\ ctsDelta' = TRUE
                  /\ UNCHANGED <<sendQueue, uart, CTS_STATE, irq, pc, byte, offered>>

-----------------------------------------------------------------------------
MainStep == processSerialSendQueue \/ Poll \/ PollMark \/ handleTransmitInterrupt("main")

HandlerStep == InterruptThre \/ InterruptModem \/ handleTransmitInterrupt("isr")

UartStep == LoadShift \/ ShiftOut

Next == \/ \E b \in Byte : Enqueue(b)
        \/ MainStep
        \/ HandlerStep
        \/ UartStep
        \/ PeerTogglesCts

Spec == Init /\ [][Next]_vars

\* The loop in main() never ends, an enabled interrupt is served and the UART
\* shifts by itself.  Nothing obliges the peer, nor anyone to offer a byte.
Fairness == /\ WF_vars(MainStep)
            /\ WF_vars(HandlerStep)
            /\ WF_vars(UartStep)

FairSpec == Spec /\ Fairness

-----------------------------------------------------------------------------
TypeOK == /\ sendQueue \in Seq(Byte) /\ Len(sendQueue) <= QueueCapacity
          /\ threEnabled \in BOOLEAN
          /\ TRANSMIT_INTERRUPT_STATUS \in {"SET", "RESET"}
          /\ CTS_STATE \in {"ACTIVE", "INACTIVE"}
          /\ ctsLine \in {"ACTIVE", "INACTIVE"}
          /\ ctsDelta \in BOOLEAN
          /\ txEnabled \in BOOLEAN
          /\ threPending \in BOOLEAN
          /\ fifo \in Seq(Byte) /\ Len(fifo) <= FifoDepth
          /\ shift \in Seq(Byte) /\ Len(shift) <= 1
          /\ pc \in [Context -> Label]
          /\ byte \in [Context -> Byte \cup {NoByte}]
          /\ offered \in Seq(Byte) /\ Len(offered) <= MaxBytes
          /\ wire \in Seq(Byte)

Draining(c) == pc[c] \in {"drain", "send", "pop"}

\* The main loop and the interrupt handler are never both in the part of
\* handleTransmitInterrupt that peeks, sends and pops (serialutil.c:100-107):
\* the routine masks the interrupt before it touches the queue.
OneDrainer == ~(Draining("main") /\ Draining("isr"))

\* The bytes of the send queue the UART does not hold yet: a byte is still in
\* the queue for one step after the UART took it.
Unsent == IF \E c \in Context : pc[c] = "pop" THEN Tail(sendQueue) ELSE sendQueue

\* Every byte put in the send queue is in exactly one place and in its turn: at
\* the peer, in the UART or still to send.  No interleaving of the peek, send
\* and pop of serialutil.c:100-107 with the handler loses, repeats or reorders one.
ExactlyOnceInOrder == offered = wire \o shift \o fifo \o Unsent

\* From the masking of the interrupt in handleTransmitInterrupt until its last
\* look at the queue.
Masked == {"busy", "drain", "send", "pop", "rearm"}

\* While one context is in the masked part the interrupt is off, so a handler that
\* runs found the main loop outside it; and a byte that was peeked is still the
\* head of the queue when it is sent and when it is popped.
MaskInv == /\ \A c \in Context : pc[c] \in Masked => ~threEnabled
           /\ pc["isr"] # "idle" => pc["main"] \notin Masked
           /\ pc["isr"] \notin {"poll", "pollMark"}
           /\ \A c \in Context :
                 /\ pc[c] \in {"send", "pop"} => sendQueue # <<>>
                 /\ pc[c] = "send" => byte[c] = Head(sendQueue)

\* The inductive invariant: what the masking of serialutil.c:92 buys, and what it
\* is for.
TransmitInv == MaskInv /\ ExactlyOnceInOrder

\* Once the handler has noted that the peer dropped CTS, no further byte starts
\* to leave until it has noted that CTS is back ("Stop current transmission
\* immediately", serialutil.c:130-132), whatever the main loop feeds the FIFO.
NoByteStartsWhileStopped ==
    [][CTS_STATE = "INACTIVE" => shift' \in {shift, <<>>}]_vars

Channel == INSTANCE ByteChannel

\* The transmit path implements the channel that delivers each byte once, in order.
ImplementsByteChannel == Channel!ChanSpec

\* If the peer eventually holds CTS active, every byte put in the send queue
\* reaches it, although the interrupt and the program's copy of its state can
\* disagree (serialutil.c:69-74) and the THRE latch can be lost: the main loop polls.
EveryByteDelivered ==
    <>[](ctsLine = "ACTIVE") =>
        \A n \in 1 .. MaxBytes : (Len(offered) >= n) ~> (Len(wire) >= n)

\* What the comment above configureFlowControl claims ("we handle it manually so
\* we can make them asynchronous", serialutil.c:158-161): once started, the main
\* loop's transmit call returns whatever the peer does with CTS.
MainLoopNeverWaits == (pc["main"] = "busy") ~> (pc["main"] = "idle")
=============================================================================
