------------------------------- MODULE Listener -------------------------------
(***************************************************************************)
(* The listener (src/src/listener.cpp) and the byte queues of its output   *)
(* interfaces (conditionalEnqueue in src/src/buffers.c).                   *)
(*                                                                         *)
(* sendMessage offers a message to each interface in turn: USB if a host   *)
(* has configured it, UART and Ethernet if they were built in.  An         *)
(* interface whose queue lacks the room drops the message.  The message is *)
(* pushed one byte at a time with no test of the result, while the UART    *)
(* interrupt takes bytes from the other end of its queue and a USB         *)
(* interrupt flips the configured flag.                                    *)
(***************************************************************************)
EXTENDS Naturals, Sequences

CONSTANTS Message,        \* what the translator sends
          NoMessage,      \* sendMessage is not running
          Size,           \* the length of each message
          Fitted,         \* the interfaces of this build
          QueueCapacity,  \* of each send queue (512 in buffers.h)
          SendBufferSize, \* of the USB send buffer (512 in usbutil.h)
          NetworkBufferSize, \* of the Ethernet send buffer (128 in ethernetutil.cpp)
          LogThreshold,   \* DROPPED_MESSAGE_LOGGING_THRESHOLD
          MaxMessages     \* bound on the messages sent in a behavior

Interface == {"USB", "UART", "ETHERNET"}

ASSUME ListenerAssumption == /\ NoMessage \notin Message
                             /\ Size \in [Message -> Nat]
                             /\ Fitted \subseteq Interface /\ "USB" \in Fitted
                             /\ QueueCapacity \in Nat
                             /\ SendBufferSize \in Nat
                             /\ QueueCapacity <= SendBufferSize
                             /\ NetworkBufferSize \in Nat \ {0}
                             /\ LogThreshold \in Nat
                             /\ MaxMessages \in Nat

VARIABLES sendQueue,       \* the send queue of each interface
          configured,      \* listener->usb->configured
          droppedMessages, \* since the last log line, for each interface
          message,         \* the argument of sendMessage
          turn,            \* the interface sendMessage is at
          pushed,          \* bytes of the message pushed at that interface
          owed,            \* history: the frames an interface accepted
          left,            \* history: the bytes that left its queue
          transfer,        \* history: the last USB transfer
          offers,          \* history: messages sendMessage finished with
          accepts,         \* history: messages each interface accepted
          refusals         \* history: messages each interface dropped

vars == <<sendQueue, configured, droppedMessages, message, turn, pushed,
          owed, left, transfer, offers, accepts, refusals>>

call    == <<message, turn, pushed>>
history == <<owed, left, transfer, offers, accepts, refusals>>

-----------------------------------------------------------------------------
(* A byte is told apart by its message and its place in the message's       *)
(* frame; the last two places are the CR and the LF.                        *)

FrameLength(m) == Size[m] + 2

Frame(m) == [k \in 1 .. FrameLength(m) |-> <<m, k>>]

Byte == UNION {{<<m, k>> : k \in 1 .. FrameLength(m)} : m \in Message}

-----------------------------------------------------------------------------
Init == /\ sendQueue = [i \in Interface |-> <<>>]
        /\ configured = FALSE
        /\ droppedMessages = [i \in Interface |-> 0]
        /\ message = NoMessage
        /\ turn = "USB"
        /\ pushed = 0
        /\ owed = [i \in Interface |-> <<>>]
        /\ left = [i \in Interface |-> <<>>]
        /\ transfer = <<>>
        /\ offers = 0
        /\ accepts = [i \in Interface |-> 0]
        /\ refusals = [i \in Interface |-> 0]

-----------------------------------------------------------------------------
(* sendMessage.  pushed = 0: at the test for this interface; otherwise the  *)
(* next byte of the frame to push.                                          *)

sendMessage(m) == /\ message = NoMessage
                  /\ offers < MaxMessages
                  /\ message' = m
                  /\ turn' = "USB"
                  /\ pushed' = 0
                  /\ UNCHANGED <<sendQueue, configured, droppedMessages, history>>

\* The next interface, or the end of the call.
Advance == /\ pushed' = 0
           /\ \/ turn = "USB" /\ turn' = "UART" /\ UNCHANGED <<message, offers>>
              \/ turn = "UART" /\ turn' = "ETHERNET" /\ UNCHANGED <<message, offers>>
              \/ turn = "ETHERNET" /\ turn' = "USB" /\ message' = NoMessage
                                   /\ offers' = offers + 1

AtTest == message # NoMessage /\ pushed = 0

Attached(i) == IF i = "USB" THEN configured ELSE i \in Fitted

SkipInterface == /\ AtTest
                 /\ ~Attached(turn)
                 /\ Advance
                 /\ UNCHANGED <<sendQueue, configured, droppedMessages, owed, left,
                                transfer, accepts, refusals>>

\* Mutant: the room for the CRLF is not counted.
HasRoomForText(i, m) == QueueCapacity - Len(sendQueue[i]) >= Size[m]

HasRoom(i, m) == QueueCapacity - Len(sendQueue[i]) >= Size[m] + 2

\* conditionalEnqueue, the test: from here to the last push the queue only loses bytes.
Accept == /\ AtTest
          /\ Attached(turn)
          /\ HasRoom(turn, message)
          /\ pushed' = 1
          /\ owed' = [owed EXCEPT ![turn] = @ \o Frame(message)]
          /\ accepts' = [accepts EXCEPT ![turn] = @ + 1]
          /\ UNCHANGED <<sendQueue, configured, droppedMessages, message, turn, left,
                         transfer, offers, refusals>>

\* Mutant: the counter is not set back when it is logged.
droppedMessageNoReset(i) == droppedMessages' = [droppedMessages EXCEPT ![i] = @ + 1]

droppedMessage(i) ==
    droppedMessages' = [droppedMessages EXCEPT ![i] =
                           IF @ + 1 > LogThreshold THEN 0 ELSE @ + 1]

\* Mutant: sendMessage gives up at the first interface that drops the message.
GiveUp == /\ message' = NoMessage /\ turn' = "USB" /\ pushed' = 0
          /\ offers' = offers + 1

AfterDrop == Advance

Drop == /\ AtTest
        /\ Attached(turn)
        /\ ~HasRoom(turn, message)
        /\ droppedMessage(turn)
        /\ refusals' = [refusals EXCEPT ![turn] = @ + 1]
        /\ AfterDrop
        /\ UNCHANGED <<sendQueue, configured, owed, left, transfer, accepts>>

\* QUEUE_PUSH: a byte that does not fit is lost.
Push(q, b) == IF Len(q) < QueueCapacity THEN Append(q, b) ELSE q

PushByte == /\ pushed # 0
            /\ sendQueue' = [sendQueue EXCEPT ![turn] = Push(@, Frame(message)[pushed])]
            /\ \/ /\ pushed < FrameLength(message)
                  /\ pushed' = pushed + 1
                  /\ UNCHANGED <<message, turn, offers>>
               \/ /\ pushed = FrameLength(message)
                  /\ Advance
            /\ UNCHANGED <<configured, droppedMessages, owed, left, transfer,
                           accepts, refusals>>

-----------------------------------------------------------------------------
(* The other ends of the queues.                                            *)

Take(i, n) == /\ sendQueue' = [sendQueue EXCEPT ![i] = SubSeq(@, n + 1, Len(@))]
              /\ left' = [left EXCEPT ![i] = @ \o SubSeq(sendQueue[i], 1, n)]

\* The transmit interrupt pops a byte at any time (see SerialTransmit).
SerialSend == /\ sendQueue["UART"] # <<>>
              /\ Take("UART", 1)
              /\ UNCHANGED <<configured, droppedMessages, call, owed, transfer, offers,
                             accepts, refusals>>

\* Both send routines pop until the queue is empty or their buffer is full.
WhatFits(i, size) == IF Len(sendQueue[i]) < size THEN Len(sendQueue[i]) ELSE size

\* Mutant: a transfer is no longer than a packet.
OnePacket == WhatFits("USB", 2)

TransferLength == WhatFits("USB", SendBufferSize)

\* sendToHost, from the main loop: when the host can take a transfer it gets what
\* the send buffer holds.
sendToHost == /\ message = NoMessage
              /\ configured
              /\ sendQueue["USB"] # <<>>
              /\ Take("USB", TransferLength)
              /\ transfer' = SubSeq(sendQueue["USB"], 1, TransferLength)
              /\ UNCHANGED <<configured, droppedMessages, call, owed, offers,
                             accepts, refusals>>

\* processEthernetSendQueue, from the main loop.
EthernetSend == /\ message = NoMessage
                /\ sendQueue["ETHERNET"] # <<>>
                /\ Take("ETHERNET", WhatFits("ETHERNET", NetworkBufferSize))
                /\ UNCHANGED <<configured, droppedMessages, call, owed, transfer, offers,
                               accepts, refusals>>

\* The host configures the device or goes away.  The send queue stays as it is.
UsbEvent == /\ configured' = ~configured
            /\ UNCHANGED <<sendQueue, droppedMessages, call, history>>

-----------------------------------------------------------------------------
Next == \/ \E m \in Message : sendMessage(m)
        \/ SkipInterface \/ Accept \/ Drop \/ PushByte
        \/ SerialSend \/ sendToHost \/ EthernetSend
        \/ UsbEvent

Spec == Init /\ [][Next]_vars

-----------------------------------------------------------------------------
TypeOK == /\ sendQueue \in [Interface -> Seq(Byte)]
          /\ \A i \in Interface : Len(sendQueue[i]) <= QueueCapacity
          /\ configured \in BOOLEAN
          /\ droppedMessages \in [Interface -> 0 .. LogThreshold]
          /\ message \in Message \cup {NoMessage}
          /\ turn \in Interface
          /\ pushed \in Nat
          /\ pushed # 0 => message # NoMessage /\ pushed <= FrameLength(message)
          /\ owed \in [Interface -> Seq(Byte)]
          /\ left \in [Interface -> Seq(Byte)]
          /\ transfer \in Seq(Byte)
          /\ offers \in 0 .. MaxMessages
          /\ accepts \in [Interface -> 0 .. MaxMessages]
          /\ refusals \in [Interface -> 0 .. MaxMessages]

\* The part of the current message's frame that interface i is still to get.
StillToPush(i) == IF turn = i /\ pushed # 0
                  THEN SubSeq(Frame(message), pushed, FrameLength(message))
                  ELSE <<>>

\* The stream of each interface is made of whole frames, each ended by its CRLF, in
\* the order they were accepted: a push never meets a full queue (buffers.c:39-43
\* ignores the result), the interrupt that takes bytes in the middle of the pushes
\* does no harm, and a message that is dropped leaves no part behind.
WholeFrames == \A i \in Interface : owed[i] = left[i] \o sendQueue[i] \o StillToPush(i)

\* "It will be dropped for that interface only (i.e. UART can be overloaded and
\* dropping messages but USB will continue)" (listener.h:26-30): whatever the other
\* interfaces did, each fitted one has answered every message.
DroppedForThatInterfaceOnly ==
    \A i \in Fitted \ {"USB"} :
        message = NoMessage => accepts[i] + refusals[i] = offers

\* A USB transfer holds whole messages, so a host that configures the device anew,
\* and finds in the queue what the last host left, starts at the start of a message.
\* It takes a send buffer no smaller than the queue (usbutil.h, buffers.h:12).
WholeTransfers == transfer # <<>> =>
                     /\ transfer[1][2] = 1
                     /\ LET last == transfer[Len(transfer)]
                        IN  last[2] = FrameLength(last[1])
=============================================================================
