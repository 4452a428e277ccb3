------------------------------- MODULE PicSend -------------------------------
(***************************************************************************)
(* How the PIC32 sends, over USB (src/src/pic32/usbutil.cpp) and over the  *)
(* UART (src/src/pic32/serialutil.cpp).  The USB library sends from the    *)
(* program's own sendBuffer, so processUsbSendQueue must wait until the    *)
(* host has taken a transfer before it touches the buffer; it waits only   *)
(* so long, and then gives up what is left in it.  The write to the UART   *)
(* waits as long as it takes.  The USB interrupt and the host run at any   *)
(* step in between.  The module gives the actions; HostLink puts them in   *)
(* the main loop.                                                          *)
(*                                                                         *)
(* The bytes put in the send queue are numbered from 1.                    *)
(***************************************************************************)
EXTENDS Integers, Sequences, FiniteSetsExt

CONSTANTS SendQueueCapacity,  \* of the send queue (512)
          SendBufferSize,     \* USB_SEND_BUFFER_SIZE (512)
          SendPacketSize,     \* MAX_USB_PACKET_SIZE_BYTES (64)
          MaxMessageSize,     \* MAX_MESSAGE_SIZE (128), what one write to the UART takes
          MaxWait,            \* USB_HANDLE_MAX_WAIT_COUNT (35000)
          MaxProduced,        \* bound on the bytes put in the send queue
          MaxConfigured       \* bound on how often a host configures the device

\* The queue fits into the buffer: what comes next is copied over a transfer only after
\* the wait of another call.
ASSUME SendAssumption == /\ {SendQueueCapacity, SendBufferSize, SendPacketSize,
                             MaxMessageSize} \subseteq Nat \ {0}
                         /\ SendQueueCapacity <= SendBufferSize
                         /\ MaxMessageSize <= SendBufferSize
                         /\ {MaxWait, MaxProduced, MaxConfigured} \subseteq Nat

VARIABLES sendPc,      \* where processUsbSendQueue or processSerialSendQueue is
          configured,
          vbus,        \* the host supplies power
          sendQueue,
          sendBuffer,
          transfer,    \* the places of sendBuffer that the handle covers, none if it is free
          byteCount, nextByteIndex,
          waited,      \* the counter of waitForHandle
          produced,    \* history: bytes put in the send queue
          taken,       \* history: the bytes the host took, in order
          givenUp,     \* history: bytes dropped after a wait, or with a transfer cancelled
          timesConfigured

loopVars == <<sendPc, sendBuffer, byteCount, nextByteIndex, waited>>

sendVars == <<loopVars, configured, vbus, sendQueue, transfer, produced, taken, givenUp,
              timesConfigured>>

Place == 1 .. SendBufferSize

InitSend == /\ sendPc = "start"
            /\ configured = FALSE /\ vbus = TRUE /\ timesConfigured = 0
            /\ sendQueue = <<>>
            /\ sendBuffer = [i \in Place |-> 0]
            /\ transfer = {}
            /\ byteCount = 0 /\ nextByteIndex = 0 /\ waited = 0
            /\ produced = 0 /\ taken = <<>> /\ givenUp = {}

\* What a set of places of the buffer holds.
Held(places) == {sendBuffer[i] : i \in places}

-----------------------------------------------------------------------------
(* The host, and the USB interrupt.                                         *)

VbusChanges == /\ vbus' = ~vbus
               /\ vbus => timesConfigured < MaxConfigured
               /\ UNCHANGED <<loopVars, configured, sendQueue, transfer, produced, taken, givenUp,
                              timesConfigured>>

\* usbCallback.  A host resets the bus before, which cancels what was to be sent.
EventConfigured == /\ vbus /\ timesConfigured < MaxConfigured
                   /\ timesConfigured' = timesConfigured + 1
                   /\ configured' = TRUE
                   /\ transfer' = {}
                   /\ givenUp' = givenUp \cup Held(transfer)
                   /\ UNCHANGED <<loopVars, vbus, sendQueue, produced, taken>>

\* The bytes go out as they are in the buffer now.
HostTakes == /\ vbus /\ transfer # {}
             /\ taken' = taken \o SubSeq(sendBuffer, Min(transfer), Max(transfer))
             /\ transfer' = {}
             /\ UNCHANGED <<loopVars, configured, vbus, sendQueue, produced, givenUp, timesConfigured>>

-----------------------------------------------------------------------------
(* The main loop.                                                           *)

\* Bytes that found room in the send queue (see Listener).
Produce == /\ produced < MaxProduced /\ Len(sendQueue) < SendQueueCapacity
           /\ produced' = produced + 1
           /\ sendQueue' = Append(sendQueue, produced')
           /\ UNCHANGED <<loopVars, configured, vbus, transfer, taken, givenUp, timesConfigured>>

vbusEnabled == ~vbus  \* sic

CheckVbus == /\ sendPc = "start"
             /\ configured' = (configured /\ ~vbusEnabled)
             /\ sendPc' = "wait" /\ waited' = 0
             /\ UNCHANGED <<sendBuffer, byteCount, nextByteIndex, vbus, sendQueue, transfer,
                            produced, taken, givenUp, timesConfigured>>

Busy == configured /\ transfer # {}

\* Mutant: the turns of the wait are not counted.
CountedNot == waited

Counted == waited + 1

Timeout == Counted > MaxWait

\* waitForHandle, one turn of its loop while the handle is busy; "left" is the part of
\* the buffer that is dropped if it gives up.
WaitForHandle(left) ==
    /\ Busy
    /\ waited' = Counted
    /\ sendPc' = IF Timeout THEN "done" ELSE sendPc
    /\ givenUp' = IF Timeout THEN givenUp \cup Held(left) ELSE givenUp
    /\ UNCHANGED <<sendBuffer, byteCount, nextByteIndex, configured, vbus, sendQueue, transfer,
                   produced, taken, timesConfigured>>

\* "Don't touch usbDevice->sendBuffer if there's still a pending transfer."
WaitBefore == sendPc = "wait" /\ WaitForHandle({})

\* Mutant: the buffer is filled whether a transfer is pending or not.
HandleFreeIgnored == sendPc = "wait"

HandleFree == sendPc = "wait" /\ ~Busy

StartSending == /\ HandleFree
                /\ sendPc' = "fill"
                /\ UNCHANGED <<sendBuffer, byteCount, nextByteIndex, waited, configured, vbus,
                               sendQueue, transfer, produced, taken, givenUp, timesConfigured>>

FillBuffer == /\ sendPc = "fill" /\ configured /\ sendQueue # <<>>
              /\ byteCount' = Min({Len(sendQueue), SendBufferSize})
              /\ sendBuffer' = [i \in Place |-> IF i <= byteCount' THEN sendQueue[i]
                                                                  ELSE sendBuffer[i]]
              /\ sendQueue' = SubSeq(sendQueue, byteCount' + 1, Len(sendQueue))
              /\ nextByteIndex' = 0 /\ waited' = 0
              /\ sendPc' = "write"
              /\ UNCHANGED <<configured, vbus, transfer, produced, taken, givenUp, timesConfigured>>

NothingToSend == /\ sendPc = "fill" /\ (~configured \/ sendQueue = <<>>)
                 /\ sendPc' = "done"
                 /\ UNCHANGED <<sendBuffer, byteCount, nextByteIndex, waited, configured, vbus,
                                sendQueue, transfer, produced, taken, givenUp, timesConfigured>>

\* Mutant: a last packet that is not full is not sent.
MoreFullOnly == nextByteIndex + SendPacketSize <= byteCount

More == nextByteIndex < byteCount

WaitBetween == sendPc = "write" /\ More /\ WaitForHandle(nextByteIndex + 1 .. byteCount)

GenWrite == /\ sendPc = "write" /\ More /\ ~Busy
            /\ nextByteIndex' = Min({nextByteIndex + SendPacketSize, byteCount})
            /\ transfer' = nextByteIndex + 1 .. nextByteIndex'
            /\ waited' = 0
            /\ UNCHANGED <<sendPc, sendBuffer, byteCount, configured, vbus, sendQueue, produced,
                           taken, givenUp, timesConfigured>>

BufferSent == /\ sendPc = "write" /\ ~More
              /\ sendPc' = "fill"
              /\ UNCHANGED <<sendBuffer, byteCount, nextByteIndex, waited, configured, vbus,
                             sendQueue, transfer, produced, taken, givenUp, timesConfigured>>

\* processSerialSendQueue: the write of what was popped begins.
SerialWrite == /\ sendPc = "start"
               /\ byteCount' = Min({Len(sendQueue), MaxMessageSize})
               /\ sendBuffer' = [i \in Place |-> IF i <= byteCount' THEN sendQueue[i]
                                                                   ELSE sendBuffer[i]]
               /\ sendQueue' = SubSeq(sendQueue, byteCount' + 1, Len(sendQueue))
               /\ transfer' = 1 .. byteCount'
               /\ sendPc' = "written"
               /\ UNCHANGED <<nextByteIndex, waited, configured, vbus, produced, taken, givenUp,
                              timesConfigured>>

\* It returns when the peer has taken all of it.
SerialWritten == /\ sendPc = "written" /\ transfer = {}
                 /\ sendPc' = "done"
                 /\ UNCHANGED <<sendBuffer, byteCount, nextByteIndex, waited, configured, vbus,
                                sendQueue, transfer, produced, taken, givenUp, timesConfigured>>

\* The function returns; the next pass starts it again.
NextPass == /\ sendPc = "done"
            /\ sendPc' = "start"
            /\ UNCHANGED <<sendBuffer, byteCount, nextByteIndex, waited, configured, vbus,
                           sendQueue, transfer, produced, taken, givenUp, timesConfigured>>

UsbSendStep == \/ CheckVbus \/ WaitBefore \/ StartSending \/ FillBuffer \/ NothingToSend
               \/ WaitBetween \/ GenWrite \/ BufferSent \/ NextPass

SerialSendStep == SerialWrite \/ SerialWritten \/ NextPass

-----------------------------------------------------------------------------
SendTypeOK == /\ sendPc \in {"start", "wait", "fill", "write", "written", "done"}
              /\ configured \in BOOLEAN /\ vbus \in BOOLEAN
              /\ Len(sendQueue) <= SendQueueCapacity
              /\ \A i \in 1 .. Len(sendQueue) : sendQueue[i] \in 1 .. produced
              /\ sendBuffer \in [Place -> 0 .. produced]
              /\ transfer \subseteq Place
              /\ byteCount \in 0 .. SendBufferSize /\ nextByteIndex \in 0 .. byteCount
              /\ waited \in 0 .. MaxWait + 1
              /\ produced \in 0 .. MaxProduced
              /\ timesConfigured \in 0 .. MaxConfigured

Bytes == INSTANCE LossyChannel WITH offered <- produced, delivered <- taken

\* Although the library sends from a buffer that the program fills again, and waits that
\* run out leave transfers pending, the host never gets a byte twice or after a younger
\* one ("make sure the USB write is 100% complete before messing with this buffer",
\* pic32/usbutil.cpp:97-99).
BytesLostAtMost == Bytes!LossySpec

Unwritten == IF sendPc = "write" THEN nextByteIndex + 1 .. byteCount ELSE {}

\* And it loses none, unless a wait ran out or a host cancelled a transfer: every byte
\* has been taken, is in the transfer, waits in the buffer or in the queue.
LostOnlyWhenGivenUp ==
    1 .. produced \subseteq {taken[i] : i \in 1 .. Len(taken)} \cup Held(transfer \cup Unwritten)
                               \cup {sendQueue[i] : i \in 1 .. Len(sendQueue)} \cup givenUp
=============================================================================
