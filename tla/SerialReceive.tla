---------------------------- MODULE SerialReceive ----------------------------
(***************************************************************************)
(* The LPC17xx UART receive path (src/src/lpc17xx/serialutil.c) with the   *)
(* message search of processQueue (src/src/buffers.c).                     *)
(*                                                                         *)
(* The interrupt handler moves bytes from the UART to the receive queue    *)
(* and drops RTS when the queue is full.  The main loop takes a snapshot   *)
(* of the queue, looks for a message in it, empties the queue or leaves    *)
(* it, and raises RTS again.  Between any two of its steps the handler may *)
(* run.                                                                    *)
(*                                                                         *)
(* The UART asks for the handler as long as its FIFO holds a byte, so the  *)
(* main loop gets no step until the FIFO is empty: a handler that leaves a *)
(* byte there is entered again at once.                                    *)
(***************************************************************************)
EXTENDS Naturals, Sequences

CONSTANTS QueueCapacity,  \* of the receive queue (512 in buffers.h)
          RxFifoDepth,    \* bytes the UART holds
          MaxBytes        \* bound on the bytes the peer sends

ASSUME ReceiveAssumption == /\ QueueCapacity \in Nat \ {0}
                            /\ RxFifoDepth \in Nat \ {0}
                            /\ MaxBytes \in Nat

VARIABLES receiveQueue,   \* listener.serial->receiveQueue
          RTS_STATE,      \* the program's copy of the RTS line
          rtsLine,        \* the line itself: the peer may send while it is active
          rxFifo,         \* bytes in the UART
          pc,             \* where the main loop is
          snapshot,       \* the copy of the queue that processQueue works on
          sent,           \* history: number of bytes the peer sent
          taken,          \* history: bytes the handler read from the UART
          gone            \* history: bytes the main loop cleared from the queue

vars == <<receiveQueue, RTS_STATE, rtsLine, rxFifo, pc, snapshot, sent, taken, gone>>

rts == <<RTS_STATE, rtsLine>>
history == <<sent, taken, gone>>

\* A message is any bytes from "open" to "close"; "nul" is a byte no message has.
Byte == {"open", "close", "nul"}

Label == {"idle", "checkFull", "reset", "checkRoom", "resume", "noteActive"}

Full == Len(receiveQueue) = QueueCapacity

-----------------------------------------------------------------------------
(* The callback, receiveWriteRequest: is there a message at the front of    *)
(* the snapshot?  cJSON parses a string, and the snapshot does not end in a *)
(* NUL: the parse of a message that has only begun goes on in whatever      *)
(* follows the snapshot in memory, and may find its end there.              *)

Complete(s) == \E i \in 2 .. Len(s) : /\ s[1] = "open" /\ s[i] = "close"
                                      /\ \A j \in 1 .. i : s[j] # "nul"

Begun(s) == /\ s[1] = "open"
            /\ \A j \in 2 .. Len(s) : s[j] = "open"

MessageFound(s) == IF Complete(s) THEN {TRUE}
                   ELSE IF Begun(s) THEN BOOLEAN
                   ELSE {FALSE}

\* strnchr is told of all but the last byte of the snapshot, and looks one further.
Corrupted(s) == \E i \in 1 .. Len(s) : s[i] = "nul"

-----------------------------------------------------------------------------
Init == /\ receiveQueue = <<>>
        /\ RTS_STATE = "ACTIVE"
        /\ rtsLine = "ACTIVE"
        /\ rxFifo = <<>>
        /\ pc = "idle"
        /\ snapshot = <<>>
        /\ sent = 0
        /\ taken = <<>>
        /\ gone = <<>>

-----------------------------------------------------------------------------
(* The main loop: readFromSerial, processQueue and resumeReceive.           *)

MainAt(label) == rxFifo = <<>> /\ pc = label

TakeSnapshot == snapshot' = receiveQueue

readFromSerial == /\ MainAt("idle")
                  /\ receiveQueue # <<>>
                  /\ TakeSnapshot
                  /\ \E found \in MessageFound(receiveQueue) :
                        pc' = IF found THEN "reset" ELSE "checkFull"
                  /\ UNCHANGED <<receiveQueue, rts, rxFifo, history>>

\* Mutant: the test for a corrupted queue is missing.
CheckFullOnly == /\ MainAt("checkFull")
                 /\ pc' = IF Full THEN "reset" ELSE "checkRoom"
                 /\ UNCHANGED <<receiveQueue, rts, rxFifo, snapshot, history>>

CheckFull == /\ MainAt("checkFull")
             /\ pc' = IF Full \/ Corrupted(snapshot) THEN "reset" ELSE "checkRoom"
             /\ UNCHANGED <<receiveQueue, rts, rxFifo, snapshot, history>>

Reset == /\ MainAt("reset")
         /\ receiveQueue' = <<>>
         /\ gone' = gone \o receiveQueue
         /\ pc' = "checkRoom"
         /\ UNCHANGED <<rts, rxFifo, snapshot, sent, taken>>

\* The snapshot goes out of scope here.
CheckRoom == /\ MainAt("checkRoom")
             /\ pc' = IF Full THEN "idle" ELSE "resume"
             /\ snapshot' = <<>>
             /\ UNCHANGED <<receiveQueue, rts, rxFifo, history>>

resumeReceive == /\ MainAt("resume")
                 /\ \/ /\ RTS_STATE = "INACTIVE"
                       /\ rtsLine' = "ACTIVE"
                       /\ pc' = "noteActive"
                    \/ /\ RTS_STATE = "ACTIVE"
                       /\ UNCHANGED rtsLine
                       /\ pc' = "idle"
                 /\ UNCHANGED <<receiveQueue, RTS_STATE, rxFifo, snapshot, history>>

NoteActive == /\ MainAt("noteActive")
              /\ RTS_STATE' = "ACTIVE"
              /\ pc' = "idle"
              /\ UNCHANGED <<receiveQueue, rtsLine, rxFifo, snapshot, history>>

-----------------------------------------------------------------------------
(* The interrupt handler.                                                   *)

\* Mutant: the copy of the line is not updated.
pauseLineOnly == IF RTS_STATE = "ACTIVE"
                 THEN rtsLine' = "INACTIVE" /\ UNCHANGED RTS_STATE
                 ELSE UNCHANGED rts

pauseReceive == IF RTS_STATE = "ACTIVE"
                THEN rtsLine' = "INACTIVE" /\ RTS_STATE' = "INACTIVE"
                ELSE UNCHANGED rts

\* Mutant: the handler reads the UART whether the queue has room or not.
RoomIgnored == Len(rxFifo)

\* The handler reads bytes until the UART has none or the queue is full.
Room == IF Len(rxFifo) < QueueCapacity - Len(receiveQueue)
        THEN Len(rxFifo) ELSE QueueCapacity - Len(receiveQueue)

\* QUEUE_PUSH of several bytes: what does not fit is lost.
PushAll(q, bytes) ==
    q \o SubSeq(bytes, 1, IF Len(bytes) < QueueCapacity - Len(q)
                          THEN Len(bytes) ELSE QueueCapacity - Len(q))

handleReceiveInterrupt ==
    /\ rxFifo # <<>>
    /\ LET bytes == SubSeq(rxFifo, 1, Room)
       IN  /\ rxFifo' = SubSeq(rxFifo, Room + 1, Len(rxFifo))
           /\ taken' = taken \o bytes
           /\ receiveQueue' = PushAll(receiveQueue, bytes)
           /\ IF bytes # <<>> /\ Len(receiveQueue') = QueueCapacity
              THEN pauseReceive ELSE UNCHANGED rts
    /\ UNCHANGED <<pc, snapshot, sent, gone>>

-----------------------------------------------------------------------------
(* The peer sends only while it sees RTS active.                            *)
PeerSends(b) == /\ rtsLine = "ACTIVE"
                /\ Len(rxFifo) < RxFifoDepth
                /\ sent < MaxBytes
                /\ rxFifo' = Append(rxFifo, b)
                /\ sent' = sent + 1
                /\ UNCHANGED <<receiveQueue, rts, pc, snapshot, taken, gone>>

-----------------------------------------------------------------------------
MainStep == readFromSerial \/ CheckFull \/ Reset \/ CheckRoom \/ resumeReceive \/ NoteActive

Next == \/ MainStep
        \/ handleReceiveInterrupt
        \/ \E b \in Byte : PeerSends(b)

Spec == Init /\ [][Next]_vars

\* The loop in main() never ends and an asserted interrupt is served.
FairSpec == Spec /\ WF_vars(MainStep) /\ WF_vars(handleReceiveInterrupt)

-----------------------------------------------------------------------------
\* Types, and: the line and the program's copy of it differ only between the two
\* writes of resumeReceive, a pause by the handler in between included.
TypeOK == /\ receiveQueue \in Seq(Byte) /\ Len(receiveQueue) <= QueueCapacity
          /\ RTS_STATE \in {"ACTIVE", "INACTIVE"}
          /\ rtsLine \in {"ACTIVE", "INACTIVE"}
          /\ RTS_STATE # rtsLine => pc = "noteActive" /\ rtsLine = "ACTIVE"
          /\ rxFifo \in Seq(Byte) /\ Len(rxFifo) <= RxFifoDepth
          /\ pc \in Label
          /\ snapshot \in Seq(Byte) /\ Len(snapshot) <= QueueCapacity
          /\ sent \in 0 .. MaxBytes
          /\ taken \in Seq(Byte)
          /\ gone \in Seq(Byte)

\* Every byte the handler read from the UART is in the queue or was cleared by the
\* main loop, in order: however the handler and processQueue interleave, QUEUE_PUSH
\* never meets a full queue (serialutil.c:77-81 ignores its result).
NoByteOverflows == taken = gone \o receiveQueue

\* The handler does not starve the main loop for ever (it does when it leaves a byte
\* in the UART for want of room: see FullQueueCleared).
LoopRuns == []<>(rxFifo = <<>>)

\* A peer that was stopped is let go on (serialutil.c:56-62, 151-152): the program's
\* copy of RTS never hides a stopped line from resumeReceive for good.
PeerResumed == LoopRuns => (rtsLine = "INACTIVE" ~> rtsLine = "ACTIVE")

\* "Unless the queue is full or corrupted (i.e. it has a NULL character but we stil
\* didn't find an OpenXC message), reset it back to empty" (buffers.h:14-18): a NUL
\* does not stay in the queue, although the search works on a snapshot the queue
\* outgrows and may find a message in the bytes in front of the NUL.
CorruptedQueueCleared == LoopRuns => (Corrupted(receiveQueue) ~> receiveQueue = <<>>)

\* What the comment of resumeReceive says ("We can handle more data now",
\* serialutil.c:55): when it raises RTS the queue has room.
ResumedWithRoom == [][rtsLine' = "ACTIVE" /\ rtsLine = "INACTIVE" => ~Full]_vars

\* What buffers.h:17-19 says of a full queue ("unless the queue is full or
\* corrupted ..., reset it back to empty"): it does not stay full.
FullQueueCleared == Full ~> ~Full
=============================================================================
