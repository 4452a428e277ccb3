---------------------------- MODULE HostLink_proofs ----------------------------
(***************************************************************************)
(* Proofs about the main loop between the host's requests and the data     *)
(* that goes to it, for every size of the queues, buffers and packets,     *)
(* every bound on the waits and every amount of traffic.                   *)
(***************************************************************************)
EXTENDS HostLink, SequenceLemmas, TLAPS

-----------------------------------------------------------------------------
(* The inductive invariant of the sending side.                             *)

\* The places of the buffer that are still to go out.
Pending == transfer \cup Unwritten

ByteLogs == sendQueue \in Seq(Nat) /\ taken \in Seq(Nat)

\* Where the sending may be, for each link, and what it has found out on the way: a
\* transfer may be pending in "fill" only when the host has not configured the device,
\* or when there is nothing left to send.
StageInv == /\ pc = "read" => sendPc = "start"
            /\ link \notin Pic => sendPc = "start"
            /\ link = "pic32 usb" => sendPc # "written"
            /\ link = "pic32 uart" => /\ sendPc \in {"start", "written", "done"}
                                      /\ sendPc # "written" => transfer = {}
                                      /\ nextByteIndex = 0
            /\ sendPc = "write" => configured /\ sendQueue = <<>>
            /\ sendPc = "fill" /\ configured /\ sendQueue # <<>> => transfer = {}
            /\ sendPc \in {"wait", "write"} => waited <= MaxWait

\* A transfer covers neighbours, and none of those that are not yet written.
TransferInv == /\ transfer # {} =>
                      \E lo, hi \in Place : lo <= hi /\ transfer = lo .. hi
               /\ sendPc = "write" => \A i \in transfer : i <= nextByteIndex

\* What is still to go out, and then the queue, is in order and younger than all the
\* host has taken.
OrderInv == /\ Bytes!Latest <= produced
            /\ \A i \in Pending : Bytes!Latest < sendBuffer[i]
            /\ \A i, j \in Pending : i < j => sendBuffer[i] < sendBuffer[j]
            /\ \A i \in Pending, k \in 1 .. Len(sendQueue) : sendBuffer[i] < sendQueue[k]
            /\ \A k \in 1 .. Len(sendQueue) : Bytes!Latest < sendQueue[k]
            /\ \A k, l \in 1 .. Len(sendQueue) : k < l => sendQueue[k] < sendQueue[l]

SendInv == /\ SendTypeOK /\ ByteLogs /\ StageInv /\ TransferInv /\ OrderInv
           /\ LostOnlyWhenGivenUp

-----------------------------------------------------------------------------
(* Numbers.                                                                 *)

\* What the assumption says of the sizes.
LEMMA SendFacts ==
  /\ SendQueueCapacity \in Nat /\ SendBufferSize \in Nat /\ SendPacketSize \in Nat
  /\ MaxMessageSize \in Nat /\ MaxWait \in Nat /\ MaxProduced \in Nat /\ MaxConfigured \in Nat
  /\ SendPacketSize > 0 /\ MaxMessageSize > 0
  /\ SendQueueCapacity <= SendBufferSize /\ MaxMessageSize <= SendBufferSize
  BY SendAssumption

\* The lesser of two numbers.
LEMMA MinOfTwo ==
  ASSUME NEW a \in Nat, NEW b \in Nat
  PROVE  Min({a, b}) = IF a <= b THEN a ELSE b
<1>1. PICK m \in {a, b} : \A y \in {a, b} : m =< y
  <2>1. CASE a <= b
    BY <2>1
  <2>2. CASE ~(a <= b)
    BY <2>2
  <2> QED
    BY <2>1, <2>2
<1>2. Min({a, b}) \in {a, b} /\ \A y \in {a, b} : Min({a, b}) =< y
  BY <1>1, Zenon DEF Min
<1> QED
  BY <1>2

\* The ends of an interval.
LEMMA EndsOfInterval ==
  ASSUME NEW lo \in Nat, NEW hi \in Nat, lo <= hi
  PROVE  Min(lo .. hi) = lo /\ Max(lo .. hi) = hi
<1>1. \A y \in lo .. hi : lo =< y /\ hi >= y
  OBVIOUS
<1>2. lo \in lo .. hi /\ hi \in lo .. hi
  OBVIOUS
<1>3. Min(lo .. hi) \in lo .. hi /\ \A y \in lo .. hi : Min(lo .. hi) =< y
  BY <1>1, <1>2, Zenon DEF Min
<1>4. Max(lo .. hi) \in lo .. hi /\ \A y \in lo .. hi : Max(lo .. hi) >= y
  BY <1>1, <1>2, Zenon DEF Max
<1> QED
  BY <1>2, <1>3, <1>4

-----------------------------------------------------------------------------
(* What the steps do.                                                       *)

\* The steps of the sending, and where the loop is.  Nothing changes the link.
LEMMA Steps ==
  ASSUME [Next]_vars
  PROVE  /\ link' = link
         /\ \/ UNCHANGED sendVars /\ pc' = pc
            \/ UNCHANGED sendVars /\ pc = "read"
            \/ UNCHANGED sendVars /\ link \notin Pic
            \/ /\ link = "pic32 usb" /\ pc = "send" /\ UsbSendStep
               /\ pc' = IF sendPc = "done" THEN "read" ELSE "send"
            \/ /\ link = "pic32 uart" /\ pc = "send" /\ SerialSendStep
               /\ pc' = IF sendPc = "done" THEN "read" ELSE "send"
            \/ link \in Pic /\ HostTakes /\ pc' = pc
            \/ link \in Pic /\ Produce /\ pc = "read" /\ pc' = pc
            \/ link = "pic32 usb" /\ (VbusChanges \/ EventConfigured) /\ pc' = pc
<1>1. CASE UNCHANGED vars
  BY <1>1 DEF vars, receiveVars
<1>2. CASE Read
  <2>1. link' = link
    BY <1>2 DEF Read, ReadStep, readFromEndpoint, readFromHost, readFromSerial, readFromSocket
  <2> QED
    BY <1>2, <2>1 DEF Read
<1>3. CASE NothingToRead
  BY <1>3 DEF NothingToRead, receiveVars
<1>4. CASE Send
  <2>1. CASE link = "pic32 usb"
    BY <1>4, <2>1 DEF Send, receiveVars, Pic
  <2>2. CASE link = "pic32 uart"
    BY <1>4, <2>2 DEF Send, receiveVars, Pic
  <2>3. CASE link \notin Pic
    BY <1>4, <2>3 DEF Send, receiveVars, Pic
  <2> QED
    BY <2>1, <2>2, <2>3 DEF Pic
<1>5. CASE HostStep
  BY <1>5 DEF HostStep, HostAsks, PacketArrives
<1>6. CASE Outgoing
  BY <1>6 DEF Outgoing, receiveVars
<1>7. CASE UsbEvent
  BY <1>7 DEF UsbEvent, receiveVars
<1> QED
  BY <1>1, <1>2, <1>3, <1>4, <1>5, <1>6, <1>7 DEF Next, LoopStep

\* The buffer is filled with the first bytes of the queue, which leaves the rest of it;
\* "limit" is what one filling takes.
Filled(limit) ==
    /\ byteCount' = Min({Len(sendQueue), limit})
    /\ sendBuffer' = [i \in Place |-> IF i <= byteCount' THEN sendQueue[i] ELSE sendBuffer[i]]
    /\ sendQueue' = SubSeq(sendQueue, byteCount' + 1, Len(sendQueue))

\* What a filling does to the queue and the buffer.
LEMMA FilledFacts ==
  ASSUME SendTypeOK, ByteLogs, NEW limit \in Nat, limit <= SendBufferSize, Filled(limit)
  PROVE  /\ byteCount' = IF Len(sendQueue) <= limit THEN Len(sendQueue) ELSE limit
         /\ byteCount' \in 0 .. SendBufferSize /\ byteCount' <= Len(sendQueue)
         /\ sendBuffer' \in [Place -> 0 .. produced]
         /\ \A i \in 1 .. byteCount' : i \in Place /\ sendBuffer'[i] = sendQueue[i]
         /\ sendQueue' \in Seq(Nat) /\ Len(sendQueue') = Len(sendQueue) - byteCount'
         /\ \A k \in 1 .. Len(sendQueue') : /\ byteCount' + k \in 1 .. Len(sendQueue)
                                            /\ sendQueue'[k] = sendQueue[byteCount' + k]
<1> DEFINE n == Min({Len(sendQueue), limit})
<1>1. sendQueue \in Seq(Nat) /\ Len(sendQueue) \in Nat /\ SendBufferSize \in Nat
  BY SendFacts DEF ByteLogs
<1>2. /\ n = IF Len(sendQueue) <= limit THEN Len(sendQueue) ELSE limit
      /\ n \in 0 .. SendBufferSize /\ n <= Len(sendQueue) /\ n \in Nat
  <2>1. n = IF Len(sendQueue) <= limit THEN Len(sendQueue) ELSE limit
    BY <1>1, MinOfTwo
  <2> HIDE DEF n
  <2> QED
    BY <1>1, <2>1
<1>3. /\ byteCount' = n
      /\ sendBuffer' = [i \in Place |-> IF i <= n THEN sendQueue[i] ELSE sendBuffer[i]]
      /\ sendQueue' = SubSeq(sendQueue, n + 1, Len(sendQueue))
  BY DEF Filled
<1> HIDE DEF n
<1>4. /\ produced \in Nat /\ sendBuffer \in [Place -> 0 .. produced]
      /\ \A i \in 1 .. Len(sendQueue) : sendQueue[i] \in 1 .. produced
  BY SendFacts DEF SendTypeOK
<1>5. \A i \in 1 .. n : i \in Place /\ sendBuffer'[i] = sendQueue[i]
  BY <1>1, <1>2, <1>3 DEF Place
<1>6. sendBuffer' \in [Place -> 0 .. produced]
  <2>1. \A i \in Place : (IF i <= n THEN sendQueue[i] ELSE sendBuffer[i]) \in 0 .. produced
    <3> TAKE i \in Place
    <3>1. i <= n => i \in 1 .. Len(sendQueue)
      BY <1>1, <1>2 DEF Place
    <3> QED
      BY <1>4, <3>1
  <2> QED
    BY <1>3, <2>1
<1>7. /\ sendQueue' \in Seq(Nat) /\ Len(sendQueue') = Len(sendQueue) - n
      /\ \A k \in 1 .. Len(sendQueue') : /\ n + k \in 1 .. Len(sendQueue)
                                         /\ sendQueue'[k] = sendQueue[n + k]
  <2>1. n \in 0 .. Len(sendQueue)
    BY <1>1, <1>2
  <2> QED
    BY <1>1, <1>3, <2>1, RestOf
<1> QED
  BY <1>2, <1>3, <1>5, <1>6, <1>7

\* The steps that fill the buffer.
BufferFills == \/ link = "pic32 usb" /\ FillBuffer
               \/ link = "pic32 uart" /\ SerialWrite

\* Both loops fill a buffer that nothing is sent from.
LEMMA FillStep ==
  ASSUME SendInv, BufferFills
  PROVE  /\ transfer = {} /\ Unwritten = {} /\ Pending' = 1 .. byteCount'
         /\ \E limit \in Nat : limit <= SendBufferSize /\ Filled(limit)
         /\ UNCHANGED <<produced, taken, givenUp, configured, vbus, timesConfigured>>
<1>1. CASE link = "pic32 usb" /\ FillBuffer
  <2>1. sendPc = "fill" /\ configured /\ sendQueue # <<>> /\ sendPc' = "write"
    BY <1>1 DEF FillBuffer
  <2>2. transfer = {} /\ Unwritten = {}
    BY <2>1 DEF SendInv, StageInv, Unwritten
  <2>3. Filled(SendBufferSize)
    BY <1>1 DEF FillBuffer, Filled
  <2>4. Pending' = 1 .. byteCount'
    <3>1. transfer' = {} /\ sendPc' = "write"
      BY <1>1, <2>2 DEF FillBuffer
    <3>2. nextByteIndex' + 1 = 1
      <4>1. nextByteIndex' = 0
        BY <1>1 DEF FillBuffer
      <4> QED
        BY <4>1
    <3>3. Unwritten' = 1 .. byteCount'
      BY <3>1, <3>2 DEF Unwritten
    <3> QED
      BY <3>1, <3>3 DEF Pending
  <2>5. UNCHANGED <<produced, taken, givenUp, configured, vbus, timesConfigured>>
    BY <1>1 DEF FillBuffer
  <2>6. \E limit \in Nat : limit <= SendBufferSize /\ Filled(limit)
    <3>1. SendBufferSize \in Nat /\ SendBufferSize <= SendBufferSize
      BY SendFacts
    <3> QED
      BY <2>3, <3>1, Zenon
  <2> QED
    BY <2>2, <2>4, <2>5, <2>6
<1>2. CASE link = "pic32 uart" /\ SerialWrite
  <2>1. sendPc = "start" /\ sendPc' = "written"
    BY <1>2 DEF SerialWrite
  <2>2. transfer = {} /\ Unwritten = {}
    BY <1>2, <2>1 DEF SendInv, StageInv, Unwritten
  <2>3. Filled(MaxMessageSize) /\ MaxMessageSize \in Nat /\ MaxMessageSize <= SendBufferSize
    BY <1>2, SendFacts DEF SerialWrite, Filled
  <2>4. Pending' = 1 .. byteCount'
    BY <1>2, <2>1, <2>2 DEF SerialWrite, Pending, Unwritten
  <2> QED
    BY <1>2, <2>2, <2>3, <2>4 DEF SerialWrite
<1> QED
  BY <1>1, <1>2 DEF BufferFills

\* The host takes the bytes of the transfer, in order.
LEMMA TakeStep ==
  ASSUME SendTypeOK, ByteLogs, TransferInv, HostTakes
  PROVE  \E lo, hi \in Place :
            /\ lo <= hi /\ transfer = lo .. hi /\ transfer' = {}
            /\ taken' \in Seq(Nat) /\ Len(taken') = Len(taken) + (hi - lo + 1)
            /\ \A i \in 1 .. Len(taken) : taken'[i] = taken[i]
            /\ \A i \in Len(taken) + 1 .. Len(taken') :
                  /\ lo + i - Len(taken) - 1 \in transfer
                  /\ taken'[i] = sendBuffer[lo + i - Len(taken) - 1]
<1>1. PICK lo \in Place, hi \in Place : lo <= hi /\ transfer = lo .. hi
  BY DEF HostTakes, TransferInv
<1>2. lo \in Nat /\ hi \in Nat /\ lo > 0 /\ SendBufferSize \in Nat /\ hi <= SendBufferSize
  BY SendFacts DEF Place
<1>3. Min(transfer) = lo /\ Max(transfer) = hi
  BY <1>1, <1>2, EndsOfInterval
<1> DEFINE part == SubSeq(sendBuffer, lo, hi)
<1>4. taken' = taken \o part /\ transfer' = {}
  BY <1>3 DEF HostTakes
<1>5. sendBuffer \in Seq(Nat) /\ Len(sendBuffer) = SendBufferSize
  <2>1. sendBuffer \in [1 .. SendBufferSize -> Nat]
    BY SendFacts DEF SendTypeOK, Place
  <2> QED
    BY <1>2, <2>1
<1>6. /\ part \in Seq(Nat) /\ Len(part) = hi - lo + 1
      /\ \A j \in 1 .. hi - lo + 1 : part[j] = sendBuffer[lo + j - 1]
  BY <1>1, <1>2, <1>5
<1> HIDE DEF part
<1>7. taken \in Seq(Nat)
  BY DEF ByteLogs
<1>8. /\ taken' \in Seq(Nat) /\ Len(taken') = Len(taken) + (hi - lo + 1)
      /\ \A i \in 1 .. Len(taken) : taken'[i] = taken[i]
      /\ \A i \in Len(taken) + 1 .. Len(taken') : taken'[i] = part[i - Len(taken)]
  <2>1. /\ taken \o part \in Seq(Nat) /\ Len(taken \o part) = Len(taken) + Len(part)
        /\ \A i \in 1 .. Len(taken) : (taken \o part)[i] = taken[i]
        /\ \A i \in Len(taken) + 1 .. Len(taken \o part) :
              (taken \o part)[i] = part[i - Len(taken)]
    BY <1>6, <1>7, ConcatElements
  <2> QED
    BY <1>4, <1>6, <2>1
<1>9. ASSUME NEW i \in Len(taken) + 1 .. Len(taken')
      PROVE  /\ lo + i - Len(taken) - 1 \in transfer
             /\ taken'[i] = sendBuffer[lo + i - Len(taken) - 1]
  <2>1. i - Len(taken) \in 1 .. hi - lo + 1 /\ Len(taken) \in Nat
    BY <1>2, <1>7, <1>8
  <2>2. taken'[i] = sendBuffer[lo + (i - Len(taken)) - 1]
    BY <1>6, <1>8, <2>1
  <2>3. lo + (i - Len(taken)) - 1 = lo + i - Len(taken) - 1
    BY <1>2, <2>1
  <2> QED
    BY <1>1, <1>2, <2>1, <2>2, <2>3
<1> QED
  BY <1>1, <1>4, <1>8, <1>9

\* The bytes of a transfer are written from those that wait, and the transfer before it
\* is over.
LEMMA WriteStep ==
  ASSUME SendTypeOK, StageInv, GenWrite
  PROVE  /\ transfer = {} /\ sendPc = "write" /\ sendPc' = "write"
         /\ nextByteIndex' \in 1 .. byteCount /\ nextByteIndex < nextByteIndex'
         /\ transfer' = nextByteIndex + 1 .. nextByteIndex'
         /\ transfer' \subseteq Place /\ Pending' = Unwritten
         /\ UNCHANGED <<sendBuffer, byteCount, configured, sendQueue, taken, produced, givenUp,
                        vbus, timesConfigured>>
<1>1. /\ nextByteIndex \in Nat /\ byteCount \in Nat /\ byteCount <= SendBufferSize
      /\ SendPacketSize \in Nat /\ SendPacketSize > 0 /\ SendBufferSize \in Nat
  BY SendFacts DEF SendTypeOK
<1>2. sendPc = "write" /\ nextByteIndex < byteCount /\ transfer = {}
  BY DEF GenWrite, More, Busy, StageInv
<1>3. nextByteIndex' = IF nextByteIndex + SendPacketSize <= byteCount
                       THEN nextByteIndex + SendPacketSize ELSE byteCount
  BY <1>1, MinOfTwo DEF GenWrite
<1>4. nextByteIndex' \in 1 .. byteCount /\ nextByteIndex < nextByteIndex'
  BY <1>1, <1>2, <1>3
<1>5. /\ transfer' = nextByteIndex + 1 .. nextByteIndex'
      /\ UNCHANGED <<sendPc, sendBuffer, byteCount, configured, sendQueue, taken, produced,
                     givenUp, vbus, timesConfigured>>
  BY DEF GenWrite
<1>6. Pending' = Unwritten /\ transfer' \subseteq Place
  BY <1>1, <1>2, <1>4, <1>5 DEF Pending, Unwritten, Place
<1> QED
  BY <1>2, <1>4, <1>5, <1>6

\* The steps that move no byte: they only end what was still to go out.
Calm == \/ UNCHANGED sendVars
        \/ CheckVbus \/ WaitBefore \/ StartSending \/ NothingToSend \/ WaitBetween
        \/ BufferSent \/ NextPass \/ SerialWritten \/ VbusChanges \/ EventConfigured

\* What goes out no more has been given up.
LEMMA CalmStep ==
  ASSUME SendTypeOK, Calm
  PROVE  /\ UNCHANGED <<sendQueue, sendBuffer, taken, produced, byteCount, nextByteIndex>>
         /\ Pending' \subseteq Pending
         /\ transfer' = transfer \/ transfer' = {}
         /\ sendPc' = "write" => sendPc = "write"
         /\ Held(Pending) \subseteq Held(Pending)' \cup givenUp'
         /\ givenUp \subseteq givenUp'
<1> USE DEF Pending, Unwritten, Held
<1>1. CASE UNCHANGED sendVars
  BY <1>1 DEF sendVars, loopVars
<1>2. CASE CheckVbus \/ WaitBefore \/ StartSending \/ NothingToSend \/ NextPass \/ SerialWritten
  <2>1. /\ UNCHANGED <<sendQueue, sendBuffer, taken, produced, byteCount, nextByteIndex, transfer>>
        /\ sendPc # "write" /\ sendPc' # "write" /\ givenUp \subseteq givenUp'
    BY <1>2 DEF CheckVbus, WaitBefore, WaitForHandle, StartSending, HandleFree, NothingToSend,
                NextPass, SerialWritten, loopVars
  <2> QED
    BY <2>1
<1>3. CASE BufferSent
  <2>1. /\ UNCHANGED <<sendQueue, sendBuffer, taken, produced, byteCount, nextByteIndex,
                       transfer, givenUp>>
        /\ sendPc = "write" /\ sendPc' = "fill" /\ ~(nextByteIndex < byteCount)
    BY <1>3 DEF BufferSent, More
  <2>2. Unwritten = {}
    BY <2>1, SendFacts DEF SendTypeOK
  <2> QED
    BY <2>1, <2>2
<1>4. CASE VbusChanges
  BY <1>4 DEF VbusChanges, loopVars
<1>5. CASE EventConfigured
  BY <1>5 DEF EventConfigured, loopVars
<1>6. CASE WaitBetween
  <2>1. /\ UNCHANGED <<sendQueue, sendBuffer, taken, produced, byteCount, nextByteIndex, transfer>>
        /\ sendPc = "write"
    BY <1>6 DEF WaitBetween, WaitForHandle
  <2>2. \/ sendPc' = "write" /\ givenUp' = givenUp
        \/ /\ sendPc' = "done"
           /\ givenUp' = givenUp \cup Held(nextByteIndex + 1 .. byteCount)
    BY <1>6, <2>1 DEF WaitBetween, WaitForHandle
  <2> QED
    BY <2>1, <2>2
<1> QED
  BY <1>1, <1>2, <1>3, <1>4, <1>5, <1>6 DEF Calm

\* The steps, as far as the bytes on their way are concerned.
LEMMA ByteSteps ==
  ASSUME [Next]_vars
  PROVE  Calm \/ BufferFills \/ GenWrite \/ HostTakes \/ Produce
<1>1. link = "pic32 usb" /\ UsbSendStep => Calm \/ BufferFills \/ GenWrite
  BY DEF UsbSendStep, Calm, BufferFills
<1>2. link = "pic32 uart" /\ SerialSendStep => Calm \/ BufferFills
  BY DEF SerialSendStep, Calm, BufferFills
<1>3. UNCHANGED sendVars \/ VbusChanges \/ EventConfigured => Calm
  BY DEF Calm
<1> QED
  BY <1>1, <1>2, <1>3, Steps

-----------------------------------------------------------------------------
(* The steps keep the invariant, part by part.                              *)

\* The two logs stay sequences of numbers.
LEMMA LogStep == ASSUME SendInv, [Next]_vars PROVE ByteLogs'
<1>1. SendTypeOK /\ ByteLogs /\ TransferInv /\ produced \in Nat
  BY SendFacts DEF SendInv, SendTypeOK
<1>2. CASE Calm
  BY <1>1, <1>2, CalmStep DEF ByteLogs
<1>3. CASE BufferFills
  <2>1. sendQueue' \in Seq(Nat) /\ taken' = taken
    BY <1>1, <1>3, FillStep, FilledFacts
  <2> QED
    BY <1>1, <2>1 DEF ByteLogs
<1>4. CASE GenWrite
  BY <1>1, <1>4 DEF GenWrite, ByteLogs
<1>5. CASE HostTakes
  <2>1. taken' \in Seq(Nat)
    BY <1>1, <1>5, TakeStep
  <2> QED
    BY <1>1, <1>5, <2>1 DEF HostTakes, ByteLogs
<1>6. CASE Produce
  <2>1. sendQueue' = Append(sendQueue, produced + 1) /\ taken' = taken
    BY <1>6 DEF Produce
  <2> QED
    BY <1>1, <2>1 DEF ByteLogs
<1> QED
  BY <1>2, <1>3, <1>4, <1>5, <1>6, ByteSteps

\* What the host took last: nothing, or the last of the log.
LEMMA LatestFacts ==
  ASSUME ByteLogs
  PROVE  /\ Bytes!Latest \in Nat
         /\ taken' = taken => Bytes!Latest' = Bytes!Latest
<1>1. taken # <<>> => taken[Len(taken)] \in Nat
  BY DEF ByteLogs
<1> QED
  BY <1>1 DEF Bytes!Latest

\* After a transfer it is the last byte of it.
LEMMA LatestTaken ==
  ASSUME SendTypeOK, ByteLogs, TransferInv, HostTakes
  PROVE  \E hi \in transfer : /\ \A i \in transfer : i <= hi
                              /\ Bytes!Latest' = sendBuffer[hi]
<1>1. PICK lo \in Place, hi \in Place :
            /\ lo <= hi /\ transfer = lo .. hi
            /\ taken' \in Seq(Nat) /\ Len(taken') = Len(taken) + (hi - lo + 1)
            /\ \A i \in Len(taken) + 1 .. Len(taken') :
                  taken'[i] = sendBuffer[lo + i - Len(taken) - 1]
  BY TakeStep
<1>2. lo \in Nat /\ hi \in Nat /\ Len(taken) \in Nat
  BY SendFacts DEF Place, ByteLogs
<1>3. Len(taken') \in Len(taken) + 1 .. Len(taken') /\ Len(taken') # 0
  BY <1>1, <1>2
<1>4. lo + Len(taken') - Len(taken) - 1 = hi
  BY <1>1, <1>2
<1>5. taken'[Len(taken')] = sendBuffer[hi]
  BY <1>1, <1>3, <1>4
<1>6. taken' # <<>>
  BY <1>3
<1>7. Bytes!Latest' = sendBuffer[hi]
  BY <1>5, <1>6 DEF Bytes!Latest
<1>8. hi \in transfer /\ \A i \in transfer : i <= hi
  BY <1>1, <1>2
<1> QED
  BY <1>7, <1>8

\* Transfers stay intervals.
LEMMA TransferStep == ASSUME SendInv, [Next]_vars PROVE TransferInv'
<1>1. SendTypeOK /\ ByteLogs /\ StageInv /\ TransferInv
  BY DEF SendInv
<1>2. CASE Calm
  BY <1>1, <1>2, CalmStep DEF TransferInv, Place
<1>3. CASE BufferFills
  <2>1. byteCount' \in 0 .. SendBufferSize /\ Pending' = 1 .. byteCount' /\ transfer = {}
    BY <1>1, <1>3, FillStep, FilledFacts
  <2>2. \/ transfer' = {}
        \/ transfer' = 1 .. byteCount' /\ sendPc' = "written"
    BY <1>3, <2>1 DEF BufferFills, FillBuffer, SerialWrite
  <2>3. transfer' # {} => 1 \in Place /\ byteCount' \in Place /\ 1 <= byteCount'
    BY <2>1, <2>2, SendFacts DEF Place
  <2> QED
    BY <2>2, <2>3 DEF TransferInv
<1>4. CASE GenWrite
  <2>1. /\ transfer' = nextByteIndex + 1 .. nextByteIndex' /\ nextByteIndex < nextByteIndex'
        /\ nextByteIndex' \in 1 .. byteCount /\ byteCount \in 0 .. SendBufferSize
        /\ nextByteIndex \in Nat
    BY <1>1, <1>4, WriteStep, SendFacts DEF SendTypeOK
  <2>2. /\ nextByteIndex + 1 \in Place /\ nextByteIndex' \in Place
        /\ nextByteIndex + 1 <= nextByteIndex'
    BY <2>1, SendFacts DEF Place
  <2>3. \A i \in transfer' : i <= nextByteIndex'
    BY <2>1
  <2> QED
    BY <2>1, <2>2, <2>3 DEF TransferInv
<1>5. CASE HostTakes
  BY <1>1, <1>5 DEF HostTakes, TransferInv
<1>6. CASE Produce
  BY <1>1, <1>6 DEF Produce, loopVars, TransferInv, Place
<1> QED
  BY <1>2, <1>3, <1>4, <1>5, <1>6, ByteSteps

\* What is on its way stays in order, and younger than what the host has.
LEMMA OrderStep == ASSUME SendInv, [Next]_vars PROVE OrderInv'
<1>1. SendTypeOK /\ ByteLogs /\ StageInv /\ TransferInv /\ OrderInv
  BY DEF SendInv
<1>2. /\ produced \in Nat /\ sendQueue \in Seq(Nat) /\ Len(sendQueue) \in Nat
      /\ sendBuffer \in [Place -> 0 .. produced]
      /\ \A k \in 1 .. Len(sendQueue) : sendQueue[k] \in 1 .. produced
      /\ Bytes!Latest \in Nat
  BY <1>1, SendFacts, LatestFacts DEF SendTypeOK, ByteLogs
<1>3. Pending \subseteq Place
  BY <1>1, SendFacts DEF Pending, Unwritten, SendTypeOK, Place
<1>4. ASSUME UNCHANGED <<sendQueue, sendBuffer, taken, produced>>, Pending' \subseteq Pending
      PROVE  OrderInv'
  <2>1. Bytes!Latest' = Bytes!Latest
    BY <1>1, <1>4, LatestFacts
  <2> QED
    BY <1>1, <1>4, <2>1 DEF OrderInv
<1>5. CASE Calm
  BY <1>1, <1>4, <1>5, CalmStep
<1>6. CASE BufferFills
  <2>1. /\ Pending' = 1 .. byteCount' /\ taken' = taken /\ produced' = produced
        /\ byteCount' \in Nat /\ byteCount' <= Len(sendQueue)
        /\ \A i \in 1 .. byteCount' : sendBuffer'[i] = sendQueue[i]
        /\ Len(sendQueue') = Len(sendQueue) - byteCount'
        /\ \A k \in 1 .. Len(sendQueue') : /\ byteCount' + k \in 1 .. Len(sendQueue)
                                           /\ sendQueue'[k] = sendQueue[byteCount' + k]
    BY <1>1, <1>6, FillStep, FilledFacts
  <2>2. Bytes!Latest' = Bytes!Latest
    BY <1>1, <2>1, LatestFacts
  <2>3. byteCount' \in Nat /\ Len(sendQueue') \in Nat
    <3>1. sendQueue' \in Seq(Nat)
      BY <1>1, <1>6, FillStep, FilledFacts
    <3> QED
      BY <2>1, <3>1
  <2>4. \A i \in Pending' : i \in 1 .. Len(sendQueue) /\ sendBuffer'[i] = sendQueue[i]
    BY <1>2, <2>1
  <2>5. /\ \A i \in Pending' : Bytes!Latest < sendBuffer'[i]
        /\ \A i, j \in Pending' : i < j => sendBuffer'[i] < sendBuffer'[j]
    BY <1>1, <2>4 DEF OrderInv
  <2>6. \A i \in Pending', k \in 1 .. Len(sendQueue') : sendBuffer'[i] < sendQueue'[k]
    <3> TAKE i \in Pending', k \in 1 .. Len(sendQueue')
    <3>1. i < byteCount' + k
      <4>1. PICK n \in Nat, m \in Nat : n = byteCount' /\ m = Len(sendQueue')
        BY <2>3, Zenon
      <4>2. i \in 1 .. n /\ k \in 1 .. m
        BY <2>1, <4>1
      <4>3. i < n + k
        BY <4>2
      <4> QED
        BY <4>1, <4>3
    <3> QED
      BY <1>1, <2>1, <2>4, <3>1 DEF OrderInv
  <2>7. \A k \in 1 .. Len(sendQueue') : Bytes!Latest < sendQueue'[k]
    BY <1>1, <2>1 DEF OrderInv
  <2>8. \A k, l \in 1 .. Len(sendQueue') : k < l => sendQueue'[k] < sendQueue'[l]
    <3> TAKE k \in 1 .. Len(sendQueue'), l \in 1 .. Len(sendQueue')
    <3>1. k < l => byteCount' + k < byteCount' + l
      <4>1. PICK n \in Nat, m \in Nat : n = byteCount' /\ m = Len(sendQueue')
        BY <2>3, Zenon
      <4>2. k \in 1 .. m /\ l \in 1 .. m
        BY <4>1
      <4>3. k < l => n + k < n + l
        BY <4>2
      <4> QED
        BY <4>1, <4>3
    <3> QED
      BY <1>1, <2>1, <3>1 DEF OrderInv
  <2>9. Bytes!Latest' <= produced'
    BY <1>1, <2>1, <2>2 DEF OrderInv
  <2> QED
    BY <2>2, <2>5, <2>6, <2>7, <2>8, <2>9 DEF OrderInv
<1>7. CASE GenWrite
  <2>1. /\ UNCHANGED <<sendQueue, sendBuffer, taken, produced>>
        /\ Pending' = Unwritten
    BY <1>1, <1>7, WriteStep
  <2> QED
    BY <1>4, <2>1 DEF Pending
<1>8. CASE HostTakes
  <2>1. PICK hi \in transfer : /\ \A i \in transfer : i <= hi
                               /\ Bytes!Latest' = sendBuffer[hi]
    BY <1>1, <1>8, LatestTaken
  <2>2. /\ UNCHANGED <<sendQueue, sendBuffer, produced>>
        /\ Pending' = Unwritten
    BY <1>8 DEF HostTakes, loopVars, Pending, Unwritten
  <2>3. hi \in Pending /\ hi \in Place /\ Unwritten \subseteq Pending
    BY <1>3, <2>1 DEF Pending
  <2>4. \A j \in Unwritten : hi < j
    BY <1>1, <2>1, <2>3, SendFacts DEF Unwritten, TransferInv, SendTypeOK, Place
  <2>5. sendBuffer[hi] <= produced
    BY <1>2, <2>3
  <2>6. /\ \A j \in Unwritten : sendBuffer[hi] < sendBuffer[j]
        /\ \A k \in 1 .. Len(sendQueue) : sendBuffer[hi] < sendQueue[k]
    BY <1>1, <2>3, <2>4 DEF OrderInv
  <2> QED
    BY <1>1, <2>1, <2>2, <2>3, <2>5, <2>6 DEF OrderInv
<1>9. CASE Produce
  <2>1. /\ produced' = produced + 1 /\ sendQueue' = Append(sendQueue, produced + 1)
        /\ UNCHANGED <<sendBuffer, taken>>
        /\ Pending' = Pending
    BY <1>9 DEF Produce, loopVars, Pending, Unwritten
  <2>2. Bytes!Latest' = Bytes!Latest
    BY <1>1, <2>1, LatestFacts
  <2>3. /\ Len(sendQueue') = Len(sendQueue) + 1
        /\ \A k \in 1 .. Len(sendQueue) : sendQueue'[k] = sendQueue[k]
        /\ sendQueue'[Len(sendQueue) + 1] = produced + 1
    BY <1>2, <2>1
  <2>4. \A k \in 1 .. Len(sendQueue') : k \in 1 .. Len(sendQueue) \/ k = Len(sendQueue) + 1
    BY <1>2, <2>3
  <2>5. \A i \in Pending : sendBuffer[i] \in Nat /\ sendBuffer[i] <= produced
    BY <1>2, <1>3
  <2>6. /\ \A i \in Pending' : Bytes!Latest < sendBuffer'[i]
        /\ \A i, j \in Pending' : i < j => sendBuffer'[i] < sendBuffer'[j]
    BY <1>1, <2>1 DEF OrderInv
  <2>7. \A i \in Pending', k \in 1 .. Len(sendQueue') : sendBuffer'[i] < sendQueue'[k]
    BY <1>1, <1>2, <2>1, <2>3, <2>4, <2>5 DEF OrderInv
  <2>8. \A k \in 1 .. Len(sendQueue') : Bytes!Latest < sendQueue'[k]
    <3>1. \A k \in 1 .. Len(sendQueue) : Bytes!Latest < sendQueue'[k]
      BY <1>1, <2>3 DEF OrderInv
    <3>2. Bytes!Latest < sendQueue'[Len(sendQueue) + 1]
      BY <1>1, <1>2, <2>3 DEF OrderInv
    <3> QED
      BY <2>4, <3>1, <3>2
  <2>9. \A k, l \in 1 .. Len(sendQueue') : k < l => sendQueue'[k] < sendQueue'[l]
    <3> TAKE k \in 1 .. Len(sendQueue'), l \in 1 .. Len(sendQueue')
    <3>1. CASE l \in 1 .. Len(sendQueue)
      <4>1. k < l => k \in 1 .. Len(sendQueue)
        BY <1>2, <2>3, <3>1
      <4> QED
        BY <1>1, <2>3, <3>1, <4>1 DEF OrderInv
    <3>2. CASE l = Len(sendQueue) + 1
      <4>1. k < l => k \in 1 .. Len(sendQueue)
        BY <1>2, <2>3, <3>2
      <4> QED
        BY <1>2, <2>3, <3>2, <4>1
    <3> QED
      BY <2>4, <3>1, <3>2
  <2>10. Bytes!Latest <= produced + 1
    BY <1>1, <1>2 DEF OrderInv
  <2> QED
    BY <2>1, <2>2, <2>6, <2>7, <2>8, <2>9, <2>10 DEF OrderInv
<1> QED
  BY <1>5, <1>6, <1>7, <1>8, <1>9, ByteSteps

\* No byte gets out of sight but by being given up.
LEMMA LossStep == ASSUME SendInv, [Next]_vars PROVE LostOnlyWhenGivenUp'
<1> DEFINE Got   == {taken[i] : i \in 1 .. Len(taken)}
           Queue == {sendQueue[i] : i \in 1 .. Len(sendQueue)}
<1>1. /\ SendTypeOK /\ ByteLogs /\ StageInv /\ TransferInv
      /\ 1 .. produced \subseteq Got \cup Held(Pending) \cup Queue \cup givenUp
  BY DEF SendInv, LostOnlyWhenGivenUp, Pending
<1>2. /\ produced \in Nat /\ sendQueue \in Seq(Nat) /\ Len(sendQueue) \in Nat
      /\ taken \in Seq(Nat) /\ Len(taken) \in Nat
  BY <1>1, SendFacts DEF SendTypeOK, ByteLogs
<1>3. LostOnlyWhenGivenUp'
        <=> (1 .. produced') \subseteq (Got' \cup Held(Pending)' \cup Queue' \cup givenUp')
  BY DEF LostOnlyWhenGivenUp, Pending
<1>4. ASSUME produced' = produced, Got \subseteq Got',
             Held(Pending) \cup Queue \cup givenUp
                \subseteq Got' \cup Held(Pending)' \cup Queue' \cup givenUp'
      PROVE  LostOnlyWhenGivenUp'
  <2> HIDE DEF Got, Queue
  <2> QED
    BY <1>1, <1>3, <1>4
<1>5. CASE Calm
  <2>1. /\ produced' = produced /\ Got' = Got /\ Queue' = Queue
        /\ Held(Pending) \subseteq Held(Pending)' \cup givenUp'
        /\ givenUp \subseteq givenUp'
    BY <1>1, <1>5, CalmStep
  <2> HIDE DEF Got, Queue
  <2> QED
    BY <1>4, <2>1
<1>6. CASE BufferFills
  <2>1. /\ Pending = {} /\ Pending' = 1 .. byteCount'
        /\ UNCHANGED <<produced, taken, givenUp>>
        /\ byteCount' \in Nat /\ byteCount' <= Len(sendQueue)
        /\ \A i \in 1 .. byteCount' : sendBuffer'[i] = sendQueue[i]
        /\ Len(sendQueue') = Len(sendQueue) - byteCount'
        /\ \A k \in 1 .. Len(sendQueue') : sendQueue'[k] = sendQueue[byteCount' + k]
    BY <1>1, <1>6, FillStep, FilledFacts DEF Pending
  <2>2. Queue \subseteq Held(Pending)' \cup Queue'
    <3> SUFFICES ASSUME NEW i \in 1 .. Len(sendQueue)
                 PROVE  sendQueue[i] \in Held(Pending)' \cup Queue'
      OBVIOUS
    <3>1. CASE i <= byteCount'
      <4>1. i \in Pending' /\ sendBuffer'[i] = sendQueue[i]
        BY <1>2, <2>1, <3>1
      <4> QED
        BY <4>1 DEF Held
    <3>2. CASE ~(i <= byteCount')
      <4>1. /\ i - byteCount' \in 1 .. Len(sendQueue')
            /\ byteCount' + (i - byteCount') = i
        BY <1>2, <2>1, <3>2
      <4>2. sendQueue'[i - byteCount'] = sendQueue[i]
        BY <2>1, <4>1
      <4> QED
        BY <4>1, <4>2
    <3> QED
      BY <3>1, <3>2
  <2>3. Held(Pending) = {} /\ Got' = Got /\ givenUp' = givenUp /\ produced' = produced
    BY <2>1 DEF Held
  <2> HIDE DEF Got, Queue
  <2> QED
    BY <1>4, <2>2, <2>3
<1>7. CASE GenWrite
  <2>1. /\ transfer = {} /\ Pending' = Unwritten
        /\ UNCHANGED <<sendBuffer, sendQueue, taken, produced, givenUp>>
    BY <1>1, <1>7, WriteStep
  <2>2. /\ Held(Pending)' = Held(Pending) /\ Got' = Got /\ Queue' = Queue
        /\ givenUp' = givenUp /\ produced' = produced
    BY <2>1 DEF Held, Pending
  <2> HIDE DEF Got, Queue
  <2> QED
    BY <1>4, <2>2
<1>8. CASE HostTakes
  <2>1. PICK lo \in Place, hi \in Place :
            /\ lo <= hi /\ transfer = lo .. hi
            /\ Len(taken') = Len(taken) + (hi - lo + 1)
            /\ \A i \in 1 .. Len(taken) : taken'[i] = taken[i]
            /\ \A i \in Len(taken) + 1 .. Len(taken') :
                  taken'[i] = sendBuffer[lo + i - Len(taken) - 1]
    BY <1>1, <1>8, TakeStep
  <2>2. lo \in Nat /\ hi \in Nat
    BY SendFacts DEF Place
  <2>3. /\ UNCHANGED <<sendQueue, sendBuffer, produced, givenUp>>
        /\ Pending' = Unwritten
    BY <1>8 DEF HostTakes, loopVars, Pending, Unwritten
  <2>4. Got \subseteq Got'
    <3> SUFFICES ASSUME NEW i \in 1 .. Len(taken)
                 PROVE  taken[i] \in Got'
      OBVIOUS
    <3>1. i \in 1 .. Len(taken') /\ taken'[i] = taken[i]
      BY <1>2, <2>1, <2>2
    <3> QED
      BY <3>1
  <2>5. Held(transfer) \subseteq Got'
    <3> SUFFICES ASSUME NEW j \in transfer
                 PROVE  sendBuffer[j] \in Got'
      BY DEF Held
    <3> DEFINE i == Len(taken) + (j - lo) + 1
    <3>1. i \in Len(taken) + 1 .. Len(taken') /\ lo + i - Len(taken) - 1 = j
      BY <1>2, <2>1, <2>2
    <3>2. i \in 1 .. Len(taken')
      BY <1>2, <3>1
    <3> HIDE DEF i
    <3>3. taken'[i] = sendBuffer[j]
      BY <2>1, <3>1
    <3> QED
      BY <3>2, <3>3
  <2>6. Held(Pending) \subseteq Held(transfer) \cup Held(Pending)'
    BY <2>3 DEF Held, Pending
  <2>7. Queue' = Queue /\ givenUp' = givenUp /\ produced' = produced
    BY <2>3
  <2> HIDE DEF Got, Queue
  <2> QED
    BY <1>4, <2>4, <2>5, <2>6, <2>7
<1>9. CASE Produce
  <2>1. /\ produced' = produced + 1 /\ sendQueue' = Append(sendQueue, produced + 1)
        /\ UNCHANGED <<sendBuffer, taken, givenUp>>
        /\ Pending' = Pending
    BY <1>9 DEF Produce, loopVars, Pending, Unwritten
  <2>2. /\ Len(sendQueue') = Len(sendQueue) + 1
        /\ \A k \in 1 .. Len(sendQueue) : sendQueue'[k] = sendQueue[k]
        /\ sendQueue'[Len(sendQueue) + 1] = produced + 1
    BY <1>2, <2>1
  <2>3. produced + 1 \in Queue' /\ Queue \subseteq Queue'
    <3>1. Len(sendQueue) + 1 \in 1 .. Len(sendQueue')
      BY <1>2, <2>2
    <3>2. \A k \in 1 .. Len(sendQueue) : k \in 1 .. Len(sendQueue')
      BY <1>2, <2>2
    <3> QED
      BY <2>2, <3>1, <3>2
  <2>4. Held(Pending)' = Held(Pending) /\ Got' = Got /\ givenUp' = givenUp
    BY <2>1 DEF Held
  <2>5. \A n \in 1 .. produced' : n \in 1 .. produced \/ n = produced + 1
    BY <1>2, <2>1
  <2> HIDE DEF Got, Queue
  <2> QED
    BY <1>1, <1>3, <2>3, <2>4, <2>5
<1> QED
  BY <1>5, <1>6, <1>7, <1>8, <1>9, ByteSteps

\* The sending stays where it can be, and knows what it has found out.
LEMMA StageStep == ASSUME SendInv, [Next]_vars PROVE StageInv'
<1>1. StageInv /\ SendTypeOK /\ link' = link /\ "pic32 usb" \in Pic /\ "pic32 uart" \in Pic
  BY Steps DEF SendInv, Pic
<1>2. MaxWait \in Nat /\ waited \in Nat
  <2>1. SendTypeOK
    BY <1>1
  <2> QED
    BY <2>1, SendFacts DEF SendTypeOK
<1>3. ASSUME UNCHANGED <<sendPc, configured, sendQueue, nextByteIndex, waited>>,
             transfer' = transfer \/ transfer' = {},
             pc' = "read" => sendPc = "start"
      PROVE  StageInv'
  BY <1>1, <1>3 DEF StageInv
<1>4. CASE UNCHANGED sendVars /\ (pc' = pc \/ pc = "read" \/ link \notin Pic)
  BY <1>1, <1>3, <1>4 DEF sendVars, loopVars, StageInv
<1>5. CASE link = "pic32 usb" /\ UsbSendStep /\ pc' = IF sendPc = "done" THEN "read" ELSE "send"
  <2>1. pc' = "read" => sendPc = "done"
    BY <1>5
  <2>2. SUFFICES /\ sendPc = "done" => sendPc' = "start"
                 /\ sendPc' # "written"
                 /\ sendPc' = "write" => configured' /\ sendQueue' = <<>>
                 /\ sendPc' = "fill" /\ configured' /\ sendQueue' # <<>> => transfer' = {}
                 /\ sendPc' \in {"wait", "write"} => waited' <= MaxWait
    BY <1>1, <1>5, <2>1 DEF StageInv
  <2>3. /\ sendPc = "write" => configured /\ sendQueue = <<>>
        /\ sendPc = "write" => waited <= MaxWait
    BY <1>1 DEF StageInv
  <2>4. CASE CheckVbus
    <3>1. sendPc = "start" /\ sendPc' = "wait" /\ waited' = 0
      BY <2>4 DEF CheckVbus
    <3>2. waited' <= MaxWait
      BY <1>2, <3>1
    <3> QED
      BY <3>1, <3>2, Zenon
  <2>5. CASE WaitBefore
    <3>1. sendPc = "wait" /\ sendPc' \in {"wait", "done"} /\ waited' = waited + 1
      BY <2>5 DEF WaitBefore, WaitForHandle, Counted
    <3>2. sendPc' = "wait" => waited' <= MaxWait
      BY <1>2, <2>5 DEF WaitBefore, WaitForHandle, Timeout, Counted
    <3> QED
      BY <3>1, <3>2, Zenon
  <2>6. CASE StartSending
    BY <1>1, <2>6 DEF StartSending, HandleFree, Busy
  <2>7. CASE FillBuffer
    <3>1. BufferFills /\ SendTypeOK /\ ByteLogs
      BY <1>5, <2>7 DEF BufferFills, SendInv
    <3>2. /\ sendPc = "fill" /\ sendPc' = "write" /\ configured /\ configured' = configured
          /\ waited' = 0 /\ Filled(SendBufferSize)
      BY <2>7 DEF FillBuffer, Filled
    <3>3. sendQueue' = <<>>
      <4>1. /\ SendQueueCapacity \in Nat /\ SendBufferSize \in Nat
            /\ SendQueueCapacity <= SendBufferSize /\ Len(sendQueue) <= SendQueueCapacity
            /\ Len(sendQueue) \in Nat
        BY <3>1, SendFacts DEF SendTypeOK, ByteLogs
      <4>2. /\ byteCount' = IF Len(sendQueue) <= SendBufferSize THEN Len(sendQueue)
                                                               ELSE SendBufferSize
            /\ sendQueue' \in Seq(Nat) /\ Len(sendQueue') = Len(sendQueue) - byteCount'
        BY <3>1, <3>2, <4>1, FilledFacts
      <4>3. byteCount' = Len(sendQueue)
        BY <4>1, <4>2
      <4>4. sendQueue' \in Seq(Nat) /\ Len(sendQueue') = 0
        BY <4>1, <4>2, <4>3
      <4> QED
        BY <4>4
    <3>4. waited' <= MaxWait
      BY <1>2, <3>2
    <3> QED
      BY <3>2, <3>3, <3>4, Zenon
  <2>8. CASE NothingToSend
    BY <1>1, <2>8 DEF NothingToSend
  <2>9. CASE WaitBetween
    <3>1. /\ sendPc = "write" /\ sendPc' \in {"write", "done"} /\ waited' = waited + 1
          /\ configured' = configured /\ sendQueue' = sendQueue
      BY <2>9 DEF WaitBetween, WaitForHandle, Counted
    <3>2. sendPc' = "write" => waited' <= MaxWait
      BY <1>2, <2>9 DEF WaitBetween, WaitForHandle, Timeout, Counted
    <3>3. configured' /\ sendQueue' = <<>>
      BY <2>3, <3>1
    <3> QED
      BY <3>1, <3>2, <3>3, Zenon
  <2>10. CASE GenWrite
    <3>1. /\ sendPc = "write" /\ sendPc' = "write" /\ waited' = 0
          /\ configured' = configured /\ sendQueue' = sendQueue
      BY <2>10 DEF GenWrite
    <3>2. waited' <= MaxWait
      BY <1>2, <3>1
    <3>3. configured' /\ sendQueue' = <<>>
      BY <2>3, <3>1
    <3> QED
      BY <3>1, <3>2, <3>3, Zenon
  <2>11. CASE BufferSent
    BY <1>1, <2>3, <2>11 DEF BufferSent, StageInv
  <2>12. CASE NextPass
    BY <1>1, <2>12 DEF NextPass
  <2> QED
    BY <1>5, <2>4, <2>5, <2>6, <2>7, <2>8, <2>9, <2>10, <2>11, <2>12 DEF UsbSendStep
<1>6. CASE /\ link = "pic32 uart" /\ SerialSendStep
           /\ pc' = IF sendPc = "done" THEN "read" ELSE "send"
  <2>1. SUFFICES /\ pc' = "read" => sendPc' = "start"
                 /\ sendPc' \in {"start", "written", "done"}
                 /\ sendPc' # "written" => transfer' = {}
                 /\ nextByteIndex' = 0
    BY <1>1, <1>6 DEF StageInv
  <2>2. CASE SerialWrite
    BY <1>1, <1>6, <2>2 DEF SerialWrite, StageInv
  <2>3. CASE SerialWritten
    BY <1>1, <1>6, <2>3 DEF SerialWritten, StageInv
  <2>4. CASE NextPass
    BY <1>1, <1>6, <2>4 DEF NextPass, StageInv
  <2> QED
    BY <1>6, <2>2, <2>3, <2>4 DEF SerialSendStep
<1>7. CASE HostTakes /\ pc' = pc
  BY <1>1, <1>3, <1>7 DEF HostTakes, loopVars, StageInv
<1>8. CASE Produce /\ pc = "read" /\ pc' = pc
  BY <1>1, <1>8 DEF Produce, loopVars, StageInv
<1>9. CASE link = "pic32 usb" /\ VbusChanges /\ pc' = pc
  BY <1>1, <1>3, <1>9 DEF VbusChanges, loopVars, StageInv
<1>10. CASE link = "pic32 usb" /\ EventConfigured /\ pc' = pc
  BY <1>1, <1>10 DEF EventConfigured, loopVars, StageInv
<1> QED
  BY <1>4, <1>5, <1>6, <1>7, <1>8, <1>9, <1>10, Steps

\* The types are kept: nothing but a byte for which there is room makes the queue longer,
\* and the counter of a wait stops at its bound.
LEMMA SendTypeStep == ASSUME SendInv, [Next]_vars PROVE SendTypeOK'
<1>1. SendTypeOK /\ ByteLogs /\ StageInv
  BY DEF SendInv
<1>2. /\ produced \in Nat /\ SendQueueCapacity \in Nat /\ SendBufferSize \in Nat
      /\ MaxWait \in Nat /\ MaxProduced \in Nat /\ MaxConfigured \in Nat
      /\ sendQueue \in Seq(Nat) /\ Len(sendQueue) \in Nat /\ waited \in Nat
      /\ \A k \in 1 .. Len(sendQueue) : sendQueue[k] \in 1 .. produced
  BY <1>1, SendFacts DEF SendTypeOK, ByteLogs
<1>3. CASE Calm
  <2>1. /\ UNCHANGED <<sendQueue, sendBuffer, produced, byteCount, nextByteIndex>>
        /\ transfer' = transfer \/ transfer' = {}
    BY <1>1, <1>3, CalmStep
  <2>2. /\ sendPc' \in {"start", "wait", "fill", "write", "written", "done"}
        /\ configured' \in BOOLEAN /\ vbus' \in BOOLEAN
        /\ waited' \in 0 .. MaxWait + 1
        /\ timesConfigured' \in 0 .. MaxConfigured
    <3>1. /\ sendPc \in {"start", "wait", "fill", "write", "written", "done"}
          /\ configured \in BOOLEAN /\ vbus \in BOOLEAN
          /\ waited \in 0 .. MaxWait + 1
          /\ timesConfigured \in 0 .. MaxConfigured
      BY <1>1 DEF SendTypeOK
    <3>2. CASE UNCHANGED sendVars
      BY <3>1, <3>2 DEF sendVars, loopVars
    <3>3. CASE CheckVbus
      BY <1>2, <3>1, <3>3 DEF CheckVbus
    <3>4. CASE WaitBefore \/ WaitBetween
      <4>1. waited <= MaxWait
        BY <1>1, <3>4 DEF WaitBefore, WaitBetween, StageInv
      <4>2. /\ waited' = waited + 1 /\ sendPc' \in {sendPc, "done"}
            /\ UNCHANGED <<configured, vbus, timesConfigured>>
        BY <3>4 DEF WaitBefore, WaitBetween, WaitForHandle, Counted
      <4> QED
        BY <1>2, <3>1, <4>1, <4>2
    <3>5. CASE StartSending \/ NothingToSend \/ BufferSent \/ NextPass \/ SerialWritten
      <4>1. /\ UNCHANGED <<waited, configured, vbus, timesConfigured>>
            /\ sendPc' \in {"fill", "done", "start"}
        BY <3>5 DEF StartSending, NothingToSend, BufferSent, NextPass, SerialWritten
      <4> QED
        BY <3>1, <4>1
    <3>6. CASE VbusChanges
      BY <3>1, <3>6 DEF VbusChanges, loopVars
    <3>7. CASE EventConfigured
      BY <1>2, <3>1, <3>7 DEF EventConfigured, loopVars
    <3> QED
      BY <1>3, <3>2, <3>3, <3>4, <3>5, <3>6, <3>7 DEF Calm
  <2> QED
    BY <1>1, <2>1, <2>2 DEF SendTypeOK, Place
<1>4. CASE BufferFills
  <2>1. /\ byteCount' \in 0 .. SendBufferSize /\ byteCount' <= Len(sendQueue)
        /\ sendBuffer' \in [Place -> 0 .. produced] /\ Pending' = 1 .. byteCount'
        /\ Len(sendQueue') = Len(sendQueue) - byteCount'
        /\ \A k \in 1 .. Len(sendQueue') : /\ byteCount' + k \in 1 .. Len(sendQueue)
                                           /\ sendQueue'[k] = sendQueue[byteCount' + k]
        /\ UNCHANGED <<produced, configured, vbus, timesConfigured>>
    BY <1>1, <1>4, FillStep, FilledFacts
  <2>2. /\ sendPc' \in {"write", "written"} /\ nextByteIndex' = 0
        /\ waited' \in {0, waited}
    BY <1>1, <1>4 DEF BufferFills, FillBuffer, SerialWrite, StageInv
  <2>3. transfer' \subseteq Place
    BY <1>2, <2>1 DEF Pending, Place
  <2>4. \A k \in 1 .. Len(sendQueue') : sendQueue'[k] \in 1 .. produced
    BY <1>2, <2>1
  <2>5. Len(sendQueue') <= SendQueueCapacity
    BY <1>1, <1>2, <2>1 DEF SendTypeOK
  <2>6. waited' \in 0 .. MaxWait + 1 /\ nextByteIndex' \in 0 .. byteCount'
    BY <1>1, <1>2, <2>1, <2>2 DEF SendTypeOK
  <2> QED
    BY <1>1, <2>1, <2>2, <2>3, <2>4, <2>5, <2>6 DEF SendTypeOK, Place
<1>5. CASE GenWrite
  <2>1. /\ nextByteIndex' \in 1 .. byteCount /\ transfer' \subseteq Place
        /\ sendPc' = sendPc
        /\ UNCHANGED <<sendBuffer, byteCount, configured, sendQueue, produced, vbus,
                       timesConfigured>>
    BY <1>1, <1>5, WriteStep
  <2>2. waited' \in 0 .. MaxWait + 1 /\ nextByteIndex' \in 0 .. byteCount
    BY <1>2, <1>5, <2>1 DEF GenWrite
  <2> QED
    BY <1>1, <2>1, <2>2 DEF SendTypeOK, Place
<1>6. CASE HostTakes
  BY <1>1, <1>6 DEF HostTakes, loopVars, SendTypeOK, Place
<1>7. CASE Produce
  <2>1. /\ produced' = produced + 1 /\ sendQueue' = Append(sendQueue, produced + 1)
        /\ produced < MaxProduced /\ Len(sendQueue) < SendQueueCapacity
        /\ UNCHANGED <<loopVars, configured, vbus, transfer, timesConfigured>>
    BY <1>7 DEF Produce
  <2>2. /\ Len(sendQueue') = Len(sendQueue) + 1
        /\ \A k \in 1 .. Len(sendQueue) : sendQueue'[k] = sendQueue[k]
        /\ sendQueue'[Len(sendQueue) + 1] = produced + 1
    BY <1>2, <2>1
  <2>3. \A k \in 1 .. Len(sendQueue') : sendQueue'[k] \in 1 .. produced'
    BY <1>2, <2>1, <2>2
  <2>4. Len(sendQueue') <= SendQueueCapacity /\ produced' \in 0 .. MaxProduced
    BY <1>2, <2>1, <2>2
  <2>5. sendBuffer' \in [Place -> 0 .. produced']
    BY <1>1, <1>2, <2>1 DEF SendTypeOK, loopVars
  <2> QED
    BY <1>1, <2>1, <2>3, <2>4, <2>5 DEF SendTypeOK, Place, loopVars
<1> QED
  BY <1>3, <1>4, <1>5, <1>6, <1>7, ByteSteps

-----------------------------------------------------------------------------
(* The theorems.                                                            *)

\* Nothing has been sent yet.
LEMMA SendInit == Init => SendInv
<1> SUFFICES ASSUME Init PROVE SendInv
  OBVIOUS
<1>1. InitSend /\ pc = "read"
  BY DEF Init
<1>2. SendTypeOK /\ ByteLogs
  <2>1. 0 <= SendQueueCapacity /\ SendBufferSize >= 0 /\ MaxWait >= 0
    BY SendFacts
  <2>2. sendQueue = <<>> /\ Len(sendQueue) = 0 /\ sendQueue \in Seq(Nat) /\ taken \in Seq(Nat)
    BY <1>1 DEF InitSend
  <2>3. produced = 0 /\ sendBuffer \in [Place -> 0 .. 0] /\ transfer \subseteq Place
    BY <1>1 DEF InitSend
  <2>4. /\ sendPc = "start" /\ configured \in BOOLEAN /\ vbus \in BOOLEAN
        /\ byteCount = 0 /\ nextByteIndex = 0 /\ waited = 0 /\ timesConfigured = 0
    BY <1>1 DEF InitSend
  <2> QED
    BY <2>1, <2>2, <2>3, <2>4, SendFacts DEF SendTypeOK, ByteLogs
<1>3. StageInv
  BY <1>1, SendFacts DEF InitSend, StageInv
<1>4. TransferInv
  BY <1>1 DEF InitSend, TransferInv
<1>5. OrderInv
  BY <1>1 DEF InitSend, OrderInv, Pending, Unwritten, Bytes!Latest
<1>6. LostOnlyWhenGivenUp
  BY <1>1 DEF InitSend, LostOnlyWhenGivenUp
<1> QED
  BY <1>2, <1>3, <1>4, <1>5, <1>6 DEF SendInv

\* Every step keeps the invariant.
LEMMA SendNext == SendInv /\ [Next]_vars => SendInv'
  BY LogStep, TransferStep, OrderStep, LossStep, StageStep, SendTypeStep DEF SendInv

\* The invariant of the sending on the PIC32: what is still to go out is in order, younger
\* than what the host has, and never overwritten while a transfer covers it.
THEOREM SendInvariant == Spec => []SendInv
  BY SendInit, SendNext, PTL DEF Spec

\* Every byte put in the send queue has been taken by the host, is on its way, or was given
\* up after a wait or with a cancelled transfer.
THEOREM NoByteOutOfSight == Spec => []LostOnlyWhenGivenUp
<1>1. SendInv => LostOnlyWhenGivenUp
  BY DEF SendInv
<1> QED
  BY <1>1, SendInvariant, PTL

\* What goes to the host by the PIC32's USB or UART passes a channel that may only lose: no
\* byte comes twice, or after a younger one (processUsbSendQueue, waitForHandle).
THEOREM BytesAtMostOnce == Spec => BytesLostAtMost
<1>1. Init => Bytes!LossyInit
  BY DEF Init, InitSend, Bytes!LossyInit
<1>2. SendInv /\ [Next]_vars => [Bytes!LossyNext]_(Bytes!lossyVars)
  <2> SUFFICES ASSUME SendInv, [Next]_vars
               PROVE  Bytes!Offer \/ Bytes!Deliver \/ UNCHANGED Bytes!lossyVars
    BY DEF Bytes!LossyNext
  <2>1. SendTypeOK /\ ByteLogs /\ StageInv /\ TransferInv /\ OrderInv
    BY DEF SendInv
  <2>2. CASE Calm
    BY <2>1, <2>2, CalmStep DEF Bytes!lossyVars
  <2>3. CASE BufferFills
    BY <2>3, FillStep DEF Bytes!lossyVars
  <2>4. CASE GenWrite
    BY <2>1, <2>4, WriteStep DEF Bytes!lossyVars
  <2>5. CASE HostTakes
    <3>1. PICK lo \in Place, hi \in Place :
              /\ lo <= hi /\ transfer = lo .. hi
              /\ taken' \in Seq(Nat) /\ Len(taken') = Len(taken) + (hi - lo + 1)
              /\ \A i \in 1 .. Len(taken) : taken'[i] = taken[i]
              /\ \A i \in Len(taken) + 1 .. Len(taken') :
                    /\ lo + i - Len(taken) - 1 \in transfer
                    /\ taken'[i] = sendBuffer[lo + i - Len(taken) - 1]
      BY <2>1, <2>5, TakeStep
    <3>2. /\ lo \in Nat /\ hi \in Nat /\ Len(taken) \in Nat /\ taken \in Seq(Nat)
          /\ produced \in Nat /\ sendBuffer \in [Place -> 0 .. produced]
          /\ transfer \subseteq Place /\ Bytes!Latest \in Nat
      BY <2>1, SendFacts, LatestFacts DEF Place, ByteLogs, SendTypeOK
    <3>3. \A i \in Len(taken) + 1 .. Len(taken') : taken'[i] \in Bytes!Latest + 1 .. produced
      <4> TAKE i \in Len(taken) + 1 .. Len(taken')
      <4> DEFINE j == lo + i - Len(taken) - 1
      <4>1. j \in transfer /\ taken'[i] = sendBuffer[j]
        BY <3>1
      <4> HIDE DEF j
      <4>2. Bytes!Latest < sendBuffer[j]
        BY <2>1, <4>1 DEF OrderInv, Pending
      <4>3. sendBuffer[j] \in 0 .. produced
        BY <3>2, <4>1
      <4> QED
        BY <3>2, <4>1, <4>2, <4>3
    <3>4. \A i, j \in Len(taken) + 1 .. Len(taken') : i < j => taken'[i] < taken'[j]
      BY <2>1, <3>1, <3>2 DEF OrderInv, Pending
    <3>5. Bytes!IsStrictPrefix(taken, taken')
      BY <3>1, <3>2 DEF Bytes!IsStrictPrefix, Bytes!IsPrefix
    <3>6. produced' = produced
      BY <2>5 DEF HostTakes
    <3> QED
      BY <3>3, <3>4, <3>5, <3>6 DEF Bytes!Deliver
  <2>6. CASE Produce
    <3>1. produced' > produced /\ taken' = taken
      BY <2>1, <2>6, SendFacts DEF Produce, SendTypeOK
    <3> QED
      BY <3>1 DEF Bytes!Offer
  <2> QED
    BY <2>2, <2>3, <2>4, <2>5, <2>6, ByteSteps
<1> QED
  BY <1>1, <1>2, SendInvariant, PTL DEF Spec, BytesLostAtMost, Bytes!LossySpec

-----------------------------------------------------------------------------
(* The receiving side.                                                    *)

\* The bytes of the requests, and those that come with them.
Sent == {byte \in [request : 1 .. MaxRequests, place : Nat \ {0}, length : Lengths] :
            byte.place <= byte.length}

Byte == Sent \cup {Nul, Junk}

\* The byte at another place of the same request.
At(byte, place) == [byte EXCEPT !.place = place]

\* The request that a byte is the first of.
Opens(byte) == IF byte \in Sent /\ byte.place = 1 THEN byte.request ELSE 0

\* What the assumptions say of the sizes.
LEMMA ReceiveFacts ==
  /\ PacketSize \in Nat /\ PacketSize > 0
  /\ QueueCapacity \in Nat /\ QueueCapacity > 0
  /\ \A length \in Lengths : length \in Nat /\ length > 0
  /\ MaxRequests \in Nat
<1>1. /\ PacketSize \in Nat \ {0} /\ QueueCapacity \in Nat \ {0}
      /\ Lengths \subseteq Nat \ {0} /\ MaxRequests \in Nat
  BY ReceiveAssumption, Zenon
<1> QED
  BY <1>1

\* The bytes of a request differ in their places only, and are none of the others.
LEMMA SentFacts ==
  ASSUME NEW b \in Sent
  PROVE  /\ b \notin {Nul, Junk} /\ Request(b) = b.request
         /\ b.request \in Nat /\ b.request # 0
         /\ b.place \in Nat /\ b.place > 0 /\ b.length \in Nat /\ b.place <= b.length
         /\ At(b, b.place) = b
         /\ \A p \in 1 .. b.length :
               /\ At(b, p) \in Sent /\ At(b, p).place = p
               /\ At(b, p).request = b.request /\ At(b, p).length = b.length
               /\ \A q \in 1 .. b.length : At(At(b, p), q) = At(b, q)
<1>1. /\ b \in [request : 1 .. MaxRequests, place : Nat \ {0}, length : Lengths]
      /\ b.place <= b.length
  BY DEF Sent
<1>2. /\ b.request \in 1 .. MaxRequests /\ b.request \in Nat /\ b.request # 0
      /\ b.length \in Lengths /\ b.length \in Nat /\ b.place \in 1 .. b.length
  BY <1>1, ReceiveFacts
<1>3. b = Text(b.request, b.length)[b.place]
  BY <1>1, <1>2 DEF Text
<1>4. b \notin {Nul, Junk}
  BY <1>2, <1>3, TextAssumption
<1>5. Request(b) = b.request
  BY <1>4 DEF Request
<1>6. At(b, b.place) = b
  BY <1>1 DEF At
<1>7. ASSUME NEW p \in 1 .. b.length
      PROVE  /\ At(b, p) \in Sent /\ At(b, p).place = p
             /\ At(b, p).request = b.request /\ At(b, p).length = b.length
             /\ \A q \in 1 .. b.length : At(At(b, p), q) = At(b, q)
  <2> DEFINE T == [request : 1 .. MaxRequests, place : Nat \ {0}, length : Lengths]
  <2>1. p \in Nat \ {0} /\ p <= b.length
    BY <1>2
  <2>2. /\ At(b, p) \in T /\ At(b, p).place = p
        /\ At(b, p).request = b.request /\ At(b, p).length = b.length
    BY <1>1, <2>1 DEF At
  <2>3. At(b, p) \in Sent
    BY <2>1, <2>2 DEF Sent
  <2>4. \A q : At(At(b, p), q) = At(b, q)
    BY <1>1 DEF At
  <2> QED
    BY <2>2, <2>3, <2>4
<1> QED
  BY <1>1, <1>2, <1>4, <1>5, <1>6, <1>7

\* The bytes of a text.
LEMMA TextFacts ==
  ASSUME NEW request \in 1 .. MaxRequests, NEW length \in Lengths
  PROVE  /\ length \in Nat /\ length > 0
         /\ Text(request, length) \in Seq(Sent) /\ Len(Text(request, length)) = length
         /\ \A i \in 1 .. length : LET b == Text(request, length)[i]
                                   IN  /\ b \in Sent /\ b.request = request
                                       /\ b.place = i /\ b.length = length
                                       /\ \A j \in 1 .. length : Text(request, length)[j] = At(b, j)
<1>1. length \in Nat /\ length > 0
  BY ReceiveFacts
<1>2. \A i \in 1 .. length : /\ Text(request, length)[i] = [request |-> request, place |-> i, length |-> length]
                             /\ Text(request, length)[i] \in Sent
  BY <1>1 DEF Text, Sent
<1>3. Text(request, length) = [i \in 1 .. length |-> Text(request, length)[i]]
  BY DEF Text
<1>4. Text(request, length) \in Seq(Sent) /\ Len(Text(request, length)) = length
  BY <1>1, <1>2, <1>3
<1>5. \A i, j \in 1 .. length : Text(request, length)[j] = At(Text(request, length)[i], j)
  <2> TAKE i, j \in 1 .. length
  <2>1. /\ Text(request, length)[i] = [request |-> request, place |-> i, length |-> length]
        /\ Text(request, length)[j] = [request |-> request, place |-> j, length |-> length]
    BY <1>2
  <2>2. At([request |-> request, place |-> i, length |-> length], j)
           = [request |-> request, place |-> j, length |-> length]
    BY DEF At
  <2> QED
    BY <2>1, <2>2
<1> QED
  BY <1>1, <1>2, <1>4, <1>5

\* What was pushed is in the queue behind what was there, as far as there is room.
LEMMA PushedFacts ==
  ASSUME NEW q \in Seq(Byte), Len(q) <= QueueCapacity, NEW bytes \in Seq(Byte)
  PROVE  /\ Pushed(q, bytes) \in Seq(Byte) /\ Len(Pushed(q, bytes)) <= QueueCapacity
         /\ Len(Pushed(q, bytes)) = Shorter(QueueCapacity, Len(q) + Len(bytes))
         /\ \A i \in 1 .. Len(q) : i \in 1 .. Len(Pushed(q, bytes)) /\ Pushed(q, bytes)[i] = q[i]
         /\ \A i \in Len(q) + 1 .. Len(Pushed(q, bytes)) :
               i - Len(q) \in 1 .. Len(bytes) /\ Pushed(q, bytes)[i] = bytes[i - Len(q)]
<1> DEFINE all == q \o bytes
           n   == Shorter(QueueCapacity, Len(q) + Len(bytes))
<1>1. /\ all \in Seq(Byte) /\ Len(all) = Len(q) + Len(bytes)
      /\ \A i \in 1 .. Len(q) : all[i] = q[i]
      /\ \A i \in Len(q) + 1 .. Len(all) : /\ i - Len(q) \in 1 .. Len(bytes)
                                           /\ all[i] = bytes[i - Len(q)]
  BY ConcatElements
<1>2. n \in 0 .. Len(all) /\ n <= QueueCapacity /\ Len(q) <= n
  BY <1>1, ReceiveFacts DEF Shorter
<1>3. Pushed(q, bytes) = SubSeq(all, 1, n)
  BY <1>1 DEF Pushed
<1> HIDE DEF all, n
<1>4. /\ SubSeq(all, 1, n) \in Seq(Byte) /\ Len(SubSeq(all, 1, n)) = n
      /\ \A i \in 1 .. n : SubSeq(all, 1, n)[i] = all[i]
  BY <1>1, <1>2
<1>5. Len(q) \in Nat /\ n \in Nat
  BY <1>1, <1>2
<1>6. \A i \in 1 .. Len(q) : i \in 1 .. n /\ SubSeq(all, 1, n)[i] = q[i]
  BY <1>1, <1>2, <1>4, <1>5
<1>7. \A i \in Len(q) + 1 .. n : i \in 1 .. n /\ i \in Len(q) + 1 .. Len(all)
  BY <1>1, <1>2, <1>5
<1>8. n = Shorter(QueueCapacity, Len(q) + Len(bytes))
  BY DEF n
<1> QED
  BY <1>1, <1>2, <1>3, <1>4, <1>6, <1>7, <1>8

\* What the callback and the clearing do to the queue.
LEMMA ProcessFacts ==
  ASSUME NEW q \in Seq(Byte), q # <<>>, Len(q) <= QueueCapacity, processQueue(q)
  PROVE  /\ \/ receiveQueue' = <<>>
            \/ receiveQueue' = q /\ Len(q) < QueueCapacity /\ \A i \in 1 .. Len(q) : q[i] # Nul
         /\ \/ executed' = executed
            \/ /\ Opens(q[1]) # 0 /\ executed' = Append(executed, Opens(q[1]))
               /\ receiveQueue' = <<>>
<1>1. Len(q) \in Nat /\ Len(q) > 0 /\ 1 \in 1 .. Len(q) /\ QueueCapacity \in Nat
  BY ReceiveFacts
<1>2. PICK found \in receiveWriteRequest(q) :
            /\ executed' = IF found THEN Append(executed, Request(q[1])) ELSE executed
            /\ receiveQueue' = IF found \/ Hopeless(q) THEN <<>> ELSE q
  BY DEF processQueue
<1>3. found = TRUE => Opens(q[1]) = Request(q[1]) /\ Opens(q[1]) # 0
  <2> SUFFICES ASSUME found = TRUE
               PROVE  Opens(q[1]) = Request(q[1]) /\ Opens(q[1]) # 0
    OBVIOUS
  <2>1. Request(q[1]) # 0
    BY <1>2 DEF receiveWriteRequest
  <2>2. q[1] \in Sent
    BY <1>1, <2>1 DEF Byte, Request
  <2>3. q[1].length \in Nat /\ q[1].length > 0
    BY <2>2, SentFacts
  <2>4. \E n \in Nat : n > 0 /\ Agrees(q, n)
    <3>1. CASE q[1].length <= Len(q)
      BY <1>2, <2>1, <2>3, <3>1 DEF receiveWriteRequest
    <3>2. CASE ~(q[1].length <= Len(q))
      <4>1. Agrees(q, Len(q))
        BY <1>2, <2>1, <3>2 DEF receiveWriteRequest
      <4> QED
        BY <1>1, <4>1
    <3> QED
      BY <3>1, <3>2
  <2>5. q[1] = At(q[1], 1)
    BY <2>4 DEF Agrees, At
  <2>6. q[1].place = 1
    BY <2>2, <2>3, <2>5, SentFacts
  <2> QED
    BY <2>1, <2>2, <2>6, SentFacts DEF Opens
<1>4. ~Hopeless(q) => Len(q) < QueueCapacity /\ \A i \in 1 .. Len(q) : q[i] # Nul
  BY <1>1 DEF Hopeless
<1> QED
  BY <1>2, <1>3, <1>4

\* A request that has begun at the front of the queue and fits into it is executed with
\* its last byte, or before, and stays in the queue until then.
LEMMA ProcessRun ==
  ASSUME NEW b \in Sent, b.length <= QueueCapacity,
         NEW q \in Seq(Byte), q # <<>>,
         \A i \in 1 .. Len(q) : i <= b.length => q[i] = At(b, i),
         processQueue(q)
  PROVE  \/ executed' = Append(executed, b.request)
         \/ executed' = executed /\ receiveQueue' = q /\ Len(q) < b.length
<1>1. /\ Len(q) \in Nat /\ Len(q) > 0 /\ 1 \in 1 .. Len(q) /\ QueueCapacity \in Nat
      /\ b.length \in Nat /\ b.length > 0
  BY ReceiveFacts, SentFacts
<1>2. q[1] = At(b, 1)
  BY <1>1
<1>3. /\ q[1] \in Sent /\ q[1].length = b.length
      /\ Request(q[1]) = b.request /\ b.request # 0
      /\ \A i \in 1 .. b.length : [q[1] EXCEPT !.place = i] = At(b, i)
  <2>1. q[1] \in Sent /\ q[1].request = b.request /\ q[1].length = b.length
    BY <1>1, <1>2, SentFacts
  <2>2. \A i \in 1 .. b.length : At(q[1], i) = At(b, i)
    BY <1>1, <1>2, SentFacts
  <2> QED
    BY <2>1, <2>2, SentFacts DEF At
<1>4. PICK found \in receiveWriteRequest(q) :
            /\ executed' = IF found THEN Append(executed, Request(q[1])) ELSE executed
            /\ receiveQueue' = IF found \/ Hopeless(q) THEN <<>> ELSE q
  BY DEF processQueue
<1>5. CASE b.length <= Len(q)
  <2>1. Agrees(q, b.length)
    BY <1>1, <1>3, <1>5 DEF Agrees
  <2>2. found = TRUE
    BY <1>3, <1>4, <1>5, <2>1 DEF receiveWriteRequest
  <2> QED
    BY <1>3, <1>4, <2>2
<1>6. CASE ~(b.length <= Len(q))
  <2>1. \A i \in 1 .. Len(q) : q[i] # Nul
    <3> TAKE i \in 1 .. Len(q)
    <3>1. i \in 1 .. b.length /\ q[i] = At(b, i)
      BY <1>1, <1>6
    <3>2. At(b, i) \in Sent
      BY <3>1, SentFacts
    <3> QED
      BY <3>1, <3>2, SentFacts
  <2>2. Hopeless(q) <=> FALSE
    BY <1>1, <1>6, <2>1 DEF Hopeless
  <2>3. found \in BOOLEAN
    BY <1>3, <1>4, <1>6 DEF receiveWriteRequest
  <2>4. Len(q) < b.length
    BY <1>1, <1>6
  <2> QED
    BY <1>3, <1>4, <2>2, <2>3, <2>4
<1> QED
  BY <1>5, <1>6

-----------------------------------------------------------------------------
(* The inductive invariant of the receiving side.                           *)

ReadTypes == /\ executed \in Seq(Nat)
             /\ receiveQueue \in Seq(Byte)
             /\ receiveBuffer \in [1 .. PacketSize -> Byte]
             /\ wire \in IF link \in Usb THEN Seq(Seq(Sent)) ELSE Seq(Sent)

\* The request that begins at the front of the queue, in the receive buffer, and with a
\* packet or byte on the wire.
Queued == IF receiveQueue = <<>> THEN 0 ELSE Opens(receiveQueue[1])

Buffered == Opens(receiveBuffer[1])

First(unit) == IF link \in Usb THEN (IF unit = <<>> THEN 0 ELSE Opens(unit[1])) ELSE Opens(unit)

Coming(k) == First(wire[k])

\* A request that begins somewhere is younger than all that were executed, and than what
\* begins nearer to the callback.
YoungerInv ==
    /\ Requests!Latest <= asked
    /\ Queued # 0 => Requests!Latest < Queued /\ Queued <= asked
    /\ Buffered # 0 => Requests!Latest < Buffered /\ Queued < Buffered /\ Buffered <= asked
    /\ \A k \in 1 .. Len(wire) : Coming(k) # 0 =>
          /\ Requests!Latest < Coming(k) /\ Queued < Coming(k) /\ Buffered < Coming(k)
          /\ Coming(k) <= asked
    /\ \A k, l \in 1 .. Len(wire) : k < l /\ Coming(l) # 0 => Coming(k) < Coming(l)

\* How much of its request a packet that begins with this byte holds.
Chunk(b) == Shorter(PacketSize, b.length - b.place + 1)

\* The packet at place k goes on where one that begins with this byte ends.
Follows(packets, b, k) == b.place + PacketSize <= b.length =>
                             /\ k \in 1 .. Len(packets) /\ packets[k] # <<>>
                             /\ packets[k][1] = At(b, b.place + PacketSize)

\* The receive buffer of the PIC32 holds a packet that has not been read.
Loaded == link = "pic32 usb" /\ ~armed /\ receiveBuffer[1] # Nul

PacketInv ==
    link \in Usb => \A k \in 1 .. Len(wire) : wire[k] # <<>> =>
        /\ wire[k] = [i \in 1 .. Chunk(wire[k][1]) |-> At(wire[k][1], wire[k][1].place + i - 1)]
        /\ Follows(wire, wire[k][1], k + 1)

BufferInv ==
    /\ armed => link = "pic32 usb"
    /\ armed \/ link # "pic32 usb" => receiveBuffer[1] = Nul
    /\ Loaded => /\ receiveBuffer[1] \in Sent
                 /\ \A i \in 1 .. Chunk(receiveBuffer[1]) :
                       receiveBuffer[i] = At(receiveBuffer[1], receiveBuffer[1].place + i - 1)
                 /\ Follows(wire, receiveBuffer[1], 1)

StreamInv ==
    link \notin Usb => \A k \in 1 .. Len(wire) :
        /\ k + (wire[k].length - wire[k].place) <= Len(wire)
        /\ \A j \in 0 .. wire[k].length - wire[k].place :
              wire[k + j] = At(wire[k], wire[k].place + j)

\* This byte is the next one to be read.
NextByte(b) == IF Loaded THEN receiveBuffer[1] = b
               ELSE /\ wire # <<>>
                    /\ IF link \in Usb THEN wire[1] # <<>> /\ wire[1][1] = b ELSE wire[1] = b

\* The queue holds a request up to the byte that is read next.
InProgress(request) ==
    \E b \in Sent : /\ b.request = request /\ b.length <= QueueCapacity /\ b.place > 1
                    /\ Len(receiveQueue) = b.place - 1
                    /\ \A i \in 1 .. b.place - 1 : receiveQueue[i] = At(b, i)
                    /\ NextByte(b)

Done(request) == \E i \in 1 .. Len(executed) : executed[i] = request

CleanInv == link # "ethernet" => \A request \in clean : Done(request) \/ InProgress(request)

ReceiveInv == /\ ReceiveTypeOK /\ ReadTypes /\ YoungerInv
              /\ PacketInv /\ BufferInv /\ StreamInv /\ CleanInv

-----------------------------------------------------------------------------
(* What the host sends.                                                     *)

\* The packets of a request: how many there are, and where the i-th begins.
LEMMA PacketsCover ==
  ASSUME NEW length \in Nat, length > 0
  PROVE  \E n \in Nat : /\ n = (length + PacketSize - 1) \div PacketSize /\ n > 0
                        /\ \A i \in 1 .. n : (i - 1) * PacketSize < length
                        /\ n * PacketSize >= length
<1>1. PacketSize \in Nat /\ PacketSize > 0
  BY ReceiveFacts
<1> DEFINE n == (length + PacketSize - 1) \div PacketSize
           r == (length + PacketSize - 1) % PacketSize
<1>2. /\ n \in Int /\ r \in 0 .. PacketSize - 1
      /\ length + PacketSize - 1 = n * PacketSize + r
  BY <1>1
<1> HIDE DEF n, r
<1>3. n * PacketSize >= length /\ n * PacketSize < length + PacketSize
  <2> DEFINE p == n * PacketSize
  <2>1. p \in Int /\ length + PacketSize - 1 = p + r
    BY <1>1, <1>2
  <2> HIDE DEF p
  <2>2. p >= length /\ p < length + PacketSize
    BY <1>1, <1>2, <2>1
  <2> QED
    BY <2>2 DEF p
<1>4. n > 0
  <2>1. n <= 0 => n * PacketSize <= 0
    BY <1>1, <1>2
  <2> DEFINE p == n * PacketSize
  <2>2. p \in Int /\ p >= length /\ (n <= 0 => p <= 0)
    BY <1>1, <1>2, <1>3, <2>1
  <2> HIDE DEF p
  <2> QED
    BY <1>2, <2>2
<1>5. ASSUME NEW i \in 1 .. n
      PROVE  (i - 1) * PacketSize < length
  <2>1. (i - 1) * PacketSize <= (n - 1) * PacketSize
    BY <1>1, <1>2, i - 1 <= n - 1
  <2>2. (n - 1) * PacketSize = n * PacketSize - PacketSize
    BY <1>1, <1>2
  <2> DEFINE p == n * PacketSize
             q == (n - 1) * PacketSize
             o == (i - 1) * PacketSize
  <2>3. p \in Int /\ q \in Int /\ o \in Int /\ o <= q /\ q = p - PacketSize
        /\ p < length + PacketSize
    BY <1>1, <1>2, <1>3, <2>1, <2>2
  <2> HIDE DEF o, p, q
  <2>4. o < length
    BY <1>1, <2>3
  <2> QED
    BY <2>4 DEF o
<1>6. n \in Nat /\ n = (length + PacketSize - 1) \div PacketSize
  <2>1. n = (length + PacketSize - 1) \div PacketSize
    BY DEF n
  <2> QED
    BY <1>2, <1>4, <2>1
<1> QED
  BY <1>3, <1>4, <1>5, <1>6, Zenon

\* Each packet that is not empty begins where the one before it ends, and holds what is
\* left of the request or as much as it can.
LEMMA PacketsFacts ==
  ASSUME NEW request \in 1 .. MaxRequests, NEW length \in Lengths, NEW ends \in BOOLEAN
  PROVE  LET new == Packets(Text(request, length), ends)
         IN  /\ new \in Seq(Seq(Sent)) /\ Len(new) > 0 /\ new[1] # <<>>
             /\ \A k \in 1 .. Len(new) : new[k] # <<>> =>
                   LET b == new[k][1]
                   IN  /\ b \in Sent /\ b.request = request /\ (b.place = 1 <=> k = 1)
                       /\ new[k] = [i \in 1 .. Chunk(b) |-> At(b, b.place + i - 1)]
                       /\ b.place + PacketSize <= b.length =>
                             /\ k + 1 \in 1 .. Len(new) /\ new[k + 1] # <<>>
                             /\ new[k + 1][1] = At(b, b.place + PacketSize)
<1> DEFINE text      == Text(request, length)
           packet(i) == SubSeq(text, (i - 1) * PacketSize + 1, Shorter(i * PacketSize, length))
           packets   == [i \in 1 .. (length + PacketSize - 1) \div PacketSize |-> packet(i)]
           new       == Packets(text, ends)
           begin(i)  == (i - 1) * PacketSize
<1>1. /\ length \in Nat /\ length > 0 /\ text \in Seq(Sent) /\ Len(text) = length
      /\ \A i \in 1 .. length : /\ text[i] \in Sent /\ text[i].request = request
                                /\ text[i].place = i /\ text[i].length = length
                                /\ \A j \in 1 .. length : text[j] = At(text[i], j)
  BY TextFacts
<1>2. PacketSize \in Nat /\ PacketSize > 0
  BY ReceiveFacts
<1>3. PICK n \in Nat : /\ n = (length + PacketSize - 1) \div PacketSize /\ n > 0
                       /\ \A i \in 1 .. n : begin(i) < length
                       /\ n * PacketSize >= length
  BY <1>1, PacketsCover
<1>4. /\ packets = [i \in 1 .. n |-> packet(i)]
      /\ new = IF ends /\ length % PacketSize = 0 THEN Append(packets, <<>>) ELSE packets
  BY <1>1, <1>3 DEF Packets
<1>5. ASSUME NEW i \in 1 .. n
      PROVE  /\ begin(i) \in Nat /\ (i = 1 <=> begin(i) = 0) /\ (i # 1 => begin(i) >= PacketSize)
             /\ begin(i + 1) = begin(i) + PacketSize /\ i * PacketSize = begin(i) + PacketSize
             /\ begin(i) < length
             /\ begin(i) + PacketSize < length => i + 1 \in 1 .. n
  <2>1. i \in Nat /\ i - 1 \in Nat /\ begin(i) \in Nat
    BY <1>2
  <2>2. i = 1 => begin(i) = 0
    BY <1>2
  <2>3. i # 1 => begin(i) >= PacketSize
    <3>1. i # 1 => i - 1 >= 1
      OBVIOUS
    <3> QED
      BY <1>2, <2>1, <3>1
  <2>4. begin(i + 1) = begin(i) + PacketSize /\ i * PacketSize = begin(i) + PacketSize
    BY <1>2
  <2>5. i = n => begin(i) + PacketSize >= length
    BY <1>3, <2>4
  <2>6. begin(i) < length
    BY <1>3
  <2> HIDE DEF begin
  <2>7. begin(i) + PacketSize < length => i + 1 \in 1 .. n
    BY <1>1, <1>2, <1>3, <2>1, <2>5
  <2>8. i = 1 <=> begin(i) = 0
    BY <1>2, <2>2, <2>3
  <2> QED
    BY <2>1, <2>3, <2>4, <2>6, <2>7, <2>8
<1>6. \A i \in 1 .. n : packet(i) = SubSeq(text, begin(i) + 1, Shorter(begin(i) + PacketSize, length))
  BY <1>5
<1> HIDE DEF text, begin, packet
<1>7. ASSUME NEW i \in 1 .. n
      PROVE  /\ packet(i) \in Seq(Sent) /\ packet(i) # <<>>
             /\ packet(i)[1] = text[begin(i) + 1] /\ begin(i) + 1 \in 1 .. length
             /\ Len(packet(i)) = Shorter(PacketSize, length - begin(i))
             /\ \A j \in 1 .. Len(packet(i)) : /\ begin(i) + j \in 1 .. length
                                               /\ packet(i)[j] = text[begin(i) + j]
  <2> DEFINE m == Shorter(begin(i) + PacketSize, length)
             s == begin(i)
  <2>1. s \in Nat /\ s < length /\ m \in s + 1 .. length
        /\ m - s = Shorter(PacketSize, length - s)
    <3>1. s \in Nat /\ s < length
      BY <1>5
    <3>2. m = IF s + PacketSize < length THEN s + PacketSize ELSE length
      BY DEF Shorter
    <3> HIDE DEF m, s
    <3> QED
      BY <1>1, <1>2, <3>1, <3>2 DEF Shorter
  <2>2. packet(i) = SubSeq(text, s + 1, m)
    BY <1>6
  <2> HIDE DEF m, s
  <2>3. /\ SubSeq(text, s + 1, m) \in Seq(Sent) /\ Len(SubSeq(text, s + 1, m)) = m - s
        /\ \A j \in 1 .. m - s : s + j \in 1 .. length /\ SubSeq(text, s + 1, m)[j] = text[s + j]
    BY <1>1, <2>1
  <2>4. 1 \in 1 .. m - s /\ m - s # 0
    BY <1>1, <2>1
  <2>5. packet(i) # <<>>
    <3>1. Len(packet(i)) # 0
      BY <2>2, <2>3, <2>4
    <3> QED
      BY <3>1
  <2> QED
    BY <2>1, <2>2, <2>3, <2>4, <2>5 DEF s
<1>8. ASSUME NEW i \in 1 .. n
      PROVE  LET b == packet(i)[1]
             IN  /\ b \in Sent /\ b.request = request /\ (b.place = 1 <=> i = 1)
                 /\ packet(i) = [j \in 1 .. Chunk(b) |-> At(b, b.place + j - 1)]
                 /\ b.place + PacketSize <= b.length =>
                       /\ i + 1 \in 1 .. n
                       /\ packet(i + 1)[1] = At(b, b.place + PacketSize)
  <2> DEFINE b == packet(i)[1]
  <2>1. /\ b \in Sent /\ b.request = request /\ b.place = begin(i) + 1 /\ b.length = length
        /\ \A j \in 1 .. length : text[j] = At(b, j)
    BY <1>1, <1>7
  <2>2. b.place = 1 <=> i = 1
    BY <1>5, <2>1
  <2>3. Chunk(b) = Len(packet(i))
    <3>1. length - (begin(i) + 1) + 1 = length - begin(i)
      BY <1>1, <1>5
    <3> QED
      BY <1>7, <2>1, <3>1 DEF Chunk
  <2>4. packet(i) = [j \in 1 .. Chunk(b) |-> At(b, b.place + j - 1)]
    <3>1. \A j \in 1 .. Len(packet(i)) : packet(i)[j] = At(b, b.place + j - 1)
      <4> TAKE j \in 1 .. Len(packet(i))
      <4>1. begin(i) + j \in 1 .. length /\ packet(i)[j] = text[begin(i) + j]
        BY <1>7
      <4>2. b.place + j - 1 = begin(i) + j
        BY <1>5, <1>7, <2>1
      <4> QED
        BY <2>1, <4>1, <4>2
    <3>2. packet(i) = [j \in 1 .. Len(packet(i)) |-> packet(i)[j]]
      BY <1>7
    <3> HIDE DEF b
    <3> QED
      BY <2>3, <3>1, <3>2
  <2>5. b.place + PacketSize <= b.length =>
           i + 1 \in 1 .. n /\ packet(i + 1)[1] = At(b, b.place + PacketSize)
    <3> SUFFICES ASSUME b.place + PacketSize <= b.length
                 PROVE  i + 1 \in 1 .. n /\ packet(i + 1)[1] = At(b, b.place + PacketSize)
      OBVIOUS
    <3>1. i + 1 \in 1 .. n
      <4>1. b.place = begin(i) + 1 /\ b.length = length /\ begin(i) \in Nat
        BY <1>5, <2>1
      <4> HIDE DEF b
      <4>2. begin(i) + PacketSize < length
        BY <1>1, <1>2, <4>1
      <4> QED
        BY <1>5, <4>2
    <3>2. packet(i + 1)[1] = text[begin(i + 1) + 1] /\ begin(i + 1) + 1 \in 1 .. length
      BY <1>7, <3>1
    <3>3. begin(i + 1) + 1 = b.place + PacketSize
      BY <1>2, <1>5, <2>1
    <3> QED
      BY <2>1, <3>1, <3>2, <3>3
  <2> QED
    BY <2>1, <2>2, <2>4, <2>5
<1>9. /\ packets \in Seq(Seq(Sent)) /\ Len(packets) = n
      /\ \A i \in 1 .. n : packets[i] = packet(i)
  BY <1>3, <1>4, <1>7
<1> HIDE DEF packets, new
<1>10. /\ new \in Seq(Seq(Sent)) /\ Len(new) \in {n, n + 1}
       /\ \A i \in 1 .. n : new[i] = packet(i)
       /\ \A k \in 1 .. Len(new) : new[k] # <<>> => k \in 1 .. n
  <2>1. CASE new = packets
    BY <1>9, <2>1
  <2>2. CASE new = Append(packets, <<>>)
    <3>1. <<>> \in Seq(Sent)
      OBVIOUS
    <3>2. /\ Append(packets, <<>>) \in Seq(Seq(Sent)) /\ Len(Append(packets, <<>>)) = n + 1
          /\ \A i \in 1 .. n : Append(packets, <<>>)[i] = packets[i]
          /\ Append(packets, <<>>)[n + 1] = <<>>
      BY <1>9, <3>1
    <3>3. \A k \in 1 .. n + 1 : k \in 1 .. n \/ k = n + 1
      BY <1>3
    <3> QED
      BY <1>9, <2>2, <3>2, <3>3
  <2> QED
    BY <1>4, <2>1, <2>2
<1>11. Len(new) > 0 /\ new[1] # <<>> /\ \A k \in 1 .. n : k \in 1 .. Len(new)
  <2>1. 1 \in 1 .. n
    BY <1>3
  <2>2. new[1] = packet(1) /\ packet(1) # <<>>
    BY <1>7, <1>10, <2>1
  <2>3. Len(new) > 0 /\ \A k \in 1 .. n : k \in 1 .. Len(new)
    BY <1>3, <1>10
  <2> QED
    BY <2>2, <2>3
<1>12. \A k \in 1 .. Len(new) : new[k] # <<>> =>
                   LET b == new[k][1]
                   IN  /\ b \in Sent /\ b.request = request /\ (b.place = 1 <=> k = 1)
                       /\ new[k] = [i \in 1 .. Chunk(b) |-> At(b, b.place + i - 1)]
                       /\ b.place + PacketSize <= b.length =>
                             /\ k + 1 \in 1 .. Len(new) /\ new[k + 1] # <<>>
                             /\ new[k + 1][1] = At(b, b.place + PacketSize)
  <2> TAKE k \in 1 .. Len(new)
  <2> HAVE new[k] # <<>>
  <2>1. k \in 1 .. n /\ new[k] = packet(k)
    BY <1>10
  <2>2. k + 1 \in 1 .. n => /\ new[k + 1] = packet(k + 1) /\ packet(k + 1) # <<>>
                            /\ k + 1 \in 1 .. Len(new)
    BY <1>7, <1>10, <1>11
  <2> QED
    BY <1>8, <2>1, <2>2
<1> QED
  BY <1>10, <1>11, <1>12 DEF new, text

-----------------------------------------------------------------------------
(* What the steps do.                                                       *)

\* The steps of the receiving side.
LEMMA ReceiveSteps ==
  ASSUME [Next]_vars
  PROVE  UNCHANGED receiveVars \/ ReadStep \/ HostAsks \/ PacketArrives
<1>1. CASE UNCHANGED vars
  BY <1>1 DEF vars
<1>2. CASE LoopStep
  BY <1>2 DEF LoopStep, Read, NothingToRead, Send
<1>3. CASE HostStep
  BY <1>3 DEF HostStep
<1>4. CASE Outgoing \/ UsbEvent
  BY <1>4 DEF Outgoing, UsbEvent
<1> QED
  BY <1>1, <1>2, <1>3, <1>4 DEF Next

\* Where the bytes come from that a reader puts into the queue: the receive buffer, a
\* packet, or what has arrived of a stream.
FromBuffer(bytes) == /\ Loaded /\ bytes = receiveBuffer
                     /\ armForRead(receiveBuffer) /\ wire' = wire

FromPacket(bytes) ==
    /\ link = "lpc17xx usb" /\ wire # <<>> /\ Len(bytes) = PacketSize
    /\ \A i \in 1 .. PacketSize : i <= Len(wire[1]) => bytes[i] = wire[1][i]
    /\ wire[1] = <<>> => bytes[1] \in {Nul, Junk}
    /\ wire' = SubSeq(wire, 2, Len(wire))
    /\ UNCHANGED <<receiveBuffer, armed>>

FromStream(bytes) ==
    /\ link \in {"pic32 uart", "ethernet"} /\ wire # <<>> /\ bytes[1] = wire[1]
    /\ \E m \in 1 .. Len(wire) :
          /\ wire' = SubSeq(wire, m + 1, Len(wire))
          /\ link = "pic32 uart" => Len(bytes) = m /\ \A i \in 1 .. m : bytes[i] = wire[i]
    /\ UNCHANGED <<receiveBuffer, armed>>

ReadsFrom(bytes) == FromBuffer(bytes) \/ FromPacket(bytes) \/ FromStream(bytes)

NothingLoaded == /\ link = "pic32 usb" /\ ~armed /\ receiveBuffer[1] = Nul
                 /\ armForRead(receiveBuffer)
                 /\ UNCHANGED <<wire, receiveQueue, executed, clean>>

\* What the library's buffer holds behind a packet is bytes, and behind an empty one no
\* request begins.
LEMMA LeftoverBytes ==
  ASSUME NEW packet \in Seq(Sent), NEW rest \in Leftovers(packet)
  PROVE  /\ rest \in [1 .. PacketSize -> Byte]
         /\ packet = <<>> => rest[1] \in {Nul, Junk}
<1>1. /\ PacketSize \in Nat /\ PacketSize > 0 /\ QueueCapacity \in Nat /\ MaxRequests \in Nat
      /\ \A length \in Lengths : length \in Nat /\ length > 0
  BY ReceiveFacts
<1>2. CASE \E byte \in {Nul, Junk} : rest = [i \in 1 .. PacketSize |-> byte]
  BY <1>1, <1>2 DEF Byte
<1>3. ASSUME packet # <<>>,
             NEW request \in 1 .. packet[1].request, NEW length \in Lengths,
             NEW n \in 0 .. QueueCapacity \div PacketSize,
             rest = [i \in 1 .. PacketSize |->
                        IF n * PacketSize + i <= length
                        THEN Text(request, length)[n * PacketSize + i] ELSE Junk]
      PROVE  rest \in [1 .. PacketSize -> Byte]
  <2>1. packet[1] \in Sent
    BY <1>3
  <2>2. request \in 1 .. MaxRequests
    <3>1. packet[1].request \in 1 .. MaxRequests
      BY <2>1 DEF Sent
    <3> QED
      BY <1>1, <1>3, <3>1
  <2>3. n \in Nat
    BY <1>1, <1>3
  <2>4. ASSUME NEW i \in 1 .. PacketSize, n * PacketSize + i <= length
        PROVE  Text(request, length)[n * PacketSize + i] \in Byte
    <3> DEFINE place == n * PacketSize + i
    <3>1. n * PacketSize \in Nat
      BY <1>1, <2>3
    <3>2. place \in 1 .. length /\ length \in Nat
      BY <1>1, <2>4, <3>1
    <3> HIDE DEF place
    <3>3. Text(request, length)[place] = [request |-> request, place |-> place, length |-> length]
      BY <3>2 DEF Text
    <3>4. Text(request, length)[place] \in Sent
      BY <2>2, <3>2, <3>3 DEF Sent
    <3> QED
      BY <3>4 DEF Byte, place
  <2> QED
    BY <1>3, <2>4 DEF Byte
<1> QED
  BY <1>2, <1>3 DEF Leftovers

\* A reader passes on some bytes, if there are any.
LEMMA ReadFacts ==
  ASSUME ReceiveTypeOK, ReadTypes, ReadStep
  PROVE  /\ link' = link /\ asked' = asked
         /\ \/ NothingLoaded
            \/ \E bytes \in Seq(Byte) : bytes # <<>> /\ Take(bytes) /\ ReadsFrom(bytes)
<1>1. /\ PacketSize \in Nat /\ PacketSize > 0 /\ QueueCapacity \in Nat
      /\ receiveQueue \in Seq(Byte) /\ Len(receiveQueue) < QueueCapacity
      /\ receiveBuffer \in [1 .. PacketSize -> Byte]
      /\ wire \in IF link \in Usb THEN Seq(Seq(Sent)) ELSE Seq(Sent)
      /\ Nul \in Byte /\ Junk \in Byte /\ Sent \subseteq Byte
  BY ReceiveFacts DEF ReceiveTypeOK, ReadTypes, Byte
<1>2. CASE readFromEndpoint
  <2>1. PICK rest \in Leftovers(Head(wire)) : Take(EndpointBytes(Head(wire), rest))
    BY <1>2 DEF readFromEndpoint
  <2>2. /\ link = "lpc17xx usb" /\ wire # <<>> /\ wire' = Tail(wire)
        /\ UNCHANGED <<link, receiveBuffer, armed, asked>>
    BY <1>2 DEF readFromEndpoint
  <2>3. wire \in Seq(Seq(Sent)) /\ Len(wire) > 0 /\ Head(wire) = wire[1] /\ wire[1] \in Seq(Sent)
    <3>1. link \in Usb
      BY <2>2 DEF Usb
    <3>2. wire \in Seq(Seq(Sent))
      BY <1>1, <3>1
    <3> DEFINE S == Seq(Sent)
    <3>3. wire \in Seq(S)
      BY <3>2
    <3> HIDE DEF S
    <3>4. Len(wire) > 0 /\ Head(wire) = wire[1] /\ wire[1] \in S
      BY <2>2, <3>3, FirstElement
    <3> QED
      BY <3>3, <3>4 DEF S
  <2> DEFINE bytes == EndpointBytes(wire[1], rest)
  <2>10. rest \in [1 .. PacketSize -> Byte] /\ (wire[1] = <<>> => rest[1] \in {Nul, Junk})
    BY <2>1, <2>3, LeftoverBytes
  <2>4. /\ bytes \in [1 .. PacketSize -> Byte]
        /\ \A i \in 1 .. PacketSize :
              bytes[i] = IF i <= Len(wire[1]) THEN wire[1][i] ELSE rest[i]
    <3>1. \A i \in 1 .. PacketSize : (IF i <= Len(wire[1]) THEN wire[1][i] ELSE rest[i]) \in Byte
      BY <1>1, <2>3, <2>10
    <3> QED
      BY <3>1 DEF EndpointBytes
  <2>5. Take(bytes)
    BY <2>1, <2>3
  <2> HIDE DEF bytes
  <2>6. bytes \in Seq(Byte) /\ Len(bytes) = PacketSize /\ bytes # <<>>
    BY <1>1, <2>4
  <2>7. wire[1] = <<>> => bytes[1] \in {Nul, Junk}
    BY <1>1, <2>4, <2>10
  <2>8. wire' = SubSeq(wire, 2, Len(wire))
    BY <2>2, <2>3, TailIsRest
  <2>9. FromPacket(bytes)
    BY <2>2, <2>4, <2>6, <2>7, <2>8 DEF FromPacket
  <2> QED
    BY <2>2, <2>5, <2>6, <2>9 DEF ReadsFrom
<1>3. CASE readFromHost
  <2>1. /\ link = "pic32 usb" /\ ~armed /\ armForRead(receiveBuffer)
        /\ UNCHANGED <<link, wire, asked>>
    BY <1>3 DEF readFromHost
  <2>2. CASE receiveBuffer[1] # Nul
    <3>1. Take(receiveBuffer) /\ FromBuffer(receiveBuffer)
      BY <1>3, <2>1, <2>2 DEF readFromHost, FromBuffer, Loaded
    <3>2. receiveBuffer \in Seq(Byte) /\ receiveBuffer # <<>>
      BY <1>1
    <3> QED
      BY <2>1, <3>1, <3>2 DEF ReadsFrom
  <2>3. CASE receiveBuffer[1] = Nul
    BY <1>3, <2>1, <2>3 DEF readFromHost, NothingLoaded
  <2> QED
    BY <2>2, <2>3
<1>4. CASE readFromSerial
  <2>1. PICK available \in 1 .. Len(wire) :
            LET n == Shorter(available, QueueCapacity - Len(receiveQueue))
            IN  /\ Take(SubSeq(wire, 1, n))
                /\ wire' = SubSeq(wire, n + 1, Len(wire))
    BY <1>4 DEF readFromSerial
  <2> DEFINE n == Shorter(available, QueueCapacity - Len(receiveQueue))
             bytes == SubSeq(wire, 1, n)
  <2>2. /\ link = "pic32 uart" /\ wire # <<>>
        /\ UNCHANGED <<link, receiveBuffer, armed, asked>>
    BY <1>4 DEF readFromSerial
  <2>3. wire \in Seq(Sent) /\ Len(wire) \in Nat
    <3>1. link \notin Usb
      BY <2>2 DEF Usb
    <3>2. wire \in Seq(Sent)
      BY <1>1, <3>1
    <3> QED
      BY <3>2
  <2>4. n \in 1 .. Len(wire)
    BY <1>1, <2>3 DEF Shorter
  <2>5. Take(bytes) /\ wire' = SubSeq(wire, n + 1, Len(wire))
    BY <2>1
  <2> HIDE DEF n
  <2>6. bytes \in Seq(Sent) /\ Len(bytes) = n /\ \A i \in 1 .. n : bytes[i] = wire[i]
    BY <2>3, <2>4
  <2> HIDE DEF bytes
  <2>7. bytes \in Seq(Byte) /\ bytes # <<>> /\ bytes[1] = wire[1]
    BY <1>1, <2>3, <2>4, <2>6
  <2>8. FromStream(bytes)
    BY <2>2, <2>4, <2>5, <2>6, <2>7 DEF FromStream
  <2> QED
    BY <2>2, <2>5, <2>7, <2>8 DEF ReadsFrom
<1>5. CASE readFromSocket
  <2>1. PICK available \in 1 .. Len(wire) :
            LET room == QueueCapacity - Len(receiveQueue)
            IN  /\ Take([i \in 1 .. room |-> IF i <= available THEN wire[i] ELSE Junk])
                /\ wire' = SubSeq(wire, Shorter(available, room + 1) + 1, Len(wire))
    BY <1>5 DEF readFromSocket
  <2> DEFINE room  == QueueCapacity - Len(receiveQueue)
             m     == Shorter(available, room + 1)
             bytes == [i \in 1 .. room |-> IF i <= available THEN wire[i] ELSE Junk]
  <2>2. /\ link = "ethernet" /\ wire # <<>>
        /\ UNCHANGED <<link, receiveBuffer, armed, asked>>
    BY <1>5 DEF readFromSocket
  <2>3. wire \in Seq(Sent) /\ Len(wire) \in Nat
    <3>1. link \notin Usb
      BY <2>2 DEF Usb
    <3>2. wire \in Seq(Sent)
      BY <1>1, <3>1
    <3> QED
      BY <3>2
  <2>4. room \in Nat /\ room > 0 /\ m \in 1 .. Len(wire)
    BY <1>1, <2>3 DEF Shorter
  <2>5. Take(bytes) /\ wire' = SubSeq(wire, m + 1, Len(wire))
    BY <2>1
  <2>6. bytes[1] = wire[1]
    BY <2>3, <2>4
  <2>7. bytes \in Seq(Byte) /\ bytes # <<>>
    <3>1. \A i \in 1 .. room : (IF i <= available THEN wire[i] ELSE Junk) \in Byte
      BY <1>1, <2>3
    <3> HIDE DEF room
    <3>2. bytes \in Seq(Byte) /\ Len(bytes) = room
      BY <2>4, <3>1
    <3> QED
      BY <2>4, <3>2
  <2> HIDE DEF bytes, m
  <2>8. FromStream(bytes)
    BY <2>2, <2>4, <2>5, <2>6 DEF FromStream
  <2> QED
    BY <2>2, <2>5, <2>7, <2>8 DEF ReadsFrom
<1> QED
  BY <1>2, <1>3, <1>4, <1>5 DEF ReadStep

\* What is left of the wire when its first "m" packets or bytes have been read.
LEMMA WireCut ==
  ASSUME ReadTypes, link' = link, NEW m \in 0 .. Len(wire), wire' = SubSeq(wire, m + 1, Len(wire))
  PROVE  /\ wire' \in IF link \in Usb THEN Seq(Seq(Sent)) ELSE Seq(Sent)
         /\ Len(wire') = Len(wire) - m /\ Len(wire) \in Nat
         /\ \A k \in 1 .. Len(wire') : /\ m + k \in 1 .. Len(wire) /\ wire'[k] = wire[m + k]
                                       /\ Coming(k)' = Coming(m + k)
         /\ \A b : Follows(wire, b, m + 1) => Follows(wire', b, 1)
         /\ PacketInv => PacketInv'
         /\ StreamInv => StreamInv'
<1> DEFINE S == IF link \in Usb THEN Seq(Sent) ELSE Sent
<1>1. wire \in Seq(S) /\ Len(wire) \in Nat /\ m \in Nat
  BY DEF ReadTypes
<1> HIDE DEF S
<1>2. /\ wire' \in Seq(S) /\ Len(wire') = Len(wire) - m
      /\ \A k \in 1 .. Len(wire') : m + k \in 1 .. Len(wire) /\ wire'[k] = wire[m + k]
  BY <1>1, RestOf
<1>3. ASSUME NEW k \in 1 .. Len(wire')
      PROVE  Coming(k)' = Coming(m + k)
  BY <1>2, <1>3 DEF Coming, First
<1>4. ASSUME NEW b, NEW k \in Nat, k > 0, Follows(wire, b, m + k)
      PROVE  Follows(wire', b, k)
  <2> SUFFICES ASSUME b.place + PacketSize <= b.length
               PROVE  /\ k \in 1 .. Len(wire') /\ wire'[k] # <<>>
                      /\ wire'[k][1] = At(b, b.place + PacketSize)
    BY DEF Follows
  <2>1. /\ m + k \in 1 .. Len(wire) /\ wire[m + k] # <<>>
        /\ wire[m + k][1] = At(b, b.place + PacketSize)
    BY <1>4 DEF Follows
  <2>2. k \in 1 .. Len(wire')
    BY <1>1, <1>2, <1>4, <2>1
  <2> QED
    BY <1>2, <2>1, <2>2
<1>5. ASSUME PacketInv, link \in Usb, NEW k \in 1 .. Len(wire'), wire'[k] # <<>>
      PROVE  /\ wire'[k] = [i \in 1 .. Chunk(wire'[k][1]) |-> At(wire'[k][1], wire'[k][1].place + i - 1)]
             /\ Follows(wire', wire'[k][1], k + 1)
  <2>1. m + k \in 1 .. Len(wire) /\ wire'[k] = wire[m + k] /\ wire[m + k] # <<>>
    BY <1>2, <1>5
  <2>2. /\ wire[m + k] = [i \in 1 .. Chunk(wire[m + k][1]) |->
                             At(wire[m + k][1], wire[m + k][1].place + i - 1)]
        /\ Follows(wire, wire[m + k][1], m + k + 1)
    BY <1>5, <2>1 DEF PacketInv
  <2>3. m + k + 1 = m + (k + 1) /\ k + 1 \in Nat /\ k + 1 > 0
    BY <1>1
  <2>4. Follows(wire', wire[m + k][1], k + 1)
    BY <1>4, <2>2, <2>3
  <2> QED
    BY <2>1, <2>2, <2>4
<1>6. ASSUME StreamInv, link \notin Usb, NEW k \in 1 .. Len(wire')
      PROVE  /\ k + (wire'[k].length - wire'[k].place) <= Len(wire')
             /\ \A j \in 0 .. wire'[k].length - wire'[k].place :
                   wire'[k + j] = At(wire'[k], wire'[k].place + j)
  <2> DEFINE b == wire[m + k]
  <2>1. m + k \in 1 .. Len(wire) /\ wire'[k] = b
    BY <1>2
  <2>2. b \in Sent
    BY <1>1, <1>6, <2>1 DEF S
  <2>3. /\ (m + k) + (b.length - b.place) <= Len(wire)
        /\ \A j \in 0 .. b.length - b.place : wire[(m + k) + j] = At(b, b.place + j)
    BY <1>6, <2>1 DEF StreamInv
  <2> HIDE DEF b
  <2>4. b.length \in Nat /\ b.place \in Nat
    BY <2>2, SentFacts
  <2>5. k + (b.length - b.place) <= Len(wire')
    BY <1>1, <1>2, <2>3, <2>4
  <2>6. \A j \in 0 .. b.length - b.place : wire'[k + j] = At(b, b.place + j)
    <3> TAKE j \in 0 .. b.length - b.place
    <3>1. k + j \in 1 .. Len(wire') /\ m + (k + j) = (m + k) + j
      BY <1>1, <1>2, <2>4, <2>5
    <3>2. wire'[k + j] = wire[(m + k) + j]
      BY <1>2, <3>1
    <3> QED
      BY <2>3, <3>2
  <2> QED
    BY <2>1, <2>5, <2>6
<1>7. PacketInv => PacketInv'
  BY <1>5 DEF PacketInv, Chunk
<1>8. StreamInv => StreamInv'
  BY <1>6 DEF StreamInv
<1>9. \A b : Follows(wire, b, m + 1) => Follows(wire', b, 1)
  BY <1>4
<1> QED
  BY <1>1, <1>2, <1>3, <1>7, <1>8, <1>9 DEF S

\* A request is put behind what is on the wire.
LEMMA AskFacts ==
  ASSUME ReceiveTypeOK, ReadTypes, HostAsks
  PROVE  /\ asked' = asked + 1 /\ asked' \in 1 .. MaxRequests
         /\ UNCHANGED <<link, receiveBuffer, armed, receiveQueue, executed, clean>>
         /\ wire' \in IF link \in Usb THEN Seq(Seq(Sent)) ELSE Seq(Sent)
         /\ \A k \in 1 .. Len(wire) : /\ k \in 1 .. Len(wire') /\ wire'[k] = wire[k]
                                      /\ Coming(k)' = Coming(k)
         /\ \A k \in 1 .. Len(wire') :
               \/ k \in 1 .. Len(wire)
               \/ k = Len(wire) + 1 /\ Coming(k)' = asked'
               \/ k > Len(wire) + 1 /\ Coming(k)' = 0
         /\ \A b, k : Follows(wire, b, k) => Follows(wire', b, k)
         /\ PacketInv => PacketInv'
         /\ StreamInv => StreamInv'
<1> DEFINE S == IF link \in Usb THEN Seq(Sent) ELSE Sent
<1>1. wire \in Seq(S) /\ Len(wire) \in Nat
  BY DEF ReadTypes
<1>2. /\ asked' = asked + 1 /\ asked' \in 1 .. MaxRequests
      /\ UNCHANGED <<link, receiveBuffer, armed, receiveQueue, executed, clean>>
  BY ReceiveFacts DEF HostAsks, ReceiveTypeOK
<1>3. PICK length \in Lengths, ends \in BOOLEAN :
          wire' = wire \o IF link \in Usb THEN Packets(Text(asked + 1, length), ends)
                                          ELSE Text(asked + 1, length)
  BY <1>2 DEF HostAsks
<1> DEFINE new == IF link \in Usb THEN Packets(Text(asked + 1, length), ends)
                                  ELSE Text(asked + 1, length)
<1>4. asked + 1 \in 1 .. MaxRequests
  BY <1>2
<1>5. ASSUME link \in Usb
      PROVE  /\ new \in Seq(S) /\ Len(new) > 0
             /\ \A k \in 1 .. Len(new) : First(new[k]) = IF k = 1 THEN asked + 1 ELSE 0
             /\ \A k \in 1 .. Len(new) : new[k] # <<>> =>
                   LET b == new[k][1]
                   IN  /\ new[k] = [i \in 1 .. Chunk(b) |-> At(b, b.place + i - 1)]
                       /\ Follows(new, b, k + 1)
  <2>1. /\ new \in Seq(Seq(Sent)) /\ Len(new) > 0
        /\ \A k \in 1 .. Len(new) : new[k] # <<>> =>
              LET b == new[k][1]
              IN  /\ b \in Sent /\ b.request = asked + 1 /\ (b.place = 1 <=> k = 1)
                  /\ new[k] = [i \in 1 .. Chunk(b) |-> At(b, b.place + i - 1)]
                  /\ b.place + PacketSize <= b.length =>
                        /\ k + 1 \in 1 .. Len(new) /\ new[k + 1] # <<>>
                        /\ new[k + 1][1] = At(b, b.place + PacketSize)
    BY <1>4, <1>5, PacketsFacts
  <2>2. new[1] # <<>>
    BY <1>4, <1>5, PacketsFacts
  <2> HIDE DEF new
  <2>3. S = Seq(Sent)
    BY <1>5
  <2>4. \A k \in 1 .. Len(new) : First(new[k]) = IF k = 1 THEN asked + 1 ELSE 0
    BY <1>5, <2>1, <2>2 DEF First, Opens
  <2> QED
    BY <2>1, <2>3, <2>4 DEF Follows
<1>6. ASSUME link \notin Usb
      PROVE  /\ new \in Seq(S) /\ Len(new) > 0
             /\ \A k \in 1 .. Len(new) : First(new[k]) = IF k = 1 THEN asked + 1 ELSE 0
             /\ \A k \in 1 .. Len(new) :
                   /\ new[k] \in Sent /\ k + (new[k].length - new[k].place) = Len(new)
                   /\ \A j \in 0 .. new[k].length - new[k].place :
                         new[k + j] = At(new[k], new[k].place + j)
  <2>1. /\ length \in Nat /\ length > 0
        /\ new \in Seq(Sent) /\ Len(new) = length
        /\ \A i \in 1 .. length : /\ new[i] \in Sent /\ new[i].request = asked + 1
                                  /\ new[i].place = i /\ new[i].length = length
                                  /\ \A j \in 1 .. length : new[j] = At(new[i], j)
    BY <1>4, <1>6, TextFacts
  <2> HIDE DEF new
  <2>2. S = Sent
    BY <1>6
  <2>3. \A k \in 1 .. Len(new) : First(new[k]) = IF k = 1 THEN asked + 1 ELSE 0
    BY <1>6, <2>1 DEF First, Opens
  <2>4. \A k \in 1 .. Len(new) :
           /\ new[k] \in Sent /\ k + (new[k].length - new[k].place) = Len(new)
           /\ \A j \in 0 .. new[k].length - new[k].place :
                 new[k + j] = At(new[k], new[k].place + j)
    BY <2>1
  <2> QED
    BY <2>1, <2>2, <2>3, <2>4
<1> HIDE DEF S, new
<1>7. /\ new \in Seq(S) /\ Len(new) > 0 /\ Len(new) \in Nat
      /\ \A k \in 1 .. Len(new) : First(new[k]) = IF k = 1 THEN asked + 1 ELSE 0
  BY <1>5, <1>6
<1>8. /\ wire' \in Seq(S) /\ Len(wire') = Len(wire) + Len(new)
      /\ \A k \in 1 .. Len(wire) : wire'[k] = wire[k]
      /\ \A k \in Len(wire) + 1 .. Len(wire') : /\ k - Len(wire) \in 1 .. Len(new)
                                                /\ wire'[k] = new[k - Len(wire)]
  <2>1. wire' = wire \o new
    BY <1>3 DEF new
  <2> QED
    BY <1>1, <1>7, <2>1, ConcatElements
<1>9. \A k \in 1 .. Len(wire) : k \in 1 .. Len(wire')
  BY <1>1, <1>7, <1>8
<1>10. \A k \in 1 .. Len(wire') : k \in 1 .. Len(wire) \/ k \in Len(wire) + 1 .. Len(wire')
  BY <1>1, <1>7, <1>8
<1>11. ASSUME NEW k \in 1 .. Len(wire)
       PROVE  k \in 1 .. Len(wire') /\ wire'[k] = wire[k] /\ Coming(k)' = Coming(k)
  BY <1>2, <1>8, <1>9 DEF Coming, First
<1>12. ASSUME NEW k \in 1 .. Len(wire')
       PROVE  \/ k \in 1 .. Len(wire)
              \/ k = Len(wire) + 1 /\ Coming(k)' = asked'
              \/ k > Len(wire) + 1 /\ Coming(k)' = 0
  <2>1. CASE k \in Len(wire) + 1 .. Len(wire')
    <3>1. /\ k - Len(wire) \in 1 .. Len(new)
          /\ Coming(k)' = First(new[k - Len(wire)])
      BY <1>2, <1>8, <2>1 DEF Coming, First
    <3>2. Coming(k)' = IF k - Len(wire) = 1 THEN asked + 1 ELSE 0
      BY <1>7, <3>1
    <3> QED
      BY <1>1, <1>2, <2>1, <3>2
  <2> QED
    BY <1>10, <2>1
<1>13. ASSUME NEW b, NEW k, Follows(wire, b, k)
       PROVE  Follows(wire', b, k)
  BY <1>8, <1>9, <1>13 DEF Follows
<1>14. PacketInv => PacketInv'
  <2> SUFFICES ASSUME PacketInv, link \in Usb, NEW k \in 1 .. Len(wire'), wire'[k] # <<>>
               PROVE  /\ wire'[k] = [i \in 1 .. Chunk(wire'[k][1]) |->
                                        At(wire'[k][1], wire'[k][1].place + i - 1)]
                      /\ Follows(wire', wire'[k][1], k + 1)
    BY <1>2 DEF PacketInv
  <2>1. CASE k \in 1 .. Len(wire)
    BY <1>11, <1>13, <2>1 DEF PacketInv
  <2>2. CASE k \in Len(wire) + 1 .. Len(wire')
    <3> DEFINE n == k - Len(wire)
               b == new[n][1]
    <3>1. n \in 1 .. Len(new) /\ wire'[k] = new[n] /\ k = Len(wire) + n /\ n \in Nat
      BY <1>1, <1>8, <2>2
    <3>2. new[n] = [i \in 1 .. Chunk(b) |-> At(b, b.place + i - 1)] /\ Follows(new, b, n + 1)
      BY <1>5, <3>1
    <3> HIDE DEF n
    <3>3. Follows(wire', b, k + 1)
      <4> SUFFICES ASSUME b.place + PacketSize <= b.length
                   PROVE  /\ k + 1 \in 1 .. Len(wire') /\ wire'[k + 1] # <<>>
                          /\ wire'[k + 1][1] = At(b, b.place + PacketSize)
        BY DEF Follows
      <4>1. /\ n + 1 \in 1 .. Len(new) /\ new[n + 1] # <<>>
            /\ new[n + 1][1] = At(b, b.place + PacketSize)
        BY <3>2 DEF Follows
      <4>2. /\ k + 1 \in Len(wire) + 1 .. Len(wire') /\ k + 1 \in 1 .. Len(wire')
            /\ (k + 1) - Len(wire) = n + 1
        BY <1>1, <1>7, <1>8, <3>1, <4>1
      <4> QED
        BY <1>8, <4>1, <4>2
    <3> QED
      BY <3>1, <3>2, <3>3
  <2> QED
    BY <1>10, <2>1, <2>2
<1>15. StreamInv => StreamInv'
  <2> SUFFICES ASSUME StreamInv, link \notin Usb, NEW k \in 1 .. Len(wire')
               PROVE  /\ k + (wire'[k].length - wire'[k].place) <= Len(wire')
                      /\ \A j \in 0 .. wire'[k].length - wire'[k].place :
                            wire'[k + j] = At(wire'[k], wire'[k].place + j)
    BY <1>2 DEF StreamInv
  <2>1. CASE k \in 1 .. Len(wire)
    <3> DEFINE b == wire[k]
    <3>1. wire'[k] = b /\ b \in Sent
      BY <1>1, <1>11, <2>1 DEF S
    <3>2. /\ k + (b.length - b.place) <= Len(wire)
          /\ \A j \in 0 .. b.length - b.place : wire[k + j] = At(b, b.place + j)
      BY <2>1 DEF StreamInv
    <3> HIDE DEF b
    <3>3. b.length \in Nat /\ b.place \in Nat
      BY <3>1, SentFacts
    <3>4. \A j \in 0 .. b.length - b.place : k + j \in 1 .. Len(wire)
      BY <1>1, <3>2, <3>3
    <3>5. k + (b.length - b.place) <= Len(wire')
      BY <1>1, <1>7, <1>8, <3>2, <3>3
    <3> QED
      BY <1>8, <3>1, <3>2, <3>4, <3>5
  <2>2. CASE k \in Len(wire) + 1 .. Len(wire')
    <3> DEFINE n == k - Len(wire)
               b == new[n]
    <3>1. n \in 1 .. Len(new) /\ wire'[k] = b /\ k = Len(wire) + n /\ n \in Nat
      BY <1>1, <1>8, <2>2
    <3>2. /\ b \in Sent /\ n + (b.length - b.place) = Len(new)
          /\ \A j \in 0 .. b.length - b.place : new[n + j] = At(b, b.place + j)
      BY <1>6, <3>1
    <3> HIDE DEF n, b
    <3>3. b.length \in Nat /\ b.place \in Nat
      BY <3>2, SentFacts
    <3>4. k + (b.length - b.place) <= Len(wire')
      BY <1>1, <1>7, <1>8, <3>1, <3>2, <3>3
    <3>5. \A j \in 0 .. b.length - b.place : wire'[k + j] = At(b, b.place + j)
      <4> TAKE j \in 0 .. b.length - b.place
      <4>1. k + j \in Len(wire) + 1 .. Len(wire') /\ (k + j) - Len(wire) = n + j
        BY <1>1, <1>7, <1>8, <3>1, <3>2, <3>3
      <4> QED
        BY <1>8, <3>2, <4>1
    <3> QED
      BY <3>1, <3>4, <3>5
  <2> QED
    BY <1>10, <2>1, <2>2
<1>16. wire' \in IF link \in Usb THEN Seq(Seq(Sent)) ELSE Seq(Sent)
  BY <1>8 DEF S
<1> QED
  BY <1>2, <1>11, <1>12, <1>13, <1>14, <1>15, <1>16

\* A packet arrives in the buffer, whose first byte was NUL.
LEMMA ArriveFacts ==
  ASSUME ReadTypes, BufferInv, PacketInv, PacketArrives
  PROVE  /\ link = "pic32 usb" /\ wire # <<>> /\ ~Loaded /\ ~armed'
         /\ UNCHANGED <<link, receiveQueue, asked, executed, clean>>
         /\ wire' = SubSeq(wire, 2, Len(wire)) /\ Len(wire) > 0
         /\ receiveBuffer' \in [1 .. PacketSize -> Byte]
         /\ wire[1] = <<>> => receiveBuffer'[1] = Nul
         /\ wire[1] # <<>> =>
               /\ wire[1][1] \in Sent /\ receiveBuffer'[1] = wire[1][1]
               /\ \A i \in 1 .. Chunk(wire[1][1]) :
                     receiveBuffer'[i] = At(wire[1][1], wire[1][1].place + i - 1)
<1> DEFINE S == Seq(Sent)
<1>1. /\ link = "pic32 usb" /\ wire # <<>> /\ armed /\ ~armed' /\ receiveBuffer[1] = Nul
      /\ UNCHANGED <<link, receiveQueue, asked, executed, clean>>
  BY DEF PacketArrives, BufferInv
<1>2. link \in Usb /\ ~Loaded
  BY <1>1 DEF Usb, Loaded
<1>3. wire \in Seq(S) /\ receiveBuffer \in [1 .. PacketSize -> Byte]
  BY <1>2 DEF ReadTypes
<1> HIDE DEF S
<1>4. /\ Len(wire) \in Nat /\ Len(wire) > 0 /\ Head(wire) = wire[1] /\ wire[1] \in S
      /\ Tail(wire) = SubSeq(wire, 2, Len(wire))
  BY <1>1, <1>3, FirstElement, TailIsRest
<1> DEFINE unit == wire[1]
<1>5. /\ receiveBuffer' = [i \in 1 .. PacketSize |-> IF i <= Len(unit) THEN unit[i]
                                                                      ELSE receiveBuffer[i]]
      /\ wire' = SubSeq(wire, 2, Len(wire))
  BY <1>4 DEF PacketArrives
<1>6. unit \in Seq(Sent) /\ Len(unit) \in Nat /\ PacketSize \in Nat /\ PacketSize > 0
  BY <1>4, ReceiveFacts DEF S
<1>7. receiveBuffer' \in [1 .. PacketSize -> Byte]
  <2> HIDE DEF unit
  <2>1. \A i \in 1 .. PacketSize : (IF i <= Len(unit) THEN unit[i] ELSE receiveBuffer[i]) \in Byte
    BY <1>3, <1>6 DEF Byte
  <2> QED
    BY <1>5, <2>1
<1>8. ASSUME unit = <<>>
      PROVE  receiveBuffer'[1] = Nul
  <2>1. Len(unit) = 0
    BY <1>8
  <2> HIDE DEF unit
  <2>2. 1 \in 1 .. PacketSize /\ ~(1 <= Len(unit))
    BY <1>6, <2>1
  <2> QED
    BY <1>1, <1>5, <2>2
<1>9. ASSUME unit # <<>>
      PROVE  /\ unit[1] \in Sent /\ receiveBuffer'[1] = unit[1]
             /\ \A i \in 1 .. Chunk(unit[1]) :
                   receiveBuffer'[i] = At(unit[1], unit[1].place + i - 1)
  <2>1. 1 \in 1 .. Len(wire)
    BY <1>4
  <2>2. unit = [i \in 1 .. Chunk(unit[1]) |-> At(unit[1], unit[1].place + i - 1)]
    BY <1>2, <1>9, <2>1 DEF PacketInv
  <2> DEFINE n == Chunk(unit[1])
  <2>3. Len(unit) > 0 /\ unit[1] \in Sent
    <3>1. Len(unit) # 0
      BY <1>6, <1>9
    <3> QED
      BY <1>6, <3>1
  <2>4. n \in 1 .. PacketSize
    <3> DEFINE b == unit[1]
    <3>1. b.place \in Nat /\ b.length \in Nat /\ b.place <= b.length
      BY <2>3, SentFacts
    <3>2. PacketSize \in Nat /\ PacketSize > 0
      BY <1>6
    <3> HIDE DEF b
    <3>3. Chunk(b) \in 1 .. PacketSize
      BY <3>1, <3>2 DEF Chunk, Shorter
    <3> QED
      BY <3>3 DEF b
  <2> HIDE DEF unit
  <2>5. Len(unit) = n /\ \A i \in 1 .. n : unit[i] = At(unit[1], unit[1].place + i - 1)
    <3> HIDE DEF n
    <3> QED
      BY <2>2, <2>4 DEF n
  <2> HIDE DEF n
  <2>6. \A i \in 1 .. n : receiveBuffer'[i] = unit[i]
    BY <1>5, <1>6, <2>4, <2>5
  <2>7. 1 \in 1 .. n
    BY <1>6, <2>4
  <2> QED
    BY <2>3, <2>5, <2>6, <2>7 DEF n
<1> QED
  BY <1>1, <1>2, <1>4, <1>5, <1>7, <1>8, <1>9

\* What becomes of the queue: a request that has begun at its front is executed, stays or
\* is dropped.
LEMMA TakeFacts ==
  ASSUME ReceiveTypeOK, ReadTypes, NEW bytes \in Seq(Byte), bytes # <<>>, Take(bytes)
  PROVE  LET front == IF receiveQueue = <<>> THEN Opens(bytes[1]) ELSE Queued
         IN  /\ receiveQueue' \in Seq(Byte) /\ Len(receiveQueue') < QueueCapacity
             /\ \A i \in 1 .. Len(receiveQueue') : receiveQueue'[i] # Nul
             /\ \/ executed' = executed /\ Queued' \in {0, front}
                \/ /\ front # 0 /\ executed' = Append(executed, front)
                   /\ Queued' = 0
             /\ \/ clean' = clean
                \/ Opens(bytes[1]) # 0 /\ clean' = clean \cup {Opens(bytes[1])}
<1> DEFINE q     == Pushed(receiveQueue, bytes)
           front == IF receiveQueue = <<>> THEN Opens(bytes[1]) ELSE Queued
<1>1. /\ QueueCapacity \in Nat /\ QueueCapacity > 0
      /\ receiveQueue \in Seq(Byte) /\ Len(receiveQueue) < QueueCapacity
      /\ Len(receiveQueue) \in Nat /\ Len(bytes) \in Nat /\ Len(bytes) > 0
  BY ReceiveFacts, FirstElement DEF ReceiveTypeOK, ReadTypes
<1>2. /\ q \in Seq(Byte) /\ Len(q) <= QueueCapacity
      /\ Len(q) = Shorter(QueueCapacity, Len(receiveQueue) + Len(bytes))
      /\ \A i \in 1 .. Len(receiveQueue) : i \in 1 .. Len(q) /\ q[i] = receiveQueue[i]
      /\ \A i \in Len(receiveQueue) + 1 .. Len(q) :
            i - Len(receiveQueue) \in 1 .. Len(bytes) /\ q[i] = bytes[i - Len(receiveQueue)]
  BY <1>1, PushedFacts
<1>3. processQueue(q)
  BY DEF Take
<1> HIDE DEF q
<1>4. Len(q) \in Nat /\ Len(q) > 0 /\ Len(receiveQueue) < Len(q)
  BY <1>1, <1>2 DEF Shorter
<1>5. q # <<>>
  BY <1>4
<1>6. q[1] = IF receiveQueue = <<>> THEN bytes[1] ELSE receiveQueue[1]
  <2>1. CASE receiveQueue = <<>>
    <3>1. Len(receiveQueue) = 0
      BY <2>1
    <3>2. 1 \in Len(receiveQueue) + 1 .. Len(q) /\ 1 - Len(receiveQueue) = 1
      BY <1>4, <3>1
    <3> QED
      BY <1>2, <2>1, <3>2
  <2>2. CASE receiveQueue # <<>>
    <3>1. 1 \in 1 .. Len(receiveQueue)
      BY <1>1, <2>2, FirstElement
    <3> QED
      BY <1>2, <2>2, <3>1
  <2> QED
    BY <2>1, <2>2
<1>7. Opens(q[1]) = front
  BY <1>6 DEF Queued
<1> HIDE DEF front
<1>8. /\ \/ receiveQueue' = <<>>
         \/ receiveQueue' = q /\ Len(q) < QueueCapacity /\ \A i \in 1 .. Len(q) : q[i] # Nul
      /\ \/ executed' = executed
         \/ /\ front # 0 /\ executed' = Append(executed, front)
            /\ receiveQueue' = <<>>
  BY <1>2, <1>3, <1>5, <1>7, ProcessFacts
<1>9. /\ receiveQueue' \in Seq(Byte) /\ Len(receiveQueue') < QueueCapacity
      /\ \A i \in 1 .. Len(receiveQueue') : receiveQueue'[i] # Nul
  <2>1. CASE receiveQueue' = <<>>
    BY <1>1, <2>1
  <2>2. CASE receiveQueue' = q /\ Len(q) < QueueCapacity /\ \A i \in 1 .. Len(q) : q[i] # Nul
    BY <1>2, <2>2
  <2> QED
    BY <1>8, <2>1, <2>2
<1>10. Queued' \in {0, front} /\ (receiveQueue' = <<>> => Queued' = 0)
  BY <1>5, <1>7, <1>8 DEF Queued
<1>11. \/ clean' = clean
       \/ Opens(bytes[1]) # 0 /\ clean' = clean \cup {Opens(bytes[1])}
  <2>1. CASE receiveQueue = <<>> /\ bytes # <<>> /\ Begins(bytes[1])
    <3>1. Request(bytes[1]) # 0 /\ bytes[1].place = 1 /\ bytes[1] \in Byte
      BY <1>1, <2>1, FirstElement DEF Begins
    <3>2. bytes[1] \in Sent
      BY <3>1 DEF Byte, Request
    <3>3. Opens(bytes[1]) = bytes[1].request /\ bytes[1].request # 0
      BY <3>1, <3>2, SentFacts DEF Opens
    <3> QED
      BY <2>1, <3>3 DEF Take
  <2>2. CASE ~(receiveQueue = <<>> /\ bytes # <<>> /\ Begins(bytes[1]))
    BY <2>2 DEF Take
  <2> QED
    BY <2>1, <2>2
<1> QED
  BY <1>8, <1>9, <1>10, <1>11 DEF front

-----------------------------------------------------------------------------
(* The steps keep the invariant, part by part.                              *)

\* What was executed last: nothing, or the last of the log.
LEMMA LatestRequest ==
  ASSUME ReadTypes
  PROVE  /\ Requests!Latest \in Nat
         /\ executed' = executed => Requests!Latest' = Requests!Latest
         /\ \A n \in Nat : executed' = Append(executed, n) => Requests!Latest' = n
<1>1. executed \in Seq(Nat)
  BY DEF ReadTypes
<1>2. executed # <<>> => executed[Len(executed)] \in Nat
  BY <1>1
<1>3. ASSUME NEW n \in Nat, executed' = Append(executed, n)
      PROVE  Requests!Latest' = n
  <2>1. executed' \in Seq(Nat) /\ Len(executed') = Len(executed) + 1 /\ Len(executed) \in Nat
    BY <1>1, <1>3
  <2>2. executed'[Len(executed')] = n
    BY <1>1, <1>3, <2>1
  <2>3. executed' # <<>>
    <3>1. Len(executed') # 0
      BY <2>1
    <3> QED
      BY <3>1
  <2> QED
    BY <2>2, <2>3 DEF Requests!Latest
<1> QED
  BY <1>2, <1>3 DEF Requests!Latest

\* The numbers of the requests that begin somewhere.
LEMMA OpensFacts ==
  ASSUME ReadTypes
  PROVE  /\ \A b : Opens(b) \in Nat
         /\ Opens(Nul) = 0 /\ Opens(Junk) = 0
         /\ Queued \in Nat /\ Buffered \in Nat /\ \A k : Coming(k) \in Nat
<1>1. \A b : Opens(b) \in Nat
  BY SentFacts DEF Opens
<1>2. Opens(Nul) = 0 /\ Opens(Junk) = 0
  BY SentFacts DEF Opens
<1> QED
  BY <1>1, <1>2 DEF Queued, Buffered, Coming, First

\* With which bytes a reader begins, and what it leaves.
LEMMA FromFacts ==
  ASSUME ReceiveTypeOK, ReadTypes, BufferInv, link' = link,
         NEW bytes \in Seq(Byte), bytes # <<>>, ReadsFrom(bytes)
  PROVE  /\ \/ /\ Opens(bytes[1]) = Buffered /\ Buffered' = 0 /\ wire' = wire
            \/ /\ Buffered = 0 /\ Buffered' = 0 /\ Len(wire) > 0
               /\ Opens(bytes[1]) = Coming(1)
               /\ \E m \in 1 .. Len(wire) : wire' = SubSeq(wire, m + 1, Len(wire))
         /\ receiveBuffer' \in [1 .. PacketSize -> Byte]
<1>1. PacketSize \in Nat /\ PacketSize > 0 /\ 1 \in 1 .. PacketSize /\ Nul \in Byte
  BY ReceiveFacts DEF Byte
<1>2. CASE FromBuffer(bytes)
  <2>1. bytes = receiveBuffer /\ wire' = wire /\ receiveBuffer' = [receiveBuffer EXCEPT ![1] = Nul]
    BY <1>2 DEF FromBuffer, armForRead
  <2>2. receiveBuffer' \in [1 .. PacketSize -> Byte] /\ receiveBuffer'[1] = Nul
    BY <1>1, <2>1 DEF ReadTypes
  <2> QED
    BY <2>1, <2>2, OpensFacts DEF Buffered
<1>3. ASSUME link # "pic32 usb", receiveBuffer' = receiveBuffer
      PROVE  Buffered = 0 /\ Buffered' = 0 /\ receiveBuffer' \in [1 .. PacketSize -> Byte]
  BY <1>3, OpensFacts DEF BufferInv, Buffered, ReadTypes
<1>4. CASE FromPacket(bytes)
  <2>1. /\ link = "lpc17xx usb" /\ wire # <<>> /\ Len(bytes) = PacketSize
        /\ \A i \in 1 .. PacketSize : i <= Len(wire[1]) => bytes[i] = wire[1][i]
        /\ wire[1] = <<>> => bytes[1] \in {Nul, Junk}
        /\ wire' = SubSeq(wire, 2, Len(wire)) /\ receiveBuffer' = receiveBuffer
    BY <1>4 DEF FromPacket
  <2> DEFINE S == Seq(Sent)
  <2>2. link \in Usb /\ wire \in Seq(S)
    BY <2>1 DEF Usb, ReadTypes
  <2> HIDE DEF S
  <2>3. Len(wire) \in Nat /\ Len(wire) > 0 /\ wire[1] \in S
    BY <2>1, <2>2, FirstElement
  <2>4. Opens(bytes[1]) = Coming(1)
    <3>1. CASE wire[1] = <<>>
      BY <2>1, <2>2, <3>1, OpensFacts DEF Coming, First
    <3>2. CASE wire[1] # <<>>
      <4>1. Len(wire[1]) \in Nat /\ Len(wire[1]) > 0
        BY <2>3, <3>2, FirstElement DEF S
      <4>2. 1 \in 1 .. PacketSize /\ 1 <= Len(wire[1])
        BY <1>1, <4>1
      <4>3. \A i \in 1 .. PacketSize : i <= Len(wire[1]) => bytes[i] = wire[1][i]
        BY <1>4 DEF FromPacket
      <4>4. bytes[1] = wire[1][1]
        BY <4>2, <4>3, Zenon
      <4> QED
        BY <2>2, <3>2, <4>4 DEF Coming, First
    <3> QED
      BY <3>1, <3>2
  <2>5. 1 \in 1 .. Len(wire) /\ wire' = SubSeq(wire, 1 + 1, Len(wire))
    <3>1. 1 \in 1 .. Len(wire) /\ 1 + 1 = 2
      BY <2>3
    <3>2. wire' = SubSeq(wire, 2, Len(wire))
      BY <1>4 DEF FromPacket
    <3> QED
      BY <3>1, <3>2
  <2> QED
    BY <1>3, <2>1, <2>3, <2>4, <2>5
<1>5. CASE FromStream(bytes)
  <2>1. /\ link \in {"pic32 uart", "ethernet"} /\ wire # <<>> /\ bytes[1] = wire[1]
        /\ \E m \in 1 .. Len(wire) : wire' = SubSeq(wire, m + 1, Len(wire))
        /\ receiveBuffer' = receiveBuffer
    BY <1>5 DEF FromStream
  <2>2. link \notin Usb /\ wire \in Seq(Sent)
    BY <2>1 DEF Usb, ReadTypes
  <2>3. Len(wire) > 0 /\ Opens(bytes[1]) = Coming(1)
    BY <2>1, <2>2, FirstElement DEF Coming, First
  <2> QED
    BY <1>3, <2>1, <2>3
<1> QED
  BY <1>2, <1>4, <1>5 DEF ReadsFrom

\* The types are kept: what finds no room is dropped, and a queue that is full or holds a
\* NUL is emptied.
LEMMA ReceiveTypeStep == ASSUME ReceiveInv, [Next]_vars PROVE ReceiveTypeOK' /\ ReadTypes'
<1>1. /\ ReceiveTypeOK /\ ReadTypes /\ YoungerInv /\ PacketInv /\ BufferInv
  BY DEF ReceiveInv
<1>2. CASE UNCHANGED receiveVars
  BY <1>1, <1>2 DEF receiveVars, ReceiveTypeOK, ReadTypes
<1>3. CASE HostAsks
  <2>1. /\ asked' = asked + 1 /\ asked' \in 1 .. MaxRequests
        /\ UNCHANGED <<link, receiveBuffer, armed, receiveQueue, executed, clean>>
        /\ wire' \in IF link \in Usb THEN Seq(Seq(Sent)) ELSE Seq(Sent)
    BY <1>1, <1>3, AskFacts
  <2>2. ReadTypes'
    BY <1>1, <2>1 DEF ReadTypes
  <2>3. clean' \subseteq 1 .. asked' /\ asked' \in 0 .. MaxRequests
    BY <1>1, <2>1, ReceiveFacts DEF ReceiveTypeOK
  <2> QED
    BY <1>1, <2>1, <2>2, <2>3 DEF ReceiveTypeOK
<1>4. CASE PacketArrives
  <2>1. /\ UNCHANGED <<link, receiveQueue, asked, executed, clean>>
        /\ wire' = SubSeq(wire, 1 + 1, Len(wire)) /\ Len(wire) > 0
        /\ receiveBuffer' \in [1 .. PacketSize -> Byte] /\ ~armed'
    <3>1. 1 + 1 = 2
      OBVIOUS
    <3>2. ~armed'
      BY <1>1, <1>4, ArriveFacts
    <3> QED
      BY <1>1, <1>4, <3>1, <3>2, ArriveFacts
  <2>2. Len(wire) \in Nat
    BY <1>1 DEF ReadTypes
  <2>3. wire' \in IF link \in Usb THEN Seq(Seq(Sent)) ELSE Seq(Sent)
    BY <1>1, <2>1, <2>2, 1 \in 0 .. Len(wire), WireCut
  <2>4. ReadTypes'
    BY <1>1, <2>1, <2>3 DEF ReadTypes
  <2>5. armed' \in BOOLEAN
    BY <1>4 DEF PacketArrives
  <2> QED
    BY <1>1, <2>1, <2>4, <2>5 DEF ReceiveTypeOK
<1>5. CASE ReadStep
  <2>1. link' = link /\ asked' = asked
    BY <1>1, <1>5, ReadFacts
  <2>2. armed' \in BOOLEAN
    BY <1>1, <1>5 DEF ReadStep, readFromEndpoint, readFromHost, readFromSerial, readFromSocket,
                      armForRead, ReceiveTypeOK
  <2>3. CASE NothingLoaded
    <3>1. /\ receiveBuffer' = [receiveBuffer EXCEPT ![1] = Nul]
          /\ UNCHANGED <<wire, receiveQueue, executed, clean>>
      BY <2>3 DEF NothingLoaded, armForRead
    <3>2. receiveBuffer' \in [1 .. PacketSize -> Byte]
      BY <1>1, <3>1 DEF ReadTypes, Byte
    <3> QED
      BY <1>1, <2>1, <2>2, <3>1, <3>2 DEF ReadTypes, ReceiveTypeOK
  <2>4. ASSUME NEW bytes \in Seq(Byte), bytes # <<>>, Take(bytes), ReadsFrom(bytes)
        PROVE  ReceiveTypeOK' /\ ReadTypes'
    <3>1. /\ receiveQueue' \in Seq(Byte) /\ Len(receiveQueue') < QueueCapacity
          /\ \A i \in 1 .. Len(receiveQueue') : receiveQueue'[i] # Nul
          /\ \/ executed' = executed
             \/ \E n \in Nat : executed' = Append(executed, n)
          /\ \/ clean' = clean
             \/ Opens(bytes[1]) # 0 /\ clean' = clean \cup {Opens(bytes[1])}
      <4> DEFINE front == IF receiveQueue = <<>> THEN Opens(bytes[1]) ELSE Queued
      <4>1. front \in Nat
        BY <1>1, OpensFacts
      <4>2. executed' = executed \/ executed' = Append(executed, front)
        BY <1>1, <2>4, TakeFacts
      <4> HIDE DEF front
      <4>3. executed' = executed \/ \E n \in Nat : executed' = Append(executed, n)
        BY <4>1, <4>2
      <4> QED
        BY <1>1, <2>4, <4>3, TakeFacts
    <3>2. /\ \/ Opens(bytes[1]) = Buffered
             \/ Opens(bytes[1]) = Coming(1) /\ Len(wire) > 0
          /\ \/ wire' = wire
             \/ \E m \in 1 .. Len(wire) : wire' = SubSeq(wire, m + 1, Len(wire))
          /\ receiveBuffer' \in [1 .. PacketSize -> Byte]
      BY <1>1, <2>1, <2>4, FromFacts
    <3>3. Opens(bytes[1]) # 0 => Opens(bytes[1]) \in 1 .. asked
      <4>1. asked \in Nat /\ Len(wire) \in Nat
        BY <1>1, ReceiveFacts DEF ReceiveTypeOK, ReadTypes
      <4>2. Buffered # 0 => Buffered <= asked
        BY <1>1 DEF YoungerInv
      <4>3. Len(wire) > 0 /\ Coming(1) # 0 => Coming(1) <= asked
        BY <1>1, <4>1 DEF YoungerInv
      <4>4. Buffered \in Nat /\ Coming(1) \in Nat
        BY <1>1, OpensFacts
      <4> QED
        BY <3>2, <4>1, <4>2, <4>3, <4>4
    <3>4. clean' \subseteq 1 .. asked'
      BY <1>1, <2>1, <3>1, <3>3 DEF ReceiveTypeOK
    <3>5. wire' \in IF link \in Usb THEN Seq(Seq(Sent)) ELSE Seq(Sent)
      <4>1. CASE wire' = wire
        BY <1>1, <4>1 DEF ReadTypes
      <4>2. ASSUME NEW m \in 1 .. Len(wire), wire' = SubSeq(wire, m + 1, Len(wire))
            PROVE  wire' \in IF link \in Usb THEN Seq(Seq(Sent)) ELSE Seq(Sent)
        <5>1. m \in 0 .. Len(wire)
          OBVIOUS
        <5> QED
          BY <1>1, <2>1, <4>2, <5>1, WireCut
      <4> QED
        BY <3>2, <4>1, <4>2
    <3>6. executed' \in Seq(Nat)
      <4>1. executed \in Seq(Nat)
        BY <1>1 DEF ReadTypes
      <4>2. executed' = executed \/ \E n \in Nat : executed' = Append(executed, n)
        BY <3>1
      <4> QED
        BY <4>1, <4>2
    <3>7. ReadTypes'
      BY <1>1, <2>1, <3>1, <3>2, <3>5, <3>6 DEF ReadTypes
    <3> QED
      BY <1>1, <2>1, <2>2, <3>1, <3>4, <3>7 DEF ReceiveTypeOK
  <2> QED
    BY <1>1, <1>5, <2>3, <2>4, ReadFacts
<1> QED
  BY <1>2, <1>3, <1>4, <1>5, ReceiveSteps

\* The requests that begin somewhere stay in order.
LEMMA YoungerStep == ASSUME ReceiveInv, [Next]_vars PROVE YoungerInv'
<1>1. /\ ReceiveTypeOK /\ ReadTypes /\ YoungerInv /\ PacketInv /\ BufferInv
  BY DEF ReceiveInv
<1> DEFINE L == Requests!Latest
<1>2. /\ L \in Nat /\ Queued \in Nat /\ Buffered \in Nat /\ asked \in Nat /\ Len(wire) \in Nat
      /\ \A k : Coming(k) \in Nat
  BY <1>1, ReceiveFacts, LatestRequest, OpensFacts DEF ReceiveTypeOK, ReadTypes
<1>3. /\ L <= asked
      /\ Queued # 0 => L < Queued /\ Queued <= asked
      /\ Buffered # 0 => L < Buffered /\ Queued < Buffered /\ Buffered <= asked
      /\ \A k \in 1 .. Len(wire) : Coming(k) # 0 =>
            /\ L < Coming(k) /\ Queued < Coming(k) /\ Buffered < Coming(k) /\ Coming(k) <= asked
      /\ \A k, l \in 1 .. Len(wire) : k < l /\ Coming(l) # 0 => Coming(k) < Coming(l)
  BY <1>1 DEF YoungerInv
<1>4. executed' = executed => L' = L
  BY <1>1, LatestRequest
<1> HIDE DEF L
<1>5. SUFFICES /\ L' <= asked'
               /\ Queued' # 0 => L' < Queued' /\ Queued' <= asked'
               /\ Buffered' # 0 => L' < Buffered' /\ Queued' < Buffered' /\ Buffered' <= asked'
               /\ \A k \in 1 .. Len(wire') : Coming(k)' # 0 =>
                     /\ L' < Coming(k)' /\ Queued' < Coming(k)' /\ Buffered' < Coming(k)'
                     /\ Coming(k)' <= asked'
               /\ \A k, l \in 1 .. Len(wire') : k < l /\ Coming(l)' # 0 => Coming(k)' < Coming(l)'
  BY DEF YoungerInv, L
<1>6. ASSUME link' = link, NEW m \in 0 .. Len(wire), wire' = SubSeq(wire, m + 1, Len(wire))
      PROVE  /\ \A k \in 1 .. Len(wire') : m + k \in 1 .. Len(wire) /\ Coming(k)' = Coming(m + k)
             /\ \A k, l \in 1 .. Len(wire') : k < l /\ Coming(l)' # 0 => Coming(k)' < Coming(l)'
  <2>1. /\ Len(wire') = Len(wire) - m /\ m \in Nat
        /\ \A k \in 1 .. Len(wire') : m + k \in 1 .. Len(wire) /\ Coming(k)' = Coming(m + k)
    BY <1>1, <1>2, <1>6, WireCut
  <2>2. ASSUME NEW k \in 1 .. Len(wire'), NEW l \in 1 .. Len(wire'), k < l, Coming(l)' # 0
        PROVE  Coming(k)' < Coming(l)'
    <3>1. /\ m + k \in 1 .. Len(wire) /\ Coming(k)' = Coming(m + k)
          /\ m + l \in 1 .. Len(wire) /\ Coming(l)' = Coming(m + l)
      BY <2>1
    <3>2. m + k < m + l
      BY <1>2, <2>1, <2>2
    <3>3. Coming(m + k) < Coming(m + l)
      BY <1>3, <2>2, <3>1, <3>2
    <3> QED
      BY <3>1, <3>3
  <2> QED
    BY <2>1, <2>2
<1>7. ASSUME link' = link, wire' = wire
      PROVE  \A k : Coming(k)' = Coming(k)
  BY <1>7 DEF Coming, First
<1>8. CASE UNCHANGED receiveVars
  <2>1. /\ UNCHANGED <<link, wire, asked, executed>>
        /\ Queued' = Queued /\ Buffered' = Buffered
    BY <1>8 DEF receiveVars, Queued, Buffered
  <2>2. L' = L /\ \A k : Coming(k)' = Coming(k)
    BY <1>4, <1>7, <2>1
  <2> QED
    BY <1>3, <2>1, <2>2
<1>9. CASE HostAsks
  <2>1. /\ asked' = asked + 1
        /\ UNCHANGED <<link, receiveBuffer, armed, receiveQueue, executed, clean>>
        /\ \A k \in 1 .. Len(wire) : Coming(k)' = Coming(k)
        /\ \A k \in 1 .. Len(wire') :
               \/ k \in 1 .. Len(wire)
               \/ k = Len(wire) + 1 /\ Coming(k)' = asked'
               \/ k > Len(wire) + 1 /\ Coming(k)' = 0
    BY <1>1, <1>9, AskFacts
  <2>2. L' = L /\ Queued' = Queued /\ Buffered' = Buffered
    BY <1>4, <2>1 DEF Queued, Buffered
  <2>3. ASSUME NEW k \in 1 .. Len(wire'), Coming(k)' # 0
        PROVE  /\ L < Coming(k)' /\ Queued < Coming(k)' /\ Buffered < Coming(k)'
               /\ Coming(k)' <= asked'
    <3>1. CASE k \in 1 .. Len(wire)
      BY <1>2, <1>3, <2>1, <2>3, <3>1
    <3>2. CASE k = Len(wire) + 1 /\ Coming(k)' = asked'
      BY <1>2, <1>3, <2>1, <3>2
    <3> QED
      BY <2>1, <2>3, <3>1, <3>2
  <2>4. ASSUME NEW k \in 1 .. Len(wire'), NEW l \in 1 .. Len(wire'), k < l, Coming(l)' # 0
        PROVE  Coming(k)' < Coming(l)'
    <3>1. CASE l \in 1 .. Len(wire)
      <4>1. k \in 1 .. Len(wire)
        BY <1>2, <2>4, <3>1
      <4> QED
        BY <1>3, <2>1, <2>4, <3>1, <4>1
    <3>2. CASE l = Len(wire) + 1 /\ Coming(l)' = asked'
      <4>1. k \in 1 .. Len(wire)
        BY <1>2, <2>4, <3>2
      <4>2. Coming(k)' = Coming(k) /\ Coming(k) <= asked
        BY <1>2, <1>3, <2>1, <4>1
      <4> QED
        BY <1>2, <2>1, <3>2, <4>2
    <3> QED
      BY <2>1, <2>4, <3>1, <3>2
  <2>5. /\ Queued' # 0 => Queued' <= asked'
        /\ Buffered' # 0 => Buffered' <= asked'
        /\ L' <= asked'
    BY <1>2, <1>3, <2>1, <2>2
  <2> QED
    BY <1>3, <2>2, <2>3, <2>4, <2>5
<1>10. CASE PacketArrives
  <2>1. /\ link = "pic32 usb" /\ UNCHANGED <<link, receiveQueue, asked, executed, clean>>
        /\ wire' = SubSeq(wire, 2, Len(wire)) /\ Len(wire) > 0
        /\ wire[1] = <<>> => receiveBuffer'[1] = Nul
        /\ wire[1] # <<>> => receiveBuffer'[1] = wire[1][1]
    BY <1>1, <1>10, ArriveFacts
  <2>2. 1 \in 0 .. Len(wire) /\ 1 \in 1 .. Len(wire) /\ 1 + 1 = 2
    <3>1. Len(wire) \in Nat /\ Len(wire) > 0
      BY <1>2, <2>1
    <3> QED
      BY <3>1
  <2>3. /\ \A k \in 1 .. Len(wire') : 1 + k \in 1 .. Len(wire) /\ Coming(k)' = Coming(1 + k)
        /\ \A k, l \in 1 .. Len(wire') : k < l /\ Coming(l)' # 0 => Coming(k)' < Coming(l)'
    BY <1>6, <2>1, <2>2
  <2>4. L' = L /\ Queued' = Queued
    BY <1>4, <2>1 DEF Queued
  <2>5. Buffered' = Coming(1)
    BY <1>1, <2>1, OpensFacts DEF Buffered, Coming, First, Usb
  <2>6. ASSUME NEW k \in 1 .. Len(wire'), Coming(k)' # 0
        PROVE  /\ L < Coming(k)' /\ Queued < Coming(k)' /\ Coming(1) < Coming(k)'
               /\ Coming(k)' <= asked
    <3>1. 1 + k \in 1 .. Len(wire) /\ Coming(k)' = Coming(1 + k) /\ 1 < 1 + k
      BY <2>3
    <3> QED
      BY <1>3, <2>2, <2>6, <3>1
  <2> QED
    BY <1>3, <2>1, <2>2, <2>3, <2>4, <2>5, <2>6
<1>11. CASE ReadStep
  <2>1. link' = link /\ asked' = asked
    BY <1>1, <1>11, ReadFacts
  <2>2. CASE NothingLoaded
    <3>1. /\ UNCHANGED <<wire, receiveQueue, executed>>
          /\ receiveBuffer' = [receiveBuffer EXCEPT ![1] = Nul]
      BY <2>2 DEF NothingLoaded, armForRead
    <3>2. L' = L /\ Queued' = Queued /\ \A k : Coming(k)' = Coming(k)
      BY <1>4, <1>7, <2>1, <3>1 DEF Queued
    <3>3. Buffered' = 0
      BY <1>1, <3>1, ReceiveFacts, OpensFacts DEF Buffered, ReadTypes
    <3> QED
      BY <1>2, <1>3, <2>1, <3>1, <3>2, <3>3
  <2>3. ASSUME NEW bytes \in Seq(Byte), bytes # <<>>, Take(bytes), ReadsFrom(bytes)
        PROVE  /\ L' <= asked
               /\ Queued' # 0 => L' < Queued' /\ Queued' <= asked
               /\ Buffered' = 0
               /\ \A k \in 1 .. Len(wire') : Coming(k)' # 0 =>
                     /\ L' < Coming(k)' /\ Queued' < Coming(k)' /\ 0 < Coming(k)'
                     /\ Coming(k)' <= asked
               /\ \A k, l \in 1 .. Len(wire') : k < l /\ Coming(l)' # 0 => Coming(k)' < Coming(l)'
    <3> DEFINE front == IF receiveQueue = <<>> THEN Opens(bytes[1]) ELSE Queued
    <3>1. front = Queued \/ front = Opens(bytes[1])
      OBVIOUS
    <3>2. /\ \/ executed' = executed /\ Queued' \in {0, front}
             \/ front # 0 /\ executed' = Append(executed, front) /\ Queued' = 0
          /\ front \in Nat
      BY <1>1, <2>3, TakeFacts, OpensFacts
    <3>3. receiveQueue = <<>> => Queued = 0
      BY DEF Queued
    <3> HIDE DEF front
    <3>4. \/ L' = L /\ Queued' \in {0, front}
          \/ front # 0 /\ L' = front /\ Queued' = 0
      BY <1>1, <1>4, <3>2, LatestRequest DEF L
    <3>5. \E m \in 0 .. Len(wire) :
             /\ \/ m = 0 /\ Opens(bytes[1]) = Buffered
                \/ m > 0 /\ Opens(bytes[1]) = Coming(1)
             /\ \A k \in 1 .. Len(wire') : m + k \in 1 .. Len(wire) /\ Coming(k)' = Coming(m + k)
             /\ \A k, l \in 1 .. Len(wire') : k < l /\ Coming(l)' # 0 => Coming(k)' < Coming(l)'
      <4>1. CASE Opens(bytes[1]) = Buffered /\ wire' = wire
        <5>1. \A k : Coming(k)' = Coming(k)
          BY <1>7, <2>1, <4>1
        <5>2. /\ \A k \in 1 .. Len(wire') : 0 + k \in 1 .. Len(wire) /\ Coming(k)' = Coming(0 + k)
              /\ \A k, l \in 1 .. Len(wire') : k < l /\ Coming(l)' # 0 => Coming(k)' < Coming(l)'
              /\ 0 \in 0 .. Len(wire)
          BY <1>2, <1>3, <4>1, <5>1
        <5> QED
          BY <4>1, <5>2
      <4>2. ASSUME NEW m \in 1 .. Len(wire), Opens(bytes[1]) = Coming(1),
                   wire' = SubSeq(wire, m + 1, Len(wire))
            PROVE  <3>5!:
        <5>1. m \in 0 .. Len(wire) /\ m > 0
          OBVIOUS
        <5>2. /\ \A k \in 1 .. Len(wire') : m + k \in 1 .. Len(wire) /\ Coming(k)' = Coming(m + k)
              /\ \A k, l \in 1 .. Len(wire') : k < l /\ Coming(l)' # 0 => Coming(k)' < Coming(l)'
          BY <1>6, <2>1, <4>2, <5>1
        <5> QED
          BY <4>2, <5>1, <5>2
      <4> QED
        BY <1>1, <2>1, <2>3, <4>1, <4>2, FromFacts
    <3>6. PICK m \in 0 .. Len(wire) :
             /\ \/ m = 0 /\ Opens(bytes[1]) = Buffered
                \/ m > 0 /\ Opens(bytes[1]) = Coming(1)
             /\ \A k \in 1 .. Len(wire') : m + k \in 1 .. Len(wire) /\ Coming(k)' = Coming(m + k)
             /\ \A k, l \in 1 .. Len(wire') : k < l /\ Coming(l)' # 0 => Coming(k)' < Coming(l)'
      BY <3>5
    <3>7. front # 0 => L < front /\ front <= asked
      <4>1. m > 0 => 1 \in 1 .. Len(wire)
        BY <1>2
      <4> QED
        BY <1>3, <3>1, <3>6, <4>1
    <3>8. ASSUME NEW k \in 1 .. Len(wire'), Coming(k)' # 0
          PROVE  L < Coming(k)' /\ front < Coming(k)' /\ Coming(k)' <= asked
      <4>1. m + k \in 1 .. Len(wire) /\ Coming(k)' = Coming(m + k)
        BY <3>6
      <4>2. m > 0 => 1 \in 1 .. Len(wire) /\ 1 < m + k
        BY <1>2
      <4>3. m > 0 => Coming(1) < Coming(m + k)
        BY <1>3, <3>8, <4>1, <4>2
      <4>4. L < Coming(m + k) /\ Queued < Coming(m + k) /\ Buffered < Coming(m + k) /\ Coming(m + k) <= asked
        BY <1>3, <3>8, <4>1
      <4> QED
        BY <3>1, <3>6, <4>1, <4>3, <4>4
    <3>9. Buffered' = 0
      BY <1>1, <2>1, <2>3, FromFacts
    <3>10. L' <= asked /\ (Queued' # 0 => L' < Queued' /\ Queued' <= asked)
      BY <1>2, <1>3, <3>2, <3>4, <3>7
    <3>11. \A k \in 1 .. Len(wire') : Coming(k)' # 0 =>
               /\ L' < Coming(k)' /\ Queued' < Coming(k)' /\ 0 < Coming(k)'
               /\ Coming(k)' <= asked
      <4> TAKE k \in 1 .. Len(wire')
      <4> HAVE Coming(k)' # 0
      <4>1. L < Coming(k)' /\ front < Coming(k)' /\ Coming(k)' <= asked
        BY <3>8
      <4>2. 0 < Coming(k)'
        <5>1. Coming(k)' = Coming(m + k) /\ Coming(m + k) \in Nat /\ L \in Nat
          BY <1>2, <3>6
        <5> QED
          BY <4>1, <5>1
      <4> QED
        BY <3>4, <4>1, <4>2
    <3> QED
      BY <3>6, <3>9, <3>10, <3>11
  <2>4. CASE \E bytes \in Seq(Byte) : bytes # <<>> /\ Take(bytes) /\ ReadsFrom(bytes)
    <3>1. PICK bytes \in Seq(Byte) : bytes # <<>> /\ Take(bytes) /\ ReadsFrom(bytes)
      BY <2>4
    <3>2. /\ L' <= asked
          /\ Queued' # 0 => L' < Queued' /\ Queued' <= asked
          /\ Buffered' = 0
          /\ \A k \in 1 .. Len(wire') : Coming(k)' # 0 =>
                /\ L' < Coming(k)' /\ Queued' < Coming(k)' /\ 0 < Coming(k)'
                /\ Coming(k)' <= asked
          /\ \A k, l \in 1 .. Len(wire') : k < l /\ Coming(l)' # 0 => Coming(k)' < Coming(l)'
      BY <2>3, <3>1
    <3> QED
      BY <2>1, <3>2
  <2> QED
    BY <1>1, <1>11, <2>2, <2>4, ReadFacts
<1> QED
  BY <1>8, <1>9, <1>10, <1>11, ReceiveSteps

\* How much of the wire a step reads: none, or its first packets or bytes.
LEMMA WireMoves ==
  ASSUME ReceiveInv, UNCHANGED receiveVars \/ ReadStep \/ PacketArrives
  PROVE  /\ link' = link
         /\ \/ wire' = wire
            \/ \E m \in 0 .. Len(wire) : wire' = SubSeq(wire, m + 1, Len(wire))
<1>1. ReceiveTypeOK /\ ReadTypes /\ PacketInv /\ BufferInv
  BY DEF ReceiveInv
<1>2. CASE UNCHANGED receiveVars
  BY <1>2 DEF receiveVars
<1>3. CASE PacketArrives
  <2>1. link' = link /\ wire' = SubSeq(wire, 2, Len(wire)) /\ Len(wire) > 0
    BY <1>1, <1>3, ArriveFacts
  <2>2. Len(wire) \in Nat
    BY <1>1 DEF ReadTypes
  <2>3. 1 \in 0 .. Len(wire) /\ 1 + 1 = 2
    BY <2>1, <2>2
  <2> QED
    BY <2>1, <2>3
<1>4. CASE ReadStep
  <2>1. link' = link
    BY <1>1, <1>4, ReadFacts
  <2>2. CASE NothingLoaded
    BY <2>1, <2>2 DEF NothingLoaded
  <2>3. ASSUME NEW bytes \in Seq(Byte), bytes # <<>>, ReadsFrom(bytes)
        PROVE  \/ wire' = wire
               \/ \E m \in 0 .. Len(wire) : wire' = SubSeq(wire, m + 1, Len(wire))
    <3>1. \/ wire' = wire
          \/ \E m \in 1 .. Len(wire) : wire' = SubSeq(wire, m + 1, Len(wire))
      BY <1>1, <2>1, <2>3, FromFacts
    <3>2. \A m \in 1 .. Len(wire) : m \in 0 .. Len(wire)
      OBVIOUS
    <3> QED
      BY <3>1, <3>2
  <2> QED
    BY <1>1, <1>4, <2>1, <2>2, <2>3, ReadFacts
<1> QED
  BY <1>2, <1>3, <1>4

\* What is on the wire goes on as it has begun.
LEMMA WireStep == ASSUME ReceiveInv, [Next]_vars PROVE PacketInv' /\ StreamInv'
<1>1. ReceiveTypeOK /\ ReadTypes /\ PacketInv /\ StreamInv
  BY DEF ReceiveInv
<1>2. CASE HostAsks
  BY <1>1, <1>2, AskFacts
<1>3. CASE UNCHANGED receiveVars \/ ReadStep \/ PacketArrives
  <2>1. CASE wire' = wire /\ link' = link
    BY <1>1, <2>1 DEF PacketInv, StreamInv
  <2>2. ASSUME link' = link, NEW m \in 0 .. Len(wire), wire' = SubSeq(wire, m + 1, Len(wire))
        PROVE  PacketInv' /\ StreamInv'
    BY <1>1, <2>2, WireCut
  <2> QED
    BY <1>3, <2>1, <2>2, WireMoves
<1> QED
  BY <1>2, <1>3, ReceiveSteps

\* What is in the receive buffer goes on on the wire.
LEMMA BufferStep == ASSUME ReceiveInv, [Next]_vars PROVE BufferInv'
<1>1. ReceiveTypeOK /\ ReadTypes /\ PacketInv /\ BufferInv
  BY DEF ReceiveInv
<1>2. CASE UNCHANGED receiveVars
  BY <1>1, <1>2 DEF receiveVars, BufferInv, Loaded
<1>3. CASE HostAsks
  <2>1. /\ UNCHANGED <<link, receiveBuffer, armed>>
        /\ \A b, k : Follows(wire, b, k) => Follows(wire', b, k)
    BY <1>1, <1>3, AskFacts
  <2> QED
    BY <1>1, <2>1 DEF BufferInv, Loaded
<1>4. CASE PacketArrives
  <2>1. /\ link = "pic32 usb" /\ ~armed' /\ link' = link /\ Len(wire) > 0
        /\ wire' = SubSeq(wire, 2, Len(wire))
        /\ wire[1] = <<>> => receiveBuffer'[1] = Nul
        /\ wire[1] # <<>> =>
              /\ wire[1][1] \in Sent /\ receiveBuffer'[1] = wire[1][1]
              /\ \A i \in 1 .. Chunk(wire[1][1]) :
                    receiveBuffer'[i] = At(wire[1][1], wire[1][1].place + i - 1)
    BY <1>1, <1>4, ArriveFacts
  <2>2. Len(wire) \in Nat
    BY <1>1 DEF ReadTypes
  <2>3. 1 \in 0 .. Len(wire) /\ 1 \in 1 .. Len(wire) /\ 1 + 1 = 2
    <3>1. Len(wire) \in Nat /\ Len(wire) > 0
      BY <2>1, <2>2
    <3> QED
      BY <3>1
  <2>4. ASSUME wire[1] # <<>>
        PROVE  Follows(wire', wire[1][1], 1)
    <3>1. link \in Usb
      BY <2>1 DEF Usb
    <3>2. Follows(wire, wire[1][1], 1 + 1)
      BY <1>1, <2>3, <2>4, <3>1 DEF PacketInv
    <3>3. wire' = SubSeq(wire, 1 + 1, Len(wire))
      BY <2>1, <2>3
    <3> QED
      BY <1>1, <2>1, <2>3, <3>2, <3>3, WireCut
  <2> DEFINE b == wire[1][1]
  <2>5. CASE wire[1] = <<>>
    BY <2>1, <2>5 DEF BufferInv, Loaded
  <2>6. CASE wire[1] # <<>>
    <3>1. /\ b \in Sent /\ receiveBuffer'[1] = b /\ Follows(wire', b, 1)
          /\ \A i \in 1 .. Chunk(b) : receiveBuffer'[i] = At(b, b.place + i - 1)
      BY <2>1, <2>4, <2>6
    <3> HIDE DEF b
    <3> QED
      BY <2>1, <3>1 DEF BufferInv, Loaded, Chunk
  <2> QED
    BY <2>5, <2>6
<1>5. CASE ReadStep
  <2>1. link' = link
    BY <1>1, <1>5, ReadFacts
  <2>2. ASSUME link = "pic32 usb", armForRead(receiveBuffer)
        PROVE  BufferInv'
    <3>1. receiveBuffer' = [receiveBuffer EXCEPT ![1] = Nul] /\ armed' = TRUE
      BY <2>2 DEF armForRead
    <3>2. receiveBuffer'[1] = Nul
      BY <1>1, <3>1, ReceiveFacts DEF ReadTypes
    <3> QED
      BY <2>1, <2>2, <3>1, <3>2 DEF BufferInv, Loaded
  <2>3. ASSUME link # "pic32 usb", UNCHANGED <<receiveBuffer, armed>>
        PROVE  BufferInv'
    BY <1>1, <2>1, <2>3 DEF BufferInv, Loaded
  <2>4. CASE NothingLoaded
    BY <2>2, <2>4 DEF NothingLoaded
  <2>5. ASSUME NEW bytes, ReadsFrom(bytes)
        PROVE  BufferInv'
    BY <2>2, <2>3, <2>5 DEF ReadsFrom, FromBuffer, FromPacket, FromStream, Loaded
  <2> QED
    BY <1>1, <1>5, <2>4, <2>5, ReadFacts
<1> QED
  BY <1>2, <1>3, <1>4, <1>5, ReceiveSteps

\* The bytes that a reader passes on begin with the next one, and go on with those behind
\* it in its request; if they end before the request does, the rest of it comes next.
LEMMA FrontRun ==
  ASSUME ReceiveInv, link # "ethernet", link' = link, BufferInv',
         NEW bytes \in Seq(Byte), bytes # <<>>, ReadsFrom(bytes), NEW b \in Sent,
         NextByte(b) \/ bytes[1] = b
  PROVE  /\ bytes[1] = b
         /\ \A i \in 1 .. Len(bytes) : b.place + i - 1 <= b.length =>
               bytes[i] = At(b, b.place + i - 1)
         /\ b.place + Len(bytes) <= b.length => NextByte(At(b, b.place + Len(bytes)))'
<1>1. /\ ReceiveTypeOK /\ ReadTypes /\ PacketInv /\ BufferInv /\ StreamInv
      /\ PacketSize \in Nat /\ PacketSize > 0
      /\ b.place \in Nat /\ b.place > 0 /\ b.length \in Nat /\ b.place <= b.length
      /\ b \notin {Nul, Junk}
  BY SentFacts, ReceiveFacts DEF ReceiveInv
<1>2. CASE FromBuffer(bytes)
  <2>1. /\ Loaded /\ link = "pic32 usb" /\ bytes = receiveBuffer /\ wire' = wire
        /\ armed' = TRUE
    BY <1>2 DEF FromBuffer, armForRead, Loaded
  <2>2. bytes[1] = b
    BY <2>1 DEF NextByte
  <2>3. Len(bytes) = PacketSize
    <3>1. bytes \in [1 .. PacketSize -> Byte] /\ PacketSize \in Nat
      BY <1>1, <2>1 DEF ReadTypes
    <3> QED
      BY <3>1
  <2>4. /\ \A i \in 1 .. Chunk(b) : bytes[i] = At(b, b.place + i - 1)
        /\ Follows(wire, b, 1)
    BY <1>1, <2>1, <2>2 DEF BufferInv
  <2>5. \A i \in 1 .. Len(bytes) : b.place + i - 1 <= b.length => i \in 1 .. Chunk(b)
    BY <1>1, <2>3 DEF Chunk, Shorter
  <2>6. ASSUME b.place + PacketSize <= b.length
        PROVE  NextByte(At(b, b.place + PacketSize))'
    <3>1. /\ 1 \in 1 .. Len(wire) /\ wire[1] # <<>>
          /\ wire[1][1] = At(b, b.place + PacketSize)
      BY <2>4, <2>6 DEF Follows
    <3>2. wire # <<>>
      BY <3>1
    <3>3. ~Loaded' /\ link' \in Usb
      BY <2>1 DEF Loaded, Usb
    <3> QED
      BY <2>1, <3>1, <3>2, <3>3 DEF NextByte
  <2> QED
    BY <2>2, <2>3, <2>4, <2>5, <2>6
<1>3. CASE FromPacket(bytes)
  <2> DEFINE S    == Seq(Sent)
             unit == wire[1]
  <2>1. /\ link = "lpc17xx usb" /\ wire # <<>> /\ Len(bytes) = PacketSize
        /\ wire' = SubSeq(wire, 2, Len(wire))
        /\ UNCHANGED <<receiveBuffer, armed>>
    BY <1>3 DEF FromPacket
  <2>2. \A i \in 1 .. PacketSize : i <= Len(unit) => bytes[i] = unit[i]
    BY <1>3 DEF FromPacket
  <2>3. unit = <<>> => bytes[1] \in {Nul, Junk}
    BY <1>3 DEF FromPacket
  <2>4. link \in Usb /\ wire \in Seq(S) /\ ~Loaded /\ ~Loaded'
    BY <1>1, <2>1 DEF Usb, ReadTypes, Loaded
  <2> HIDE DEF S
  <2>5. /\ Len(wire) \in Nat /\ Len(wire) > 0 /\ unit \in S
        /\ 1 \in 0 .. Len(wire) /\ 1 \in 1 .. Len(wire) /\ 1 + 1 = 2
    <3>1. Len(wire) \in Nat /\ Len(wire) > 0 /\ unit \in S
      BY <2>1, <2>4, FirstElement
    <3> HIDE DEF unit
    <3> QED
      BY <3>1
  <2>6. unit # <<>> => /\ unit = [i \in 1 .. Chunk(unit[1]) |-> At(unit[1], unit[1].place + i - 1)]
                       /\ Follows(wire, unit[1], 1 + 1)
    BY <1>1, <2>4, <2>5 DEF PacketInv
  <2>7. NextByte(b) => unit # <<>> /\ unit[1] = b
    BY <2>4 DEF NextByte
  <2> HIDE DEF unit
  <2>8. unit # <<>> => Len(unit) \in Nat /\ Len(unit) > 0
    BY <2>5, FirstElement DEF S
  <2>9. 1 \in 1 .. PacketSize
    BY <1>1
  <2>10. unit # <<>> /\ unit[1] = b /\ bytes[1] = b
    <3>1. CASE bytes[1] = b
      <4>1. unit # <<>>
        BY <1>1, <2>3, <3>1
      <4>2. bytes[1] = unit[1]
        BY <2>2, <2>8, <2>9, <4>1
      <4> QED
        BY <3>1, <4>1, <4>2
    <3>2. CASE NextByte(b)
      <4>1. bytes[1] = unit[1]
        BY <2>2, <2>7, <2>8, <2>9, <3>2
      <4> QED
        BY <2>7, <3>2, <4>1
    <3> QED
      BY <3>1, <3>2
  <2>11. Chunk(b) \in Nat
    BY <1>1 DEF Chunk, Shorter
  <2>12. Len(unit) = Chunk(b) /\ \A i \in 1 .. Chunk(b) : unit[i] = At(b, b.place + i - 1)
    BY <2>6, <2>10, <2>11
  <2>13. \A i \in 1 .. PacketSize : b.place + i - 1 <= b.length => i \in 1 .. Chunk(b)
    BY <1>1 DEF Chunk, Shorter
  <2>14. \A i \in 1 .. PacketSize : b.place + i - 1 <= b.length => bytes[i] = At(b, b.place + i - 1)
    <3> TAKE i \in 1 .. PacketSize
    <3> HAVE b.place + i - 1 <= b.length
    <3>1. i \in 1 .. Chunk(b) /\ i <= Len(unit)
      BY <2>11, <2>12, <2>13
    <3> QED
      BY <2>2, <2>12, <3>1
  <2>15. ASSUME b.place + PacketSize <= b.length
         PROVE  NextByte(At(b, b.place + PacketSize))'
    <3>1. Follows(wire', b, 1)
      <4>1. wire' = SubSeq(wire, 1 + 1, Len(wire))
        BY <2>1, <2>5
      <4>2. Follows(wire, b, 1 + 1)
        BY <2>6, <2>10
      <4> QED
        BY <1>1, <2>5, <4>1, <4>2, WireCut
    <3>2. /\ 1 \in 1 .. Len(wire') /\ wire'[1] # <<>>
          /\ wire'[1][1] = At(b, b.place + PacketSize)
      BY <2>15, <3>1 DEF Follows
    <3>3. wire' # <<>>
      BY <3>2
    <3> QED
      BY <2>4, <3>2, <3>3 DEF NextByte
  <2> QED
    BY <2>1, <2>10, <2>14, <2>15
<1>4. CASE FromStream(bytes)
  <2>1. /\ link = "pic32 uart" /\ wire # <<>> /\ bytes[1] = wire[1]
        /\ UNCHANGED <<receiveBuffer, armed>>
    BY <1>4 DEF FromStream
  <2>2. PICK m \in 1 .. Len(wire) :
            /\ wire' = SubSeq(wire, m + 1, Len(wire))
            /\ Len(bytes) = m /\ \A i \in 1 .. m : bytes[i] = wire[i]
    BY <1>4, <2>1 DEF FromStream
  <2>3. link \notin Usb /\ wire \in Seq(Sent) /\ ~Loaded /\ ~Loaded' /\ Len(wire) \in Nat
    <3>1. link \notin Usb /\ link' \notin Usb
      BY <2>1 DEF Usb
    <3>2. wire \in Seq(Sent)
      BY <1>1, <3>1 DEF ReadTypes
    <3>3. ~Loaded /\ ~Loaded'
      BY <2>1 DEF Loaded
    <3>4. Len(wire) \in Nat
      BY <3>2
    <3> QED
      BY <3>1, <3>2, <3>3, <3>4
  <2>4. wire[1] = b /\ bytes[1] = b
    BY <2>1, <2>3 DEF NextByte
  <2>5. 1 \in 1 .. Len(wire)
    BY <2>3, <2>2
  <2>6. /\ 1 + (b.length - b.place) <= Len(wire)
        /\ \A j \in 0 .. b.length - b.place : wire[1 + j] = At(b, b.place + j)
    BY <1>1, <2>3, <2>4, <2>5 DEF StreamInv
  <2>7. \A i \in 1 .. m : b.place + i - 1 <= b.length => bytes[i] = At(b, b.place + i - 1)
    <3> TAKE i \in 1 .. m
    <3> HAVE b.place + i - 1 <= b.length
    <3>1. i - 1 \in 0 .. b.length - b.place /\ 1 + (i - 1) = i /\ b.place + (i - 1) = b.place + i - 1
      BY <1>1
    <3>2. wire[i] = At(b, b.place + (i - 1))
      BY <2>6, <3>1
    <3> QED
      BY <2>2, <3>1, <3>2
  <2>8. ASSUME b.place + m <= b.length
        PROVE  NextByte(At(b, b.place + m))'
    <3>1. /\ Len(wire') = Len(wire) - m
          /\ \A k \in 1 .. Len(wire') : m + k \in 1 .. Len(wire) /\ wire'[k] = wire[m + k]
      BY <1>1, <2>2, <2>3, m \in 0 .. Len(wire), WireCut
    <3>2. m \in 0 .. b.length - b.place /\ 1 \in 1 .. Len(wire') /\ m + 1 = 1 + m
      BY <1>1, <2>3, <2>6, <2>8, <3>1
    <3>3. wire'[1] = At(b, b.place + m)
      BY <2>6, <3>1, <3>2
    <3>4. wire' # <<>>
      BY <3>2
    <3> QED
      BY <2>3, <3>3, <3>4 DEF NextByte
  <2> QED
    BY <2>2, <2>4, <2>7, <2>8
<1> QED
  BY <1>2, <1>3, <1>4 DEF ReadsFrom

\* A request up to the byte that is read next: with what is read it is executed, or it is
\* in the queue up to the byte that is read next now.
LEMMA TakeRun ==
  ASSUME ReceiveInv, link # "ethernet", link' = link, BufferInv',
         NEW bytes \in Seq(Byte), bytes # <<>>, Take(bytes), ReadsFrom(bytes),
         NEW b \in Sent, b.length <= QueueCapacity, NextByte(b) \/ bytes[1] = b,
         Len(receiveQueue) = b.place - 1,
         \A i \in 1 .. b.place - 1 : receiveQueue[i] = At(b, i)
  PROVE  Done(b.request)' \/ InProgress(b.request)'
<1> DEFINE q == Pushed(receiveQueue, bytes)
           n == Len(receiveQueue)
           l == Len(bytes)
<1>1. /\ QueueCapacity \in Nat /\ receiveQueue \in Seq(Byte) /\ executed \in Seq(Nat)
      /\ n < QueueCapacity /\ n \in Nat /\ l \in Nat /\ l > 0
      /\ b.place \in Nat /\ b.place > 0 /\ b.length \in Nat /\ b.place <= b.length
      /\ n = b.place - 1
  <2>1. receiveQueue \in Seq(Byte) /\ executed \in Seq(Nat) /\ n < QueueCapacity
    BY DEF ReceiveInv, ReceiveTypeOK, ReadTypes
  <2> QED
    BY <2>1, SentFacts, ReceiveFacts, FirstElement
<1>2. /\ bytes[1] = b
      /\ \A i \in 1 .. l : b.place + i - 1 <= b.length => bytes[i] = At(b, b.place + i - 1)
      /\ b.place + l <= b.length => NextByte(At(b, b.place + l))'
  BY FrontRun
<1>3. /\ q \in Seq(Byte) /\ Len(q) <= QueueCapacity
      /\ Len(q) = Shorter(QueueCapacity, n + l)
      /\ \A i \in 1 .. n : i \in 1 .. Len(q) /\ q[i] = receiveQueue[i]
      /\ \A i \in n + 1 .. Len(q) : i - n \in 1 .. l /\ q[i] = bytes[i - n]
  <2>1. receiveQueue \in Seq(Byte) /\ Len(receiveQueue) <= QueueCapacity
    BY <1>1
  <2> QED
    BY <2>1, PushedFacts, Zenon
<1>4. processQueue(q)
  BY DEF Take
<1> HIDE DEF q, n, l
<1>5. Len(q) \in Nat /\ Len(q) > 0
  BY <1>1, <1>3 DEF Shorter
<1>6. q # <<>>
  BY <1>5
<1>7. \A i \in 1 .. Len(q) : i <= b.length => q[i] = At(b, i)
  <2> TAKE i \in 1 .. Len(q)
  <2> HAVE i <= b.length
  <2>1. CASE i <= n
    <3>1. i \in 1 .. n /\ i \in 1 .. b.place - 1
      BY <1>1, <2>1
    <3> QED
      BY <1>3, <3>1
  <2>2. CASE ~(i <= n)
    <3>1. i \in n + 1 .. Len(q) /\ b.place + (i - n) - 1 = i
      BY <1>1, <1>5, <2>2
    <3>2. i - n \in 1 .. l /\ q[i] = bytes[i - n]
      BY <1>3, <3>1
    <3>3. bytes[i - n] = At(b, b.place + (i - n) - 1)
      BY <1>2, <3>1, <3>2
    <3> QED
      BY <3>1, <3>2, <3>3
  <2> QED
    BY <2>1, <2>2
<1>8. \/ executed' = Append(executed, b.request)
      \/ executed' = executed /\ receiveQueue' = q /\ Len(q) < b.length
  BY <1>3, <1>4, <1>6, <1>7, ProcessRun
<1>9. CASE executed' = Append(executed, b.request)
  <2>1. Len(executed) \in Nat
    BY <1>1
  <2>2. Len(executed') = Len(executed) + 1 /\ executed'[Len(executed) + 1] = b.request
    BY <1>1, <1>9, <2>1
  <2>3. Len(executed) + 1 \in 1 .. Len(executed')
    BY <2>1, <2>2
  <2>4. Done(b.request)'
    BY <2>2, <2>3 DEF Done
  <2> QED
    BY <2>4
<1>10. CASE receiveQueue' = q /\ Len(q) < b.length
  <2> DEFINE p == b.place + l
             c == At(b, p)
  <2>1. /\ Len(q) = n + l /\ Len(q) = p - 1 /\ p \in 1 .. b.length /\ p > 1
        /\ b.place + l <= b.length
    <3>1. Len(q) = Shorter(QueueCapacity, n + l) /\ Len(q) <= QueueCapacity /\ Len(q) < b.length
      BY <1>3, <1>10
    <3>2. Len(q) = n + l
      BY <1>1, <3>1 DEF Shorter
    <3>3. n + l = p - 1 /\ p - 1 < b.length /\ p > 1
      BY <1>1, <3>1, <3>2
    <3>4. p \in Nat
      BY <1>1
    <3> QED
      BY <1>1, <3>2, <3>3, <3>4
  <2>2. NextByte(c)'
    BY <1>2, <2>1
  <2> HIDE DEF p
  <2>3. /\ c \in Sent /\ c.place = p /\ c.request = b.request /\ c.length = b.length
        /\ \A i \in 1 .. b.length : At(c, i) = At(b, i)
    BY <2>1, SentFacts
  <2> HIDE DEF c
  <2>4. \A i \in 1 .. p - 1 : receiveQueue'[i] = At(c, i)
    <3> TAKE i \in 1 .. p - 1
    <3>1. i \in 1 .. Len(q) /\ i \in 1 .. b.length /\ i <= b.length
      BY <1>1, <2>1
    <3> QED
      BY <1>7, <1>10, <2>3, <3>1
  <2>5. Len(receiveQueue') = p - 1 /\ c.length <= QueueCapacity /\ c.place > 1
    BY <1>10, <2>1, <2>3
  <2>6. InProgress(b.request)'
    BY <2>2, <2>3, <2>4, <2>5 DEF InProgress
  <2> QED
    BY <2>6
<1> QED
  BY <1>8, <1>9, <1>10

\* What was executed stays in the log.
LEMMA DoneStays ==
  ASSUME ReadTypes, executed' = executed \/ \E n \in Nat : executed' = Append(executed, n),
         NEW r, Done(r)
  PROVE  Done(r)'
<1>1. executed \in Seq(Nat) /\ Len(executed) \in Nat
  BY DEF ReadTypes
<1>2. PICK i \in 1 .. Len(executed) : executed[i] = r
  BY DEF Done
<1>3. CASE executed' = executed
  BY <1>2, <1>3 DEF Done
<1>4. ASSUME NEW n \in Nat, executed' = Append(executed, n)
      PROVE  Done(r)'
  <2>1. Len(executed') = Len(executed) + 1 /\ executed'[i] = executed[i]
    BY <1>1, <1>2, <1>4
  <2>2. i \in 1 .. Len(executed')
    BY <1>1, <1>2, <2>1
  <2> QED
    BY <1>2, <2>1, <2>2 DEF Done
<1> QED
  BY <1>3, <1>4

\* A request that began in an empty queue and fits into it is executed, or in the queue up
\* to the byte that is read next.
LEMMA CleanStep == ASSUME ReceiveInv, [Next]_vars PROVE CleanInv'
<1>1. ReceiveTypeOK /\ ReadTypes /\ PacketInv /\ BufferInv /\ CleanInv /\ BufferInv'
  BY BufferStep DEF ReceiveInv
<1>2. ASSUME link' = link, executed' = executed, receiveQueue' = receiveQueue, clean' = clean,
             \A b \in Sent : NextByte(b) => NextByte(b)'
      PROVE  CleanInv'
  <2> SUFFICES ASSUME link # "ethernet", NEW r \in clean
               PROVE  Done(r)' \/ InProgress(r)'
    BY <1>2 DEF CleanInv
  <2>1. CASE Done(r)
    BY <1>2, <2>1 DEF Done
  <2>2. CASE InProgress(r)
    <3>1. PICK b \in Sent :
             /\ b.request = r /\ b.length <= QueueCapacity /\ b.place > 1
             /\ Len(receiveQueue) = b.place - 1
             /\ \A i \in 1 .. b.place - 1 : receiveQueue[i] = At(b, i)
             /\ NextByte(b)
      BY <2>2 DEF InProgress
    <3>2. NextByte(b)'
      BY <1>2, <3>1
    <3> QED
      BY <1>2, <3>1, <3>2 DEF InProgress
  <2> QED
    BY <1>1, <2>1, <2>2 DEF CleanInv
<1>3. CASE UNCHANGED receiveVars
  BY <1>2, <1>3 DEF receiveVars, NextByte, Loaded
<1>4. CASE HostAsks
  <2>1. /\ UNCHANGED <<link, receiveBuffer, armed, receiveQueue, executed, clean>>
        /\ \A k \in 1 .. Len(wire) : k \in 1 .. Len(wire') /\ wire'[k] = wire[k]
    BY <1>1, <1>4, AskFacts
  <2>2. wire # <<>> => wire' # <<>> /\ wire'[1] = wire[1]
    <3> SUFFICES ASSUME wire # <<>>
                 PROVE  wire' # <<>> /\ wire'[1] = wire[1]
      OBVIOUS
    <3>1. 1 \in 1 .. Len(wire)
      <4> DEFINE S == IF link \in Usb THEN Seq(Sent) ELSE Sent
      <4>1. wire \in Seq(S)
        BY <1>1 DEF ReadTypes
      <4> HIDE DEF S
      <4> QED
        BY <4>1, FirstElement
    <3>2. 1 \in 1 .. Len(wire') /\ wire'[1] = wire[1]
      BY <2>1, <3>1
    <3> QED
      BY <3>2
  <2>3. \A b \in Sent : NextByte(b) => NextByte(b)'
    BY <2>1, <2>2 DEF NextByte, Loaded
  <2> QED
    BY <1>2, <2>1, <2>3
<1>5. CASE PacketArrives
  <2>1. /\ link = "pic32 usb" /\ ~Loaded /\ ~armed'
        /\ UNCHANGED <<link, receiveQueue, asked, executed, clean>>
        /\ wire[1] # <<>> => receiveBuffer'[1] = wire[1][1]
    BY <1>1, <1>5, ArriveFacts
  <2>2. ASSUME NEW b \in Sent, NextByte(b)
        PROVE  NextByte(b)'
    <3>1. link \in Usb
      BY <2>1 DEF Usb
    <3>2. receiveBuffer'[1] = b
      BY <2>1, <2>2, <3>1 DEF NextByte
    <3>3. b # Nul
      BY SentFacts
    <3>4. Loaded'
      BY <2>1, <3>2, <3>3 DEF Loaded
    <3> QED
      BY <3>2, <3>4 DEF NextByte
  <2> QED
    BY <1>2, <2>1, <2>2
<1>6. CASE ReadStep
  <2>1. link' = link
    BY <1>1, <1>6, ReadFacts
  <2>2. CASE NothingLoaded
    <3>1. /\ UNCHANGED <<wire, receiveQueue, executed, clean>> /\ armed' = TRUE
          /\ receiveBuffer[1] = Nul
      BY <2>2 DEF NothingLoaded, armForRead
    <3>2. ~Loaded /\ ~Loaded'
      BY <3>1 DEF Loaded
    <3>3. \A b \in Sent : NextByte(b) => NextByte(b)'
      BY <2>1, <3>1, <3>2 DEF NextByte
    <3> QED
      BY <1>2, <2>1, <3>1, <3>3
  <2>3. ASSUME NEW bytes \in Seq(Byte), bytes # <<>>, Take(bytes), ReadsFrom(bytes)
        PROVE  CleanInv'
    <3> SUFFICES ASSUME link # "ethernet", NEW r \in clean'
                 PROVE  Done(r)' \/ InProgress(r)'
      BY <2>1 DEF CleanInv
    <3>1. executed' = executed \/ \E n \in Nat : executed' = Append(executed, n)
      BY <1>1, <2>3, TakeFacts, OpensFacts
    <3>2. CASE r \in clean /\ Done(r)
      BY <1>1, <3>1, <3>2, DoneStays
    <3>3. CASE r \in clean /\ InProgress(r)
      <4>1. PICK b \in Sent :
               /\ b.request = r /\ b.length <= QueueCapacity /\ b.place > 1
               /\ Len(receiveQueue) = b.place - 1
               /\ \A i \in 1 .. b.place - 1 : receiveQueue[i] = At(b, i)
               /\ NextByte(b)
        BY <3>3 DEF InProgress
      <4>2. Done(b.request)' \/ InProgress(b.request)'
        BY <1>1, <2>1, <2>3, <4>1, TakeRun
      <4> QED
        BY <4>1, <4>2
    <3>4. CASE r \notin clean
      <4>1. receiveQueue = <<>> /\ Begins(bytes[1]) /\ r = bytes[1].request
        BY <2>3, <3>4 DEF Take
      <4> DEFINE b == bytes[1]
      <4>2. b \in Byte
        BY <2>3, FirstElement
      <4> HIDE DEF b
      <4>3. Request(b) # 0 /\ b.place = 1 /\ b.length <= QueueCapacity
        BY <4>1 DEF Begins, b
      <4>4. b \in Sent
        BY <4>2, <4>3 DEF Request, Byte
      <4>5. Len(receiveQueue) = b.place - 1 /\ \A i \in 1 .. b.place - 1 : receiveQueue[i] = At(b, i)
        BY <4>1, <4>3
      <4>6. bytes[1] = b
        BY DEF b
      <4>7. Done(b.request)' \/ InProgress(b.request)'
        BY <1>1, <2>1, <2>3, <4>3, <4>4, <4>5, <4>6, TakeRun
      <4> QED
        BY <4>1, <4>6, <4>7
    <3> QED
      BY <1>1, <3>2, <3>3, <3>4 DEF CleanInv
  <2> QED
    BY <1>1, <1>6, <2>2, <2>3, ReadFacts
<1> QED
  BY <1>3, <1>4, <1>5, <1>6, ReceiveSteps

\* At first nothing is on the wire, in the buffer or in the queue.
LEMMA ReceiveInit == Init => ReceiveInv
<1> SUFFICES ASSUME Init
             PROVE  ReceiveInv
  OBVIOUS
<1>1. /\ link \in Links /\ wire = <<>> /\ armed = FALSE /\ receiveQueue = <<>>
      /\ receiveBuffer = [i \in 1 .. PacketSize |-> Nul]
      /\ asked = 0 /\ executed = <<>> /\ clean = {}
  BY DEF Init, InitReceive
<1>2. /\ PacketSize \in Nat /\ PacketSize > 0 /\ QueueCapacity \in Nat /\ QueueCapacity > 0
      /\ MaxRequests \in Nat /\ Nul \in Byte
  BY ReceiveFacts DEF Byte
<1>3. receiveBuffer \in [1 .. PacketSize -> Byte] /\ receiveBuffer[1] = Nul
  BY <1>1, <1>2
<1>4. Len(wire) = 0 /\ Len(receiveQueue) = 0 /\ Len(executed) = 0
  BY <1>1
<1>5. ReceiveTypeOK
  <2>1. Len(receiveQueue) < QueueCapacity /\ \A i \in 1 .. Len(receiveQueue) : receiveQueue[i] # Nul
    BY <1>2, <1>4
  <2>2. asked \in 0 .. MaxRequests /\ clean \subseteq 1 .. asked /\ armed \in BOOLEAN
    <3>1. 0 \in 0 .. MaxRequests
      BY <1>2
    <3> QED
      BY <1>1, <3>1
  <2> QED
    BY <1>1, <2>1, <2>2, Zenon DEF ReceiveTypeOK
<1>6. ReadTypes
  BY <1>1, <1>3 DEF ReadTypes
<1>7. Queued = 0 /\ Buffered = 0 /\ Requests!Latest = 0
  BY <1>1, <1>3, <1>6, OpensFacts DEF Queued, Buffered, Requests!Latest
<1>8. YoungerInv
  BY <1>1, <1>4, <1>7 DEF YoungerInv
<1>9. ~Loaded
  BY <1>3 DEF Loaded
<1>10. PacketInv /\ StreamInv
  BY <1>4 DEF PacketInv, StreamInv
<1>11. BufferInv /\ CleanInv
  BY <1>1, <1>3, <1>9 DEF BufferInv, CleanInv
<1> QED
  BY <1>5, <1>6, <1>8, <1>10, <1>11 DEF ReceiveInv

\* Every step keeps the invariant of the receiving side.
LEMMA ReceiveNext == ReceiveInv /\ [Next]_vars => ReceiveInv'
  BY ReceiveTypeStep, YoungerStep, WireStep, BufferStep, CleanStep DEF ReceiveInv

\* The inductive invariant of the receiving side holds.
THEOREM RequestInvariant == Spec => []ReceiveInv
  BY ReceiveInit, ReceiveNext, PTL DEF Spec

\* A request that is not longer than the queue and comes into an empty one is executed by
\* the time that all of it has been read (buffers.c, usbutil.c, pic32/usbutil.cpp).
THEOREM CleanRequestsExecuted == Spec => []CleanRequestExecuted
<1>1. ReceiveInv => CleanRequestExecuted
  <2> SUFFICES ASSUME ReceiveInv, NEW r \in clean, link # "ethernet", ReadWhole(r)
               PROVE  Done(r)
    BY DEF CleanRequestExecuted, Done
  <2>1. ReadTypes /\ CleanInv
    BY DEF ReceiveInv
  <2>2. ASSUME InProgress(r)
        PROVE  FALSE
    <3>1. PICK b \in Sent : b.request = r /\ NextByte(b)
      BY <2>2 DEF InProgress
    <3>2. b.request \in Nat /\ ~(b.request > r)
      BY <3>1, SentFacts
    <3>3. ~Loaded
      BY DEF ReadWhole, Loaded
    <3> DEFINE S == IF link \in Usb THEN Seq(Sent) ELSE Sent
    <3>4. wire \in Seq(S) /\ wire # <<>>
      BY <2>1, <3>1, <3>3 DEF ReadTypes, NextByte
    <3> HIDE DEF S
    <3>5. 1 \in 1 .. Len(wire)
      BY <3>4, FirstElement
    <3>6. IF link \in Usb THEN wire[1] # <<>> => wire[1][1].request > r
                          ELSE wire[1].request > r
      BY <3>5 DEF ReadWhole
    <3> QED
      BY <3>1, <3>2, <3>3, <3>6 DEF NextByte
  <2> QED
    BY <2>1, <2>2 DEF CleanInv
<1> QED
  BY <1>1, RequestInvariant, PTL

\* What a step executes is younger than all that were executed, and was asked for.
LEMMA ExecuteStep ==
  ASSUME ReceiveInv, [Next]_vars
  PROVE  \/ executed' = executed /\ (asked' = asked \/ asked' > asked)
         \/ /\ asked' = asked
            /\ \E n \in Nat : Requests!Latest < n /\ n <= asked /\ executed' = Append(executed, n)
<1>1. ReceiveTypeOK /\ ReadTypes /\ YoungerInv /\ PacketInv /\ BufferInv
  BY DEF ReceiveInv
<1>2. CASE UNCHANGED receiveVars
  BY <1>2 DEF receiveVars
<1>3. CASE HostAsks
  <2>1. executed' = executed /\ asked' = asked + 1 /\ asked \in Nat
    BY <1>1, <1>3, ReceiveFacts DEF HostAsks, ReceiveTypeOK
  <2> QED
    BY <2>1
<1>4. CASE PacketArrives
  BY <1>4 DEF PacketArrives
<1>5. CASE ReadStep
  <2>1. link' = link /\ asked' = asked
    BY <1>1, <1>5, ReadFacts
  <2>2. CASE NothingLoaded
    BY <2>1, <2>2 DEF NothingLoaded
  <2>3. ASSUME NEW bytes \in Seq(Byte), bytes # <<>>, Take(bytes), ReadsFrom(bytes)
        PROVE  \/ executed' = executed
               \/ \E n \in Nat : /\ Requests!Latest < n /\ n <= asked
                                 /\ executed' = Append(executed, n)
    <3> DEFINE front == IF receiveQueue = <<>> THEN Opens(bytes[1]) ELSE Queued
    <3>1. /\ executed' = executed \/ (front # 0 /\ executed' = Append(executed, front))
          /\ front \in Nat
      BY <1>1, <2>3, TakeFacts, OpensFacts
    <3>2. Opens(bytes[1]) = Buffered \/ (Opens(bytes[1]) = Coming(1) /\ 1 \in 1 .. Len(wire))
      <4>1. \/ Opens(bytes[1]) = Buffered
            \/ Opens(bytes[1]) = Coming(1) /\ Len(wire) > 0
        BY <1>1, <2>1, <2>3, FromFacts
      <4>2. Len(wire) \in Nat
        BY <1>1 DEF ReadTypes
      <4>3. Len(wire) > 0 => 1 \in 1 .. Len(wire)
        BY <4>2
      <4> QED
        BY <4>1, <4>3
    <3>3. front = Queued \/ front = Buffered \/ (front = Coming(1) /\ 1 \in 1 .. Len(wire))
      BY <3>2
    <3> HIDE DEF front
    <3>4. front # 0 => Requests!Latest < front /\ front <= asked
      BY <1>1, <3>3 DEF YoungerInv
    <3> QED
      BY <3>1, <3>4
  <2> QED
    BY <1>1, <1>5, <2>1, <2>2, <2>3, ReadFacts
<1> QED
  BY <1>2, <1>3, <1>4, <1>5, ReceiveSteps

\* The path of the requests, through packets, buffers and a queue that is cleared, is a
\* channel that may only lose: none is executed twice or after a younger one.
THEOREM RequestsAtMostOnce == Spec => RequestsLostAtMost
<1>1. Init => Requests!LossyInit
  BY DEF Init, InitReceive, Requests!LossyInit
<1>2. ReceiveInv /\ [Next]_vars => [Requests!LossyNext]_(Requests!lossyVars)
  <2> SUFFICES ASSUME ReceiveInv, [Next]_vars
               PROVE  Requests!Offer \/ Requests!Deliver \/ UNCHANGED Requests!lossyVars
    BY DEF Requests!LossyNext
  <2>1. CASE executed' = executed /\ asked' = asked
    BY <2>1 DEF Requests!lossyVars
  <2>2. CASE executed' = executed /\ asked' > asked
    BY <2>2 DEF Requests!Offer
  <2>3. ASSUME asked' = asked, NEW n \in Nat, Requests!Latest < n, n <= asked,
               executed' = Append(executed, n)
        PROVE  Requests!Deliver
    <3>1. /\ executed \in Seq(Nat) /\ Len(executed) \in Nat /\ Requests!Latest \in Nat
          /\ asked \in Nat
      <4>1. ReadTypes /\ asked \in 0 .. MaxRequests
        BY DEF ReceiveInv, ReceiveTypeOK
      <4>2. executed \in Seq(Nat)
        BY <4>1 DEF ReadTypes
      <4> QED
        BY <4>1, <4>2, LatestRequest, ReceiveFacts
    <3>2. /\ executed' \in Seq(Nat) /\ Len(executed') = Len(executed) + 1
          /\ executed'[Len(executed) + 1] = n
          /\ \A i \in 1 .. Len(executed) : executed'[i] = executed[i]
      BY <2>3, <3>1
    <3>3. Requests!IsStrictPrefix(executed, executed')
      BY <3>1, <3>2 DEF Requests!IsStrictPrefix, Requests!IsPrefix
    <3>4. \A i \in Len(executed) + 1 .. Len(executed') : i = Len(executed) + 1
      BY <3>1, <3>2
    <3>5. n \in Requests!Latest + 1 .. asked
      BY <2>3, <3>1
    <3>6. \A i \in Len(executed) + 1 .. Len(executed') :
             executed'[i] \in Requests!Latest + 1 .. asked
      BY <3>2, <3>4, <3>5
    <3>7. \A i, j \in Len(executed) + 1 .. Len(executed') : i < j => executed'[i] < executed'[j]
      BY <3>1, <3>4
    <3> QED
      BY <2>3, <3>3, <3>6, <3>7 DEF Requests!Deliver
  <2> QED
    BY <2>1, <2>2, <2>3, ExecuteStep
<1> QED
  BY <1>1, <1>2, RequestInvariant, PTL DEF Spec, RequestsLostAtMost, Requests!LossySpec

\* Where the main loop may be.
AtPc == pc \in {"read", "send"}

\* The queues stay within their bounds on both sides.
THEOREM LinkTypeCorrect == Spec => []TypeOK
<1>1. ReceiveInv => ReceiveTypeOK
  BY DEF ReceiveInv
<1>2. SendInv => SendTypeOK
  BY DEF SendInv
<1>3. Init => AtPc
  BY DEF Init, AtPc
<1>4. AtPc /\ [Next]_vars => AtPc'
  BY DEF AtPc, Next, vars, LoopStep, Read, NothingToRead, Send, HostStep, Outgoing, UsbEvent
<1>5. Spec => []AtPc
  BY <1>3, <1>4, PTL DEF Spec
<1>6. ReceiveTypeOK /\ SendTypeOK /\ AtPc => TypeOK
  BY DEF TypeOK, AtPc
<1> QED
  BY <1>1, <1>2, <1>5, <1>6, RequestInvariant, SendInvariant, PTL
=============================================================================
