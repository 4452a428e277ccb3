--------------------------- MODULE Listener_proofs ---------------------------
(***************************************************************************)
(* Proofs about the listener and the queues of its interfaces, for every   *)
(* set of messages, their sizes, the interfaces of the build and the       *)
(* capacities of queues and buffers.                                       *)
(***************************************************************************)
EXTENDS Listener, SequenceLemmas, TLAPS

-----------------------------------------------------------------------------
(* The inductive invariant.                                                 *)

\* A call is not counted before it ends.
CallInv == message # NoMessage => offers < MaxMessages

\* What the test of conditionalEnqueue buys: until the last push the queue has room
\* for the rest of the frame, whatever the interrupt takes out of it meanwhile.
RoomInv == pushed # 0 =>
              Len(sendQueue[turn]) + FrameLength(message) - pushed < QueueCapacity

\* Interface i has answered the message sendMessage is busy with.
Answered(i) == /\ message # NoMessage
               /\ \/ turn = i /\ pushed # 0
                  \/ i = "USB" /\ turn # "USB"
                  \/ i = "UART" /\ turn = "ETHERNET"

\* Messages that interface i has been offered so far.
Offered(i) == IF Answered(i) THEN offers + 1 ELSE offers

\* A fitted interface has answered each of them; USB, while no host has configured
\* it, answers none.
AnswerInv == \A i \in Interface :
                /\ accepts[i] + refusals[i] <= Offered(i)
                /\ i \in Fitted \ {"USB"} => accepts[i] + refusals[i] = Offered(i)

StartsFrame(b) == b[2] = 1

EndsFrame(b) == b[2] = FrameLength(b[1])

\* The USB queue is emptied as a whole and never during a call, so it starts with the
\* start of a frame, and ends with the end of one unless a frame is being pushed.
UsbInv == LET q == sendQueue["USB"]
          IN  /\ q # <<>> => StartsFrame(q[1])
              /\ turn = "USB" /\ pushed > 1 => q # <<>>
              /\ q # <<>> /\ ~(turn = "USB" /\ pushed > 1) => EndsFrame(q[Len(q)])

ListenerInv == /\ TypeOK /\ CallInv /\ RoomInv /\ AnswerInv /\ UsbInv
               /\ WholeFrames /\ WholeTransfers

-----------------------------------------------------------------------------
(* Types.                                                                   *)

IsLog(f) == f \in [Interface -> Seq(Byte)]

IsQueue(f) == IsLog(f) /\ \A i \in Interface : Len(f[i]) <= QueueCapacity

\* The conjuncts of TypeOK, by what changes together.
QueueTypes == IsQueue(sendQueue) /\ IsLog(owed) /\ IsLog(left) /\ transfer \in Seq(Byte)
CallTypes  == /\ configured \in BOOLEAN
              /\ message \in Message \cup {NoMessage}
              /\ turn \in Interface
              /\ pushed \in Nat
              /\ pushed # 0 => message # NoMessage /\ pushed <= FrameLength(message)
              /\ offers \in 0 .. MaxMessages
CountTypes == /\ droppedMessages \in [Interface -> 0 .. LogThreshold]
              /\ accepts \in [Interface -> 0 .. MaxMessages]
              /\ refusals \in [Interface -> 0 .. MaxMessages]

\* The groups make up the type invariant.
LEMMA TypeParts == TypeOK <=> QueueTypes /\ CallTypes /\ CountTypes
  BY DEF TypeOK, QueueTypes, CallTypes, CountTypes, IsQueue, IsLog

\* A frame is a sequence of bytes, at least the CR and the LF, in their places.
LEMMA FrameType ==
  ASSUME NEW m \in Message
  PROVE  /\ FrameLength(m) \in Nat /\ FrameLength(m) >= 2
         /\ Frame(m) \in Seq(Byte)
         /\ Len(Frame(m)) = FrameLength(m)
         /\ \A k \in 1 .. FrameLength(m) : Frame(m)[k] = <<m, k>> /\ <<m, k>> \in Byte
<1>1. FrameLength(m) \in Nat /\ FrameLength(m) >= 2
  BY ListenerAssumption DEF FrameLength
<1>2. \A k \in 1 .. FrameLength(m) : Frame(m)[k] = <<m, k>> /\ <<m, k>> \in Byte
  BY DEF Frame, Byte
<1>3. Frame(m) \in [1 .. FrameLength(m) -> Byte]
  BY <1>2 DEF Frame
<1>4. Frame(m) \in Seq(Byte) /\ Len(Frame(m)) = FrameLength(m)
  BY <1>1, <1>3
<1> QED
  BY <1>1, <1>2, <1>4

\* Replacing one interface's queue by one that fits keeps all of them in their bounds.
LEMMA ReplaceQueue ==
  ASSUME NEW f, IsQueue(f), NEW i \in Interface, NEW q \in Seq(Byte), Len(q) <= QueueCapacity
  PROVE  IsQueue([f EXCEPT ![i] = q])
  BY DEF IsQueue, IsLog

\* The log of one interface may be replaced by any log.
LEMMA ReplaceLog ==
  ASSUME NEW f, IsLog(f), NEW i \in Interface, NEW q \in Seq(Byte)
  PROVE  IsLog([f EXCEPT ![i] = q])
  BY DEF IsLog

-----------------------------------------------------------------------------
(* What the steps do to a queue.                                            *)

\* A push finds room: it appends the byte in its place.
LEMMA PushAppends ==
  ASSUME TypeOK, RoomInv, PushByte
  PROVE  /\ message \in Message /\ pushed \in 1 .. FrameLength(message)
         /\ turn \in Interface
         /\ <<message, pushed>> \in Byte
         /\ Len(sendQueue[turn]) < QueueCapacity
         /\ sendQueue' = [sendQueue EXCEPT ![turn] =
                             Append(sendQueue[turn], <<message, pushed>>)]
         /\ UNCHANGED <<owed, left, transfer, accepts, refusals, configured,
                        droppedMessages>>
<1>1. QueueTypes /\ CallTypes
  BY TypeParts
<1>2. message \in Message /\ pushed \in 1 .. FrameLength(message) /\ turn \in Interface
  BY <1>1, FrameType DEF PushByte, CallTypes
<1>3. Frame(message)[pushed] = <<message, pushed>> /\ <<message, pushed>> \in Byte
  BY <1>2, FrameType
<1>4. Len(sendQueue[turn]) \in Nat
  BY <1>1, <1>2 DEF QueueTypes, IsQueue, IsLog
<1>5. Len(sendQueue[turn]) < QueueCapacity
  BY <1>2, <1>4, FrameType, ListenerAssumption DEF RoomInv
<1>6. Push(sendQueue[turn], Frame(message)[pushed])
        = Append(sendQueue[turn], <<message, pushed>>)
  BY <1>3, <1>5 DEF Push
<1> QED
  BY <1>2, <1>3, <1>5, <1>6 DEF PushByte

\* The other ends take a prefix of a queue; USB's is taken as a whole, between calls.
LEMMA TakesPrefix ==
  ASSUME TypeOK, SerialSend \/ sendToHost \/ EthernetSend
  PROVE  \E i \in Interface : \E front, back \in Seq(Byte) :
            /\ sendQueue[i] = front \o back
            /\ Len(back) <= Len(sendQueue[i])
            /\ sendQueue' = [sendQueue EXCEPT ![i] = back]
            /\ left' = [left EXCEPT ![i] = left[i] \o front]
            /\ IF i = "USB"
               THEN /\ message = NoMessage /\ back = <<>>
                    /\ sendQueue[i] # <<>> /\ transfer' = sendQueue[i]
               ELSE transfer' = transfer
            /\ UNCHANGED <<configured, droppedMessages, message, turn, pushed, owed,
                           offers, accepts, refusals>>
<1>1. \A i \in Interface : /\ sendQueue[i] \in Seq(Byte)
                          /\ Len(sendQueue[i]) \in 0 .. QueueCapacity
  BY ListenerAssumption DEF TypeOK
<1>2. /\ QueueCapacity \in Nat /\ SendBufferSize \in Nat /\ NetworkBufferSize \in Nat
      /\ QueueCapacity <= SendBufferSize
  BY ListenerAssumption
<1>3. ASSUME NEW i \in Interface, NEW n \in 0 .. Len(sendQueue[i])
      PROVE  /\ SubSeq(sendQueue[i], 1, n) \in Seq(Byte)
             /\ SubSeq(sendQueue[i], n + 1, Len(sendQueue[i])) \in Seq(Byte)
             /\ Len(SubSeq(sendQueue[i], n + 1, Len(sendQueue[i]))) <= Len(sendQueue[i])
             /\ sendQueue[i] = SubSeq(sendQueue[i], 1, n)
                                 \o SubSeq(sendQueue[i], n + 1, Len(sendQueue[i]))
  <2> DEFINE q    == sendQueue[i]
             back == SubSeq(q, n + 1, Len(q))
  <2>1. q \in Seq(Byte) /\ Len(q) \in Nat /\ n \in 0 .. Len(q)
    BY <1>1, <1>2
  <2> HIDE DEF q
  <2>2. /\ SubSeq(q, 1, n) \in Seq(Byte) /\ back \in Seq(Byte)
        /\ Len(back) = Len(q) - n /\ q = SubSeq(q, 1, n) \o back
    BY <2>1, CutInTwo
  <2> HIDE DEF back
  <2>3. Len(back) <= Len(q)
    BY <2>1, <2>2
  <2> QED
    BY <2>2, <2>3, Zenon DEF q, back
<1>4. CASE SerialSend
  <2>1. "UART" \in Interface /\ 1 \in 0 .. Len(sendQueue["UART"])
    BY <1>1, <1>4, EmptySeq DEF SerialSend, Interface
  <2>2. /\ sendQueue' = [sendQueue EXCEPT !["UART"] =
                            SubSeq(sendQueue["UART"], 1 + 1, Len(sendQueue["UART"]))]
        /\ left' = [left EXCEPT !["UART"] =
                       left["UART"] \o SubSeq(sendQueue["UART"], 1, 1)]
        /\ UNCHANGED <<configured, droppedMessages, message, turn, pushed, owed, transfer,
                       offers, accepts, refusals>>
    BY <1>4 DEF SerialSend, Take, call
  <2> QED
    BY <1>3, <2>1, <2>2, "UART" # "USB"
<1>5. CASE sendToHost
  <2>1. "USB" \in Interface
    BY DEF Interface
  <2> DEFINE q == sendQueue["USB"]
             n == Len(q)
  <2>2. TransferLength = n /\ n \in 0 .. Len(q)
    BY <1>1, <1>2, <2>1 DEF TransferLength, WhatFits
  <2>3. /\ sendQueue' = [sendQueue EXCEPT !["USB"] = SubSeq(q, n + 1, Len(q))]
        /\ left' = [left EXCEPT !["USB"] = left["USB"] \o SubSeq(q, 1, n)]
        /\ transfer' = SubSeq(q, 1, n)
        /\ message = NoMessage /\ q # <<>>
        /\ UNCHANGED <<configured, droppedMessages, message, turn, pushed, owed,
                       offers, accepts, refusals>>
    BY <1>5, <2>2 DEF sendToHost, Take, call
  <2>4. SubSeq(q, 1, n) = q /\ SubSeq(q, n + 1, Len(q)) = <<>>
    <3>1. q \in Seq(Byte)
      BY <1>1, <2>1
    <3>2. SubSeq(q, n + 1, Len(q)) \in Seq(Byte) /\ Len(SubSeq(q, n + 1, Len(q))) = 0
      BY <2>2, <3>1, CutInTwo
    <3> QED
      BY <3>1, <3>2, SubSeqFull, EmptySeq
  <2> QED
    BY <1>3, <2>1, <2>2, <2>3, <2>4
<1>6. CASE EthernetSend
  <2>1. "ETHERNET" \in Interface
    BY DEF Interface
  <2> DEFINE q == sendQueue["ETHERNET"]
             n == WhatFits("ETHERNET", NetworkBufferSize)
  <2>2. n \in 0 .. Len(q)
    BY <1>1, <1>2, <2>1 DEF WhatFits
  <2>3. /\ sendQueue' = [sendQueue EXCEPT !["ETHERNET"] = SubSeq(q, n + 1, Len(q))]
        /\ left' = [left EXCEPT !["ETHERNET"] = left["ETHERNET"] \o SubSeq(q, 1, n)]
        /\ UNCHANGED <<configured, droppedMessages, message, turn, pushed, owed, transfer,
                       offers, accepts, refusals>>
    BY <1>6 DEF EthernetSend, Take, call
  <2> HIDE DEF n
  <2> QED
    BY <1>3, <2>1, <2>2, <2>3, "ETHERNET" # "USB"
<1> QED
  BY <1>4, <1>5, <1>6
-----------------------------------------------------------------------------
(* The inductive invariant is preserved, part by part.                      *)

\* The steps of a call keep its state in its types, and a call that ends was one of
\* those that may still be counted.
LEMMA CallStep ==
  ASSUME TypeOK, CallInv, [Next]_vars
  PROVE  CallTypes' /\ CallInv'
<1>1. CallTypes
  BY TypeParts
<1>2. ASSUME UNCHANGED <<configured, message, turn, pushed, offers>>
      PROVE  CallTypes' /\ CallInv'
  BY <1>1, <1>2 DEF CallTypes, CallInv
<1>3. ASSUME message # NoMessage, Advance, configured' = configured
      PROVE  CallTypes' /\ CallInv'
  BY <1>1, <1>3, ListenerAssumption DEF Advance, CallTypes, CallInv, Interface
<1>4. ASSUME NEW m \in Message, sendMessage(m)
      PROVE  CallTypes' /\ CallInv'
  BY <1>1, <1>4 DEF sendMessage, history, CallTypes, CallInv, Interface
<1>5. CASE SkipInterface \/ Drop
  BY <1>3, <1>5 DEF SkipInterface, Drop, AfterDrop, AtTest
<1>6. CASE Accept
  <2>1. message \in Message
    BY <1>1, <1>6 DEF Accept, AtTest, CallTypes
  <2>2. 1 <= FrameLength(message)
    BY <2>1, FrameType
  <2> QED
    BY <1>1, <1>6, <2>2 DEF Accept, AtTest, CallTypes, CallInv
<1>7. CASE PushByte
  <2>1. message \in Message /\ configured' = configured /\ message # NoMessage
    BY <1>1, <1>7, ListenerAssumption DEF PushByte, CallTypes
  <2>2. CASE /\ pushed < FrameLength(message) /\ pushed' = pushed + 1
             /\ UNCHANGED <<message, turn, offers>>
    BY <1>1, <2>1, <2>2, FrameType DEF CallTypes, CallInv
  <2> QED
    BY <1>3, <1>7, <2>1, <2>2 DEF PushByte
<1>8. CASE SerialSend \/ sendToHost \/ EthernetSend
  BY <1>2, <1>8, TakesPrefix
<1>9. CASE UsbEvent
  BY <1>1, <1>9 DEF UsbEvent, call, history, CallTypes, CallInv
<1>10. CASE UNCHANGED vars
  BY <1>2, <1>10 DEF vars
<1> QED
  BY <1>4, <1>5, <1>6, <1>7, <1>8, <1>9, <1>10 DEF Next

\* These steps leave the queues and their histories alone.
LEMMA QueueFrame ==
  ASSUME [Next]_vars
  PROVE  \/ UNCHANGED <<sendQueue, owed, left, transfer>>
         \/ Accept \/ PushByte \/ SerialSend \/ sendToHost \/ EthernetSend
  BY DEF Next, sendMessage, SkipInterface, Drop, UsbEvent, vars, history

\* The queues keep their types and their bounds.
LEMMA QueueTypeStep ==
  ASSUME TypeOK, RoomInv, [Next]_vars
  PROVE  QueueTypes'
<1>1. /\ QueueTypes /\ IsQueue(sendQueue) /\ IsLog(owed) /\ IsLog(left)
      /\ transfer \in Seq(Byte)
  BY TypeParts DEF QueueTypes
<1>2. CASE UNCHANGED <<sendQueue, owed, left, transfer>>
  BY <1>1, <1>2 DEF QueueTypes, IsQueue, IsLog
<1>3. CASE Accept
  <2>1. message \in Message /\ turn \in Interface
    BY <1>3, TypeParts DEF Accept, AtTest, CallTypes
  <2>2. owed[turn] \in Seq(Byte) /\ Frame(message) \in Seq(Byte)
    BY <1>1, <2>1, FrameType DEF IsLog
  <2>3. owed[turn] \o Frame(message) \in Seq(Byte)
    BY <2>2
  <2>4. /\ owed' = [owed EXCEPT ![turn] = owed[turn] \o Frame(message)]
        /\ UNCHANGED <<sendQueue, left, transfer>>
    BY <1>3 DEF Accept
  <2> QED
    BY <1>1, <2>1, <2>3, <2>4, ReplaceLog DEF QueueTypes
<1>4. CASE PushByte
  <2>1. /\ turn \in Interface
        /\ sendQueue[turn] \in Seq(Byte) /\ <<message, pushed>> \in Byte
        /\ Len(sendQueue[turn]) < QueueCapacity
        /\ sendQueue' = [sendQueue EXCEPT ![turn] =
                            Append(sendQueue[turn], <<message, pushed>>)]
        /\ UNCHANGED <<owed, left, transfer>>
    BY <1>1, <1>4, PushAppends DEF IsQueue, IsLog
  <2>2. /\ Append(sendQueue[turn], <<message, pushed>>) \in Seq(Byte)
        /\ Len(Append(sendQueue[turn], <<message, pushed>>)) <= QueueCapacity
    BY <2>1, AppendWithRoom, ListenerAssumption
  <2> QED
    BY <1>1, <2>1, <2>2, ReplaceQueue DEF QueueTypes
<1>5. CASE SerialSend \/ sendToHost \/ EthernetSend
  <2>1. PICK i \in Interface, front \in Seq(Byte), back \in Seq(Byte) :
            /\ Len(back) <= Len(sendQueue[i])
            /\ sendQueue' = [sendQueue EXCEPT ![i] = back]
            /\ left' = [left EXCEPT ![i] = left[i] \o front]
            /\ transfer' = sendQueue[i] \/ transfer' = transfer
            /\ owed' = owed
    BY <1>5, TakesPrefix
  <2>2. /\ sendQueue[i] \in Seq(Byte) /\ Len(sendQueue[i]) <= QueueCapacity
        /\ left[i] \in Seq(Byte)
    BY <1>1 DEF IsQueue, IsLog
  <2>3. Len(back) <= QueueCapacity /\ left[i] \o front \in Seq(Byte)
    BY <2>1, <2>2, ListenerAssumption
  <2> QED
    BY <1>1, <2>1, <2>2, <2>3, ReplaceQueue, ReplaceLog DEF QueueTypes
<1> QED
  BY <1>2, <1>3, <1>4, <1>5, QueueFrame

\* The room the test found lasts until the last push: a push uses one byte of it and
\* makes the rest of the frame one byte shorter, and the other end only makes room.
LEMMA RoomStep ==
  ASSUME TypeOK, RoomInv, [Next]_vars
  PROVE  RoomInv'
<1> SUFFICES ASSUME pushed' # 0
             PROVE  Len(sendQueue'[turn']) + FrameLength(message') - pushed' < QueueCapacity
  BY DEF RoomInv, FrameLength
<1>1. \A i \in Interface : sendQueue[i] \in Seq(Byte) /\ Len(sendQueue[i]) \in Nat
  BY DEF TypeOK
<1>2. turn \in Interface /\ pushed \in Nat /\ QueueCapacity \in Nat
      /\ message \in Message \cup {NoMessage}
  BY ListenerAssumption DEF TypeOK
<1>3. ASSUME UNCHANGED <<sendQueue, message, turn, pushed>>
      PROVE  Len(sendQueue'[turn']) + FrameLength(message') - pushed' < QueueCapacity
  BY <1>3 DEF RoomInv
<1>4. ~(\E m \in Message : sendMessage(m)) /\ ~SkipInterface /\ ~Drop
  BY DEF sendMessage, SkipInterface, Drop, AfterDrop, Advance
<1>5. CASE Accept
  <2>1. /\ UNCHANGED <<sendQueue, message, turn>> /\ pushed' = 1
        /\ HasRoom(turn, message) /\ message \in Message
    BY <1>2, <1>5 DEF Accept, AtTest
  <2>2. FrameLength(message) \in Nat /\ FrameLength(message) = Size[message] + 2
    BY <2>1, FrameType DEF FrameLength
  <2>3. QueueCapacity - Len(sendQueue[turn]) >= FrameLength(message)
    BY <2>1, <2>2 DEF HasRoom
  <2> QED
    BY <1>1, <1>2, <2>1, <2>2, <2>3
<1>6. CASE PushByte
  <2>1. /\ sendQueue' = [sendQueue EXCEPT ![turn] =
                            Append(sendQueue[turn], <<message, pushed>>)]
        /\ message \in Message /\ pushed \in 1 .. FrameLength(message)
        /\ <<message, pushed>> \in Byte
    BY <1>6, PushAppends
  <2>2. pushed' = pushed + 1 /\ UNCHANGED <<message, turn>>
    BY <1>6 DEF PushByte, Advance
  <2>3. Len(sendQueue'[turn]) = Len(sendQueue[turn]) + 1
    BY <1>1, <1>2, <2>1 DEF TypeOK
  <2>4. Len(sendQueue[turn]) + FrameLength(message) - pushed < QueueCapacity
    BY <2>1 DEF RoomInv
  <2> QED
    BY <1>1, <1>2, <2>1, <2>2, <2>3, <2>4, FrameType
<1>7. CASE SerialSend \/ sendToHost \/ EthernetSend
  <2>1. PICK i \in Interface, back \in Seq(Byte) :
            /\ Len(back) <= Len(sendQueue[i])
            /\ sendQueue' = [sendQueue EXCEPT ![i] = back]
            /\ UNCHANGED <<message, turn, pushed>>
    BY <1>7, TakesPrefix
  <2>2. Len(sendQueue'[turn]) <= Len(sendQueue[turn]) /\ Len(sendQueue'[turn]) \in Nat
    BY <1>1, <1>2, <2>1 DEF TypeOK
  <2>3. message \in Message
    BY <2>1 DEF TypeOK
  <2>4. FrameLength(message) \in Nat
    BY <2>3, FrameType
  <2>5. Len(sendQueue[turn]) + FrameLength(message) - pushed < QueueCapacity
    BY <2>1 DEF RoomInv
  <2> QED
    BY <1>1, <1>2, <2>1, <2>2, <2>4, <2>5
<1>8. CASE UsbEvent
  BY <1>3, <1>8 DEF UsbEvent, call
<1>9. CASE UNCHANGED vars
  BY <1>3, <1>9 DEF vars
<1> QED
  BY <1>4, <1>5, <1>6, <1>7, <1>8, <1>9 DEF Next

\* Every message is answered by each interface it is offered to, once, whatever the
\* other interfaces did with it.
LEMMA AnswerStep ==
  ASSUME TypeOK, CallInv, AnswerInv, [Next]_vars
  PROVE  CountTypes' /\ AnswerInv'
<1>1. CountTypes /\ CallTypes
  BY TypeParts
<1>2. \A i \in Interface : accepts[i] \in Nat /\ refusals[i] \in Nat
  BY <1>1, ListenerAssumption DEF CountTypes
<1>3. offers \in Nat /\ LogThreshold \in Nat /\ MaxMessages \in Nat
  BY <1>1, ListenerAssumption DEF CallTypes
<1>4. ASSUME AnswerInv', accepts' \in [Interface -> Nat], refusals' \in [Interface -> Nat],
             droppedMessages' \in [Interface -> 0 .. LogThreshold]
      PROVE  CountTypes'
  <2>1. CallTypes' /\ CallInv'
    BY CallStep
  <2>2. ASSUME NEW i \in Interface
        PROVE  accepts'[i] \in 0 .. MaxMessages /\ refusals'[i] \in 0 .. MaxMessages
    <3>1. Offered(i)' \in Nat /\ Offered(i)' <= MaxMessages
      <4>1. /\ offers' \in Nat /\ offers' <= MaxMessages
            /\ message' # NoMessage => offers' < MaxMessages
        BY <1>3, <2>1 DEF CallTypes, CallInv
      <4>2. \/ Offered(i)' = offers'
            \/ Offered(i)' = offers' + 1 /\ message' # NoMessage
        BY DEF Offered, Answered
      <4> QED
        BY <1>3, <4>1, <4>2
    <3>2. accepts'[i] + refusals'[i] <= Offered(i)'
      BY <1>4 DEF AnswerInv
    <3> QED
      BY <1>3, <1>4, <3>1, <3>2
  <2>3. /\ accepts' \in [Interface -> 0 .. MaxMessages]
        /\ refusals' \in [Interface -> 0 .. MaxMessages]
    BY <1>4, <2>2
  <2> QED
    BY <1>4, <2>3 DEF CountTypes
<1>5. ASSUME UNCHANGED <<accepts, refusals, droppedMessages>>,
             \A i \in Interface : Offered(i)' = Offered(i)
      PROVE  CountTypes' /\ AnswerInv'
  BY <1>1, <1>5 DEF CountTypes, AnswerInv
<1>6. CASE \E m \in Message : sendMessage(m)
  BY <1>5, <1>6, ListenerAssumption DEF sendMessage, history, Offered, Answered
<1>7. CASE SkipInterface
  <2>1. /\ message # NoMessage /\ pushed = 0 /\ turn \in Interface
        /\ ~Attached(turn) /\ Advance
        /\ UNCHANGED <<accepts, refusals, droppedMessages>>
    BY <1>1, <1>7 DEF SkipInterface, AtTest, CallTypes
  <2>2. turn \notin Fitted \ {"USB"}
    BY <2>1 DEF Attached
  <2>3. \A i \in Interface : IF i = turn THEN Offered(i)' = Offered(i) + 1
                                        ELSE Offered(i)' = Offered(i)
    BY <1>3, <2>1 DEF Advance, Offered, Answered, Interface
  <2>4. AnswerInv'
    BY <1>2, <1>3, <2>1, <2>2, <2>3 DEF AnswerInv, Offered
  <2> QED
    BY <1>1, <2>1, <2>4 DEF CountTypes
<1>8. CASE Accept
  <2>1. /\ message # NoMessage /\ pushed = 0 /\ turn \in Interface /\ pushed' = 1
        /\ accepts' = [accepts EXCEPT ![turn] = accepts[turn] + 1]
        /\ UNCHANGED <<message, turn, offers, refusals, droppedMessages>>
    BY <1>1, <1>8 DEF Accept, AtTest, CallTypes
  <2>2. \A i \in Interface : IF i = turn THEN Offered(i)' = Offered(i) + 1
                                        ELSE Offered(i)' = Offered(i)
    BY <1>3, <2>1 DEF Offered, Answered, Interface
  <2>3. accepts' \in [Interface -> Nat] /\ refusals' \in [Interface -> Nat]
    BY <1>1, <1>2, <2>1 DEF CountTypes
  <2>4. \A i \in Interface : accepts'[i] = IF i = turn THEN accepts[i] + 1 ELSE accepts[i]
    BY <1>1, <2>1 DEF CountTypes
  <2>5. Offered(turn) \in Nat
    BY <1>3 DEF Offered
  <2>6. AnswerInv'
    BY <1>2, <1>3, <2>1, <2>2, <2>4 DEF AnswerInv, Offered
  <2> QED
    BY <1>1, <1>4, <2>1, <2>3, <2>6 DEF CountTypes
<1>9. CASE Drop
  <2>1. /\ message # NoMessage /\ pushed = 0 /\ turn \in Interface /\ Advance
        /\ refusals' = [refusals EXCEPT ![turn] = refusals[turn] + 1]
        /\ accepts' = accepts
        /\ droppedMessages' = [droppedMessages EXCEPT ![turn] =
              IF droppedMessages[turn] + 1 > LogThreshold THEN 0
              ELSE droppedMessages[turn] + 1]
    BY <1>1, <1>9 DEF Drop, AfterDrop, AtTest, CallTypes, droppedMessage
  <2>2. \A i \in Interface : IF i = turn THEN Offered(i)' = Offered(i) + 1
                                        ELSE Offered(i)' = Offered(i)
    BY <1>3, <2>1 DEF Advance, Offered, Answered, Interface
  <2>3. accepts' \in [Interface -> Nat] /\ refusals' \in [Interface -> Nat]
    BY <1>1, <1>2, <2>1 DEF CountTypes
  <2>4. \A i \in Interface : refusals'[i] = IF i = turn THEN refusals[i] + 1 ELSE refusals[i]
    BY <1>1, <2>1 DEF CountTypes
  <2>5. droppedMessages' \in [Interface -> 0 .. LogThreshold]
    BY <1>1, <1>3, <2>1 DEF CountTypes
  <2>6. AnswerInv'
    BY <1>2, <1>3, <2>1, <2>2, <2>4 DEF AnswerInv, Offered
  <2> QED
    BY <1>4, <2>3, <2>5, <2>6
<1>10. CASE PushByte
  <2>1. /\ pushed # 0 /\ message # NoMessage /\ turn \in Interface /\ pushed \in Nat
        /\ UNCHANGED <<accepts, refusals, droppedMessages>>
    BY <1>1, <1>10 DEF PushByte, CallTypes
  <2>2. \A i \in Interface : Offered(i)' = Offered(i)
    <3>1. CASE pushed' = pushed + 1 /\ UNCHANGED <<message, turn, offers>>
      BY <2>1, <3>1 DEF Offered, Answered
    <3>2. CASE Advance
      BY <1>3, <2>1, <3>2 DEF Advance, Offered, Answered, Interface
    <3> QED
      BY <1>10, <3>1, <3>2 DEF PushByte
  <2> QED
    BY <1>5, <2>1, <2>2
<1>11. CASE SerialSend \/ sendToHost \/ EthernetSend
  BY <1>5, <1>11, TakesPrefix DEF Offered, Answered
<1>12. CASE UsbEvent
  BY <1>5, <1>12 DEF UsbEvent, call, history, Offered, Answered
<1>13. CASE UNCHANGED vars
  BY <1>5, <1>13 DEF vars, Offered, Answered
<1> QED
  BY <1>6, <1>7, <1>8, <1>9, <1>10, <1>11, <1>12, <1>13 DEF Next
-----------------------------------------------------------------------------
(* The stream of each interface.                                            *)

\* What is still to be pushed begins with the byte pushed next.
LEMMA StillToPushSteps ==
  ASSUME NEW m \in Message, NEW k \in 1 .. FrameLength(m)
  PROVE  LET rest == SubSeq(Frame(m), k, FrameLength(m))
         IN  /\ rest \in Seq(Byte) /\ rest # <<>>
             /\ Head(rest) = <<m, k>>
             /\ Tail(rest) = SubSeq(Frame(m), k + 1, FrameLength(m))
<1> DEFINE f == Frame(m)
           n == FrameLength(m)
           rest == SubSeq(f, k, n)
           next == SubSeq(f, k + 1, n)
<1>1. f \in Seq(Byte) /\ Len(f) = n /\ n \in Nat /\ f[k] = <<m, k>>
  BY FrameType
<1> HIDE DEF f, n
<1>2. /\ rest \in Seq(Byte) /\ Len(rest) = n - k + 1
      /\ \A i \in 1 .. n - k + 1 : rest[i] = f[k + i - 1]
  BY <1>1, k \in 1 .. n DEF n
<1>3. /\ next \in Seq(Byte) /\ Len(next) = n - k
      /\ \A i \in 1 .. n - k : next[i] = f[k + 1 + i - 1]
  BY <1>1, k \in 1 .. n DEF n
<1> HIDE DEF rest, next
<1>4. rest # <<>> /\ Head(rest) = <<m, k>>
  <2>1. k \in 1 .. n
    BY DEF n
  <2>2. Len(rest) # 0 /\ rest[1] = f[k]
    BY <1>1, <1>2, <2>1
  <2> QED
    BY <1>1, <1>2, <2>2, EmptySeq
<1>5. Tail(rest) = next
  <2>1. /\ Tail(rest) \in Seq(Byte) /\ Len(Tail(rest)) = n - k
        /\ \A i \in 1 .. n - k : Tail(rest)[i] = rest[i + 1]
    BY <1>1, <1>2, <1>4
  <2>2. ASSUME NEW i \in 1 .. n - k
        PROVE  Tail(rest)[i] = next[i]
    <3>1. k \in Nat /\ i + 1 \in 1 .. n - k + 1
      BY <1>1, k \in 1 .. n DEF n
    <3>2. rest[i + 1] = f[k + (i + 1) - 1]
      BY <1>2, <3>1
    <3>3. k + (i + 1) - 1 = k + 1 + i - 1
      BY <3>1
    <3> QED
      BY <1>3, <2>1, <3>2, <3>3
  <2> QED
    BY <1>3, <2>1, <2>2, SeqEqual
<1> QED
  BY <1>2, <1>4, <1>5 DEF rest, next, f, n
\* What is still to be pushed after a step within the same message.
LEMMA LaterStillToPush ==
  ASSUME NEW i \in Interface, message' = message, turn' = i, pushed' # 0
  PROVE  StillToPush(i)' = SubSeq(Frame(message), pushed', FrameLength(message))
<1>1. Frame(message)' = Frame(message) /\ FrameLength(message)' = FrameLength(message)
  BY DEF Frame, FrameLength
<1>2. StillToPush(i)' = SubSeq(Frame(message)', pushed', FrameLength(message)')
  BY DEF StillToPush
<1> QED
  BY <1>1, <1>2

\* No step loses, repeats or reorders a byte of a stream, or cuts a frame: what the
\* interface still is to get is counted with it from the test on.
LEMMA FramesStep ==
  ASSUME TypeOK, RoomInv, WholeFrames, [Next]_vars
  PROVE  WholeFrames'
<1> SUFFICES ASSUME NEW i \in Interface
             PROVE  owed'[i] = left'[i] \o sendQueue'[i] \o StillToPush(i)'
  BY DEF WholeFrames
<1>1. /\ IsLog(sendQueue) /\ IsLog(owed) /\ IsLog(left) /\ turn \in Interface
      /\ pushed \in Nat
  BY TypeParts DEF QueueTypes, CallTypes, IsQueue
<1>2. owed[i] \in Seq(Byte) /\ left[i] \in Seq(Byte) /\ sendQueue[i] \in Seq(Byte)
  BY <1>1 DEF IsLog
<1>3. left[i] \o sendQueue[i] \in Seq(Byte)
  BY <1>2
<1>4. owed[i] = left[i] \o sendQueue[i] \o StillToPush(i)
  BY DEF WholeFrames
<1>5. ASSUME UNCHANGED <<sendQueue, owed, left>>, StillToPush(i)' = StillToPush(i)
      PROVE  owed'[i] = left'[i] \o sendQueue'[i] \o StillToPush(i)'
  BY <1>4, <1>5
<1>6. CASE (\E m \in Message : sendMessage(m)) \/ SkipInterface \/ Drop
  <2>1. \/ message = NoMessage
        \/ pushed = 0
    BY <1>6 DEF sendMessage, SkipInterface, Drop, AtTest
  <2>2. pushed = 0
    BY <2>1, TypeParts DEF CallTypes
  <2>3. pushed' = 0 /\ UNCHANGED <<sendQueue, owed, left>>
    BY <1>6 DEF sendMessage, SkipInterface, Drop, AfterDrop, Advance, history
  <2> QED
    BY <1>5, <2>2, <2>3 DEF StillToPush
<1>7. CASE Accept
  <2>1. /\ message \in Message /\ pushed = 0 /\ pushed' = 1
        /\ owed' = [owed EXCEPT ![turn] = owed[turn] \o Frame(message)]
        /\ UNCHANGED <<sendQueue, left, message, turn>>
    BY <1>7, TypeParts DEF Accept, AtTest, CallTypes
  <2>2. StillToPush(i) = <<>>
    BY <2>1 DEF StillToPush
  <2>3. owed[i] = left[i] \o sendQueue[i]
    BY <1>3, <1>4, <2>2, ConcatEmptySeq
  <2>4. CASE i = turn
    <3>1. Frame(message) \in Seq(Byte) /\ Len(Frame(message)) = FrameLength(message)
      BY <2>1, FrameType
    <3>2. StillToPush(i)' = SubSeq(Frame(message), 1, FrameLength(message))
      <4>1. message' = message /\ turn' = i /\ pushed' = 1
        BY <2>1, <2>4
      <4> QED
        BY <4>1, LaterStillToPush
    <3>3. StillToPush(i)' = Frame(message)
      BY <3>1, <3>2, SubSeqFull
    <3>4. owed'[i] = owed[i] \o Frame(message)
      BY <1>1, <2>1, <2>4 DEF IsLog
    <3> QED
      BY <2>1, <2>3, <3>3, <3>4
  <2>5. CASE i # turn
    <3>1. StillToPush(i)' = <<>> /\ owed'[i] = owed[i]
      BY <1>1, <2>1, <2>5 DEF StillToPush, IsLog
    <3> QED
      BY <1>4, <2>1, <2>2, <3>1
  <2> QED
    BY <2>4, <2>5
<1>8. CASE PushByte
  <2>1. /\ message \in Message /\ pushed \in 1 .. FrameLength(message)
        /\ sendQueue' = [sendQueue EXCEPT ![turn] =
                            Append(sendQueue[turn], <<message, pushed>>)]
        /\ <<message, pushed>> \in Byte
        /\ UNCHANGED <<owed, left>>
    BY <1>8, PushAppends
  <2>2. CASE i = turn
    <3> DEFINE rest == SubSeq(Frame(message), pushed, FrameLength(message))
               next == SubSeq(Frame(message), pushed + 1, FrameLength(message))
    <3>1. /\ rest \in Seq(Byte) /\ rest # <<>> /\ Head(rest) = <<message, pushed>>
          /\ Tail(rest) = next
      BY <2>1, StillToPushSteps
    <3>2. StillToPush(i) = rest
      BY <1>8, <2>2 DEF PushByte, StillToPush
    <3>3. StillToPush(i)' = next
      <4>1. CASE /\ pushed < FrameLength(message) /\ pushed' = pushed + 1
                 /\ UNCHANGED <<message, turn>>
        <5>1. message' = message /\ turn' = i /\ pushed' # 0
          BY <1>1, <2>2, <4>1
        <5> QED
          BY <4>1, <5>1, LaterStillToPush
      <4>2. CASE pushed = FrameLength(message) /\ Advance
        <5>1. StillToPush(i)' = <<>>
          BY <4>2 DEF Advance, StillToPush
        <5>2. Len(rest) = 1
          BY <2>1, <4>2, FrameType
        <5> HIDE DEF rest, next
        <5>3. next \in Seq(Byte) /\ Len(next) = 0
          BY <3>1, <5>2, HeadThenTail
        <5> QED
          BY <5>1, <5>3, EmptySeq
      <4> QED
        BY <1>8, <4>1, <4>2 DEF PushByte
    <3>4. sendQueue'[i] = Append(sendQueue[i], <<message, pushed>>)
      BY <1>1, <2>1, <2>2 DEF IsLog
    <3> DEFINE front == left[i] \o sendQueue[i]
               b     == <<message, pushed>>
    <3>5. front \o rest = Append(front, b) \o next
      <4>1. front \in Seq(Byte)
        BY <1>3
      <4> HIDE DEF front, rest, next, b
      <4>2. front \o rest = Append(front, Head(rest)) \o Tail(rest)
        BY <3>1, <4>1, MoveHead
      <4> QED
        BY <3>1, <4>2 DEF b
    <3>6. Append(front, b) = left[i] \o Append(sendQueue[i], b)
      <4> DEFINE p == left[i]
                 q == sendQueue[i]
      <4>1. p \in Seq(Byte) /\ q \in Seq(Byte) /\ b \in Byte
        BY <1>2, <2>1
      <4> HIDE DEF p, q, b
      <4>2. p \o Append(q, b) = Append(p \o q, b)
        BY <4>1, AppendRight
      <4> QED
        BY <4>2 DEF p, q
    <3> HIDE DEF rest, next, front
    <3>7. owed[i] = front \o rest
      BY <1>4, <3>2 DEF front
    <3> QED
      BY <2>1, <3>3, <3>4, <3>5, <3>6, <3>7
  <2>3. CASE i # turn
    <3>1. StillToPush(i) = <<>> /\ sendQueue'[i] = sendQueue[i]
      BY <1>1, <2>1, <2>3 DEF StillToPush, IsLog
    <3>2. StillToPush(i)' = <<>>
      BY <1>8, <2>3 DEF PushByte, Advance, StillToPush
    <3> QED
      BY <1>4, <2>1, <3>1, <3>2
  <2> QED
    BY <2>2, <2>3
<1>9. CASE SerialSend \/ sendToHost \/ EthernetSend
  <2>1. PICK j \in Interface, front \in Seq(Byte), back \in Seq(Byte) :
            /\ sendQueue[j] = front \o back
            /\ sendQueue' = [sendQueue EXCEPT ![j] = back]
            /\ left' = [left EXCEPT ![j] = left[j] \o front]
            /\ UNCHANGED <<message, turn, pushed, owed>>
    BY <1>9, TakesPrefix
  <2>2. StillToPush(i)' = StillToPush(i)
    BY <2>1 DEF StillToPush, Frame, FrameLength
  <2>3. left'[i] \o sendQueue'[i] = left[i] \o sendQueue[i]
    <3>1. CASE i = j
      <4>1. left'[i] = left[i] \o front /\ sendQueue'[i] = back
        BY <1>1, <2>1, <3>1 DEF IsLog
      <4>2. (left[i] \o front) \o back = left[i] \o (front \o back)
        <5> DEFINE p == left[i]
        <5>1. p \in Seq(Byte)
          BY <1>2
        <5> HIDE DEF p
        <5>2. (p \o front) \o back = p \o (front \o back)
          BY <5>1, ConcatAssociative
        <5> QED
          BY <5>2 DEF p
      <4> QED
        BY <2>1, <3>1, <4>1, <4>2
    <3>2. CASE i # j
      BY <1>1, <2>1, <3>2 DEF IsLog
    <3> QED
      BY <3>1, <3>2
  <2> QED
    BY <1>4, <2>1, <2>2, <2>3
<1>10. CASE UsbEvent
  BY <1>5, <1>10 DEF UsbEvent, call, history, StillToPush, Frame, FrameLength
<1>11. CASE UNCHANGED vars
  BY <1>5, <1>11 DEF vars, StillToPush, Frame, FrameLength
<1> QED
  BY <1>6, <1>7, <1>8, <1>9, <1>10, <1>11 DEF Next
\* The USB queue starts and ends with a frame but while one is pushed, and a transfer,
\* which happens between calls, is the whole queue.
LEMMA UsbStep ==
  ASSUME TypeOK, RoomInv, UsbInv, WholeTransfers, [Next]_vars
  PROVE  UsbInv' /\ WholeTransfers'
<1> DEFINE q       == sendQueue["USB"]
           InFrame == turn = "USB" /\ pushed > 1
<1>1. /\ q \in Seq(Byte) /\ IsLog(sendQueue) /\ turn \in Interface /\ pushed \in Nat
      /\ "USB" \in Interface
  BY TypeParts DEF QueueTypes, CallTypes, IsQueue, IsLog, Interface
<1>2. ASSUME q' = q, InFrame' <=> InFrame, transfer' = transfer
      PROVE  UsbInv' /\ WholeTransfers'
  BY <1>2 DEF UsbInv, WholeTransfers, StartsFrame, EndsFrame, FrameLength
<1>3. CASE (\E m \in Message : sendMessage(m)) \/ SkipInterface \/ Drop
  <2>1. \/ message = NoMessage
        \/ pushed = 0
    BY <1>3 DEF sendMessage, SkipInterface, Drop, AtTest
  <2>2. pushed = 0
    BY <2>1, TypeParts DEF CallTypes
  <2>3. pushed' = 0 /\ UNCHANGED <<sendQueue, transfer>>
    BY <1>3 DEF sendMessage, SkipInterface, Drop, AfterDrop, Advance, history
  <2> QED
    BY <1>2, <2>2, <2>3
<1>4. CASE Accept
  BY <1>2, <1>4 DEF Accept, AtTest
<1>5. CASE PushByte
  <2>1. /\ message \in Message /\ pushed \in 1 .. FrameLength(message)
        /\ sendQueue' = [sendQueue EXCEPT ![turn] =
                            Append(sendQueue[turn], <<message, pushed>>)]
        /\ <<message, pushed>> \in Byte
        /\ transfer' = transfer
    BY <1>5, PushAppends
  <2>2. \/ pushed' = pushed + 1 /\ turn' = turn
        \/ pushed = FrameLength(message) /\ pushed' = 0
    BY <1>5 DEF PushByte, Advance
  <2>3. CASE turn = "USB"
    <3>1. q' = Append(q, <<message, pushed>>)
      BY <1>1, <2>1, <2>3 DEF IsLog
    <3> DEFINE n == Len(q) + 1
    <3>2. /\ Len(q) \in Nat /\ Len(q') = n /\ q' # <<>>
          /\ q'[n] = <<message, pushed>>
          /\ \A i \in 1 .. Len(q) : q'[i] = q[i]
      <4>1. \A s \in Seq(Byte), b \in Byte :
               /\ Len(s) \in Nat /\ Len(Append(s, b)) = Len(s) + 1 /\ Append(s, b) # <<>>
               /\ Append(s, b)[Len(s) + 1] = b
               /\ \A i \in 1 .. Len(s) : Append(s, b)[i] = s[i]
        BY AppendProperties
      <4> DEFINE b == <<message, pushed>>
      <4>2. q \in Seq(Byte) /\ b \in Byte /\ q' = Append(q, b)
        BY <1>1, <2>1, <3>1
      <4> HIDE DEF q, b
      <4>3. /\ Len(q) \in Nat /\ Len(Append(q, b)) = Len(q) + 1 /\ Append(q, b) # <<>>
            /\ Append(q, b)[Len(q) + 1] = b
            /\ \A i \in 1 .. Len(q) : Append(q, b)[i] = q[i]
        BY <4>1, <4>2
      <4> QED
        BY <4>2, <4>3 DEF b
    <3>3. StartsFrame(q'[1])
      <4>1. CASE q = <<>>
        <5>1. pushed = 1
          BY <1>1, <2>1, <2>3, <4>1, FrameType DEF UsbInv
        <5>2. n = 1
          BY <4>1
        <5> QED
          BY <3>2, <5>1, <5>2 DEF StartsFrame
      <4>2. CASE q # <<>>
        <5>1. 1 \in 1 .. Len(q)
          BY <1>1, <3>2, <4>2, EmptySeq
        <5> QED
          BY <3>2, <4>2, <5>1 DEF UsbInv, StartsFrame
      <4> QED
        BY <4>1, <4>2
    <3>4. ~InFrame' => EndsFrame(q'[n])
      <4>1. CASE pushed' = pushed + 1 /\ turn' = turn
        BY <1>1, <2>1, <2>3, <4>1, FrameType
      <4>2. CASE pushed = FrameLength(message) /\ pushed' = 0
        BY <3>2, <4>2 DEF EndsFrame
      <4> QED
        BY <2>2, <4>1, <4>2
    <3>5. UsbInv'
      BY <3>2, <3>3, <3>4 DEF UsbInv, StartsFrame, EndsFrame, FrameLength
    <3> QED
      BY <2>1, <3>5 DEF WholeTransfers, EndsFrame, FrameLength
  <2>4. CASE turn # "USB"
    <3>1. q' = q
      BY <1>1, <2>1, <2>4 DEF IsLog
    <3>2. ~InFrame /\ ~InFrame'
      BY <2>2, <2>4
    <3> QED
      BY <1>2, <2>1, <3>1, <3>2
  <2> QED
    BY <2>3, <2>4
<1>6. CASE SerialSend \/ sendToHost \/ EthernetSend
  <2>1. PICK i \in Interface, back \in Seq(Byte) :
            /\ sendQueue' = [sendQueue EXCEPT ![i] = back]
            /\ IF i = "USB"
               THEN /\ message = NoMessage /\ back = <<>>
                    /\ sendQueue[i] # <<>> /\ transfer' = sendQueue[i]
               ELSE transfer' = transfer
            /\ UNCHANGED <<message, turn, pushed>>
    BY <1>6, TakesPrefix
  <2>2. CASE i = "USB"
    <3>1. q' = <<>> /\ q # <<>> /\ transfer' = q /\ pushed = 0 /\ pushed' = 0
      BY <1>1, <2>1, <2>2, TypeParts DEF CallTypes, IsLog
    <3>2. StartsFrame(q[1]) /\ EndsFrame(q[Len(q)])
      BY <3>1 DEF UsbInv
    <3> HIDE DEF q
    <3>3. WholeTransfers'
      BY <3>1, <3>2 DEF WholeTransfers, StartsFrame, EndsFrame, FrameLength
    <3>4. UsbInv'
      BY <3>1 DEF UsbInv, q
    <3> QED
      BY <3>3, <3>4
  <2>3. CASE i # "USB"
    BY <1>1, <1>2, <2>1, <2>3 DEF IsLog
  <2> QED
    BY <2>2, <2>3
<1>7. CASE UsbEvent
  BY <1>2, <1>7 DEF UsbEvent, call, history
<1>8. CASE UNCHANGED vars
  BY <1>2, <1>8 DEF vars
<1> QED
  BY <1>3, <1>4, <1>5, <1>6, <1>7, <1>8 DEF Next

-----------------------------------------------------------------------------
(* The theorems.                                                            *)

\* Boot establishes the inductive invariant.
LEMMA ListenerInit == Init => ListenerInv
<1> SUFFICES ASSUME Init
             PROVE  ListenerInv
  OBVIOUS
<1>1. TypeOK
  <2>1. QueueTypes
    BY ListenerAssumption DEF Init, QueueTypes, IsQueue, IsLog
  <2>2. CallTypes
    <3>1. /\ configured = FALSE /\ message = NoMessage /\ turn = "USB" /\ pushed = 0
          /\ offers = 0
      BY DEF Init
    <3>2. offers \in 0 .. MaxMessages
      BY <3>1, ListenerAssumption
    <3>3. turn \in Interface
      BY <3>1 DEF Interface
    <3> QED
      BY <3>1, <3>2, <3>3 DEF CallTypes
  <2>3. CountTypes
    BY ListenerAssumption DEF Init, CountTypes
  <2> QED
    BY <2>1, <2>2, <2>3, TypeParts
<1>2. CallInv /\ RoomInv /\ UsbInv
  BY DEF Init, CallInv, RoomInv, UsbInv, Interface
<1>3. AnswerInv
  BY DEF Init, AnswerInv, Offered, Answered
<1>4. WholeFrames
  <2>1. \A i \in Interface : /\ owed[i] = <<>> /\ left[i] = <<>> /\ sendQueue[i] = <<>>
                            /\ StillToPush(i) = <<>>
    BY DEF Init, StillToPush
  <2> QED
    BY <2>1, ConcatEmptySeq, EmptySeq DEF WholeFrames
<1>5. WholeTransfers
  BY DEF Init, WholeTransfers
<1> QED
  BY <1>1, <1>2, <1>3, <1>4, <1>5 DEF ListenerInv

\* Every reachable state satisfies the inductive invariant.
THEOREM ListenerInvariant == Spec => []ListenerInv
<1>1. ListenerInv /\ [Next]_vars => ListenerInv'
  <2> SUFFICES ASSUME ListenerInv, [Next]_vars
               PROVE  ListenerInv'
    OBVIOUS
  <2>1. QueueTypes' /\ CallTypes' /\ CountTypes' /\ CallInv' /\ AnswerInv'
    BY QueueTypeStep, CallStep, AnswerStep DEF ListenerInv
  <2>2. TypeOK'
    BY <2>1, TypeParts, PTL
  <2>3. RoomInv' /\ WholeFrames' /\ UsbInv' /\ WholeTransfers'
    BY RoomStep, FramesStep, UsbStep DEF ListenerInv
  <2> QED
    BY <2>1, <2>2, <2>3 DEF ListenerInv
<1> QED
  BY <1>1, ListenerInit, PTL DEF Spec

\* The variables keep their types: no queue outgrows its capacity.
THEOREM ListenerTypeCorrect == Spec => []TypeOK
  BY ListenerInvariant, PTL DEF ListenerInv

\* Every interface's stream is made of whole frames in the order they were accepted.
THEOREM FramesAreWhole == Spec => []WholeFrames
  BY ListenerInvariant, PTL DEF ListenerInv

\* A message one interface drops is still offered to all the others.
THEOREM DropsAreSeparate == Spec => []DroppedForThatInterfaceOnly
<1>1. ListenerInv => DroppedForThatInterfaceOnly
  BY ListenerAssumption
     DEF ListenerInv, AnswerInv, Offered, Answered, DroppedForThatInterfaceOnly
<1> QED
  BY <1>1, ListenerInvariant, PTL

\* A USB transfer starts with the start of a frame and ends with the end of one.
THEOREM TransfersAreWhole == Spec => []WholeTransfers
  BY ListenerInvariant, PTL DEF ListenerInv
=============================================================================
