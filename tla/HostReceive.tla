----------------------------- MODULE HostReceive -----------------------------
(***************************************************************************)
(* How a host's requests come in, except by the LPC17xx's UART (see        *)
(* SerialReceive): readFromHost on both boards, readFromSerial on the      *)
(* PIC32 and readFromSocket (src/src/lpc17xx/usbutil.c, src/src/pic32),    *)
(* and processQueue (src/src/buffers.c).  The module gives the actions;    *)
(* HostLink puts them in the main loop, which alone uses the queue.        *)
(*                                                                         *)
(* A byte is the number of its request, its place in it and the length of  *)
(* the request, or NUL, or some other byte that is part of no request.     *)
(***************************************************************************)
EXTENDS Integers, Sequences

CONSTANTS Links,          \* the kinds of link
          PacketSize,     \* outEndpointSize (64)
          QueueCapacity,  \* of the receive queue (512), a number of whole packets
          Lengths,        \* of requests, in bytes
          MaxRequests,    \* bound on the requests
          Nul, Junk

Usb == {"lpc17xx usb", "pic32 usb"}

ASSUME ReceiveAssumption == /\ Links \subseteq Usb \cup {"pic32 uart", "ethernet"}
                            /\ PacketSize \in Nat \ {0}
                            /\ QueueCapacity \in Nat \ {0} /\ QueueCapacity % PacketSize = 0
                            /\ Lengths \subseteq Nat \ {0}
                            /\ MaxRequests \in Nat

VARIABLES link,           \* the build and the interface
          wire,           \* what the host has sent: packets, or bytes
          receiveBuffer,  \* UsbDevice.receiveBuffer on the PIC32
          armed,          \* the PIC32's OUT endpoint waits for a packet
          receiveQueue,
          asked,          \* history: requests the host has made
          executed,       \* history: requests the callback has found, in order
          clean           \* history: requests that fit and began in an empty queue

receiveVars == <<link, wire, receiveBuffer, armed, receiveQueue, asked, executed, clean>>

InitReceive == /\ link \in Links
               /\ wire = <<>>
               /\ receiveBuffer = [i \in 1 .. PacketSize |-> Nul]
               /\ armed = FALSE
               /\ receiveQueue = <<>>
               /\ asked = 0 /\ executed = <<>> /\ clean = {}

-----------------------------------------------------------------------------
(* The host.                                                                *)

Text(request, length) ==
    [i \in 1 .. length |-> [request |-> request, place |-> i, length |-> length]]

\* A request is text: no byte of it is NUL.
ASSUME TextAssumption ==
    \A request \in 1 .. MaxRequests, length \in Lengths :
        \A i \in 1 .. length : Text(request, length)[i] \notin {Nul, Junk}

Shorter(m, n) == IF m < n THEN m ELSE n

\* On USB a request goes out in packets of its own, the last one short, or empty, if
\* the host ends a whole number of packets so.
Packets(text, ends) ==
    LET packets == [i \in 1 .. (Len(text) + PacketSize - 1) \div PacketSize |->
                       SubSeq(text, (i - 1) * PacketSize + 1, Shorter(i * PacketSize, Len(text)))]
    IN  IF ends /\ Len(text) % PacketSize = 0 THEN Append(packets, <<>>) ELSE packets

HostAsks == /\ asked < MaxRequests
            /\ asked' = asked + 1
            /\ \E length \in Lengths, ends \in BOOLEAN :
                   wire' = wire \o IF link \in Usb THEN Packets(Text(asked', length), ends)
                                                   ELSE Text(asked', length)
            /\ UNCHANGED <<link, receiveBuffer, armed, receiveQueue, executed, clean>>

-----------------------------------------------------------------------------
(* The queue.                                                               *)

\* QUEUE_PUSH of each byte drops it if the queue is full.
Pushed(queue, bytes) == SubSeq(queue \o bytes, 1, Shorter(QueueCapacity, Len(queue \o bytes)))

Request(byte) == IF byte \in {Nul, Junk} THEN 0 ELSE byte.request

\* The first bytes of the queue are the first of one request.
Agrees(queue, n) == /\ Request(queue[1]) # 0
                    /\ \A i \in 1 .. n : queue[i] = [queue[1] EXCEPT !.place = i]

\* cJSON looks no further than the end of the object.  Of a request that has only begun
\* it reads on behind the snapshot, and may find an end there.
receiveWriteRequest(queue) ==
    IF Request(queue[1]) = 0 THEN {FALSE}
    ELSE IF queue[1].length <= Len(queue) THEN {Agrees(queue, queue[1].length)}
    ELSE IF Agrees(queue, Len(queue)) THEN BOOLEAN ELSE {FALSE}

\* Mutant: a queue without room is not cleared.
CorruptedOnly(queue) == \E i \in 1 .. Len(queue) : queue[i] = Nul

Hopeless(queue) == \/ Len(queue) = QueueCapacity
                   \/ \E i \in 1 .. Len(queue) : queue[i] = Nul

\* Mutant: the queue is not emptied when a request was found.
processQueueAgain(queue) ==
    IF queue = <<>> THEN UNCHANGED <<receiveQueue, executed>>
    ELSE \E found \in receiveWriteRequest(queue) :
            /\ executed' = IF found THEN Append(executed, Request(queue[1])) ELSE executed
            /\ receiveQueue' = IF Hopeless(queue) THEN <<>> ELSE queue

processQueue(queue) ==
    IF queue = <<>> THEN UNCHANGED <<receiveQueue, executed>>
    ELSE \E found \in receiveWriteRequest(queue) :
            /\ executed' = IF found THEN Append(executed, Request(queue[1])) ELSE executed
            /\ receiveQueue' = IF found \/ Hopeless(queue) THEN <<>> ELSE queue

\* With this byte a request begins that is not too long for the queue.
Begins(byte) == Request(byte) # 0 /\ byte.place = 1 /\ byte.length <= QueueCapacity

\* The bytes read go to the queue, and the queue to the callback.
Take(bytes) ==
    /\ processQueue(Pushed(receiveQueue, bytes))
    /\ clean' = IF receiveQueue = <<>> /\ bytes # <<>> /\ Begins(bytes[1])
                THEN clean \cup {bytes[1].request} ELSE clean

-----------------------------------------------------------------------------
(* The readers.                                                             *)

\* What the library's buffer holds behind the end of a packet: NULs, junk, or what an
\* earlier packet of any request left there.  Of an empty packet it is no request's first
\* packet, from which the request would be found again.
Leftovers(packet) ==
    LET Kept(request, length, n) ==
            [i \in 1 .. PacketSize |-> IF n * PacketSize + i <= length
                                       THEN Text(request, length)[n * PacketSize + i] ELSE Junk]
    IN  {[i \in 1 .. PacketSize |-> byte] : byte \in {Nul, Junk}}
        \cup IF packet = <<>> THEN {}
             ELSE {Kept(request, length, n) : request \in 1 .. packet[1].request,
                                              length \in Lengths,
                                              n \in 0 .. QueueCapacity \div PacketSize}

\* Mutant: the last byte of a full packet is not read.
EndpointBytesShort(packet, rest) ==
    [i \in 1 .. PacketSize - 1 |-> IF i <= Len(packet) THEN packet[i] ELSE rest[i]]

\* outEndpointSize bytes, whatever came.
EndpointBytes(packet, rest) ==
    [i \in 1 .. PacketSize |-> IF i <= Len(packet) THEN packet[i] ELSE rest[i]]

\* readFromHost on the LPC17xx, one turn of its loop.
readFromEndpoint == /\ link = "lpc17xx usb" /\ wire # <<>>
                    /\ \E rest \in Leftovers(Head(wire)) : Take(EndpointBytes(Head(wire), rest))
                    /\ wire' = Tail(wire)
                    /\ UNCHANGED <<link, receiveBuffer, armed, asked>>

\* The controller fills the buffer behind the program's back; the end of it stays what
\* it was.
PacketArrives == /\ armed /\ wire # <<>>
                 /\ receiveBuffer' = [i \in 1 .. PacketSize |->
                                         IF i <= Len(Head(wire)) THEN Head(wire)[i]
                                                                 ELSE receiveBuffer[i]]
                 /\ armed' = FALSE
                 /\ wire' = Tail(wire)
                 /\ UNCHANGED <<link, receiveQueue, asked, executed, clean>>

armForRead(buffer) == /\ receiveBuffer' = [buffer EXCEPT ![1] = Nul]
                      /\ armed' = TRUE

\* readFromHost on the PIC32.
readFromHost == /\ link = "pic32 usb" /\ ~armed
                /\ IF receiveBuffer[1] # Nul THEN Take(receiveBuffer)
                   ELSE UNCHANGED <<receiveQueue, executed, clean>>
                /\ armForRead(receiveBuffer)
                /\ UNCHANGED <<link, wire, asked>>

\* The first "available" bytes have arrived; those that find the queue full are left.
readFromSerial == /\ link = "pic32 uart" /\ wire # <<>>
                  /\ \E available \in 1 .. Len(wire) :
                        LET n == Shorter(available, QueueCapacity - Len(receiveQueue))
                        IN  /\ Take(SubSeq(wire, 1, n))
                            /\ wire' = SubSeq(wire, n + 1, Len(wire))
                  /\ UNCHANGED <<link, receiveBuffer, armed, asked>>

\* A byte of eight bits never equals the -1 that ends the loop: after the bytes that are
\* there it pushes 0xFF until the queue is full, and then reads one byte more.
readFromSocket == /\ link = "ethernet" /\ wire # <<>>
                  /\ \E available \in 1 .. Len(wire) :
                        LET room == QueueCapacity - Len(receiveQueue)
                        IN  /\ Take([i \in 1 .. room |-> IF i <= available THEN wire[i] ELSE Junk])
                            /\ wire' = SubSeq(wire, Shorter(available, room + 1) + 1, Len(wire))
                  /\ UNCHANGED <<link, receiveBuffer, armed, asked>>

ReadStep == readFromEndpoint \/ readFromHost \/ readFromSerial \/ readFromSocket

-----------------------------------------------------------------------------
ReceiveTypeOK == /\ link \in Links
                 /\ Len(receiveQueue) < QueueCapacity
                 /\ \A i \in 1 .. Len(receiveQueue) : receiveQueue[i] # Nul
                 /\ armed \in BOOLEAN
                 /\ asked \in 0 .. MaxRequests
                 /\ clean \subseteq 1 .. asked

Requests == INSTANCE LossyChannel WITH offered <- asked, delivered <- executed

\* No request is executed twice or after a younger one, although its bytes stay in
\* receive buffers and queues, are read again and are mixed with those of the next:
\* the requests pass a channel that may only lose.
RequestsLostAtMost == Requests!LossySpec

\* All of a request has been read.
ReadWhole(request) ==
    /\ request <= asked
    /\ \A i \in 1 .. Len(wire) :
          IF link \in Usb THEN wire[i] # <<>> => wire[i][1].request > request
                          ELSE wire[i].request > request
    /\ link = "pic32 usb" => armed \/ receiveBuffer[1] = Nul

\* A request that is not longer than the queue and comes into an empty one is executed,
\* in however many packets or pieces it comes: neither the bytes behind the end of a
\* packet nor the clearing of the queue touch it.  A socket is the exception, where only
\* what is there at once is kept.
CleanRequestExecuted ==
    \A request \in clean :
        link # "ethernet" /\ ReadWhole(request) =>
            \E i \in 1 .. Len(executed) : executed[i] = request
=============================================================================
