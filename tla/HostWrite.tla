------------------------------- MODULE HostWrite -------------------------------
(***************************************************************************)
(* From a host's write request to a frame on a CAN bus: the dispatch of    *)
(* receiveWriteRequest (src/src/cantranslator.cpp), the lookups of         *)
(* canutil.cpp, the writers and encodeCanSignal of canwrite.cpp, the       *)
(* send queue of each bus and sendCanMessage.  All of it runs in the main  *)
(* loop.  The module gives the actions; VinRequest puts them in order.     *)
(*                                                                         *)
(* A request is a record with the fields its JSON object has.  A JSON      *)
(* value has a type, and a number or a string if that is its type.         *)
(***************************************************************************)
EXTENDS BitField, SequencesExt

CONSTANTS Vehicles,       \* records of a table of signals and a set of commands
          Boards,         \* the builds
          Requests,       \* what hosts ask for
          BusCount,       \* getCanBusCount()
          QueueCapacity,  \* of a bus's send queue (16 in canutil.h)
          MaxRequests     \* bound on the requests

ASSUME WriteAssumption == /\ Boards \subseteq {"LPC17xx", "PIC32"}
                          /\ BusCount \in Nat \ {0}
                          /\ QueueCapacity \in Nat
                          /\ MaxRequests \in Nat

\* A field lies within a frame, and its raw value within the numbers of BitField.  The
\* code's factor is the float nearest to factor / scale: 0.125 is 1 / 8, 0.1 is 1 / 10.
\* Offsets are whole.  A signal with a writer of its own names one of those below.
\* States may share a name.
ASSUME VehicleAssumption ==
    \A v \in Vehicles : \A i \in 1 .. Len(v.signals) :
        LET signal == v.signals[i]
        IN  /\ signal.writeHandler \in {"NULL", "booleanWriter", "numberWriter", "stateWriter"}
            /\ signal.bitPosition \in Nat /\ signal.bitSize \in 1 .. 63
            /\ signal.bitPosition + signal.bitSize <= 64
            /\ signal.factor \in Nat \ {0} /\ signal.scale \in Nat \ {0}
            /\ signal.offset \in Int
            /\ signal.twosComplement \in BOOLEAN
            /\ signal.twosComplement => signal.bitSize < 31
            /\ \A j \in 1 .. Len(signal.states) : signal.states[j].value \in Int

VARIABLES vehicle,    \* getSignals() and getCommands(): constant tables
          board,      \* the build
          sendQueue,  \* of each bus
          requests,   \* history: how many there were
          frames      \* history: of each bus, what the last drain put on the wire

writeVars == <<vehicle, board, sendQueue, requests, frames>>

Bus == 1 .. BusCount

\* A missing field, and what it stands for in a record.
Missing == [type |-> "missing"]

InitWrite == /\ vehicle \in Vehicles
             /\ board \in Boards
             /\ sendQueue = [b \in Bus |-> <<>>]
             /\ requests = 0
             /\ frames = [b \in Bus |-> {}]

-----------------------------------------------------------------------------
(* Lookups: the index of the first match, 0 if there is none.               *)

signalComparator(name, signal) == signal.name = name

writableSignalComparator(name, signal) == signalComparator(name, signal) /\ signal.writable

lookupSignal(name) == SelectInSeq(vehicle.signals, LAMBDA s : signalComparator(name, s))

lookupWritableSignal(name) ==
    SelectInSeq(vehicle.signals, LAMBDA s : writableSignalComparator(name, s))

lookupCommand(name) == name \in vehicle.commands

lookupSignalState(name, signal) == SelectInSeq(signal.states, LAMBDA s : s.name = name)

-----------------------------------------------------------------------------
(* Encoding, with numbers in units of 1 / scale, in which all are whole.     *)

Difference(signal, value) == (value - signal.offset) * signal.scale

\* The quotient with half a unit added and cut: the nearest, the greater one of two.
NearestRaw(signal, value) ==
    (2 * Difference(signal, value) + signal.factor) \div (2 * signal.factor)

Magnitude(signal, value) == LET Abs(n) == IF n < 0 THEN -n ELSE n
                            IN  (Abs(value) + Abs(signal.offset)) * signal.scale

\* Does the code's float arithmetic cut at the same raw value as exact arithmetic?  Each
\* float operation is off by up to 2^-24 of its result.  With magnitudes below 2^20 that
\* adds up to less than a quarter of 1 / factor, while a quotient that is not half-way
\* between two raw values is at least half of 1 / factor away from there.  Half-way it
\* is never if factor is odd, and exact if scale is a power of two.  Below the offset no
\* half is added before the cut, so that whole quotients must be exact.
Exact(signal, value) == /\ Magnitude(signal, value) < 2 ^ 20
                        /\ \/ \E k \in 0 .. 20 : signal.scale = 2 ^ k
                           \/ signal.factor % 2 = 1 /\ value >= signal.offset

\* Otherwise the errors, of value and offset too, add up to less than this.
Near(n, signal, value) ==
    LET slack == IF Exact(signal, value) THEN 0
                 ELSE 1 + (Magnitude(signal, value) \div signal.factor) \div 2 ^ 21
    IN  n - slack .. n + slack

\* The cast of the raw value to an unsigned word rounds positive values to the nearest,
\* as half a unit was added, and the rest towards zero.  The cast of -1 or less is
\* undefined: it yields zero, or the two's complement.
RawWords(signal, value) ==
    LET truncated == -((-Difference(signal, value)) \div signal.factor)
    IN  IF Difference(signal, value) > 0
        THEN {Word(n) : n \in Near(NearestRaw(signal, value), signal, value) \cap Nat}
        ELSE {Word(0)} \cup {Word(n) : n \in {m \in Near(truncated, signal, value) : m < 0}}

encodeCanSignal(signal, value) ==
    {setBitField({}, raw, signal.bitPosition, signal.bitSize) : raw \in RawWords(signal, value)}

\* The value, in units of 1 / scale.
decodeCanSignal(signal, data) ==
    LET raw == getBitField(data, signal.bitPosition, signal.bitSize)
    IN  (IF signal.twosComplement THEN Signed(getTwosComplement(raw, signal.bitSize))
                                  ELSE Unsigned(raw)) * signal.factor
            + signal.offset * signal.scale

\* What hosts are told of a message that is passed through: the bytes as they are in
\* memory, two hexadecimal digits each; strtoull reads them back as one number.
passthroughCanMessage(id, data) ==
    [id |-> id,
     data |-> [type |-> "string",
               word |-> UNION {ShiftLeft(MemoryByte(data, i), 8 * (7 - i)) : i \in 0 .. 7}]]

\* cJSON keeps a number in valuedouble, which is zero for every other type.
valuedouble(value) == IF value.type = "number" THEN value.number ELSE 0

\* A number is whole here, and the data of a raw write a string that strtoull reads.
ASSUME RequestAssumption ==
    \A request \in Requests :
        /\ "name" \in DOMAIN request => valuedouble(request.value) \in Int
        /\ "id" \in DOMAIN request /\ request.data # Missing =>
               request.data \in [type : {"string"}, word : SUBSET WordBits]

\* What a writer returns: whether to send, and each word it may have made.
Encoded(signal, value) == [send : {signal.writable}, data : encodeCanSignal(signal, value)]

booleanWriter(signal, value) == Encoded(signal, IF value.type = "true" THEN 1 ELSE 0)

numberWriter(signal, value) == Encoded(signal, valuedouble(value))

\* The value of a state by its name; nothing is sent without one.
stateWriter(signal, value) ==
    LET state == IF value.type = "string" THEN lookupSignalState(value.string, signal) ELSE 0
    IN  IF state # 0 THEN Encoded(signal, signal.states[state].value)
                     ELSE {[send |-> FALSE, data |-> {}]}

Writer(signal) == IF signal.writeHandler # "NULL" THEN signal.writeHandler
                  ELSE IF signal.states # <<>> THEN "stateWriter" ELSE "numberWriter"

Written(signal, value, writer) == CASE writer = "booleanWriter" -> booleanWriter(signal, value)
                                    [] writer = "numberWriter"  -> numberWriter(signal, value)
                                    [] writer = "stateWriter"   -> stateWriter(signal, value)

-----------------------------------------------------------------------------
(* The send queue.                                                          *)

\* Mutant: one message too many fits.
HasRoomOffByOne(queue) == Len(queue) <= QueueCapacity

HasRoom(queue) == Len(queue) < QueueCapacity

\* The result of QUEUE_PUSH is not looked at.  "by" is history: what was asked.
enqueueCanMessage(bus, id, data, by) ==
    sendQueue' = IF HasRoom(sendQueue[bus])
                 THEN [sendQueue EXCEPT ![bus] =
                           Append(@, [id |-> id, data |-> Swapped(data), by |-> by])]
                 ELSE sendQueue

\* Mutant: the writer's refusal is not looked at.
sendCanSignalAlways(index, value, writer, force) ==
    LET signal == vehicle.signals[index]
    IN  \E outcome \in Written(signal, value, writer) :
            enqueueCanMessage(signal.bus, signal.id, outcome.data,
                              [signal |-> index, value |-> value, writer |-> writer,
                               force |-> force])

sendCanSignal(index, value, writer, force) ==
    LET signal == vehicle.signals[index]
    IN  \E outcome \in Written(signal, value, writer) :
            IF force \/ outcome.send
            THEN enqueueCanMessage(signal.bus, signal.id, outcome.data,
                                   [signal |-> index, value |-> value, writer |-> writer,
                                    force |-> force])
            ELSE UNCHANGED sendQueue

-----------------------------------------------------------------------------
(* The dispatch.                                                            *)

\* The bus is always the first, and no list of permitted ids is consulted.
receiveRawWriteRequest(request) ==
    IF request.data = Missing THEN UNCHANGED sendQueue
    ELSE enqueueCanMessage(1, request.id, request.data.word,
                           [signal |-> 0, value |-> request.data])

\* Each direction has a signal, which need not be writable.
handleTurnSignalCommand(value) ==
    LET index == CASE value.string = "left"  -> lookupSignal("turn_signal_left")
                   [] value.string = "right" -> lookupSignal("turn_signal_right")
                   [] OTHER                  -> 0
    IN  IF index # 0 THEN sendCanSignal(index, [type |-> "true"], "booleanWriter", TRUE)
                     ELSE UNCHANGED sendQueue

\* A command is handed its value whether there is one or not; requests for commands
\* have a string here, as the handler takes for granted.
receiveTranslatedWriteRequest(request) ==
    LET index == lookupWritableSignal(request.name)
    IN  CASE index # 0 /\ request.value = Missing -> UNCHANGED sendQueue
          [] index # 0 /\ request.value # Missing ->
                 sendCanSignal(index, request.value, Writer(vehicle.signals[index]), FALSE)
          [] index = 0 /\ lookupCommand(request.name) ->
                 handleTurnSignalCommand(request.value)
          [] index = 0 /\ ~lookupCommand(request.name) -> UNCHANGED sendQueue

\* A request with neither name nor id is malformed.
receiveWriteRequest(request) ==
    /\ requests < MaxRequests
    /\ requests' = requests + 1
    /\ CASE "name" \in DOMAIN request -> receiveTranslatedWriteRequest(request)
         [] DOMAIN request \cap {"name", "id"} = {"id"} -> receiveRawWriteRequest(request)
         [] DOMAIN request \cap {"name", "id"} = {} -> UNCHANGED sendQueue
    /\ UNCHANGED <<vehicle, board, frames>>

-----------------------------------------------------------------------------
\* The frame the controller sends for a message of the queue.
sendCanMessage(message) == [id |-> message.id, by |-> message.by,
                            bytes |-> copyToMessageBuffer(message.data, board)]

\* processCanWriteQueue for each bus: the queue is emptied; a message that the
\* controller refuses, one not in "accepted", is logged and not tried again.
processCanWriteQueue(accepted) ==
    /\ sendQueue' = [b \in Bus |-> <<>>]
    /\ frames' = [b \in Bus |-> {sendCanMessage(sendQueue[b][i]) : i \in accepted[b]}]
    /\ UNCHANGED <<vehicle, board, requests>>

Acceptable == {accepted \in [Bus -> SUBSET (1 .. QueueCapacity)] :
                  \A b \in Bus : accepted[b] \subseteq 1 .. Len(sendQueue[b])}

-----------------------------------------------------------------------------
(* What the frames are compared with.                                       *)

\* The number the requested value stands for; of several states of a name, the first.
Intended(by) ==
    LET signal == vehicle.signals[by.signal]
    IN  CASE by.writer = "booleanWriter" -> IF by.value.type = "true" THEN 1 ELSE 0
          [] by.writer = "numberWriter"  -> valuedouble(by.value)
          [] by.writer = "stateWriter"   ->
                 signal.states[CHOOSE i \in 1 .. Len(signal.states) :
                                   /\ signal.states[i].name = by.value.string
                                   /\ \A j \in 1 .. i - 1 :
                                         signal.states[j].name # by.value.string].value

\* The raw value nearest to it.
Nearest(by) == NearestRaw(vehicle.signals[by.signal], Intended(by))

\* The signal can hold it, and the code's floats tell it from its neighbours.
Representable(by) ==
    LET signal == vehicle.signals[by.signal]
        width  == IF signal.twosComplement THEN signal.bitSize - 1 ELSE signal.bitSize
    IN  /\ Intended(by) >= signal.offset
        /\ Exact(signal, Intended(by))
        /\ width > 30 \/ Nearest(by) < 2 ^ width

OnBus == UNION {frames[b] : b \in Bus}

\* The bit layout of bitfield.h:18-30, on the wire: the bits of a signal's raw value,
\* most significant first, start at its position, whatever the board, and the rest of
\* the frame is zero.  A raw write's data goes out first byte first.
OnTheWire ==
    \A frame \in OnBus :
        IF frame.by.signal = 0
        THEN OnWire(frame.bytes) = {63 - b : b \in frame.by.value.word}
        ELSE LET signal == vehicle.signals[frame.by.signal]
             IN  Representable(frame.by) =>
                     OnWire(frame.bytes) = {signal.bitPosition + signal.bitSize - 1 - b :
                                               b \in Word(Nearest(frame.by))}

\* A unit that receives the frame and decodes the signal gets the requested value back,
\* to within half a unit of the signal's factor ("round up to avoid losing precision",
\* canwrite.cpp:108), if it is one that floats tell from its neighbours; the decoding in
\* floats then errs by less than what is left to half a unit.  One that passes a raw
\* write through tells its hosts what was asked for.  The write path numbers bits from
\* the top of a word and the read path from the first byte in memory, which is what
\* getBitField does (it swaps only if bigEndian(), bitfield.c:41), though bitfield.h:30
\* and the tests number its bits like the write path's; the swap of enqueueCanMessage
\* joins the two.
DecodedAsWritten ==
    \A frame \in OnBus :
        LET data == receiveCanMessage(frame.bytes)
        IN  IF frame.by.signal = 0
            THEN passthroughCanMessage(frame.id, data) = [id |-> frame.id, data |-> frame.by.value]
            ELSE LET signal == vehicle.signals[frame.by.signal]
                     error  == decodeCanSignal(signal, data) - Intended(frame.by) * signal.scale
                 IN  Representable(frame.by) => 2 * error \in -signal.factor .. signal.factor

\* "writable - True if the signal is allowed to be written from the USB host back to
\* CAN" (canutil.h:101-102): a frame on the bus that is not a raw write is for a
\* writable signal, whichever table entry, writer or part of the program asked for it,
\* unless it comes from a command, which may force it.
WritePermission ==
    \A frame \in OnBus :
        \/ frame.by.signal = 0
        \/ frame.by.force
        \/ vehicle.signals[frame.by.signal].writable

QueuesBounded == \A b \in Bus : Len(sendQueue[b]) <= QueueCapacity
=============================================================================
