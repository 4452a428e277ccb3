----------------------------- MODULE SignalFilter -----------------------------
(***************************************************************************)
(* Which of the values of a CAN signal are sent on, and as what:           *)
(* preTranslate, a handler and postTranslate (src/src/canread.cpp), the    *)
(* handlers of shared_handlers.cpp, those that keep totals and those that  *)
(* look at a second signal among them, and the cell counters of            *)
(* handlers.cpp.                                                           *)
(*                                                                         *)
(* A signal's filter has two settings, sendFrequency and sendSame.  Here   *)
(* they and the handler are chosen by Init and never change, so that one   *)
(* run checks every combination.  What is sent may still be dropped by the *)
(* listener.  A boolean is 0 or 1, a state the value that has its name.    *)
(* The units of the totals are left out: each factor is 1.                 *)
(***************************************************************************)
EXTENDS Integers

CONSTANTS Value,        \* the values of a signal
          MaxValue,     \* signal->maxValue, where a rolling counter wraps
          Stated,       \* those that stateHandler finds a state for
          NoValue,      \* nothing sent yet
          Absent,       \* a signal that the vehicle does not have
          Frequencies,  \* the settings of sendFrequency
          IntMax,       \* the largest int, the type of sendClock (2^31 - 1)
          Packs, Cells, \* the cell counters: packs (3) of cells (63)
          SendAfter,    \* SEND_AFTER_X_MSGS (20)
          MaxReceived   \* bound on the messages a behavior counts

Zero == 0  \* what zeroed memory holds

ASSUME FilterAssumption == /\ MaxValue \in Nat
                           /\ Value \subseteq 0 .. MaxValue /\ Zero \in Value
                           /\ Stated \subseteq Value
                           /\ NoValue \notin Int
                           /\ IntMax \in Nat \ {0}
                           /\ Frequencies \subseteq 0 .. IntMax
                           /\ {Packs, Cells, MaxReceived} \subseteq Nat
                           /\ SendAfter \in Nat \ {0, 1}

VARIABLES sendFrequency, sendSame,  \* the settings
          handler,                  \* which handler the signal or message has
          received,                 \* signal->received
          lastValue,                \* signal->lastValue
          sendClock,                \* signal->sendClock
          other,                    \* total_odometer or steering_wheel_angle_sign
          total,                    \* the accumulator of the handler, since the restart
          totalOdometerAtRestart,
          cellMsgCount,             \* the table of handleCellBroadcast, as it is in memory
          count,                    \* history: messages received
          sends,                    \* history: messages handed to the listener
          lastSent,                 \* history: the last value handed to the listener
          wraps,                    \* history: how often the counter has wrapped
          cells                     \* history: of each cell, messages received and sent

settings == <<sendFrequency, sendSame, handler>>

signalVars == <<received, lastValue, sendClock>>

totalVars == <<total, totalOdometerAtRestart, wraps>>

cellVars == <<cellMsgCount, cells>>

sentVars == <<sends, lastSent>>

vars == <<settings, signalVars, other, totalVars, cellVars, count, sentVars>>

Truths == {"boolean", "strictBoolean", "lights"}

Distances == {"odometer", "wheel"}

Totals == Distances \cup {"fuel"}

Translated == {"passthrough", "inverted", "ignore", "state", "angle"} \cup Truths \cup Totals

Filtered == Translated \cup {"tire"}  \* by preTranslate

Handler == Translated \cup {"tire", "door", "button", "occupancy", "cell"}

Looking == Distances \cup {"angle"}  \* at the other signal

Cell == (1 .. Packs) \X (1 .. Cells)

-----------------------------------------------------------------------------
Init == /\ sendFrequency \in Frequencies
        /\ sendSame \in BOOLEAN
        /\ handler \in Handler
        /\ received = FALSE
        /\ lastValue = Zero
        /\ sendClock = 0
        /\ \/ other = Absent
           \/ handler \in Looking /\ other = [received |-> FALSE, lastValue |-> Zero]
        /\ total = 0 /\ totalOdometerAtRestart = 0
        /\ cellMsgCount = [i \in 1 .. Packs * Cells |-> 0]
        /\ count = 0 /\ sends = 0 /\ lastSent = NoValue /\ wraps = 0
        /\ cells = [cell \in Cell |-> [received |-> 0, sent |-> 0]]

Receive == count < MaxReceived /\ count' = count + 1

-----------------------------------------------------------------------------
(* The filter.                                                              *)

\* Mutant: the clock goes one step too far.
DueLate == ~received \/ sendClock = sendFrequency

\* The signal's turn has come: the first message, or the last of a round.
Due == ~received \/ sendClock = sendFrequency - 1

\* Mutant: the first value is compared with a last one that never was.
NewsUnlessSame(value) == sendSame \/ value # lastValue

News(value) == sendSame \/ ~received \/ value # lastValue

\* ++sendClock, in two's complement.
Tick == IF sendClock = IntMax THEN -IntMax - 1 ELSE sendClock + 1

preTranslate(value) == /\ received' = (received \/ (Due /\ News(value)))
                       /\ sendClock' = IF Due THEN 0 ELSE Tick

\* Mutant: the last value is not kept.
postTranslateLost(value) == UNCHANGED lastValue

postTranslate(value) == lastValue' = value

-----------------------------------------------------------------------------
(* The handlers of values.                                                  *)

lookupSignalState(value) == value \in Stated

\* A value without a state is turned away; each of the states has a name.
stateHandler(value) == lookupSignalState(value)

\* send is still set after the handler.
Handled(value) == /\ handler # "ignore"
                  /\ handler = "state" => stateHandler(value)
                  /\ handler = "angle" => other # Absent

booleanHandler(value) == IF value = 0 THEN 0 ELSE 1

handleStrictBoolean(value) == IF value # 0 THEN 1 ELSE 0

handleInverted(value) == -value

handleExteriorLightSwitch(value) == IF value \in {2, 3} THEN 1 ELSE 0

\* The sign is the last value of a signal of its own, zero until it is received.
handleUnsignedSteeringWheelAngle(value) ==
    IF other # Absent /\ other.lastValue = 0 THEN -value ELSE value

\* What the handlers without a total return.
Processed(value) == CASE handler = "inverted" -> handleInverted(value)
                      [] handler = "lights" -> handleExteriorLightSwitch(value)
                      [] handler = "angle" -> handleUnsignedSteeringWheelAngle(value)
                      [] handler = "strictBoolean" -> handleStrictBoolean(value)
                      [] handler \in {"boolean", "door"} -> booleanHandler(value)
                      [] OTHER -> value

\* Mutant: a counter that wraps is not told from one that runs back.
IncreaseNoWrap(value) == value - lastValue

\* Since the last message, of a counter that wraps at maxValue.
Increase(value) == IF value < lastValue THEN MaxValue - lastValue + value
                                        ELSE value - lastValue

\* The baseline is taken once, when the vehicle's own odometer is known.
firstReceivedOdometerValue ==
    IF totalOdometerAtRestart = 0 /\ other # Absent /\ other.received
    THEN other.lastValue ELSE totalOdometerAtRestart

\* Mutant: a total counts only what the filter lets through.
AddToTotalWhenSent(value) ==
    /\ total' = IF Due /\ News(value) THEN total + Increase(value) ELSE total
    /\ wraps' = IF value < lastValue THEN wraps + 1 ELSE wraps

AddToTotal(value) == /\ total' = total + Increase(value)
                     /\ wraps' = IF value < lastValue THEN wraps + 1 ELSE wraps

handleRollingOdometer(value) == /\ handler = "odometer"
                                /\ AddToTotal(value)
                                /\ totalOdometerAtRestart' = firstReceivedOdometerValue

handleMultisizeWheelRotationCount(value) ==
    /\ handler = "wheel"
    /\ AddToTotal(value)
    /\ totalOdometerAtRestart' = firstReceivedOdometerValue

handleFuelFlow(value) == /\ handler = "fuel"
                         /\ AddToTotal(value)
                         /\ UNCHANGED totalOdometerAtRestart

CallHandler(value) == \/ handleRollingOdometer(value)
                      \/ handleMultisizeWheelRotationCount(value)
                      \/ handleFuelFlow(value)
                      \/ handler \notin Totals /\ UNCHANGED totalVars

-----------------------------------------------------------------------------
\* The listener gets the message; it may still drop it (see Listener).
sendJSON(value) == sends' = sends + 1 /\ lastSent' = value

SendWhen(send, value) == IF send THEN sendJSON(value) ELSE UNCHANGED sentVars

translateCanSignal(value) ==
    /\ handler \in Translated
    /\ Receive
    /\ preTranslate(value)
    /\ CallHandler(value)
    /\ SendWhen(Due /\ News(value) /\ Handled(value),
                IF handler \in Totals THEN totalOdometerAtRestart' + total' ELSE Processed(value))
    /\ postTranslate(value)
    /\ UNCHANGED <<settings, other, cellVars>>

\* The other signal, in a message of its own or before or after this one in the same.
\* An odometer does not run back.
translateOther(value) ==
    /\ handler \in Looking /\ other # Absent
    /\ handler \in Distances => value >= other.lastValue
    /\ other' = [received |-> TRUE, lastValue |-> value]
    /\ UNCHANGED <<settings, signalVars, totalVars, cellVars, count, sentVars>>

\* The pressure is the event of a message about one tire.
sendTirePressure(value) ==
    /\ handler = "tire"
    /\ Receive
    /\ preTranslate(value)
    /\ SendWhen(Due /\ News(value), value)
    /\ postTranslate(value)
    /\ UNCHANGED <<settings, other, totalVars, cellVars>>

sendDoorStatus(value) ==
    /\ handler = "door"
    /\ Receive
    /\ received' = (received \/ News(value))
    /\ SendWhen(News(value), Processed(value))
    /\ postTranslate(value)
    /\ UNCHANGED <<settings, sendClock, other, totalVars, cellVars>>

\* A message handler that filters nothing and keeps nothing.
SendStateless(send, value) == /\ Receive
                              /\ SendWhen(send, value)
                              /\ UNCHANGED <<settings, signalVars, other, totalVars, cellVars>>

\* Type and state of a button must both have a name.
handleButtonEventMessage(type, state) ==
    handler = "button" /\ SendStateless(stateHandler(type) /\ stateHandler(state), type)

\* 0 for empty, 1 for a child, 2 for an adult.
sendOccupancyStatus(lower, upper) ==
    /\ handler = "occupancy"
    /\ SendStateless(TRUE, IF lower = 0 THEN 0 ELSE 1 + booleanHandler(upper))

-----------------------------------------------------------------------------
(* The cells of a battery.                                                  *)

\* Mutant: a row of the table is one cell too short.
IndexShort(packId, cellId) == (packId - 1) * (Cells - 1) + cellId

Index(packId, cellId) == (packId - 1) * Cells + cellId

handleCellBroadcast(packId, cellId) ==
    LET i    == Index(packId, cellId)
        next == cellMsgCount[i] + 1
        turn == cellMsgCount[i] = 0 \/ next >= SendAfter
    IN  /\ handler = "cell"
        /\ Receive
        /\ IF packId > Packs \/ cellId > Cells THEN UNCHANGED <<cellVars, sentVars>>
           ELSE /\ cellMsgCount' = [cellMsgCount EXCEPT ![i] = IF turn THEN 1 ELSE next]
                /\ cells' = [cells EXCEPT ![<<packId, cellId>>] =
                                 [received |-> @.received + 1,
                                  sent |-> IF turn THEN @.sent + 1 ELSE @.sent]]
                /\ SendWhen(turn, cellId)
        /\ UNCHANGED <<settings, signalVars, other, totalVars>>

-----------------------------------------------------------------------------
Next == \/ \E value \in Value : translateCanSignal(value)
        \/ \E value \in Value : translateOther(value)
        \/ \E value \in Value : sendTirePressure(value)
        \/ \E value \in Value : sendDoorStatus(value)
        \/ \E type, state \in Value : handleButtonEventMessage(type, state)
        \/ \E lower, upper \in Value : sendOccupancyStatus(lower, upper)
        \/ \E packId \in 1 .. Packs + 1, cellId \in 1 .. Cells + 1 :
               handleCellBroadcast(packId, cellId)

Spec == Init /\ [][Next]_vars

-----------------------------------------------------------------------------
TypeOK == /\ sendFrequency \in Frequencies
          /\ sendSame \in BOOLEAN
          /\ handler \in Handler
          /\ received \in BOOLEAN
          /\ lastValue \in Value
          /\ sendClock \in -IntMax - 1 .. IntMax
          /\ sendFrequency > 0 => sendClock \in 0 .. sendFrequency - 1
          /\ other \in [received : BOOLEAN, lastValue : Value] \cup {Absent}
          /\ total \in Nat /\ totalOdometerAtRestart \in Value
          /\ cellMsgCount \in [1 .. Packs * Cells -> 0 .. SendAfter - 1]
          /\ count \in 0 .. MaxReceived
          /\ sends \in 0 .. MaxReceived
          /\ lastSent \in Int \cup {NoValue}
          /\ wraps \in 0 .. MaxReceived
          /\ cells \in [Cell -> [received : 0 .. MaxReceived, sent : 0 .. MaxReceived]]

\* "A value of 10 means that only 1/10 messages (i.e. every 10th message) is
\* processed" (docs/definitions/mappings.rst:103-108): of the messages of a signal
\* that is re-sent without change, the first is sent, and then every
\* sendFrequency-th, whatever the handler, unless it turns values away.
EveryNthSent ==
    handler \in Filtered \ {"state", "ignore", "angle"} /\ sendSame /\ sendFrequency > 0 =>
        sends = (count + sendFrequency - 1) \div sendFrequency

\* "A signal to be sent only if the value has actually changed"
\* (docs/definitions/mappings.rst:113-116): a signal that is sent on change loses no
\* change, the first value included.  So the last value handed to the listener is
\* always the last that was received, if that has a name.  It takes a frequency of
\* one: sendDoorStatus does not look at it.  The handlers left out return something
\* that changes without the value: a new sign, or a baseline, is not sent by itself.
NoChangeMissed ==
    /\ handler = "door" \/ (handler \in Filtered /\ sendFrequency = 1)
    /\ handler \notin Looking \cup {"fuel", "ignore"}
    /\ count > 0
    => \/ lastSent = Processed(lastValue)
       \/ handler = "state" /\ lastValue \notin Stated

\* The same words, the other way round: the host is not told the same value of a
\* change-only signal twice in a row, although the filter never compares with what
\* was sent, only with what was received.  The one exception: the raw value went from
\* one that means true, or false, to another (canread.cpp:74-77).
NeverTwiceInARow ==
    [][/\ ~sendSame
       /\ handler = "door" \/ (handler \in Filtered /\ sendFrequency = 1)
       /\ handler \notin Looking \cup {"fuel", "state"}
       => \/ UNCHANGED sends
          \/ lastSent' # lastSent
          \/ Processed(lastValue) = Processed(lastValue') /\ lastValue # lastValue']_vars

\* What the code keeps of a rolling counter (handleRollingOdometer, shared_handlers.cpp:
\* 96-101): the value the counter shows now, and maxValue for each time it wrapped; no
\* message is added twice or left out, also of those the filter does not send.  It is
\* not the distance since the car was started: the first reading is added whole, as the
\* last value it is compared with is zero, and a wrap is a unit short.
TotalsKept == handler \in Totals => total = lastValue + MaxValue * wraps

\* The total that hosts see never runs back, although the counter does at each wrap and
\* the baseline comes from another signal, at any time.
TotalNeverRunsBack ==
    [][lastSent # NoValue /\ handler \in Totals => lastSent' >= lastSent]_vars

\* Each cell's first message is sent and then every one that makes its count reach
\* SendAfter, the count starting at one ("SEND_AFTER_X_MSGS", handlers.cpp:36), whatever
\* the other cells of the table and those beyond its edges send.
CellsCountedApart ==
    \A cell \in Cell : cells[cell].sent =
                           (cells[cell].received + SendAfter - 2) \div (SendAfter - 1)

\* "To process every value, set this to 0" (canutil.h:94-95; signals.cpp.example:85,
\* "set to 0 to process every message").
EveryValueProcessed ==
    sendFrequency = 0 /\ sendSame /\ handler = "passthrough" => sends = count
=============================================================================
