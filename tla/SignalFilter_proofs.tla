-------------------------- MODULE SignalFilter_proofs --------------------------
(***************************************************************************)
(* Proofs about the filter of a signal, the totals and the cell counters,  *)
(* for every set of values, every sendFrequency that an int holds, every   *)
(* size of the battery and every number of messages.                       *)
(***************************************************************************)
EXTENDS SignalFilter, TLAPS

-----------------------------------------------------------------------------
(* The inductive invariant.                                                 *)

\* Nothing is counted more often than messages arrive.
CountInv == /\ sends <= count /\ wraps <= count
            /\ \A cell \in Cell : /\ cells[cell].sent <= cells[cell].received
                                  /\ cells[cell].received <= count

\* The first message of a signal passes the filter, whatever its settings: until then
\* nothing has been sent, and nothing is left over from before it.
FirstInv == /\ count = 0 => ~received /\ sendClock = 0 /\ sends = 0 /\ lastSent = NoValue
            /\ handler \in Filtered \cup {"door"} /\ count > 0 => received

\* A signal that is re-sent without change, and whose handler turns no value away.
Regular == /\ handler \in Filtered \ {"state", "ignore", "angle"}
           /\ sendSame /\ sendFrequency > 0

\* Its messages are whole rounds of sendFrequency, one sent in each, and the part of
\* the current round that the clock shows.
RoundInv == Regular /\ count > 0 =>
               /\ sends > 0
               /\ count = sendFrequency * (sends - 1) + sendClock + 1

\* The totals have grown by what the counter has moved, and no total was ever sent that
\* is above the present one.
TotalInv == /\ TotalsKept
            /\ handler \in Totals /\ lastSent # NoValue =>
                  lastSent <= totalOdometerAtRestart + total

\* The entry of a cell in the table counts the messages since the last that was sent.
CellInv == \A packId \in 1 .. Packs, cellId \in 1 .. Cells :
              LET entry == cellMsgCount[Index(packId, cellId)]
                  cell  == cells[<<packId, cellId>>]
              IN  /\ cell.received = 0 => entry = 0 /\ cell.sent = 0
                  /\ cell.received > 0 =>
                        /\ entry > 0 /\ cell.sent > 0
                        /\ cell.received = (SendAfter - 1) * (cell.sent - 1) + entry

FilterInv == /\ TypeOK /\ CountInv /\ FirstInv /\ RoundInv /\ TotalInv
             /\ NoChangeMissed /\ CellInv

-----------------------------------------------------------------------------
(* Types.                                                                   *)

\* The conjuncts of TypeOK, by what changes together.
SettingTypes == sendFrequency \in Frequencies /\ sendSame \in BOOLEAN /\ handler \in Handler
SignalTypes  == /\ received \in BOOLEAN
                /\ lastValue \in Value
                /\ sendClock \in -IntMax - 1 .. IntMax
                /\ sendFrequency > 0 => sendClock \in 0 .. sendFrequency - 1
OtherType    == other \in [received : BOOLEAN, lastValue : Value] \cup {Absent}
TotalTypes   == total \in Nat /\ totalOdometerAtRestart \in Value /\ wraps \in 0 .. MaxReceived
CellTypes    == /\ cellMsgCount \in [1 .. Packs * Cells -> 0 .. SendAfter - 1]
                /\ cells \in [Cell -> [received : 0 .. MaxReceived, sent : 0 .. MaxReceived]]
SentTypes    == /\ count \in 0 .. MaxReceived
                /\ sends \in 0 .. MaxReceived
                /\ lastSent \in Int \cup {NoValue}

\* The groups make up the type invariant.
LEMMA TypeParts ==
  TypeOK <=> /\ SettingTypes /\ SignalTypes /\ OtherType
             /\ TotalTypes /\ CellTypes /\ SentTypes
  BY DEF TypeOK, SettingTypes, SignalTypes, OtherType, TotalTypes, CellTypes, SentTypes

\* What the assumption says of numbers.
LEMMA Facts ==
  /\ MaxValue \in Nat /\ IntMax \in Nat /\ IntMax > 0
  /\ SendAfter \in Nat /\ SendAfter > 1
  /\ Packs \in Nat /\ Cells \in Nat /\ MaxReceived \in Nat
  /\ NoValue \notin Int
  /\ Zero = 0 /\ Zero \in Value
  /\ \A value \in Value : value \in Nat /\ value <= MaxValue
  /\ \A f \in Frequencies : f \in Nat /\ f <= IntMax
  BY FilterAssumption DEF Zero

\* The quotient of a whole number of divisors and less than one more.
LEMMA Quotient ==
  ASSUME NEW d \in Nat, d > 0, NEW q \in Nat, NEW r \in Nat, r < d
  PROVE  (d * q + r) \div d = q
  OBVIOUS

-----------------------------------------------------------------------------
(* What the steps do.                                                       *)

\* The steps, without the arguments of those that neither filter nor send a value.
LEMMA Steps ==
  ASSUME [Next]_vars
  PROVE  \/ UNCHANGED vars
         \/ \E value \in Value : translateCanSignal(value)
         \/ \E value \in Value : translateOther(value)
         \/ \E value \in Value : sendTirePressure(value)
         \/ \E value \in Value : sendDoorStatus(value)
         \/ /\ handler \in {"button", "occupancy"}
            /\ \E send \in BOOLEAN, value \in Nat : SendStateless(send, value)
         \/ \E packId \in 1 .. Packs + 1, cellId \in 1 .. Cells + 1 :
               handleCellBroadcast(packId, cellId)
<1>1. ASSUME NEW type \in Value, NEW state \in Value, handleButtonEventMessage(type, state)
      PROVE  /\ handler = "button"
             /\ \E send \in BOOLEAN, value \in Nat : SendStateless(send, value)
  <2>1. /\ (stateHandler(type) /\ stateHandler(state)) \in BOOLEAN
        /\ type \in Nat
    BY Facts DEF stateHandler, lookupSignalState
  <2> QED
    BY <1>1, <2>1 DEF handleButtonEventMessage
<1>2. ASSUME NEW lower \in Value, NEW upper \in Value, sendOccupancyStatus(lower, upper)
      PROVE  /\ handler = "occupancy"
             /\ \E send \in BOOLEAN, value \in Nat : SendStateless(send, value)
  <2>1. (IF lower = 0 THEN 0 ELSE 1 + booleanHandler(upper)) \in Nat
    BY DEF booleanHandler
  <2> QED
    BY <1>2, <2>1 DEF sendOccupancyStatus
<1> QED
  BY <1>1, <1>2 DEF Next

\* A handler's return value is a number, and depends on the other signal for one only.
LEMMA ProcessedFacts ==
  ASSUME NEW value \in Value
  PROVE  /\ Processed(value) \in Int
         /\ handler' = handler /\ handler # "angle" => Processed(value)' = Processed(value)
<1>1. value \in Nat
  BY Facts
<1> QED
  BY <1>1 DEF Processed, handleInverted, handleExteriorLightSwitch,
              handleUnsignedSteeringWheelAngle, handleStrictBoolean, booleanHandler

\* The names of the handlers, class by class.
LEMMA HandlerClasses ==
  /\ Totals \subseteq Translated /\ Translated \subseteq Filtered
  /\ "tire" \in Filtered \ Translated
  /\ {"tire", "door", "button", "occupancy", "cell"} \cap Translated = {}
  /\ {"door", "button", "occupancy", "cell"} \cap Filtered = {}
  /\ Looking \ {"angle"} \subseteq Totals /\ "angle" \notin Totals /\ "fuel" \in Totals
  /\ Totals \cap {"state", "ignore", "angle"} = {}
  BY DEF Totals, Translated, Filtered, Truths, Distances, Looking

\* A baseline never falls: it is zero until the other signal gives it a value.
LEMMA BaselineRises ==
  ASSUME OtherType, TotalTypes
  PROVE  /\ firstReceivedOdometerValue \in Value
         /\ firstReceivedOdometerValue >= totalOdometerAtRestart
<1>1. firstReceivedOdometerValue \in Value
  BY DEF OtherType, TotalTypes, firstReceivedOdometerValue
<1>2. CASE totalOdometerAtRestart = 0
  BY <1>1, <1>2, Facts
<1>3. CASE totalOdometerAtRestart # 0
  BY <1>3, Facts DEF TotalTypes, firstReceivedOdometerValue
<1> QED
  BY <1>1, <1>2, <1>3

\* What a counter has moved is a number, and takes the total to the next value, over the
\* wrap if there is one.
LEMMA TotalMoves ==
  ASSUME SignalTypes, TotalTypes, OtherType, NEW value \in Value,
         translateCanSignal(value), handler \in Totals
  PROVE  /\ total' \in Nat /\ total' >= total
         /\ total' = total + Increase(value)
         /\ wraps' = IF value < lastValue THEN wraps + 1 ELSE wraps
         /\ totalOdometerAtRestart' \in Value
         /\ totalOdometerAtRestart' >= totalOdometerAtRestart
<1>1. AddToTotal(value)
  BY DEF translateCanSignal, CallHandler, handleRollingOdometer,
         handleMultisizeWheelRotationCount, handleFuelFlow
<1>2. totalOdometerAtRestart' \in {firstReceivedOdometerValue, totalOdometerAtRestart}
  BY DEF translateCanSignal, CallHandler, handleRollingOdometer,
         handleMultisizeWheelRotationCount, handleFuelFlow, totalVars
<1>3. Increase(value) \in Nat
  <2>1. /\ value \in Nat /\ lastValue \in Nat /\ MaxValue \in Nat
        /\ lastValue <= MaxValue
    BY Facts DEF SignalTypes
  <2> QED
    BY <2>1 DEF Increase
<1>4. totalOdometerAtRestart' \in Value
  BY <1>2, BaselineRises DEF TotalTypes
<1>5. totalOdometerAtRestart' >= totalOdometerAtRestart
  BY <1>2, BaselineRises, Facts DEF TotalTypes
<1> QED
  BY <1>1, <1>3, <1>4, <1>5 DEF AddToTotal, TotalTypes

\* A message of a signal: the filter, the handler, and what is sent.
LEMMA FilterStep ==
  ASSUME TypeOK, NEW value \in Value, translateCanSignal(value) \/ sendTirePressure(value)
  PROVE  /\ handler \in Filtered
         /\ count < MaxReceived /\ count' = count + 1 /\ lastValue' = value
         /\ UNCHANGED <<settings, other, cellVars>>
         /\ received' = (received \/ (Due /\ News(value)))
         /\ sendClock' = IF Due THEN 0 ELSE Tick
         /\ \/ /\ Due /\ News(value) /\ Handled(value)
               /\ sends' = sends + 1 /\ lastSent' \in Int
               /\ lastSent' = IF handler \in Totals THEN totalOdometerAtRestart' + total'
                                                    ELSE Processed(value)
            \/ ~(Due /\ News(value) /\ Handled(value)) /\ UNCHANGED sentVars
         /\ handler \notin Totals => UNCHANGED totalVars
         /\ handler \in Totals => translateCanSignal(value)
<1>1. CASE translateCanSignal(value)
  <2>1. ASSUME handler \in Totals PROVE totalOdometerAtRestart' + total' \in Int
    <3>1. total' \in Nat /\ totalOdometerAtRestart' \in Value
      BY <1>1, <2>1, TotalMoves, TypeParts
    <3> QED
      BY <3>1, Facts
  <2>2. handler \notin Totals => UNCHANGED totalVars
    BY <1>1 DEF translateCanSignal, CallHandler, handleRollingOdometer,
                handleMultisizeWheelRotationCount, handleFuelFlow, Totals, Distances
  <2>3. \/ /\ Due /\ News(value) /\ Handled(value)
           /\ sends' = sends + 1
           /\ lastSent' = IF handler \in Totals THEN totalOdometerAtRestart' + total'
                                                ELSE Processed(value)
        \/ ~(Due /\ News(value) /\ Handled(value)) /\ UNCHANGED sentVars
    BY <1>1 DEF translateCanSignal, SendWhen, sendJSON
  <2>4. /\ handler \in Translated /\ Receive /\ preTranslate(value) /\ postTranslate(value)
        /\ UNCHANGED <<settings, other, cellVars>>
    BY <1>1 DEF translateCanSignal
  <2> QED
    BY <1>1, <2>1, <2>2, <2>3, <2>4, ProcessedFacts, HandlerClasses
       DEF Receive, preTranslate, postTranslate
<1>2. CASE sendTirePressure(value)
  <2>1. Processed(value) = value /\ handler \notin Totals
    BY <1>2, HandlerClasses DEF sendTirePressure, Processed, Truths
  <2>2. Handled(value)
    BY <1>2 DEF sendTirePressure, Handled
  <2>3. \/ Due /\ News(value) /\ sends' = sends + 1 /\ lastSent' = value
        \/ ~(Due /\ News(value)) /\ UNCHANGED sentVars
    BY <1>2 DEF sendTirePressure, SendWhen, sendJSON
  <2>4. /\ handler = "tire" /\ Receive /\ preTranslate(value) /\ postTranslate(value)
        /\ UNCHANGED <<settings, other, totalVars, cellVars>>
    BY <1>2 DEF sendTirePressure
  <2> QED
    BY <2>1, <2>2, <2>3, <2>4, ProcessedFacts, HandlerClasses
       DEF Receive, preTranslate, postTranslate
<1> QED
  BY <1>1, <1>2

\* A message of a door: a filter without a clock.
LEMMA DoorStep ==
  ASSUME NEW value \in Value, sendDoorStatus(value)
  PROVE  /\ handler = "door"
         /\ count < MaxReceived /\ count' = count + 1 /\ lastValue' = value
         /\ received' = (received \/ News(value))
         /\ \/ News(value) /\ sends' = sends + 1 /\ lastSent' = Processed(value)
            \/ ~News(value) /\ UNCHANGED sentVars
         /\ UNCHANGED <<settings, sendClock, other, totalVars, cellVars>>
  BY DEF sendDoorStatus, Receive, SendWhen, sendJSON, postTranslate

\* The other signal moves nothing of this one.
LEMMA OtherStep ==
  ASSUME NEW value \in Value, translateOther(value)
  PROVE  /\ OtherType'
         /\ UNCHANGED <<settings, signalVars, totalVars, cellVars, count, sentVars>>
  BY DEF translateOther, OtherType

\* A message handler that keeps nothing: the message is counted, and perhaps sent.
LEMMA StatelessStep ==
  ASSUME NEW send \in BOOLEAN, NEW value \in Nat, SendStateless(send, value)
  PROVE  /\ count < MaxReceived /\ count' = count + 1
         /\ \/ sends' = sends + 1 /\ lastSent' \in Int
            \/ UNCHANGED sentVars
         /\ UNCHANGED <<settings, signalVars, other, totalVars, cellVars>>
  BY DEF SendStateless, Receive, SendWhen, sendJSON

\* The table has an entry for each cell, and no two cells share one.
LEMMA IndexFacts ==
  ASSUME NEW p \in 1 .. Packs, NEW c \in 1 .. Cells
  PROVE  /\ Index(p, c) \in 1 .. Packs * Cells
         /\ \A q \in 1 .. Packs, d \in 1 .. Cells : Index(p, c) = Index(q, d) => p = q /\ c = d
<1>1. Packs \in Nat /\ Cells \in Nat
  BY Facts
<1>2. Index(p, c) \in Int /\ Index(p, c) > 0
  BY <1>1 DEF Index
<1>3. Index(p, c) <= Packs * Cells
  <2>1. (p - 1) * Cells + Cells <= Packs * Cells
    BY <1>1
  <2> QED
    BY <1>1, <2>1 DEF Index
<1>4. ASSUME NEW q \in 1 .. Packs, NEW d \in 1 .. Cells, Index(p, c) = Index(q, d)
      PROVE  p = q /\ c = d
  <2>1. ~(p < q)
    <3>1. p < q => (p - 1) * Cells + Cells <= (q - 1) * Cells
      BY <1>1
    <3> QED
      BY <1>1, <1>4, <3>1 DEF Index
  <2>2. ~(q < p)
    <3>1. q < p => (q - 1) * Cells + Cells <= (p - 1) * Cells
      BY <1>1
    <3> QED
      BY <1>1, <1>4, <3>1 DEF Index
  <2>3. p = q
    BY <1>1, <2>1, <2>2
  <2> QED
    BY <1>1, <1>4, <2>3 DEF Index
<1> QED
  BY <1>1, <1>2, <1>3, <1>4

\* A message of a cell: its own entry moves, if the table has one.
LEMMA CellStep ==
  ASSUME NEW packId \in 1 .. Packs + 1, NEW cellId \in 1 .. Cells + 1,
         handleCellBroadcast(packId, cellId)
  PROVE  /\ handler = "cell"
         /\ count < MaxReceived /\ count' = count + 1
         /\ \/ sends' = sends + 1 /\ lastSent' \in Int
            \/ UNCHANGED sentVars
         /\ UNCHANGED <<settings, signalVars, other, totalVars>>
         /\ \/ UNCHANGED cellVars
            \/ /\ packId \in 1 .. Packs /\ cellId \in 1 .. Cells
               /\ LET i == Index(packId, cellId)
                      entry == cellMsgCount[i]
                      cell == cells[<<packId, cellId>>]
                  IN  \/ /\ entry = 0 \/ entry + 1 >= SendAfter
                         /\ cellMsgCount' = [cellMsgCount EXCEPT ![i] = 1]
                         /\ cells' = [cells EXCEPT ![<<packId, cellId>>] =
                                         [received |-> cell.received + 1,
                                          sent |-> cell.sent + 1]]
                      \/ /\ entry # 0 /\ ~(entry + 1 >= SendAfter)
                         /\ cellMsgCount' = [cellMsgCount EXCEPT ![i] = entry + 1]
                         /\ cells' = [cells EXCEPT ![<<packId, cellId>>] =
                                         [received |-> cell.received + 1,
                                          sent |-> cell.sent]]
<1>1. Packs \in Nat /\ Cells \in Nat
  BY Facts
<1>2. CASE packId > Packs \/ cellId > Cells
  <2>1. UNCHANGED <<cellVars, sentVars>>
    BY <1>2 DEF handleCellBroadcast
  <2> QED
    BY <2>1 DEF handleCellBroadcast, Receive
<1>3. CASE ~(packId > Packs \/ cellId > Cells)
  <2>1. packId \in 1 .. Packs /\ cellId \in 1 .. Cells
    BY <1>1, <1>3
  <2>2. cellId \in Int
    BY <1>1
  <2> QED
    BY <1>3, <2>1, <2>2 DEF handleCellBroadcast, Receive, SendWhen, sendJSON
<1> QED
  BY <1>2, <1>3

-----------------------------------------------------------------------------
(* The steps keep the invariant, part by part.                              *)

\* The settings stay.
LEMMA SettingStep ==
  ASSUME TypeOK, [Next]_vars
  PROVE  UNCHANGED settings /\ SettingTypes'
<1>1. UNCHANGED settings
  <2>1. CASE UNCHANGED vars
    BY <2>1 DEF vars
  <2>2. ASSUME NEW value \in Value, translateCanSignal(value) \/ sendTirePressure(value)
        PROVE  UNCHANGED settings
    BY <2>2, FilterStep
  <2>3. ASSUME NEW value \in Value, translateOther(value)
        PROVE  UNCHANGED settings
    BY <2>3, OtherStep
  <2>4. ASSUME NEW value \in Value, sendDoorStatus(value)
        PROVE  UNCHANGED settings
    BY <2>4, DoorStep
  <2>5. ASSUME NEW send \in BOOLEAN, NEW value \in Nat, SendStateless(send, value)
        PROVE  UNCHANGED settings
    BY <2>5, StatelessStep
  <2>6. ASSUME NEW packId \in 1 .. Packs + 1, NEW cellId \in 1 .. Cells + 1,
               handleCellBroadcast(packId, cellId)
        PROVE  UNCHANGED settings
    BY <2>6, CellStep
  <2> QED
    BY <2>1, <2>2, <2>3, <2>4, <2>5, <2>6, Steps
<1> QED
  BY <1>1, TypeParts DEF settings, SettingTypes

\* The clock stays within the round, the last value is one, and the first message of a
\* filtered signal is noted.
LEMMA SignalStep ==
  ASSUME TypeOK, FirstInv, [Next]_vars
  PROVE  SignalTypes' /\ OtherType' /\ FirstInv'
<1> USE DEF signalVars, sentVars, settings
<1>1. SettingTypes /\ SignalTypes /\ OtherType /\ SentTypes
  BY TypeParts
<1>2. /\ sendFrequency \in Nat /\ sendFrequency <= IntMax /\ count \in Nat
      /\ IntMax \in Nat /\ IntMax > 0
  BY <1>1, Facts DEF SettingTypes, SentTypes
<1>3. SettingTypes'
  BY SettingStep
<1>4. CASE UNCHANGED vars
  BY <1>1, <1>4 DEF vars, SignalTypes, OtherType, FirstInv
<1>5. ASSUME NEW value \in Value, translateCanSignal(value) \/ sendTirePressure(value)
      PROVE  SignalTypes' /\ OtherType' /\ FirstInv'
  <2>1. /\ UNCHANGED <<sendFrequency, other, handler>> /\ count' = count + 1
        /\ lastValue' = value
        /\ received' = (received \/ (Due /\ News(value)))
        /\ sendClock' = IF Due THEN 0 ELSE Tick
    BY <1>5, FilterStep
  <2>2. received' = TRUE
    <3>1. ~received => Due /\ News(value)
      BY DEF Due, News
    <3> QED
      BY <1>1, <2>1, <3>1 DEF SignalTypes
  <2>3. /\ sendClock' \in -IntMax - 1 .. IntMax
        /\ sendFrequency > 0 => sendClock' \in 0 .. sendFrequency - 1
    <3>1. CASE Due
      BY <1>2, <2>1, <3>1
    <3>2. CASE ~Due
      BY <1>1, <1>2, <2>1, <3>2 DEF Due, Tick, SignalTypes
    <3> QED
      BY <3>1, <3>2
  <2>4. SignalTypes'
    BY <2>1, <2>2, <2>3 DEF SignalTypes
  <2>5. OtherType'
    BY <1>1, <2>1 DEF OtherType
  <2>6. FirstInv'
    BY <1>2, <2>1, <2>2 DEF FirstInv
  <2> QED
    BY <2>4, <2>5, <2>6
<1>6. ASSUME NEW value \in Value, translateOther(value)
      PROVE  SignalTypes' /\ OtherType' /\ FirstInv'
  BY <1>1, <1>6, OtherStep DEF SignalTypes, FirstInv
<1>7. ASSUME NEW value \in Value, sendDoorStatus(value)
      PROVE  SignalTypes' /\ OtherType' /\ FirstInv'
  <2>1. /\ UNCHANGED <<sendFrequency, other, sendClock, handler>> /\ count' = count + 1
        /\ lastValue' = value
        /\ received' = (received \/ News(value))
    BY <1>7, DoorStep
  <2>2. received'
    BY <1>1, <2>1 DEF SignalTypes, News
  <2> QED
    BY <1>1, <1>2, <2>1, <2>2 DEF SignalTypes, OtherType, FirstInv
<1>8. ASSUME NEW send \in BOOLEAN, NEW value \in Nat, SendStateless(send, value),
             handler \in {"button", "occupancy"}
      PROVE  SignalTypes' /\ OtherType' /\ FirstInv'
  BY <1>1, <1>2, <1>8, StatelessStep, HandlerClasses DEF SignalTypes, OtherType, FirstInv
<1>9. ASSUME NEW packId \in 1 .. Packs + 1, NEW cellId \in 1 .. Cells + 1,
             handleCellBroadcast(packId, cellId)
      PROVE  SignalTypes' /\ OtherType' /\ FirstInv'
  <2>1. /\ UNCHANGED <<settings, signalVars, other>> /\ count' = count + 1
        /\ handler = "cell"
    BY <1>9, CellStep
  <2> QED
    BY <1>1, <1>2, <2>1, HandlerClasses DEF SignalTypes, OtherType, FirstInv
<1> QED
  BY <1>4, <1>5, <1>6, <1>7, <1>8, <1>9, Steps

\* A message is counted once, and sent at most once.
LEMMA CountStep ==
  ASSUME TypeOK, CountInv, [Next]_vars
  PROVE  /\ SentTypes' /\ sends' <= count'
         /\ count' >= count /\ sends' >= sends
<1>1. SentTypes /\ MaxReceived \in Nat
  BY TypeParts, Facts
<1> DEFINE Quiet   == UNCHANGED <<count, sentVars>>
           Counted == /\ count < MaxReceived /\ count' = count + 1
                      /\ \/ sends' = sends + 1 /\ lastSent' \in Int
                         \/ UNCHANGED sentVars
<1>2. Quiet \/ Counted
  <2>1. CASE UNCHANGED vars
    BY <2>1 DEF vars
  <2>2. ASSUME NEW value \in Value, translateCanSignal(value) \/ sendTirePressure(value)
        PROVE  Counted
    BY <2>2, FilterStep
  <2>3. ASSUME NEW value \in Value, translateOther(value)
        PROVE  Quiet
    BY <2>3, OtherStep
  <2>4. ASSUME NEW value \in Value, sendDoorStatus(value)
        PROVE  Counted
    BY <2>4, DoorStep, ProcessedFacts
  <2>5. ASSUME NEW send \in BOOLEAN, NEW value \in Nat, SendStateless(send, value)
        PROVE  Counted
    BY <2>5, StatelessStep
  <2>6. ASSUME NEW packId \in 1 .. Packs + 1, NEW cellId \in 1 .. Cells + 1,
               handleCellBroadcast(packId, cellId)
        PROVE  Counted
    BY <2>6, CellStep
  <2> QED
    BY <2>1, <2>2, <2>3, <2>4, <2>5, <2>6, Steps
<1> QED
  BY <1>1, <1>2 DEF SentTypes, CountInv, sentVars

\* A message adds one to the clock's part of the round, or ends the round and starts one.
LEMMA RoundStep ==
  ASSUME TypeOK, FirstInv, RoundInv, [Next]_vars
  PROVE  RoundInv'
<1> USE DEF sentVars, settings, signalVars
<1>1. SettingTypes /\ SignalTypes /\ SentTypes
  BY TypeParts
<1>2. /\ sendFrequency \in Nat /\ sendFrequency <= IntMax
      /\ count \in Nat /\ sends \in Nat /\ IntMax \in Nat
  BY <1>1, Facts DEF SettingTypes, SentTypes
<1>3. UNCHANGED settings
  BY SettingStep
<1>4. Regular' <=> Regular
  BY <1>3 DEF Regular
<1>5. ASSUME UNCHANGED <<count, sends, sendClock>>
      PROVE  RoundInv'
  BY <1>3, <1>4, <1>5 DEF RoundInv
<1>6. ASSUME NEW value \in Value, translateCanSignal(value) \/ sendTirePressure(value), Regular
      PROVE  RoundInv'
  <2>1. News(value) /\ Handled(value)
    BY <1>6 DEF Regular, News, Handled
  <2>2. /\ count' = count + 1 /\ handler \in Filtered
        /\ sendClock' = IF Due THEN 0 ELSE Tick
        /\ \/ Due /\ sends' = sends + 1
           \/ ~Due /\ sends' = sends
    BY <1>6, <2>1, FilterStep
  <2>3. sendFrequency > 0 /\ sendClock \in 0 .. sendFrequency - 1
    BY <1>1, <1>6 DEF Regular, SignalTypes
  <2>4. CASE count = 0
    <3>1. Due /\ sends = 0
      BY <2>4 DEF FirstInv, Due
    <3> QED
      BY <1>2, <1>3, <2>2, <2>3, <2>4, <3>1 DEF RoundInv
  <2>5. CASE count > 0
    <3>1. received = TRUE
      BY <1>1, <2>2, <2>5 DEF FirstInv, SignalTypes
    <3>2. sends > 0 /\ count = sendFrequency * (sends - 1) + sendClock + 1
      BY <1>6, <2>5 DEF RoundInv
    <3>3. CASE sendClock = sendFrequency - 1
      <4>1. Due
        BY <3>3 DEF Due
      <4>2. sends' = sends + 1 /\ sendClock' = 0
        BY <2>2, <4>1
      <4>3. count + 1 = sendFrequency * sends + 1
        BY <1>2, <3>2, <3>3
      <4>4. sends' - 1 = sends /\ sends' > 0
        BY <1>2, <4>2
      <4>5. sendFrequency * sends \in Int
        BY <1>2
      <4>6. count' = sendFrequency * sends + sendClock' + 1
        BY <2>2, <4>2, <4>3, <4>5
      <4>7. count' = sendFrequency * (sends' - 1) + sendClock' + 1
        BY <4>4, <4>6
      <4> QED
        BY <1>3, <4>4, <4>7 DEF RoundInv
    <3>4. CASE sendClock # sendFrequency - 1
      <4>1. ~Due
        BY <3>1, <3>4 DEF Due
      <4>2. sends' = sends /\ sendClock' = sendClock + 1
        BY <1>2, <2>2, <2>3, <3>4, <4>1 DEF Tick
      <4> DEFINE rounds == sendFrequency * (sends - 1)
      <4>3. rounds \in Int /\ count = rounds + sendClock + 1
        BY <1>2, <3>2
      <4> HIDE DEF rounds
      <4>4. count' = rounds + sendClock' + 1
        BY <1>2, <2>2, <2>3, <4>2, <4>3
      <4>5. sends' > 0 /\ count' = sendFrequency * (sends' - 1) + sendClock' + 1
        BY <3>2, <4>2, <4>4 DEF rounds
      <4> QED
        BY <1>3, <4>5 DEF RoundInv
    <3> QED
      BY <3>3, <3>4
  <2> QED
    BY <1>2, <2>4, <2>5
<1>7. ~Regular => RoundInv'
  BY <1>4 DEF RoundInv
<1>8. ASSUME NEW value \in Value, translateOther(value)
      PROVE  RoundInv'
  BY <1>5, <1>8, OtherStep
<1>9. ASSUME NEW value \in Value, sendDoorStatus(value)
      PROVE  ~Regular
  BY <1>9, DoorStep, HandlerClasses DEF Regular
<1>10. ASSUME NEW packId \in 1 .. Packs + 1, NEW cellId \in 1 .. Cells + 1,
             handleCellBroadcast(packId, cellId)
      PROVE  ~Regular
  BY <1>10, CellStep, HandlerClasses DEF Regular
<1>11. handler \in {"button", "occupancy"} => ~Regular
  BY HandlerClasses DEF Regular
<1>12. CASE UNCHANGED vars
  BY <1>5, <1>12 DEF vars
<1> QED
  BY <1>6, <1>7, <1>8, <1>9, <1>10, <1>11, <1>12, Steps

\* A total moves as far as its counter, and what is sent of it is the new one.
LEMMA TotalStep ==
  ASSUME TypeOK, CountInv, TotalInv, [Next]_vars
  PROVE  /\ TotalTypes' /\ wraps' <= count' /\ TotalInv'
         /\ lastSent # NoValue /\ handler \in Totals => lastSent' >= lastSent
<1> USE DEF settings, signalVars, totalVars, sentVars
<1> DEFINE Goal == /\ TotalTypes' /\ wraps' <= count' /\ TotalInv'
                   /\ lastSent # NoValue /\ handler \in Totals => lastSent' >= lastSent
<1>1. SignalTypes /\ OtherType /\ TotalTypes /\ SentTypes
  BY TypeParts
<1>2. /\ count \in Nat /\ wraps \in Nat /\ wraps <= count /\ count <= MaxReceived
      /\ MaxReceived \in Nat
      /\ total \in Nat /\ totalOdometerAtRestart \in Nat
      /\ lastSent # NoValue => lastSent \in Int
  BY <1>1, Facts DEF SentTypes, TotalTypes, CountInv
<1>3. handler' = handler
  BY SettingStep
<1>4. ASSUME UNCHANGED <<totalVars, sentVars, lastValue>>, count' >= count
      PROVE  Goal
  <2>1. TotalTypes' /\ wraps' <= count'
    <3>1. count' \in Nat
      BY CountStep, Facts DEF SentTypes
    <3> QED
      BY <1>1, <1>2, <1>4, <3>1 DEF TotalTypes
  <2>2. TotalInv'
    BY <1>3, <1>4 DEF TotalInv, TotalsKept
  <2> QED
    BY <1>2, <1>4, <2>1, <2>2
<1>5. ASSUME UNCHANGED totalVars, handler \notin Totals, count' >= count
      PROVE  Goal
  <2>1. TotalTypes' /\ wraps' <= count'
    <3>1. count' \in Nat
      BY CountStep, Facts DEF SentTypes
    <3> QED
      BY <1>1, <1>2, <1>5, <3>1 DEF TotalTypes
  <2>2. TotalInv'
    BY <1>3, <1>5 DEF TotalInv, TotalsKept
  <2> QED
    BY <1>5, <2>1, <2>2
<1>6. ASSUME NEW value \in Value, translateCanSignal(value), handler \in Totals
      PROVE  Goal
  <2>1. /\ count < MaxReceived /\ count' = count + 1 /\ lastValue' = value
        /\ \/ lastSent' = totalOdometerAtRestart' + total'
           \/ lastSent' = lastSent
    BY <1>6, FilterStep
  <2>2. /\ total' \in Nat /\ total' >= total
        /\ total' = total + Increase(value)
        /\ wraps' = IF value < lastValue THEN wraps + 1 ELSE wraps
        /\ totalOdometerAtRestart' \in Value
        /\ totalOdometerAtRestart' >= totalOdometerAtRestart
    BY <1>1, <1>6, TotalMoves
  <2>3. totalOdometerAtRestart' \in Nat
    BY <2>2, Facts
  <2>4. TotalTypes' /\ wraps' <= count'
    BY <1>2, <2>1, <2>2 DEF TotalTypes
  <2>5. TotalsKept'
    <3>1. total = lastValue + MaxValue * wraps
      BY <1>6 DEF TotalInv, TotalsKept
    <3>2. value \in Nat /\ lastValue \in Nat /\ MaxValue \in Nat
      BY <1>1, Facts DEF SignalTypes
    <3>3. CASE value < lastValue
      <4>1. MaxValue * wraps' = MaxValue * wraps + MaxValue
        BY <1>2, <2>2, <3>2, <3>3
      <4>2. MaxValue * wraps \in Nat
        BY <1>2, <3>2
      <4>3. total' = total + (MaxValue - lastValue + value)
        BY <2>2, <3>3 DEF Increase
      <4>4. total' = value + MaxValue * wraps'
        BY <3>1, <3>2, <4>1, <4>2, <4>3
      <4> QED
        BY <2>1, <4>4 DEF TotalsKept
    <3>4. CASE ~(value < lastValue)
      <4>1. total' = value + MaxValue * wraps
        <5>1. MaxValue * wraps \in Nat
          BY <1>2, <3>2
        <5>2. total' = total + (value - lastValue)
          BY <2>2, <3>4 DEF Increase
        <5> QED
          BY <3>1, <3>2, <5>1, <5>2
      <4> QED
        BY <2>1, <2>2, <3>4, <4>1 DEF TotalsKept
    <3> QED
      BY <3>3, <3>4
  <2>6. lastSent' # NoValue => lastSent' <= totalOdometerAtRestart' + total'
    BY <1>2, <1>6, <2>1, <2>2, <2>3 DEF TotalInv
  <2>7. lastSent # NoValue => lastSent' >= lastSent
    BY <1>2, <1>6, <2>1, <2>2, <2>3 DEF TotalInv
  <2> QED
    BY <2>4, <2>5, <2>6, <2>7 DEF TotalInv
<1>7. count' >= count
  BY CountStep
<1>8. ASSUME NEW value \in Value, translateCanSignal(value) \/ sendTirePressure(value)
      PROVE  Goal
  BY <1>5, <1>6, <1>7, <1>8, FilterStep
<1>9. ASSUME NEW value \in Value, translateOther(value)
      PROVE  Goal
  BY <1>4, <1>7, <1>9, OtherStep
<1>10. ASSUME NEW value \in Value, sendDoorStatus(value)
       PROVE  Goal
  BY <1>5, <1>7, <1>10, DoorStep, HandlerClasses
<1>11. ASSUME NEW send \in BOOLEAN, NEW value \in Nat, SendStateless(send, value),
              handler \in {"button", "occupancy"}
       PROVE  Goal
  BY <1>5, <1>7, <1>11, StatelessStep, HandlerClasses
<1>12. ASSUME NEW packId \in 1 .. Packs + 1, NEW cellId \in 1 .. Cells + 1,
              handleCellBroadcast(packId, cellId)
       PROVE  Goal
  BY <1>5, <1>7, <1>12, CellStep, HandlerClasses
<1>13. CASE UNCHANGED vars
  BY <1>4, <1>7, <1>13 DEF vars
<1> QED
  BY <1>8, <1>9, <1>10, <1>11, <1>12, <1>13, Steps

\* A signal that is sent on change: it is a door's, or its turn always comes.
OnChange == handler = "door" \/ (handler \in Filtered /\ sendFrequency = 1)

\* At a frequency of one it is the signal's turn in every message.
LEMMA AlwaysDue ==
  ASSUME SignalTypes, sendFrequency = 1
  PROVE  Due
<1>1. sendClock \in 0 .. 0
  BY DEF SignalTypes
<1> QED
  BY <1>1 DEF Due

\* What is told of a signal that is sent on change is what was last received; and what
\* is told next is another value, but for a raw value that means the same.
LEMMA ChangeStep ==
  ASSUME TypeOK, FirstInv, NoChangeMissed, [Next]_vars
  PROVE  /\ NoChangeMissed'
         /\ ~sendSame /\ OnChange /\ handler \notin Looking \cup {"fuel", "state"}
            => \/ UNCHANGED sends
               \/ lastSent' # lastSent
               \/ Processed(lastValue) = Processed(lastValue') /\ lastValue # lastValue'
<1> USE DEF settings, signalVars, sentVars
<1> DEFINE Compared == OnChange /\ handler \notin Looking \cup {"fuel"}
           Told     == lastSent = Processed(lastValue)
           Fresh    == ~sendSame /\ OnChange /\ handler \notin Looking \cup {"fuel", "state"}
           Again    == \/ UNCHANGED sends
                       \/ lastSent' # lastSent
                       \/ Processed(lastValue) = Processed(lastValue') /\ lastValue # lastValue'
<1>1. SettingTypes /\ SignalTypes /\ SentTypes
  BY TypeParts
<1>2. count \in Nat /\ lastValue \in Value /\ received \in BOOLEAN /\ sendSame \in BOOLEAN
  BY <1>1, Facts DEF SentTypes, SignalTypes, SettingTypes
<1>3. UNCHANGED <<sendFrequency, sendSame, handler>>
  BY SettingStep
<1>4. Processed(lastValue) \in Int /\ Processed(lastValue) # NoValue
  BY <1>2, ProcessedFacts, Facts
<1>5. NoChangeMissed <=> (Compared /\ handler # "ignore" /\ count > 0
                            => Told \/ (handler = "state" /\ lastValue \notin Stated))
  BY DEF NoChangeMissed, OnChange
<1>6. ASSUME UNCHANGED <<count, signalVars, sentVars>>
      PROVE  NoChangeMissed' /\ (Fresh => Again)
  <2>1. handler # "angle" => Processed(lastValue)' = Processed(lastValue)
    BY <1>3, <1>6 DEF Processed, handleInverted, handleExteriorLightSwitch,
              handleUnsignedSteeringWheelAngle, handleStrictBoolean, booleanHandler
  <2> QED
    BY <1>3, <1>6, <2>1 DEF NoChangeMissed, Looking
<1>7. ASSUME handler \notin Filtered \cup {"door"}
      PROVE  NoChangeMissed' /\ (Fresh => Again)
  BY <1>3, <1>7 DEF NoChangeMissed, OnChange
<1>8. ASSUME NEW value \in Value, OnChange, handler \notin Looking \cup {"fuel"},
             count' = count + 1, lastValue' = value,
             \/ News(value) /\ Handled(value)
                /\ sends' = sends + 1 /\ lastSent' = Processed(value)
             \/ ~(News(value) /\ Handled(value)) /\ UNCHANGED sentVars
      PROVE  NoChangeMissed' /\ (Fresh => Again)
  <2>1. handler # "angle"
    BY <1>8 DEF Looking
  <2>2. Processed(lastValue)' = Processed(value) /\ Processed(value) \in Int
    <3>1. Processed(value)' = Processed(value) /\ Processed(value) \in Int
      BY <1>3, <2>1, ProcessedFacts
    <3>2. Processed(lastValue)' = Processed(value)'
      BY <1>8 DEF Processed, handleInverted, handleExteriorLightSwitch,
              handleUnsignedSteeringWheelAngle, handleStrictBoolean, booleanHandler
    <3> QED
      BY <3>1, <3>2
  <2>3. Handled(value) \/ handler = "ignore" \/ (handler = "state" /\ value \notin Stated)
    BY <2>1 DEF Handled, stateHandler, lookupSignalState
  <2>4. CASE News(value) /\ Handled(value)
    <3>1. sends' = sends + 1 /\ lastSent' = Processed(value)
      BY <1>8, <2>4
    <3>2. NoChangeMissed'
      BY <2>2, <3>1 DEF NoChangeMissed
    <3>3. ASSUME Fresh PROVE Again
      <4>1. CASE count = 0
        <5>1. lastSent = NoValue
          BY <4>1 DEF FirstInv
        <5> QED
          BY <2>2, <3>1, <5>1, Facts
      <4>2. CASE count > 0
        <5>1. received
          BY <1>8, <4>2 DEF FirstInv, OnChange
        <5>2. value # lastValue
          BY <2>4, <3>3, <5>1 DEF News
        <5>3. lastSent = Processed(lastValue)
          BY <1>5, <2>4, <3>3, <4>2 DEF Handled
        <5> QED
          BY <1>8, <3>1, <5>2, <5>3
      <4> QED
        BY <1>2, <4>1, <4>2
    <3> QED
      BY <3>2, <3>3
  <2>5. CASE ~(News(value) /\ Handled(value))
    <3>1. UNCHANGED sentVars
      BY <1>8, <2>5
    <3>2. NoChangeMissed'
      <4>1. CASE ~Handled(value)
        BY <1>3, <1>8, <2>3, <4>1 DEF NoChangeMissed
      <4>2. CASE ~News(value)
        <5>1. received /\ value = lastValue
          BY <4>2 DEF News
        <5>2. count > 0
          BY <1>2, <5>1 DEF FirstInv
        <5>3. Processed(lastValue)' = Processed(lastValue)
          BY <2>2, <5>1
        <5> QED
          BY <1>3, <1>8, <3>1, <5>1, <5>2, <5>3 DEF NoChangeMissed
      <4> QED
        BY <2>5, <4>1, <4>2
    <3> QED
      BY <3>1, <3>2
  <2> QED
    BY <2>4, <2>5
<1>9. ~OnChange \/ handler \in Looking \cup {"fuel"} => NoChangeMissed' /\ (Fresh => Again)
  BY <1>3 DEF NoChangeMissed, OnChange
<1>10. ASSUME NEW value \in Value, translateCanSignal(value) \/ sendTirePressure(value)
       PROVE  NoChangeMissed' /\ (Fresh => Again)
  <2>1. CASE OnChange /\ handler \notin Looking \cup {"fuel"}
    <3>1. handler \in Filtered /\ handler \notin Totals
      BY <1>10, <2>1, FilterStep DEF Looking, Totals
    <3>2. Due
      BY <1>1, <2>1, <3>1, HandlerClasses, AlwaysDue DEF OnChange
    <3>3. /\ count' = count + 1 /\ lastValue' = value
          /\ \/ /\ News(value) /\ Handled(value)
                /\ sends' = sends + 1 /\ lastSent' = Processed(value)
             \/ ~(News(value) /\ Handled(value)) /\ UNCHANGED sentVars
      BY <1>10, <3>1, <3>2, FilterStep
    <3> QED
      BY <1>8, <2>1, <3>3
  <2> QED
    BY <1>9, <2>1
<1>11. ASSUME NEW value \in Value, translateOther(value)
       PROVE  NoChangeMissed' /\ (Fresh => Again)
  BY <1>6, <1>11, OtherStep
<1>12. ASSUME NEW value \in Value, sendDoorStatus(value)
       PROVE  NoChangeMissed' /\ (Fresh => Again)
  <2>1. /\ handler = "door" /\ count' = count + 1 /\ lastValue' = value
        /\ \/ News(value) /\ sends' = sends + 1 /\ lastSent' = Processed(value)
           \/ ~News(value) /\ UNCHANGED sentVars
    BY <1>12, DoorStep
  <2>2. Handled(value) /\ OnChange /\ handler \notin Looking \cup {"fuel"}
    BY <2>1 DEF Handled, OnChange, Looking, Distances
  <2> QED
    BY <1>8, <2>1, <2>2
<1>13. ASSUME NEW packId \in 1 .. Packs + 1, NEW cellId \in 1 .. Cells + 1,
              handleCellBroadcast(packId, cellId)
       PROVE  NoChangeMissed' /\ (Fresh => Again)
  BY <1>7, <1>13, CellStep, HandlerClasses
<1>14. handler \in {"button", "occupancy"} => NoChangeMissed' /\ (Fresh => Again)
  BY <1>7, HandlerClasses
<1>15. CASE UNCHANGED vars
  BY <1>6, <1>15 DEF vars
<1> QED
  BY <1>10, <1>11, <1>12, <1>13, <1>14, <1>15, Steps

\* A cell's entry, and what is sent of it, follow the cell's own messages.
LEMMA CellsStep ==
  ASSUME TypeOK, CountInv, CellInv, [Next]_vars
  PROVE  /\ CellTypes' /\ CellInv'
         /\ \A cell \in Cell : /\ cells'[cell].sent <= cells'[cell].received
                               /\ cells'[cell].received <= count'
<1> DEFINE Apart == \A cell \in Cell : /\ cells'[cell].sent <= cells'[cell].received
                                       /\ cells'[cell].received <= count'
<1>1. CellTypes /\ SentTypes
  BY TypeParts
<1>2. /\ Packs \in Nat /\ Cells \in Nat /\ MaxReceived \in Nat
      /\ SendAfter \in Nat /\ SendAfter > 1 /\ count \in Nat
  BY <1>1, Facts DEF SentTypes
<1>3. \A cell \in Cell : /\ cells[cell].received \in Nat /\ cells[cell].sent \in Nat
                         /\ cells[cell].sent <= cells[cell].received
                         /\ cells[cell].received <= count
  BY <1>1, <1>2 DEF CellTypes, CountInv
<1>4. count' \in Nat /\ count' >= count
  BY <1>2, CountStep, Facts DEF SentTypes
<1>5. ASSUME UNCHANGED cellVars
      PROVE  CellTypes' /\ CellInv' /\ Apart
  <2>1. Apart
    BY <1>2, <1>3, <1>4, <1>5 DEF cellVars
  <2> QED
    BY <1>1, <1>5, <2>1 DEF cellVars, CellTypes, CellInv, Index
<1>6. ASSUME NEW packId \in 1 .. Packs + 1, NEW cellId \in 1 .. Cells + 1,
             handleCellBroadcast(packId, cellId)
      PROVE  CellTypes' /\ CellInv' /\ Apart
  <2> DEFINE i     == Index(packId, cellId)
             entry == cellMsgCount[i]
             cell  == cells[<<packId, cellId>>]
  <2>1. CASE UNCHANGED cellVars
    BY <1>5, <2>1
  <2>2. CASE ~UNCHANGED cellVars
    <3>1. packId \in 1 .. Packs /\ cellId \in 1 .. Cells
      BY <1>6, <2>2, CellStep
    <3>2. <<packId, cellId>> \in Cell /\ i \in 1 .. Packs * Cells
      BY <3>1, IndexFacts DEF Cell
    <3>3. entry \in 0 .. SendAfter - 1
      BY <1>1, <3>2 DEF CellTypes
    <3>4. /\ cell.received \in Nat /\ cell.sent \in Nat
          /\ cell.sent <= cell.received /\ cell.received <= count
          /\ count < MaxReceived /\ count' = count + 1
      BY <1>3, <1>6, <3>2, CellStep
    <3>5. PICK e \in Nat, s \in Nat :
             /\ \/ /\ entry = 0 \/ entry + 1 >= SendAfter
                   /\ e = 1 /\ s = cell.sent + 1
                \/ /\ entry # 0 /\ ~(entry + 1 >= SendAfter)
                   /\ e = entry + 1 /\ s = cell.sent
             /\ cellMsgCount' = [cellMsgCount EXCEPT ![i] = e]
             /\ cells' = [cells EXCEPT ![<<packId, cellId>>] =
                             [received |-> cell.received + 1, sent |-> s]]
      <4>1. /\ 1 \in Nat /\ cell.sent + 1 \in Nat
            /\ entry + 1 \in Nat /\ cell.sent \in Nat
        BY <1>2, <3>3, <3>4
      <4> QED
        BY <1>6, <2>2, <4>1, CellStep
    <3>6. /\ e \in 1 .. SendAfter - 1
          /\ s \in 0 .. MaxReceived /\ s <= cell.received + 1
          /\ cell.received + 1 \in 0 .. MaxReceived
      BY <1>2, <3>3, <3>4, <3>5
    <3>7. CellTypes'
      <4>1. cellMsgCount' \in [1 .. Packs * Cells -> 0 .. SendAfter - 1]
        <5>1. e \in 0 .. SendAfter - 1
          BY <1>2, <3>6
        <5> QED
          BY <1>1, <3>2, <3>5, <5>1 DEF CellTypes
      <4>2. cells' \in [Cell -> [received : 0 .. MaxReceived, sent : 0 .. MaxReceived]]
        BY <1>1, <3>2, <3>5, <3>6 DEF CellTypes
      <4> QED
        BY <4>1, <4>2 DEF CellTypes
    <3>8. /\ cells'[<<packId, cellId>>] = [received |-> cell.received + 1, sent |-> s]
          /\ \A one \in Cell : one # <<packId, cellId>> => cells'[one] = cells[one]
      BY <1>1, <3>2, <3>5 DEF CellTypes
    <3>9. /\ cellMsgCount'[i] = e
          /\ \A j \in 1 .. Packs * Cells : j # i => cellMsgCount'[j] = cellMsgCount[j]
      BY <1>1, <3>2, <3>5 DEF CellTypes
    <3>10. Apart
      BY <1>2, <1>3, <3>2, <3>4, <3>6, <3>8
    <3>11. CellInv'
      <4> SUFFICES ASSUME NEW p \in 1 .. Packs, NEW c \in 1 .. Cells
                   PROVE  LET n == cellMsgCount'[Index(p, c)]
                              r == cells'[<<p, c>>].received
                              t == cells'[<<p, c>>].sent
                          IN  /\ r = 0 => n = 0 /\ t = 0
                              /\ r > 0 => /\ n > 0 /\ t > 0
                                          /\ r = (SendAfter - 1) * (t - 1) + n
        BY DEF CellInv, Index
      <4>1. CASE p = packId /\ c = cellId
        <5>1. /\ cell.received = 0 => entry = 0 /\ cell.sent = 0
              /\ cell.received > 0 =>
                    /\ entry > 0 /\ cell.sent > 0
                    /\ cell.received = (SendAfter - 1) * (cell.sent - 1) + entry
          BY <3>1 DEF CellInv
        <5>2. s > 0 /\ cell.received + 1 = (SendAfter - 1) * (s - 1) + e
          <6>1. CASE cell.received = 0
            <7>1. s - 1 = 0 /\ e = 1 /\ s > 0
              BY <3>4, <3>5, <5>1, <6>1
            <7>2. (SendAfter - 1) * 0 = 0
              BY <1>2
            <7> QED
              BY <6>1, <7>1, <7>2
          <6>2. CASE cell.received > 0 /\ entry + 1 >= SendAfter
            <7>0. e = 1 /\ s = cell.sent + 1
              BY <3>5, <6>2
            <7>1. s - 1 = cell.sent /\ entry = SendAfter - 1 /\ s > 0
              BY <1>2, <3>3, <3>4, <6>2, <7>0
            <7>2. (SendAfter - 1) * (cell.sent - 1) + (SendAfter - 1)
                     = (SendAfter - 1) * cell.sent
              BY <1>2, <3>4
            <7> QED
              BY <5>1, <6>2, <7>0, <7>1, <7>2
          <6>3. CASE cell.received > 0 /\ ~(entry + 1 >= SendAfter)
            <7>1. s = cell.sent /\ e = entry + 1 /\ s > 0
              BY <3>5, <5>1, <6>3
            <7> DEFINE rounds == (SendAfter - 1) * (cell.sent - 1)
            <7>2. rounds \in Int /\ cell.received = rounds + entry
              BY <1>2, <3>4, <5>1, <6>3
            <7> HIDE DEF rounds
            <7>3. cell.received + 1 = rounds + e
              BY <3>3, <7>1, <7>2
            <7> QED
              BY <7>1, <7>3 DEF rounds
          <6> QED
            BY <3>4, <6>1, <6>2, <6>3
        <5> QED
          BY <3>4, <3>6, <3>8, <3>9, <4>1, <5>2
      <4>2. CASE ~(p = packId /\ c = cellId)
        <5>1. <<p, c>> \in Cell /\ <<p, c>> # <<packId, cellId>>
          BY <4>2 DEF Cell
        <5>2. Index(p, c) \in 1 .. Packs * Cells /\ Index(p, c) # i
          BY <3>1, <4>2, IndexFacts
        <5>3. /\ cells'[<<p, c>>] = cells[<<p, c>>]
              /\ cellMsgCount'[Index(p, c)] = cellMsgCount[Index(p, c)]
          BY <3>8, <3>9, <5>1, <5>2
        <5> QED
          BY <5>3 DEF CellInv
      <4> QED
        BY <4>1, <4>2
    <3> QED
      BY <3>7, <3>10, <3>11
  <2> QED
    BY <2>1, <2>2
<1>7. ASSUME NEW value \in Value, translateCanSignal(value) \/ sendTirePressure(value)
      PROVE  UNCHANGED cellVars
  BY <1>7, FilterStep
<1>8. ASSUME NEW value \in Value, translateOther(value) \/ sendDoorStatus(value)
      PROVE  UNCHANGED cellVars
  BY <1>8, OtherStep, DoorStep
<1>9. ASSUME NEW send \in BOOLEAN, NEW value \in Nat, SendStateless(send, value)
      PROVE  UNCHANGED cellVars
  BY <1>9, StatelessStep
<1>10. UNCHANGED vars => UNCHANGED cellVars
  BY DEF vars
<1> QED
  BY <1>5, <1>6, <1>7, <1>8, <1>9, <1>10, Steps

-----------------------------------------------------------------------------
(* The theorems.                                                            *)

\* The invariant holds at the restart.
LEMMA FilterInit == ASSUME Init PROVE FilterInv
<1>1. TypeOK
  <2>1. SettingTypes /\ SentTypes /\ TotalTypes
    BY Facts DEF Init, SettingTypes, SentTypes, TotalTypes
  <2>2. SignalTypes
    <3>1. sendFrequency \in Nat /\ sendClock = 0 /\ received = FALSE /\ lastValue \in Value
      BY Facts DEF Init
    <3>2. IntMax \in Nat
      BY Facts
    <3>3. sendClock \in -IntMax - 1 .. IntMax
      BY <3>1, <3>2
    <3>4. sendFrequency > 0 => sendClock \in 0 .. sendFrequency - 1
      BY <3>1
    <3> QED
      BY <3>1, <3>3, <3>4 DEF SignalTypes
  <2>4. OtherType
    <3>1. Zero \in Value
      BY Facts
    <3>2. other \in {Absent, [received |-> FALSE, lastValue |-> Zero]}
      BY DEF Init
    <3>3. [received |-> FALSE, lastValue |-> Zero] \in [received : BOOLEAN, lastValue : Value]
      BY <3>1
    <3> QED
      BY <3>2, <3>3 DEF OtherType
  <2>3. CellTypes
    BY Facts DEF Init, CellTypes
  <2> QED
    BY <2>1, <2>2, <2>3, <2>4, TypeParts
<1>2. CountInv /\ FirstInv /\ RoundInv /\ NoChangeMissed
  BY DEF Init, CountInv, FirstInv, RoundInv, NoChangeMissed
<1>3. TotalInv
  BY Facts DEF Init, TotalInv, TotalsKept
<1>4. CellInv
  BY IndexFacts DEF Init, CellInv, Cell
<1> QED
  BY <1>1, <1>2, <1>3, <1>4 DEF FilterInv

\* Every step keeps it.
LEMMA FilterNext == ASSUME FilterInv, [Next]_vars PROVE FilterInv'
<1>1. /\ TypeOK /\ CountInv /\ FirstInv /\ RoundInv /\ TotalInv
      /\ NoChangeMissed /\ CellInv
  BY DEF FilterInv
<1>2. /\ SettingTypes' /\ SignalTypes' /\ OtherType' /\ FirstInv' /\ RoundInv'
      /\ NoChangeMissed'
  BY <1>1, SettingStep, SignalStep, RoundStep, ChangeStep
<1>3. TotalTypes' /\ wraps' <= count' /\ TotalInv'
  BY <1>1, TotalStep
<1>4. SentTypes' /\ sends' <= count'
  BY <1>1, CountStep
<1>5. /\ CellTypes' /\ CellInv'
      /\ \A cell \in Cell : /\ cells'[cell].sent <= cells'[cell].received
                            /\ cells'[cell].received <= count'
  BY <1>1, CellsStep
<1>6. TypeOK'
  BY <1>2, <1>3, <1>4, <1>5, TypeParts, PTL
<1>7. CountInv'
  BY <1>3, <1>4, <1>5 DEF CountInv
<1> QED
  BY <1>2, <1>3, <1>5, <1>6, <1>7 DEF FilterInv

\* The inductive invariant of the filter.
THEOREM FilterInvariant == Spec => []FilterInv
  BY FilterInit, FilterNext, PTL DEF Spec

\* Every variable keeps its type; the clock stays below the frequency.
THEOREM FilterTypeCorrect == Spec => []TypeOK
<1>1. FilterInv => TypeOK
  BY DEF FilterInv
<1> QED
  BY <1>1, FilterInvariant, PTL

\* At any frequency the first message is sent, and then one of each sendFrequency.
THEOREM EveryNth == Spec => []EveryNthSent
<1>1. FilterInv => EveryNthSent
  <2> SUFFICES ASSUME FilterInv, Regular
               PROVE  sends = (count + sendFrequency - 1) \div sendFrequency
    BY DEF EveryNthSent, Regular
  <2>1. SettingTypes /\ SignalTypes /\ SentTypes /\ FirstInv /\ RoundInv
    BY TypeParts DEF FilterInv
  <2>2. /\ sendFrequency \in Nat /\ sendFrequency > 0
        /\ sendClock \in 0 .. sendFrequency - 1 /\ count \in Nat /\ sends \in Nat
    BY <2>1, Facts DEF Regular, SettingTypes, SignalTypes, SentTypes
  <2>3. PICK r \in Nat : /\ r < sendFrequency
                         /\ count + sendFrequency - 1 = sendFrequency * sends + r
    <3>1. CASE count = 0
      <4>1. sends = 0
        BY <2>1, <3>1 DEF FirstInv
      <4>2. sendFrequency * 0 = 0
        BY <2>2
      <4>3. /\ sendFrequency - 1 \in Nat /\ sendFrequency - 1 < sendFrequency
            /\ count + sendFrequency - 1 = sendFrequency * sends + (sendFrequency - 1)
        BY <2>2, <3>1, <4>1, <4>2
      <4> QED
        BY <4>3
    <3>2. CASE count > 0
      <4> DEFINE rounds == sendFrequency * (sends - 1)
      <4>1. rounds \in Int /\ count = rounds + sendClock + 1
        BY <2>1, <2>2, <3>2 DEF RoundInv
      <4>2. rounds + sendFrequency = sendFrequency * sends
        BY <2>2
      <4> HIDE DEF rounds
      <4>3. sendClock \in Nat /\ sendClock < sendFrequency
        BY <2>2
      <4>4. count + sendFrequency - 1 = (rounds + sendFrequency) + sendClock
        BY <2>2, <4>1, <4>3
      <4> QED
        BY <4>2, <4>3, <4>4
    <3> QED
      BY <2>2, <3>1, <3>2
  <2>4. (sendFrequency * sends + r) \div sendFrequency = sends
    BY <2>2, <2>3, Quotient
  <2> QED
    BY <2>3, <2>4
<1> QED
  BY <1>1, FilterInvariant, PTL

\* What a host was last told of a signal that is sent on change is what it is now.
THEOREM ChangesReach == Spec => []NoChangeMissed
<1>1. FilterInv => NoChangeMissed
  BY DEF FilterInv
<1> QED
  BY <1>1, FilterInvariant, PTL

\* A total is what its counter shows, and a turn of it for each wrap.
THEOREM TotalsAddUp == Spec => []TotalsKept
<1>1. FilterInv => TotalsKept
  BY DEF FilterInv, TotalInv
<1> QED
  BY <1>1, FilterInvariant, PTL

\* Of each cell the first message is sent, and then one of each SendAfter - 1.
THEOREM CellsApart == Spec => []CellsCountedApart
<1>1. FilterInv => CellsCountedApart
  <2> SUFFICES ASSUME FilterInv, NEW p \in 1 .. Packs, NEW c \in 1 .. Cells
               PROVE  cells[<<p, c>>].sent =
                         (cells[<<p, c>>].received + SendAfter - 2) \div (SendAfter - 1)
    BY DEF CellsCountedApart, Cell
  <2> DEFINE n == cellMsgCount[Index(p, c)]
             r == cells[<<p, c>>].received
             t == cells[<<p, c>>].sent
             d == SendAfter - 1
  <2>1. CellTypes /\ CellInv
    BY TypeParts DEF FilterInv
  <2>2. /\ r \in Nat /\ t \in Nat /\ n \in 0 .. d
        /\ d \in Nat /\ d > 0 /\ SendAfter = d + 1
    <3>1. <<p, c>> \in Cell /\ Index(p, c) \in 1 .. Packs * Cells
      BY IndexFacts DEF Cell
    <3> QED
      BY <2>1, <3>1, Facts DEF CellTypes
  <2>3. /\ r = 0 => n = 0 /\ t = 0
        /\ r > 0 => n > 0 /\ t > 0 /\ r = d * (t - 1) + n
    BY <2>1 DEF CellInv
  <2> HIDE DEF n, r, t, d
  <2>4. PICK k \in Nat : k < d /\ r + d - 1 = d * t + k
    <3>1. CASE r = 0
      <4>1. t = 0 /\ d * 0 = 0
        BY <2>2, <2>3, <3>1
      <4>2. d - 1 \in Nat /\ d - 1 < d /\ r + d - 1 = d * t + (d - 1)
        BY <2>2, <3>1, <4>1
      <4> QED
        BY <4>2
    <3>2. CASE r > 0
      <4> DEFINE rounds == d * (t - 1)
      <4>1. rounds \in Int /\ r = rounds + n /\ n > 0
        BY <2>2, <2>3, <3>2
      <4>2. rounds + d = d * t
        BY <2>2
      <4> HIDE DEF rounds
      <4>3. n - 1 \in Nat /\ n - 1 < d
        BY <2>2, <4>1
      <4>4. r + d - 1 = (rounds + d) + (n - 1)
        BY <2>2, <4>1
      <4> QED
        BY <4>2, <4>3, <4>4
    <3> QED
      BY <2>2, <3>1, <3>2
  <2>5. (d * t + k) \div d = t
    BY <2>2, <2>4, Quotient
  <2>6. t = (r + d - 1) \div d
    BY <2>4, <2>5
  <2>7. r + SendAfter - 2 = r + d - 1
    BY <2>2
  <2> QED
    BY <2>6, <2>7 DEF r, t, d
<1> QED
  BY <1>1, FilterInvariant, PTL

\* No host is told the same value of a change-only signal twice in a row, but for a raw
\* value that means the same.
THEOREM NoRepeats == Spec => NeverTwiceInARow
<1>1. FilterInv /\ [Next]_vars =>
        [/\ ~sendSame
         /\ handler = "door" \/ (handler \in Filtered /\ sendFrequency = 1)
         /\ handler \notin Looking \cup {"fuel", "state"}
         => \/ UNCHANGED sends
            \/ lastSent' # lastSent
            \/ Processed(lastValue) = Processed(lastValue') /\ lastValue # lastValue']_vars
  BY ChangeStep DEF FilterInv, OnChange
<1> QED
  BY <1>1, FilterInvariant, PTL DEF Spec, NeverTwiceInARow

\* The total that hosts see never runs back.
THEOREM TotalsRise == Spec => TotalNeverRunsBack
<1>1. FilterInv /\ [Next]_vars =>
        [lastSent # NoValue /\ handler \in Totals => lastSent' >= lastSent]_vars
  BY TotalStep DEF FilterInv
<1> QED
  BY <1>1, FilterInvariant, PTL DEF Spec, TotalNeverRunsBack

=============================================================================
