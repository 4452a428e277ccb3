------------------------------ MODULE VinRequest ------------------------------
(***************************************************************************)
(* The translator asks the vehicle for its identification number           *)
(* (src/src/handlers.cpp): customLoopHandler asks every so many passes of  *)
(* the main loop until the three parts of the answer have come in, and     *)
(* handleVINMessage then sends it to the hosts.  The request takes the way *)
(* of the hosts' writes (HostWrite), in the same passes of the loop.       *)
(*                                                                         *)
(* The controller may refuse the request, and each part of an answer may   *)
(* be lost in a full receive queue.  The vehicle has one VIN.              *)
(***************************************************************************)
EXTENDS HostWrite

CONSTANT Period  \* passes between requests (100000)

ASSUME PeriodAssumption == Period \in Nat

VARIABLES pc,         \* where the loop is
          loopCount,  \* the static count of customLoopHandler
          mVin,       \* the parts in mVin
          answers,    \* the parts in the receive queue
          sent        \* history: how often the VIN was handed to the listener

vinVars == <<loopCount, mVin, answers, sent>>

vars == <<writeVars, pc, vinVars>>

Part == 0 .. 2

Init == /\ InitWrite
        /\ pc = "receive"
        /\ loopCount = 0
        /\ mVin = {}
        /\ answers = {}
        /\ sent = 0

\* The text ends at the first part that is missing: six, six and five characters.
strlen(parts) == IF 0 \notin parts THEN 0
                 ELSE IF 1 \notin parts THEN 6
                 ELSE IF 2 \notin parts THEN 12 ELSE 17

-----------------------------------------------------------------------------
\* Mutant: the text is not compared with what it was.
handleVINMessageAgain(part) == /\ mVin' = mVin \cup {part}
                               /\ sent' = IF strlen(mVin') = 17 THEN sent + 1 ELSE sent

handleVINMessage(part) ==
    /\ mVin' = mVin \cup {part}
    /\ sent' = IF strlen(mVin') # strlen(mVin) /\ strlen(mVin') = 17 THEN sent + 1 ELSE sent

\* One message in each pass; the parts of two answers may come in any order.
receiveCan == /\ pc = "receive"
              /\ \/ /\ answers = {}
                    /\ UNCHANGED <<answers, mVin, sent>>
                 \/ \E part \in answers : /\ answers' = answers \ {part}
                                          /\ handleVINMessage(part)
              /\ pc' = "hosts"
              /\ UNCHANGED <<writeVars, loopCount>>

HostRequest == /\ pc = "hosts"
               /\ \E request \in Requests : receiveWriteRequest(request)
               /\ UNCHANGED <<pc, vinVars>>

HostsRead == /\ pc = "hosts"
             /\ pc' = "write"
             /\ UNCHANGED <<writeVars, vinVars>>

\* A request for the VIN: 9 in the first byte, 2 in the second.
AsksForVin(frame) == /\ frame.by.signal # 0
                     /\ vehicle.signals[frame.by.signal].name = "service_id"
                     /\ OnWire(frame.bytes) = {4, 7, 14}

\* The vehicle answers a request; only the parts in "heard" find room.
Write(heard) == /\ pc = "write"
                /\ \E accepted \in Acceptable : processCanWriteQueue(accepted)
                /\ answers' = IF \E b \in Bus : \E f \in frames'[b] : AsksForVin(f)
                              THEN answers \cup heard ELSE answers
                /\ heard # {} => \E b \in Bus : \E f \in frames'[b] : AsksForVin(f)
                /\ pc' = "custom"
                /\ UNCHANGED <<loopCount, mVin, sent>>

requestVIN == LET index == lookupSignal("service_id")
              IN  IF strlen(mVin) # 17 /\ index # 0
                  THEN sendCanSignal(index, [type |-> "number", number |-> 2306],
                                     Writer(vehicle.signals[index]), FALSE)
                  ELSE UNCHANGED sendQueue

\* Mutant: the count is not set back, so that the VIN is asked for once.
customLoopHandlerOnce ==
    /\ pc = "custom"
    /\ loopCount' = IF loopCount <= Period THEN loopCount + 1 ELSE loopCount
    /\ IF loopCount = Period THEN requestVIN ELSE UNCHANGED sendQueue
    /\ pc' = "receive"
    /\ UNCHANGED <<vehicle, board, requests, frames, mVin, answers, sent>>

customLoopHandler ==
    /\ pc = "custom"
    /\ IF loopCount >= Period
       THEN loopCount' = 0 /\ requestVIN
       ELSE loopCount' = loopCount + 1 /\ UNCHANGED sendQueue
    /\ pc' = "receive"
    /\ UNCHANGED <<vehicle, board, requests, frames, mVin, answers, sent>>

-----------------------------------------------------------------------------
LoopStep == \/ receiveCan
            \/ HostsRead
            \/ \E heard \in SUBSET Part : Write(heard)
            \/ customLoopHandler

Next == HostRequest \/ LoopStep

Spec == Init /\ [][Next]_vars

Heard(part) == \E heard \in SUBSET Part : part \in heard /\ Write(heard)

\* The loop never ends, and of requests made again and again each part of the answer
\* gets through in the end.
FairSpec == Spec /\ WF_vars(LoopStep) /\ \A part \in Part : SF_vars(Heard(part))

-----------------------------------------------------------------------------
TypeOK == /\ vehicle \in Vehicles /\ board \in Boards
          /\ QueuesBounded
          /\ requests \in 0 .. MaxRequests
          /\ pc \in {"receive", "hosts", "write", "custom"}
          /\ loopCount \in 0 .. Period
          /\ mVin \subseteq Part /\ answers \subseteq Part
          /\ sent \in Nat

\* The VIN goes to the hosts exactly once, when the last of its parts has come, in
\* whatever order they came, though late and repeated requests bring parts again.
VinSentOnce == sent = IF mVin = Part THEN 1 ELSE 0

\* A vehicle whose tables let the request be written gets its VIN through to the hosts,
\* whatever the hosts write in the meantime and however many requests and parts are lost.
VinEventuallySent ==
    LET index == lookupSignal("service_id")
    IN  (index # 0 /\ vehicle.signals[index].writable) ~> (sent = 1)
=============================================================================
