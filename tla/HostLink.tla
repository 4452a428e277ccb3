------------------------------- MODULE HostLink -------------------------------
(***************************************************************************)
(* The main loop between the host's requests (HostReceive) and the data    *)
(* that goes to it (PicSend; see Listener and SerialTransmit for the       *)
(* LPC17xx and Ethernet), and the interrupts and the host between any two  *)
(* of its steps.                                                           *)
(***************************************************************************)
EXTENDS HostReceive, PicSend

CONSTANT MaxTraffic  \* bound on requests and bytes together

ASSUME TrafficAssumption == MaxTraffic \in Nat

VARIABLE pc  \* whether the loop is reading or sending

vars == <<receiveVars, sendVars, pc>>

Init == InitReceive /\ InitSend /\ pc = "read"

-----------------------------------------------------------------------------
Pic == {"pic32 usb", "pic32 uart"}

\* The LPC17xx reads every packet that is there, the other readers run once.
Read == /\ pc = "read"
        /\ ReadStep
        /\ pc' = IF link = "lpc17xx usb" THEN "read" ELSE "send"
        /\ UNCHANGED sendVars

NothingToRead == /\ pc = "read"
                 /\ link = "pic32 usb" => armed
                 /\ pc' = "send"
                 /\ UNCHANGED <<receiveVars, sendVars>>

\* processListenerQueues.
Send == /\ pc = "send"
        /\ CASE link = "pic32 usb"  -> UsbSendStep
             [] link = "pic32 uart" -> SerialSendStep
             [] OTHER               -> UNCHANGED sendVars
        /\ pc' = IF link \notin Pic \/ sendPc = "done" THEN "read" ELSE "send"
        /\ UNCHANGED receiveVars

LoopStep == Read \/ NothingToRead \/ Send

Traffic == asked + produced < MaxTraffic

HostStep == /\ \/ Traffic /\ HostAsks
               \/ PacketArrives
            /\ UNCHANGED <<sendVars, pc>>

\* Only the main loop fills the queue, in between.
Outgoing == /\ link \in Pic
            /\ \/ HostTakes
               \/ Traffic /\ pc = "read" /\ Produce
            /\ UNCHANGED <<receiveVars, pc>>

UsbEvent == /\ link = "pic32 usb"
            /\ VbusChanges \/ EventConfigured
            /\ UNCHANGED <<receiveVars, pc>>

Next == LoopStep \/ HostStep \/ Outgoing \/ UsbEvent

Spec == Init /\ [][Next]_vars

\* The loop never ends.
FairSpec == Spec /\ WF_vars(LoopStep)

-----------------------------------------------------------------------------
TypeOK == ReceiveTypeOK /\ SendTypeOK /\ pc \in {"read", "send"}

\* "If USB is attached and configured, but the host isn't sending an IN requests, we will
\* block here forever" (pic32/usbutil.cpp:55-58) is what the bound on the wait is for: the
\* main loop reads again and again whatever the host does.  The UART has no such bound:
\* a peer that holds CTS stops the loop.
MainLoopGoesOn == []<>(pc = "read" \/ link = "pic32 uart")
=============================================================================
