---------------------------- MODULE ByteChannel ----------------------------
(***************************************************************************)
(* What the serial transmit path promises: the peer receives exactly the   *)
(* bytes that were put in the send queue, each once and in the order they  *)
(* were put there.  Nothing is lost, repeated, altered or overtaken,       *)
(* whichever of the main loop and the interrupt handler moves a byte.      *)
(***************************************************************************)
EXTENDS Naturals, Sequences

CONSTANT Byte

VARIABLES offered,   \* every byte put in the send queue, oldest first
          wire       \* every byte the peer has received, oldest first

chanVars == <<offered, wire>>

ChanInit == /\ offered = <<>>
            /\ wire = <<>>

Offer == /\ \E b \in Byte : offered' = Append(offered, b)
         /\ UNCHANGED wire

Deliver == /\ Len(wire) < Len(offered)
           /\ wire' = Append(wire, offered[Len(wire) + 1])
           /\ UNCHANGED offered

ChanNext == Offer \/ Deliver

ChanSpec == ChanInit /\ [][ChanNext]_chanVars
=============================================================================
