----------------------------- MODULE LossyChannel -----------------------------
(***************************************************************************)
(* What is promised of a path on which things may get lost: of the things  *)
(* offered, numbered from 1, each is delivered at most once and none       *)
(* before an older one.                                                    *)
(***************************************************************************)
EXTENDS Naturals, Sequences, SequencesExt

VARIABLES offered,    \* how many there are
          delivered   \* the numbers of those delivered, oldest first

lossyVars == <<offered, delivered>>

LossyInit == offered = 0 /\ delivered = <<>>

Offer == /\ offered' > offered
         /\ UNCHANGED delivered

Latest == IF delivered = <<>> THEN 0 ELSE delivered[Len(delivered)]

\* Some of those that are younger than all that were delivered, in order; the rest of
\* these are lost, or come later if they are younger still.
Deliver == /\ IsStrictPrefix(delivered, delivered')
           /\ \A i \in Len(delivered) + 1 .. Len(delivered') :
                 delivered'[i] \in Latest + 1 .. offered
           /\ \A i, j \in Len(delivered) + 1 .. Len(delivered') :
                 i < j => delivered'[i] < delivered'[j]
           /\ UNCHANGED offered

LossyNext == Offer \/ Deliver

LossySpec == LossyInit /\ [][LossyNext]_lossyVars
=============================================================================
