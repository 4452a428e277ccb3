------------------------------ MODULE MCListener ------------------------------
(* A small instance of Listener: two messages of one and two bytes. *)
EXTENDS Listener, TLC

CONSTANTS m1, m2

MCMessage == {m1, m2}

MCSize == m1 :> 1 @@ m2 :> 2
=============================================================================
