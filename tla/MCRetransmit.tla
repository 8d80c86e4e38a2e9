---------------------------- MODULE MCRetransmit ----------------------------
(* Retransmit with a few units of each clock.                               *)
EXTENDS Retransmit
=============================================================================
