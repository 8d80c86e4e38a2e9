----------------------------- MODULE MCListener -----------------------------
(* Listener.tla at model-checking size. *)
EXTENDS Listener
=============================================================================
