------------------------------- MODULE MCHitl -------------------------------
(* Two instances, one request and two answers: see the .cfg file. *)
EXTENDS Hitl

=============================================================================
