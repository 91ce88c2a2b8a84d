-------------------------- MODULE MCSessionStream --------------------------
(* Small instances of SessionStream: see the .cfg files. *)
EXTENDS SessionStream
===========================================================================
