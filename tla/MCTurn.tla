------------------------------- MODULE MCTurn -------------------------------
(* Small instances of Turn: see the .cfg files. *)
EXTENDS Turn

=============================================================================
