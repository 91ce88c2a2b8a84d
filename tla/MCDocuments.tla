---------------------------- MODULE MCDocuments ----------------------------
(* A small instance of Documents: see the .cfg file. *)
EXTENDS Documents, TLC

Symmetry == Permutations(Clients)

=============================================================================
