--------------------------- MODULE MCRunRegistry ---------------------------
(* Two instances, two turns and two Stops: see the .cfg files. *)
EXTENDS RunRegistry, TLC

Symmetry == Permutations(Instances) \cup Permutations(Runs) \cup Permutations(Stops)

=============================================================================
