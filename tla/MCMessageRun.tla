---------------------------- MODULE MCMessageRun ----------------------------
(* Small instances of MessageRun: see the .cfg files. *)
EXTENDS MessageRun, TLC

Symmetry == Permutations(Readers)

=============================================================================
