---------------------------- MODULE MCServerThreads ----------------------------
(* Three descriptors and two chains, one of which holds all clients. *)
EXTENDS ServerThreads, TLC

MCKeys == {1, 3, 5}

\* The cells are interchangeable; for safety only.
MCSymmetry == Permutations(Cells)
================================================================================
