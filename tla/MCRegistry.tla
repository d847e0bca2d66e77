------------------------------- MODULE MCRegistry -------------------------------
(* Four descriptors in two chains, one of which can hold three clients. *)
EXTENDS Registry

MCKeys == {1, 3, 4, 5}
================================================================================
