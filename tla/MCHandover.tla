------------------------------- MODULE MCHandover -------------------------------
(* With one descriptor at the source every UE has the c-rnti of the one before. *)
EXTENDS Handover

MCFds == {4}
================================================================================
