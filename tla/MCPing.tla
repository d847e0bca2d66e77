------------------------------- MODULE MCPing -------------------------------
(* A tick is half a second. *)
EXTENDS Ping

MCHigh == 10
MCLow == 20
MCMaxResponse == 20
============================================================================
