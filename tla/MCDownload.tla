------------------------------- MODULE MCDownload -------------------------------
(* A file with no packet, and one with a full packet and a part of one; at the *)
(* other eNodeB a file may have the length of the other one.                   *)
EXTENDS Download, TLC

CONSTANTS empty, odd

MCFiles == {empty, odd}
MCSize == (empty :> 0) @@ (odd :> 3)
MCFds == {7, 8}
================================================================================
