------------------------------ MODULE MCENodeB ------------------------------
(* The instances of ENodeB that TLC checks. *)
EXTENDS ENodeB, TLC

CONSTANTS p, q, none, garbled

MCFds2 == {4, 5}
MCFds3 == {4, 5, 6}
MCPeers == {p, q}

\* The eNodeBs differ only by their address.
MCSymmetry == Permutations(MCPeers)
============================================================================
