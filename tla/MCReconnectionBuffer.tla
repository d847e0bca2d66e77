------------------------ MODULE MCReconnectionBuffer ------------------------
(* Three client info messages, two of them with the same temp_c_rnti. *)
EXTENDS ReconnectionBuffer

CONSTANTS c1, c2, c3

MCClients == {c1, c2, c3}
MCRntis == {4, 5, 6}
MCRnti == [c \in MCClients |-> IF c = c3 THEN 5 ELSE 4]
============================================================================
