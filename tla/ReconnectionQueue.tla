------------------------- MODULE ReconnectionQueue -------------------------
(***************************************************************************)
(* What a handover relies on: the clients announced by the other eNodeB    *)
(* wait in the order in which they were announced, and a UE that reconnects *)
(* with its old c-rnti takes the one that has waited longest under it.      *)
(***************************************************************************)
EXTENDS Integers, Sequences

CONSTANTS
  Clients,      \* contents of a client info message
  temp_c_rnti,  \* the temp_c_rnti in each of them
  NotFound,     \* result of a search that finds none
  Rntis,        \* the c-rntis that UEs present
  MaxWaiting    \* bound on the clients waiting

VARIABLES
  waiting,      \* the clients announced and not reconnected yet
  target        \* result of the last search

vars == <<waiting, target>>

Init == waiting = <<>> /\ target = NotFound

Announce(c) ==
  /\ Len(waiting) < MaxWaiting
  /\ waiting' = Append(waiting, c)
  /\ UNCHANGED target

LongestWaiting(i, c_rnti) ==
  /\ i \in 1 .. Len(waiting)
  /\ temp_c_rnti[waiting[i]] = c_rnti
  /\ \A j \in 1 .. i - 1 : temp_c_rnti[waiting[j]] # c_rnti

Claim(c_rnti) ==
  \E i \in 1 .. Len(waiting) :
    /\ LongestWaiting(i, c_rnti)
    /\ target' = waiting[i]
    /\ waiting' = SubSeq(waiting, 1, i - 1) \o SubSeq(waiting, i + 1, Len(waiting))

Refuse(c_rnti) ==
  /\ \A i \in 1 .. Len(waiting) : temp_c_rnti[waiting[i]] # c_rnti
  /\ target' = NotFound
  /\ UNCHANGED waiting

Next ==
  \/ \E c \in Clients : Announce(c)
  \/ \E c_rnti \in Rntis : Claim(c_rnti) \/ Refuse(c_rnti)

Spec == Init /\ [][Next]_vars
============================================================================
