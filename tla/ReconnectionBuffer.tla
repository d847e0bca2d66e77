------------------------- MODULE ReconnectionBuffer -------------------------
(***************************************************************************)
(* The growing array in which service_X2_handover.c keeps the clients that *)
(* wait for reconnection. Only the main thread uses it, so each function   *)
(* is one step. An array cell is Junk until it is written.                 *)
(***************************************************************************)
EXTENDS Integers, Sequences

CONSTANTS
  Clients,      \* contents of a client info message
  temp_c_rnti,  \* the temp_c_rnti in each of them
  NotFound,     \* ERR_RECONNECTION_CLIENT_BUFFER_CLIENT_NOT_FOUND
  Junk,         \* contents of a cell that malloc or realloc returned
  Rntis,        \* the values of old_c_rnti that UEs present
  MaxWaiting    \* bound on the clients waiting

ASSUME RntiAssumption == Rntis \subseteq Int /\ temp_c_rnti \in [Clients -> Rntis]
ASSUME JunkAssumption == Junk \notin Clients /\ NotFound \notin Clients
ASSUME WaitingAssumption == MaxWaiting \in Nat

VARIABLES
  buffer,       \* reconnection_clients_buffer, with indices from 0
  size,         \* reconnection_clients_buffer_size, 0 while buffer is NULL
  index,        \* reconnection_clients_buffer_index
  target        \* what the last get_reconnection_client returned

vars == <<buffer, size, index, target>>

Init ==
  /\ buffer = [i \in {} |-> Junk]
  /\ size = 0
  /\ index = 0
  /\ target = NotFound

\* The array with room for n clients, and client c in cell k.
Stored(n, k, c) ==
  [i \in 0 .. n - 1 |-> IF i = k THEN c
                        ELSE IF i \in DOMAIN buffer THEN buffer[i] ELSE Junk]

\* Seeded fault: the array grows one client too late.
Grown_late ==
  IF size = 0 THEN 2 ELSE IF index > size THEN size * 2 ELSE size

Grown == IF size = 0 THEN 2 ELSE IF index >= size THEN size * 2 ELSE size

add_reconnection_client(c) ==
  /\ index < MaxWaiting
  /\ size' = Grown
  /\ buffer' = Stored(size', index, c)
  /\ index' = index + 1
  /\ UNCHANGED target

\* The first loop of get_reconnection_client stops at i.
Found(i, c_rnti) ==
  /\ i \in 0 .. index - 1
  /\ temp_c_rnti[buffer[i]] = c_rnti
  /\ \A j \in 0 .. i - 1 : temp_c_rnti[buffer[j]] # c_rnti

\* Seeded fault: the loop that closes the gap stops one client early.
Shifted_short(i) ==
  [k \in DOMAIN buffer |-> IF k \in i .. index - 3 THEN buffer[k + 1] ELSE buffer[k]]

\* The second loop, after index has been decremented.
Shifted(i) ==
  [k \in DOMAIN buffer |-> IF k \in i .. index - 2 THEN buffer[k + 1] ELSE buffer[k]]

get_reconnection_client(c_rnti) ==
  \E i \in 0 .. index - 1 :
    /\ Found(i, c_rnti)
    /\ target' = buffer[i]
    /\ index' = index - 1
    /\ buffer' = Shifted(i)
    /\ UNCHANGED size

\* Seeded fault: index is decremented before the search is known to succeed.
decrement_first(c_rnti) ==
  /\ \A i \in 0 .. index - 1 : temp_c_rnti[buffer[i]] # c_rnti
  /\ target' = NotFound
  /\ index' = index - 1
  /\ UNCHANGED <<buffer, size>>

client_not_found(c_rnti) ==
  /\ \A i \in 0 .. index - 1 : temp_c_rnti[buffer[i]] # c_rnti
  /\ target' = NotFound
  /\ UNCHANGED <<buffer, size, index>>

Next ==
  \/ \E c \in Clients : add_reconnection_client(c)
  \/ \E c_rnti \in Rntis : get_reconnection_client(c_rnti) \/ client_not_found(c_rnti)

Spec == Init /\ [][Next]_vars

----------------------------------------------------------------------------
TypeOK ==
  /\ size \in Nat
  /\ index \in Nat
  /\ buffer \in [0 .. size - 1 -> Clients \cup {Junk}]
  /\ target \in Clients \cup {NotFound}

\* No cell beyond the allocation is written, and no cell that was never written
\* is compared or handed out: the cells below index exist and hold clients.
InBounds ==
  /\ index <= size
  /\ \A i \in 0 .. index - 1 : buffer[i] \in Clients

\* The clients in the array, in its order.
Contents == [i \in 1 .. index |-> buffer[i - 1]]

\* The array, its growth and its two loops implement the queue: nobody's session
\* is lost, duplicated or handed to the holder of another c-rnti.
Queue == INSTANCE ReconnectionQueue WITH waiting <- Contents
ImplementsQueue == Queue!Spec
============================================================================
