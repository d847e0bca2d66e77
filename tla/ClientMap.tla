------------------------------- MODULE ClientMap -------------------------------
(***************************************************************************)
(* What the rest of the program relies on when it uses the hash table: a   *)
(* map from descriptors to client records, in which a descriptor that is   *)
(* accepted gets a record of its own, and one that is closed loses it.     *)
(***************************************************************************)
CONSTANTS Keys, Cells, NULL

VARIABLE clients    \* the record of each key, or NULL

Init == clients = [k \in Keys |-> NULL]

Add(k) ==
  /\ clients[k] = NULL
  /\ \E c \in Cells : clients'[k] = c /\ \A j \in Keys : clients[j] # c

Delete(k) == clients'[k] = NULL

Next ==
  \E k \in Keys : /\ clients'[k] # clients[k]
                  /\ Add(k) \/ Delete(k)
                  /\ clients' = [clients EXCEPT ![k] = clients'[k]]

Spec == Init /\ [][Next]_clients
================================================================================
