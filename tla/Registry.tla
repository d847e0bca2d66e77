-------------------------------- MODULE Registry --------------------------------
(***************************************************************************)
(* The registry of clients: the chained hash table, node by node, and the  *)
(* threads that walk over it, add to it and delete from it without a lock. *)
(*                                                                         *)
(* A client's table node and its record are allocated together and freed   *)
(* together; the pair is one cell. What a freed cell holds is undefined:   *)
(* the model keeps nothing of it and lets a read return anything.          *)
(*                                                                         *)
(* The loops that look for a cell and the statement that then changes the  *)
(* table are steps of their own, so that steps of other threads come in    *)
(* between; a loop by itself is one step. Any thread may free a cell that  *)
(* another one holds a pointer to: dangling records that it has happened.  *)
(***************************************************************************)
EXTENDS Integers, FiniteSets

CONSTANTS
  Keys,         \* the descriptors of clients
  Cells,        \* the memory for clients
  NULL,
  MAX_CLIENTS   \* number of chains

ASSUME KeysAssumption == Keys \subseteq Nat
ASSUME CellsAssumption == IsFiniteSet(Cells) /\ Cells # {} /\ NULL \notin Cells
\* An addition in progress: the new cell and the last one of the chain.
Additions == [entry : Cells, last : Cells \cup {NULL}]

ASSUME NullAssumption == NULL \notin Additions
ASSUME TableAssumption == MAX_CLIENTS \in Nat \ {0} 

Walkers == {"main", "services", "console"}

\* The functions that iter_Hash and take_action_hash are called with.
WithRecord == {"handle_client_services", "show_client_info"}
WithKey == {"close_connection", "x2_send_server_info"}

Idle == [at |-> "idle", func |-> "none", i |-> 0, entry |-> NULL, next_entry |-> NULL,
         arg |-> 0]
NoDeletion == [cell |-> NULL, pred |-> NULL]

VARIABLES
  Table, key, next,  \* chain heads, and the fields of each cell
  allocated,         \* cells in use
  adding,            \* add_Hash on the main thread between its walk and its store,
                     \* or NULL
  walk,              \* for each thread its place in iter_Hash or take_action_hash
                     \* with func: "pass" before it looks at entry, "func" while
                     \* the function runs with the key arg
  deleting,          \* for each thread the cell that del_connected_client has found
                     \* and is about to free, and the cell before it in the chain
  dangling,          \* history: a cell was freed that another thread holds
  present, visited,  \* history of the services thread's walk: the clients there
                     \* since it began, and those it has run the function on
  process            \* "running" or "segv"

table == <<Table, key, next, allocated>>
history == <<present, visited>>
vars == <<table, adding, walk, deleting, dangling, history, process>>

Init ==
  /\ Table = [n \in 0 .. MAX_CLIENTS - 1 |-> NULL]
  /\ key = [c \in Cells |-> 0]
  /\ next = [c \in Cells |-> NULL]
  /\ allocated = {}
  /\ adding = NULL
  /\ walk = [t \in Walkers |-> Idle]
  /\ deleting = [t \in Walkers |-> NoDeletion]
  /\ dangling = FALSE
  /\ present = {}
  /\ visited = {}
  /\ process = "running"

----------------------------------------------------------------------------
(* The table. *)

compute_Hash(k) == IF k < MAX_CLIENTS THEN k ELSE k % MAX_CLIENTS

Longest == Cardinality(Cells)

\* The cells a loop along the next pointers meets if it starts in S.
Follow(S) ==
  LET met[i \in 1 .. Longest] ==
        IF i = 1 THEN S \ {NULL}
        ELSE LET m == met[i - 1] IN m \cup ({next[c] : c \in m} \ {NULL})
  IN  met[Longest]

Chain(n) == Follow({Table[n]})
Linked == Follow({Table[n] : n \in DOMAIN Table})

\* The loop of lookup_Hash; keys are unique, as descriptors are.
lookup_Hash(k) ==
  LET matches == {c \in Chain(compute_Hash(k)) : key[c] = k}
  IN  IF matches = {} THEN NULL ELSE CHOOSE c \in matches : TRUE

\* Seeded fault: the head of the chain is taken for its last cell.
LastEntry_head(n) == Table[n]

LastEntry(n) ==
  LET last == {c \in Chain(n) : next[c] = NULL}
  IN  IF last = {} THEN NULL ELSE CHOOSE c \in last : TRUE

\* The cells that a thread has pointers to which it may still follow.
Held(t) ==
  {walk[t].next_entry, deleting[t].cell, deleting[t].pred}
    \cup (IF walk[t].at = "pass" \/ walk[t].func \in WithRecord THEN {walk[t].entry} ELSE {})
    \cup (IF t = "main" /\ adding # NULL THEN {adding.last} ELSE {})

----------------------------------------------------------------------------
(* Deletions. *)

Inactive(t) == deleting[t] = NoDeletion

\* Seeded fault: the loop takes the head of the chain for the cell before c.
Before_head(n, c) == IF Table[n] = c THEN NULL ELSE Table[n]

\* The loop of delete_value_hash: the cell before c, or NULL at the head.
Before(n, c) ==
  LET before == {d \in Chain(n) : next[d] = c}
  IN  IF before = {} THEN NULL ELSE CHOOSE d \in before : TRUE

\* del_connected_client and delete_value_hash find the cell.
find_to_delete(t, c) ==
  /\ deleting' = [deleting EXCEPT
       ![t] = [cell |-> c, pred |-> Before(compute_Hash(key[c]), c)]]
  /\ UNCHANGED <<table, adding, walk, dangling, history, process>>

\* Seeded fault: the chain is cut at the cell that is deleted.
unlink_rest(c, pred) ==
  /\ Table' = IF pred = NULL THEN [Table EXCEPT ![compute_Hash(key[c])] = NULL] ELSE Table
  /\ next' = [e \in Cells |-> IF e \in {c, pred} THEN NULL ELSE next[e]]

\* The head of the chain, or the cell before it, is made to point behind the cell.
unlink(c, pred) ==
  /\ Table' = IF pred = NULL THEN [Table EXCEPT ![compute_Hash(key[c])] = next[c]] ELSE Table
  /\ next' = [e \in Cells |-> IF e = c THEN NULL ELSE IF e = pred THEN next[c] ELSE next[e]]

\* Seeded fault: the next entry is read after the function has returned.
Proceed_late(t) ==
  walk' = [walk EXCEPT ![t] = [@ EXCEPT !.at = "pass", !.entry = next'[@],
                                        !.next_entry = NULL, !.arg = 0]]

\* The walk goes on when its function has returned.
Proceed(t) ==
  walk' = [walk EXCEPT ![t] = [@ EXCEPT !.at = "pass", !.entry = walk[t].next_entry,
                                        !.next_entry = NULL, !.arg = 0]]

\* The cell is taken out and freed, and close_connection returns to the walk that
\* called it, or to main's loop. Deletions of cells that are free already, or behind
\* one that is, are not followed.
delete_value_hash(t) ==
  LET c == deleting[t].cell
      pred == deleting[t].pred
  IN  /\ ~Inactive(t)
      /\ c \in allocated /\ pred \in allocated \cup {NULL}
      /\ unlink(c, pred)
      /\ key' = [key EXCEPT ![c] = 0]
      /\ allocated' = allocated \ {c}
      /\ dangling' = (dangling \/ \E u \in Walkers \ {t} : c \in Held(u))
      /\ deleting' = [deleting EXCEPT ![t] = NoDeletion]
      /\ present' = present \ {c}
      /\ visited' = visited \ {c}
      /\ IF walk[t] = Idle THEN UNCHANGED walk ELSE Proceed(t)
      /\ UNCHANGED <<adding, process>>

----------------------------------------------------------------------------
(* The main thread adds and deletes clients. *)

MainFree == adding = NULL /\ walk["main"] = Idle /\ Inactive("main")

\* add_connected_client and add_reconnected_client: calloc and the loop of
\* add_Hash. The key is a descriptor that was just accepted.
add_Hash(k) ==
  /\ MainFree
  /\ lookup_Hash(k) = NULL
  /\ \E c \in Cells \ allocated :
       /\ allocated' = allocated \cup {c}
       /\ key' = [key EXCEPT ![c] = k]
       /\ next' = [next EXCEPT ![c] = NULL]
       /\ adding' = [entry |-> c, last |-> LastEntry(compute_Hash(k))]
  /\ UNCHANGED <<Table, walk, deleting, dangling, history, process>>

\* The store that makes the client visible.
add_Hash_link ==
  /\ adding # NULL
  /\ IF adding.last = NULL
     THEN /\ Table' = [Table EXCEPT ![compute_Hash(key[adding.entry])] =
                                        adding.entry]
          /\ UNCHANGED next
     ELSE /\ next' = [next EXCEPT ![adding.last] = adding.entry]
          /\ UNCHANGED Table
  /\ adding' = NULL
  /\ UNCHANGED <<key, allocated, walk, deleting, dangling, history, process>>

\* close_connection of a client that hung up or shut down.
MainDeletes(k) ==
  /\ MainFree
  /\ lookup_Hash(k) # NULL
  /\ find_to_delete("main", lookup_Hash(k))

----------------------------------------------------------------------------
(* iter_Hash and take_action_hash. *)

StartWalk(t, func) ==
  /\ walk[t] = Idle /\ Inactive(t)
  /\ walk' = [walk EXCEPT ![t] = [Idle EXCEPT !.at = "pass", !.func = func,
                                               !.entry = Table[0]]]
  /\ IF t = "services" THEN present' = Linked /\ visited' = {}
                       ELSE UNCHANGED history
  /\ UNCHANGED <<table, adding, deleting, dangling, process>>

AtEnd(t) == walk[t].at = "pass" /\ walk[t].entry = NULL

\* Seeded fault: the walk goes one chain too far.
NextChain_beyond(t) ==
  /\ AtEnd(t)
  /\ LET i == walk[t].i + 1
     IN  walk' = [walk EXCEPT ![t] =
                    IF i < MAX_CLIENTS THEN [@ EXCEPT !.i = i, !.entry = Table[i]]
                    ELSE IF i = MAX_CLIENTS THEN [@ EXCEPT !.i = i] ELSE Idle]
  /\ UNCHANGED <<table, adding, deleting, dangling, history, process>>

\* Seeded fault: the chain is not counted up.
NextChain_again(t) ==
  /\ AtEnd(t)
  /\ walk' = [walk EXCEPT ![t].entry = Table[walk[t].i]]
  /\ UNCHANGED <<table, adding, deleting, dangling, history, process>>

\* The next chain, or the end of the walk.
NextChain(t) ==
  /\ AtEnd(t)
  /\ LET i == walk[t].i + 1
     IN  walk' = [walk EXCEPT ![t] =
                    IF i < MAX_CLIENTS
                    THEN [@ EXCEPT !.i = i, !.entry = Table[i]] ELSE Idle]
  /\ UNCHANGED <<table, adding, deleting, dangling, history, process>>

\* The entry's fields are read and the function called.
Visit(t) ==
  /\ walk[t].at = "pass"
  /\ walk[t].entry \in allocated
  /\ walk' = [walk EXCEPT ![t].at = "func", ![t].arg = key[walk[t].entry],
                          ![t].next_entry = next[walk[t].entry]]
  /\ UNCHANGED <<table, adding, deleting, dangling, history, process>>

\* If the cell was freed the process may end, or go on with whatever is there.
VisitFreed(t) ==
  /\ walk[t].at = "pass"
  /\ walk[t].entry \in Cells \ allocated
  /\ \/ /\ \E k \in Keys, e \in Cells \cup {NULL} :
             walk' = [walk EXCEPT ![t].at = "func", ![t].arg = k, ![t].next_entry = e]
        /\ UNCHANGED process
     \/ process' = "segv" /\ UNCHANGED walk
  /\ UNCHANGED <<table, adding, deleting, dangling, history>>

\* The function sends to the client, or prints it, and returns.
Use(t) ==
  /\ walk[t].at = "func" /\ walk[t].func # "close_connection" /\ Inactive(t)
  /\ UNCHANGED <<table, adding, deleting, dangling, present, process>>
  /\ Proceed(t)
  /\ visited' = IF t = "services" THEN visited \cup {walk[t].entry} ELSE visited

\* close_connection of the client, if it is still there.
Close(t) ==
  /\ walk[t].at = "func" /\ Inactive(t)
  /\ LET c == lookup_Hash(walk[t].arg)
     IN  \/ c # NULL /\ find_to_delete(t, c)
         \/ /\ c = NULL
            /\ UNCHANGED <<table, adding, deleting, dangling, history, process>>
            /\ Proceed(t)

\* take_action_hash(close_connection).
CloseEach(t) == walk[t].func = "close_connection" /\ Close(t)

\* ping_client closes a silent client, not in the walk in which it came.
PingCloses == walk["services"].entry \in present /\ Close("services")

WalkStep(t) == NextChain(t) \/ Visit(t)

----------------------------------------------------------------------------
InWalk(t) == WalkStep(t) \/ VisitFreed(t) \/ delete_value_hash(t)

Main == \/ add_Hash_link \/ \E k \in Keys : add_Hash(k) \/ MainDeletes(k)
        \/ MainFree /\ StartWalk("main", "x2_send_server_info")
        \/ InWalk("main") \/ Use("main")

Services == \/ StartWalk("services", "handle_client_services")
            \/ InWalk("services") \/ Use("services") \/ PingCloses

Console == \/ \E func \in {"show_client_info", "close_connection"} : StartWalk("console", func)
           \/ InWalk("console") \/ Use("console") \/ CloseEach("console")

Next == process = "running" /\ (Main \/ Services \/ Console)

Spec == Init /\ [][Next]_vars

----------------------------------------------------------------------------
(* Properties. *)

TypeOK ==
  /\ Table \in [0 .. MAX_CLIENTS - 1 -> Cells \cup {NULL}]
  /\ key \in [Cells -> Keys \cup {0}]
  /\ next \in [Cells -> Cells \cup {NULL}]
  /\ allocated \subseteq Cells
  /\ adding \in {NULL} \cup Additions
  /\ walk \in [Walkers -> [at : {"idle", "pass", "func"},
                           func : WithRecord \cup WithKey \cup {"none"},
                           i : 0 .. MAX_CLIENTS - 1,
                           entry : Cells \cup {NULL}, next_entry : Cells \cup {NULL},
                           arg : Keys \cup {0}]]
  /\ deleting \in [Walkers -> [cell : Cells \cup {NULL}, pred : Cells \cup {NULL}]]
  /\ dangling \in BOOLEAN
  /\ present \subseteq Cells
  /\ visited \subseteq Cells
  /\ process \in {"running", "segv"}

\* The map this table stands for.
clients == [k \in Keys |-> lookup_Hash(k)]

\* The table behaves as a map, up to the first deletion of a cell that another
\* thread holds: additions are two steps, deletions are two steps, chains have
\* several cells, and each of the three threads may delete one while the others are
\* in the middle of a walk, an addition or a deletion of their own. Each lookup finds
\* the record added last under its key, and a deletion or an addition disturbs no
\* other key of the chain.
Map == INSTANCE ClientMap
ImplementsMap == Map!Spec

\* A thread can be deprived of its cells only directly, by a deletion of one that it
\* holds. As long as none was, whatever else the other threads delete, add and reuse:
\* a thread in the middle of a walk holds linked cells of the chain it is in;
\* add_Hash links the new cell to one that is still the last of its chain;
\* delete_value_hash unlinks a cell from the one that is still before it.
HoldsLinkedCells ==
  ~dangling =>
    /\ \A t \in Walkers :
         /\ Held(t) \subseteq Linked \cup {NULL}
         /\ walk[t].next_entry # NULL => walk[t].next_entry \in Chain(walk[t].i)
         /\ LET c == deleting[t].cell
                pred == deleting[t].pred
            IN  c # NULL => IF pred = NULL THEN Table[compute_Hash(key[c])] = c
                                           ELSE next[pred] = c
    /\ adding # NULL =>
         LET n == compute_Hash(key[adding.entry])
         IN  IF adding.last = NULL THEN Table[n] = NULL
             ELSE adding.last \in Chain(n) /\ next[adding.last] = NULL

\* No memory is lost: an allocated cell is in the table or about to be.
NoLostClient ==
  allocated = Linked \cup IF adding = NULL THEN {} ELSE {adding.entry}

\* In one walk of the services thread every client that is there all the time is
\* serviced once: none is skipped and none serviced twice, whatever is added
\* meanwhile, and closed by this thread or by others.
EveryoneServicedOnce ==
  [][/\ walk["services"].at = "func" => walk["services"].entry \notin visited
     /\ walk["services"] # Idle /\ walk'["services"] = Idle
          => present \subseteq visited]_vars

\* hash_table.h says of iter_Hash "run function on every value in table"
\* (hash_table.h:24): the function runs on nothing else.
RunsOnTableValues ==
  [][walk["services"].at = "pass" /\ walk'["services"].at = "func"
       => walk["services"].entry \in Linked]_vars
================================================================================
