------------------------- MODULE ServerThreadsProofs -------------------------
(***************************************************************************)
(* The threads of the server around the registry, for any number of        *)
(* chains, clients, keys and events.                                       *)
(***************************************************************************)
EXTENDS ServerThreads, RegistryProofs

\* Who may be in the table in each stage of the shutdown, and what is left of it.
Stages ==
  /\ services = "ended" => walk["services"] = Idle
  /\ console # "walk" => walk["console"] = Idle
  /\ main \notin {"loop", "close"} => walk["main"] = Idle
  /\ main # "loop" => adding = NULL /\ (walk["main"] = Idle => Inactive("main"))
  /\ main \in {"join_interactive", "close", "down"} => services = "ended"
  /\ main \in {"close", "down"} => console \in {"ended", "absent"}
  /\ main = "close" =>
       /\ allocated \subseteq Ahead(next, Table, walk["main"])
       /\ walk["main"].at = "func" => AtClient(next, Table, key, walk["main"])
  /\ main = "down" => allocated = {}

\* The table is a map whatever happens; it and the threads are in order as long as no
\* thread was deprived of a cell, and always when the server has stopped.
IInv ==
  /\ ThreadsTypeOK /\ Kept
  /\ ~dangling => TableInv /\ Stages
  /\ main = "down" => ~dangling

\* The invariant holds when the threads start.
LEMMA ThreadsInitially == InitThreads => IInv
<1> SUFFICES ASSUME InitThreads PROVE IInv
  OBVIOUS
<1>1. TableInv /\ Kept
  BY TableInitially DEF InitThreads, TableInv
<1>2. ThreadsTypeOK
  BY <1>1, EventsAssumption DEF InitThreads, ThreadsTypeOK, Kept
<1>3. Stages
  BY DEF InitThreads, Init, Stages, Walkers
<1> QED
  BY <1>1, <1>2, <1>3 DEF IInv, InitThreads

\* A step of a thread in the table changes the place of no other thread.
LEMMA OnlyOwn ==
  ASSUME TableInv, NEW t \in Walkers,
         \/ \E func : StartWalk(t, func)
         \/ WalkStep(t) \/ Use(t) \/ Close(t) \/ delete_value_hash(t)
  PROVE  /\ adding' = adding
         /\ \A u \in Walkers : u # t => walk'[u] = walk[u] /\ deleting'[u] = deleting[u]
         /\ \/ \E func : StartWalk(t, func)
            \/ walk[t] # Idle
            \/ t = "main" /\ delete_value_hash(t)
<1>1. walk \in [Walkers -> Steps] /\ deleting \in [Walkers -> Deletions]
  BY ThreadTypes DEF TableInv
<1>2. CASE \E func : StartWalk(t, func)
  BY <1>1, <1>2 DEF StartWalk
<1>3. CASE WalkStep(t) \/ Use(t)
  BY <1>1, <1>3 DEF WalkStep, NextChain, AtEnd, Visit, Use, Proceed, Idle
<1>4. CASE Close(t)
  BY <1>1, <1>4 DEF Close, Proceed, find_to_delete, Idle
<1>5. CASE delete_value_hash(t)
  <2>1. t = "main" \/ walk[t] # Idle
    BY <1>5 DEF delete_value_hash, TableInv, Deleting, Idle
  <2> QED
    BY <1>5, <2>1, RemoveStep
<1> QED
  BY <1>2, <1>3, <1>4, <1>5

----------------------------------------------------------------------------
(* The steps of the main thread. *)

\* An event is handled while main is in its loop.
LEMMA Handled ==
  ASSUME TableInv, Stages, HandleEvent \/ Handling
  PROVE  TableStep /\ Stages'
<1>1. main = "loop" /\ main' = "loop" /\ UNCHANGED <<services, console>> /\ "main" \in Walkers
  BY DEF HandleEvent, Handling, threads, Walkers
<1>2. ASSUME \A u \in Walkers : u # "main" => walk'[u] = walk[u] PROVE Stages'
  BY <1>1, <1>2 DEF Stages, Walkers
<1>3. CASE UNCHANGED vars \/ add_Hash_link \/ \E k \in Keys : add_Hash(k) \/ MainDeletes(k)
  <2>1. walk' = walk
    BY <1>3, AddStep, LinkStep DEF vars, MainDeletes, find_to_delete
  <2>2. TableStep
    BY <1>3 DEF TableStep
  <2> QED
    BY <1>2, <2>1, <2>2
<1>4. CASE MainFree /\ StartWalk("main", "x2_send_server_info")
  BY <1>1, <1>2, <1>4, OnlyOwn DEF TableStep, MainFree, WithKey
<1>5. CASE delete_value_hash("main") \/ WalkStep("main") \/ Use("main")
  BY <1>1, <1>2, <1>5, OnlyOwn DEF TableStep
<1> QED
  BY <1>3, <1>4, <1>5 DEF HandleEvent, Handling

\* The loop is left, and the services thread joined, without touching the table.
LEMMA Left ==
  ASSUME TableInv, Stages, LeaveLoop \/ JoinServices
  PROVE  TableStep /\ Stages'
<1>1. UNCHANGED <<Table, key, next, allocated, adding, walk, deleting>> /\ TableStep
  BY DEF LeaveLoop, JoinServices, TableStep, vars, table
<1> QED
  BY <1>1 DEF LeaveLoop, JoinServices, MainFree, Stages, Inactive

\* Once both threads are joined every client is ahead of the walk that closes them.
LEMMA Joined ==
  ASSUME TableInv, Stages, JoinInteractive
  PROVE  /\ \/ TableStep
            \/ UNCHANGED <<table, adding, walk, deleting, dangling, history>> /\ process' = "segv"
         /\ Stages'
<1>1. /\ main = "join_interactive" /\ UNCHANGED <<services, console>> /\ services = "ended"
      /\ adding = NULL /\ "main" \in Walkers
  BY DEF JoinInteractive, Stages, Walkers
<1>2. CASE /\ console \in {"ended", "absent"} /\ StartWalk("main", "close_connection")
           /\ main' = "close"
  <2>1. "close_connection" \in WithRecord \cup WithKey
    BY DEF WithKey
  <2>2. /\ Linked \subseteq Ahead(next', Table', walk'["main"]) /\ walk'["main"].at = "pass"
        /\ \A u \in Walkers : u # "main" => walk'[u] = walk[u]
    BY <1>1, <1>2, <2>1, StartStep
  <2>3. allocated = Linked /\ allocated' = allocated /\ adding' = adding
    BY <1>1, <1>2, TableMeaning DEF TableInv, NoLostClient, StartWalk, table
  <2>4. Stages'
    BY <1>1, <1>2, <2>2, <2>3 DEF Stages, Walkers, Idle
  <2> QED
    BY <1>1, <1>2, <2>1, <2>4 DEF TableStep
<1>3. CASE /\ UNCHANGED <<table, adding, walk, deleting, dangling, history, main>>
           /\ process' = "segv"
  BY <1>1, <1>3 DEF Stages, table, Inactive
<1> QED
  BY <1>2, <1>3 DEF JoinInteractive

\* What is closed is no longer there, and everything else still ahead.
LEMMA Closed ==
  ASSUME TableInv, Stages, CloseClients
  PROVE  TableStep /\ Stages'
<1>1. /\ main = "close" /\ UNCHANGED <<main, services, console>> /\ "main" \in Walkers
      /\ WalkStep("main") \/ Close("main") \/ delete_value_hash("main")
  BY DEF CloseClients, threads, Walkers, CloseEach
<1>2. PICK w, v : w = walk["main"] /\ v = walk'["main"]
  OBVIOUS
<1>3. /\ allocated \subseteq Ahead(next, Table, w) /\ (w = Idle => Inactive("main"))
      /\ w.at = "func" => AtClient(next, Table, key, w)
  BY <1>1, <1>2 DEF Stages
<1>4. /\ \A u \in Walkers : u # "main" => walk'[u] = walk[u]
      /\ adding' = adding
  BY <1>1, OnlyOwn
<1>5. /\ allocated' \subseteq Ahead(next', Table', v)
      /\ v.at = "func" => AtClient(next', Table', key', v)
      /\ v = Idle => deleting'["main"] = NoDeletion
  <2>1. CASE NextChain("main")
    <3>1. UNCHANGED <<Table, key, next, allocated, deleting>> /\ w.at = "pass"
      BY <1>2, <2>1 DEF NextChain, AtEnd, table
    <3>2. Ahead(next', Table', v) = Ahead(next, Table, w) /\ v.at # "func"
      BY <1>1, <1>2, <2>1, NextChainStep
    <3>3. deleting["main"] = NoDeletion
      BY <1>1, <1>2, <3>1, DeletesInFunction DEF Inactive
    <3> QED
      BY <1>3, <3>1, <3>2, <3>3
  <2>2. CASE Visit("main")
    <3>1. UNCHANGED <<Table, key, next, allocated>>
      BY <2>2 DEF Visit, table
    <3>2. /\ Ahead(next', Table', v) = Ahead(next, Table, w) /\ v.at = "func"
          /\ AtClient(next, Table, key, v)
      BY <1>1, <1>2, <2>2, VisitStep
    <3> QED
      BY <1>3, <3>1, <3>2 DEF Idle
  <2>3. CASE Close("main")
    <3>1. w.at = "func"
      BY <1>2, <2>3 DEF Close
    <3>2. UNCHANGED <<key, next, Table, allocated, walk>>
      BY <1>1, <1>2, <1>3, <2>3, <3>1, CloseStep
    <3> QED
      BY <1>2, <1>3, <3>1, <3>2 DEF Idle
  <2>4. CASE delete_value_hash("main")
    <3>1. PICK c : c = deleting["main"].cell
      OBVIOUS
    <3>2. w.at = "func" /\ key[c] = w.arg /\ c \in allocated
      BY <1>1, <1>2, <1>3, <2>4, <3>1
         DEF delete_value_hash, TableInv, Deleting
    <3>3. w.entry = c
      <4>1. key[w.entry] = w.arg /\ w.entry \in allocated
        BY <1>1, <1>2, <1>3, <3>2, Place DEF AtClient, Unlinked
      <4> QED
        BY <3>2, <4>1 DEF TableInv, Kept, Filed
    <3>4. /\ allocated' = allocated \ {c} /\ deleting'["main"] = NoDeletion /\ v.at = "pass"
          /\ Ahead(next', Table', v) = Ahead(next, Table, w) \ {c}
      BY <1>1, <1>2, <2>4, <3>1, <3>2, <3>3, RemoveStep DEF Idle
    <3> QED
      BY <1>3, <3>4
  <2> QED
    BY <1>1, <2>1, <2>2, <2>3, <2>4 DEF WalkStep
<1>6. Stages'
  BY <1>1, <1>2, <1>4, <1>5 DEF Stages, Walkers, Inactive
<1> QED
  BY <1>1, <1>6 DEF TableStep

\* Nothing is left in the table when it is taken away.
LEMMA Deleted ==
  ASSUME TableInv, Stages, delete_Hash
  PROVE  TableInv' /\ Stages' /\ UNCHANGED <<clients, walk, dangling>>
<1>1. /\ main = "close" /\ walk["main"] = Idle /\ main' = "down"
      /\ Table' = [n \in DOMAIN Table |-> NULL] /\ key' = [c \in Cells |-> 0]
      /\ next' = [c \in Cells |-> NULL]
      /\ UNCHANGED <<allocated, adding, walk, deleting, dangling, present, visited, process,
                     services, console>>
  BY DEF delete_Hash, history
<1>2. /\ allocated = {} /\ adding = NULL /\ services = "ended" /\ console \in {"ended", "absent"}
      /\ Inactive("main")
  BY <1>1 DEF Stages, Ahead, Idle
<1>3. \A t \in Walkers : walk[t] = Idle /\ Inactive(t)
  BY <1>1, <1>2 DEF Stages, Walkers, TableInv, Deleting, Idle
<1>4. TypeOK'
  BY <1>1, <1>2 DEF TableInv, Kept, TypeOK
<1>5. Empty'
  BY <1>1, <1>2, <1>3, <1>4 DEF Empty, Inactive
<1>6. TableInv' /\ Unlinked' = Cells /\ Unlinked = Cells
  BY <1>2, <1>5, EmptyAfter DEF Unlinked
<1>7. clients' = clients
  <2>1. Found /\ Found'
    BY <1>6, ClientsFound, FoundAfter DEF TableInv, Kept
  <2>2. \A k \in Keys : clients[k] = NULL /\ clients'[k] = NULL
    BY <1>6, <2>1 DEF Found
  <2>3. clients = [k \in Keys |-> clients[k]] /\ clients' = [k \in Keys |-> clients'[k]]
    BY DEF clients
  <2> QED
    BY ONLY <2>2, <2>3
<1>8. Stages'
  BY <1>1, <1>2, <1>3 DEF Stages, Walkers, Inactive
<1> QED
  BY <1>1, <1>6, <1>7, <1>8

----------------------------------------------------------------------------
(* The steps of the other threads, and of the user. *)

\* The services thread is in the table only until it ends.
LEMMA ServicesRun ==
  ASSUME TableInv, Stages, run_services \/ ServeClients
  PROVE  TableStep /\ Stages'
<1>1. UNCHANGED <<main, console>> /\ "services" \in Walkers
  BY DEF run_services, ServeClients, threads, Walkers
<1>2. CASE services' = "ended" /\ UNCHANGED vars /\ walk["services"] = Idle
  BY <1>1, <1>2 DEF Stages, TableStep, vars, table, Inactive
<1>3. ASSUME \/ StartWalk("services", "handle_client_services") \/ WalkStep("services")
             \/ Use("services") \/ Close("services") \/ delete_value_hash("services"),
             services # "ended", services' = services
      PROVE  TableStep /\ Stages'
  <2>1. /\ \A u \in Walkers : u # "services" => walk'[u] = walk[u] /\ deleting'[u] = deleting[u]
        /\ adding' = adding
    BY <1>1, <1>3, OnlyOwn
  <2>2. Stages'
    BY <1>1, <1>3, <2>1 DEF Stages, Walkers, Inactive
  <2> QED
    BY <1>1, <1>3, <2>2 DEF TableStep, WithRecord
<1>4. CASE run_services
  BY <1>2, <1>3, <1>4 DEF run_services
<1>5. CASE ServeClients
  <2>1. \/ WalkStep("services") \/ Use("services") \/ Close("services")
        \/ delete_value_hash("services")
    BY <1>5 DEF ServeClients, PingCloses
  <2>2. walk["services"] # Idle
    BY <1>1, <2>1 DEF WalkStep, NextChain, AtEnd, Visit, Close, Use, delete_value_hash, Idle,
                      TableInv, Deleting
  <2>3. services # "ended" /\ services' = services
    BY <1>5, <2>2 DEF Stages, ServeClients, threads
  <2> QED
    BY <1>3, <2>1, <2>3
<1> QED
  BY <1>4, <1>5

\* The console is in the table only in two of its commands, which come before its join.
LEMMA ConsoleRun ==
  ASSUME TableInv, Stages, ConsoleLoop \/ ConsoleWalk \/ Command
  PROVE  TableStep /\ Stages'
<1>1. UNCHANGED <<main, services>> /\ "console" \in Walkers
  BY DEF ConsoleLoop, ConsoleWalk, Command, threads, Walkers
<1>2. CASE ConsoleLoop
  BY <1>1, <1>2 DEF ConsoleLoop, Stages, TableStep, vars, table, Inactive
<1>3. CASE console = "reading" /\ console' = "check" /\ UNCHANGED vars
  BY <1>1, <1>3 DEF Stages, TableStep, vars, table, Inactive
<1>4. ASSUME \/ \E func \in {"show_client_info", "close_connection"} : StartWalk("console", func)
             \/ WalkStep("console") \/ Use("console") \/ Close("console")
             \/ delete_value_hash("console"),
             main \notin {"close", "down"}, console' = "walk"
      PROVE  TableStep /\ Stages'
  <2>1. /\ \A u \in Walkers : u # "console" => walk'[u] = walk[u] /\ deleting'[u] = deleting[u]
        /\ adding' = adding
    BY <1>1, <1>4, OnlyOwn
  <2>2. Stages'
    BY <1>1, <1>4, <2>1 DEF Stages, Walkers, Inactive
  <2> QED
    BY <1>1, <1>4, <2>2 DEF TableStep, WithRecord, WithKey
<1>5. CASE /\ console = "reading" /\ console' = "walk"
           /\ \E func \in {"show_client_info", "close_connection"} : StartWalk("console", func)
  BY <1>4, <1>5 DEF Stages
<1>6. CASE ConsoleWalk
  <2>1. \/ WalkStep("console") \/ Use("console") \/ Close("console")
        \/ delete_value_hash("console")
    BY <1>6 DEF ConsoleWalk, CloseEach
  <2>2. walk["console"] # Idle
    BY <1>1, <2>1 DEF WalkStep, NextChain, AtEnd, Visit, Close, Use, delete_value_hash, Idle,
                      TableInv, Deleting
  <2>3. console = "walk" /\ console' = "walk" /\ main \notin {"close", "down"}
    BY <1>6, <2>2 DEF Stages, ConsoleWalk, threads
  <2> QED
    BY <1>4, <2>1, <2>3
<1> QED
  BY <1>2, <1>3, <1>5, <1>6 DEF Command

\* A signal changes nothing of the table.
LEMMA Signalled ==
  ASSUME TableInv, Stages, action_SIGINT
  PROVE  TableStep /\ Stages'
BY DEF action_SIGINT, Stages, TableStep, vars, table, Inactive

----------------------------------------------------------------------------
(* All threads together. *)

\* Each step of a thread is a step of the map, and keeps the table and the threads in
\* order unless it frees a cell that another thread holds.
LEMMA ThreadStep ==
  ASSUME IInv, NextThreads
  PROVE  /\ Kept' /\ (~dangling' => TableInv' /\ Stages')
         /\ main' = "down" => ~dangling'
         /\ Map!Next \/ UNCHANGED clients
         /\ walk["services"] # Idle /\ walk'["services"] = Idle => present \subseteq visited
<1>1. TableInv /\ Stages /\ ~dangling /\ main # "down" /\ (TableInv' => Kept')
  BY DEF IInv, NextThreads, MainThread, ServicesThread, InteractiveThread, User, Alive, TableInv
<1>2. CASE delete_Hash
  BY <1>1, <1>2, Deleted
<1>3. CASE /\ UNCHANGED <<table, adding, walk, deleting, dangling, history>> /\ process' = "segv"
           /\ Stages' /\ main' = main
  <2>1. UNCHANGED <<Table, key, next, allocated, adding, walk, deleting, dangling, present,
                    visited>>
    BY <1>3 DEF table, history
  <2>2. TableInv' /\ Unlinked' = Unlinked
    BY <1>1, <1>3, <2>1
       DEF TableInv, Kept, TypeOK, Chained, Filed, Allocated, Placed, Inactive, Walking,
           Deleting, Serviced, Unlinked
  <2>3. Map!Next \/ UNCHANGED clients
    BY <1>1, <2>1, <2>2, MapStep DEF TableInv
  <2> QED
    BY <1>1, <1>3, <2>1, <2>2, <2>3
<1>4. CASE TableStep /\ Stages' /\ main' # "down"
  BY <1>1, <1>4, TableKept
<1>5. ASSUME ~delete_Hash PROVE main' # "down"
  BY <1>1, <1>5
     DEF NextThreads, MainThread, ServicesThread, InteractiveThread, User, HandleEvent, Handling,
         LeaveLoop, JoinServices, JoinInteractive, CloseClients, run_services, ServeClients,
         ConsoleLoop, ConsoleWalk, Command, action_SIGINT, threads
<1>6. CASE JoinInteractive
  <2>1. main' = main \/ main' = "close"
    BY <1>6 DEF JoinInteractive
  <2>2. CASE TableStep
    BY <1>1, <1>4, <1>6, <2>1, <2>2, Joined
  <2>3. CASE ~TableStep
    <3>1. main' = main
      BY <1>1, <1>6, <2>3 DEF JoinInteractive, TableStep, Walkers, WithKey, Stages
    <3> QED
      BY <1>1, <1>3, <1>6, <2>3, <3>1, Joined
  <2> QED
    BY <2>2, <2>3
<1>7. CASE /\ ~JoinInteractive /\ ~delete_Hash
  <2>1. TableStep /\ Stages'
    BY <1>1, <1>7, Handled, Left, Closed, ServicesRun, ConsoleRun, Signalled
       DEF NextThreads, MainThread, ServicesThread, InteractiveThread, User
  <2> QED
    BY <1>4, <1>5, <1>7, <2>1
<1> QED
  BY <1>2, <1>6, <1>7

\* The same with stuttering, and of the whole invariant.
LEMMA ThreadsKept ==
  ASSUME IInv, [NextThreads]_allvars
  PROVE  /\ IInv' /\ (Map!Next \/ UNCHANGED clients)
         /\ UNCHANGED vars \/
              (walk["services"] # Idle /\ walk'["services"] = Idle => present \subseteq visited)
         /\ UNCHANGED vars \/ TableInv
<1>1. CASE UNCHANGED allvars
  <2>1. UNCHANGED vars /\ UNCHANGED threads
    BY <1>1 DEF allvars
  <2>2. UNCHANGED <<Table, key, next, allocated, adding, walk, deleting, dangling, present,
                    visited, process, server_running, main, nfds, services, console>>
    BY <2>1 DEF vars, table, history, threads
  <2>3. /\ Kept' /\ (TableInv => TableInv') /\ (Stages => Stages') /\ ThreadsTypeOK'
        /\ Unlinked' = Unlinked
    BY <2>2 DEF IInv, TableInv, Kept, TypeOK, Chained, Filed, Allocated, Placed, Inactive, Walking,
                Deleting, Serviced, Unlinked, Stages, ThreadsTypeOK
  <2>4. Map!Next \/ UNCHANGED clients
    BY <2>2, <2>3, MapStep DEF IInv
  <2> QED
    BY <2>1, <2>2, <2>3, <2>4 DEF IInv
<1>2. CASE NextThreads
  <2>1. /\ Kept' /\ (~dangling' => TableInv' /\ Stages')
        /\ main' = "down" => ~dangling'
        /\ Map!Next \/ UNCHANGED clients
        /\ walk["services"] # Idle /\ walk'["services"] = Idle => present \subseteq visited
    BY <1>2, ThreadStep
  <2>2. ThreadsTypeOK'
    <3>1. TypeOK'
      BY <2>1 DEF Kept
    <3> USE EventsAssumption DEF IInv, ThreadsTypeOK
    <3>2. CASE HandleEvent
      BY <3>1, <3>2 DEF HandleEvent
    <3>3. CASE \/ Handling \/ LeaveLoop \/ JoinServices \/ JoinInteractive \/ CloseClients
               \/ delete_Hash
      BY <3>1, <3>3 DEF threads, Handling, LeaveLoop, JoinServices, JoinInteractive, CloseClients,
                        delete_Hash
    <3>4. CASE \/ run_services \/ ServeClients \/ ConsoleLoop \/ ConsoleWalk \/ Command
               \/ action_SIGINT
      BY <3>1, <3>4 DEF threads, run_services, ServeClients, ConsoleLoop, ConsoleWalk, Command,
                        action_SIGINT
    <3> QED
      BY <1>2, <3>2, <3>3, <3>4
         DEF NextThreads, MainThread, ServicesThread, InteractiveThread, User
  <2>3. TableInv
    BY <1>2 DEF IInv, NextThreads, MainThread, ServicesThread, InteractiveThread, User, Alive
  <2> QED
    BY <2>1, <2>2, <2>3 DEF IInv
<1> QED
  BY <1>1, <1>2

\* The table stays in order through the loops, the commands and the shutdown, and in
\* each stage of the shutdown only the threads that are left are in it, up to the first
\* deletion of a cell that another thread holds.
THEOREM ThreadsInvariance == SpecThreads => []IInv
<1>1. IInv /\ [NextThreads]_allvars => IInv'
  BY ThreadsKept
<1> QED
  BY ThreadsInitially, <1>1, PTL DEF SpecThreads

\* The types of the registry's and the threads' variables.
THEOREM ThreadsTypeCorrect == SpecThreads => []ThreadsTypeOK
<1> QED
  BY ThreadsInvariance, PTL DEF IInv

\* A thread loses a cell that it holds only by a deletion of that very cell on another
\* thread. Up to the first of these every thread in iter_Hash, take_action_hash,
\* add_Hash or delete_value_hash has linked cells, in the places where it found them,
\* whatever the others add and delete meanwhile.
THEOREM LinkedCellsHeld == SpecThreads => []HoldsLinkedCells
<1>1. IInv => HoldsLinkedCells
  <2>1. dangling => HoldsLinkedCells
    BY DEF HoldsLinkedCells
  <2> QED
    BY <2>1, TableMeaning DEF IInv
<1> QED
  BY <1>1, ThreadsInvariance, PTL

\* Every client that was allocated is in the table, or about to be: no deletion that
\* overlaps another, an addition or a walk drops one.
THEOREM NoClientLost == SpecThreads => []NoLostClient
<1>1. IInv => NoLostClient
  BY TableMeaning DEF IInv
<1> QED
  BY <1>1, ThreadsInvariance, PTL

\* When server_stop has returned no thread is in the table and no client is left.
THEOREM StoppedCleanly == SpecThreads => []StopsCleanly
<1>1. IInv => StopsCleanly
  BY DEF IInv, Stages, StopsCleanly, Walkers, TableInv, Deleting, Idle
<1> QED
  BY <1>1, ThreadsInvariance, PTL

\* A walk of the services thread skips no client that stays, and services none twice,
\* whatever the other threads add and delete ahead of it and behind it.
THEOREM ServicedOnce == SpecThreads => EveryoneServicedOnce
<1>1. IInv /\ [NextThreads]_allvars =>
        [/\ walk["services"].at = "func" => walk["services"].entry \notin visited
         /\ walk["services"] # Idle /\ walk'["services"] = Idle
              => present \subseteq visited]_vars
  BY ThreadsKept, TableMeaning
<1> QED
  BY <1>1, ThreadsInvariance, PTL DEF SpecThreads, EveryoneServicedOnce

\* The chained table behaves as a map from descriptors to clients, up to the first
\* deletion of a cell that another thread holds and with that deletion: each step of a
\* thread adds one client, deletes one, or leaves the map alone, although additions and
\* deletions take two steps each and overlap those of other threads.
THEOREM MapImplementation == SpecThreads => ImplementsMap
<1>1. InitThreads => Map!Init
  BY TableInitially DEF InitThreads
<1>2. IInv /\ [NextThreads]_allvars => [Map!Next]_clients
  BY ThreadsKept
<1> QED
  BY <1>1, <1>2, ThreadsInvariance, PTL DEF SpecThreads, Map!Spec, ImplementsMap
=============================================================================
