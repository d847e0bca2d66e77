------------------------------ MODULE ServerThreads ------------------------------
(***************************************************************************)
(* The three threads of the server around the registry, from the moment    *)
(* they run to the end of server_stop: the loops that look at              *)
(* server_running, the commands of the console, and the joins. Nothing     *)
(* keeps a thread from freeing a cell that another one holds; what happens *)
(* after that is undefined, and the module ends there.                     *)
(***************************************************************************)
EXTENDS Registry

CONSTANT EPOLL_MAX_EVENTS   \* events handled between two looks at server_running

ASSUME EventsAssumption == EPOLL_MAX_EVENTS \in Nat \ {0}

VARIABLES
  server_running,
  main,       \* "loop", the steps of server_stop, or "down" when it has returned
  nfds,       \* events of the batch that main has still to handle
  services,   \* "running" or "ended"
  console     \* "absent" without the interactive option; "check" before it looks
              \* at server_running, "reading" in scanf, "walk" in the commands "show
              \* clients" and "close all clients", "ended"

threads == <<server_running, main, nfds, services, console>>
allvars == <<vars, threads>>

InitThreads ==
  /\ Init
  /\ server_running = TRUE
  /\ main = "loop"
  /\ nfds = 0
  /\ services = "running"
  /\ console \in {"absent", "check"}

----------------------------------------------------------------------------
(* The main thread. *)

\* An event of a batch that epoll_wait returned, the first one or a later one,
\* adds a client, closes one, has all clients told of the other server, or is of no
\* concern to the registry.
HandleEvent ==
  /\ main = "loop" /\ MainFree
  /\ \/ nfds = 0 /\ server_running /\ nfds' \in 0 .. EPOLL_MAX_EVENTS - 1
     \/ nfds > 0 /\ nfds' = nfds - 1
  /\ \/ \E k \in Keys : add_Hash(k) \/ MainDeletes(k)
     \/ StartWalk("main", "x2_send_server_info")
     \/ UNCHANGED vars
  /\ UNCHANGED <<server_running, main, services, console>>

\* The handlers in the middle of an addition, a deletion or a broadcast.
Handling ==
  /\ main = "loop"
  /\ add_Hash_link \/ delete_value_hash("main") \/ WalkStep("main") \/ Use("main")
  /\ UNCHANGED threads

LeaveLoop ==
  /\ main = "loop" /\ nfds = 0 /\ MainFree
  /\ ~server_running
  /\ main' = "join_services"
  /\ UNCHANGED <<vars, server_running, nfds, services, console>>

\* Seeded fault: server_stop does not wait for the services thread.
join_services_early ==
  /\ main = "join_services"
  /\ main' = "join_interactive"
  /\ UNCHANGED <<vars, server_running, nfds, services, console>>

JoinServices ==
  /\ main = "join_services"
  /\ services = "ended"
  /\ main' = "join_interactive"
  /\ UNCHANGED <<vars, server_running, nfds, services, console>>

\* Joining a thread that was never created is undefined: pthread_join may return
\* an error or use the null handle. Then the clients are closed one by one.
JoinInteractive ==
  /\ main = "join_interactive"
  /\ \/ console \in {"ended", "absent"} /\ StartWalk("main", "close_connection") /\ main' = "close"
     \/ /\ console = "absent"
        /\ process' = "segv"
        /\ UNCHANGED <<table, adding, walk, deleting, dangling, history, main>>
  /\ UNCHANGED <<server_running, nfds, services, console>>

CloseClients ==
  /\ main = "close"
  /\ WalkStep("main") \/ CloseEach("main") \/ delete_value_hash("main")
  /\ UNCHANGED threads

\* The table goes with the nodes that are left in it, but not with their clients.
delete_Hash ==
  /\ main = "close" /\ walk["main"] = Idle
  /\ main' = "down"
  /\ Table' = [n \in DOMAIN Table |-> NULL]
  /\ key' = [c \in Cells |-> 0]
  /\ next' = [c \in Cells |-> NULL]
  /\ UNCHANGED <<allocated, adding, walk, deleting, dangling, history, process>>
  /\ UNCHANGED <<server_running, nfds, services, console>>

----------------------------------------------------------------------------
(* The services thread and the console. *)

\* Seeded fault: the services thread does not look at server_running.
run_services_forever ==
  /\ services = "running"
  /\ StartWalk("services", "handle_client_services")
  /\ UNCHANGED threads

run_services ==
  /\ services = "running" /\ walk["services"] = Idle
  /\ IF server_running
     THEN StartWalk("services", "handle_client_services") /\ UNCHANGED services
     ELSE services' = "ended" /\ UNCHANGED vars
  /\ UNCHANGED <<server_running, main, nfds, console>>

ServeClients ==
  /\ \/ WalkStep("services") \/ Use("services") \/ PingCloses
     \/ delete_value_hash("services")
  /\ UNCHANGED threads

\* The head of the loop of run_server_interactive.
ConsoleLoop ==
  /\ console \in {"check", "walk"} /\ walk["console"] = Idle
  /\ console' = IF server_running THEN "reading" ELSE "ended"
  /\ UNCHANGED <<vars, server_running, main, nfds, services>>

\* The user types a line.
Command ==
  /\ console = "reading"
  /\ \/ /\ console' = "check"       \* "exit", or one that changes nothing
        /\ server_running' \in {server_running, FALSE}
        /\ UNCHANGED vars
     \/ /\ console' = "walk"        \* "show clients", "close all clients"
        /\ \E func \in {"show_client_info", "close_connection"} : StartWalk("console", func)
        /\ UNCHANGED server_running
  /\ UNCHANGED <<main, nfds, services>>

ConsoleWalk ==
  /\ \/ WalkStep("console") \/ Use("console") \/ CloseEach("console")
     \/ delete_value_hash("console")
  /\ UNCHANGED threads

action_SIGINT ==
  /\ server_running
  /\ server_running' = FALSE
  /\ UNCHANGED <<vars, main, nfds, services, console>>

----------------------------------------------------------------------------
Alive == process = "running" /\ main # "down" /\ ~dangling

MainThread ==
  /\ Alive
  /\ \/ HandleEvent \/ Handling
     \/ LeaveLoop \/ JoinServices \/ JoinInteractive \/ CloseClients \/ delete_Hash

ServicesThread == Alive /\ (run_services \/ ServeClients)

InteractiveThread == Alive /\ (ConsoleLoop \/ ConsoleWalk)

User == Alive /\ (Command \/ action_SIGINT)

NextThreads == MainThread \/ ServicesThread \/ InteractiveThread \/ User

\* Every thread is scheduled; the user need not do anything.
SpecThreads ==
  /\ InitThreads /\ [][NextThreads]_allvars
  /\ WF_allvars(MainThread)
  /\ WF_allvars(ServicesThread)
  /\ WF_allvars(InteractiveThread)

----------------------------------------------------------------------------
(* Properties. *)

\* The types of the threads' variables, with those of the registry.
ThreadsTypeOK ==
  /\ TypeOK
  /\ server_running \in BOOLEAN
  /\ main \in {"loop", "join_services", "join_interactive", "close", "down"}
  /\ nfds \in 0 .. EPOLL_MAX_EVENTS - 1
  /\ services \in {"running", "ended"}
  /\ console \in {"absent", "check", "reading", "walk", "ended"}

\* server_stop takes the table away only when no thread uses it any more and
\* every client has been closed and freed, whenever SIGINT or "exit" came.
StopsCleanly ==
  main = "down" => allocated = {} /\ \A t \in Walkers : walk[t] = Idle /\ Inactive(t)

\* A walk of the services thread comes to an end, although clients are appended to
\* the chain it is in; so, with EveryoneServicedOnce, every client is serviced again
\* and again. Only if other threads delete clients behind it for ever can new ones be
\* appended before it for ever.
WalksEnd ==
  \/ []<>(walk["services"] = Idle \/ ~Alive)
  \/ []<><<\E t \in {"main", "console"} : delete_value_hash(t)>>_vars

\* After SIGINT or "exit" the server comes to its end, unless the console is
\* waiting for a line from the user.
ExitCompletes ==
  ~server_running /\ console # "reading" ~> ~Alive
================================================================================
