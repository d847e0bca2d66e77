---------------------------- MODULE ENodeBProofs ----------------------------
(***************************************************************************)
(* Safety of ENodeB for every set of descriptors, peers and c-rntis, any   *)
(* bounds, whichever other threads close connections, and with or without  *)
(* the behaviours that follow an overlap.                                  *)
(***************************************************************************)
EXTENDS ENodeB, FiniteSetTheorems, SequenceTheorems, TLAPS

\* A handler works on a descriptor, a thread that closes has one, and the main
\* thread closes between two events.
Places ==
  /\ pc \in Handshake \cup Message \cup {"stdin"} => client_socket \in Fds
  /\ \A t \in Threads : At(t, "idle") <=> closing[t].fd = 0
  /\ ~At("main", "idle") => pc = "loop"

\* A free descriptor has no remote end and is known to nobody.
Sockets ==
  \A f \in Fds : ~Open(f) =>
    /\ peer[f] = NoServer
    /\ f \notin epollSet
    /\ f \notin connected_clients
    /\ f # other_server_fd

\* A client is a UE, and registered unless it is being added or closed.
Clients ==
  \A f \in connected_clients :
    /\ peer[f] = NoServer
    /\ f # other_server_fd
    /\ f \in epollSet \/ Closed(f) \/ (pc \in AddingStages /\ f = client_socket)

\* A UE's socket is in the registry, unless it is being added or closed.
Served ==
  \A f \in Fds : Open(f) /\ peer[f] = NoServer =>
    f \in connected_clients \/ Closed(f) \/ (pc \in Handshake /\ f = client_socket)

\* The socket of a handshake is known to the handler only until it is added;
\* then another thread may close it. It is a UE's until an X2 request arrives.
Accepted ==
  pc \in Handshake =>
    /\ client_socket \notin epollSet
    /\ client_socket # other_server_fd
    /\ pc \in AddingStages =>
         /\ peer[client_socket] = NoServer
         /\ Open(client_socket) => client_socket \in connected_clients \/ Closed(client_socket)
    /\ pc \notin AddingStages =>
         /\ Open(client_socket)
         /\ client_socket \notin connected_clients
         /\ ~Closed(client_socket)
         /\ peer[client_socket] = NoServer <=> pc # "x2_info"

\* other_server_fd is the open socket of an eNodeB.
Linked ==
  /\ other_server_fd # 0 => Open(other_server_fd) /\ peer[other_server_fd] # NoServer
  /\ other_server_connected =>
       \/ other_server_fd \in epollSet
       \/ At("main", "link") /\ closing["main"].fd = other_server_fd

\* What each step of a thread's close relies on.
Stage(t) ==
  closing[t].fd # 0 =>
    /\ t \in Closers =>
         /\ closing[t].at # "link"
         /\ Open(closing[t].fd) /\ peer[closing[t].fd] = NoServer
         /\ closing[t].at \in {"epoll", "lookup", "delete"} =>
              closing[t].fd \in connected_clients
    /\ closing[t].at \in {"count", "counted", "close"} =>
         closing[t].fd \notin connected_clients
    /\ closing[t].at \in {"lookup", "delete", "count", "counted", "close"} =>
         closing[t].fd # other_server_fd
    /\ closing[t].at = "delete" => closing[t].fd \in connected_clients
    /\ closing[t].at = "link" => closing[t].fd = other_server_fd

\* No two threads close one connection.
Closings ==
  /\ \A t, u \in Threads :
       t # u /\ closing[t].fd # 0 => closing[t].fd # closing[u].fd
  /\ \A t \in Threads : Stage(t)

Connections == Sockets /\ Clients /\ Served /\ Accepted /\ Linked /\ Closings

\* As long as no two threads have closed one connection.
Connected == "connection" \notin overlaps => Connections

\* The threads that have deleted a client and not counted it down.
Deleted == {t \in Threads : closing[t].at \in {"count", "counted"}}

\* The client that is in the registry and not counted yet.
Added == IF pc \in {"count", "counted"} THEN 1 ELSE 0

\* The counter and what the updates under way will make of it.
Counted ==
  overlaps = {} =>
    /\ connected_clients_number + Added = Cardinality(connected_clients) + Cardinality(Deleted)
    /\ \A t \in Threads : Counting(t) => number[t] = connected_clients_number
    /\ \A t, u \in Threads : Counting(t) /\ Counting(u) => t = u

\* The inductive invariant.
IInv == TypeOK /\ Places /\ Connected /\ Counted /\ ClientFound

----------------------------------------------------------------------------
(* The kinds of steps. *)

\* A step that concerns no connection.
Aside ==
  /\ UNCHANGED <<kernel, closes, registry, link>>
  /\ \/ UNCHANGED <<pc, client_socket>>
     \/ /\ At("main", "idle")
        /\ pc \in {"loop"} \cup Message
        /\ \/ pc' = "loop" /\ client_socket' = 0
           \/ pc' \in {"stdin"} \cup Message /\ client_socket' \in Fds
  /\ events' \subseteq events
  /\ process' \in {"running", "exited", "segv", "sigpipe"}
  /\ reconnection_clients_buffer' \in Seq(Rntis)

\* A message of the attach procedure.
Attach ==
  /\ UNCHANGED <<kernel, closes, events, registry, link, client_socket,
                 reconnection_clients_buffer>>
  /\ pc \in {"preamble", "rrc_request"}
  /\ pc' \in {"rrc_request", "rrc_complete"}
  /\ process' \in {"running", "sigpipe"}

\* A socket of another eNodeB is neither closed nor registered.
X2Left ==
  /\ UNCHANGED <<kernel, closes, events, registry, other_server_fd, other_server_connected,
                 reconnection_clients_buffer>>
  /\ pc = "x2_info"
  /\ Return
  /\ other_server_info' \in Infos
  /\ process' \in {"running", "sigpipe"} \/ UNCHANGED process

\* An event makes the main thread close a connection.
EventClose(f, kind) ==
  /\ At("main", "idle")
  /\ Dispatch(f, kind)
  /\ close_connection("main", f)
  /\ UNCHANGED <<kernel, process, pc, client_socket, registry, link,
                 reconnection_clients_buffer>>

\* A handshake ends in a close.
Abort ==
  /\ At("main", "idle")
  /\ pc \in ClosingStages
  /\ close_connection("main", client_socket)
  /\ Return
  /\ UNCHANGED <<kernel, process, events, registry, link, reconnection_clients_buffer>>

\* What every kind of step of a handshake starts from.
InHandshake == At("main", "idle") /\ (Attach \/ X2Left \/ ReadLabel \/ RRCSetupComplete
  \/ DrxConfig \/ Reconnect \/ LoadToAdd \/ StoreAdded \/ RegisterClient \/ X2Established)

Between == At("main", "idle") /\ (Startup \/ EpollWait \/ Accept)

Closes ==
  \/ \E f \in Fds, kind \in {"in", "hup"} : EventClose(f, kind)
  \/ Abort
  \/ \E t \in Closers, f \in Fds : ThreadClose(t, f)
  \/ \E t \in Threads : Closing(t)

\* The process goes on: messages and what follows them are steps aside.
LEMMA MessageIsAside ==
  ASSUME TypeOK, Places, At("main", "idle"), OnMessage
  PROVE  Aside
<1> USE DEF Message, Payload, main, Return, Continue, kernel, closes, registry, link,
            Places, TypeOK, UseClient
<1>1. CASE PayloadTimeout
  BY <1>1 DEF PayloadTimeout, Aside
<1>2. ASSUME NEW stage \in Message, NEW next \in Message \cup {"loop"}, WithClient(stage, next)
      PROVE  Aside
  BY <1>2 DEF WithClient, Aside
<1>3. CASE RecordPing \/ LookUpDownload \/ StoreSignal
  BY <1>2, <1>3 DEF RecordPing, LookUpDownload, StoreSignal
<1>4. CASE ReadRequest \/ ReadSignal
  BY <1>4 DEF ReadRequest, ReadSignal, ReadBody, Aside
<1>5. CASE StartDownload
  BY <1>5 DEF StartDownload, Aside, Write
<1>6. CASE CompareSignal
  BY <1>6 DEF CompareSignal, Aside
<1>7. CASE x2_handle_handover
  BY <1>7 DEF x2_handle_handover, Aside, Write
<1>8. CASE ReceiveClientInfo
  BY <1>8 DEF ReceiveClientInfo, Aside
<1> QED
  BY <1>1, <1>3, <1>4, <1>5, <1>6, <1>7, <1>8 DEF OnMessage

\* Events that close nothing are, too.
LEMMA HandleKinds ==
  ASSUME TypeOK, Places, At("main", "idle"), NEW f \in Fds, Handle(f)
  PROVE  Aside \/ EventClose(f, "in") \/ EventClose(f, "hup")
<1> USE DEF Message, Payload, main, kernel, closes, registry, link,
            Places, TypeOK, Dispatch
<1>1. ASSUME NEW stage \in Message \cup {"stdin"}, Input(f, stage) PROVE Aside
  BY <1>1 DEF Input, Aside
<1>2. CASE PingOrBattery(f) \/ RequestDownload(f) \/ MeasurementReport(f)
  BY <1>1, <1>2 DEF PingOrBattery, RequestDownload, MeasurementReport
<1>3. CASE ClientInfo(f)
  BY <1>1, <1>3 DEF ClientInfo
<1>4. CASE InputIgnored(f)
  BY <1>4 DEF InputIgnored, Aside
<1>5. CASE SendFilesList(f)
  BY <1>5 DEF SendFilesList, Aside, Write
<1>6. CASE HangupEvent(f)
  BY <1>6 DEF HangupEvent, EventClose
<1>7. CASE UeShutdown(f)
  BY <1>7 DEF UeShutdown, EventClose
<1> QED
  BY <1>2, <1>3, <1>4, <1>5, <1>6, <1>7 DEF Handle

\* The steps of a handshake.
LEMMA ConnectKinds ==
  ASSUME TypeOK, Places, At("main", "idle"), Connect
  PROVE  Aside \/ InHandshake \/ Abort
<1> USE DEF InHandshake
<1>1. CASE RandomAccess \/ RRCSetup
  BY <1>1 DEF RandomAccess, RRCSetup, Answer, Write, Attach, kernel, closes, Continue,
              registry, link
<1>2. CASE X2Refused
  BY <1>2 DEF X2Refused, X2Info, Write, X2Left, TypeOK, Places, Handshake, Infos
<1>3. CASE X2InfoTimeout
  BY <1>3 DEF X2InfoTimeout, X2Left, TypeOK, Infos
<1>4. CASE HandshakeAborted
  BY <1>4 DEF HandshakeAborted, Abort
<1>5. CASE ReconnectNotFound
  BY <1>5 DEF ReconnectNotFound, Abort, Aside, ClosingStages, TypeOK
<1> QED
  BY <1>1, <1>2, <1>3, <1>4, <1>5 DEF Connect

\* Every step is of one of these kinds.
LEMMA StepKinds ==
  ASSUME TypeOK, Places, [Next]_vars
  PROVE  Aside \/ Between \/ InHandshake \/ Closes \/ \E f \in Fds : Hangup(f)
<1>1. CASE MainThread
  BY <1>1, MessageIsAside, HandleKinds, ConnectKinds DEF MainThread, Threads, Between, Closes
<1>2. CASE OtherThreads
  <2>1. ASSUME NEW f \in Fds, ServicesSend(f) PROVE Aside
    BY <2>1 DEF ServicesSend, Aside, main, TypeOK
  <2> QED
    BY <1>2, <2>1 DEF OtherThreads, Closes, Threads
<1>3. CASE UNCHANGED vars
  BY <1>3 DEF vars, Aside, main, TypeOK
<1> QED
  BY <1>1, <1>2, <1>3 DEF Next, RemoteEnds

----------------------------------------------------------------------------
(* Types. *)

\* The steps of close_connection that TypeOK lists.
Steps == {"idle", "epoll", "link", "lookup", "delete", "count", "counted", "close"}

\* A thread goes from one step of a close to the next.
LEMMA StepOfClose ==
  ASSUME TypeOK, NEW t \in Threads, NEW step \in Steps, Step(t, step)
  PROVE  /\ closing' \in [Threads -> [at : Steps, fd : Fds \cup {0}]]
         /\ closing'[t].at = step
         /\ \A u \in Threads : closing'[u].fd = closing[u].fd
         /\ \A u \in Threads : u # t => closing'[u] = closing[u]
<1>1. /\ closing \in [Threads -> [at : Steps, fd : Fds \cup {0}]]
      /\ closing' = [closing EXCEPT ![t] = [closing[t] EXCEPT !.at = step]]
  BY DEF TypeOK, Step, Steps
<1>2. /\ [closing[t] EXCEPT !.at = step] \in [at : Steps, fd : Fds \cup {0}]
      /\ [closing[t] EXCEPT !.at = step].at = step
      /\ [closing[t] EXCEPT !.at = step].fd = closing[t].fd
  BY <1>1
<1> QED
  BY <1>1, <1>2

\* A thread starts or has finished a close.
LEMMA StartOfClose ==
  ASSUME TypeOK, NEW t \in Threads, NEW step \in Steps, NEW f \in Fds \cup {0},
         closing' = [closing EXCEPT ![t] = [at |-> step, fd |-> f]]
  PROVE  /\ closing' \in [Threads -> [at : Steps, fd : Fds \cup {0}]]
         /\ closing'[t].at = step /\ closing'[t].fd = f
         /\ \A u \in Threads : u # t => closing'[u] = closing[u]
  BY DEF TypeOK, Steps

\* What the steps of a close do to the state of the threads.
LEMMA ClosingMoves ==
  ASSUME TypeOK, Places, NEW t \in Threads, Closing(t)
  PROVE  /\ closing' \in [Threads -> [at : Steps, fd : Fds \cup {0}]]
         /\ closing[t].at # "idle" /\ closing[t].fd \in Fds
         /\ closing'[t].at = "idle" <=> closing'[t].fd = 0
         /\ \A u \in Threads : u # t => closing'[u] = closing[u]
<1>1. closing[t].at # "idle" /\ closing[t].fd \in Fds
  BY DEF Closing, Deregister, LinkDown, Lookup, Delete, LoadToDelete, StoreDeleted,
         CloseSocket, At, Places, TypeOK
<1>2. CASE CloseSocket(t)
  BY <1>1, <1>2, StartOfClose DEF CloseSocket, Idle, Steps
<1>3. ASSUME NEW step \in Steps \ {"idle"}, Step(t, step)
      PROVE  /\ closing' \in [Threads -> [at : Steps, fd : Fds \cup {0}]]
             /\ closing'[t].at = "idle" <=> closing'[t].fd = 0
             /\ \A u \in Threads : u # t => closing'[u] = closing[u]
  BY <1>1, <1>3, StepOfClose, FdsAssumption
<1>4. CASE ~CloseSocket(t)
  <2>1. \E step \in Steps \ {"idle"} : Step(t, step)
    BY <1>4 DEF Closing, Deregister, LinkDown, Lookup, Delete, LoadToDelete, StoreDeleted,
                Steps
  <2> QED
    BY <1>1, <1>3, <2>1
<1> QED
  BY <1>1, <1>2, <1>4

\* And the start of one.
LEMMA CloseStarts ==
  ASSUME TypeOK, NEW t \in Threads, NEW f \in Fds, close_connection(t, f)
  PROVE  /\ closing' \in [Threads -> [at : Steps, fd : Fds \cup {0}]]
         /\ closing'[t].at = "epoll" /\ closing'[t].fd = f
         /\ \A u \in Threads : u # t => closing'[u] = closing[u]
         /\ overlaps \subseteq overlaps' /\ overlaps' \subseteq {"connection", "counter"}
         /\ number' = number
  BY StartOfClose DEF close_connection, Steps, TypeOK

\* Taking a client out of the buffer leaves a buffer.
LEMMA BufferTypes ==
  ASSUME TypeOK, Reconnect
  PROVE  reconnection_clients_buffer' \in Seq(Rntis)
<1> DEFINE b == reconnection_clients_buffer
<1>1. PICK i \in DOMAIN b : b' = SubSeq(b, 1, i - 1) \o SubSeq(b, i + 1, Len(b))
  BY DEF Reconnect
<1>2. b \in Seq(Rntis) /\ i \in 1 .. Len(b)
  BY DEF TypeOK
<1>3. SubSeq(b, 1, i - 1) \in Seq(Rntis) /\ SubSeq(b, i + 1, Len(b)) \in Seq(Rntis)
  BY <1>2
<1> QED
  BY <1>1, <1>3

\* The steps of a close keep the types.
LEMMA ClosingTypes ==
  ASSUME TypeOK, Places, NEW t \in Threads, Closing(t)
  PROVE  TypeOK'
<1>1. /\ closing' \in [Threads -> [at : Steps, fd : Fds \cup {0}]]
      /\ closing[t].fd \in Fds
  BY ClosingMoves
<1>2. UNCHANGED <<main, reconnection_clients_buffer>>
  BY DEF Closing
<1> USE <1>1, <1>2 DEF TypeOK, kernel, registry, link, main, Steps
<1>3. CASE Deregister(t)
  BY <1>3 DEF Deregister
<1>4. CASE LinkDown(t)
  BY <1>4 DEF LinkDown, x2_send_server_info, Write, Infos
<1>5. CASE Lookup(t)
  BY <1>5 DEF Lookup
<1>6. CASE Delete(t)
  BY <1>6 DEF Delete
<1>7. CASE LoadToDelete(t)
  BY <1>7 DEF LoadToDelete, Load
<1>8. CASE StoreDeleted(t)
  BY <1>8 DEF StoreDeleted, Store
<1>9. CASE CloseSocket(t)
  BY <1>9 DEF CloseSocket, Infos
<1> QED
  BY <1>3, <1>4, <1>5, <1>6, <1>7, <1>8, <1>9 DEF Closing

\* So do those of a handshake.
LEMMA HandshakeTypes ==
  ASSUME TypeOK, Places, InHandshake
  PROVE  TypeOK'
<1>1. "main" \in Threads
  BY DEF Threads
<1> USE <1>1 DEF Places, TypeOK, kernel, closes, registry, link, main, Return, Continue,
                 Handshake, ClosingStages, AddingStages, Message, Payload
<1>2. CASE Attach
  BY <1>2 DEF Attach
<1>3. CASE X2Left
  BY <1>3 DEF X2Left
<1>4. CASE ReadLabel
  BY <1>4 DEF ReadLabel
<1>5. CASE RRCSetupComplete
  BY <1>5 DEF RRCSetupComplete, Answer, x2_send_server_info, Write
<1>6. CASE DrxConfig
  BY <1>6 DEF DrxConfig, AddClient
<1>7. CASE Reconnect
  BY <1>7, BufferTypes DEF Reconnect, AddClient, x2_send_server_info, Write
<1>8. CASE LoadToAdd
  BY <1>8 DEF LoadToAdd, Load
<1>9. CASE StoreAdded
  BY <1>9 DEF StoreAdded, Store
<1>10. CASE RegisterClient
  BY <1>10 DEF RegisterClient, RegisterSocket
<1>11. CASE X2Established
  BY <1>11 DEF X2Established, X2Info, RegisterSocket, Write, Infos
<1> QED
  BY <1>2, <1>3, <1>4, <1>5, <1>6, <1>7, <1>8, <1>9, <1>10, <1>11 DEF InHandshake

\* Each step keeps the types.
LEMMA TypeStep ==
  ASSUME TypeOK, Places, [Next]_vars
  PROVE  TypeOK'
<1> USE DEF kernel, closes, registry, link, main, TypeOK
<1>1. CASE Aside
  BY <1>1 DEF Aside, Handshake, Message
<1>2. CASE Startup
  <2>1. CASE UNCHANGED <<sock, peer, epollSet, link>>
    BY <1>2, <2>1 DEF Startup
  <2>2. ASSUME NEW p \in Peers, NEW f \in Fds, NEW outcome \in {"established", "refused", "failed"},
               other_server_info' = p, x2_request_server_connection(p, f, outcome),
               other_server_connected' = (outcome = "established")
        PROVE  TypeOK'
    <3>1. /\ sock' \in [Fds -> {"free", "up", "hup"}]
          /\ peer' \in [Fds -> Peers \cup {NoServer}]
          /\ epollSet' \subseteq Fds
          /\ other_server_fd' \in Fds \cup {0}
      BY <2>2 DEF x2_request_server_connection
    <3>2. other_server_connected' \in BOOLEAN /\ other_server_info' \in Infos
      BY <2>2 DEF Infos
    <3> QED
      BY <1>2, <3>1, <3>2 DEF Startup
  <2> QED
    BY <1>2, <2>1, <2>2 DEF Startup
<1>3. CASE EpollWait
  BY <1>3 DEF EpollWait
<1>4. CASE Accept
  BY <1>4 DEF Accept, Dispatch, Handshake, ClosingStages
<1>5. CASE Closes
  <2>1. ASSUME NEW f \in Fds, NEW kind \in {"in", "hup"}, EventClose(f, kind)
        PROVE  TypeOK'
    BY <2>1, CloseStarts DEF EventClose, Dispatch, Threads, Steps
  <2>2. CASE Abort
    BY <2>2, CloseStarts DEF Abort, Return, Threads, Steps, Places, Handshake
  <2>3. ASSUME NEW t \in Closers, NEW f \in Fds, ThreadClose(t, f)
        PROVE  TypeOK'
    BY <2>3, CloseStarts DEF ThreadClose, Threads, Steps
  <2> QED
    BY <1>5, <2>1, <2>2, <2>3, ClosingTypes DEF Closes
<1>6. ASSUME NEW f \in Fds, Hangup(f) PROVE TypeOK'
  BY <1>6 DEF Hangup
<1> QED
  BY <1>1, <1>2, <1>3, <1>4, <1>5, <1>6, StepKinds, HandshakeTypes DEF Between

\* And where the threads are.
LEMMA PlacesStep ==
  ASSUME TypeOK, Places, [Next]_vars
  PROVE  Places'
<1> USE FdsAssumption DEF Places, At, closes, main
<1>1. CASE Aside
  BY <1>1 DEF Aside, Handshake, ClosingStages, AddingStages, Message, Payload
<1>2. CASE Between
  BY <1>2 DEF Between, Startup, EpollWait, Accept, Dispatch, Message, Payload, Handshake,
              ClosingStages, AddingStages
<1>3. CASE InHandshake
  <2>1. client_socket \in Fds /\ pc \in Handshake
    BY <1>3 DEF InHandshake, Attach, X2Left, ReadLabel, RRCSetupComplete, Answer, DrxConfig,
       Reconnect, LoadToAdd, StoreAdded, RegisterClient, X2Established, X2Info, Handshake,
       ClosingStages, AddingStages
  <2>2. closing' = closing
    BY <1>3 DEF InHandshake, Attach, X2Left, ReadLabel, RRCSetupComplete, Answer, DrxConfig,
       Reconnect, LoadToAdd, StoreAdded, RegisterClient, X2Established
  <2>3. client_socket' = client_socket \/ (pc' = "loop" /\ client_socket' = 0)
    BY <1>3 DEF InHandshake, Attach, X2Left, ReadLabel, RRCSetupComplete, Answer, DrxConfig,
       Reconnect, LoadToAdd, StoreAdded, RegisterClient, X2Established, RegisterSocket,
       Return, Continue, AddClient
  <2> QED
    BY <1>3, <2>1, <2>2, <2>3 DEF InHandshake, Handshake, ClosingStages, AddingStages,
       Message, Payload
<1>4. CASE Closes
  <2>1. ASSUME NEW f \in Fds, NEW kind \in {"in", "hup"}, EventClose(f, kind)
        PROVE  Places'
    BY <2>1, CloseStarts DEF EventClose, Dispatch, Threads, Handshake, ClosingStages,
       AddingStages, Message, Payload
  <2>2. CASE Abort
    <3>1. client_socket \in Fds /\ "main" \in Threads
      BY <2>2 DEF Abort, Handshake, Threads
    <3>2. closing'["main"].fd # 0 /\ closing'["main"].at = "epoll"
      BY <2>2, <3>1, CloseStarts DEF Abort
    <3>3. \A u \in Threads : u # "main" => closing'[u] = closing[u]
      BY <2>2, <3>1, CloseStarts DEF Abort
    <3> QED
      BY <2>2, <3>2, <3>3 DEF Abort, Return, Handshake, ClosingStages, AddingStages, Message,
         Payload
  <2>3. ASSUME NEW t \in Closers, NEW f \in Fds, ThreadClose(t, f)
        PROVE  Places'
    <3>1. t \in Threads /\ t # "main" /\ "main" \in Threads
      BY ClosersAssumption DEF Threads
    <3>2. closing'[t].fd # 0 /\ closing'[t].at = "epoll"
      BY <2>3, <3>1, CloseStarts DEF ThreadClose
    <3>3. \A u \in Threads : u # t => closing'[u] = closing[u]
      BY <2>3, <3>1, CloseStarts DEF ThreadClose
    <3> QED
      BY <2>3, <3>1, <3>2, <3>3 DEF ThreadClose
  <2>4. ASSUME NEW t \in Threads, Closing(t) PROVE Places'
    BY <2>4, ClosingMoves DEF Closing, Threads
  <2> QED
    BY <1>4, <2>1, <2>2, <2>3, <2>4 DEF Closes
<1>5. ASSUME NEW f \in Fds, Hangup(f) PROVE Places'
  BY <1>5 DEF Hangup
<1> QED
  BY <1>1, <1>2, <1>3, <1>4, <1>5, StepKinds

----------------------------------------------------------------------------
(* Connections is kept by every step, until two threads close one. *)

\* No step makes two threads' overlap be forgotten.
LEMMA OverlapsGrow ==
  ASSUME TypeOK, Places, [Next]_vars
  PROVE  overlaps \subseteq overlaps'
<1>1. CASE Aside \/ Between \/ \E f \in Fds : Hangup(f)
  BY <1>1 DEF Aside, Between, Startup, EpollWait, Accept, Hangup, closes
<1>2. CASE InHandshake
  BY <1>2 DEF InHandshake, Attach, X2Left, ReadLabel, RRCSetupComplete, Answer, DrxConfig,
     Reconnect, LoadToAdd, Load, StoreAdded, RegisterClient, X2Established, closes
<1>3. CASE Closes
  BY <1>3 DEF Closes, EventClose, Abort, ThreadClose, close_connection, Closing, Deregister,
     LinkDown, Lookup, Delete, LoadToDelete, Load, StoreDeleted, CloseSocket
<1> QED
  BY <1>1, <1>2, <1>3, StepKinds

\* The main thread moves on, and nothing else changes.
LEMMA FrameConnections ==
  ASSUME Connections,
         UNCHANGED <<peer, epollSet, connected_clients, other_server_fd,
                     other_server_connected, closing>>,
         \A f \in Fds \cup {0} : (sock'[f] = "free") <=> (sock[f] = "free"),
         TypeOK,
         \/ pc \notin Handshake /\ pc' \notin Handshake
         \/ /\ client_socket' = client_socket /\ client_socket \in Fds
            /\ pc \in Handshake /\ pc' \in Handshake
            /\ pc \in AddingStages <=> pc' \in AddingStages
            /\ pc = "x2_info" <=> pc' = "x2_info"
  PROVE  Connections'
<1>1. \A f \in Fds \cup {0} : Open(f)' <=> Open(f)
  BY DEF Open
<1>2. \A f : Closed(f)' <=> Closed(f)
  BY DEF Closed
<1>3. AddingStages \subseteq Handshake
  BY DEF Handshake
<1> USE <1>1, <1>2, <1>3 DEF Connections
<1> HIDE DEF Closed, Open, Handshake, AddingStages
<1>4. Sockets'
  BY DEF Sockets
<1>5. Clients' /\ Served'
  BY DEF Clients, Served, TypeOK
<1>6. Accepted'
  BY DEF Accepted
<1>7. Linked'
  BY DEF Linked, At, TypeOK
<1>8. Closings'
  BY DEF Closings, Stage, TypeOK, Threads
<1> QED
  BY <1>4, <1>5, <1>6, <1>7, <1>8

\* The steps of a handshake.
LEMMA ConnectConnections ==
  ASSUME TypeOK, Places, Connections, InHandshake
  PROVE  Connections'
<1> USE DEF kernel, closes, registry, link, Open, Return, Continue
<1>1. /\ pc \in Handshake /\ client_socket \in Fds
      /\ closing["main"].at = "idle" /\ closing["main"].fd = 0
      /\ "main" \in Threads
  BY DEF InHandshake, Attach, X2Left, ReadLabel, RRCSetupComplete, Answer, DrxConfig,
     Reconnect, LoadToAdd, StoreAdded, RegisterClient, X2Established, X2Info, Handshake,
     ClosingStages, AddingStages, Places, At, Threads
<1>2. CASE Attach \/ RRCSetupComplete
  BY <1>1, <1>2, FrameConnections DEF Attach, RRCSetupComplete, Answer, x2_send_server_info,
     Handshake, ClosingStages, AddingStages
<1>3. CASE LoadToAdd \/ StoreAdded
  BY <1>1, <1>3, FrameConnections DEF LoadToAdd, StoreAdded, Handshake, ClosingStages,
     AddingStages
<1>4. UNCHANGED closing
  BY DEF InHandshake, Attach, X2Left, ReadLabel, RRCSetupComplete, Answer, DrxConfig,
     Reconnect, LoadToAdd, StoreAdded, RegisterClient, X2Established
<1>5. \A f : Closed(f)' <=> Closed(f)
  BY <1>4 DEF Closed
<1> USE <1>1, <1>4, <1>5 DEF Connections, TypeOK
<1>6. CASE X2Left
  BY <1>6 DEF X2Left, Sockets, Clients, Served, Accepted, Linked, Closings, Stage, At,
     Handshake, ClosingStages, AddingStages
<1>7. CASE ReadLabel
  <2>1. /\ pc = "label" /\ pc' \in {"preamble", "old_c_rnti", "x2_info"}
        /\ UNCHANGED <<client_socket, sock, epollSet, connected_clients, other_server_fd,
                       other_server_connected>>
        /\ \A f \in Fds : f # client_socket => peer'[f] = peer[f]
        /\ peer'[client_socket] = NoServer <=> pc' # "x2_info"
    BY <1>7, InfoAssumption DEF ReadLabel, Accepted, Handshake, ClosingStages, AddingStages
  <2>2. /\ Open(client_socket) /\ ~Closed(client_socket)
        /\ client_socket \notin connected_clients /\ client_socket # other_server_fd
        /\ client_socket \notin epollSet
    BY <1>1, <2>1 DEF Accepted, Handshake, ClosingStages, AddingStages
  <2>3. pc' \in Handshake \ AddingStages /\ pc \in Handshake \ AddingStages
    BY <2>1 DEF Handshake, ClosingStages, AddingStages
  <2>4. Accepted'
    BY <2>1, <2>2, <2>3 DEF Accepted
  <2>5. Sockets' /\ Clients' /\ Served'
    BY <2>1, <2>2, <2>3 DEF Sockets, Clients, Served
  <2>6. Linked'
    BY <2>1, <2>2 DEF Linked, At
  <2>7. \A t \in Threads : closing[t].fd # client_socket
    BY <2>2 DEF Closed
  <2>8. Closings'
    BY <2>1, <2>7 DEF Closings, Stage, Threads
  <2> QED
    BY <2>4, <2>5, <2>6, <2>8
<1>8. CASE DrxConfig \/ Reconnect
  <2>1. /\ connected_clients' = connected_clients \cup {client_socket}
        /\ pc' = "count" /\ pc \in {"drx", "old_c_rnti"}
        /\ UNCHANGED <<client_socket, sock, peer, epollSet, link>>
    BY <1>8 DEF DrxConfig, Reconnect, AddClient
  <2> QED
    BY <2>1 DEF Sockets, Clients, Served, Accepted, Linked,
       Closings, Stage, At, Handshake, ClosingStages, AddingStages, Closed
<1>9. CASE RegisterClient
  BY <1>9 DEF RegisterClient, RegisterSocket, Sockets, Clients, Served, Accepted, Linked,
       Closings, Stage, At, Handshake, ClosingStages, AddingStages
<1>10. CASE X2Established
  <2>1. /\ pc = "x2_info" /\ pc' = "loop"
        /\ UNCHANGED <<sock, peer, connected_clients>>
        /\ epollSet' = epollSet \cup {client_socket}
        /\ other_server_fd' = client_socket
    BY <1>10 DEF X2Established, X2Info, RegisterSocket
  <2>2. /\ Open(client_socket) /\ ~Closed(client_socket)
        /\ client_socket \notin connected_clients /\ peer[client_socket] # NoServer
    BY <1>1, <2>1 DEF Accepted, Handshake, ClosingStages, AddingStages
  <2>3. pc' \notin Handshake /\ pc \notin AddingStages
    BY <2>1 DEF Handshake, ClosingStages, AddingStages
  <2>4. Accepted'
    BY <2>3 DEF Accepted
  <2>5. Sockets' /\ Clients' /\ Served'
    BY <2>1, <2>2, <2>3 DEF Sockets, Clients, Served
  <2>6. Linked'
    BY <2>1, <2>2 DEF Linked
  <2>7. \A t \in Threads : closing[t].fd # client_socket
    BY <2>2 DEF Closed
  <2>8. Closings'
    BY <2>1, <2>7 DEF Closings, Stage, Threads
  <2> QED
    BY <2>4, <2>5, <2>6, <2>8
<1> QED
  BY <1>2, <1>3, <1>6, <1>7, <1>8, <1>9, <1>10 DEF InHandshake

\* A thread starts to close a connection that no other thread is closing.
LEMMA StartConnections ==
  ASSUME TypeOK, Places, Connections,
         NEW t \in Threads, NEW f \in Fds, close_connection(t, f),
         closing[t].fd = 0,
         "connection" \notin overlaps',
         UNCHANGED <<kernel, registry, link>>,
         t \in Closers => f \in connected_clients,
         \/ /\ UNCHANGED <<pc, client_socket>>
            /\ pc \in Handshake => f # client_socket \/ pc \in AddingStages
         \/ pc' \notin Handshake /\ (pc \in Handshake => f = client_socket)
  PROVE  Connections'
<1>1. /\ closing'[t].at = "epoll" /\ closing'[t].fd = f
      /\ \A u \in Threads : u # t => closing'[u] = closing[u]
  BY CloseStarts
<1>2. \A u \in Threads : u # t => closing[u].fd # f
  BY DEF close_connection, Others
<1>3. \A g \in Fds : Closed(g)' <=> Closed(g) \/ g = f
  BY <1>1, FdsAssumption DEF Closed
<1>4. ~Closed(f)
  BY <1>2, FdsAssumption DEF Closed
<1> USE FdsAssumption DEF Connections, TypeOK, kernel, registry, link, Open
<1> HIDE DEF Closed, Handshake, AddingStages
<1>5. Sockets'
  BY DEF Sockets
<1>6. AddingStages \subseteq Handshake
  BY DEF Handshake
<1>7. Clients' /\ Served'
  BY <1>3, <1>6 DEF Clients, Served
<1>8. Accepted'
  <2>1. CASE pc' \notin Handshake
    BY <2>1 DEF Accepted
  <2>2. CASE pc' \in Handshake
    <3>1. UNCHANGED <<pc, client_socket>> /\ client_socket \in Fds
      BY <2>2 DEF Places
    <3> QED
      BY <1>3, <2>2, <3>1 DEF Accepted
  <2> QED
    BY <2>1, <2>2
<1>9. Linked'
  BY <1>1 DEF Linked, At, Threads, Places
<1>10. Closings'
  <2>1. f \in connected_clients => Open(f) /\ peer[f] = NoServer
    BY DEF Sockets, Clients
  <2>2. Closers \subseteq Threads /\ "main" \in Threads /\ "main" \notin Closers
    BY ClosersAssumption DEF Threads
  <2> QED
    <3>1. Stage(t)'
      BY <1>1, <2>1, <2>2 DEF Stage
    <3>2. ASSUME NEW u \in Threads, u # t PROVE Stage(u)'
      BY <1>1, <3>2 DEF Stage, Closings
    <3>3. \A u, v \in Threads :
            u # v /\ closing'[u].fd # 0 => closing'[u].fd # closing'[v].fd
      <4>1. \A u \in Threads : closing'[u].fd = IF u = t THEN f ELSE closing[u].fd
        BY <1>1
      <4>2. \A u, v \in Threads :
              u # v /\ closing[u].fd # 0 => closing[u].fd # closing[v].fd
        BY DEF Closings
      <4> HIDE DEF Connections, TypeOK
      <4> QED
        BY <1>2, <4>1, <4>2
    <3> QED
      BY <3>1, <3>2, <3>3 DEF Closings
<1> QED
  BY <1>5, <1>7, <1>8, <1>9, <1>10

\* A step of one thread's close concerns its connection only.
LEMMA StepKeepsClosings ==
  ASSUME TypeOK, Places, Closings, NEW t \in Threads, closing[t].fd \in Fds,
         closing'[t].fd \in {closing[t].fd, 0},
         \A u \in Threads : u # t => closing'[u] = closing[u],
         \A g \in Fds : g # closing[t].fd =>
           /\ sock'[g] = sock[g] /\ peer'[g] = peer[g]
           /\ g \in connected_clients' <=> g \in connected_clients,
         other_server_fd' = other_server_fd
           \/ (other_server_fd' = 0 /\ other_server_fd = closing[t].fd),
         Stage(t)'
  PROVE  Closings'
<1>1. ASSUME NEW u \in Threads, u # t PROVE Stage(u)'
  <2>1. closing'[u] = closing[u]
    BY <1>1
  <2>2. CASE closing[u].fd = 0
    BY <2>1, <2>2 DEF Stage
  <2>3. CASE closing[u].fd # 0
    <3>1. closing[u].fd \in Fds /\ closing[u].fd # closing[t].fd
      BY <1>1, <2>3 DEF TypeOK, Closings
    <3> QED
      BY <2>1, <2>3, <3>1, FdsAssumption DEF Stage, Closings, Open
  <2> QED
    BY <2>2, <2>3
<1>2. \A u, v \in Threads :
        u # v /\ closing'[u].fd # 0 => closing'[u].fd # closing'[v].fd
  BY DEF Closings, TypeOK
<1> QED
  BY <1>1, <1>2 DEF Closings

\* The steps of a close.
LEMMA ClosingConnections ==
  ASSUME TypeOK, Places, Connections, NEW t \in Threads, Closing(t)
  PROVE  Connections'
<1> DEFINE f == closing[t].fd
<1>1. /\ f \in Fds
      /\ \A u \in Threads : u # t => closing'[u] = closing[u] /\ closing[u].fd # f
  BY ClosingMoves, FdsAssumption DEF Connections, Closings
<1>2. /\ UNCHANGED <<pc, client_socket>>
      /\ Closers \subseteq Threads /\ "main" \in Threads /\ "main" \notin Closers
      /\ t # "main" => t \in Closers
      /\ AddingStages \subseteq Handshake
  BY ClosersAssumption DEF Closing, main, Threads, Handshake
<1>3. pc \in Handshake => client_socket \in Fds
  BY DEF Places
<1>4. pc \in Handshake \ AddingStages => f # client_socket
  BY DEF Connections, Accepted, Closed
<1> HIDE DEF f
<1> USE <1>1, <1>2, <1>3, FdsAssumption
    DEF Connections, TypeOK, kernel, registry, link, Open
<1> HIDE DEF Handshake, AddingStages, Closed
<1>5. ASSUME NEW step \in Steps, Step(t, step)
      PROVE  /\ \A g : Closed(g)' <=> Closed(g)
             /\ closing'[t].at = step /\ closing'[t].fd = f
  BY <1>5, StepOfClose DEF Closed, f
<1>6. Closed(f)
  BY DEF Closed, f
<1>7. CASE Deregister(t)
  <2>1. PICK step \in {"link", "lookup"} :
          /\ Step(t, step)
          /\ step = "link" <=> f = other_server_fd
    BY <1>7 DEF Deregister, f
  <2>2. /\ UNCHANGED <<sock, peer, connected_clients, other_server_fd,
                       other_server_connected>>
        /\ epollSet' = epollSet \ {f} /\ closing[t].at = "epoll"
    BY <1>7 DEF Deregister, At, f
  <2>3. /\ \A g : Closed(g)' <=> Closed(g)
        /\ closing'[t].at = step /\ closing'[t].fd = f
    BY <1>5, <2>1 DEF Steps
  <2>4. Sockets' /\ Clients' /\ Served' /\ Accepted'
    BY <1>6, <2>2, <2>3 DEF Sockets, Clients, Served, Accepted
  <2>5. t # "main" => f \in connected_clients
    BY <2>2 DEF Closings, Stage, f
  <2>6. t # "main" => step = "lookup"
    BY <2>1, <2>5 DEF Clients
  <2>7. Linked'
    <3>1. CASE other_server_fd # f
      BY <2>2, <2>3, <3>1 DEF Linked, At
    <3>2. CASE other_server_fd = f
      BY <2>1, <2>2, <2>3, <2>6, <3>2 DEF Linked, At
    <3> QED
      BY <3>1, <3>2
  <2>8. Stage(t)'
    BY <2>1, <2>2, <2>3, <2>5, <2>6 DEF Closings, Stage, Clients, f
  <2>9. Closings'
    BY <2>2, <2>3, <2>8, StepKeepsClosings DEF f
  <2> QED
    BY <2>4, <2>7, <2>9
<1>8. CASE LinkDown(t)
  <2>1. t = "main" /\ f = other_server_fd /\ closing[t].at = "link"
    BY <1>8 DEF LinkDown, At, Closings, Stage, f
  <2>2. /\ \A g : Closed(g)' <=> Closed(g)
        /\ closing'[t].at = "close" /\ closing'[t].fd = f
    BY <1>5, <1>8 DEF LinkDown, Steps
  <2>3. /\ UNCHANGED <<sock, peer, epollSet, connected_clients>>
        /\ other_server_fd' = 0 /\ ~other_server_connected'
    BY <1>8 DEF LinkDown
  <2>4. f \notin connected_clients
    BY <2>1 DEF Clients
  <2>5. Sockets' /\ Clients' /\ Served' /\ Accepted' /\ Linked'
    BY <2>2, <2>3 DEF Sockets, Clients, Served, Accepted, Linked
  <2>6. Closings'
    <3>1. Stage(t)'
      BY <2>1, <2>2, <2>3, <2>4 DEF Stage
    <3> QED
      BY <2>1, <2>2, <2>3, <3>1, StepKeepsClosings DEF f
  <2> QED
    BY <2>5, <2>6
<1>9. CASE Lookup(t)
  <2>1. PICK step \in {"delete", "close"} :
          /\ Step(t, step)
          /\ step = "delete" <=> f \in connected_clients
    BY <1>9 DEF Lookup, f
  <2>2. /\ \A g : Closed(g)' <=> Closed(g)
        /\ closing'[t].at = step /\ closing'[t].fd = f /\ closing[t].at = "lookup"
    BY <1>5, <1>9, <2>1 DEF Steps, Lookup, At
  <2>3. UNCHANGED <<sock, peer, epollSet, connected_clients, other_server_fd,
                    other_server_connected>>
    BY <1>9 DEF Lookup
  <2>4. Sockets' /\ Clients' /\ Served' /\ Accepted' /\ Linked'
    BY <2>2, <2>3 DEF Sockets, Clients, Served, Accepted, Linked, At
  <2>5. Closings'
    <3>1. Stage(t)'
      BY <2>1, <2>2, <2>3 DEF Closings, Stage, f
    <3> QED
      BY <2>2, <2>3, <3>1, StepKeepsClosings DEF f
  <2> QED
    BY <2>4, <2>5
<1>10. CASE Delete(t)
  <2>1. /\ \A g : Closed(g)' <=> Closed(g)
        /\ closing'[t].at = "count" /\ closing'[t].fd = f /\ closing[t].at = "delete"
    BY <1>5, <1>10 DEF Steps, Delete, At
  <2>2. /\ UNCHANGED <<sock, peer, epollSet, other_server_fd, other_server_connected>>
        /\ connected_clients' = connected_clients \ {f}
    BY <1>10 DEF Delete, f
  <2>3. Sockets' /\ Clients' /\ Served' /\ Linked'
    BY <1>6, <2>1, <2>2 DEF Sockets, Clients, Served, Linked, At
  <2>4. Accepted'
    BY <1>6, <2>1, <2>2 DEF Accepted
  <2>5. Closings'
    <3>1. Stage(t)'
      BY <2>1, <2>2 DEF Closings, Stage, f
    <3> QED
      BY <2>1, <2>2, <3>1, StepKeepsClosings DEF f
  <2> QED
    BY <2>3, <2>4, <2>5
<1>11. CASE LoadToDelete(t) \/ StoreDeleted(t)
  <2>1. PICK step \in {"counted", "close"} : Step(t, step)
    BY <1>11 DEF LoadToDelete, StoreDeleted
  <2>2. /\ \A g : Closed(g)' <=> Closed(g)
        /\ closing'[t].at = step /\ closing'[t].fd = f
        /\ closing[t].at \in {"count", "counted"}
    BY <1>5, <1>11, <2>1 DEF Steps, LoadToDelete, StoreDeleted, At
  <2>3. UNCHANGED <<sock, peer, epollSet, connected_clients, other_server_fd,
                    other_server_connected>>
    BY <1>11 DEF LoadToDelete, StoreDeleted
  <2>4. Sockets' /\ Clients' /\ Served' /\ Accepted' /\ Linked'
    BY <2>2, <2>3 DEF Sockets, Clients, Served, Accepted, Linked, At
  <2>5. Closings'
    <3>1. Stage(t)'
      BY <2>2, <2>3 DEF Closings, Stage, f
    <3> QED
      BY <2>2, <2>3, <3>1, StepKeepsClosings DEF f
  <2> QED
    BY <2>4, <2>5
<1>12. CASE CloseSocket(t)
  <2>1. closing[t].at = "close" /\ closing'[t] = Idle
    BY <1>12 DEF CloseSocket, At
  <2>2. /\ sock' = [sock EXCEPT ![f] = "free"]
        /\ peer' = [peer EXCEPT ![f] = NoServer]
        /\ epollSet' = epollSet \ {f}
        /\ UNCHANGED <<connected_clients, other_server_fd, other_server_connected>>
    BY <1>12 DEF CloseSocket, f
  <2>3. f \notin connected_clients /\ f # other_server_fd
    BY <2>1 DEF Closings, Stage, f
  <2>4. \A g \in Fds : Closed(g)' <=> Closed(g) /\ g # f
    <3>1. closing'[t].fd = 0
      BY <2>1 DEF Idle
    <3>2. \A g \in Fds, u \in Threads : closing'[u].fd = g <=> closing[u].fd = g /\ g # f
      BY <3>1 DEF f
    <3> QED
      BY <3>2 DEF Closed
  <2>5. Sockets' /\ Clients' /\ Served'
    BY <2>2, <2>3, <2>4 DEF Sockets, Clients, Served
  <2>6. Accepted'
    BY <1>4, <2>2, <2>3, <2>4 DEF Accepted
  <2>7. Linked'
    BY <2>1, <2>2, <2>3 DEF Linked, At
  <2>8. Closings'
    <3>1. closing'[t].fd = 0
      BY <2>1 DEF Idle
    <3> QED
      BY <2>2, <3>1, StepKeepsClosings DEF f, Stage
  <2> QED
    BY <2>5, <2>6, <2>7, <2>8
<1> QED
  BY <1>7, <1>8, <1>9, <1>10, <1>11, <1>12 DEF Closing

\* Each step keeps registry, link and descriptors consistent.
LEMMA ConnectionsStep ==
  ASSUME TypeOK, Places, Connected, [Next]_vars
  PROVE  Connected'
<1> SUFFICES ASSUME "connection" \notin overlaps' PROVE Connections'
  BY DEF Connected
<1>1. Connections
  BY OverlapsGrow DEF Connected
<1>2. "main" \in Threads /\ Closers \subseteq Threads
  BY DEF Threads
<1>3. CASE Aside
  BY <1>1, <1>3, FrameConnections DEF Aside, kernel, closes, registry, link, Handshake,
     ClosingStages, AddingStages, Message, Payload, Places
<1>4. CASE Startup
  <2>1. pc' \notin Handshake /\ pc \notin Handshake
    BY <1>4 DEF Startup, Handshake, ClosingStages, AddingStages
  <2>2. CASE UNCHANGED <<sock, peer, epollSet, link>>
    BY <1>1, <1>4, <2>1, <2>2, FrameConnections DEF Startup, registry, closes, link
  <2>3. ASSUME NEW p \in Peers, NEW f \in Fds, ~Open(f),
               sock' = [sock EXCEPT ![f] = "up"],
               peer' = [peer EXCEPT ![f] = p],
               epollSet' = epollSet \/ epollSet' = epollSet \cup {f},
               other_server_fd' = f,
               other_server_connected' => f \in epollSet'
        PROVE  Connections'
    <3>1. UNCHANGED <<connected_clients, closing>>
      BY <1>4 DEF Startup, registry, closes
    <3>2. \A g : Closed(g)' <=> Closed(g)
      BY <3>1 DEF Closed
    <3>3. At("main", "idle") /\ closing["main"].fd = 0
      BY <1>2, <1>4 DEF Startup, Places
    <3>4. p # NoServer /\ f \notin connected_clients
      BY <1>1, <2>3, InfoAssumption DEF Connections, Sockets
    <3> USE <1>1, <1>2, <2>1, <2>3, <3>1, <3>4, FdsAssumption DEF Connections, TypeOK, Open
    <3>5. Sockets' /\ Clients' /\ Served'
      <4>1. Sockets'
        BY DEF Sockets
      <4>2. Clients'
        BY <3>2 DEF Clients, Handshake
      <4>3. Served'
        BY <3>2 DEF Served
      <4> QED
        BY <4>1, <4>2, <4>3
    <3>6. Accepted' /\ Linked'
      BY <3>2 DEF Accepted, Linked
    <3>7. ASSUME NEW t \in Threads PROVE Stage(t)'
      BY <3>3, <3>7 DEF Closings, Stage, Threads
    <3>8. Closings'
      BY <3>7 DEF Closings
    <3> QED
      BY <3>5, <3>6, <3>8
  <2> QED
    BY <1>4, <2>2, <2>3 DEF Startup, x2_request_server_connection, LowestFree
<1>5. CASE EpollWait
  BY <1>1, <1>5, FrameConnections DEF EpollWait, kernel, closes, registry, link, Handshake,
     ClosingStages, AddingStages
<1>6. CASE At("main", "idle") /\ Accept
  <2>1. CASE UNCHANGED <<sock, pc, client_socket>>
    BY <1>1, <1>6, <2>1, FrameConnections DEF Accept, Dispatch, closes, registry, link,
       Handshake, ClosingStages, AddingStages
  <2>2. ASSUME NEW f \in Fds, LowestFree(f), sock' = [sock EXCEPT ![f] = "up"],
               client_socket' = f, pc' = "label"
        PROVE  Connections'
    <3>1. UNCHANGED <<peer, epollSet, connected_clients, closing, link>>
      BY <1>6 DEF Accept, registry, closes
    <3>2. \A g : Closed(g)' <=> Closed(g)
      BY <3>1 DEF Closed
    <3>3. /\ ~Open(f) /\ f \notin connected_clients /\ f # other_server_fd
          /\ f \notin epollSet /\ peer[f] = NoServer
      BY <1>1, <2>2 DEF Connections, Sockets, LowestFree
    <3>4. pc = "loop" /\ closing["main"].at = "idle" /\ closing["main"].fd = 0
      BY <1>2, <1>6 DEF Accept, Dispatch, Places, At
    <3>5. ~Closed(f)
      BY <1>1, <3>3, <3>4, FdsAssumption DEF Closed, Connections, Closings, Stage, Threads
    <3> USE <1>1, <1>2, <2>2, <3>1, <3>3, FdsAssumption
        DEF Connections, TypeOK, Open, link
    <3>6. Sockets' /\ Clients' /\ Served'
      BY <3>2, <3>4 DEF Sockets, Clients, Served, Handshake, ClosingStages, AddingStages
    <3>7. Accepted'
      BY <3>2, <3>4, <3>5 DEF Accepted, Handshake, ClosingStages, AddingStages
    <3>8. Linked' /\ Closings'
      BY <3>4 DEF Linked, Closings, Stage, At
    <3> QED
      BY <3>6, <3>7, <3>8
  <2> QED
    BY <1>6, <2>1, <2>2 DEF Accept
<1>7. ASSUME NEW f \in Fds, NEW kind \in {"in", "hup"}, EventClose(f, kind)
      PROVE  Connections'
  BY <1>1, <1>2, <1>7, StartConnections, ClosersAssumption
     DEF EventClose, Dispatch, Handshake, ClosingStages, AddingStages, Places
<1>8. CASE Abort
  <2>1. client_socket \in Fds /\ closing["main"].fd = 0 /\ "main" \notin Closers
    BY <1>2, <1>8, ClosersAssumption DEF Abort, Places, Handshake
  <2> QED
    BY <1>1, <1>2, <1>8, <2>1, StartConnections
       DEF Abort, Return, Handshake, ClosingStages, AddingStages
<1>9. ASSUME NEW t \in Closers, NEW f \in Fds, ThreadClose(t, f)
      PROVE  Connections'
  <2>1. closing[t].fd = 0
    BY <1>2, <1>9 DEF ThreadClose, Places
  <2>2. pc \in Handshake => f # client_socket \/ pc \in AddingStages
    BY <1>1, <1>9 DEF ThreadClose, Connections, Accepted
  <2> QED
    BY <1>1, <1>2, <1>9, <2>1, <2>2, StartConnections DEF ThreadClose, main
<1>10. ASSUME NEW f \in Fds, Hangup(f) PROVE Connections'
  <2>1. \A g \in Fds \cup {0} : (sock'[g] = "free") <=> (sock[g] = "free")
    BY <1>10, FdsAssumption DEF Hangup, TypeOK
  <2> QED
    BY <1>1, <1>10, <2>1, FrameConnections DEF Hangup, closes, main, registry, link, Places
<1> QED
  BY <1>1, <1>3, <1>4, <1>5, <1>6, <1>7, <1>8, <1>9, <1>10, StepKinds, ConnectConnections,
     ClosingConnections DEF Between, Closes

----------------------------------------------------------------------------
(* The counter follows the registry, until two threads update it at once. *)

\* There are at most three threads, and no more clients than descriptors.
LEMMA AllFinite ==
  ASSUME TypeOK
  PROVE  /\ IsFiniteSet(connected_clients) /\ Cardinality(connected_clients) \in Nat
         /\ IsFiniteSet(Deleted) /\ Cardinality(Deleted) \in Nat
<1>1. IsFiniteSet(connected_clients)
  BY FdsAssumption, FS_Subset DEF TypeOK
<1>2. IsFiniteSet({"main", "services", "console"})
  <2>1. IsFiniteSet({}) /\ {"main", "services", "console"}
          = (({} \cup {"main"}) \cup {"services"}) \cup {"console"}
    BY FS_EmptySet
  <2>2. IsFiniteSet({} \cup {"main"})
    BY <2>1, FS_AddElement
  <2>3. IsFiniteSet(({} \cup {"main"}) \cup {"services"})
    BY <2>2, FS_AddElement
  <2> QED
    BY <2>1, <2>3, FS_AddElement
<1>3. Deleted \subseteq {"main", "services", "console"}
  BY ClosersAssumption DEF Deleted, Threads
<1>4. IsFiniteSet(Deleted)
  BY <1>2, <1>3, FS_Subset
<1> QED
  BY <1>1, <1>4, FS_CardinalityType

\* A step that neither adds, deletes nor counts.
LEMMA FrameCounted ==
  ASSUME Counted, overlaps \subseteq overlaps', number' = number, UNCHANGED registry,
         \A t \in Threads :
           /\ closing'[t].at \in {"count", "counted"} <=> closing[t].at \in {"count", "counted"}
           /\ closing'[t].at = "counted" <=> closing[t].at = "counted",
         UNCHANGED pc
           \/ (pc \notin {"count", "counted"} /\ pc' \notin {"count", "counted"})
  PROVE  Counted'
<1>1. Deleted' = Deleted
  BY DEF Deleted
<1>2. Added' = Added
  BY DEF Added
<1>3. \A t \in Threads : Counting(t)' <=> Counting(t)
  BY DEF Counting, At
<1> QED
  BY <1>1, <1>2, <1>3 DEF Counted, registry

\* A thread that loads the counter when no other thread has.
LEMMA LoadCounts ==
  ASSUME TypeOK, Counted, overlaps' = {}, NEW t \in Threads, Load(t), UNCHANGED registry,
         Deleted' = Deleted, Added' = Added,
         \A u \in Threads : u # t => (Counting(u)' <=> Counting(u))
  PROVE  Counted'
<1>1. /\ overlaps = {}
      /\ \A u \in Threads : u # t => ~Counting(u)
      /\ number'[t] = connected_clients_number
  BY DEF Load, Others, TypeOK
<1> QED
  BY <1>1 DEF Counted, registry

\* A thread that stores the counter alone.
LEMMA StoreCounts ==
  ASSUME TypeOK, Counted, overlaps' = overlaps, NEW t \in Threads, Counting(t),
         NEW change \in Int, Store(t, change), UNCHANGED connected_clients,
         change + Added' - Added = Cardinality(Deleted') - Cardinality(Deleted),
         Added \in Int, Added' \in Int,
         Cardinality(Deleted) \in Int, Cardinality(Deleted') \in Int,
         ~Counting(t)',
         \A u \in Threads : u # t => (Counting(u)' <=> Counting(u))
  PROVE  Counted'
<1> SUFFICES ASSUME overlaps = {} PROVE Counted'
  BY DEF Counted
<1>1. \A u \in Threads : ~Counting(u)'
  BY DEF Counted
<1>2. connected_clients_number' = connected_clients_number + change
  BY DEF Store, Counted
<1>3. connected_clients_number + Added = Cardinality(connected_clients) + Cardinality(Deleted)
  BY DEF Counted
<1>4. Cardinality(connected_clients) \in Int /\ connected_clients_number \in Int
  BY AllFinite DEF TypeOK
<1>5. connected_clients_number' + Added' = Cardinality(connected_clients) + Cardinality(Deleted')
  BY <1>2, <1>3, <1>4
<1> QED
  BY <1>1, <1>5 DEF Counted

\* The steps of a close.
LEMMA ClosingCounts ==
  ASSUME TypeOK, Places, Connected, Counted, NEW t \in Threads, Closing(t)
  PROVE  Counted'
<1>1. /\ UNCHANGED pc
      /\ \A u \in Threads : u # t => closing'[u] = closing[u]
      /\ t = "main" => pc = "loop"
      /\ closing \in [Threads -> [at : Steps, fd : Fds \cup {0}]]
  BY ClosingMoves DEF Closing, main, Places, At, TypeOK, Steps
<1>2. Added' = Added /\ Added \in Int
  BY <1>1 DEF Added
<1>3. \A u \in Threads : u # t => (Counting(u)' <=> Counting(u))
  BY <1>1 DEF Counting, At
<1>4. CASE Deregister(t) \/ LinkDown(t) \/ Lookup(t) \/ CloseSocket(t)
  <2>1. /\ number' = number /\ UNCHANGED <<overlaps, registry>>
        /\ closing[t].at \in {"epoll", "link", "lookup", "close"}
    BY <1>4 DEF Deregister, LinkDown, Lookup, CloseSocket, At
  <2>2. closing'[t].at \notin {"count", "counted"}
    <3>1. CASE CloseSocket(t)
      BY <1>1, <3>1 DEF CloseSocket, Idle
    <3>2. CASE ~CloseSocket(t)
      <4>1. PICK step \in {"link", "lookup", "delete", "close"} : Step(t, step)
        BY <1>4, <3>2 DEF Deregister, LinkDown, Lookup
      <4> QED
        BY <4>1, StepOfClose DEF Steps
    <3> QED
      BY <3>1, <3>2
  <2> QED
    BY <1>1, <2>1, <2>2, FrameCounted
<1>5. CASE Delete(t)
  <2>1. /\ UNCHANGED <<number, overlaps, connected_clients_number>>
        /\ connected_clients' = connected_clients \ {closing[t].fd}
        /\ closing[t].at = "delete" /\ closing'[t].at = "count"
    BY <1>5, StepOfClose DEF Delete, At, Steps
  <2> SUFFICES ASSUME overlaps = {} PROVE Counted'
    BY <2>1 DEF Counted
  <2>2. closing[t].fd \in connected_clients
    BY <2>1, ClosingMoves, FdsAssumption DEF Connected, Connections, Closings, Stage
  <2>3. Cardinality(connected_clients') = Cardinality(connected_clients) - 1
    BY <2>1, <2>2, AllFinite, FS_RemoveElement
  <2>4. t \notin Deleted /\ Deleted' = Deleted \cup {t}
    BY <1>1, <2>1 DEF Deleted
  <2>5. Cardinality(Deleted') = Cardinality(Deleted) + 1
    BY <2>4, AllFinite, FS_AddElement
  <2>6. ~Counting(t) /\ ~Counting(t)'
    BY <1>1, <2>1 DEF Counting, At
  <2>7. connected_clients_number \in Int
    BY DEF TypeOK
  <2> QED
    BY <1>2, <1>3, <2>1, <2>3, <2>5, <2>6, <2>7, AllFinite DEF Counted
<1>6. CASE LoadToDelete(t)
  <2>1. Load(t) /\ closing[t].at = "count" /\ closing'[t].at = "counted" /\ UNCHANGED registry
    BY <1>6, StepOfClose DEF LoadToDelete, At, Steps
  <2>2. Deleted' = Deleted
    BY <1>1, <2>1 DEF Deleted
  <2> QED
    BY <1>2, <1>3, <2>1, <2>2, LoadCounts DEF Counted
<1>7. CASE StoreDeleted(t)
  <2>1. /\ Store(t, -1) /\ UNCHANGED <<overlaps, connected_clients>>
        /\ closing[t].at = "counted" /\ closing'[t].at = "close"
    BY <1>7, StepOfClose DEF StoreDeleted, At, Steps
  <2>2. t \in Deleted /\ Deleted' = Deleted \ {t}
    BY <1>1, <2>1 DEF Deleted
  <2>3. Cardinality(Deleted') = Cardinality(Deleted) - 1
    BY <2>2, AllFinite, FS_RemoveElement
  <2>4. Counting(t) /\ ~Counting(t)'
    BY <1>1, <2>1 DEF Counting, At
  <2>5. Cardinality(Deleted) \in Int /\ Cardinality(Deleted') \in Int
    BY <2>3, AllFinite
  <2> HIDE DEF Store
  <2> QED
    BY <1>2, <1>3, <2>1, <2>3, <2>4, <2>5, StoreCounts
<1> QED
  BY <1>4, <1>5, <1>6, <1>7 DEF Closing

\* The steps of a handshake.
LEMMA ConnectCounts ==
  ASSUME TypeOK, Places, Connected, Counted, InHandshake
  PROVE  Counted'
<1>1. "main" \in Threads /\ closing["main"].at = "idle" /\ UNCHANGED closing
  BY DEF InHandshake, Attach, X2Left, ReadLabel, RRCSetupComplete, Answer, DrxConfig,
     Reconnect, LoadToAdd, StoreAdded, RegisterClient, X2Established, closes, Threads, At
<1>2. Deleted' = Deleted
  BY <1>1 DEF Deleted
<1>3. \A u \in Threads : u # "main" => (Counting(u)' <=> Counting(u))
  BY <1>1 DEF Counting, At
<1>4. CASE Attach \/ X2Left \/ ReadLabel \/ RRCSetupComplete \/ RegisterClient \/ X2Established
  BY <1>1, <1>4, FrameCounted DEF Attach, X2Left, ReadLabel, RRCSetupComplete, Answer,
     RegisterClient, X2Established, X2Info, RegisterSocket, Return, Continue, closes, registry
<1>5. CASE DrxConfig \/ Reconnect
  <2>1. /\ connected_clients' = connected_clients \cup {client_socket}
        /\ UNCHANGED <<number, overlaps, connected_clients_number>>
        /\ pc \in {"drx", "old_c_rnti"} /\ pc' = "count"
    BY <1>5 DEF DrxConfig, Reconnect, AddClient, Continue, closes
  <2> SUFFICES ASSUME overlaps = {} PROVE Counted'
    BY <2>1 DEF Counted
  <2>2. client_socket \notin connected_clients
    BY <2>1 DEF Connected, Connections, Accepted, Handshake, ClosingStages, AddingStages
  <2>3. Cardinality(connected_clients') = Cardinality(connected_clients) + 1
    BY <2>1, <2>2, AllFinite, FS_AddElement
  <2>4. Added = 0 /\ Added' = 1
    BY <2>1 DEF Added
  <2>5. ~Counting("main") /\ ~Counting("main")'
    BY <1>1, <2>1 DEF Counting, At
  <2>6. connected_clients_number \in Int
    BY DEF TypeOK
  <2> QED
    BY <1>2, <1>3, <2>1, <2>3, <2>4, <2>5, <2>6, AllFinite DEF Counted
<1>6. CASE LoadToAdd
  <2>1. Added' = Added
    BY <1>6 DEF LoadToAdd, Added, Continue
  <2> QED
    BY <1>1, <1>2, <1>3, <1>6, <2>1, LoadCounts DEF Counted, LoadToAdd
<1>7. CASE StoreAdded
  <2>1. Added = 1 /\ Added' = 0 /\ pc = "counted" /\ pc' = "register"
    BY <1>7 DEF StoreAdded, Added, Continue
  <2>2. Counting("main") /\ ~Counting("main")'
    BY <1>1, <2>1 DEF Counting, At
  <2>3. Store("main", 1) /\ UNCHANGED <<overlaps, connected_clients>>
    BY <1>7 DEF StoreAdded
  <2>4. Cardinality(Deleted) \in Int
    BY AllFinite
  <2> QED
    BY <1>1, <1>2, <1>3, <2>1, <2>2, <2>3, <2>4, StoreCounts
<1> QED
  BY <1>4, <1>5, <1>6, <1>7 DEF InHandshake

\* Each step keeps the counter right.
LEMMA CountedStep ==
  ASSUME TypeOK, Places, Connected, Counted, [Next]_vars
  PROVE  Counted'
<1>1. "main" \in Threads /\ Closers \subseteq Threads
  BY DEF Threads
<1>2. CASE Aside
  BY <1>2, FrameCounted DEF Aside, closes, Message, Payload
<1>3. CASE Between
  BY <1>3, FrameCounted DEF Between, Startup, EpollWait, Accept, Dispatch, closes, registry
<1>4. ASSUME NEW f \in Fds, Hangup(f) PROVE Counted'
  BY <1>4, FrameCounted DEF Hangup, closes, main
<1>5. ASSUME NEW t \in Threads, NEW f \in Fds, At(t, "idle"), close_connection(t, f),
             UNCHANGED registry,
             UNCHANGED pc
               \/ (pc \notin {"count", "counted"} /\ pc' \notin {"count", "counted"})
      PROVE  Counted'
  BY <1>5, CloseStarts, FrameCounted DEF At
<1>6. CASE Closes
  <2>1. ASSUME NEW f \in Fds, NEW kind \in {"in", "hup"}, EventClose(f, kind) PROVE Counted'
    BY <1>1, <1>5, <2>1 DEF EventClose
  <2>2. CASE Abort
    BY <1>1, <1>5, <2>2 DEF Abort, Return, ClosingStages, Places, Handshake
  <2>3. ASSUME NEW t \in Closers, NEW f \in Fds, ThreadClose(t, f) PROVE Counted'
    BY <1>1, <1>5, <2>3 DEF ThreadClose, main
  <2> QED
    BY <1>6, <2>1, <2>2, <2>3, ClosingCounts DEF Closes
<1> QED
  BY <1>2, <1>3, <1>4, <1>6, StepKinds, ConnectCounts

----------------------------------------------------------------------------
(* The client that a handler looks up. *)

\* If it is not there, the reason is one of those that ClientFound lists.
LEMMA ClientMissing ==
  ASSUME Connections, At("main", "idle"), Places, pc \in Message, client_socket \notin connected_clients
  PROVE  \/ ~Open(client_socket)
         \/ peer[client_socket] # NoServer
         \/ \E t \in Closers : closing[t].fd = client_socket
<1>1. client_socket \in Fds /\ pc \notin Handshake
  BY DEF Places, Message, Payload, Handshake, ClosingStages, AddingStages
<1>2. closing["main"].fd # client_socket
  BY <1>1, FdsAssumption DEF Places, Threads
<1> QED
  BY <1>1, <1>2 DEF Connections, Served, Closed, Threads

\* No step uses a client that is not there for another reason.
LEMMA ClientFoundStep ==
  ASSUME TypeOK, Places, Connected, ClientFound, [Next]_vars
  PROVE  ClientFound'
<1>1. CASE UNCHANGED vars
  BY <1>1 DEF vars, kernel, closes, main, ClientFound, Open
<1> SUFFICES ASSUME Next, process = "running", process' = "segv",
                    "connection" \notin overlaps'
             PROVE  ClientFound'
  BY <1>1 DEF Next, MainThread, OtherThreads, RemoteEnds, Running, ClientFound
<1>2. Connections
  BY OverlapsGrow DEF Connected
<1>3. ASSUME NEW t \in Threads, Closing(t) PROVE FALSE
  <2>1. Delete(t)
    BY <1>3 DEF Closing, Deregister, LinkDown, Lookup, LoadToDelete, StoreDeleted,
       CloseSocket, x2_send_server_info, Write
  <2>2. closing[t].fd \in connected_clients
    BY <1>2, <1>3, <2>1, ClosingMoves, FdsAssumption
       DEF Delete, At, Connections, Closings, Stage
  <2> QED
    BY <2>1, <2>2 DEF Delete
<1>4. ASSUME NEW f \in Fds, Handle(f) PROVE FALSE
  BY <1>4 DEF Handle, HangupEvent, InputIgnored, PingOrBattery, SendFilesList,
     UeShutdown, RequestDownload, MeasurementReport, ClientInfo, Input, Write
<1>5. CASE Connect
  BY <1>5 DEF Connect, ReadLabel, HandshakeAborted, RandomAccess, RRCSetup,
     RRCSetupComplete, DrxConfig, Reconnect, ReconnectNotFound, LoadToAdd, StoreAdded,
     RegisterClient, X2Established, X2Refused, X2InfoTimeout, x2_send_server_info, Write
<1>6. CASE OnMessage /\ At("main", "idle")
  <2>1. pc \in Message /\ UNCHANGED <<kernel, closes>>
    BY <1>6 DEF OnMessage, PayloadTimeout, RecordPing, LookUpDownload, ReadRequest,
       StartDownload, ReadSignal, StoreSignal, CompareSignal, x2_handle_handover,
       ReceiveClientInfo, WithClient, ReadBody, Message, Payload
  <2>2. client_socket' = client_socket /\ client_socket \notin connected_clients
    BY <1>6 DEF OnMessage, PayloadTimeout, RecordPing, LookUpDownload, ReadRequest,
       StartDownload, ReadSignal, StoreSignal, CompareSignal, x2_handle_handover,
       ReceiveClientInfo, WithClient, ReadBody, UseClient, Write, Continue
  <2> QED
    BY <1>2, <1>6, <2>1, <2>2, ClientMissing DEF ClientFound, kernel, closes, Open
<1>7. CASE Startup \/ EpollWait \/ Accept
  BY <1>7 DEF Startup, EpollWait, Accept
<1>8. CASE OtherThreads \/ RemoteEnds
  BY <1>3, <1>8 DEF OtherThreads, RemoteEnds, ThreadClose, ServicesSend, Hangup, Threads
<1> QED
  BY <1>3, <1>4, <1>5, <1>6, <1>7, <1>8 DEF Next, MainThread, Threads

----------------------------------------------------------------------------
(* The theorems. *)

\* The invariant holds before the server starts.
LEMMA IInvInit == Init => IInv
<1> SUFFICES ASSUME Init PROVE IInv
  OBVIOUS
<1>1. TypeOK
  <2>1. reconnection_clients_buffer \in Seq(Rntis)
    BY DEF Init
  <2>2. events \subseteq (Fds \cup {server_socket}) \X {"in", "hup"}
    BY DEF Init
  <2>3. /\ sock \in [Fds -> {"free", "up", "hup"}]
        /\ peer \in [Fds -> Peers \cup {NoServer}]
        /\ told \in [Fds -> Infos]
        /\ number \in [Threads -> Int]
    BY DEF Init, Infos
  <2>4. closing \in [Threads -> [at : Steps, fd : Fds \cup {0}]]
    BY DEF Init, Idle, Steps
  <2>5. other_server_connected \in BOOLEAN
    BY Zenon DEF Init
  <2> QED
    BY <2>1, <2>2, <2>3, <2>4, <2>5 DEF Init, TypeOK, Infos, Steps
<1>2. Places
  BY DEF Init, Places, Idle, At, Threads, Message, Payload, Handshake, ClosingStages,
         AddingStages
<1>3. Connections
  <2>1. \A t \in Threads : closing[t].fd = 0 /\ closing[t].at = "idle"
    BY DEF Init, Idle
  <2>2. Sockets /\ Clients /\ Served /\ Accepted /\ Linked
    BY FdsAssumption DEF Init, Sockets, Clients, Served, Accepted, Linked, Open, Handshake,
       ClosingStages, AddingStages
  <2>3. Closings
    BY <2>1 DEF Closings, Stage
  <2> QED
    BY <2>2, <2>3 DEF Connections
<1>4. Counted
  <2>1. \A t \in Threads : closing[t].at = "idle"
    BY DEF Init, Idle
  <2>2. Deleted = {} /\ Added = 0 /\ \A t \in Threads : ~Counting(t)
    BY <2>1 DEF Init, Deleted, Added, Counting, At
  <2>3. Cardinality({}) = 0
    BY FS_EmptySet
  <2>4. connected_clients_number + Added = Cardinality(connected_clients) + Cardinality(Deleted)
    BY <2>2, <2>3 DEF Init
  <2> QED
    BY <2>2, <2>4 DEF Counted
<1> QED
  BY <1>1, <1>2, <1>3, <1>4 DEF Init, IInv, Connected, ClientFound

\* Every reachable state satisfies the inductive invariant.
THEOREM Invariance == Spec => []IInv
<1>1. IInv /\ [Next]_vars => IInv'
  BY TypeStep, PlacesStep, ConnectionsStep, CountedStep, ClientFoundStep DEF IInv
<1> QED
  BY IInvInit, <1>1, PTL DEF Spec

\* The variables have their types, also after an overlap of two threads.
THEOREM TypeCorrect == Spec => []TypeOK
  BY Invariance, PTL DEF IInv

\* While no two threads have been at one connection or at the counter at the
\* same time, the counter is the number of clients between updates, however the
\* steps of closes and of attaches interleave.
THEOREM CountCorrect == Spec => []RegistryCount
<1>1. IInv => RegistryCount
  <2> SUFFICES ASSUME IInv, overlaps = {}, Quiet
               PROVE  connected_clients_number = Cardinality(connected_clients)
    BY DEF RegistryCount
  <2>1. Added = 0 /\ Deleted = {}
    BY DEF Quiet, Added, Deleted
  <2>2. Cardinality({}) = 0
    BY FS_EmptySet
  <2> QED
    BY <2>1, <2>2, AllFinite DEF IInv, Counted, TypeOK
<1> QED
  BY Invariance, <1>1, PTL

\* Until two threads close one connection, a client that is neither being added
\* nor closed has an open, registered socket of a UE, whoever closes others.
THEOREM RegistryCorrect == Spec => []RegistrySound
<1>1. IInv => RegistrySound
  <2> SUFFICES ASSUME IInv, "connection" \notin overlaps, NEW f \in Fds, ~Closed(f),
                      ~(pc \in AddingStages /\ f = client_socket)
               PROVE  /\ f \in connected_clients => f \in epollSet /\ f # other_server_fd
                      /\ f \in connected_clients <=> f \in epollSet /\ peer[f] = NoServer
    BY DEF RegistrySound
  <2>1. Connections
    BY DEF IInv, Connected
  <2>2. f \in epollSet => Open(f)
    BY <2>1 DEF Connections, Sockets
  <2>3. f \in epollSet => ~(pc \in Handshake /\ f = client_socket)
    BY <2>1 DEF Connections, Accepted
  <2> QED
    BY <2>1, <2>2, <2>3 DEF Connections, Clients, Served
<1> QED
  BY Invariance, <1>1, PTL

\* Until two threads close one connection, other_server_fd is 0 or the open
\* socket of another eNodeB.
THEOREM LinkCorrect == Spec => []LinkSound
<1>1. IInv => LinkSound
  <2> SUFFICES ASSUME IInv, "connection" \notin overlaps
               PROVE  /\ other_server_fd # 0 =>
                           Open(other_server_fd) /\ peer[other_server_fd] # NoServer
                      /\ other_server_connected =>
                           \/ other_server_fd \in epollSet
                           \/ closing["main"] = [at |-> "link", fd |-> other_server_fd]
    BY DEF LinkSound
  <2>1. closing["main"].at = "link" /\ closing["main"].fd = other_server_fd =>
          closing["main"] = [at |-> "link", fd |-> other_server_fd]
    BY DEF IInv, TypeOK, Threads
  <2> QED
    BY <2>1 DEF IInv, Connected, Connections, Linked, At
<1> QED
  BY Invariance, <1>1, PTL

\* Until two threads close one connection, each close hits the connection that
\* it was begun for, on whichever thread and whatever the others do meanwhile.
THEOREM CloseIsOwn == Spec => []ClosesItsClient
<1>1. IInv => ClosesItsClient
  <2> SUFFICES ASSUME IInv, "connection" \notin overlaps,
                      NEW t \in Threads, At(t, "close")
               PROVE  /\ closing[t].fd \notin connected_clients
                      /\ ~(pc \in ClosingStages /\ client_socket = closing[t].fd)
    BY DEF ClosesItsClient
  <2>1. Connections
    BY DEF IInv, Connected
  <2>2. closing[t].fd # 0
    BY DEF IInv, Places, At
  <2>3. closing[t].fd \notin connected_clients
    BY <2>1, <2>2 DEF Connections, Closings, Stage, At
  <2>4. Closed(closing[t].fd)
    BY DEF Closed
  <2>5. ~(pc \in ClosingStages /\ client_socket = closing[t].fd)
    BY <2>1, <2>4 DEF Connections, Accepted, Handshake, ClosingStages, AddingStages
  <2> QED
    BY <2>3, <2>5
<1> QED
  BY Invariance, <1>1, PTL

\* Until two threads close one connection, no UE's socket leaks, whatever path
\* its handshake takes and whoever closes it.
THEOREM NoUeLeaks == Spec => []OnlyX2SocketsLeak
<1>1. IInv => OnlyX2SocketsLeak
  BY DEF IInv, Connected, Connections, Clients, Served, OnlyX2SocketsLeak, Leaked, Handshake
<1> QED
  BY Invariance, <1>1, PTL

\* get_connected_client returns NULL to a handler that uses the result only for
\* a message of another eNodeB or when another thread closes that client.
THEOREM MissingClients == Spec => []ClientFound
  BY Invariance, PTL DEF IInv

----------------------------------------------------------------------------
(* What holds while only the main thread closes connections. *)

\* Then no two threads are ever at anything.
LEMMA Alone ==
  ASSUME Closers = {}
  PROVE  Spec => [](overlaps = {})
<1>1. Threads = {"main"}
  BY DEF Threads
<1>2. ASSUME TypeOK, Places, overlaps = {}, [Next]_vars PROVE overlaps' = {}
  <2>1. CASE Aside \/ Between \/ \E f \in Fds : Hangup(f)
    BY <1>2, <2>1 DEF Aside, Between, Startup, EpollWait, Accept, Hangup, closes
  <2>2. CASE InHandshake
    BY <1>1, <1>2, <2>2 DEF InHandshake, Attach, X2Left, ReadLabel, RRCSetupComplete, Answer,
       DrxConfig, Reconnect, LoadToAdd, Load, StoreAdded, RegisterClient, X2Established,
       closes, Others
  <2>3. CASE Closes
    BY <1>1, <1>2, <2>3 DEF Closes, EventClose, Abort, close_connection, Closing,
       Deregister, LinkDown, Lookup, Delete, LoadToDelete, Load, StoreDeleted, CloseSocket,
       Others
  <2> QED
    BY <1>2, <2>1, <2>2, <2>3, StepKinds
<1>3. Init => overlaps = {}
  BY DEF Init
<1>4. IInv /\ overlaps = {} /\ [Next]_vars => (overlaps = {})'
  BY <1>2 DEF IInv
<1> QED
  BY <1>3, <1>4, Invariance, PTL DEF Spec

\* The array has one entry for each descriptor, and none of the one the main
\* thread is closing.
OneEntry ==
  \A f \in Fds :
    /\ <<f, "in">> \in events => <<f, "hup">> \notin events
    /\ closing["main"].fd = f => <<f, "in">> \notin events /\ <<f, "hup">> \notin events

Batch == BatchAccurate /\ OneEntry

\* There is no event of the socket of a handshake.
LEMMA HandshakeNotInBatch ==
  ASSUME Connections, Places, BatchAccurate, pc \in Handshake
  PROVE  /\ client_socket \in Fds
         /\ <<client_socket, "in">> \notin events
         /\ <<client_socket, "hup">> \notin events
<1>1. client_socket \in Fds /\ client_socket \notin epollSet
  BY DEF Connections, Accepted, Places
<1> QED
  BY <1>1 DEF BatchAccurate

\* A thread that starts to close leaves no event of the connection in the array.
LEMMA StartKeepsBatch ==
  ASSUME TypeOK, Batch, NEW f \in Fds, close_connection("main", f), events' \subseteq events,
         <<f, "in">> \notin events', <<f, "hup">> \notin events', UNCHANGED kernel,
         closing["main"].fd = 0
  PROVE  Batch'
<1>1. closing'["main"].fd = f
  BY CloseStarts DEF Threads
<1> QED
  BY <1>1 DEF Batch, BatchAccurate, OneEntry, Open, kernel

\* The steps of a close touch no other connection.
LEMMA ClosingKeepsBatch ==
  ASSUME TypeOK, Places, Batch, Closing("main")
  PROVE  Batch'
<1>1. /\ closing["main"].fd \in Fds /\ UNCHANGED events
      /\ closing'["main"].fd \in {closing["main"].fd, 0}
  <2>1. closing["main"].fd \in Fds /\ UNCHANGED events
    BY ClosingMoves DEF Threads, Closing, main
  <2>2. CASE CloseSocket("main")
    <3>1. closing' = [closing EXCEPT !["main"] = Idle] /\ "main" \in DOMAIN closing
      BY <2>2 DEF CloseSocket, TypeOK, Threads
    <3> QED
      BY <2>1, <3>1 DEF Idle
  <2>3. CASE ~CloseSocket("main")
    <3>1. PICK step \in Steps : Step("main", step)
      BY <2>3 DEF Closing, Deregister, LinkDown, Lookup, Delete, LoadToDelete, StoreDeleted,
         Steps
    <3> QED
      BY <2>1, <3>1, StepOfClose DEF Threads
  <2> QED
    BY <2>1, <2>2, <2>3
<1>2. \A g \in Fds : g # closing["main"].fd =>
        sock'[g] = sock[g] /\ (g \in epollSet => g \in epollSet')
  BY <1>1 DEF Closing, Deregister, LinkDown, Lookup, Delete, LoadToDelete, StoreDeleted,
     CloseSocket, kernel, TypeOK
<1>3. \A g \in Fds : (g = closing'["main"].fd) => g = closing["main"].fd
  BY <1>1, FdsAssumption
<1> QED
  BY <1>1, <1>2, <1>3 DEF Batch, BatchAccurate, OneEntry, Open

\* Each step leaves the rest of the batch accurate.
LEMMA BatchStep ==
  ASSUME Closers = {}, TypeOK, Places, Connections, Batch, [Next]_vars
  PROVE  Batch'
<1> USE ListenAssumption, FdsAssumption DEF Batch, BatchAccurate, OneEntry, Open, kernel
<1>1. CASE Aside
  BY <1>1 DEF Aside, closes
<1>2. CASE Startup
  BY <1>2 DEF Startup, TypeOK, x2_request_server_connection, LowestFree, closes, Sockets,
     Connections
<1>3. CASE At("main", "idle") /\ EpollWait
  <2>1. \A f \in Fds :
          /\ <<f, "hup">> \in events' => sock[f] = "hup" /\ f \in epollSet
          /\ <<f, "in">> \in events' => sock[f] = "up" /\ f \in epollSet
    BY <1>3 DEF EpollWait
  <2>2. closing'["main"].fd = 0
    BY <1>3 DEF EpollWait, Places, closes, Threads
  <2> QED
    BY <1>3, <2>1, <2>2 DEF EpollWait
<1>4. CASE Accept
  BY <1>4 DEF Accept, TypeOK, Dispatch, LowestFree, closes
<1>5. CASE InHandshake
  <2>1. UNCHANGED <<sock, events, closing>> /\ epollSet \subseteq epollSet'
    BY <1>5 DEF InHandshake, Attach, X2Left, ReadLabel, RRCSetupComplete, Answer, DrxConfig,
       Reconnect, LoadToAdd, StoreAdded, RegisterClient, X2Established, RegisterSocket, closes
  <2> QED
    BY <2>1
<1>6. ASSUME NEW f \in Fds, NEW kind \in {"in", "hup"}, EventClose(f, kind) PROVE Batch'
  BY <1>6, StartKeepsBatch DEF EventClose, Dispatch, Places, Threads
<1>7. CASE Abort
  BY <1>7, StartKeepsBatch, HandshakeNotInBatch DEF Abort, Places, Threads, Handshake
<1>8. ASSUME NEW f \in Fds, Hangup(f) PROVE Batch'
  BY <1>8 DEF Hangup, TypeOK, closes, main
<1> QED
  BY <1>1, <1>2, <1>3, <1>4, <1>5, <1>6, <1>7, <1>8, StepKinds, ClosingKeepsBatch
     DEF Between, Closes, Threads

\* As long as only the main thread closes connections, no event of the array is
\* stale: each is about the connection that it was reported for.
THEOREM BatchCorrect ==
  ASSUME Closers = {}
  PROVE  Spec => []BatchAccurate
<1>1. Init => Batch
  BY FdsAssumption DEF Init, Batch, BatchAccurate, OneEntry
<1>2. IInv /\ overlaps = {} /\ Batch /\ [Next]_vars => Batch'
  BY BatchStep DEF IInv, Connected
<1>3. Batch => BatchAccurate
  BY DEF Batch
<1> QED
  BY <1>1, <1>2, <1>3, Invariance, Alone, PTL DEF Spec

\* Nothing is connected before the event loop runs.
Starting == pc = "startup" => connected_clients = {} /\ ~other_server_connected

\* This holds in every state.
LEMMA StartingInvariance == Spec => []Starting
<1>1. Init => Starting
  BY DEF Init, Starting
<1>2. ASSUME TypeOK, Places, Starting, [Next]_vars, pc' = "startup" PROVE Starting'
  <2>1. CASE Aside \/ Between
    BY <1>2, <2>1 DEF Aside, Between, Startup, EpollWait, Accept, Dispatch, Starting,
       registry, link, Message, Payload
  <2>2. CASE InHandshake
    BY <1>2, <2>2 DEF InHandshake, Attach, X2Left, ReadLabel, RRCSetupComplete, Answer,
       DrxConfig, Reconnect, AddClient, LoadToAdd, StoreAdded, RegisterClient,
       X2Established, X2Info, RegisterSocket, Return, Continue
  <2>3. CASE Closes
    BY <1>2, <2>3 DEF Closes, EventClose, Abort, ThreadClose, Dispatch, Return, Closing,
       Deregister, LinkDown, Lookup, Delete, LoadToDelete, StoreDeleted, CloseSocket, main,
       registry, link, Starting
  <2>4. CASE \E f \in Fds : Hangup(f)
    BY <1>2, <2>4 DEF Hangup, main, registry, link, Starting
  <2> QED
    BY <1>2, <2>1, <2>2, <2>3, <2>4, StepKinds
<1>3. IInv /\ Starting /\ [Next]_vars => Starting'
  BY <1>2 DEF IInv, Starting
<1> QED
  BY <1>1, <1>3, Invariance, PTL DEF Spec

\* A step gives the link up only where it closes it, and that starts only with
\* an event of its socket.
LEMMA LinkStep ==
  ASSUME Closers = {}, TypeOK, Places, Connections, Starting, [Next]_vars,
         other_server_connected
  PROVE  /\ \/ other_server_connected' /\ other_server_fd' = other_server_fd
            \/ closing["main"].fd = other_server_fd
         /\ closing'["main"].fd = other_server_fd =>
              \/ closing["main"].fd = other_server_fd
              \/ \E kind \in {"in", "hup"} : <<other_server_fd, kind>> \in events
<1>1. other_server_fd \in Fds /\ "main" \in Threads
  BY FdsAssumption DEF TypeOK, Connections, Linked, Places, At, Threads
<1>2. CASE Aside
  BY <1>2 DEF Aside, closes, link
<1>3. CASE Between
  BY <1>3 DEF Between, Startup, Starting, EpollWait, Accept, closes, link
<1>4. CASE InHandshake
  BY <1>4 DEF InHandshake, Attach, X2Left, ReadLabel, RRCSetupComplete, Answer,
     DrxConfig, Reconnect, LoadToAdd, StoreAdded, RegisterClient, X2Established, closes, link
<1>5. ASSUME NEW f \in Fds, NEW kind \in {"in", "hup"}, EventClose(f, kind)
      PROVE  /\ other_server_connected' /\ other_server_fd' = other_server_fd
             /\ closing'["main"].fd = other_server_fd =>
                  \E k \in {"in", "hup"} : <<other_server_fd, k>> \in events
  BY <1>1, <1>5, CloseStarts DEF EventClose, Dispatch, link
<1>6. CASE Abort
  <2>1. client_socket \in Fds /\ client_socket # other_server_fd
    BY <1>6 DEF Abort, Places, Connections, Accepted, Handshake
  <2> QED
    BY <1>1, <1>6, <2>1, CloseStarts DEF Abort, link
<1>7. CASE Closing("main")
  <2>1. CASE CloseSocket("main")
    BY <1>1, <2>1, FdsAssumption DEF CloseSocket, Idle, TypeOK, link
  <2>2. CASE ~CloseSocket("main")
    <3>1. PICK step \in Steps : Step("main", step)
      BY <1>7, <2>2 DEF Closing, Deregister, LinkDown, Lookup, Delete, LoadToDelete,
         StoreDeleted, Steps
    <3>2. closing'["main"].fd = closing["main"].fd
      BY <1>1, <3>1, StepOfClose
    <3>3. CASE LinkDown("main")
      BY <1>1, <3>2, <3>3, FdsAssumption DEF LinkDown, At, Places, Connections, Closings, Stage
    <3>4. CASE ~LinkDown("main")
      BY <1>7, <2>2, <3>2, <3>4 DEF Closing, Deregister, Lookup, Delete, LoadToDelete,
         StoreDeleted, link
    <3> QED
      BY <3>3, <3>4
  <2> QED
    BY <2>1, <2>2
<1>8. ASSUME NEW f \in Fds, Hangup(f)
      PROVE  UNCHANGED <<link, closing>>
  BY <1>8 DEF Hangup, closes
<1> QED
  BY <1>1, <1>2, <1>3, <1>4, <1>5, <1>6, <1>7, <1>8, StepKinds DEF Closes, Threads, link

\* An established link is given up only by its own closing, and that starts only
\* from an event of the link itself.
THEOREM LinkIsKept ==
  ASSUME Closers = {}
  PROVE  Spec => LinkKept
<1> DEFINE Kept ==
      other_server_connected =>
        /\ \/ other_server_connected' /\ other_server_fd' = other_server_fd
           \/ closing["main"].fd = other_server_fd
        /\ closing'["main"].fd = other_server_fd =>
             \/ closing["main"].fd = other_server_fd
             \/ \E kind \in {"in", "hup"} : <<other_server_fd, kind>> \in events
<1>1. IInv /\ overlaps = {} /\ Starting /\ [Next]_vars => [Kept]_vars
  BY LinkStep DEF IInv, Connected
<1> QED
  BY <1>1, Invariance, Alone, StartingInvariance, PTL DEF Spec, LinkKept

\* A leaked descriptor is never closed or used again: no event will be reported
\* for it.
LEMMA LeaksStay ==
  ASSUME Closers = {}, TypeOK, Places, Connections, BatchAccurate, [Next]_vars
  PROVE  Leaked \subseteq Leaked'
<1> SUFFICES ASSUME NEW g \in Leaked PROVE g \in Leaked'
  OBVIOUS
<1>1. /\ g \in Fds /\ sock[g] # "free" /\ g \notin epollSet /\ closing["main"].fd # g
      /\ ~(pc \in Handshake /\ client_socket = g)
      /\ Threads = {"main"}
  BY DEF Leaked, Open, Closed, Threads
<1>2. ASSUME sock'[g] # "free", g \notin epollSet', closing'["main"].fd # g,
             ~(pc' \in Handshake /\ client_socket' = g)
      PROVE  g \in Leaked'
  BY <1>1, <1>2 DEF Leaked, Open, Closed
<1> USE <1>1 DEF TypeOK, kernel, closes
<1>3. CASE Aside
  BY <1>2, <1>3 DEF Aside, Handshake, ClosingStages, AddingStages, Message, Payload
<1>4. CASE Between
  <2>1. sock'[g] # "free" /\ g \notin epollSet' /\ UNCHANGED closing
    BY <1>4 DEF Between, Startup, x2_request_server_connection, LowestFree, Open, EpollWait,
       Accept
  <2>2. ~(pc' \in Handshake /\ client_socket' = g)
    BY <1>4 DEF Between, Startup, LowestFree, Open, EpollWait, Accept, Handshake,
       ClosingStages, AddingStages
  <2> QED
    BY <1>2, <2>1, <2>2
<1>5. CASE InHandshake
  <2>1. pc \in Handshake /\ client_socket # g
    BY <1>5 DEF InHandshake, Attach, X2Left, ReadLabel, RRCSetupComplete, Answer,
       DrxConfig, Reconnect, LoadToAdd, StoreAdded, RegisterClient, X2Established, X2Info,
       Handshake, ClosingStages, AddingStages
  <2>2. UNCHANGED <<sock, closing>> /\ epollSet' \subseteq epollSet \cup {client_socket}
    BY <1>5 DEF InHandshake, Attach, X2Left, ReadLabel, RRCSetupComplete, Answer,
       DrxConfig, Reconnect, LoadToAdd, StoreAdded, RegisterClient, X2Established,
       RegisterSocket
  <2>3. client_socket' = client_socket \/ pc' = "loop"
    BY <1>5 DEF InHandshake, Attach, X2Left, ReadLabel, RRCSetupComplete, Answer, DrxConfig,
       Reconnect, LoadToAdd, StoreAdded, RegisterClient, X2Established, RegisterSocket,
       Return, Continue, AddClient
  <2> QED
    BY <1>2, <2>1, <2>2, <2>3 DEF Handshake, ClosingStages, AddingStages
<1>6. ASSUME NEW f \in Fds, NEW kind \in {"in", "hup"}, EventClose(f, kind)
      PROVE  g \in Leaked'
  <2>1. f # g
    BY <1>6 DEF EventClose, Dispatch, BatchAccurate
  <2> QED
    BY <1>2, <1>6, <2>1, CloseStarts DEF EventClose
<1>7. CASE Abort
  <2>1. client_socket \in Fds /\ client_socket # g
    BY <1>7 DEF Abort, Places, Handshake
  <2> QED
    BY <1>2, <1>7, <2>1, CloseStarts DEF Abort, Return, Handshake, ClosingStages, AddingStages
<1>8. CASE Closing("main")
  <2>1. sock'[g] # "free" /\ g \notin epollSet' /\ UNCHANGED <<pc, client_socket>>
    BY <1>8 DEF Closing, Deregister, LinkDown, Lookup, Delete, LoadToDelete, StoreDeleted,
       CloseSocket, main
  <2>2. closing'["main"].fd # g
    <3>1. CASE CloseSocket("main")
      BY <3>1, FdsAssumption DEF CloseSocket, Idle
    <3>2. CASE ~CloseSocket("main")
      <4>1. PICK step \in Steps : Step("main", step)
        BY <1>8, <3>2 DEF Closing, Deregister, LinkDown, Lookup, Delete, LoadToDelete,
           StoreDeleted, Steps
      <4> QED
        BY <4>1, StepOfClose
    <3> QED
      BY <3>1, <3>2
  <2> QED
    BY <1>2, <2>1, <2>2
<1>9. ASSUME NEW f \in Fds, Hangup(f) PROVE g \in Leaked'
  BY <1>2, <1>9 DEF Hangup, main
<1> QED
  BY <1>3, <1>4, <1>5, <1>6, <1>7, <1>8, <1>9, StepKinds DEF Closes

\* ClientsKnowLink, and the client about to be added knows the link as well.
Informed ==
  Leaked = {} =>
    /\ \A f \in connected_clients : told[f] = other_server_info
    /\ other_server_connected => other_server_info = peer[other_server_fd]
    /\ pc = "drx" => told[client_socket] = other_server_info

\* The steps of a close tell the clients if it ends the link.
LEMMA ClosingKeepsInformed ==
  ASSUME TypeOK, Places, Connections, Closing("main"), Leaked = {}, Informed
  PROVE  Informed'
<1>1. /\ "main" \in Threads /\ closing["main"].fd \in Fds
      /\ UNCHANGED pc /\ pc = "loop"
  BY ClosingMoves DEF Threads, Closing, main, Places, At
<1>2. CASE LinkDown("main")
  BY <1>1, <1>2 DEF LinkDown, x2_send_server_info, Informed, TypeOK, registry
<1>3. CASE CloseSocket("main")
  <2>1. /\ closing["main"].fd \notin connected_clients
        /\ closing["main"].fd # other_server_fd
    BY <1>1, <1>3, FdsAssumption DEF CloseSocket, At, Connections, Closings, Stage
  <2>2. /\ \A g \in Fds : g # closing["main"].fd => told'[g] = told[g] /\ peer'[g] = peer[g]
        /\ UNCHANGED <<registry, link>>
    BY <1>3 DEF CloseSocket, TypeOK
  <2>3. other_server_connected => other_server_fd \in Fds
    BY <1>1, FdsAssumption DEF TypeOK, Connections, Linked, Places, At
  <2> QED
    BY <1>1, <2>1, <2>2, <2>3 DEF Informed, TypeOK, registry, link
<1>4. CASE ~LinkDown("main") /\ ~CloseSocket("main")
  <2>1. /\ UNCHANGED <<told, peer, link>> /\ connected_clients' \subseteq connected_clients
    BY <1>4 DEF Closing, Deregister, Lookup, Delete, LoadToDelete, StoreDeleted, kernel,
       registry
  <2> QED
    BY <1>1, <2>1 DEF Informed, link
<1> QED
  BY <1>2, <1>3, <1>4

\* The steps of a handshake tell the client, and all of them when a link comes.
LEMMA ConnectKeepsInformed ==
  ASSUME TypeOK, Places, Connections, InHandshake, Leaked = {}, Leaked' = {}, Informed
  PROVE  Informed'
<1>1. client_socket \in Fds
  BY DEF InHandshake, Attach, X2Left, ReadLabel, RRCSetupComplete, Answer, DrxConfig,
     Reconnect, LoadToAdd, StoreAdded, RegisterClient, X2Established, X2Info, Handshake,
     ClosingStages, AddingStages, Places
<1> USE <1>1 DEF Informed, registry, link, kernel
<1>2. CASE Attach
  BY <1>2 DEF Attach
<1>3. CASE X2Left
  <2>1. /\ Open(client_socket) /\ client_socket \notin epollSet /\ ~Closed(client_socket)
    BY <1>3 DEF X2Left, Connections, Accepted, Handshake, AddingStages
  <2>2. client_socket \in Leaked'
    BY <1>3, <2>1 DEF X2Left, closes, Leaked, Open, Closed, Return, Handshake, ClosingStages,
       AddingStages
  <2> QED
    BY <2>2
<1>4. CASE ReadLabel
  <2>1. client_socket # other_server_fd
    BY <1>4 DEF ReadLabel, Connections, Accepted, Handshake, ClosingStages
  <2>2. UNCHANGED <<told, connected_clients, link>> /\ pc' # "drx"
    BY <1>4 DEF ReadLabel
  <2>3. \A f \in Fds : f # client_socket => peer'[f] = peer[f]
    BY <1>4 DEF ReadLabel, TypeOK
  <2>4. other_server_connected => other_server_fd \in Fds
    BY FdsAssumption DEF TypeOK, Connections, Linked, Places, At, Threads
  <2> QED
    BY <2>1, <2>2, <2>3, <2>4
<1>5. CASE RRCSetupComplete
  BY <1>5 DEF RRCSetupComplete, TypeOK, Answer, x2_send_server_info, Continue
<1>6. CASE DrxConfig
  BY <1>6 DEF DrxConfig, AddClient, Continue
<1>7. CASE Reconnect
  BY <1>7 DEF Reconnect, TypeOK, AddClient, Continue, x2_send_server_info
<1>8. CASE LoadToAdd \/ StoreAdded
  BY <1>8 DEF LoadToAdd, StoreAdded, Continue
<1>9. CASE RegisterClient
  BY <1>9 DEF RegisterClient, RegisterSocket, Return, Continue
<1>10. CASE X2Established
  BY <1>10 DEF X2Established, TypeOK, X2Info, RegisterSocket, Return, Continue
<1> QED
  BY <1>2, <1>3, <1>4, <1>5, <1>6, <1>7, <1>8, <1>9, <1>10 DEF InHandshake

\* Each step that changes the link tells the clients.
LEMMA InformedStep ==
  ASSUME Closers = {}, TypeOK, Places, Connections, BatchAccurate, Starting, Informed,
         [Next]_vars
  PROVE  Informed'
<1> SUFFICES ASSUME Leaked = {}, Leaked' = {} PROVE Informed'
  BY LeaksStay DEF Informed
<1> USE DEF Informed, kernel, registry, link
<1>1. CASE Aside
  BY <1>1 DEF Aside, Message, Payload
<1>2. CASE Startup
  <2>1. CASE UNCHANGED <<sock, peer, epollSet, link>>
    BY <1>2, <2>1 DEF Startup
  <2>2. ASSUME NEW p \in Peers, NEW f \in Fds, peer' = [peer EXCEPT ![f] = p],
               other_server_fd' = f, other_server_info' = p
        PROVE  Informed'
    BY <1>2, <2>2 DEF Startup, Starting, TypeOK
  <2> QED
    BY <1>2, <2>1, <2>2 DEF Startup, x2_request_server_connection
<1>3. CASE EpollWait \/ Accept
  BY <1>3 DEF EpollWait, Accept, Dispatch
<1>4. ASSUME NEW f \in Fds, NEW kind \in {"in", "hup"}, EventClose(f, kind) PROVE Informed'
  BY <1>4 DEF EventClose, Dispatch
<1>5. CASE Abort
  BY <1>5 DEF Abort, Return
<1>6. ASSUME NEW f \in Fds, Hangup(f) PROVE Informed'
  BY <1>6 DEF Hangup, main
<1> QED
  BY <1>1, <1>2, <1>3, <1>4, <1>5, <1>6, StepKinds, ClosingKeepsInformed,
     ConnectKeepsInformed DEF Between, Closes, Threads

\* As long as no X2 request was refused or timed out, and only the main thread
\* closes connections, every client knows the other server that this one knows,
\* and that is the server at the end of the link.
THEOREM ClientsAreInformed ==
  ASSUME Closers = {}
  PROVE  Spec => []ClientsKnowLink
<1>1. Init => Informed
  BY DEF Init, Informed
<1>2. IInv /\ overlaps = {} /\ BatchAccurate /\ Starting /\ Informed /\ [Next]_vars => Informed'
  BY InformedStep DEF IInv, Connected
<1>3. Informed => ClientsKnowLink
  BY DEF Informed, ClientsKnowLink
<1> QED
  BY <1>1, <1>2, <1>3, Invariance, Alone, BatchCorrect, StartingInvariance, PTL DEF Spec
============================================================================
