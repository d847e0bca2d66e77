------------------------------- MODULE ENodeB -------------------------------
(***************************************************************************)
(* The connection manager of one eNodeB: the epoll loop of server_run, the *)
(* handlers of clients_handling.c with the LTE and X2 procedures they call *)
(* and the client registry they maintain, together with what the services  *)
(* and interactive threads do to the same state.                           *)
(*                                                                         *)
(* The main thread blocks only in read_data_from_socket. A step of it ends *)
(* at such a read, or where another thread may interfere: close_connection *)
(* and the update of the counter are taken apart for every thread, and so  *)
(* is the use of a client that was looked up. What a freed record or table *)
(* node holds is the subject of module Registry.                           *)
(*                                                                         *)
(* Remote ends are UEs and other eNodeBs that follow the protocol but may  *)
(* stall, send a wrong label or length, and hang up, at any point.         *)
(***************************************************************************)
EXTENDS Integers, Sequences, FiniteSets

CONSTANTS
  Fds,               \* descriptors the kernel can give to an X2 or UE socket
  server_socket,     \* descriptor of the listening socket
  Peers,             \* addresses of the other eNodeBs
  NoServer,          \* the all-zero X2_Server_Info
  Garbled,           \* an X2_Server_Info overwritten in part by a short read
  Rntis,             \* temp_c_rnti values that handed-over clients had
  EPOLL_MAX_EVENTS,  \* length of the events array
  MaxBuffer,         \* bound on the clients waiting for reconnection
  Closers,           \* the other threads that close clients
  Overlap            \* bound: are behaviours followed when two threads have been
                     \* at one connection, or at the counter, at the same time?

ASSUME FdsAssumption == Fds \subseteq Nat \ {0} /\ IsFiniteSet(Fds)
ASSUME ListenAssumption == server_socket \in Nat \ Fds
ASSUME InfoAssumption ==
  NoServer \notin Peers /\ Garbled \notin Peers /\ NoServer # Garbled
ASSUME BoundsAssumption ==
  EPOLL_MAX_EVENTS \in Nat \ {0} /\ MaxBuffer \in Nat /\ Overlap \in BOOLEAN
ASSUME ClosersAssumption == Closers \subseteq {"services", "console"}

Threads == {"main"} \cup Closers

Infos == Peers \cup {NoServer, Garbled}

VARIABLES
  \* the kernel and the remote ends
  sock,              \* "free", "up", or "hup" once the remote end is gone
  peer,              \* the eNodeB behind a descriptor, NoServer for a UE
  told,              \* the other_server_info last sent on a descriptor
  epollSet,          \* descriptors registered with epollfd
  process,           \* "running", or why it does not go on
  \* the threads
  closing,           \* the step of close_connection that a thread is at, and its
                     \* argument
  number,            \* the counter as a thread has loaded it to count up or down
  overlaps,          \* history: what two threads have been at at the same time
  \* the main thread
  pc,                \* "startup", "loop", the read the thread blocks in, or the
                     \* step of a handler
  client_socket,     \* descriptor the current handler works on
  events,            \* entries of the events array not dispatched yet
  \* shared data
  connected_clients, \* keys of the registry
  connected_clients_number,
  other_server_fd,
  other_server_connected,
  other_server_info,
  reconnection_clients_buffer  \* old temp_c_rnti of each client handed over

kernel == <<sock, peer, told, epollSet>>
closes == <<closing, number, overlaps>>
main == <<pc, client_socket, events>>
registry == <<connected_clients, connected_clients_number>>
link == <<other_server_fd, other_server_connected, other_server_info>>
vars == <<kernel, process, closes, main, registry, link, reconnection_clients_buffer>>

\* Reads of handle_new_connection: the descriptor is accepted, not registered.
\* (The reads of x2_handle_server_connection do not close on failure.)
ClosingStages ==
  {"label", "preamble", "rrc_request", "rrc_complete", "drx", "old_c_rnti"}
\* The client is in the registry, but not counted or not registered with epoll.
AddingStages == {"count", "counted", "register"}
Handshake == ClosingStages \cup {"x2_info"} \cup AddingStages

\* Reads of a message body by handle_client_input, and what follows a read.
Payload == {"download_request", "report", "client_info"}
Message ==
  Payload \cup {"ping", "download", "request", "signal", "stored", "handover"}

Idle == [at |-> "idle", fd |-> 0]

Open(f) == sock[f] # "free"

Init ==
  /\ sock = [f \in Fds |-> "free"]
  /\ peer = [f \in Fds |-> NoServer]
  /\ told = [f \in Fds |-> NoServer]
  /\ epollSet = {}
  /\ process = "running"
  /\ closing = [t \in Threads |-> Idle]
  /\ number = [t \in Threads |-> 0]
  /\ overlaps = {}
  /\ pc = "startup"
  /\ client_socket = 0
  /\ events = {}
  /\ connected_clients = {}
  /\ connected_clients_number = 0
  /\ other_server_fd = 0
  /\ other_server_connected = FALSE
  /\ other_server_info = NoServer
  /\ reconnection_clients_buffer = <<>>

----------------------------------------------------------------------------
(* What the handlers share. *)

\* The kernel hands out the lowest descriptor that is free.
LowestFree(f) == ~Open(f) /\ \A g \in Fds : ~Open(g) => f <= g

\* Nothing ignores SIGPIPE: writing to a socket whose remote end is gone may
\* end the process.
Write(S) ==
  process' \in IF \E f \in S : sock[f] = "hup"
               THEN {"running", "sigpipe"} ELSE {"running"}

x2_send_server_info(S, info) ==
  /\ told' = [f \in Fds |-> IF f \in S THEN info ELSE told[f]]
  /\ Write(S)

\* The main thread returns to the events array, or goes on with the handler.
Return == pc' = "loop" /\ client_socket' = 0
Continue(stage) == pc' = stage /\ UNCHANGED client_socket

\* Using the client of a descriptor that has none is a null dereference.
UseClient(f) ==
  process' = IF f \in connected_clients THEN "running" ELSE "segv"

----------------------------------------------------------------------------
(* close_connection, one step of any thread at a time. *)

Others(t) == Threads \ {t}

At(t, step) == closing[t].at = step

Step(t, step) == closing' = [closing EXCEPT ![t].at = step]

\* Has the thread loaded the counter, to store it one up or down?
Counting(t) == At(t, "counted") \/ (t = "main" /\ pc = "counted")

\* Seeded fault: a hang-up closes the other server's connection.
close_other_server(t, f) ==
  /\ closing' = [closing EXCEPT ![t] =
                   [at |-> "epoll", fd |-> IF other_server_fd = 0 THEN f ELSE other_server_fd]]
  /\ UNCHANGED <<number, overlaps>>

close_connection(t, f) ==
  /\ closing' = [closing EXCEPT ![t] = [at |-> "epoll", fd |-> f]]
  /\ overlaps' = overlaps \cup
       (IF \E u \in Others(t) : closing[u].fd = f THEN {"connection"} ELSE {})
  /\ UNCHANGED number

Deregister(t) ==
  /\ At(t, "epoll")
  /\ epollSet' = epollSet \ {closing[t].fd}
  /\ Step(t, IF closing[t].fd = other_server_fd THEN "link" ELSE "lookup")
  /\ UNCHANGED <<sock, peer, told, process, number, overlaps, registry, link>>

\* Seeded fault: other_server_connected survives the link.
link_down_keeping_connected(t) ==
  /\ At(t, "link")
  /\ other_server_fd' = 0
  /\ other_server_info' = NoServer
  /\ x2_send_server_info(connected_clients, NoServer)
  /\ Step(t, "close")
  /\ UNCHANGED <<sock, peer, epollSet, number, overlaps, registry,
                 other_server_connected>>

LinkDown(t) ==
  /\ At(t, "link")
  /\ other_server_connected' = FALSE
  /\ other_server_fd' = 0
  /\ other_server_info' = NoServer
  /\ x2_send_server_info(connected_clients, NoServer)
  /\ Step(t, "close")
  /\ UNCHANGED <<sock, peer, epollSet, number, overlaps, registry>>

\* del_connected_client returns early when the descriptor has no client.
Lookup(t) ==
  /\ At(t, "lookup")
  /\ Step(t, IF closing[t].fd \in connected_clients THEN "delete" ELSE "close")
  /\ UNCHANGED <<kernel, process, number, overlaps, registry, link>>

\* Seeded fault: the client is not counted down.
delete_without_count(t) ==
  /\ At(t, "delete")
  /\ connected_clients' = connected_clients \ {closing[t].fd}
  /\ Step(t, "close")
  /\ UNCHANGED <<kernel, process, number, overlaps, connected_clients_number, link>>

\* delete_value_hash runs off the end of the chain when another thread has
\* deleted the client after the lookup. Two threads free one record.
Delete(t) ==
  /\ At(t, "delete")
  /\ connected_clients' = connected_clients \ {closing[t].fd}
  /\ process' \in IF closing[t].fd \notin connected_clients THEN {"segv"}
                  ELSE IF "connection" \in overlaps THEN {"running", "segv"}
                  ELSE {"running"}
  /\ Step(t, "count")
  /\ UNCHANGED <<kernel, number, overlaps, connected_clients_number, link>>

\* connected_clients_number++ and -- are a load and a store.
Load(t) ==
  /\ number' = [number EXCEPT ![t] = connected_clients_number]
  /\ overlaps' = overlaps \cup
       (IF \E u \in Others(t) : Counting(u) THEN {"counter"} ELSE {})

Store(t, change) ==
  /\ connected_clients_number' = number[t] + change
  /\ number' = [number EXCEPT ![t] = 0]

LoadToDelete(t) ==
  /\ At(t, "count")
  /\ Load(t)
  /\ Step(t, "counted")
  /\ UNCHANGED <<kernel, process, registry, link>>

StoreDeleted(t) ==
  /\ At(t, "counted")
  /\ Store(t, -1)
  /\ Step(t, "close")
  /\ UNCHANGED <<kernel, process, overlaps, connected_clients, link>>

\* close() takes the descriptor out of the epoll set, too.
CloseSocket(t) ==
  /\ At(t, "close")
  /\ LET f == closing[t].fd IN
       /\ sock' = [sock EXCEPT ![f] = "free"]
       /\ peer' = [peer EXCEPT ![f] = NoServer]
       /\ told' = [told EXCEPT ![f] = NoServer]
       /\ epollSet' = epollSet \ {f}
  /\ closing' = [closing EXCEPT ![t] = Idle]
  /\ UNCHANGED <<process, number, overlaps, registry, link>>

Closing(t) ==
  /\ \/ Deregister(t) \/ LinkDown(t) \/ Lookup(t) \/ Delete(t)
     \/ LoadToDelete(t) \/ StoreDeleted(t) \/ CloseSocket(t)
  /\ UNCHANGED <<main, reconnection_clients_buffer>>

----------------------------------------------------------------------------
(* Startup: server_run up to its loop. *)

\* Seeded fault: a request that failed leaves -1 in other_server_fd.
x2_request_minus_one(p, f, outcome) ==
  /\ sock' = [sock EXCEPT ![f] = "up"]
  /\ peer' = [peer EXCEPT ![f] = p]
  /\ other_server_fd' = IF outcome = "failed" THEN -1 ELSE f
  /\ epollSet' = IF outcome = "failed" THEN epollSet ELSE epollSet \cup {f}

\* The request to an existing server may be accepted, refused (the socket is
\* registered all the same) or fail (it is neither registered nor closed).
x2_request_server_connection(p, f, outcome) ==
  /\ sock' = [sock EXCEPT ![f] = "up"]
  /\ peer' = [peer EXCEPT ![f] = p]
  /\ other_server_fd' = f
  /\ epollSet' = IF outcome = "failed" THEN epollSet ELSE epollSet \cup {f}

\* other_server_info is filled in before the request.
Startup ==
  /\ pc = "startup"
  /\ pc' = "loop"
  /\ \/ UNCHANGED <<sock, peer, epollSet, link>>
     \/ \E p \in Peers, f \in Fds, outcome \in {"established", "refused", "failed"} :
          /\ LowestFree(f)
          /\ other_server_info' = p
          /\ x2_request_server_connection(p, f, outcome)
          /\ other_server_connected' = (outcome = "established")
  /\ UNCHANGED <<told, process, closes, client_socket, events, registry,
                 reconnection_clients_buffer>>

----------------------------------------------------------------------------
(* The event loop. The label a handler reads first is part of its first step. *)

\* A registered socket whose remote end is gone is always ready; one that is
\* up, and the listening socket, may be. Each has one entry in the array.
EpollWait ==
  /\ pc = "loop"
  /\ events = {}
  /\ \E input \in SUBSET {f \in epollSet : sock[f] = "up"},
        new \in SUBSET {server_socket} :
       LET gone  == {f \in epollSet : sock[f] = "hup"}
           ready == ((input \cup new) \X {"in"}) \cup (gone \X {"hup"})
       IN /\ ready # {}
          /\ events' \in {S \in SUBSET ready :
                \/ S = ready /\ Cardinality(S) <= EPOLL_MAX_EVENTS
                \/ Cardinality(S) = EPOLL_MAX_EVENTS}
  /\ UNCHANGED <<kernel, process, closes, pc, client_socket, registry, link,
                 reconnection_clients_buffer>>

Dispatch(f, kind) ==
  /\ pc = "loop"
  /\ <<f, kind>> \in events
  /\ events' = events \ {<<f, kind>>}

\* Seeded fault: hang-up events are dispatched and dropped.
drop_hangup(f) ==
  /\ Dispatch(f, "hup")
  /\ UNCHANGED <<kernel, process, closes, pc, client_socket, registry, link,
                 reconnection_clients_buffer>>

HangupEvent(f) ==
  /\ Dispatch(f, "hup")
  /\ close_connection("main", f)
  /\ UNCHANGED <<kernel, process, pc, client_socket, registry, link,
                 reconnection_clients_buffer>>

\* accept() fails, and the server exits, when no descriptor is left.
Accept ==
  /\ Dispatch(server_socket, "in")
  /\ \/ \E f \in Fds : /\ LowestFree(f)
                       /\ sock' = [sock EXCEPT ![f] = "up"]
                       /\ client_socket' = f
                       /\ pc' = "label"
                       /\ UNCHANGED process
     \/ /\ \A f \in Fds : Open(f)
        /\ process' = "exited"
        /\ UNCHANGED <<sock, pc, client_socket>>
  /\ UNCHANGED <<peer, told, epollSet, closes, registry, link,
                 reconnection_clients_buffer>>

----------------------------------------------------------------------------
(* handle_client_input: any label may come on any socket. *)

\* No label arrived (the event was spurious, or another thread closed the
\* descriptor), its type or length is not handled, or the body timed out.
InputIgnored(f) ==
  /\ Dispatch(f, "in")
  /\ UNCHANGED <<kernel, process, closes, pc, client_socket, registry, link,
                 reconnection_clients_buffer>>

\* A label arrived that makes the handler read or use more.
Input(f, stage) ==
  /\ Dispatch(f, "in")
  /\ Open(f)
  /\ pc' = stage
  /\ client_socket' = f
  /\ UNCHANGED <<kernel, process, closes, registry, link, reconnection_clients_buffer>>

\* msg_ping_response and msg_battery_critcal write to the client's record.
PingOrBattery(f) == Input(f, "ping")

RequestDownload(f) == Input(f, "download")

MeasurementReport(f) == Input(f, "report")

\* Whoever sent the label, the body is read from other_server_fd: 0, the
\* standard input, when there is no other server.
ClientInfo(f) ==
  Input(f, IF other_server_fd = 0 THEN "stdin" ELSE "client_info")

SendFilesList(f) ==
  /\ Dispatch(f, "in")
  /\ Open(f)
  /\ Write({f})
  /\ UNCHANGED <<kernel, closes, pc, client_socket, registry, link,
                 reconnection_clients_buffer>>

UeShutdown(f) ==
  /\ Dispatch(f, "in")
  /\ Open(f)
  /\ close_connection("main", f)
  /\ UNCHANGED <<kernel, process, pc, client_socket, registry, link,
                 reconnection_clients_buffer>>

PayloadTimeout ==
  /\ pc \in Payload
  /\ Return
  /\ UNCHANGED <<kernel, process, closes, events, registry, link,
                 reconnection_clients_buffer>>

\* A step that looks the client up and uses it.
WithClient(stage, next) ==
  /\ pc = stage
  /\ UseClient(client_socket)
  /\ IF process' = "running" /\ next = "loop" THEN Return
     ELSE Continue(IF process' = "running" THEN next ELSE stage)
  /\ UNCHANGED <<kernel, closes, events, registry, link, reconnection_clients_buffer>>

RecordPing == WithClient("ping", "loop")

\* start_download gets the client before it reads the request.
LookUpDownload == WithClient("download", "download_request")

\* The body of a request or a report arrived.
ReadBody(stage, next) ==
  /\ pc = stage
  /\ Open(client_socket)
  /\ Continue(next)
  /\ UNCHANGED <<kernel, process, closes, events, registry, link,
                 reconnection_clients_buffer>>

ReadRequest == ReadBody("download_request", "request")

ReadSignal == ReadBody("report", "signal")

\* The record may have been freed since LookUpDownload.
StartDownload ==
  /\ pc = "request"
  /\ IF client_socket \in connected_clients
     THEN Write({client_socket}) /\ Return
     ELSE /\ process' \in {"running", "segv"}
          /\ IF process' = "running" THEN Return ELSE Continue("request")
  /\ UNCHANGED <<kernel, closes, events, registry, link, reconnection_clients_buffer>>

\* reported_signal is stored in the record of the client, and read again.
StoreSignal == WithClient("signal", "stored")

\* A strong signal needs nothing more, a weak one a handover if it is possible.
CompareSignal ==
  /\ pc = "stored"
  /\ UseClient(client_socket)
  /\ IF process' = "segv" THEN Continue("stored")
     ELSE Return \/ (other_server_connected /\ Continue("handover"))
  /\ UNCHANGED <<kernel, closes, events, registry, link, reconnection_clients_buffer>>

\* The client's record goes to the other server and msg_handover_start to the
\* client, which stays connected. Without a record only the label is sent: the
\* write from address NULL fails.
x2_handle_handover ==
  /\ pc = "handover"
  /\ IF client_socket \in connected_clients
     THEN Write({other_server_fd, client_socket} \cap Fds)
     ELSE Write({other_server_fd} \cap Fds)
  /\ Return
  /\ UNCHANGED <<kernel, closes, events, registry, link, reconnection_clients_buffer>>

ReceiveClientInfo ==
  /\ pc = "client_info"
  /\ other_server_fd \in Fds
  /\ Open(other_server_fd)
  /\ Len(reconnection_clients_buffer) < MaxBuffer
  /\ \E old_c_rnti \in Rntis :
       reconnection_clients_buffer' = Append(reconnection_clients_buffer, old_c_rnti)
  /\ Return
  /\ UNCHANGED <<kernel, process, closes, events, registry, link>>

----------------------------------------------------------------------------
(* handle_new_connection, after accept. *)

\* The label tells a UE that attaches, another eNodeB and a UE handed over.
ReadLabel ==
  /\ pc = "label"
  /\ Open(client_socket)
  /\ \/ /\ pc' \in {"preamble", "old_c_rnti"}
        /\ UNCHANGED peer
     \/ /\ pc' = "x2_info"
        /\ \E p \in Peers : peer' = [peer EXCEPT ![client_socket] = p]
  /\ UNCHANGED <<sock, told, epollSet, process, closes, client_socket, events,
                 registry, link, reconnection_clients_buffer>>

\* Seeded fault: an error path returns without closing the socket.
abort_without_close ==
  /\ pc \in ClosingStages
  /\ Return
  /\ UNCHANGED <<kernel, process, closes, events, registry, link,
                 reconnection_clients_buffer>>

\* Seeded fault: the handler goes on after closing the socket.
abort_without_return ==
  /\ pc \in ClosingStages
  /\ close_connection("main", client_socket)
  /\ UNCHANGED <<kernel, process, main, registry, link, reconnection_clients_buffer>>

\* A read timed out, or the label, length or c-rnti it brought is wrong.
HandshakeAborted ==
  /\ pc \in ClosingStages
  /\ close_connection("main", client_socket)
  /\ Return
  /\ UNCHANGED <<kernel, process, events, registry, link, reconnection_clients_buffer>>

\* Answers a message of the attach procedure and waits for the next one.
Answer(stage, next) ==
  /\ pc = stage
  /\ Open(client_socket)
  /\ Continue(next)
  /\ UNCHANGED <<epollSet, sock, peer, closes, events, registry, link,
                 reconnection_clients_buffer>>

RandomAccess == /\ Answer("preamble", "rrc_request")
                /\ Write({client_socket})
                /\ UNCHANGED told

RRCSetup == /\ Answer("rrc_request", "rrc_complete")
            /\ Write({client_socket})
            /\ UNCHANGED told

RRCSetupComplete == /\ Answer("rrc_complete", "drx")
                    /\ x2_send_server_info({client_socket}, other_server_info)

\* The first half of add_connected_client and add_reconnected_client.
AddClient ==
  /\ connected_clients' = connected_clients \cup {client_socket}
  /\ Continue("count")

DrxConfig ==
  /\ pc = "drx"
  /\ Open(client_socket)
  /\ AddClient
  /\ UNCHANGED <<kernel, process, closes, events, connected_clients_number, link,
                 reconnection_clients_buffer>>

\* get_reconnection_client takes the first client with that old c-rnti.
FirstMatch(i, old_c_rnti) ==
  /\ reconnection_clients_buffer[i] = old_c_rnti
  /\ \A j \in 1 .. i - 1 : reconnection_clients_buffer[j] # old_c_rnti

Reconnect ==
  /\ pc = "old_c_rnti"
  /\ Open(client_socket)
  /\ \E old_c_rnti \in Rntis, i \in DOMAIN reconnection_clients_buffer :
       /\ FirstMatch(i, old_c_rnti)
       /\ reconnection_clients_buffer' =
            SubSeq(reconnection_clients_buffer, 1, i - 1)
              \o SubSeq(reconnection_clients_buffer, i + 1,
                        Len(reconnection_clients_buffer))
  /\ x2_send_server_info({client_socket}, other_server_info)
  /\ AddClient
  /\ UNCHANGED <<sock, peer, epollSet, closes, events, connected_clients_number, link>>

LoadToAdd ==
  /\ pc = "count"
  /\ Load("main")
  /\ Continue("counted")
  /\ UNCHANGED <<kernel, process, closing, events, registry, link,
                 reconnection_clients_buffer>>

StoreAdded ==
  /\ pc = "counted"
  /\ Store("main", 1)
  /\ Continue("register")
  /\ UNCHANGED <<kernel, process, closing, overlaps, events, connected_clients, link,
                 reconnection_clients_buffer>>

\* The end of a handshake that succeeds: epoll_ctl fails, and the server exits,
\* if another thread has closed the socket.
RegisterSocket ==
  IF Open(client_socket)
  THEN epollSet' = epollSet \cup {client_socket} /\ Return
  ELSE UNCHANGED epollSet /\ Continue("register")

\* Seeded fault: the attach procedure returns before the registration.
return_without_epoll ==
  /\ pc = "register"
  /\ Return
  /\ UNCHANGED <<kernel, process, closes, events, registry, link,
                 reconnection_clients_buffer>>

RegisterClient ==
  /\ pc = "register"
  /\ RegisterSocket
  /\ process' = IF Open(client_socket) THEN "running" ELSE "exited"
  /\ UNCHANGED <<sock, peer, told, closes, events, registry, link,
                 reconnection_clients_buffer>>

\* Seeded fault: a client that is not found is registered all the same.
register_unknown_client ==
  /\ pc = "old_c_rnti"
  /\ Open(client_socket)
  /\ RegisterSocket
  /\ Write({client_socket})
  /\ UNCHANGED <<sock, peer, told, closes, events, registry, link,
                 reconnection_clients_buffer>>

\* The client is told, which may end the process, and then closed.
ReconnectNotFound ==
  /\ pc = "old_c_rnti"
  /\ Open(client_socket)
  /\ \E old_c_rnti \in Rntis : \A i \in DOMAIN reconnection_clients_buffer :
       reconnection_clients_buffer[i] # old_c_rnti
  /\ \/ close_connection("main", client_socket) /\ Return /\ UNCHANGED process
     \/ /\ sock[client_socket] = "hup"
        /\ process' = "sigpipe"
        /\ UNCHANGED <<closes, pc, client_socket>>
  /\ UNCHANGED <<kernel, events, registry, link, reconnection_clients_buffer>>

\* The other server's info is read straight into other_server_info.
X2Info ==
  /\ pc = "x2_info"
  /\ Open(client_socket)
  /\ other_server_info' = peer[client_socket]

\* Seeded fault: the clients are not told of the new link.
x2_established_silently ==
  /\ X2Info
  /\ ~other_server_connected
  /\ other_server_fd' = client_socket
  /\ other_server_connected' = TRUE
  /\ Write({client_socket})
  /\ RegisterSocket
  /\ UNCHANGED <<sock, peer, told, closes, events, registry,
                 reconnection_clients_buffer>>

\* Seeded fault: other_server_connected is not looked at.
x2_established_always ==
  /\ X2Info
  /\ other_server_fd' = client_socket
  /\ other_server_connected' = TRUE
  /\ x2_send_server_info(connected_clients, other_server_info')
  /\ RegisterSocket
  /\ UNCHANGED <<sock, peer, closes, events, registry, reconnection_clients_buffer>>

X2Established ==
  /\ X2Info
  /\ ~other_server_connected
  /\ other_server_fd' = client_socket
  /\ other_server_connected' = TRUE
  /\ told' = [f \in Fds |-> IF f \in connected_clients
                           THEN other_server_info' ELSE told[f]]
  /\ Write(connected_clients \cup {client_socket})
  /\ RegisterSocket
  /\ UNCHANGED <<sock, peer, closes, events, registry, reconnection_clients_buffer>>

\* Refused: the answer is sent, and the socket neither closed nor registered.
X2Refused ==
  /\ X2Info
  /\ other_server_connected
  /\ Write({client_socket})
  /\ Return
  /\ UNCHANGED <<kernel, closes, other_server_fd, other_server_connected, events,
                 registry, reconnection_clients_buffer>>

\* The info came too late or in part; the socket is left as in X2Refused.
X2InfoTimeout ==
  /\ pc = "x2_info"
  /\ other_server_info' \in {other_server_info, Garbled}
  /\ Return
  /\ UNCHANGED <<kernel, process, closes, other_server_fd, other_server_connected,
                 events, registry, reconnection_clients_buffer>>

----------------------------------------------------------------------------
(* The other threads and the remote ends. *)

\* ping_client closes a silent client, the interactive thread all of them.
ThreadClose(t, f) ==
  /\ At(t, "idle")
  /\ f \in connected_clients
  /\ close_connection(t, f)
  /\ UNCHANGED <<kernel, process, main, registry, link, reconnection_clients_buffer>>

\* A ping, a measurement control or a packet written to a client that is gone.
ServicesSend(f) ==
  /\ "services" \in Closers => At("services", "idle")
  /\ f \in connected_clients
  /\ sock[f] = "hup"
  /\ process' = "sigpipe"
  /\ UNCHANGED <<kernel, closes, main, registry, link, reconnection_clients_buffer>>

Hangup(f) ==
  /\ sock[f] = "up"
  /\ sock' = [sock EXCEPT ![f] = "hup"]
  /\ UNCHANGED <<peer, told, epollSet, process, closes, main, registry, link,
                 reconnection_clients_buffer>>

----------------------------------------------------------------------------
Handle(f) ==
  \/ HangupEvent(f) \/ InputIgnored(f) \/ PingOrBattery(f) \/ SendFilesList(f)
  \/ UeShutdown(f) \/ RequestDownload(f) \/ MeasurementReport(f) \/ ClientInfo(f)

Connect ==
  \/ ReadLabel \/ HandshakeAborted
  \/ RandomAccess \/ RRCSetup \/ RRCSetupComplete \/ DrxConfig
  \/ Reconnect \/ ReconnectNotFound
  \/ LoadToAdd \/ StoreAdded \/ RegisterClient
  \/ X2Established \/ X2Refused \/ X2InfoTimeout

OnMessage ==
  \/ PayloadTimeout \/ RecordPing \/ LookUpDownload \/ ReadRequest \/ StartDownload
  \/ ReadSignal \/ StoreSignal \/ CompareSignal \/ x2_handle_handover
  \/ ReceiveClientInfo

\* The bound: what follows an overlap is left out unless Overlap.
Running == process = "running" /\ (overlaps = {} \/ Overlap)

MainThread ==
  /\ Running
  /\ \/ Closing("main")
     \/ /\ At("main", "idle")
        /\ Startup \/ EpollWait \/ Accept \/ Connect \/ OnMessage \/ \E f \in Fds : Handle(f)

OtherThreads ==
  /\ Running
  /\ \/ \E t \in Closers : Closing(t) \/ \E f \in Fds : ThreadClose(t, f)
     \/ \E f \in Fds : ServicesSend(f)

RemoteEnds == Running /\ \E f \in Fds : Hangup(f)

Next == MainThread \/ OtherThreads \/ RemoteEnds

Spec == Init /\ [][Next]_vars

\* The main thread is scheduled, and its reads end: each times out. The kernel
\* reports in turn the sockets that stay ready.
FairSpec ==
  /\ Spec
  /\ WF_vars(MainThread)
  /\ \A f \in Fds : SF_vars(MainThread /\ EpollWait /\ <<f, "hup">> \in events')

----------------------------------------------------------------------------
(* Properties. *)

TypeOK ==
  /\ sock \in [Fds -> {"free", "up", "hup"}]
  /\ peer \in [Fds -> Peers \cup {NoServer}]
  /\ told \in [Fds -> Infos]
  /\ epollSet \subseteq Fds
  /\ process \in {"running", "exited", "segv", "sigpipe"}
  /\ closing \in [Threads -> [at : {"idle", "epoll", "link", "lookup", "delete", "count",
                                    "counted", "close"}, fd : Fds \cup {0}]]
  /\ number \in [Threads -> Int]
  /\ overlaps \subseteq {"connection", "counter"}
  /\ pc \in {"startup", "loop", "stdin"} \cup Handshake \cup Message
  /\ client_socket \in Fds \cup {0}
  /\ events \subseteq (Fds \cup {server_socket}) \X {"in", "hup"}
  /\ connected_clients \subseteq Fds
  /\ connected_clients_number \in Int
  /\ other_server_fd \in Fds \cup {0}
  /\ other_server_connected \in BOOLEAN
  /\ other_server_info \in Infos
  /\ reconnection_clients_buffer \in Seq(Rntis)

\* Is a thread closing the connection?
Closed(f) == \E t \in Threads : closing[t].fd = f

\* No thread is between its update of the registry and that of the counter.
Quiet ==
  /\ pc \notin {"count", "counted"}
  /\ \A t \in Threads : closing[t].at \notin {"count", "counted"}

\* As long as no two threads have closed one connection or updated the counter
\* at the same time, the number the console prints is, between updates, the
\* number of clients in the registry, however attaches, aborted handshakes,
\* hang-ups and the closes of other threads follow and overlap each other
\* (add_connected_client, del_connected_client).
RegistryCount ==
  overlaps = {} /\ Quiet => connected_clients_number = Cardinality(connected_clients)

\* A client in the registry can be heard and can be closed: unless it is being
\* registered or closed, its socket is open and registered with epoll, belongs
\* to a UE and is not the X2 link. What is registered is a client or a server.
RegistrySound ==
  "connection" \notin overlaps =>
    \A f \in Fds : ~Closed(f) /\ ~(pc \in AddingStages /\ f = client_socket) =>
      /\ f \in connected_clients => f \in epollSet /\ f # other_server_fd
      /\ f \in connected_clients <=> f \in epollSet /\ peer[f] = NoServer

\* other_server_fd, which handovers write to and x2_recive_client_info reads
\* from, is never a closed or reused descriptor: it is a socket of another
\* eNodeB, and one that is registered while other_server_connected, unless
\* the link is being closed.
LinkSound ==
  "connection" \notin overlaps =>
    /\ other_server_fd # 0 =>
         Open(other_server_fd) /\ peer[other_server_fd] # NoServer
    /\ other_server_connected =>
         other_server_fd \in epollSet \/ closing["main"] = [at |-> "link", fd |-> other_server_fd]

\* Unless two threads have closed one connection, close() at the end of
\* close_connection hits the connection that the close was begun for: accept has
\* not given the descriptor to another one in the many steps since, neither one
\* whose handshake is under way nor one that is a client by now.
ClosesItsClient ==
  "connection" \notin overlaps =>
    \A t \in Threads : At(t, "close") =>
      /\ closing[t].fd \notin connected_clients
      /\ ~(pc \in ClosingStages /\ client_socket = closing[t].fd)

\* The sockets that no event will be reported for: open, not registered, not
\* being closed, and not the one whose handshake is under way.
Leaked ==
  {f \in Fds : /\ Open(f) /\ f \notin epollSet /\ ~Closed(f)
               /\ ~(pc \in Handshake /\ f = client_socket)}

\* As long as only the main thread closes connections, and unless an X2 request
\* was refused or timed out, every client knows the other server that this one
\* knows, and that is the one at the end of the link, wherever in its attach
\* the client was when the link came or went.
ClientsKnowLink ==
  Leaked = {} =>
    /\ \A f \in connected_clients : told[f] = other_server_info
    /\ other_server_connected => other_server_info = peer[other_server_fd]

\* Every error path of a UE's handshake gives its descriptor back: what leaks
\* is only sockets of other eNodeBs.
OnlyX2SocketsLeak ==
  "connection" \notin overlaps => \A f \in Leaked : peer[f] # NoServer

\* handle_client_input uses the result of get_connected_client unchecked. It is
\* NULL only if a message that UEs send came from an eNodeB, or if another
\* thread is closing or has closed the client that the main thread serves: no
\* aborted handshake or failed reconnection leaves a socket that is read from
\* and has no client.
ClientFound ==
  process = "segv" /\ "connection" \notin overlaps =>
    \/ ~Open(client_socket)
    \/ peer[client_socket] # NoServer
    \/ \E t \in Closers : closing[t].fd = client_socket

\* As long as only the main thread closes connections, an event of the batch is
\* about the connection it was reported for: no earlier handler of the batch
\* made the descriptor free or gave it to another connection.
BatchAccurate ==
  \A f \in Fds :
    /\ <<f, "hup">> \in events => sock[f] = "hup" /\ f \in epollSet
    /\ <<f, "in">> \in events => Open(f) /\ f \in epollSet

\* As long as only the main thread closes connections, an established link is
\* given up only by its own closing, and that starts only from an event of the
\* link itself: no request, refusal, timeout or disconnection of a client
\* replaces, resets or closes it.
LinkKept ==
  [][other_server_connected =>
       /\ \/ other_server_connected' /\ other_server_fd' = other_server_fd
          \/ closing["main"].fd = other_server_fd
       /\ closing'["main"].fd = other_server_fd =>
            \/ closing["main"].fd = other_server_fd
            \/ \E kind \in {"in", "hup"} : <<other_server_fd, kind>> \in events]_vars

\* A registered connection whose remote end hangs up is eventually closed,
\* even when more sockets stay ready than the events array has room for, unless
\* the process ends, the main thread waits for standard input, or two threads
\* have been at one connection or at the counter.
HangupNoticed ==
  \A f \in Fds : (sock[f] = "hup" /\ f \in epollSet)
                ~> (f \notin epollSet \/ process # "running" \/ pc = "stdin" \/ overlaps # {})

\* lte_rrc_connection_establishment sends "info about other server" to a client
\* that attaches (LTE.c:66), and a link, when it comes, to all clients: each
\* client knows the server that its handover goes to.
ToldTheLink ==
  other_server_connected =>
    \A f \in connected_clients : told[f] = peer[other_server_fd]

\* The console prints "NO CLIENTS CONNECTED." when the counter is 0
\* (print_clients.c:11): then, between updates, the registry is empty.
NoClientsConnected ==
  Quiet /\ connected_clients_number = 0 => connected_clients = {}
============================================================================
