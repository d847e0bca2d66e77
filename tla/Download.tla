-------------------------------- MODULE Download --------------------------------
(***************************************************************************)
(* The download service: the main thread starts a download or resumes one  *)
(* that another eNodeB began, store by store; the services thread sends    *)
(* the packets. The two share the client's record without a lock.          *)
(***************************************************************************)
EXTENDS Integers, FiniteSets

CONSTANTS
  Clients, Files,
  size,                  \* bytes of each file
  DOWNLOAD_PACKET_SIZE,
  Fds,                   \* the descriptors left for files
  None,
  Preempted              \* may the services thread look at a client between the
                         \* stores that start or resume its download?

ASSUME FilesAssumption == size \in [Files -> Nat] /\ None \notin Files \cup Clients
ASSUME PacketAssumption == DOWNLOAD_PACKET_SIZE \in Nat \ {0}
ASSUME FdsAssumption == Fds \subseteq Nat /\ IsFiniteSet(Fds)
ASSUME PreemptedAssumption == Preempted \in BOOLEAN

NoFd == -1
Corrupt == -1
Closed == [file |-> None, offset |-> 0]

VARIABLES
  connected,   \* the clients in the registry
  download,    \* their Download_Status
  open_files,  \* the kernel's view of the descriptors
  main,        \* the main thread's position in start_download or
               \* add_reconnected_client, the client, and its local variable
  services,    \* the client that was sent a packet that is not counted yet
  got,         \* bytes of the file that a client has received in order
  lost         \* history: descriptors whose client was disconnected

vars == <<connected, download, open_files, main, services, got, lost>>

Fresh == [in_progress |-> FALSE, filename |-> None, number_of_packets |-> 0,
          current_packet_index |-> 0, file_descriptor |-> NoFd]

Ready == [at |-> "ready", client |-> None, fd |-> NoFd]

Init ==
  /\ connected = {}
  /\ download = [c \in Clients |-> Fresh]
  /\ open_files = [d \in Fds |-> Closed]
  /\ main = Ready
  /\ services = None
  /\ got = [c \in Clients |-> 0]
  /\ lost = {}

Least(x, y) == IF x < y THEN x ELSE y

Free == {d \in Fds : open_files[d] = Closed}

\* Seeded fault: the packet that is not full is not counted.
Packets_full(f) == size[f] \div DOWNLOAD_PACKET_SIZE

Packets(f) ==
  size[f] \div DOWNLOAD_PACKET_SIZE
    + IF size[f] % DOWNLOAD_PACKET_SIZE # 0 THEN 1 ELSE 0

\* Where a packet starts in its file.
Position(i) == i * DOWNLOAD_PACKET_SIZE

\* The packets that a file may have at the other eNodeB, which has its own files.
Counts == {Packets(f) : f \in Files}

\* The bytes of a file that precede a packet.
Preceding(f, i) == Least(Position(i), size[f])

\* open: the lowest free descriptor, or -1, which nobody checks.
Open(f, d) ==
  \/ /\ d \in Free /\ \A e \in Free : d <= e
     /\ open_files' = [open_files EXCEPT ![d] = [file |-> f, offset |-> 0]]
  \/ /\ Free = {} /\ d = NoFd
     /\ UNCHANGED open_files

Close(d) ==
  open_files' = [e \in Fds |-> IF e = d THEN Closed ELSE open_files[e]]

----------------------------------------------------------------------------
(* The main thread. *)

\* A client attaches, or is handed over without a download.
Connect(c) ==
  /\ main = Ready
  /\ c \notin connected
  /\ connected' = connected \cup {c}
  /\ UNCHANGED <<download, open_files, main, services, got, lost>>

\* The name is stored before the file is found to be missing.
FileNotFound(c) ==
  /\ main = Ready
  /\ c \in connected /\ ~download[c].in_progress
  /\ download' = [download EXCEPT ![c].filename = None, ![c].number_of_packets = 0]
  /\ UNCHANGED <<connected, open_files, main, services, got, lost>>

\* start_download up to the message that tells the client the number of packets.
\* While a download is in progress a request is only answered.
start_download(c) ==
  /\ main = Ready
  /\ c \in connected /\ ~download[c].in_progress
  /\ \E f \in Files, d \in Fds \cup {NoFd} :
       /\ Open(f, d)
       /\ download' = [download EXCEPT ![c].filename = f,
                                       ![c].number_of_packets = Packets(f)]
       /\ main' = [at |-> "in_progress", client |-> c, fd |-> d]
  /\ got' = [got EXCEPT ![c] = 0]
  /\ UNCHANGED <<connected, services, lost>>

\* Its last three stores.
StoreInProgress ==
  /\ main.at = "in_progress"
  /\ download' = [download EXCEPT ![main.client].in_progress = TRUE]
  /\ main' = [main EXCEPT !.at = "index"]
  /\ UNCHANGED <<connected, open_files, services, got, lost>>

StoreIndex ==
  /\ main.at = "index"
  /\ download' = [download EXCEPT ![main.client].current_packet_index = 0]
  /\ main' = [main EXCEPT !.at = "descriptor"]
  /\ UNCHANGED <<connected, open_files, services, got, lost>>

StoreDescriptor ==
  /\ main.at = "descriptor"
  /\ download' = [download EXCEPT ![main.client].file_descriptor = main.fd]
  /\ main' = Ready
  /\ UNCHANGED <<connected, open_files, services, got, lost>>

\* add_reconnected_client publishes a copy of the other eNodeB's record, with
\* a descriptor that means nothing here, the other's number of packets, and an index
\* that has reached that number if the record was copied between the two statements
\* that end a download.
Resume(c) ==
  /\ main = Ready
  /\ c \notin connected
  /\ connected' = connected \cup {c}
  /\ \E f \in Files, d \in Fds \cup {NoFd}, n \in Counts :
       \E i \in 0 .. n :
         /\ download' = [download EXCEPT ![c] =
              [in_progress |-> TRUE, filename |-> f, number_of_packets |-> n,
               current_packet_index |-> i, file_descriptor |-> d]]
         /\ got' = [got EXCEPT ![c] = Preceding(f, i)]
  /\ main' = [at |-> "reopen", client |-> c, fd |-> NoFd]
  /\ UNCHANGED <<open_files, services, lost>>

\* It then opens the file, which this eNodeB may not have, ...
Reopen ==
  /\ main.at = "reopen"
  /\ \E d \in Fds \cup {NoFd} :
       /\ \/ Open(download[main.client].filename, d)
          \/ d = NoFd /\ UNCHANGED open_files
       /\ download' = [download EXCEPT ![main.client].file_descriptor = d]
       /\ main' = [main EXCEPT !.at = "lseek", !.fd = d]
  /\ UNCHANGED <<connected, services, got, lost>>

\* Seeded fault: the file is read from its beginning.
seek_nowhere ==
  /\ main.at = "lseek"
  /\ main' = Ready
  /\ UNCHANGED <<connected, download, open_files, services, got, lost>>

\* ... and moves to the first packet that the other eNodeB had not sent.
Seek ==
  /\ main.at = "lseek"
  /\ LET i == download[main.client].current_packet_index
     IN  open_files' = [d \in Fds |->
                          IF d = main.fd /\ d \notin Free
                          THEN [open_files[d] EXCEPT !.offset = Position(i)]
                          ELSE open_files[d]]
  /\ main' = Ready
  /\ UNCHANGED <<connected, download, services, got, lost>>

\* del_connected_client knows nothing of the descriptor.
Disconnect(c) ==
  /\ main = Ready
  /\ c \in connected /\ services # c
  /\ connected' = connected \ {c}
  /\ lost' = lost \cup IF download[c].in_progress /\ download[c].file_descriptor \in Fds
                       THEN {download[c].file_descriptor} ELSE {}
  /\ download' = [download EXCEPT ![c] = Fresh]
  /\ got' = [got EXCEPT ![c] = 0]
  /\ UNCHANGED <<open_files, main, services>>

----------------------------------------------------------------------------
(* The services thread: handle_client_download. *)

\* The bytes that read finds in d's file; none at its end or behind it.
Bytes(d) ==
  LET left == size[open_files[d].file] - open_files[d].offset
  IN  IF left <= 0 THEN 0 ELSE Least(DOWNLOAD_PACKET_SIZE, left)

\* What a client has after these bytes, in a packet numbered i.
Received(c, d, i) ==
  LET offset == open_files[d].offset
  IN  IF Bytes(d) = 0 THEN got[c]
      ELSE IF got[c] = offset /\ Position(i) = offset THEN offset + Bytes(d)
      ELSE Corrupt

\* Nothing is read from a descriptor that is not open; a packet is sent all the
\* same.
SendPacket(c) ==
  /\ services = None
  /\ c \in connected /\ download[c].in_progress
  /\ Preempted \/ main.client # c
  /\ LET d == download[c].file_descriptor
     IN  IF d \in Fds \ Free
         THEN /\ got' = [got EXCEPT ![c] =
                           Received(c, d, download[c].current_packet_index)]
              /\ open_files' = [open_files EXCEPT ![d].offset = @ + Bytes(d)]
         ELSE UNCHANGED <<got, open_files>>
  /\ services' = c
  /\ UNCHANGED <<connected, download, main, lost>>

\* Seeded fault: the file is not closed after the last packet.
count_without_close(c) ==
  /\ services = c
  /\ LET i == download[c].current_packet_index + 1
         last == i >= download[c].number_of_packets
     IN  download' = [download EXCEPT ![c].current_packet_index = i,
                                      ![c].in_progress = ~last]
  /\ services' = None
  /\ UNCHANGED <<connected, open_files, main, got, lost>>

\* Seeded fault: the index is compared for equality.
count_until_equal(c) ==
  /\ services = c
  /\ LET i == download[c].current_packet_index + 1
         last == i = download[c].number_of_packets
     IN  /\ download' = [download EXCEPT
              ![c].current_packet_index = Least(i, download[c].number_of_packets + 1),
              ![c].in_progress = ~last]
         /\ IF last THEN Close(download[c].file_descriptor) ELSE UNCHANGED open_files
  /\ services' = None
  /\ UNCHANGED <<connected, main, got, lost>>

CountPacket(c) ==
  /\ services = c
  /\ LET i == download[c].current_packet_index + 1
         last == i >= download[c].number_of_packets
     IN  /\ download' = [download EXCEPT ![c].current_packet_index = i,
                                         ![c].in_progress = ~last]
         /\ IF last THEN Close(download[c].file_descriptor) ELSE UNCHANGED open_files
  /\ services' = None
  /\ UNCHANGED <<connected, main, got, lost>>

----------------------------------------------------------------------------
Started == StoreInProgress \/ StoreIndex \/ StoreDescriptor \/ Reopen \/ Seek

MainThread ==
  Started \/ \E c \in Clients : \/ Connect(c) \/ Resume(c) \/ Disconnect(c)
                                \/ FileNotFound(c) \/ start_download(c)

Next == MainThread \/ \E c \in Clients : SendPacket(c) \/ CountPacket(c)

\* The main thread finishes what it began, and the services thread gets to every
\* client again and again.
Spec ==
  /\ Init /\ [][Next]_vars
  /\ WF_vars(Started)
  /\ \A c \in Clients : SF_vars(SendPacket(c)) /\ WF_vars(CountPacket(c))

----------------------------------------------------------------------------
(* Properties. *)

Download_Status ==
  [in_progress : BOOLEAN, filename : Files \cup {None}, number_of_packets : Nat,
   current_packet_index : Nat, file_descriptor : Fds \cup {NoFd}]

TypeOK ==
  /\ connected \subseteq Clients
  /\ download \in [Clients -> Download_Status]
  /\ \A c \in Clients :
       download[c].in_progress /\ main.client # c =>
         download[c].current_packet_index <= download[c].number_of_packets
  /\ open_files \in [Fds -> [file : Files \cup {None}, offset : Nat]]
  /\ main \in [at : {"ready", "in_progress", "index", "descriptor", "reopen", "lseek"},
               client : Clients \cup {None}, fd : Fds \cup {NoFd}]
  /\ services \in Clients \cup {None}
  /\ got \in [Clients -> Nat \cup {Corrupt}]
  /\ lost \subseteq Fds

Starting(c) == main.client = c

\* The descriptor of a client's download, also while it is being stored.
Descriptor(c) ==
  IF Starting(c) THEN main.fd
  ELSE IF download[c].in_progress THEN download[c].file_descriptor ELSE NoFd

\* The file a client is getting, and what it has of it. Nothing is promised for a
\* download for which no descriptor was left, or that began at the other eNodeB with
\* a file of another length.
Promised(c) ==
  Descriptor(c) # NoFd /\ download[c].number_of_packets = Packets(download[c].filename)
Getting(c) == IF Promised(c) THEN download[c].filename ELSE None
Has(c) == IF Promised(c) THEN got[c] ELSE 0

\* The packets of a download add up to the file, without gaps, repetitions or
\* anything missing at the end, from the start or from the packet at which another
\* eNodeB stopped, be it the last one, whatever other downloads do meanwhile and
\* however small the file is.
Transfer == INSTANCE FileTransfer WITH
  file <- [c \in Clients |-> Getting(c)],
  got <- [c \in Clients |-> Has(c)],
  Starts <- UNION {{Preceding(f, i) : i \in 0 .. Packets(f)} : f \in Files}
ImplementsTransfer == Transfer!Spec

\* The packets that a client was sent.
Sent(c) == download[c].current_packet_index + IF services = c THEN 1 ELSE 0

\* A descriptor at this offset reads packet i of f next, or nothing after the last one.
Reads(offset, f, i) ==
  IF Position(i) < size[f] THEN offset = Position(i) ELSE offset >= size[f]

\* The descriptor of a download is open on its file, at the next packet, or with
\* the file at its end, and is no other client's, although descriptors are reused and
\* lost.
OwnDescriptor ==
  \A c \in Clients :
    Descriptor(c) # NoFd =>
      LET d == Descriptor(c)
          f == download[c].filename
      IN  /\ open_files[d].file = f
          /\ ~Starting(c) => Reads(open_files[d].offset, f, Sent(c))
          /\ \A b \in Clients \ {c} : Descriptor(b) # d

\* A descriptor stays open without a download only if its client was disconnected
\* in the middle of one: each download that ends gives its descriptor back.
OnlyDisconnectsLeak ==
  Fds \ Free = (lost \cup {Descriptor(c) : c \in Clients}) \ {NoFd}

\* Every download comes to an end, also that of an empty file and one whose file
\* could not be opened.
Completes ==
  \A c \in Clients : download[c].in_progress ~> ~download[c].in_progress
================================================================================
