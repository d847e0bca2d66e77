----------------------------- MODULE DownloadProofs -----------------------------
(***************************************************************************)
(* The download service keeps its descriptors apart and implements         *)
(* FileTransfer, whatever clients, files, packet size and descriptors, as  *)
(* long as the services thread leaves a client alone whose download is     *)
(* being started or resumed.                                               *)
(***************************************************************************)
EXTENDS Download, TLAPS

(* Files and packets. *)

\* Division with remainder.
LEMMA Quotient ==
  ASSUME NEW a \in Nat, NEW b \in Nat \ {0}
  PROVE  /\ a \div b \in Nat /\ a % b \in 0 .. b - 1
         /\ a = b * (a \div b) + (a % b)
  OBVIOUS

\* Packets follow each other.
LEMMA Positions ==
  /\ DOWNLOAD_PACKET_SIZE \in Nat \ {0}
  /\ Position(0) = 0
  /\ \A i \in Nat : /\ Position(i) \in Nat
                    /\ Position(i + 1) = Position(i) + DOWNLOAD_PACKET_SIZE
  /\ \A i, j \in Nat : i <= j => Position(i) <= Position(j)
<1>1. DOWNLOAD_PACKET_SIZE \in Nat \ {0}
  BY PacketAssumption
<1>2. ASSUME NEW i \in Nat, NEW j \in Nat, i <= j PROVE Position(i) <= Position(j)
  <2> DEFINE P == DOWNLOAD_PACKET_SIZE
  <2>1. PICK k \in Nat : j = i + k
    <3>1. j - i \in Nat /\ j = i + (j - i)
      BY <1>2
    <3> QED
      BY <3>1
  <2>2. j * P = i * P + k * P /\ i * P \in Nat /\ k * P \in Nat
    BY <1>1, <2>1
  <2> QED
    BY <2>2 DEF Position
<1> QED
  BY <1>1, <1>2 DEF Position

\* The packets of a file cover it, and all but the last one are full.
LEMMA PacketsCover ==
  ASSUME NEW f \in Files
  PROVE  /\ size[f] \in Nat /\ Packets(f) \in Nat
         /\ size[f] <= Position(Packets(f))
         /\ Packets(f) # 0 => Position(Packets(f) - 1) < size[f]
<1> DEFINE P == DOWNLOAD_PACKET_SIZE
           q == size[f] \div P
           r == size[f] % P
<1>1. size[f] \in Nat /\ P \in Nat \ {0}
  BY FilesAssumption, PacketAssumption
<1>2. q \in Nat /\ r \in 0 .. P - 1 /\ size[f] = P * q + r
  BY <1>1, Quotient
<1>3. Packets(f) = q + IF r # 0 THEN 1 ELSE 0
  BY DEF Packets
<1> HIDE DEF P, q, r
<1>4. P * q = q * P /\ (q + 1) * P = q * P + P /\ (q - 1) * P = q * P - P /\ q * P \in Nat
  BY <1>1, <1>2
<1>5. \A i : Position(i) = i * P
  BY DEF Position, P
<1>6. CASE r = 0
  <2>1. Packets(f) = q /\ size[f] = q * P
    BY <1>1, <1>2, <1>3, <1>4, <1>6
  <2> QED
    BY <1>1, <1>2, <1>4, <1>5, <2>1
<1>7. CASE r # 0
  <2>1. Packets(f) = q + 1 /\ Packets(f) - 1 = q
    BY <1>2, <1>3, <1>7
  <2> QED
    BY <1>1, <1>2, <1>4, <1>5, <1>7, <2>1
<1> QED
  BY <1>6, <1>7

\* What precedes a packet is part of the file; after the last packet the whole file
\* was sent.
LEMMA PositionInFile ==
  ASSUME NEW f \in Files, NEW i \in Nat
  PROVE  /\ Preceding(f, i) \in Nat /\ Preceding(f, i) <= size[f]
         /\ i >= Packets(f) => size[f] <= Position(i) /\ Preceding(f, i) = size[f]
         /\ Preceding(f, 0) = 0 /\ Reads(0, f, 0)
         /\ Position(i) \in Nat /\ Reads(Position(i), f, i)
<1>1. /\ Position(i) \in Nat /\ Position(Packets(f)) \in Nat /\ size[f] \in Nat
      /\ size[f] <= Position(Packets(f)) /\ Position(0) = 0
  BY PacketsCover, Positions
<1>2. i >= Packets(f) => Position(Packets(f)) <= Position(i)
  BY PacketsCover, Positions
<1> QED
  BY <1>1, <1>2 DEF Preceding, Least, Reads

\* A packet that is read brings the client and the descriptor to the next one.
LEMMA NextPacket ==
  ASSUME NEW f \in Files, NEW i \in Nat, NEW offset \in Nat, Reads(offset, f, i),
         NEW n, n = IF size[f] - offset <= 0 THEN 0
                    ELSE Least(DOWNLOAD_PACKET_SIZE, size[f] - offset)
  PROVE  /\ n \in Nat /\ Reads(offset + n, f, i + 1)
         /\ n = 0 => Preceding(f, i + 1) = Preceding(f, i)
         /\ n # 0 => /\ Position(i) = offset /\ Preceding(f, i) = offset
                     /\ Preceding(f, i + 1) = offset + n
<1>1. /\ DOWNLOAD_PACKET_SIZE \in Nat \ {0} /\ Position(i) \in Nat /\ size[f] \in Nat
      /\ Position(i + 1) = Position(i) + DOWNLOAD_PACKET_SIZE
  BY Positions, PacketsCover
<1> QED
  BY <1>1 DEF Preceding, Least, Reads

----------------------------------------------------------------------------
(* The inductive invariant. *)

Client == main.client

\* What holds of the client whose download is being started or resumed.
StartSound ==
  /\ main.at = "ready" <=> Client = None
  /\ main.at = "ready" => main = Ready
  /\ Client # None =>
       /\ Client \in connected /\ services # Client
       /\ download[Client].filename \in Files

\* start_download.
BeginSound ==
  main.at \in {"in_progress", "index", "descriptor"} =>
    /\ got[Client] = 0
    /\ main.fd # NoFd =>
         open_files[main.fd] = [file |-> download[Client].filename, offset |-> 0]
    /\ main.at = "in_progress" <=> ~download[Client].in_progress
    /\ main.at = "descriptor" => download[Client].current_packet_index = 0

\* add_reconnected_client.
ResumeSound ==
  main.at \in {"reopen", "lseek"} =>
    /\ download[Client].in_progress
    /\ download[Client].current_packet_index <= download[Client].number_of_packets
    /\ got[Client] = Preceding(download[Client].filename, download[Client].current_packet_index)
    /\ main.at = "reopen" => main.fd = NoFd
    /\ main.at = "lseek" => download[Client].file_descriptor = main.fd

\* The other clients that are getting a file have all of it up to the last packet
\* that was sent.
RunningSound ==
  \A c \in Clients :
    download[c].in_progress /\ ~Starting(c) =>
      /\ c \in connected
      /\ download[c].filename \in Files
      /\ download[c].file_descriptor # NoFd => got[c] = Preceding(download[c].filename, Sent(c))

ServicesSound ==
  services # None => download[services].in_progress /\ ~Starting(services)

\* What was lost is no client's.
LostSound == \A c \in Clients : Descriptor(c) \notin lost

\* The progress of each download agrees with what the main thread is doing, and
\* the clients have what they were sent.
Progress == StartSound /\ BeginSound /\ ResumeSound /\ RunningSound /\ ServicesSound

Descriptors == OwnDescriptor /\ OnlyDisconnectsLeak /\ LostSound

IInv == TypeOK /\ Progress /\ Descriptors

----------------------------------------------------------------------------
(* What the steps have in common. *)

\* A store to one field of a client's record keeps the records' type.
LEMMA StatusTyped ==
  ASSUME NEW D \in [Clients -> Download_Status], NEW c \in Clients
  PROVE  /\ \A r \in Download_Status : [D EXCEPT ![c] = r] \in [Clients -> Download_Status]
         /\ \A v \in BOOLEAN : [D EXCEPT ![c].in_progress = v] \in [Clients -> Download_Status]
         /\ \A f \in Files \cup {None} :
              [D EXCEPT ![c].filename = f] \in [Clients -> Download_Status]
         /\ \A n \in Nat :
              /\ [D EXCEPT ![c].number_of_packets = n] \in [Clients -> Download_Status]
              /\ [D EXCEPT ![c].current_packet_index = n] \in [Clients -> Download_Status]
         /\ \A d \in Fds \cup {NoFd} :
              [D EXCEPT ![c].file_descriptor = d] \in [Clients -> Download_Status]
<1>1. D[c] \in Download_Status
  OBVIOUS
<1> DEFINE Typed(r) == r \in Download_Status
<1>2. \A r : Typed(r) => [D EXCEPT ![c] = r] \in [Clients -> Download_Status]
  OBVIOUS
<1>3. \A v \in BOOLEAN : Typed([D[c] EXCEPT !.in_progress = v])
  BY <1>1 DEF Download_Status
<1>4. \A f \in Files \cup {None} : Typed([D[c] EXCEPT !.filename = f])
  BY <1>1 DEF Download_Status
<1>5. \A n \in Nat : /\ Typed([D[c] EXCEPT !.number_of_packets = n])
                     /\ Typed([D[c] EXCEPT !.current_packet_index = n])
  BY <1>1 DEF Download_Status
<1>6. \A d \in Fds \cup {NoFd} : Typed([D[c] EXCEPT !.file_descriptor = d])
  BY <1>1 DEF Download_Status
<1> QED
  BY <1>2, <1>3, <1>4, <1>5, <1>6

\* A client's descriptor is an open one.
LEMMA DescriptorOpen ==
  ASSUME IInv, NEW b \in Clients
  PROVE  /\ Descriptor(b) \in Fds \cup {NoFd}
         /\ Descriptor(b) # NoFd => /\ Descriptor(b) \notin Free
                                    /\ download[b].filename \in Files
<1>1. Descriptor(b) \in Fds \cup {NoFd}
  BY DEF IInv, TypeOK, Descriptor, Download_Status
<1>2. Descriptor(b) # NoFd => download[b].filename \in Files
  BY FilesAssumption DEF IInv, Progress, StartSound, RunningSound, Descriptor, Starting, Client
<1> QED
  BY <1>1, <1>2 DEF IInv, Descriptors, OnlyDisconnectsLeak

\* A step that leaves the kernel and every descriptor as they are keeps them apart.
LEMMA DescriptorsFrame ==
  ASSUME IInv, UNCHANGED <<open_files, lost>>,
         \A b \in Clients : Descriptor(b)' = Descriptor(b),
         \A b \in Clients : Descriptor(b) # NoFd =>
           /\ download'[b].filename = download[b].filename
           /\ ~Starting(b)' =>
                Reads(open_files[Descriptor(b)].offset, download[b].filename, Sent(b)')
  PROVE  Descriptors'
<1>1. OwnDescriptor'
  BY DEF IInv, Descriptors, OwnDescriptor
<1>2. OnlyDisconnectsLeak' /\ LostSound'
  BY DEF IInv, Descriptors, OnlyDisconnectsLeak, LostSound, Free
<1> QED
  BY <1>1, <1>2 DEF Descriptors

----------------------------------------------------------------------------
(* The main thread. *)

\* A client attaches.
LEMMA ConnectKeeps ==
  ASSUME ~Preempted, IInv, NEW c \in Clients, Connect(c)
  PROVE  IInv'
<1> USE FilesAssumption, FdsAssumption DEF Client, IInv, TypeOK, Ready, Closed, Fresh, NoFd, Corrupt
<1>1. TypeOK'
  <2>1. connected' \subseteq Clients /\ services' \in Clients \cup {None} /\ lost' \subseteq Fds
    BY DEF Connect, Download_Status
  <2>2. download' \in [Clients -> Download_Status]
    BY PacketsCover, PositionInFile DEF Connect, Download_Status, Progress, StartSound,
          BeginSound, ResumeSound, RunningSound, ServicesSound, Starting
  <2>3. open_files' \in [Fds -> [file : Files \cup {None}, offset : Nat]]
    BY PacketsCover, Positions DEF Connect, Progress, StartSound, BeginSound, ResumeSound,
          RunningSound, ServicesSound, Starting, Download_Status, Least
  <2>4. main' \in [at : {"ready", "in_progress", "index", "descriptor", "reopen", "lseek"},
               client : Clients \cup {None}, fd : Fds \cup {NoFd}]
    BY DEF Connect
  <2>5. got' \in [Clients -> Nat \cup {Corrupt}]
    BY PositionInFile, Positions DEF Connect, Least
  <2>6. \A b \in Clients :
         download'[b].in_progress /\ main'.client # b =>
           download'[b].current_packet_index <= download'[b].number_of_packets
    BY PacketsCover DEF Connect, Progress, StartSound, BeginSound, ResumeSound, RunningSound,
          ServicesSound, Starting, Download_Status
  <2> QED
    BY <2>1, <2>2, <2>3, <2>4, <2>5, <2>6
<1>2. StartSound' /\ BeginSound' /\ ResumeSound' /\ ServicesSound'
  BY DEF Connect, Progress, StartSound, BeginSound, ResumeSound, RunningSound, ServicesSound,
        Starting, Download_Status
<1>3. RunningSound'
  BY Positions, PacketsCover DEF Connect, Progress, StartSound, BeginSound, ResumeSound,
        RunningSound, ServicesSound, Starting, Download_Status, Sent, Least
<1>4. OwnDescriptor'
  BY Positions, PacketsCover DEF Connect, Progress, StartSound, BeginSound, ResumeSound,
        RunningSound, ServicesSound, Starting, Sent, Least, Descriptors, OwnDescriptor, LostSound,
        Descriptor, Free
<1>5. OnlyDisconnectsLeak' /\ LostSound'
  BY DEF Connect, Progress, StartSound, BeginSound, ResumeSound, RunningSound, ServicesSound,
        Starting, Download_Status, Descriptors, OwnDescriptor, OnlyDisconnectsLeak, LostSound,
        Descriptor, Free
<1> QED
  BY <1>1, <1>2, <1>3, <1>4, <1>5 DEF Progress, Descriptors

\* A file that is asked for is not there.
LEMMA FileNotFoundKeeps ==
  ASSUME ~Preempted, IInv, NEW c \in Clients, FileNotFound(c)
  PROVE  IInv'
<1> USE FilesAssumption, FdsAssumption DEF Client, IInv, TypeOK, Ready, Closed, Fresh, NoFd, Corrupt
<1>1. TypeOK'
  <2>1. connected' \subseteq Clients /\ services' \in Clients \cup {None} /\ lost' \subseteq Fds
    BY DEF FileNotFound, Download_Status
  <2>2. download' \in [Clients -> Download_Status]
    <3>1. [download EXCEPT ![c].filename = None] \in [Clients -> Download_Status]
      BY StatusTyped
    <3> QED
      BY <3>1, StatusTyped DEF FileNotFound
  <2>3. open_files' \in [Fds -> [file : Files \cup {None}, offset : Nat]]
    BY PacketsCover, Positions DEF FileNotFound, Progress, StartSound, BeginSound,
          ResumeSound, RunningSound, ServicesSound, Starting, Download_Status, Least
  <2>4. main' \in [at : {"ready", "in_progress", "index", "descriptor", "reopen", "lseek"},
               client : Clients \cup {None}, fd : Fds \cup {NoFd}]
    BY DEF FileNotFound
  <2>5. got' \in [Clients -> Nat \cup {Corrupt}]
    BY PositionInFile, Positions DEF FileNotFound, Least
  <2>6. \A b \in Clients :
         download'[b].in_progress /\ main'.client # b =>
           download'[b].current_packet_index <= download'[b].number_of_packets
    BY PacketsCover DEF FileNotFound, Progress, StartSound, BeginSound, ResumeSound,
          RunningSound, ServicesSound, Starting, Download_Status
  <2> QED
    BY <2>1, <2>2, <2>3, <2>4, <2>5, <2>6
<1>2. StartSound' /\ BeginSound' /\ ResumeSound' /\ ServicesSound'
  BY DEF FileNotFound, Progress, StartSound, BeginSound, ResumeSound, RunningSound,
        ServicesSound, Starting, Download_Status
<1>3. RunningSound'
  BY Positions, PacketsCover DEF FileNotFound, Progress, StartSound, BeginSound, ResumeSound,
        RunningSound, ServicesSound, Starting, Download_Status, Sent, Least
<1>4. OwnDescriptor'
  BY Positions, PacketsCover DEF FileNotFound, Progress, StartSound, BeginSound, ResumeSound,
        RunningSound, ServicesSound, Starting, Sent, Least, Descriptors, OwnDescriptor, LostSound,
        Descriptor, Free
<1>5. OnlyDisconnectsLeak' /\ LostSound'
  <2>1. UNCHANGED <<open_files, lost, main>>
    BY DEF FileNotFound
  <2>2. \A b \in Clients : /\ download'[b].in_progress = download[b].in_progress
                           /\ download'[b].file_descriptor = download[b].file_descriptor
    BY DEF FileNotFound, Download_Status
  <2> HIDE DEF TypeOK, Closed, NoFd
  <2>3. \A b \in Clients : Descriptor(b)' = Descriptor(b)
    BY <2>1, <2>2 DEF Descriptor, Starting
  <2> QED
    BY <2>1, <2>3 DEF Descriptors, OnlyDisconnectsLeak, LostSound, Free
<1> QED
  BY <1>1, <1>2, <1>3, <1>4, <1>5 DEF Progress, Descriptors

\* start_download finds the file and opens it.
LEMMA BeginKeeps ==
  ASSUME ~Preempted, IInv, NEW c \in Clients, start_download(c)
  PROVE  IInv'
<1> USE FilesAssumption, FdsAssumption DEF Client, IInv, TypeOK, Ready, Closed, Fresh, NoFd, Corrupt
<1>1. TypeOK'
  <2>1. connected' \subseteq Clients /\ services' \in Clients \cup {None} /\ lost' \subseteq Fds
    BY DEF start_download, Download_Status
  <2>2. download' \in [Clients -> Download_Status]
    <3>1. PICK f \in Files : download' = [download EXCEPT ![c].filename = f,
                                                         ![c].number_of_packets = Packets(f)]
      BY DEF start_download
    <3>2. [download EXCEPT ![c].filename = f] \in [Clients -> Download_Status]
      BY StatusTyped
    <3> QED
      BY <3>1, <3>2, StatusTyped, PacketsCover
  <2>3. open_files' \in [Fds -> [file : Files \cup {None}, offset : Nat]]
    BY DEF start_download, Open
  <2>4. main' \in [at : {"ready", "in_progress", "index", "descriptor", "reopen", "lseek"},
               client : Clients \cup {None}, fd : Fds \cup {NoFd}]
    BY DEF start_download
  <2>5. got' \in [Clients -> Nat \cup {Corrupt}]
    BY PositionInFile, Positions DEF start_download, Least
  <2>6. \A b \in Clients :
         download'[b].in_progress /\ main'.client # b =>
           download'[b].current_packet_index <= download'[b].number_of_packets
    BY PacketsCover DEF start_download, Progress, StartSound, BeginSound, ResumeSound,
          RunningSound, ServicesSound, Starting, Download_Status
  <2> QED
    BY <2>1, <2>2, <2>3, <2>4, <2>5, <2>6
<1>2. StartSound' /\ BeginSound' /\ ResumeSound' /\ ServicesSound'
  BY DEF start_download, Open, Progress, StartSound, BeginSound, ResumeSound, RunningSound,
        ServicesSound, Starting, Download_Status
<1>3. RunningSound'
  BY Positions, PacketsCover DEF start_download, Open, Progress, StartSound, BeginSound,
        ResumeSound, RunningSound, ServicesSound, Starting, Download_Status, Sent, Least
<1>4. OwnDescriptor'
  <2>1. PICK f \in Files, d \in Fds \cup {NoFd} :
          /\ Open(f, d)
          /\ download' = [download EXCEPT ![c].filename = f,
                                          ![c].number_of_packets = Packets(f)]
          /\ main' = [at |-> "in_progress", client |-> c, fd |-> d]
    BY DEF start_download
  <2>2. Descriptor(c)' = d /\ download'[c].filename = f /\ Starting(c)'
    BY <2>1 DEF Descriptor, Starting, Download_Status
  <2>3. \A b \in Clients \ {c} : /\ download'[b] = download[b]
                                 /\ Descriptor(b)' = Descriptor(b)
                                 /\ ~Starting(b) /\ ~Starting(b)' /\ Sent(b)' = Sent(b)
    BY <2>1 DEF start_download, Descriptor, Starting, Sent
  <2>4. d # NoFd => /\ d \in Free
                    /\ open_files' = [open_files EXCEPT ![d] = [file |-> f, offset |-> 0]]
    BY <2>1 DEF Open, Free
  <2>5. d = NoFd => open_files' = open_files
    BY <2>1 DEF Open, Free
  <2>6. \A b \in Clients \ {c} : Descriptor(b) # NoFd =>
           Descriptor(b) # d /\ open_files'[Descriptor(b)] = open_files[Descriptor(b)]
    BY <2>4, <2>5, DescriptorOpen
  <2>7. d # NoFd => open_files'[d].file = f
    BY <2>4 DEF Free
  <2> QED
    BY <2>2, <2>3, <2>6, <2>7 DEF OwnDescriptor, Descriptors, Least
<1>5. OnlyDisconnectsLeak' /\ LostSound'
  BY DEF start_download, Open, Progress, StartSound, BeginSound, ResumeSound, RunningSound,
        ServicesSound, Starting, Download_Status, Descriptors, OwnDescriptor, OnlyDisconnectsLeak,
        LostSound, Descriptor, Free
<1> QED
  BY <1>1, <1>2, <1>3, <1>4, <1>5 DEF Progress, Descriptors

\* The flag is stored; the services thread leaves this client alone until the rest is.
LEMMA StoreInProgressKeeps ==
  ASSUME ~Preempted, IInv, StoreInProgress
  PROVE  IInv'
<1> USE FilesAssumption, FdsAssumption DEF Client, IInv, TypeOK, Ready, Closed, Fresh, NoFd, Corrupt
<1>1. TypeOK'
  <2>1. connected' \subseteq Clients /\ services' \in Clients \cup {None} /\ lost' \subseteq Fds
    BY DEF StoreInProgress, Download_Status
  <2>2. download' \in [Clients -> Download_Status]
    BY StatusTyped DEF StoreInProgress, Progress, StartSound
  <2>3. open_files' \in [Fds -> [file : Files \cup {None}, offset : Nat]]
    BY PacketsCover, Positions DEF StoreInProgress, Progress, StartSound, BeginSound,
          ResumeSound, RunningSound, ServicesSound, Starting, Download_Status, Least
  <2>4. main' \in [at : {"ready", "in_progress", "index", "descriptor", "reopen", "lseek"},
               client : Clients \cup {None}, fd : Fds \cup {NoFd}]
    BY DEF StoreInProgress
  <2>5. got' \in [Clients -> Nat \cup {Corrupt}]
    BY PositionInFile, Positions DEF StoreInProgress, Least
  <2>6. \A b \in Clients :
         download'[b].in_progress /\ main'.client # b =>
           download'[b].current_packet_index <= download'[b].number_of_packets
    BY PacketsCover DEF StoreInProgress, Progress, StartSound, BeginSound, ResumeSound,
          RunningSound, ServicesSound, Starting, Download_Status
  <2> QED
    BY <2>1, <2>2, <2>3, <2>4, <2>5, <2>6
<1>2. StartSound' /\ BeginSound' /\ ResumeSound' /\ ServicesSound'
  BY DEF StoreInProgress, Progress, StartSound, BeginSound, ResumeSound, RunningSound,
        ServicesSound, Starting, Download_Status
<1>3. RunningSound'
  BY Positions, PacketsCover DEF StoreInProgress, Progress, StartSound, BeginSound,
        ResumeSound, RunningSound, ServicesSound, Starting, Download_Status, Sent, Least
<1>4. OwnDescriptor'
  BY Positions, PacketsCover DEF StoreInProgress, Progress, StartSound, BeginSound,
        ResumeSound, RunningSound, ServicesSound, Starting, Sent, Least, Descriptors, OwnDescriptor,
        LostSound, Descriptor, Free
<1>5. OnlyDisconnectsLeak' /\ LostSound'
  BY DEF StoreInProgress, Progress, StartSound, BeginSound, ResumeSound, RunningSound,
        ServicesSound, Starting, Download_Status, Descriptors, OwnDescriptor, OnlyDisconnectsLeak,
        LostSound, Descriptor, Free
<1> QED
  BY <1>1, <1>2, <1>3, <1>4, <1>5 DEF Progress, Descriptors

\* The packet index is stored.
LEMMA StoreIndexKeeps ==
  ASSUME ~Preempted, IInv, StoreIndex
  PROVE  IInv'
<1> USE FilesAssumption, FdsAssumption DEF Client, IInv, TypeOK, Ready, Closed, Fresh, NoFd, Corrupt
<1>1. TypeOK'
  <2>1. connected' \subseteq Clients /\ services' \in Clients \cup {None} /\ lost' \subseteq Fds
    BY DEF StoreIndex, Download_Status
  <2>2. download' \in [Clients -> Download_Status]
    BY StatusTyped DEF StoreIndex, Progress, StartSound
  <2>3. open_files' \in [Fds -> [file : Files \cup {None}, offset : Nat]]
    BY PacketsCover, Positions DEF StoreIndex, Progress, StartSound, BeginSound, ResumeSound,
          RunningSound, ServicesSound, Starting, Download_Status, Least
  <2>4. main' \in [at : {"ready", "in_progress", "index", "descriptor", "reopen", "lseek"},
               client : Clients \cup {None}, fd : Fds \cup {NoFd}]
    BY DEF StoreIndex
  <2>5. got' \in [Clients -> Nat \cup {Corrupt}]
    BY PositionInFile, Positions DEF StoreIndex, Least
  <2>6. \A b \in Clients :
         download'[b].in_progress /\ main'.client # b =>
           download'[b].current_packet_index <= download'[b].number_of_packets
    BY PacketsCover DEF StoreIndex, Progress, StartSound, BeginSound, ResumeSound,
          RunningSound, ServicesSound, Starting, Download_Status
  <2> QED
    BY <2>1, <2>2, <2>3, <2>4, <2>5, <2>6
<1>2. StartSound' /\ BeginSound' /\ ResumeSound' /\ ServicesSound'
  BY DEF StoreIndex, Progress, StartSound, BeginSound, ResumeSound, RunningSound,
        ServicesSound, Starting, Download_Status
<1>3. RunningSound'
  BY Positions, PacketsCover DEF StoreIndex, Progress, StartSound, BeginSound, ResumeSound,
        RunningSound, ServicesSound, Starting, Download_Status, Sent, Least
<1>4. OwnDescriptor'
  BY Positions, PacketsCover DEF StoreIndex, Progress, StartSound, BeginSound, ResumeSound,
        RunningSound, ServicesSound, Starting, Sent, Least, Descriptors, OwnDescriptor, LostSound,
        Descriptor, Free
<1>5. OnlyDisconnectsLeak' /\ LostSound'
  BY DEF StoreIndex, Progress, StartSound, BeginSound, ResumeSound, RunningSound,
        ServicesSound, Starting, Download_Status, Descriptors, OwnDescriptor, OnlyDisconnectsLeak,
        LostSound, Descriptor, Free
<1> QED
  BY <1>1, <1>2, <1>3, <1>4, <1>5 DEF Progress, Descriptors

\* The descriptor is stored, and the download is under way.
LEMMA StoreDescriptorKeeps ==
  ASSUME ~Preempted, IInv, StoreDescriptor
  PROVE  IInv'
<1> USE FilesAssumption, FdsAssumption DEF Client, IInv, TypeOK, Ready, Closed, Fresh, NoFd, Corrupt
<1>1. TypeOK'
  <2>1. connected' \subseteq Clients /\ services' \in Clients \cup {None} /\ lost' \subseteq Fds
    BY DEF StoreDescriptor, Download_Status
  <2>2. download' \in [Clients -> Download_Status]
    BY PacketsCover, PositionInFile DEF StoreDescriptor, Download_Status, Progress,
          StartSound, BeginSound, ResumeSound, RunningSound, ServicesSound, Starting
  <2>3. open_files' \in [Fds -> [file : Files \cup {None}, offset : Nat]]
    BY PacketsCover, Positions DEF StoreDescriptor, Progress, StartSound, BeginSound,
          ResumeSound, RunningSound, ServicesSound, Starting, Download_Status, Least
  <2>4. main' \in [at : {"ready", "in_progress", "index", "descriptor", "reopen", "lseek"},
               client : Clients \cup {None}, fd : Fds \cup {NoFd}]
    BY DEF StoreDescriptor
  <2>5. got' \in [Clients -> Nat \cup {Corrupt}]
    BY PositionInFile, Positions DEF StoreDescriptor, Least
  <2>6. \A b \in Clients :
         download'[b].in_progress /\ main'.client # b =>
           download'[b].current_packet_index <= download'[b].number_of_packets
    BY PacketsCover DEF StoreDescriptor, Progress, StartSound, BeginSound, ResumeSound,
          RunningSound, ServicesSound, Starting, Download_Status
  <2> QED
    BY <2>1, <2>2, <2>3, <2>4, <2>5, <2>6
<1>2. StartSound' /\ BeginSound' /\ ResumeSound' /\ ServicesSound'
  BY DEF StoreDescriptor, Progress, StartSound, BeginSound, ResumeSound, RunningSound,
        ServicesSound, Starting, Download_Status
<1>c. PICK c \in Clients, f \in Files : /\ c = main.client /\ f = download[c].filename
                                       /\ c \in connected /\ services # c
  BY DEF StoreDescriptor, Progress, StartSound
<1>d. /\ UNCHANGED <<connected, open_files, services, got, lost>> /\ main' = Ready
      /\ download' = [download EXCEPT ![c].file_descriptor = main.fd]
  BY <1>c DEF StoreDescriptor
<1>e. /\ Starting(c) /\ download[c].in_progress /\ download[c].current_packet_index = 0
      /\ got[c] = 0
      /\ main.fd # NoFd => open_files[main.fd] = [file |-> f, offset |-> 0]
  BY <1>c DEF StoreDescriptor, Progress, BeginSound, Starting
<1>f. /\ \A b \in Clients \ {c} : download'[b] = download[b] /\ ~Starting(b)
      /\ download'[c] = [download[c] EXCEPT !.file_descriptor = main.fd]
      /\ \A b \in Clients : ~Starting(b)'
  BY <1>c, <1>d DEF Starting
<1>g. /\ Sent(c)' = 0 /\ download'[c].filename = f /\ download'[c].in_progress
      /\ \A b \in Clients \ {c} : Sent(b)' = Sent(b)
      /\ \A b \in Clients : Descriptor(b)' = Descriptor(b)
  BY <1>c, <1>d, <1>e, <1>f DEF Sent, Descriptor, Starting, Download_Status
<1>h. Preceding(f, 0) = 0 /\ Reads(0, f, 0)
  BY PositionInFile
<1>3. RunningSound'
  <2> HIDE DEF TypeOK, Closed, NoFd, Ready
  <2> QED
    BY <1>c, <1>d, <1>e, <1>f, <1>g, <1>h DEF Progress, RunningSound
<1>4. OwnDescriptor'
  <2>1. Descriptor(c) = main.fd
    BY <1>e DEF Descriptor, Starting
  <2> HIDE DEF TypeOK, Closed, NoFd, Ready
  <2>2. Descriptor(c) # NoFd => Reads(open_files[Descriptor(c)].offset, f, 0)
    BY <1>e, <1>h, <2>1
  <2> QED
    BY <1>c, <1>d, <1>f, <1>g, <2>2 DEF Descriptors, OwnDescriptor
<1>5. OnlyDisconnectsLeak' /\ LostSound'
  BY DEF StoreDescriptor, Progress, StartSound, BeginSound, ResumeSound, RunningSound,
        ServicesSound, Starting, Download_Status, Descriptors, OwnDescriptor, OnlyDisconnectsLeak,
        LostSound, Descriptor, Free
<1> QED
  BY <1>1, <1>2, <1>3, <1>4, <1>5 DEF Progress, Descriptors

\* The copy of a record is one.
LEMMA RecordCopied ==
  ASSUME NEW c \in Clients, Resume(c), download \in [Clients -> Download_Status]
  PROVE  download' \in [Clients -> Download_Status]
<1> DEFINE Copy(f, d, n, i) ==
             [in_progress |-> TRUE, filename |-> f, number_of_packets |-> n,
              current_packet_index |-> i, file_descriptor |-> d]
<1>1. \A n \in Counts : n \in Nat /\ \A i \in 0 .. n : i \in Nat
  BY PacketsCover DEF Counts
<1>2. \A f \in Files, d \in Fds \cup {NoFd}, n \in Nat, i \in Nat :
        Copy(f, d, n, i) \in Download_Status
  BY DEF Download_Status
<1>3. \E f \in Files, d \in Fds \cup {NoFd}, n \in Counts : \E i \in 0 .. n :
        download' = [download EXCEPT ![c] = Copy(f, d, n, i)]
  BY DEF Resume
<1> HIDE DEF Copy
<1>4. PICK r \in Download_Status : download' = [download EXCEPT ![c] = r]
  BY <1>1, <1>2, <1>3
<1> QED
  BY <1>4, StatusTyped

\* The record from the other eNodeB is stored, with a descriptor that means nothing.
LEMMA ResumeKeeps ==
  ASSUME ~Preempted, IInv, NEW c \in Clients, Resume(c)
  PROVE  IInv'
<1> USE FilesAssumption, FdsAssumption DEF Client, IInv, TypeOK, Ready, Closed, Fresh, NoFd, Corrupt
<1>1. TypeOK'
  <2>1. connected' \subseteq Clients /\ services' \in Clients \cup {None} /\ lost' \subseteq Fds
    BY DEF Resume, Download_Status
  <2>2. download' \in [Clients -> Download_Status]
    BY RecordCopied DEF TypeOK
  <2>3. open_files' \in [Fds -> [file : Files \cup {None}, offset : Nat]]
    BY PacketsCover, Positions DEF Resume, Progress, StartSound, BeginSound, ResumeSound,
          RunningSound, ServicesSound, Starting, Download_Status, Least
  <2>4. main' \in [at : {"ready", "in_progress", "index", "descriptor", "reopen", "lseek"},
               client : Clients \cup {None}, fd : Fds \cup {NoFd}]
    BY DEF Resume
  <2>5. got' \in [Clients -> Nat \cup {Corrupt}]
    BY PositionInFile, Positions DEF Resume, Least
  <2>6. \A b \in Clients :
         download'[b].in_progress /\ main'.client # b =>
           download'[b].current_packet_index <= download'[b].number_of_packets
    BY PacketsCover DEF Resume, Progress, StartSound, BeginSound, ResumeSound, RunningSound,
          ServicesSound, Starting, Download_Status
  <2> QED
    BY <2>1, <2>2, <2>3, <2>4, <2>5, <2>6
<1>2. StartSound' /\ BeginSound' /\ ResumeSound' /\ ServicesSound'
  BY DEF Resume, Progress, StartSound, BeginSound, ResumeSound, RunningSound, ServicesSound,
        Starting, Download_Status
<1>3. RunningSound'
  <2>1. Starting(c)' /\ ~download[c].in_progress
    BY DEF Resume, Progress, RunningSound, Starting
  <2>2. \A b \in Clients \ {c} : /\ download'[b] = download[b] /\ got'[b] = got[b]
                                 /\ Starting(b)' <=> b = c
                                 /\ ~Starting(b)
    BY DEF Resume, Starting
  <2> QED
    BY <2>1, <2>2 DEF Resume, Progress, RunningSound, Sent
<1>4. Descriptors'
  <2>1. ~download[c].in_progress /\ Descriptor(c) = NoFd /\ Descriptor(c)' = NoFd
    BY DEF Resume, Progress, RunningSound, Starting, Descriptor
  <2>2. \A b \in Clients \ {c} : /\ download'[b] = download[b]
                                 /\ Descriptor(b)' = Descriptor(b)
                                 /\ ~Starting(b) /\ Sent(b)' = Sent(b)
    BY DEF Resume, Starting, Descriptor, Sent
  <2>3. UNCHANGED <<open_files, lost>>
    BY DEF Resume
  <2> HIDE DEF NoFd
  <2>4. \A b \in Clients : Descriptor(b)' = Descriptor(b)
    BY <2>1, <2>2
  <2> QED
    BY <2>1, <2>2, <2>3, <2>4, DescriptorsFrame DEF Descriptors, OwnDescriptor
<1> QED
  BY <1>1, <1>2, <1>3, <1>4 DEF Progress

\* The file is opened again; no other client has the descriptor.
LEMMA ReopenKeeps ==
  ASSUME ~Preempted, IInv, Reopen
  PROVE  IInv'
<1> USE FilesAssumption, FdsAssumption DEF Client, IInv, TypeOK, Ready, Closed, Fresh, NoFd, Corrupt
<1>1. TypeOK'
  <2>1. connected' \subseteq Clients /\ services' \in Clients \cup {None} /\ lost' \subseteq Fds
    BY DEF Reopen, Download_Status
  <2>2. download' \in [Clients -> Download_Status]
    BY PacketsCover, PositionInFile DEF Reopen, Download_Status, Progress, StartSound,
          BeginSound, ResumeSound, RunningSound, ServicesSound, Starting
  <2>3. open_files' \in [Fds -> [file : Files \cup {None}, offset : Nat]]
    <3>1. PICK f \in Files, d \in Fds \cup {NoFd} : Open(f, d) \/ UNCHANGED open_files
      BY DEF Reopen, Progress, StartSound
    <3> QED
      BY <3>1 DEF Open
  <2>4. main' \in [at : {"ready", "in_progress", "index", "descriptor", "reopen", "lseek"},
               client : Clients \cup {None}, fd : Fds \cup {NoFd}]
    BY DEF Reopen
  <2>5. got' \in [Clients -> Nat \cup {Corrupt}]
    BY PositionInFile, Positions DEF Reopen, Least
  <2>6. \A b \in Clients :
         download'[b].in_progress /\ main'.client # b =>
           download'[b].current_packet_index <= download'[b].number_of_packets
    BY PacketsCover DEF Reopen, Progress, StartSound, BeginSound, ResumeSound, RunningSound,
          ServicesSound, Starting, Download_Status
  <2> QED
    BY <2>1, <2>2, <2>3, <2>4, <2>5, <2>6
<1>2. StartSound' /\ BeginSound' /\ ResumeSound' /\ ServicesSound'
  BY DEF Reopen, Open, Progress, StartSound, BeginSound, ResumeSound, RunningSound,
        ServicesSound, Starting, Download_Status
<1>3. RunningSound'
  BY Positions, PacketsCover DEF Reopen, Open, Progress, StartSound, BeginSound, ResumeSound,
        RunningSound, ServicesSound, Starting, Download_Status, Sent, Least
<1>4. OwnDescriptor'
  <2>0. PICK c \in Clients, f \in Files : c = main.client /\ f = download[c].filename
    BY DEF Reopen, Progress, StartSound
  <2>1. PICK d \in Fds \cup {NoFd} :
          /\ Open(f, d) \/ (d = NoFd /\ UNCHANGED open_files)
          /\ download' = [download EXCEPT ![c].file_descriptor = d]
          /\ main' = [main EXCEPT !.at = "lseek", !.fd = d]
    BY <2>0 DEF Reopen
  <2>2. Starting(c)
    BY <2>0 DEF Starting
  <2>3. Descriptor(c)' = d /\ download'[c].filename = f /\ Starting(c)'
    BY <2>0, <2>1, <2>2 DEF Descriptor, Starting, Download_Status
  <2>4. \A b \in Clients \ {c} : /\ download'[b] = download[b]
                                 /\ Descriptor(b)' = Descriptor(b)
                                 /\ ~Starting(b) /\ ~Starting(b)' /\ Sent(b)' = Sent(b)
    BY <2>1, <2>2 DEF Reopen, Descriptor, Starting, Sent
  <2>5. d # NoFd => /\ d \in Free
                    /\ open_files' = [open_files EXCEPT ![d] = [file |-> f, offset |-> 0]]
    BY <2>1 DEF Open, Free
  <2>6. d = NoFd => open_files' = open_files
    BY <2>1 DEF Open, Free
  <2>7. \A b \in Clients \ {c} : Descriptor(b) # NoFd =>
           Descriptor(b) # d /\ open_files'[Descriptor(b)] = open_files[Descriptor(b)]
    BY <2>5, <2>6, DescriptorOpen
  <2>8. d # NoFd => open_files'[d].file = f
    BY <2>5 DEF Free
  <2> QED
    BY <2>2, <2>3, <2>4, <2>7, <2>8 DEF OwnDescriptor, Descriptors, Least
<1>5. OnlyDisconnectsLeak' /\ LostSound'
  BY DEF Reopen, Open, Progress, StartSound, BeginSound, ResumeSound, RunningSound,
        ServicesSound, Starting, Download_Status, Descriptors, OwnDescriptor, OnlyDisconnectsLeak,
        LostSound, Descriptor, Free
<1> QED
  BY <1>1, <1>2, <1>3, <1>4, <1>5 DEF Progress, Descriptors

\* The file's offset comes to the next packet.
LEMMA SeekKeeps ==
  ASSUME ~Preempted, IInv, Seek
  PROVE  IInv'
<1> USE FilesAssumption, FdsAssumption DEF Client, IInv, TypeOK, Ready, Closed, Fresh, NoFd, Corrupt
<1>c. PICK c \in Clients : c = main.client
  BY DEF Seek, Progress, StartSound
<1>i. PICK i, f : i = download[c].current_packet_index /\ f = download[c].filename
  OBVIOUS
<1>0. /\ Starting(c) /\ f \in Files /\ i <= download[c].number_of_packets
      /\ download[c].in_progress /\ services # c
      /\ download[c].file_descriptor = main.fd
      /\ got[c] = Preceding(f, i)
  BY <1>c, <1>i DEF Seek, Progress, StartSound, ResumeSound, Starting
<1>a. i \in Nat /\ Position(i) \in Nat /\ Reads(Position(i), f, i)
  <2>1. i \in Nat
    BY <1>i DEF Download_Status
  <2> QED
    BY <1>0, <2>1, PositionInFile
<1>b. /\ UNCHANGED <<connected, download, services, got, lost>> /\ main' = Ready
      /\ open_files' = [d \in Fds |->
                          IF d = main.fd /\ d \notin Free
                          THEN [open_files[d] EXCEPT !.offset = Position(i)]
                          ELSE open_files[d]]
  BY <1>c, <1>i DEF Seek
<1>s. Sent(c)' = i
  BY ONLY <1>0, <1>a, <1>b, <1>i DEF Sent
<1>1. TypeOK'
  <2>1. open_files' \in [Fds -> [file : Files \cup {None}, offset : Nat]]
    BY <1>a, <1>b
  <2>2. \A b \in Clients :
         download'[b].in_progress /\ main'.client # b =>
           download'[b].current_packet_index <= download'[b].number_of_packets
    BY <1>0, <1>b, <1>c, <1>i
  <2> QED
    BY <1>b, <2>1, <2>2
<1>2. StartSound' /\ BeginSound' /\ ResumeSound' /\ ServicesSound'
  BY DEF Seek, Progress, StartSound, BeginSound, ResumeSound, RunningSound, ServicesSound,
        Starting, Download_Status
<1>3. RunningSound'
  <2>1. Sent(c)' = i
    BY <1>s
  <2>2. \A b \in Clients : Sent(b)' = Sent(b)
    BY <1>b DEF Sent
  <2>3. c \in connected
    BY <1>c DEF Progress, StartSound
  <2>4. \A b \in Clients \ {c} : ~Starting(b)
    BY <1>c DEF Starting
  <2> QED
    BY <1>0, <1>a, <1>b, <1>i, <2>1, <2>2, <2>3, <2>4 DEF Progress, RunningSound
<1>4. OwnDescriptor'
  <2>1. \A b \in Clients : Descriptor(b)' = Descriptor(b) /\ Sent(b)' = Sent(b)
    BY <1>0, <1>b DEF Descriptor, Starting, Sent
  <2>2. Descriptor(c) = main.fd
    BY <1>0 DEF Descriptor
  <2>3. main.fd # NoFd => /\ open_files'[main.fd].file = open_files[main.fd].file
                          /\ open_files'[main.fd].offset = Position(i)
    BY <1>0, <1>b, <2>2, DescriptorOpen
  <2>4. \A b \in Clients \ {c} : Descriptor(b) # NoFd =>
           /\ ~Starting(b)
           /\ open_files'[Descriptor(b)] = open_files[Descriptor(b)]
    BY <1>0, <1>b, <2>2, DescriptorOpen DEF Descriptors, OwnDescriptor, Starting
  <2> HIDE DEF NoFd, Closed, Ready, Fresh, TypeOK
  <2>5. SUFFICES ASSUME NEW b \in Clients, Descriptor(b) # NoFd
        PROVE  /\ open_files'[Descriptor(b)].file = download[b].filename
               /\ ~Starting(b)' => Reads(open_files'[Descriptor(b)].offset,
                                        download[b].filename, Sent(b)')
    BY <1>b, <2>1 DEF Descriptors, OwnDescriptor
  <2>6. CASE b = c
    BY <1>0, <1>a, <1>i, <1>s, <2>2, <2>3, <2>5, <2>6 DEF Descriptors, OwnDescriptor
  <2>7. CASE b # c
    BY <2>1, <2>4, <2>5, <2>7 DEF Descriptors, OwnDescriptor
  <2> QED
    BY <2>6, <2>7
<1>5. OnlyDisconnectsLeak' /\ LostSound'
  BY DEF Seek, Progress, StartSound, BeginSound, ResumeSound, RunningSound, ServicesSound,
        Starting, Download_Status, Descriptors, OwnDescriptor, OnlyDisconnectsLeak, LostSound,
        Descriptor, Free
<1> QED
  BY <1>1, <1>2, <1>3, <1>4, <1>5 DEF Progress, Descriptors

\* A client goes, and the descriptor of its download is lost.
LEMMA DisconnectKeeps ==
  ASSUME ~Preempted, IInv, NEW c \in Clients, Disconnect(c)
  PROVE  IInv'
<1> USE FilesAssumption, FdsAssumption DEF Client, IInv, TypeOK, Ready, Closed, Fresh, NoFd, Corrupt
<1>1. TypeOK'
  <2>1. connected' \subseteq Clients /\ services' \in Clients \cup {None} /\ lost' \subseteq Fds
    BY DEF Disconnect, Download_Status
  <2>2. download' \in [Clients -> Download_Status]
    BY PacketsCover, PositionInFile DEF Disconnect, Download_Status, Progress, StartSound,
          BeginSound, ResumeSound, RunningSound, ServicesSound, Starting
  <2>3. open_files' \in [Fds -> [file : Files \cup {None}, offset : Nat]]
    BY PacketsCover, Positions DEF Disconnect, Progress, StartSound, BeginSound, ResumeSound,
          RunningSound, ServicesSound, Starting, Download_Status, Least
  <2>4. main' \in [at : {"ready", "in_progress", "index", "descriptor", "reopen", "lseek"},
               client : Clients \cup {None}, fd : Fds \cup {NoFd}]
    BY DEF Disconnect
  <2>5. got' \in [Clients -> Nat \cup {Corrupt}]
    BY PositionInFile, Positions DEF Disconnect, Least
  <2>6. \A b \in Clients :
         download'[b].in_progress /\ main'.client # b =>
           download'[b].current_packet_index <= download'[b].number_of_packets
    BY PacketsCover DEF Disconnect, Progress, StartSound, BeginSound, ResumeSound,
          RunningSound, ServicesSound, Starting, Download_Status
  <2> QED
    BY <2>1, <2>2, <2>3, <2>4, <2>5, <2>6
<1>2. StartSound' /\ BeginSound' /\ ResumeSound' /\ ServicesSound'
  BY DEF Disconnect, Progress, StartSound, BeginSound, ResumeSound, RunningSound,
        ServicesSound, Starting, Download_Status
<1>3. RunningSound'
  BY Positions, PacketsCover DEF Disconnect, Progress, StartSound, BeginSound, ResumeSound,
        RunningSound, ServicesSound, Starting, Download_Status, Sent, Least
<1>4. OwnDescriptor'
  <2>1. Descriptor(c)' = NoFd
    BY DEF Disconnect, Descriptor, Starting
  <2>2. \A b \in Clients \ {c} : /\ download'[b] = download[b]
                                 /\ Descriptor(b)' = Descriptor(b) /\ Sent(b)' = Sent(b)
    BY DEF Disconnect, Descriptor, Starting, Sent
  <2> QED
    BY <2>1, <2>2 DEF Disconnect, OwnDescriptor, Descriptors, Starting
<1>5. OnlyDisconnectsLeak' /\ LostSound'
  BY DEF Disconnect, Progress, StartSound, BeginSound, ResumeSound, RunningSound,
        ServicesSound, Starting, Download_Status, Descriptors, OwnDescriptor, OnlyDisconnectsLeak,
        LostSound, Descriptor, Free
<1> QED
  BY <1>1, <1>2, <1>3, <1>4, <1>5 DEF Progress, Descriptors

----------------------------------------------------------------------------
(* The services thread. *)

\* The client whose packet is sent has everything before it, and then this packet.
LEMMA PacketSent ==
  ASSUME ~Preempted, IInv, NEW c \in Clients, SendPacket(c),
         download[c].file_descriptor # NoFd
  PROVE  LET d == download[c].file_descriptor
             f == download[c].filename
             i == download[c].current_packet_index
         IN
         /\ d \in Fds \ Free /\ d = Descriptor(c)
         /\ f \in Files /\ i \in Nat
         /\ got[c] = Preceding(f, i)
         /\ Preceding(f, i + 1) \in Nat
         /\ got' = [got EXCEPT ![c] = Preceding(f, i + 1)]
         /\ \E o \in Nat : /\ Reads(o, f, i + 1)
                          /\ open_files' = [open_files EXCEPT ![d].offset = o]
<1> USE DEF IInv, NoFd
<1> DEFINE d == download[c].file_descriptor
           f == download[c].filename
           i == download[c].current_packet_index
<1>1. /\ services = None /\ c \in connected /\ download[c].in_progress
      /\ ~Starting(c) /\ d = Descriptor(c) /\ f \in Files
      /\ got[c] = Preceding(f, Sent(c))
      /\ i \in Nat
    BY DEF SendPacket, Starting, Descriptor, Progress, RunningSound, TypeOK, Download_Status
<1>2. d \in Fds \ Free
  BY <1>1, DescriptorOpen
<1>3. Sent(c) = i
  BY <1>1, FilesAssumption DEF Sent
<1>4. PICK o \in Nat : o = open_files[d].offset
  BY <1>2 DEF TypeOK
<1>5. open_files[d].file = f /\ Reads(o, f, i)
  BY <1>1, <1>3, <1>4 DEF Descriptors, OwnDescriptor
<1>6. PICK n : n = Bytes(d)
  OBVIOUS
<1>7. /\ got' = [got EXCEPT ![c] = Received(c, d, i)]
      /\ open_files' = [open_files EXCEPT ![d].offset = o + n]
  BY <1>2, <1>4, <1>6 DEF SendPacket
<1> HIDE DEF d, f, i
<1>8. n = IF size[f] - o <= 0 THEN 0 ELSE Least(DOWNLOAD_PACKET_SIZE, size[f] - o)
  BY <1>4, <1>5, <1>6 DEF Bytes
<1>9. /\ n \in Nat /\ Reads(o + n, f, i + 1)
      /\ n = 0 => Preceding(f, i + 1) = Preceding(f, i)
      /\ n # 0 => /\ Position(i) = o /\ Preceding(f, i) = o
                  /\ Preceding(f, i + 1) = o + n
  BY <1>1, <1>5, <1>8, NextPacket
<1>10. Received(c, d, i) = Preceding(f, i + 1)
  BY <1>1, <1>3, <1>4, <1>6, <1>9 DEF Received
<1>11. Preceding(f, i + 1) \in Nat /\ o + n \in Nat
  BY <1>1, <1>9, PositionInFile
<1> QED
  BY <1>1, <1>2, <1>3, <1>7, <1>9, <1>10, <1>11 DEF d, f, i

\* The services thread sends a packet; the file and what the client has advance together.
LEMMA SendKeeps ==
  ASSUME ~Preempted, IInv, NEW c \in Clients, SendPacket(c)
  PROVE  IInv'
<1> USE FilesAssumption, FdsAssumption DEF IInv
<1> DEFINE d == download[c].file_descriptor
           f == download[c].filename
           i == download[c].current_packet_index
           n == Preceding(f, i + 1)
<1>1. /\ UNCHANGED <<connected, download, main, lost>> /\ services' = c
      /\ services = None /\ ~Starting(c) /\ c \in connected /\ download[c].in_progress
      /\ i \in Nat /\ d \in Fds \cup {NoFd} /\ Descriptor(c) = d
  BY DEF SendPacket, Starting, Descriptor, TypeOK, Download_Status
<1>2. d = NoFd => UNCHANGED <<got, open_files>>
  BY DEF SendPacket, NoFd
<1>o. PICK o : d # NoFd => /\ o \in Nat /\ Reads(o, f, i + 1)
                           /\ open_files' = [open_files EXCEPT ![d].offset = o]
  BY PacketSent
<1>3. d # NoFd => /\ d \in Fds /\ n \in Nat
                  /\ got' = [got EXCEPT ![c] = n]
                  /\ o \in Nat /\ Reads(o, f, i + 1)
                  /\ open_files' = [open_files EXCEPT ![d].offset = o]
  BY <1>o, PacketSent
<1>4. \A b \in Clients : /\ Starting(b)' <=> Starting(b)
                         /\ Descriptor(b)' = Descriptor(b)
  BY <1>1 DEF Starting, Descriptor
<1>5. /\ Sent(c)' = i + 1
      /\ \A b \in Clients \ {c} : Sent(b)' = Sent(b) /\ got'[b] = got[b]
  BY <1>1, <1>2, <1>3 DEF Sent, TypeOK
<1>6. \A e \in Fds : /\ open_files'[e].file = open_files[e].file
                     /\ e # d => open_files'[e] = open_files[e]
  BY <1>1, <1>2, <1>3 DEF TypeOK
<1>7. d # NoFd => got'[c] = n /\ open_files'[d].offset = o
  BY <1>3 DEF TypeOK
<1>8. TypeOK'
  <2>1. open_files' \in [Fds -> [file : Files \cup {None}, offset : Nat]]
    <3>1. CASE d = NoFd
      BY <1>2, <3>1 DEF TypeOK
    <3>2. CASE d # NoFd
      BY <1>3, <3>2 DEF TypeOK
    <3> QED
      BY <3>1, <3>2
  <2>2. got' \in [Clients -> Nat \cup {Corrupt}]
    BY <1>2, <1>3 DEF TypeOK
  <2> QED
    BY <1>1, <2>1, <2>2 DEF TypeOK
<1> HIDE DEF n
<1>9. StartSound' /\ BeginSound' /\ ResumeSound' /\ ServicesSound'
  <2>1. main.client # c /\ (main.client # None => main.client \in Clients)
    BY <1>1 DEF Starting, TypeOK
  <2>2. StartSound' /\ ServicesSound'
    BY <1>1, <1>4, <2>1 DEF Progress, StartSound, ServicesSound, Client
  <2>3. main.client # None => got'[main.client] = got[main.client]
    BY <1>5, <2>1
  <2>4. ResumeSound'
    BY <1>1, <2>1, <2>3 DEF Progress, StartSound, ResumeSound, Client
  <2>5. ASSUME main.client # None, main.fd # NoFd
        PROVE  open_files'[main.fd] = open_files[main.fd]
    <3>1. Descriptor(main.client) = main.fd /\ main.fd \in Fds
      BY <2>1, <2>5 DEF Descriptor, Starting, TypeOK
    <3>2. main.fd # d
      BY <1>1, <2>1, <2>5, <3>1 DEF Descriptors, OwnDescriptor
    <3> QED
      BY <1>6, <3>1, <3>2
  <2>6. BeginSound'
    BY <1>1, <2>1, <2>3, <2>5 DEF Progress, StartSound, BeginSound, Client
  <2> QED
    BY <2>2, <2>4, <2>6
<1>10. RunningSound'
  BY <1>1, <1>4, <1>5, <1>7 DEF n, Progress, RunningSound
<1>11. OwnDescriptor'
  <2>1. \A b \in Clients : Descriptor(b) # NoFd => Descriptor(b) \in Fds
    BY DescriptorOpen
  <2>2. \A b \in Clients \ {c} : Descriptor(b) # NoFd => Descriptor(b) # d
    BY <1>1 DEF Descriptors, OwnDescriptor
  <2>3. d # NoFd => open_files[d].file = f
    BY <1>1 DEF Descriptors, OwnDescriptor
  <2>4. SUFFICES ASSUME NEW b \in Clients, Descriptor(b) # NoFd
        PROVE  /\ open_files'[Descriptor(b)].file = download[b].filename
               /\ ~Starting(b) => Reads(open_files'[Descriptor(b)].offset,
                                       download[b].filename, Sent(b)')
    BY <1>1, <1>4 DEF Descriptors, OwnDescriptor
  <2>5. CASE b = c
    BY <1>1, <1>3, <1>5, <1>6, <1>7, <2>1, <2>3, <2>4, <2>5
  <2>6. CASE b # c
    BY <1>5, <1>6, <2>1, <2>2, <2>4, <2>6 DEF Descriptors, OwnDescriptor
  <2> QED
    BY <2>5, <2>6
<1>12. OnlyDisconnectsLeak' /\ LostSound'
  <2>1. \A e \in Fds : open_files'[e] = Closed <=> open_files[e] = Closed
    <3>1. d # NoFd => d \notin Free /\ f \in Files /\ open_files[d].file = f
      BY <1>1, DescriptorOpen DEF Descriptors, OwnDescriptor
    <3>2. open_files'[d] = Closed => open_files'[d].file = None
      BY DEF Closed
    <3> QED
      BY <1>6, <1>2, <3>1, <3>2 DEF Free
  <2> QED
    BY <1>1, <1>4, <2>1 DEF Descriptors, OnlyDisconnectsLeak, LostSound, Free
<1> QED
  BY <1>8, <1>9, <1>10, <1>11, <1>12 DEF Progress, Descriptors

\* The packet is counted, and the file closed after the last one.
LEMMA CountKeeps ==
  ASSUME ~Preempted, IInv, NEW c \in Clients, CountPacket(c)
  PROVE  IInv'
<1> USE FilesAssumption, FdsAssumption DEF Client, IInv, TypeOK, Ready, Closed, Fresh, NoFd, Corrupt
<1>1. TypeOK'
  <2>1. connected' \subseteq Clients /\ services' \in Clients \cup {None} /\ lost' \subseteq Fds
    BY DEF CountPacket, Download_Status
  <2>2. download' \in [Clients -> Download_Status]
    <3> DEFINE k == download[c].current_packet_index + 1
               v == ~(k >= download[c].number_of_packets)
    <3>1. k \in Nat /\ v \in BOOLEAN
      BY DEF Download_Status
    <3>2. [download EXCEPT ![c].current_packet_index = k] \in [Clients -> Download_Status]
      BY <3>1, StatusTyped
    <3>3. [[download EXCEPT ![c].current_packet_index = k] EXCEPT ![c].in_progress = v]
            \in [Clients -> Download_Status]
      BY <3>1, <3>2, StatusTyped
    <3> QED
      BY <3>3 DEF CountPacket
  <2>3. open_files' \in [Fds -> [file : Files \cup {None}, offset : Nat]]
    BY PacketsCover, Positions DEF CountPacket, Close, Progress, StartSound, BeginSound,
          ResumeSound, RunningSound, ServicesSound, Starting, Download_Status, Least
  <2>4. main' \in [at : {"ready", "in_progress", "index", "descriptor", "reopen", "lseek"},
               client : Clients \cup {None}, fd : Fds \cup {NoFd}]
    BY DEF CountPacket
  <2>5. got' \in [Clients -> Nat \cup {Corrupt}]
    BY PositionInFile, Positions DEF CountPacket, Least
  <2>6. \A b \in Clients :
         download'[b].in_progress /\ main'.client # b =>
           download'[b].current_packet_index <= download'[b].number_of_packets
    BY PacketsCover DEF CountPacket, Progress, StartSound, BeginSound, ResumeSound,
          RunningSound, ServicesSound, Starting, Download_Status
  <2> QED
    BY <2>1, <2>2, <2>3, <2>4, <2>5, <2>6
<1>2. StartSound' /\ BeginSound' /\ ResumeSound' /\ ServicesSound'
  BY DEF CountPacket, Close, Progress, StartSound, BeginSound, ResumeSound, RunningSound,
        ServicesSound, Starting, Download_Status
<1>3. RunningSound'
  BY Positions, PacketsCover DEF CountPacket, Close, Progress, StartSound, BeginSound,
        ResumeSound, RunningSound, ServicesSound, Starting, Download_Status, Sent, Least
<1>4. Descriptors'
  <2> DEFINE d == download[c].file_descriptor
             k == download[c].current_packet_index + 1
             last == k >= download[c].number_of_packets
  <2>1. download[c].in_progress /\ ~Starting(c) /\ Descriptor(c) = d
    BY DEF CountPacket, Progress, ServicesSound, Descriptor
  <2>2. /\ UNCHANGED <<connected, main, got, lost>> /\ services = c /\ services' = None
        /\ download' = [download EXCEPT ![c].current_packet_index = k,
                                        ![c].in_progress = ~last]
    BY DEF CountPacket
  <2>3. \A b \in Clients \ {c} :
          /\ download'[b] = download[b]
          /\ Descriptor(b)' = Descriptor(b) /\ Sent(b)' = Sent(b)
    BY <2>2 DEF Descriptor, Starting, Sent
  <2>4. \A b \in Clients : Starting(b)' <=> Starting(b)
    BY <2>2 DEF Starting
  <2>5. CASE last
    <3>1. Close(d) /\ Descriptor(c)' = NoFd
      BY <2>1, <2>2, <2>5 DEF CountPacket, Descriptor, Starting, Download_Status
    <3>2. \A e \in Fds : open_files'[e] = IF e = d THEN Closed ELSE open_files[e]
      BY <3>1 DEF Close
    <3>3. \A b \in Clients : Descriptor(b) # NoFd => Descriptor(b) \in Fds
      BY DescriptorOpen
    <3>4. \A b \in Clients \ {c} : Descriptor(b) # NoFd => Descriptor(b) # d
      BY <2>1 DEF Descriptors, OwnDescriptor
    <3> HIDE DEF d, k, last, NoFd, Closed, TypeOK
    <3>5. OwnDescriptor'
      <4> SUFFICES ASSUME NEW b \in Clients, Descriptor(b)' # NoFd
                   PROVE  /\ open_files'[Descriptor(b)'].file = download'[b].filename
                          /\ ~Starting(b)' => Reads(open_files'[Descriptor(b)'].offset,
                                                   download'[b].filename, Sent(b)')
                          /\ \A a \in Clients \ {b} : Descriptor(a)' # Descriptor(b)'
        BY DEF OwnDescriptor
      <4>1. b # c
        BY <3>1
      <4>2. open_files'[Descriptor(b)] = open_files[Descriptor(b)]
        BY <2>3, <3>2, <3>3, <3>4, <4>1
      <4>3. \A a \in Clients \ {b} : Descriptor(a)' # Descriptor(b)'
        BY <2>3, <3>1, <4>1 DEF Descriptors, OwnDescriptor
      <4> QED
        BY <2>3, <2>4, <4>1, <4>2, <4>3 DEF Descriptors, OwnDescriptor
    <3>6. LostSound'
      BY <2>2, <2>3, <3>1, <3>2 DEF Descriptors, LostSound, OnlyDisconnectsLeak, TypeOK, NoFd
    <3>7. OnlyDisconnectsLeak'
      <4>1. d \notin lost
        BY <2>1 DEF Descriptors, LostSound
      <4>2. {Descriptor(b) : b \in Clients}' \ {NoFd} = {Descriptor(b) : b \in Clients} \ {NoFd, d}
        BY <2>1, <2>3, <3>1, <3>4
      <4>3. (Fds \ Free)' = (Fds \ Free) \ {d}
        BY <3>2 DEF Free
      <4> QED
        BY <2>2, <4>1, <4>2, <4>3 DEF Descriptors, OnlyDisconnectsLeak
    <3> QED
      BY <3>5, <3>6, <3>7 DEF Descriptors
  <2>6. CASE ~last
    <3>1. /\ open_files' = open_files /\ Descriptor(c)' = Descriptor(c)
          /\ Sent(c)' = k /\ Sent(c) = k
          /\ download'[c].filename = download[c].filename
      BY <2>1, <2>2, <2>6 DEF CountPacket, Descriptor, Starting, Sent, Download_Status
    <3> HIDE DEF k, last
    <3>2. \A b \in Clients : /\ Descriptor(b)' = Descriptor(b) /\ Sent(b)' = Sent(b)
                             /\ download'[b].filename = download[b].filename
      BY <2>3, <3>1
    <3> QED
      BY <2>2, <2>4, <3>1, <3>2, DescriptorsFrame DEF Descriptors, OwnDescriptor
  <2> QED
    BY <2>5, <2>6
<1> QED
  BY <1>1, <1>2, <1>3, <1>4 DEF Progress

----------------------------------------------------------------------------
(* The theorems. *)

\* Nothing is open at the start.
LEMMA InitSound == Init => IInv
<1> SUFFICES ASSUME Init PROVE IInv
  OBVIOUS
<1> USE FilesAssumption DEF Init, Ready, Fresh, NoFd
<1>1. TypeOK
  BY DEF TypeOK, Download_Status, Closed
<1>2. Progress
  BY DEF Progress, StartSound, BeginSound, ResumeSound, RunningSound, ServicesSound,
         Starting, Client
<1>3. \A c \in Clients : Descriptor(c) = NoFd
  BY DEF Descriptor, Starting
<1>4. Descriptors
  BY <1>3 DEF Descriptors, OwnDescriptor, OnlyDisconnectsLeak, LostSound, Free
<1> QED
  BY <1>1, <1>2, <1>4 DEF IInv

\* Each step keeps the invariant.
LEMMA StepSound == ~Preempted /\ IInv /\ [Next]_vars => IInv'
<1> SUFFICES ASSUME ~Preempted, IInv, [Next]_vars PROVE IInv'
  OBVIOUS
<1>1. CASE Started
  BY <1>1, StoreInProgressKeeps, StoreIndexKeeps, StoreDescriptorKeeps, ReopenKeeps, SeekKeeps
     DEF Started
<1>2. ASSUME NEW c \in Clients,
             \/ Connect(c) \/ Resume(c) \/ Disconnect(c)
             \/ FileNotFound(c) \/ start_download(c)
      PROVE  IInv'
  BY <1>2, ConnectKeeps, ResumeKeeps, DisconnectKeeps, FileNotFoundKeeps, BeginKeeps
<1>3. ASSUME NEW c \in Clients, SendPacket(c) \/ CountPacket(c) PROVE IInv'
  BY <1>3, SendKeeps, CountKeeps
<1>4. CASE UNCHANGED vars
  <2> USE <1>4 DEF vars
  <2>1. TypeOK'
    BY DEF IInv, TypeOK
  <2>2. Progress'
    BY DEF IInv, Progress, StartSound, BeginSound, ResumeSound, RunningSound,
           ServicesSound, Starting, Sent, Client
  <2>3. Descriptors'
    BY DEF IInv, Descriptors, OwnDescriptor, OnlyDisconnectsLeak, LostSound,
           Descriptor, Starting, Sent, Free
  <2> QED
    BY <2>1, <2>2, <2>3 DEF IInv
<1> QED
  BY <1>1, <1>2, <1>3, <1>4 DEF Next, MainThread

\* When the services thread does not look at a client between the stores that start
\* or resume its download, each download stands where the main thread and the
\* services thread left it, and its descriptor with it.
THEOREM Invariance ==
  ASSUME ~Preempted
  PROVE  Spec => []IInv
<1>1. Init => IInv
  BY InitSound
<1>2. IInv /\ [Next]_vars => IInv'
  BY StepSound
<1> QED
  BY <1>1, <1>2, PTL DEF Spec

\* The records, the kernel's descriptors and the threads' positions keep their types,
\* and no packet is counted past the last one of a download in progress.
THEOREM TypeCorrect ==
  ASSUME ~Preempted
  PROVE  Spec => []TypeOK
<1>1. IInv => TypeOK
  BY DEF IInv
<1> QED
  BY <1>1, Invariance, PTL

\* The descriptor a download reads from is open on its own file at the next packet,
\* and no other client's download reads from it.
THEOREM DescriptorsOwned ==
  ASSUME ~Preempted
  PROVE  Spec => []OwnDescriptor
<1>1. IInv => OwnDescriptor
  BY DEF IInv, Descriptors
<1> QED
  BY <1>1, Invariance, PTL

\* A descriptor that is open without a download was lost by a disconnection.
THEOREM LeaksAreDisconnects ==
  ASSUME ~Preempted
  PROVE  Spec => []OnlyDisconnectsLeak
<1>1. IInv => OnlyDisconnectsLeak
  BY DEF IInv, Descriptors
<1> QED
  BY <1>1, Invariance, PTL

----------------------------------------------------------------------------
(* Each step is one of FileTransfer, or none. *)

\* What a transfer shows of a client.
Shown(c) == <<Getting(c), Has(c)>>

\* A step that shows nothing new is a stutter.
LEMMA Nothing ==
  ASSUME UNCHANGED connected, \A b \in Clients : Shown(b)' = Shown(b)
  PROVE  UNCHANGED Transfer!vars
<1>1. \A b \in Clients : Getting(b)' = Getting(b) /\ Has(b)' = Has(b)
  BY DEF Shown
<1> QED
  BY <1>1 DEF Transfer!vars

\* A step that shows nothing new but the arrival of a client.
LEMMA Arrives ==
  ASSUME NEW c \in Clients, c \notin connected, connected' = connected \cup {c},
         \A b \in Clients : Shown(b)' = Shown(b)
  PROVE  Transfer!Next
<1>1. \A b \in Clients : Getting(b)' = Getting(b) /\ Has(b)' = Has(b)
  BY DEF Shown
<1>2. Transfer!Connect(c)
  BY <1>1 DEF Transfer!Connect
<1> QED
  BY <1>2 DEF Transfer!Next

\* A file is opened for a client that was getting none.
LEMMA Begins ==
  ASSUME NEW c \in Clients, c \in connected, UNCHANGED connected,
         NEW f \in Files, NEW i \in 0 .. Packets(f),
         Getting(c) = None, Getting(c)' = f, Has(c)' = Preceding(f, i),
         \A b \in Clients \ {c} : Shown(b)' = Shown(b)
  PROVE  Transfer!Next
<1>1. \A b \in Clients \ {c} : Getting(b)' = Getting(b) /\ Has(b)' = Has(b)
  BY DEF Shown
<1>2. Packets(f) \in Nat
  BY PacketsCover
<1>3. /\ Preceding(f, i) <= size[f]
      /\ Preceding(f, i) \in UNION {{Preceding(g, j) : j \in 0 .. Packets(g)} : g \in Files}
  BY <1>2, PositionInFile
<1>4. [b \in Clients |-> Getting(b)]' = [[b \in Clients |-> Getting(b)] EXCEPT ![c] = f]
  BY <1>1
<1>5. [b \in Clients |-> Has(b)]' = [[b \in Clients |-> Has(b)] EXCEPT ![c] = Preceding(f, i)]
  BY <1>1
<1>6. Transfer!Begin(c)
  BY <1>3, <1>4, <1>5 DEF Transfer!Begin
<1> QED
  BY <1>6 DEF Transfer!Next

\* A client stops getting its file, if it was getting one.
LEMMA Stops ==
  ASSUME NEW c \in Clients, ~Promised(c)',
         \A b \in Clients \ {c} : Shown(b)' = Shown(b)
  PROVE  Transfer!Stop(c)
<1>1. \A b \in Clients \ {c} : Getting(b)' = Getting(b) /\ Has(b)' = Has(b)
  BY DEF Shown
<1>2. Getting(c)' = None /\ Has(c)' = 0
  BY DEF Promised, Getting, Has
<1> QED
  BY <1>1, <1>2 DEF Transfer!Stop

\* What the steps of the main thread are in a transfer.
LEMMA MainSteps ==
  ASSUME ~Preempted, IInv, MainThread
  PROVE  [Transfer!Next]_Transfer!vars
<1> USE FilesAssumption DEF IInv, Progress
<1>1. ASSUME NEW c \in Clients, Connect(c) PROVE Transfer!Next
  <2>1. \A b \in Clients : Shown(b)' = Shown(b)
    BY <1>1 DEF Connect, Shown, Promised, Getting, Has, Descriptor, Starting
  <2> QED
    BY <1>1, <2>1, Arrives DEF Connect
<1>2. ASSUME NEW c \in Clients, Resume(c) PROVE Transfer!Next
  <2>1. Descriptor(c) = NoFd /\ Descriptor(c)' = NoFd
    BY <1>2 DEF Resume, RunningSound, Descriptor, Starting, Ready
  <2>2. \A b \in Clients \ {c} : /\ download'[b] = download[b] /\ got'[b] = got[b]
                                 /\ Descriptor(b)' = Descriptor(b)
    BY <1>2 DEF Resume, Descriptor, Starting, Ready, TypeOK
  <2>3. \A b \in Clients : Shown(b)' = Shown(b)
    BY <2>1, <2>2 DEF Shown, Promised, Getting, Has
  <2> QED
    BY <1>2, <2>3, Arrives DEF Resume
<1>3. ASSUME NEW c \in Clients, Disconnect(c) PROVE Transfer!Next
  <2>1. Descriptor(c)' = NoFd
    BY <1>3 DEF Disconnect, Descriptor, Starting, Ready, Fresh, TypeOK
  <2>2. \A b \in Clients \ {c} : /\ download'[b] = download[b] /\ got'[b] = got[b]
                                 /\ Descriptor(b)' = Descriptor(b)
    BY <1>3 DEF Disconnect, Descriptor, Starting, TypeOK
  <2>3. \A b \in Clients \ {c} : Shown(b)' = Shown(b)
    BY <2>2 DEF Shown, Promised, Getting, Has
  <2> QED
    BY <1>3, <2>1, <2>3, Stops DEF Promised, Disconnect, Transfer!Disconnect, Transfer!Next
<1>4. ASSUME NEW c \in Clients, FileNotFound(c) PROVE UNCHANGED Transfer!vars
  <2>1. Descriptor(c) = NoFd /\ Descriptor(c)' = NoFd
    BY <1>4 DEF FileNotFound, Descriptor, Starting, Ready, TypeOK, Download_Status
  <2>2. \A b \in Clients \ {c} : /\ download'[b] = download[b] /\ got'[b] = got[b]
                                 /\ Descriptor(b)' = Descriptor(b)
    BY <1>4 DEF FileNotFound, Descriptor, Starting, TypeOK
  <2>3. \A b \in Clients : Shown(b)' = Shown(b)
    BY <2>1, <2>2 DEF Shown, Promised, Getting, Has
  <2> QED
    BY <1>4, <2>3, Nothing DEF FileNotFound
<1>5. ASSUME NEW c \in Clients, start_download(c) PROVE [Transfer!Next]_Transfer!vars
  <2>1. PICK f \in Files, d \in Fds \cup {NoFd} :
          /\ download' = [download EXCEPT ![c].filename = f,
                                          ![c].number_of_packets = Packets(f)]
          /\ main' = [at |-> "in_progress", client |-> c, fd |-> d]
    BY <1>5 DEF start_download
  <2>2. /\ Descriptor(c) = NoFd /\ Descriptor(c)' = d
        /\ download'[c].filename = f /\ got'[c] = 0
        /\ download'[c].number_of_packets = Packets(f)
    BY <1>5, <2>1 DEF start_download, Descriptor, Starting, Ready, TypeOK, Download_Status
  <2>3. \A b \in Clients \ {c} : /\ download'[b] = download[b] /\ got'[b] = got[b]
                                 /\ Descriptor(b)' = Descriptor(b)
    BY <1>5, <2>1 DEF start_download, Descriptor, Starting, Ready, TypeOK
  <2>4. \A b \in Clients \ {c} : Shown(b)' = Shown(b)
    BY <2>3 DEF Shown, Promised, Getting, Has
  <2>5. CASE d = NoFd
    <3>1. Shown(c)' = Shown(c)
      BY <2>2, <2>5 DEF Shown, Promised, Getting, Has
    <3> QED
      BY <1>5, <2>4, <3>1, Nothing DEF start_download
  <2>6. CASE d # NoFd
    <3>1. /\ Getting(c)' = f /\ Has(c)' = Preceding(f, 0) /\ 0 \in 0 .. Packets(f)
          /\ Getting(c) = None
      BY <2>2, <2>6, PacketsCover, PositionInFile DEF Promised, Getting, Has
    <3> QED
      BY <1>5, <2>2, <2>4, <3>1, Begins DEF start_download
  <2> QED
    BY <2>5, <2>6
<1>6. ASSUME StoreInProgress \/ StoreIndex \/ StoreDescriptor \/ Seek
      PROVE  UNCHANGED Transfer!vars
  <2>1. PICK c \in Clients : c = main.client
    BY <1>6 DEF StoreInProgress, StoreIndex, StoreDescriptor, Seek, StartSound, Client, TypeOK
  <2>2. /\ Descriptor(c)' = Descriptor(c) /\ download'[c].filename = download[c].filename
        /\ download'[c].number_of_packets = download[c].number_of_packets
    BY <1>6, <2>1 DEF StoreInProgress, StoreIndex, StoreDescriptor, Seek, StartSound, BeginSound,
       ResumeSound, Client, Starting, Descriptor, Ready, TypeOK, Download_Status
  <2>3. \A b \in Clients \ {c} : /\ download'[b] = download[b]
                                 /\ Descriptor(b)' = Descriptor(b)
    BY <1>6, <2>1 DEF StoreInProgress, StoreIndex, StoreDescriptor, Seek, Descriptor, Starting,
       Ready, TypeOK
  <2>4. UNCHANGED <<connected, got>>
    BY <1>6 DEF StoreInProgress, StoreIndex, StoreDescriptor, Seek
  <2>5. \A b \in Clients : Shown(b)' = Shown(b)
    BY <2>2, <2>3, <2>4 DEF Shown, Promised, Getting, Has
  <2> QED
    BY <2>4, <2>5, Nothing
<1>7. ASSUME Reopen PROVE [Transfer!Next]_Transfer!vars
  <2>1. PICK c \in Clients, f \in Files, i \in Nat, n \in Nat :
          /\ i <= n /\ n = download[c].number_of_packets
          /\ c = main.client /\ c \in connected /\ f = download[c].filename
          /\ got[c] = Preceding(f, i) /\ main.fd = NoFd
    BY <1>7 DEF Reopen, StartSound, ResumeSound, Client, TypeOK, Download_Status
  <2>2. PICK d \in Fds \cup {NoFd} :
          /\ download' = [download EXCEPT ![c].file_descriptor = d]
          /\ main' = [main EXCEPT !.at = "lseek", !.fd = d]
    BY <1>7, <2>1 DEF Reopen
  <2>3. /\ Descriptor(c) = NoFd /\ Descriptor(c)' = d
        /\ download'[c].filename = f /\ download'[c].number_of_packets = n
        /\ UNCHANGED <<connected, got>>
    BY <1>7, <2>1, <2>2 DEF Reopen, Descriptor, Starting, TypeOK, Download_Status
  <2>4. \A b \in Clients \ {c} : Descriptor(b)' = Descriptor(b) /\ download'[b] = download[b]
    BY <2>1, <2>2 DEF Descriptor, Starting, TypeOK
  <2>5. \A b \in Clients \ {c} : Shown(b)' = Shown(b)
    BY <2>3, <2>4 DEF Shown, Promised, Getting, Has
  <2>6. CASE d = NoFd \/ n # Packets(f)
    <3>1. Shown(c)' = Shown(c)
      BY <2>1, <2>3, <2>6 DEF Shown, Promised, Getting, Has
    <3> QED
      BY <2>3, <2>5, <3>1, Nothing
  <2>7. CASE d # NoFd /\ n = Packets(f)
    <3>1. /\ Getting(c)' = f /\ Has(c)' = Preceding(f, i) /\ i \in 0 .. Packets(f)
          /\ Getting(c) = None
      BY <2>1, <2>3, <2>7 DEF Promised, Getting, Has
    <3> QED
      BY <2>1, <2>3, <2>5, <3>1, Begins
  <2> QED
    BY <2>6, <2>7
<1> QED
  BY <1>1, <1>2, <1>3, <1>4, <1>5, <1>6, <1>7 DEF MainThread, Started

\* What a packet is in a transfer.
LEMMA SendSteps ==
  ASSUME ~Preempted, IInv, NEW c \in Clients, SendPacket(c)
  PROVE  [Transfer!Next]_Transfer!vars
<1> DEFINE d == download[c].file_descriptor
           f == download[c].filename
           i == download[c].current_packet_index
           n == Preceding(f, i + 1)
<1>1. UNCHANGED <<connected, download, main>> /\ Descriptor(c) = d
  BY DEF SendPacket, Descriptor, Starting
<1>2. \A b \in Clients : Descriptor(b)' = Descriptor(b) /\ Getting(b)' = Getting(b)
  BY <1>1 DEF Descriptor, Starting, Promised, Getting
<1>3. CASE ~Promised(c)
  <2>1. \A b \in Clients \ {c} : got'[b] = got[b]
    BY DEF SendPacket, IInv, TypeOK
  <2>2. \A b \in Clients : Shown(b)' = Shown(b)
    BY <1>1, <1>2, <1>3, <2>1 DEF Shown, Promised, Has
  <2> QED
    BY <1>1, <2>2, Nothing
<1>4. CASE Promised(c)
  <2>0. d # NoFd
    BY <1>1, <1>4 DEF Promised
  <2>1. /\ f \in Files /\ i \in Nat /\ got[c] = Preceding(f, i)
        /\ n \in Nat /\ got' = [got EXCEPT ![c] = n]
    BY <2>0, PacketSent
  <2>2. Getting(c) = f /\ f # None /\ Has(c) = got[c]
    BY <1>1, <1>4, <2>1, FilesAssumption DEF Promised, Getting, Has
  <2>3. \A b \in Clients \ {c} : Has(b)' = Has(b)
    BY <1>1, <1>2, <2>1 DEF Promised, Has, IInv, TypeOK
  <2>4. Has(c)' = n
    BY <1>1, <1>2, <1>4, <2>1 DEF Promised, Has, IInv, TypeOK
  <2>5. got[c] <= n /\ n <= size[f] /\ size[f] \in Nat /\ got[c] \in Nat
    <3> HIDE DEF i, f
    <3>0. i + 1 \in Nat /\ i <= i + 1 /\ size[f] \in Nat
      BY <2>1, PacketsCover
    <3>1. Position(i) <= Position(i + 1) /\ Position(i) \in Nat /\ Position(i + 1) \in Nat
      BY <2>1, <3>0, Positions
    <3> QED
      BY <2>1, <3>0, <3>1 DEF Preceding, Least
  <2> HIDE DEF d, f, i, n
  <2>6. CASE n = got[c]
    <3>1. \A b \in Clients : Shown(b)' = Shown(b)
      BY <1>2, <2>2, <2>3, <2>4, <2>6 DEF Shown
    <3> QED
      BY <1>1, <3>1, Nothing
  <2>7. CASE n # got[c]
    <3>1. n \in got[c] + 1 .. size[f]
      BY <2>1, <2>5, <2>7
    <3>2. [b \in Clients |-> Has(b)]' = [[b \in Clients |-> Has(b)] EXCEPT ![c] = n]
      BY <2>3, <2>4
    <3>3. [b \in Clients |-> Getting(b)]' = [b \in Clients |-> Getting(b)]
      BY <1>2
    <3>4. Transfer!Receive(c)
      BY <1>1, <2>2, <3>1, <3>2, <3>3 DEF Transfer!Receive
    <3> QED
      BY <3>4 DEF Transfer!Next
  <2> QED
    BY <2>6, <2>7
<1> QED
  BY <1>3, <1>4

\* The count after the last packet is the end of the transfer.
LEMMA CountSteps ==
  ASSUME ~Preempted, IInv, NEW c \in Clients, CountPacket(c)
  PROVE  [Transfer!Next]_Transfer!vars
<1> DEFINE f == download[c].filename
           k == download[c].current_packet_index + 1
           last == k >= download[c].number_of_packets
<1>1. /\ UNCHANGED <<connected, main, got>>
      /\ download' = [download EXCEPT ![c].current_packet_index = k, ![c].in_progress = ~last]
  BY DEF CountPacket
<1>2. \A b \in Clients \ {c} : Descriptor(b)' = Descriptor(b) /\ download'[b] = download[b]
  BY <1>1 DEF Descriptor, Starting, IInv, TypeOK
<1>3. \A b \in Clients \ {c} : Shown(b)' = Shown(b)
  BY <1>1, <1>2 DEF Shown, Promised, Getting, Has, IInv, TypeOK
<1>4. /\ download[c].in_progress /\ ~Starting(c) /\ Sent(c) = k /\ k \in Nat
      /\ f \in Files
      /\ Descriptor(c) # NoFd => got[c] = Preceding(f, k)
  BY FilesAssumption
     DEF IInv, TypeOK, Download_Status, Progress, ServicesSound, RunningSound, CountPacket, Sent,
         Descriptor
<1>5. CASE last
  <2>1. Descriptor(c)' = NoFd
    BY <1>1, <1>4, <1>5 DEF Descriptor, Starting, IInv, TypeOK, Download_Status
  <2>2. Transfer!Stop(c)
    BY <1>3, <2>1, Stops DEF Promised
  <2>3. CASE ~Promised(c)
    <3>1. Shown(c)' = Shown(c)
      BY <2>1, <2>3 DEF Shown, Promised, Getting, Has
    <3> QED
      BY <1>1, <1>3, <3>1, Nothing
  <2>4. CASE Promised(c)
    <3>1. k >= Packets(f)
      BY <1>5, <2>4 DEF Promised
    <3>2. got[c] = size[f]
      BY <1>4, <2>4, <3>1, PositionInFile DEF Promised
    <3>3. Getting(c) = f /\ Has(c) = size[f] /\ f # None
      BY <1>4, <2>4, <3>2, FilesAssumption DEF Promised, Getting, Has
    <3>4. Transfer!End(c)
      BY <1>1, <2>2, <3>3 DEF Transfer!End
    <3> QED
      BY <3>4 DEF Transfer!Next
  <2> QED
    BY <2>3, <2>4
<1>6. CASE ~last
  <2>1. /\ Descriptor(c)' = Descriptor(c) /\ download'[c].filename = f
        /\ download'[c].number_of_packets = download[c].number_of_packets
    BY <1>1, <1>4, <1>6 DEF Descriptor, Starting, IInv, TypeOK, Download_Status
  <2>2. Shown(c)' = Shown(c)
    BY <1>1, <2>1 DEF Shown, Promised, Getting, Has
  <2> QED
    BY <1>1, <1>3, <2>2, Nothing
<1> QED
  BY <1>5, <1>6

\* Whatever the files, the packet size and the number of descriptors, and whatever
\* the other downloads do, a client gets its file piece by piece and in order, and a
\* download that ends has sent all of it.
THEOREM Implementation ==
  ASSUME ~Preempted
  PROVE  Spec => ImplementsTransfer
<1>1. Init => Transfer!Init
  <2> SUFFICES ASSUME Init PROVE Transfer!Init
    OBVIOUS
  <2>1. \A c \in Clients : Descriptor(c) = NoFd
    BY FilesAssumption DEF Init, Descriptor, Starting, Ready, Fresh
  <2>2. \A c \in Clients : Getting(c) = None /\ Has(c) = 0
    BY <2>1 DEF Promised, Getting, Has
  <2> QED
    BY <2>2 DEF Init, Transfer!Init
<1>2. IInv /\ [Next]_vars => [Transfer!Next]_Transfer!vars
  <2> SUFFICES ASSUME IInv, [Next]_vars PROVE [Transfer!Next]_Transfer!vars
    OBVIOUS
  <2>1. CASE UNCHANGED vars
    <3>1. \A b \in Clients : Shown(b)' = Shown(b)
      BY <2>1 DEF vars, Shown, Promised, Getting, Has, Descriptor, Starting
    <3> QED
      BY <2>1, <3>1, Nothing DEF vars
  <2> QED
    BY <2>1, MainSteps, SendSteps, CountSteps DEF Next
<1> QED
  BY <1>1, <1>2, Invariance, PTL DEF Spec, Transfer!Spec, ImplementsTransfer
=================================================================================
