-------------------------------- MODULE Handover --------------------------------
(***************************************************************************)
(* UEs that are handed over in the middle of a download from one eNodeB,   *)
(* the source, to the one at the other end of its X2 link, the target.     *)
(*                                                                         *)
(* A UE's session travels over the X2 link; the UE itself is told to move  *)
(* on its own connection, reconnects, and names the session by the c-rnti  *)
(* it had at the source, which is the descriptor of its socket there.      *)
(* Nothing synchronises the two ways.                                      *)
(***************************************************************************)
EXTENDS Integers, Sequences, FiniteSets

CONSTANTS
  UEs,        \* each attaches once; one that comes back is another UE
  Fds,        \* the source's descriptors
  None,
  Packets,    \* packets of the file that every UE downloads
  MaxInfos,   \* bound on the client infos on the way to their UEs
  MaxStarts   \* bound on the unread handover messages of a connection

ASSUME UEsAssumption == IsFiniteSet(UEs) /\ None \notin UEs
ASSUME FdsAssumption == Fds \subseteq Nat \ {0} /\ IsFiniteSet(Fds)
ASSUME BoundsAssumption ==
  Packets \in Nat \ {0} /\ MaxInfos \in Nat \ {0} /\ MaxStarts \in Nat \ {0}

\* What the source keeps of a client, and what goes to the target.
Records == [owner : UEs, index : 0 .. Packets]
Sessions == [c_rnti : Fds, owner : UEs, index : 0 .. Packets]

ASSUME NoneAssumption == None \notin Records \cup Sessions

\* The packets and the handover message on a connection; packets are numbered.
Start == -1
\* What a UE has that missed a packet.
Gap == -1

Ready == [at |-> "ready", fd |-> 0]

VARIABLES
  ue,        \* "new", "attached" to the source, "moving", "served" by the target,
             \* "refused" by it, or "gone"
  c_rnti,    \* the descriptor at the source that the UE was told
  got,       \* packets that the UE has, without a gap
  client,    \* the source's registry: the owner of a descriptor and the index of
             \* the next packet, or None
  down,      \* what the source wrote to a descriptor and the UE has not read
  sending,   \* the descriptor the services thread wrote a packet to that is not
             \* counted yet, or 0
  main,      \* the source's main thread in x2_handle_handover
  link,      \* "up" or "lost"
  x2,        \* client infos on the link
  waiting,   \* the target's reconnection buffer
  session,   \* the session the target resumed for a UE, or None
  robbed     \* history: UEs whose session the target gave to another UE

source == <<client, down, sending, main>>
vars == <<ue, c_rnti, got, source, link, x2, waiting, session, robbed>>

Init ==
  /\ ue = [u \in UEs |-> "new"]
  /\ c_rnti = [u \in UEs |-> 0]
  /\ got = [u \in UEs |-> 0]
  /\ client = [f \in Fds |-> None]
  /\ down = [f \in Fds |-> <<>>]
  /\ sending = 0
  /\ main = Ready
  /\ link = "up"
  /\ x2 = <<>>
  /\ waiting = <<>>
  /\ session = [u \in UEs |-> None]
  /\ robbed = {}

\* What a UE has after packet n; one that it has already changes nothing.
Receives(u, n) == IF n = got[u] THEN n + 1
                  ELSE IF n < got[u] THEN got[u] ELSE Gap

----------------------------------------------------------------------------
(* The source. *)

Free == {f \in Fds : client[f] = None}

\* The UE attaches, is told its descriptor, and starts a download.
Attach(u) ==
  /\ main = Ready
  /\ ue[u] = "new"
  /\ \E f \in Free :
       /\ \A g \in Free : f <= g
       /\ c_rnti' = [c_rnti EXCEPT ![u] = f]
       /\ client' = [client EXCEPT ![f] = [owner |-> u, index |-> 0]]
       /\ down' = [down EXCEPT ![f] = <<>>]
  /\ ue' = [ue EXCEPT ![u] = "attached"]
  /\ UNCHANGED <<got, sending, main, link, x2, waiting, session, robbed>>

\* Seeded fault: one packet too many is sent.
send_beyond(f) ==
  /\ sending = 0
  /\ client[f] # None /\ client[f].index <= Packets
  /\ down' = [down EXCEPT ![f] = Append(@, client[f].index)]
  /\ sending' = f
  /\ UNCHANGED <<ue, c_rnti, got, client, main, link, x2, waiting, session, robbed>>

\* handle_client_download: the packet is written, then counted.
SendPacket(f) ==
  /\ sending = 0
  /\ client[f] # None /\ client[f].index < Packets
  /\ down' = [down EXCEPT ![f] = Append(@, client[f].index)]
  /\ sending' = f
  /\ UNCHANGED <<ue, c_rnti, got, client, main, link, x2, waiting, session, robbed>>

CountPacket ==
  /\ sending # 0
  /\ client' = [client EXCEPT ![sending].index = @ + 1]
  /\ sending' = 0
  /\ UNCHANGED <<ue, c_rnti, got, down, main, link, x2, waiting, session, robbed>>

Starts(f) == {i \in DOMAIN down[f] : down[f][i] = Start}

\* A report of a weak signal, also a second one or one of a UE that is already
\* moving: x2_handle_handover copies the client's record onto the link. On a link
\* that is lost, as long as the source has not noticed, the copy goes nowhere, or
\* the write fails and the handover ends here.
SendInfo(f) ==
  /\ main = Ready
  /\ client[f] # None
  /\ Cardinality(Starts(f)) < MaxStarts
  /\ \/ /\ link = "up"
        /\ Len(x2) + Len(waiting) < MaxInfos
        /\ x2' = Append(x2, [c_rnti |-> f, owner |-> client[f].owner,
                             index |-> client[f].index])
        /\ main' = [at |-> "start", fd |-> f]
     \/ /\ link = "lost"
        /\ main' \in {[at |-> "start", fd |-> f], Ready}
        /\ UNCHANGED x2
  /\ UNCHANGED <<ue, c_rnti, got, client, down, sending, link, waiting, session,
                 robbed>>

\* The client is told to move, and stays registered; on a connection that another
\* thread closed meanwhile the write fails.
SendStart ==
  /\ main.at = "start"
  /\ down' = IF client[main.fd] = None THEN down
             ELSE [down EXCEPT ![main.fd] = Append(@, Start)]
  /\ main' = Ready
  /\ UNCHANGED <<ue, c_rnti, got, client, sending, link, x2, waiting, session, robbed>>

\* close_connection by any thread: the UE has left, does not answer pings, or the
\* console closes all. Not while the services thread is at this client, a race that
\* Registry is about. A UE that is attached loses what it has not read; one that
\* still reads it before it notices is the behaviour in which it read it earlier.
SourceClose(f) ==
  /\ client[f] # None /\ sending # f
  /\ ue' = [ue EXCEPT ![client[f].owner] = IF @ = "attached" THEN "gone" ELSE @]
  /\ client' = [client EXCEPT ![f] = None]
  /\ down' = [down EXCEPT ![f] = <<>>]
  /\ UNCHANGED <<c_rnti, got, sending, main, link, x2, waiting, session, robbed>>

----------------------------------------------------------------------------
(* The UEs and the link. *)

\* A UE told to move leaves what follows on the connection.
ReadStream(u) ==
  /\ ue[u] = "attached"
  /\ down[c_rnti[u]] # <<>>
  /\ LET m == Head(down[c_rnti[u]])
     IN  IF m = Start
         THEN ue' = [ue EXCEPT ![u] = "moving"] /\ UNCHANGED got
         ELSE got' = [got EXCEPT ![u] = Receives(u, m)] /\ UNCHANGED ue
  /\ down' = [down EXCEPT ![c_rnti[u]] = Tail(@)]
  /\ UNCHANGED <<c_rnti, client, sending, main, link, x2, waiting, session, robbed>>

\* The UE switches itself off, told to move or not.
Leave(u) ==
  /\ ue[u] \in {"attached", "moving"}
  /\ ue' = [ue EXCEPT ![u] = "gone"]
  /\ UNCHANGED <<c_rnti, got, source, link, x2, waiting, session, robbed>>

LinkLost ==
  /\ link = "up"
  /\ link' = "lost"
  /\ x2' = <<>>
  /\ UNCHANGED <<ue, c_rnti, got, source, waiting, session, robbed>>

----------------------------------------------------------------------------
(* The target. *)

\* Seeded fault: the buffer keeps only the last client.
store_last ==
  /\ x2 # <<>>
  /\ waiting' = <<Head(x2)>>
  /\ x2' = Tail(x2)
  /\ UNCHANGED <<ue, c_rnti, got, source, link, session, robbed>>

\* x2_recive_client_info.
ReceiveInfo ==
  /\ x2 # <<>>
  /\ waiting' = Append(waiting, Head(x2))
  /\ x2' = Tail(x2)
  /\ UNCHANGED <<ue, c_rnti, got, source, link, session, robbed>>

Matches(u) == {i \in DOMAIN waiting : waiting[i].c_rnti = c_rnti[u]}

\* Seeded fault: the newest match is taken.
Match_last(u, i) == i \in Matches(u) /\ \A j \in Matches(u) : j <= i

\* get_reconnection_client takes the oldest one.
Match(u, i) == i \in Matches(u) /\ \A j \in Matches(u) : i <= j

Reconnect(u) ==
  /\ ue[u] = "moving"
  /\ \E i \in DOMAIN waiting :
       /\ Match(u, i)
       /\ session' = [session EXCEPT ![u] = waiting[i]]
       /\ waiting' = SubSeq(waiting, 1, i - 1) \o SubSeq(waiting, i + 1, Len(waiting))
       /\ robbed' = robbed \cup ({waiting[i].owner} \ {u})
  /\ ue' = [ue EXCEPT ![u] = "served"]
  /\ UNCHANGED <<c_rnti, got, source, link, x2>>

\* The UE's info is not there, or not yet.
Refuse(u) ==
  /\ ue[u] = "moving"
  /\ Matches(u) = {}
  /\ ue' = [ue EXCEPT ![u] = "refused"]
  /\ UNCHANGED <<c_rnti, got, source, link, x2, waiting, session, robbed>>

\* Seeded fault: the last packet is held back.
target_sends_short(u) ==
  /\ ue[u] = "served" /\ session[u].index < Packets - 1
  /\ got' = [got EXCEPT ![u] = Receives(u, session[u].index)]
  /\ session' = [session EXCEPT ![u].index = @ + 1]
  /\ UNCHANGED <<ue, c_rnti, source, link, x2, waiting, robbed>>

\* The target's services thread goes on from the index in the session.
TargetSends(u) ==
  /\ ue[u] = "served" /\ session[u].index < Packets
  /\ got' = [got EXCEPT ![u] = Receives(u, session[u].index)]
  /\ session' = [session EXCEPT ![u].index = @ + 1]
  /\ UNCHANGED <<ue, c_rnti, source, link, x2, waiting, robbed>>

----------------------------------------------------------------------------
Source == \/ CountPacket \/ SendStart
          \/ \E f \in Fds : SendPacket(f) \/ SendInfo(f) \/ SourceClose(f)
          \/ \E u \in UEs : Attach(u)

Target == \/ ReceiveInfo
          \/ \E u \in UEs : Reconnect(u) \/ Refuse(u) \/ TargetSends(u)

Environment == LinkLost \/ \E u \in UEs : ReadStream(u) \/ Leave(u)

Next == Source \/ Target \/ Environment

\* The target's services thread gets to each of its clients.
Spec == Init /\ [][Next]_vars /\ \A u \in UEs : WF_vars(TargetSends(u))

----------------------------------------------------------------------------
(* Properties. *)

TypeOK ==
  /\ ue \in [UEs -> {"new", "attached", "moving", "served", "refused", "gone"}]
  /\ c_rnti \in [UEs -> Fds \cup {0}]
  /\ got \in [UEs -> 0 .. Packets \cup {Gap}]
  /\ client \in [Fds -> Records \cup {None}]
  /\ down \in [Fds -> Seq(0 .. Packets - 1 \cup {Start})]
  /\ sending \in Fds \cup {0}
  /\ main \in [at : {"ready", "start"}, fd : Fds \cup {0}]
  /\ link \in {"up", "lost"}
  /\ x2 \in Seq(Sessions)
  /\ waiting \in Seq(Sessions)
  /\ session \in [UEs -> Sessions \cup {None}]
  /\ robbed \subseteq UEs

\* A UE served with its own session, none of whose infos went to another UE.
Own(u) == ue[u] = "served" /\ session[u].owner = u /\ u \notin robbed

\* No packet is missed over a handover, although the source goes on sending and
\* counting while it copies the record, and the UE does not read what was sent
\* after the message to move: the target resumes at a packet that the UE has, or
\* that is its next one.
NoGap ==
  \A u \in UEs :
    /\ ue[u] = "attached" => got[u] # Gap
    /\ Own(u) => got[u] # Gap /\ session[u].index <= got[u]

\* A UE is told to move only when its session is on its way: while the link is
\* up, the session of a UE that moves is on the link or in the target's buffer,
\* unless another UE with the same old c-rnti took it.
SessionKept ==
  \A u \in UEs :
    ue[u] = "moving" /\ link = "up" /\ u \notin robbed =>
      \E info \in {x2[i] : i \in DOMAIN x2} \cup {waiting[i] : i \in DOMAIN waiting} :
        info.owner = u /\ info.c_rnti = c_rnti[u]

\* A UE that the target serves gets the rest of its file.
Delivered ==
  \A u \in UEs : Own(u) ~> got[u] = Packets \/ u \in robbed

\* preambles.h calls the c-rnti a "Temporary ID assigned for this session to the
\* UE" (preambles.h:21): a UE that names its old c-rnti gets its own session.
OwnSession == \A u \in UEs : session[u] # None => session[u].owner = u
================================================================================
