----------------------------- MODULE HandoverProofs -----------------------------
(***************************************************************************)
(* The safety of the handover for every set of UEs and descriptors, any    *)
(* number of packets and any bounds: descriptors are reused, infos cross   *)
(* the UEs that they are about, and infos are given to the wrong UE.       *)
(***************************************************************************)
EXTENDS Handover, ListLemmas, TLAPS

\* The infos on their way, the oldest first.
Pending == waiting \o x2

\* A descriptor is its owner's as long as the source keeps it registered, and the
\* source keeps a client registered that is attached, or that a thread is at.
Registered ==
  /\ \A f \in Fds : client[f] # None =>
       ue[client[f].owner] # "new" /\ c_rnti[client[f].owner] = f
  /\ \A u \in UEs : ue[u] = "attached" =>
       c_rnti[u] \in Fds /\ client[c_rnti[u]] # None /\ client[c_rnti[u]].owner = u
  /\ main.at = "start" => main.fd \in Fds
  /\ main.at = "ready" => main = Ready
  /\ sending # 0 => client[sending] # None /\ client[sending].index < Packets

\* An info is about a UE that had the c-rnti in it.
Addressed ==
  /\ \A k \in DOMAIN Pending :
       ue[Pending[k].owner] # "new" /\ c_rnti[Pending[k].owner] = Pending[k].c_rnti
  /\ link = "lost" => x2 = <<>>

\* The packets that the source wrote to a descriptor.
Written(f) == client[f].index + IF sending = f THEN 1 ELSE 0

\* The packets among the messages s are those from g on, before n, in order.
Consecutive(s, g, n) ==
  /\ g <= n
  /\ \A i \in DOMAIN s : s[i] # Start => g <= s[i] /\ s[i] < n
  /\ \A i, j \in DOMAIN s : i < j /\ s[i] # Start /\ s[j] # Start => s[i] < s[j]
  /\ \A q \in g .. n - 1 : \E i \in DOMAIN s : s[i] = q

\* No message to move overtakes one of the packets from g on, before n.
Behind(s, g, n) ==
  \A j \in DOMAIN s : s[j] = Start =>
    \A q \in g .. n - 1 : \E i \in DOMAIN s : i < j /\ s[i] = q

\* The unread packets of a connection are those between what the UE has and what
\* was written; messages to move lie among them.
Stream(u) == Consecutive(down[c_rnti[u]], got[u], Written(c_rnti[u]))

Streams ==
  /\ \A u \in UEs : ue[u] \in {"new", "attached", "moving"} => got[u] # Gap
  /\ \A u \in UEs : ue[u] = "new" => got[u] = 0
  /\ \A u \in UEs : ue[u] = "attached" => Stream(u)

\* The oldest info of a UE.
First(u, k) ==
  /\ k \in DOMAIN Pending /\ Pending[k].owner = u
  /\ \A j \in DOMAIN Pending : j < k => Pending[j].owner # u

\* A UE that moves has the packets before n; one that is still to be told to move
\* reads them first.
InTime(u, n) ==
  /\ ue[u] = "moving" => n <= got[u]
  /\ ue[u] = "attached" =>
       n <= client[c_rnti[u]].index /\ Behind(down[c_rnti[u]], got[u], n)

Copied ==
  \A u \in UEs \ robbed : \A k \in DOMAIN Pending :
    First(u, k) => InTime(u, Pending[k].index)

\* The source is about to tell a UE to move, has told it, or the UE is moving.
Told(u) ==
  \/ ue[u] = "moving"
  \/ /\ ue[u] = "attached"
     /\ \/ main.at = "start" /\ main.fd = c_rnti[u]
        \/ \E i \in DOMAIN down[c_rnti[u]] : down[c_rnti[u]][i] = Start

\* An info goes ahead of every message to move.
Announced ==
  link = "up" =>
    \A u \in UEs \ robbed : Told(u) => \E k \in DOMAIN Pending : Pending[k].owner = u

\* The sessions that the target resumed.
Resumed ==
  \A u \in UEs :
    /\ ue[u] = "served" => session[u] # None
    /\ Own(u) => got[u] # Gap /\ session[u].index <= got[u]

\* The inductive invariant.
IInv ==
  TypeOK /\ Registered /\ Addressed /\ Streams /\ Copied /\ Announced /\ Resumed

----------------------------------------------------------------------------
(* How the steps change the list of pending infos. *)

\* The list is a sequence of sessions.
LEMMA PendingTyped ==
  ASSUME TypeOK
  PROVE  /\ Pending \in Seq(Sessions) /\ Len(Pending) \in Nat
         /\ DOMAIN Pending = 1 .. Len(Pending)
         /\ \A k \in DOMAIN Pending :
              Pending[k].owner \in UEs /\ Pending[k].index \in 0 .. Packets
         /\ Len(Pending) = Len(waiting) + Len(x2)
         /\ \A k \in 1 .. Len(waiting) : Pending[k] = waiting[k]
<1>1. waiting \in Seq(Sessions) /\ x2 \in Seq(Sessions)
  BY DEF TypeOK
<1>2. /\ Pending \in Seq(Sessions) /\ Len(Pending) \in Nat
      /\ DOMAIN Pending = 1 .. Len(Pending)
      /\ Len(Pending) = Len(waiting) + Len(x2)
      /\ \A k \in 1 .. Len(waiting) : Pending[k] = waiting[k]
  BY <1>1 DEF Pending
<1>3. \A k \in DOMAIN Pending : Pending[k] \in Sessions
  BY <1>2
<1> QED
  BY <1>2, <1>3 DEF Sessions

\* The target moves an info from the link to its buffer: the list is the same.
LEMMA PendingKept ==
  ASSUME TypeOK, ReceiveInfo
  PROVE  Pending' = Pending
<1>1. waiting \in Seq(Sessions) /\ x2 \in Seq(Sessions) /\ x2 # <<>>
  BY DEF TypeOK, ReceiveInfo
<1>2. Append(waiting, Head(x2)) \o Tail(x2) = waiting \o x2
  BY <1>1
<1> QED
  BY <1>2 DEF ReceiveInfo, Pending

\* The source adds an info at the end.
LEMMA PendingGrows ==
  ASSUME TypeOK, NEW info, x2' = Append(x2, info), UNCHANGED waiting
  PROVE  /\ Len(Pending') = Len(Pending) + 1
         /\ DOMAIN Pending' = 1 .. Len(Pending) + 1
         /\ \A k \in 1 .. Len(Pending) : Pending'[k] = Pending[k]
         /\ Pending'[Len(Pending) + 1] = info
<1>1. waiting \in Seq(Sessions) /\ x2 \in Seq(Sessions)
  BY DEF TypeOK
<1>2. Pending' = waiting \o Append(x2, info)
  BY DEF Pending
<1> QED
  BY <1>1, <1>2 DEF Pending

\* The target takes one out of its buffer.
LEMMA PendingLoses ==
  ASSUME TypeOK, NEW i \in DOMAIN waiting, UNCHANGED x2,
         waiting' = SubSeq(waiting, 1, i - 1) \o SubSeq(waiting, i + 1, Len(waiting))
  PROVE  /\ waiting' \in Seq(Sessions)
         /\ i \in DOMAIN Pending /\ Pending[i] = waiting[i]
         /\ Len(Pending') = Len(Pending) - 1
         /\ DOMAIN Pending' = 1 .. Len(Pending) - 1
         /\ \A k \in 1 .. Len(Pending) - 1 :
              Pending'[k] = IF k < i THEN Pending[k] ELSE Pending[k + 1]
<1>1. waiting \in Seq(Sessions) /\ x2 \in Seq(Sessions) /\ i \in 1 .. Len(waiting)
  BY DEF TypeOK
<1>2. Pending = waiting \o x2 /\ Pending' = waiting' \o x2
  BY DEF Pending
<1>3. /\ waiting' = [k \in 1 .. Len(waiting) - 1 |-> IF k < i THEN waiting[k] ELSE waiting[k + 1]]
      /\ waiting' \in Seq(Sessions) /\ Len(waiting') = Len(waiting) - 1
  BY <1>1, Removal
<1>4. /\ Len(Pending') = Len(Pending) - 1
      /\ Len(Pending) \in Nat /\ i \in 1 .. Len(Pending) /\ Pending[i] = waiting[i]
      /\ \A k \in 1 .. Len(Pending) - 1 :
           Pending'[k] = IF k < i THEN Pending[k] ELSE Pending[k + 1]
  BY ONLY <1>1, <1>2, <1>3, RemovalBefore
<1>5. Pending \in Seq(Sessions) /\ Pending' \in Seq(Sessions)
  BY <1>1, <1>2, <1>3, ConcatProperties
<1> QED
  BY <1>4, <1>5, <1>3, LenProperties

\* With the link the infos on it are lost, the end of the list.
LEMMA PendingCut ==
  ASSUME TypeOK, LinkLost
  PROVE  /\ Len(Pending') \in Nat /\ Len(Pending') <= Len(Pending)
         /\ DOMAIN Pending' = 1 .. Len(Pending')
         /\ \A k \in 1 .. Len(Pending') : Pending'[k] = Pending[k]
<1>1. waiting \in Seq(Sessions) /\ x2 \in Seq(Sessions)
  BY DEF TypeOK
<1>2. Pending' = waiting \o <<>>
  BY DEF Pending, LinkLost
<1>3. Pending' = waiting
  BY <1>1, <1>2
<1> QED
  BY <1>1, <1>3, PendingTyped

----------------------------------------------------------------------------
(* How the steps change the messages on a connection. *)

Messages == 0 .. Packets - 1 \cup {Start}

\* The services thread writes the next packet.
LEMMA PacketWritten ==
  ASSUME NEW s \in Seq(Messages), NEW g \in Nat, NEW n \in 0 .. Packets - 1
  PROVE  /\ Append(s, n) \in Seq(Messages)
         /\ Consecutive(s, g, n) => Consecutive(Append(s, n), g, n + 1)
         /\ \A k \in Nat : Behind(s, g, k) => Behind(Append(s, n), g, k)
<1> DEFINE r == Append(s, n)
<1>1. /\ n \in Nat /\ n # Start /\ n \in Messages /\ Len(s) \in Nat
      /\ DOMAIN s = 1 .. Len(s) /\ \A i \in 1 .. Len(s) : s[i] \in Messages
  BY BoundsAssumption DEF Messages, Start
<1>2. /\ r \in Seq(Messages) /\ DOMAIN r = 1 .. Len(s) + 1
      /\ \A i \in 1 .. Len(s) : r[i] = s[i]
      /\ r[Len(s) + 1] = n
  BY <1>1, AppendProperties
<1> HIDE DEF r
<1>3. ASSUME Consecutive(s, g, n) PROVE Consecutive(r, g, n + 1)
  <2>1. \A i \in DOMAIN r : i \in DOMAIN s \/ i = Len(s) + 1
    BY <1>1, <1>2
  <2>2. \A i \in DOMAIN r : r[i] # Start => g <= r[i] /\ r[i] < n + 1
    <3>1. \A i \in DOMAIN s : s[i] # Start => g <= s[i] /\ s[i] < n /\ s[i] \in Nat
      BY <1>1, <1>3 DEF Consecutive, Messages
    <3> QED
      BY <1>1, <1>2, <1>3, <2>1, <3>1 DEF Consecutive
  <2>3. ASSUME NEW i \in DOMAIN r, NEW j \in DOMAIN r, i < j, r[i] # Start, r[j] # Start
        PROVE  r[i] < r[j]
    <3>1. i \in DOMAIN s
      BY <1>1, <1>2, <2>3
    <3>2. CASE j \in DOMAIN s
      BY <1>1, <1>2, <1>3, <2>3, <3>1, <3>2 DEF Consecutive
    <3>3. CASE j = Len(s) + 1
      BY <1>1, <1>2, <1>3, <2>3, <3>1, <3>3 DEF Consecutive
    <3> QED
      BY <2>1, <3>2, <3>3
  <2>4. ASSUME NEW q \in g .. (n + 1) - 1 PROVE \E i \in DOMAIN r : r[i] = q
    <3>1. CASE q = n
      BY <1>1, <1>2, <3>1
    <3>2. CASE q # n
      <4>1. q \in g .. n - 1
        BY <1>1, <3>2
      <4>2. PICK i \in DOMAIN s : s[i] = q
        BY <1>3, <4>1 DEF Consecutive
      <4> QED
        BY <1>1, <1>2, <4>2
    <3> QED
      BY <3>1, <3>2
  <2>5. g <= n + 1
    BY <1>1, <1>3 DEF Consecutive
  <2> QED
    BY <2>2, <2>3, <2>4, <2>5 DEF Consecutive
<1>4. ASSUME NEW k \in Nat, Behind(s, g, k) PROVE Behind(r, g, k)
  <2> SUFFICES ASSUME NEW j \in DOMAIN r, r[j] = Start, NEW q \in g .. k - 1
               PROVE  \E i \in DOMAIN r : i < j /\ r[i] = q
    BY DEF Behind
  <2>1. j \in DOMAIN s /\ s[j] = Start
    BY <1>1, <1>2
  <2>2. PICK i \in DOMAIN s : i < j /\ s[i] = q
    BY <1>4, <2>1 DEF Behind
  <2> QED
    BY <1>1, <1>2, <2>2
<1> QED
  BY <1>2, <1>3, <1>4 DEF r

\* The main thread writes a message to move, after all of the packets written.
LEMMA StartWritten ==
  ASSUME NEW s \in Seq(Messages), NEW g \in Nat, NEW n \in Nat, Consecutive(s, g, n)
  PROVE  /\ Append(s, Start) \in Seq(Messages)
         /\ Consecutive(Append(s, Start), g, n)
         /\ \A k \in 0 .. n : Behind(s, g, k) => Behind(Append(s, Start), g, k)
<1> DEFINE r == Append(s, Start)
<1>1. /\ Start \in Messages /\ Len(s) \in Nat
      /\ DOMAIN s = 1 .. Len(s) /\ \A i \in 1 .. Len(s) : s[i] \in Messages
  BY DEF Messages
<1>2. /\ r \in Seq(Messages) /\ DOMAIN r = 1 .. Len(s) + 1
      /\ \A i \in 1 .. Len(s) : r[i] = s[i]
      /\ r[Len(s) + 1] = Start
  BY <1>1, AppendProperties
<1> HIDE DEF r
<1>3. \A i \in DOMAIN r : r[i] # Start => i \in DOMAIN s
  BY <1>1, <1>2
<1>4. \A q : (\E i \in DOMAIN s : s[i] = q) => \E i \in DOMAIN r : r[i] = q
  BY <1>1, <1>2
<1>5. Consecutive(r, g, n)
  BY <1>1, <1>2, <1>3, <1>4 DEF Consecutive
<1>6. ASSUME NEW k \in 0 .. n, Behind(s, g, k) PROVE Behind(r, g, k)
  <2> SUFFICES ASSUME NEW j \in DOMAIN r, r[j] = Start, NEW q \in g .. k - 1
               PROVE  \E i \in DOMAIN r : i < j /\ r[i] = q
    BY DEF Behind
  <2>1. CASE j \in DOMAIN s
    <3>1. PICK i \in DOMAIN s : i < j /\ s[i] = q
      BY <1>1, <1>2, <1>6, <2>1 DEF Behind
    <3> QED
      BY <1>1, <1>2, <3>1
  <2>2. CASE j = Len(s) + 1
    <3>1. q \in g .. n - 1
      OBVIOUS
    <3>2. PICK i \in DOMAIN s : s[i] = q
      BY <3>1 DEF Consecutive
    <3> QED
      BY <1>1, <1>2, <2>2, <3>2
  <2> QED
    BY <1>1, <1>2, <2>1, <2>2
<1> QED
  BY <1>2, <1>5, <1>6 DEF r

\* The UE reads the oldest message: its next packet, or that it is to move.
LEMMA MessageRead ==
  ASSUME NEW s \in Seq(Messages), s # <<>>, NEW g \in Nat, NEW n \in Nat,
         Consecutive(s, g, n)
  PROVE  /\ Tail(s) \in Seq(Messages) /\ Head(s) \in Messages
         /\ Head(s) # Start =>
              /\ Head(s) = g
              /\ Consecutive(Tail(s), g + 1, n)
              /\ \A k \in Nat : Behind(s, g, k) => Behind(Tail(s), g + 1, k)
         /\ Head(s) = Start => \A k \in Nat : Behind(s, g, k) => k <= g
<1> DEFINE r == Tail(s)
<1>1. /\ Len(s) \in Nat /\ Len(s) >= 1 /\ DOMAIN s = 1 .. Len(s)
      /\ \A i \in 1 .. Len(s) : s[i] \in Messages
  OBVIOUS
<1>2. /\ r \in Seq(Messages) /\ DOMAIN r = 1 .. Len(s) - 1
      /\ \A i \in 1 .. Len(s) - 1 : r[i] = s[i + 1] /\ i + 1 \in 1 .. Len(s)
      /\ Head(s) = s[1]
  BY <1>1, HeadTailProperties
<1> HIDE DEF r
<1>3. ASSUME s[1] # Start PROVE s[1] = g /\ g < n
  <2>1. s[1] \in Nat /\ g <= s[1] /\ s[1] < n
    BY <1>1, <1>3 DEF Consecutive, Messages
  <2>2. PICK i \in 1 .. Len(s) : s[i] = g
    BY <1>1, <2>1 DEF Consecutive
  <2>3. CASE i = 1
    BY <2>1, <2>2, <2>3
  <2>4. CASE i # 1
    <3>1. s[1] < s[i]
      BY <1>1, <1>3, <2>2, <2>4 DEF Consecutive, Start
    <3> QED
      BY <2>1, <2>2, <3>1
  <2> QED
    BY <2>3, <2>4
<1>4. ASSUME s[1] # Start PROVE Consecutive(r, g + 1, n)
  <2>1. ASSUME NEW i \in DOMAIN r, r[i] # Start PROVE g + 1 <= r[i] /\ r[i] < n
    <3>1. i + 1 \in DOMAIN s /\ 1 < i + 1 /\ r[i] = s[i + 1] /\ s[i + 1] \in Nat
      BY <1>1, <1>2, <2>1 DEF Messages
    <3>2. 1 \in DOMAIN s /\ s[i + 1] # Start
      BY <1>1, <2>1, <3>1
    <3>3. s[1] < s[i + 1] /\ s[i + 1] < n
      BY <1>4, <3>1, <3>2 DEF Consecutive
    <3> QED
      BY <1>3, <1>4, <3>1, <3>3
  <2>2. ASSUME NEW i \in DOMAIN r, NEW j \in DOMAIN r, i < j, r[i] # Start, r[j] # Start
        PROVE  r[i] < r[j]
    <3>1. /\ i + 1 \in DOMAIN s /\ j + 1 \in DOMAIN s /\ i + 1 < j + 1
          /\ r[i] = s[i + 1] /\ r[j] = s[j + 1]
      BY <1>1, <1>2, <2>2
    <3> QED
      BY <2>2, <3>1 DEF Consecutive
  <2>3. ASSUME NEW q \in g + 1 .. n - 1 PROVE \E i \in DOMAIN r : r[i] = q
    <3>1. PICK i \in DOMAIN s : s[i] = q
      BY DEF Consecutive
    <3>2. i # 1 /\ i - 1 \in DOMAIN r /\ r[i - 1] = s[i]
      BY <1>1, <1>2, <1>3, <1>4, <3>1
    <3> QED
      BY <3>1, <3>2
  <2>4. g + 1 <= n
    BY <1>3, <1>4
  <2> QED
    BY <2>1, <2>2, <2>3, <2>4 DEF Consecutive
<1>5. ASSUME s[1] # Start, NEW k \in Nat, Behind(s, g, k) PROVE Behind(r, g + 1, k)
  <2> SUFFICES ASSUME NEW j \in DOMAIN r, r[j] = Start, NEW q \in g + 1 .. k - 1
               PROVE  \E i \in DOMAIN r : i < j /\ r[i] = q
    BY DEF Behind
  <2>1. j + 1 \in DOMAIN s /\ s[j + 1] = Start /\ q \in g .. k - 1
    BY <1>1, <1>2
  <2>2. PICK i \in DOMAIN s : i < j + 1 /\ s[i] = q
    BY <1>5, <2>1 DEF Behind
  <2>3. i # 1
    BY <1>3, <1>5, <2>2
  <2>4. i - 1 \in DOMAIN r /\ i - 1 < j /\ r[i - 1] = s[i]
    BY <1>1, <1>2, <2>2, <2>3
  <2> QED
    BY <2>2, <2>4
<1>6. ASSUME s[1] = Start, NEW k \in Nat, Behind(s, g, k) PROVE k <= g
  <2> SUFFICES ASSUME ~(k <= g) PROVE FALSE
    OBVIOUS
  <2>1. g \in g .. k - 1 /\ 1 \in DOMAIN s
    BY <1>1
  <2>2. PICK i \in DOMAIN s : i < 1
    BY <1>6, <2>1 DEF Behind
  <2> QED
    BY <1>1, <2>2
<1> QED
  BY <1>1, <1>2, <1>3, <1>4, <1>5, <1>6 DEF r

----------------------------------------------------------------------------
(* Each part of the invariant is kept. *)

\* Counting a packet, which is one of the file.
LEMMA RecordTyped ==
  /\ \A r \in Records : r.index < Packets =>
       [r EXCEPT !.index = r.index + 1] \in Records
  /\ \A r \in Sessions : r.index < Packets =>
       [r EXCEPT !.index = r.index + 1] \in Sessions
<1>1. ASSUME NEW r \in Records, r.index < Packets
      PROVE  [r EXCEPT !.index = r.index + 1] \in Records
  <2>1. r.index + 1 \in 0 .. Packets
    BY <1>1, BoundsAssumption DEF Records
  <2> QED
    BY <2>1 DEF Records
<1>2. ASSUME NEW r \in Sessions, r.index < Packets
      PROVE  [r EXCEPT !.index = r.index + 1] \in Sessions
  <2>1. r.index + 1 \in 0 .. Packets
    BY <1>2, BoundsAssumption DEF Sessions
  <2> QED
    BY <2>1 DEF Sessions
<1> QED
  BY <1>1, <1>2

\* Each step keeps the types.
LEMMA TypesStep ==
  ASSUME TypeOK, Registered, Resumed, [Next]_vars
  PROVE  TypeOK'
<1> USE FdsAssumption, BoundsAssumption, UEsAssumption DEF TypeOK, source, Ready
<1>1. ASSUME NEW u \in UEs, Attach(u) PROVE TypeOK'
  <2>1. [owner |-> u, index |-> 0] \in Records
    BY DEF Records
  <2> QED
    BY <1>1, <2>1 DEF Attach, Free
<1>2. ASSUME NEW f \in Fds, SendPacket(f) PROVE TypeOK'
  <2>1. client[f].index \in 0 .. Packets - 1
    BY <1>2 DEF SendPacket, Records
  <2>2. Append(down[f], client[f].index) \in Seq(0 .. Packets - 1 \cup {Start})
    BY <2>1
  <2> QED
    BY <1>2, <2>2 DEF SendPacket
<1>3. CASE CountPacket
  <2>1. client' \in [Fds -> Records \cup {None}]
    <3>1. sending \in Fds /\ client[sending] \in Records /\ client[sending].index < Packets
      BY <1>3 DEF CountPacket, Registered
    <3>2. [client[sending] EXCEPT !.index = client[sending].index + 1] \in Records
      BY <3>1, RecordTyped
    <3> QED
      BY <1>3, <3>1, <3>2 DEF CountPacket
  <2> QED
    BY <1>3, <2>1 DEF CountPacket
<1>4. ASSUME NEW f \in Fds, SendInfo(f) PROVE TypeOK'
  <2>1. x2' \in Seq(Sessions)
    <3> DEFINE info == [c_rnti |-> f, owner |-> client[f].owner, index |-> client[f].index]
    <3>1. info \in Sessions
      BY <1>4 DEF SendInfo, Sessions, Records
    <3>2. x2' = x2 \/ x2' = Append(x2, info)
      BY <1>4 DEF SendInfo
    <3>3. x2 \in Seq(Sessions) /\ Append(x2, info) \in Seq(Sessions)
      BY <3>1, AppendProperties
    <3> QED
      BY <3>2, <3>3
  <2> QED
    BY <1>4, <2>1 DEF SendInfo
<1>5. CASE SendStart
  <2>1. main.fd \in Fds
    BY <1>5 DEF SendStart, Registered
  <2>2. Append(down[main.fd], Start) \in Seq(0 .. Packets - 1 \cup {Start})
    <3>1. down[main.fd] \in Seq(0 .. Packets - 1 \cup {Start})
      BY <2>1
    <3> QED
      BY ONLY <3>1, AppendProperties
  <2> QED
    BY <1>5, <2>1, <2>2 DEF SendStart
<1>6. ASSUME NEW f \in Fds, SourceClose(f) PROVE TypeOK'
  <2>1. PICK u \in UEs : ue' = [ue EXCEPT ![u] = IF @ = "attached" THEN "gone" ELSE @]
    BY <1>6 DEF SourceClose, Records
  <2>2. client' = [client EXCEPT ![f] = None] /\ down' = [down EXCEPT ![f] = <<>>]
    BY <1>6 DEF SourceClose
  <2>3. ue' \in [UEs -> {"new", "attached", "moving", "served", "refused", "gone"}]
    BY <2>1
  <2>4. client' \in [Fds -> Records \cup {None}]
    BY <2>2
  <2>5. down' \in [Fds -> Seq(0 .. Packets - 1 \cup {Start})]
    BY <2>2
  <2> QED
    BY <1>6, <2>3, <2>4, <2>5 DEF SourceClose
<1>7. ASSUME NEW u \in UEs, ReadStream(u) PROVE TypeOK'
  <2>1. c_rnti[u] \in Fds
    BY <1>7 DEF ReadStream, Registered
  <2>2. down' \in [Fds -> Seq(0 .. Packets - 1 \cup {Start})]
    BY <1>7, <2>1 DEF ReadStream
  <2>3. ue' \in [UEs -> {"new", "attached", "moving", "served", "refused", "gone"}]
    <3>1. ue' = ue \/ ue' = [ue EXCEPT ![u] = "moving"]
      BY <1>7 DEF ReadStream
    <3> QED
      BY <3>1
  <2>4. got' \in [UEs -> 0 .. Packets \cup {Gap}]
    <3>1. Head(down[c_rnti[u]]) \in 0 .. Packets - 1 \cup {Start}
      <4>1. down[c_rnti[u]] \in Seq(0 .. Packets - 1 \cup {Start}) /\ down[c_rnti[u]] # <<>>
        BY <1>7, <2>1 DEF ReadStream
      <4> QED
        BY ONLY <4>1, HeadTailProperties
    <3>2. \A m \in 0 .. Packets - 1 : Receives(u, m) \in 0 .. Packets \cup {Gap}
      BY DEF Receives, Gap
    <3>3. got' = got \/ \E m \in 0 .. Packets - 1 : got' = [got EXCEPT ![u] = Receives(u, m)]
      BY <1>7, <3>1 DEF ReadStream
    <3>4. got \in [UEs -> 0 .. Packets \cup {Gap}]
      OBVIOUS
    <3> QED
      BY ONLY <3>2, <3>3, <3>4
  <2> QED
    BY <1>7, <2>2, <2>3, <2>4 DEF ReadStream
<1>8. ASSUME NEW u \in UEs, Leave(u) PROVE TypeOK'
  BY <1>8 DEF Leave
<1>9. CASE LinkLost
  BY <1>9 DEF LinkLost
<1>10. CASE ReceiveInfo
  BY <1>10 DEF ReceiveInfo
<1>11. ASSUME NEW u \in UEs, Reconnect(u) PROVE TypeOK'
  <2>1. PICK i \in DOMAIN waiting :
          /\ session' = [session EXCEPT ![u] = waiting[i]]
          /\ waiting' = SubSeq(waiting, 1, i - 1) \o SubSeq(waiting, i + 1, Len(waiting))
          /\ robbed' = robbed \cup ({waiting[i].owner} \ {u})
    BY <1>11 DEF Reconnect
  <2>2. waiting[i] \in Sessions /\ waiting[i].owner \in UEs
    <3>1. waiting[i] \in Sessions
      OBVIOUS
    <3> QED
      BY <3>1 DEF Sessions
  <2>3. waiting' \in Seq(Sessions)
    BY <1>11, <2>1, PendingLoses DEF Reconnect
  <2> QED
    BY <1>11, <2>1, <2>2, <2>3 DEF Reconnect
<1>12. ASSUME NEW u \in UEs, Refuse(u) PROVE TypeOK'
  BY <1>12 DEF Refuse
<1>13. ASSUME NEW u \in UEs, TargetSends(u) PROVE TypeOK'
  <2>1. session[u] \in Sessions /\ session[u].index \in 0 .. Packets - 1
    BY <1>13 DEF TargetSends, Resumed, Sessions
  <2>2. session' \in [UEs -> Sessions \cup {None}]
    <3>1. [session[u] EXCEPT !.index = session[u].index + 1] \in Sessions
      <4>1. session[u].index < Packets
        BY <2>1
      <4> QED
        BY ONLY <2>1, <4>1, RecordTyped
    <3> QED
      BY <1>13, <3>1 DEF TargetSends
  <2>3. got' \in [UEs -> 0 .. Packets \cup {Gap}]
    <3>1. \A m \in 0 .. Packets - 1 : Receives(u, m) \in 0 .. Packets \cup {Gap}
      BY DEF Receives, Gap
    <3> QED
      BY <1>13, <2>1, <3>1 DEF TargetSends
  <2> QED
    BY <1>13, <2>2, <2>3 DEF TargetSends
<1>14. CASE UNCHANGED vars
  BY <1>14 DEF vars
<1> QED
  BY <1>1, <1>2, <1>3, <1>4, <1>5, <1>6, <1>7, <1>8, <1>9, <1>10, <1>11, <1>12, <1>13, <1>14
     DEF Next, Source, Target, Environment

\* Each step keeps the source's registry and the c-rntis in agreement.
LEMMA RegisteredStep ==
  ASSUME TypeOK, Registered, [Next]_vars
  PROVE  Registered'
<1> USE FdsAssumption DEF Ready, source
<1>1. \A f \in Fds : client[f] # None => client[f] \in Records /\ client[f].owner \in UEs
  BY DEF TypeOK, Records
<1>2. ASSUME UNCHANGED <<c_rnti, client, sending, main>>,
             \A v \in UEs : /\ ue[v] # "new" => ue'[v] # "new"
                            /\ ue'[v] = "attached" => ue[v] = "attached"
      PROVE  Registered'
  BY <1>1, <1>2 DEF Registered
<1>3. ASSUME NEW u \in UEs, Attach(u) PROVE Registered'
  <2>1. PICK f \in Fds :
          /\ client[f] = None
          /\ c_rnti' = [c_rnti EXCEPT ![u] = f]
          /\ client' = [client EXCEPT ![f] = [owner |-> u, index |-> 0]]
    BY <1>3 DEF Attach, Free
  <2>2. [owner |-> u, index |-> 0] # None
    BY NoneAssumption, BoundsAssumption DEF Records
  <2> QED
    BY <1>1, <1>3, <2>1, <2>2 DEF Attach, TypeOK, Registered
<1>4. ASSUME NEW f \in Fds, SendPacket(f) PROVE Registered'
  BY <1>4 DEF SendPacket, Registered
<1>5. CASE CountPacket
  <2>1. /\ sending \in Fds /\ client[sending] \in Records /\ client[sending].index < Packets
        /\ client' = [client EXCEPT ![sending].index = client[sending].index + 1]
    BY <1>1, <1>5 DEF CountPacket, Registered, TypeOK
  <2>2. client'[sending] = [client[sending] EXCEPT !.index = client[sending].index + 1]
    BY <2>1 DEF TypeOK
  <2>3. client'[sending] \in Records /\ client'[sending].owner = client[sending].owner
    BY <2>1, <2>2, RecordTyped DEF Records
  <2>4. client'[sending] # None /\ client[sending] # None
    BY <2>1, <2>3, NoneAssumption
  <2>5. \A f \in Fds \ {sending} : client'[f] = client[f]
    BY <2>1 DEF TypeOK
  <2>6. \A f \in Fds : /\ client'[f] # None <=> client[f] # None
                       /\ client[f] # None => client'[f].owner = client[f].owner
    BY <2>3, <2>4, <2>5
  <2>7. UNCHANGED <<ue, c_rnti, main>> /\ sending' = 0
    BY <1>5 DEF CountPacket
  <2> QED
    BY <2>6, <2>7 DEF Registered
<1>6. ASSUME NEW f \in Fds, SendInfo(f) PROVE Registered'
  BY <1>6 DEF SendInfo, Registered
<1>7. CASE SendStart
  BY <1>7 DEF SendStart, Registered
<1>8. ASSUME NEW f \in Fds, SourceClose(f) PROVE Registered'
  <2>1. PICK u \in UEs : u = client[f].owner
    BY <1>1, <1>8 DEF SourceClose
  <2>2. /\ client[f] # None /\ sending # f /\ c_rnti[u] = f
        /\ ue' = [ue EXCEPT ![u] = IF @ = "attached" THEN "gone" ELSE @]
        /\ client' = [client EXCEPT ![f] = None] /\ UNCHANGED <<c_rnti, sending, main>>
    BY <1>8, <2>1 DEF SourceClose, Registered
  <2>3. \A v \in UEs : /\ ue[v] # "new" => ue'[v] # "new"
                       /\ ue'[v] = "attached" => ue[v] = "attached" /\ v # u
    BY <2>2 DEF TypeOK
  <2>4. \A g \in Fds : client'[g] = IF g = f THEN None ELSE client[g]
    BY <2>2 DEF TypeOK
  <2>5. \A v \in UEs : ue'[v] = "attached" => c_rnti[v] # f
    BY <2>1, <2>3 DEF Registered
  <2>6. sending # 0 => sending \in Fds
    BY DEF TypeOK
  <2> QED
    BY <1>1, <2>2, <2>3, <2>4, <2>5, <2>6 DEF Registered
<1>9. ASSUME NEW u \in UEs, ReadStream(u) PROVE Registered'
  <2>1. UNCHANGED <<c_rnti, client, sending, main>> /\ ue[u] = "attached"
    BY <1>9 DEF ReadStream
  <2>2. ue' = ue \/ ue' = [ue EXCEPT ![u] = "moving"]
    BY <1>9 DEF ReadStream
  <2> QED
    BY <1>2, <2>1, <2>2 DEF TypeOK
<1>10. ASSUME NEW u \in UEs, Leave(u) \/ Refuse(u) \/ Reconnect(u) \/ TargetSends(u)
       PROVE  Registered'
  <2>1. UNCHANGED <<c_rnti, client, sending, main>>
    BY <1>10 DEF Leave, Refuse, Reconnect, TargetSends
  <2>2. PICK p \in {"gone", "refused", "served", ue[u]} : ue' = [ue EXCEPT ![u] = p]
    BY <1>10 DEF Leave, Refuse, Reconnect, TargetSends, TypeOK
  <2> QED
    BY <1>2, <2>1, <2>2 DEF TypeOK
<1>11. CASE LinkLost \/ ReceiveInfo \/ UNCHANGED vars
  BY <1>2, <1>11 DEF LinkLost, ReceiveInfo, vars
<1> QED
  BY <1>3, <1>4, <1>5, <1>6, <1>7, <1>8, <1>9, <1>10, <1>11
     DEF Next, Source, Target, Environment

\* No step makes a UE new, and only a new one is told a c-rnti.
LEMMA Identity ==
  ASSUME TypeOK, [Next]_vars, NEW u \in UEs, ue[u] # "new"
  PROVE  ue'[u] # "new" /\ c_rnti'[u] = c_rnti[u]
<1> USE DEF TypeOK, source
<1>1. ASSUME NEW v \in UEs, Attach(v) PROVE ue'[u] # "new" /\ c_rnti'[u] = c_rnti[u]
  BY <1>1 DEF Attach
<1>2. ASSUME NEW v \in UEs, ReadStream(v) PROVE ue'[u] # "new" /\ c_rnti'[u] = c_rnti[u]
  <2>1. (ue' = ue \/ ue' = [ue EXCEPT ![v] = "moving"]) /\ UNCHANGED c_rnti
    BY <1>2 DEF ReadStream
  <2> QED
    BY <2>1
<1>3. ASSUME NEW v \in UEs, Reconnect(v) PROVE ue'[u] # "new" /\ c_rnti'[u] = c_rnti[u]
  <2>1. ue' = [ue EXCEPT ![v] = "served"] /\ UNCHANGED c_rnti
    BY <1>3 DEF Reconnect
  <2> QED
    BY <2>1
<1>4. ASSUME NEW v \in UEs, Leave(v) \/ Refuse(v) \/ TargetSends(v)
      PROVE  ue'[u] # "new" /\ c_rnti'[u] = c_rnti[u]
  BY <1>4 DEF Leave, Refuse, TargetSends
<1>5. CASE \/ CountPacket \/ SendStart \/ LinkLost \/ ReceiveInfo
           \/ \E f \in Fds : SendPacket(f) \/ SendInfo(f)
           \/ UNCHANGED vars
  BY <1>5 DEF CountPacket, SendStart, LinkLost, ReceiveInfo, SendPacket, SendInfo, vars
<1>6. ASSUME NEW f \in Fds, SourceClose(f) PROVE ue'[u] # "new" /\ c_rnti'[u] = c_rnti[u]
  BY <1>6 DEF SourceClose
<1> QED
  BY <1>1, <1>2, <1>3, <1>4, <1>5, <1>6 DEF Next, Source, Target, Environment

\* Each step keeps the infos addressed to a c-rnti that their UE had.
LEMMA AddressedStep ==
  ASSUME TypeOK, Registered, Addressed, [Next]_vars
  PROVE  Addressed'
<1>1. CASE UNCHANGED <<x2, waiting, link>>
  <2>1. Pending' = Pending
    BY <1>1 DEF Pending
  <2> QED
    BY <1>1, <2>1, PendingTyped, Identity DEF Addressed
<1>2. ASSUME NEW f \in Fds, SendInfo(f), ~UNCHANGED x2 PROVE Addressed'
  <2> DEFINE info == [c_rnti |-> f, owner |-> client[f].owner, index |-> client[f].index]
  <2>1. /\ x2' = Append(x2, info) /\ UNCHANGED <<ue, c_rnti, waiting, link>> /\ link = "up"
        /\ client[f] # None
    BY <1>2 DEF SendInfo
  <2>2. ue[info.owner] # "new" /\ c_rnti[info.owner] = info.c_rnti
    BY <2>1 DEF Registered
  <2> HIDE DEF info
  <2>3. \A k \in DOMAIN Pending' :
         Pending'[k] = info \/ (k \in DOMAIN Pending /\ Pending'[k] = Pending[k])
    BY <2>1, PendingGrows, PendingTyped
  <2> QED
    BY <2>1, <2>2, <2>3 DEF Addressed
<1>3. CASE LinkLost
  <2>1. /\ UNCHANGED <<ue, c_rnti>> /\ x2' = <<>>
        /\ \A k \in DOMAIN Pending' : k \in DOMAIN Pending /\ Pending'[k] = Pending[k]
    BY <1>3, PendingCut, PendingTyped DEF LinkLost
  <2> QED
    BY <2>1 DEF Addressed
<1>4. CASE ReceiveInfo
  <2>1. /\ Pending' = Pending /\ UNCHANGED <<ue, c_rnti, link>> /\ link # "lost"
    BY <1>4, PendingKept DEF ReceiveInfo, Addressed
  <2> QED
    BY <2>1 DEF Addressed
<1>5. ASSUME NEW u \in UEs, Reconnect(u) PROVE Addressed'
  <2>1. PICK i \in DOMAIN waiting :
          waiting' = SubSeq(waiting, 1, i - 1) \o SubSeq(waiting, i + 1, Len(waiting))
    BY <1>5 DEF Reconnect
  <2>2. UNCHANGED <<x2, link, c_rnti>>
    BY <1>5 DEF Reconnect
  <2>3. ASSUME NEW k \in DOMAIN Pending' PROVE \E l \in DOMAIN Pending : Pending'[k] = Pending[l]
    <3>1. /\ k \in 1 .. Len(Pending) - 1
          /\ Pending'[k] = IF k < i THEN Pending[k] ELSE Pending[k + 1]
      BY <2>1, <2>2, PendingLoses
    <3>2. k \in DOMAIN Pending /\ k + 1 \in DOMAIN Pending
      BY <3>1, PendingTyped
    <3> QED
      BY <3>1, <3>2
  <2> QED
    BY <2>2, <2>3, PendingTyped, Identity DEF Addressed
<1> QED
  BY <1>1, <1>2, <1>3, <1>4, <1>5
     DEF Next, Source, Target, Environment, Attach, SendPacket, CountPacket, SendInfo, SendStart,
         SourceClose, ReadStream, Leave, Refuse, TargetSends, vars

\* Of the attached UEs, a descriptor is at most one's.
LEMMA Owners ==
  ASSUME TypeOK, Registered
  PROVE  /\ \A f \in Fds : client[f] # None => client[f].owner \in UEs /\ client[f].index \in 0 .. Packets
         /\ \A u \in UEs : ue[u] = "attached" =>
              /\ c_rnti[u] \in Fds
              /\ client[c_rnti[u]] \in Records /\ client[c_rnti[u]].owner = u
              /\ down[c_rnti[u]] \in Seq(Messages)
              /\ Written(c_rnti[u]) \in Nat /\ client[c_rnti[u]].index <= Written(c_rnti[u])
         /\ \A u \in UEs : got[u] # Gap => got[u] \in Nat
<1>1. \A f \in Fds : client[f] # None => client[f] \in Records
  BY DEF TypeOK
<1>2. \A f \in Fds : client[f] # None => client[f].owner \in UEs /\ client[f].index \in 0 .. Packets
  BY <1>1 DEF Records
<1>3. ASSUME NEW f \in Fds, client[f] # None
      PROVE  Written(f) \in Nat /\ client[f].index <= Written(f)
  BY <1>2, <1>3, BoundsAssumption DEF Written
<1>4. \A u \in UEs : ue[u] = "attached" =>
         c_rnti[u] \in Fds /\ client[c_rnti[u]] # None /\ client[c_rnti[u]].owner = u
  BY DEF Registered
<1>5. \A f \in Fds : down[f] \in Seq(Messages)
  BY DEF TypeOK, Messages
<1>6. \A u \in UEs : got[u] # Gap => got[u] \in Nat
  BY DEF TypeOK
<1> QED
  BY <1>1, <1>2, <1>3, <1>4, <1>5, <1>6

\* The connections of the UEs that the source serves after a step: unchanged, or as
\* the step left the one connection that it is about.
LEMMA AttachedStep ==
  ASSUME TypeOK, Registered, [Next]_vars, NEW u \in UEs, ue'[u] = "attached", ue[u] # "new",
         NEW f, f = c_rnti[u]
  PROVE  /\ ue[u] = "attached" /\ c_rnti'[u] = f
         /\ \/ /\ down'[f] = down[f] /\ got'[u] = got[u] /\ client'[f].index = client[f].index
               /\ Written(f)' = Written(f)
            \/ /\ SendPacket(f) /\ got'[u] = got[u] /\ client'[f].index = client[f].index
               /\ Written(f) = client[f].index /\ Written(f)' = Written(f) + 1
               /\ down'[f] = Append(down[f], Written(f))
               /\ client[f].index \in 0 .. Packets - 1
            \/ /\ CountPacket /\ down'[f] = down[f] /\ got'[u] = got[u]
               /\ Written(f)' = Written(f) /\ client'[f].index = client[f].index + 1
            \/ /\ SendStart /\ main.fd = f
               /\ got'[u] = got[u] /\ client'[f].index = client[f].index
               /\ Written(f)' = Written(f)
               /\ down'[f] = Append(down[f], Start)
            \/ /\ ReadStream(u) /\ Head(down[f]) # Start /\ down[f] # <<>>
               /\ client'[f].index = client[f].index /\ Written(f)' = Written(f)
               /\ down'[f] = Tail(down[f]) /\ got'[u] = Receives(u, Head(down[f]))
<1> USE DEF source
<1>1. c_rnti'[u] = f
  BY Identity
<1>2. ue[u] = "attached"
  <2>1. ASSUME NEW v \in UEs, Attach(v) PROVE ue[u] = "attached"
    BY <2>1 DEF Attach, TypeOK
  <2>2. ASSUME NEW v \in UEs,
               Leave(v) \/ Reconnect(v) \/ Refuse(v) \/ TargetSends(v) \/ ReadStream(v)
        PROVE  ue[u] = "attached"
    <3>1. PICK p \in {"gone", "served", "refused", "moving", ue[v]} : ue' = [ue EXCEPT ![v] = p]
      BY <2>2 DEF Leave, Reconnect, Refuse, TargetSends, ReadStream, TypeOK
    <3> QED
      BY <3>1 DEF TypeOK
  <2>3. CASE UNCHANGED ue
    BY <2>3
  <2>4. ASSUME NEW g \in Fds, SourceClose(g) PROVE ue[u] = "attached"
    BY <2>4 DEF SourceClose, TypeOK
  <2> QED
    BY <2>1, <2>2, <2>3, <2>4
       DEF Next, Source, Target, Environment, SendPacket, CountPacket, SendInfo, SendStart,
           LinkLost, ReceiveInfo, vars
<1>3. /\ f \in Fds /\ f # 0 /\ client[f] \in Records /\ client[f] # None /\ client[f].owner = u
      /\ client[f].index \in Nat
  BY <1>2, Owners, FdsAssumption, NoneAssumption DEF Records
<1>4. \A v \in UEs \ {u} : ue[v] = "attached" => c_rnti[v] # f
  BY <1>3, Owners
<1> DEFINE Same == /\ down'[f] = down[f] /\ got'[u] = got[u] /\ client'[f].index = client[f].index
                   /\ Written(f)' = Written(f)
<1>5. ASSUME UNCHANGED <<down, got, client, sending>> PROVE Same
  BY <1>5 DEF Written
<1>6. ASSUME NEW v \in UEs, Attach(v) PROVE Same
  <2>1. PICK g \in Fds : /\ client[g] = None
                         /\ client' = [client EXCEPT ![g] = [owner |-> v, index |-> 0]]
                         /\ down' = [down EXCEPT ![g] = <<>>]
    BY <1>6 DEF Attach, Free
  <2> QED
    BY <1>3, <1>6, <2>1 DEF Attach, Written, TypeOK
<1>7. ASSUME NEW g \in Fds, SendPacket(g)
      PROVE  \/ Same
             \/ /\ g = f /\ got'[u] = got[u] /\ client'[f].index = client[f].index
                /\ Written(f) = client[f].index /\ Written(f)' = Written(f) + 1
                /\ down'[f] = Append(down[f], Written(f))
                /\ client[f].index \in 0 .. Packets - 1
  <2>1. /\ UNCHANGED <<got, client>> /\ sending = 0 /\ sending' = g
        /\ down' = [down EXCEPT ![g] = Append(down[g], client[g].index)]
        /\ client[g].index < Packets
    BY <1>7 DEF SendPacket
  <2>2. CASE g = f
    BY <1>3, <2>1, <2>2, BoundsAssumption DEF Written, TypeOK
  <2>3. CASE g # f
    BY <1>3, <2>1, <2>3 DEF Written, TypeOK
  <2> QED
    BY <2>2, <2>3
<1>8. ASSUME CountPacket
      PROVE  \/ Same
             \/ /\ down'[f] = down[f] /\ got'[u] = got[u] /\ Written(f)' = Written(f)
                /\ client'[f].index = client[f].index + 1
  <2>1. /\ UNCHANGED <<got, down>> /\ sending \in Fds /\ sending' = 0
        /\ client' = [client EXCEPT ![sending].index = client[sending].index + 1]
    BY <1>8 DEF CountPacket, TypeOK
  <2>2. CASE sending = f
    <3>1. client'[f].index = client[f].index + 1
      BY <1>3, <2>1, <2>2 DEF TypeOK, Records
    <3> QED
      BY <1>3, <2>1, <2>2, <3>1 DEF Written
  <2>3. CASE sending # f
    BY <1>3, <2>1, <2>3 DEF Written, TypeOK
  <2> QED
    BY <2>2, <2>3
<1>9. ASSUME SendStart
      PROVE  \/ Same
             \/ /\ main.fd = f
                /\ got'[u] = got[u] /\ client'[f].index = client[f].index /\ Written(f)' = Written(f)
                /\ down'[f] = Append(down[f], Start)
  BY <1>3, <1>9 DEF SendStart, Written, TypeOK
<1>10. ASSUME NEW g \in Fds, SourceClose(g) PROVE Same
  <2>1. g # f
    BY <1>3, <1>10 DEF SourceClose, TypeOK
  <2> QED
    BY <1>3, <1>10, <2>1 DEF SourceClose, Written, TypeOK
<1>11. ASSUME NEW v \in UEs, ReadStream(v)
       PROVE  \/ Same
              \/ /\ v = u /\ Head(down[f]) # Start /\ down[f] # <<>>
                 /\ client'[f].index = client[f].index /\ Written(f)' = Written(f)
                 /\ down'[f] = Tail(down[f]) /\ got'[u] = Receives(u, Head(down[f]))
  <2>1. /\ UNCHANGED <<client, sending>> /\ ue[v] = "attached" /\ down[c_rnti[v]] # <<>>
        /\ down' = [down EXCEPT ![c_rnti[v]] = Tail(down[c_rnti[v]])]
    BY <1>11 DEF ReadStream
  <2>2. CASE v = u
    <3>1. Head(down[f]) # Start /\ got' = [got EXCEPT ![u] = Receives(u, Head(down[f]))]
      BY <1>11, <2>2 DEF ReadStream, TypeOK
    <3> QED
      BY <1>3, <2>1, <2>2, <3>1 DEF Written, TypeOK
  <2>3. CASE v # u
    <3>1. got' = got \/ got' = [got EXCEPT ![v] = Receives(v, Head(down[c_rnti[v]]))]
      BY <1>11 DEF ReadStream
    <3> QED
      BY <1>3, <1>4, <2>1, <2>3, <3>1 DEF Written, TypeOK
  <2> QED
    BY <2>2, <2>3
<1>12. ASSUME NEW v \in UEs, TargetSends(v) PROVE Same
  <2>1. /\ v # u /\ UNCHANGED <<down, client, sending>>
        /\ got' = [got EXCEPT ![v] = Receives(v, session[v].index)]
    BY <1>2, <1>12 DEF TargetSends
  <2> QED
    BY <2>1 DEF Written, TypeOK
<1>13. \/ UNCHANGED <<down, got, client, sending>>
       \/ \E v \in UEs : Attach(v) \/ ReadStream(v) \/ TargetSends(v)
       \/ \E g \in Fds : SendPacket(g) \/ SourceClose(g)
       \/ CountPacket \/ SendStart
  BY DEF Next, Source, Target, Environment, SendInfo, LinkLost, ReceiveInfo, Leave, Reconnect,
         Refuse, vars
<1> QED
  BY <1>1, <1>2, <1>5, <1>6, <1>7, <1>8, <1>9, <1>10, <1>11, <1>12, <1>13 DEF Same

\* What a step does to a UE.
LEMMA Moves ==
  ASSUME TypeOK, [Next]_vars, NEW u \in UEs
  PROVE  \/ ue'[u] = ue[u] /\ got'[u] = got[u] /\ session'[u] = session[u]
         \/ Attach(u) /\ ue[u] = "new" /\ ue'[u] = "attached" /\ got' = got
         \/ /\ ReadStream(u) /\ ue[u] = "attached"
            /\ \/ ue'[u] = "attached"
               \/ ue'[u] = "moving" /\ Head(down[c_rnti[u]]) = Start /\ got' = got
         \/ Reconnect(u) /\ ue'[u] = "served" /\ got' = got
         \/ TargetSends(u) /\ ue'[u] = "served" /\ ue[u] = "served"
         \/ ue'[u] \in {"gone", "refused"}
<1> DEFINE Same == ue'[u] = ue[u] /\ got'[u] = got[u] /\ session'[u] = session[u]
<1> USE DEF source
<1>1. ASSUME NEW v \in UEs, Attach(v)
      PROVE  Same \/ (v = u /\ ue[u] = "new" /\ ue'[u] = "attached" /\ got' = got)
  BY <1>1 DEF Attach, TypeOK
<1>2. ASSUME NEW v \in UEs, ReadStream(v)
      PROVE  \/ Same
             \/ /\ v = u /\ ue[u] = "attached"
                /\ \/ ue'[u] = "attached"
                   \/ ue'[u] = "moving" /\ Head(down[c_rnti[u]]) = Start /\ got' = got
  <2>1. UNCHANGED session /\ ue[v] = "attached"
    BY <1>2 DEF ReadStream
  <2>2. CASE Head(down[c_rnti[v]]) = Start
    <3>1. ue' = [ue EXCEPT ![v] = "moving"] /\ UNCHANGED got
      BY <1>2, <2>2 DEF ReadStream
    <3> QED
      BY <2>1, <2>2, <3>1 DEF TypeOK
  <2>3. CASE Head(down[c_rnti[v]]) # Start
    <3>1. got' = [got EXCEPT ![v] = Receives(v, Head(down[c_rnti[v]]))] /\ UNCHANGED ue
      BY <1>2, <2>3 DEF ReadStream
    <3> QED
      BY <2>1, <3>1 DEF TypeOK
  <2> QED
    BY <2>2, <2>3
<1>3. ASSUME NEW v \in UEs, Reconnect(v)
      PROVE  Same \/ (v = u /\ ue'[u] = "served" /\ got' = got)
  <2>1. PICK r : /\ session' = [session EXCEPT ![v] = r]
                 /\ ue' = [ue EXCEPT ![v] = "served"] /\ UNCHANGED got
    BY <1>3 DEF Reconnect
  <2> QED
    BY <2>1 DEF TypeOK
<1>4. ASSUME NEW v \in UEs, TargetSends(v)
      PROVE  Same \/ (v = u /\ ue'[u] = "served" /\ ue[u] = "served")
  <2>1. PICK r, n : /\ session' = [session EXCEPT ![v] = r] /\ got' = [got EXCEPT ![v] = n]
                    /\ UNCHANGED ue /\ ue[v] = "served"
    BY <1>4 DEF TargetSends
  <2> QED
    BY <2>1 DEF TypeOK
<1>5. ASSUME NEW v \in UEs, Leave(v) \/ Refuse(v)
      PROVE  Same \/ ue'[u] \in {"gone", "refused"}
  BY <1>5 DEF Leave, Refuse, TypeOK
<1>6. CASE UNCHANGED <<ue, got, session>>
  BY <1>6
<1>7. ASSUME NEW f \in Fds, SourceClose(f)
      PROVE  Same \/ ue'[u] \in {"gone", "refused"}
  BY <1>7 DEF SourceClose, TypeOK
<1>8. \/ UNCHANGED <<ue, got, session>>
      \/ \E v \in UEs : Attach(v) \/ ReadStream(v) \/ Reconnect(v) \/ TargetSends(v)
                        \/ Leave(v) \/ Refuse(v)
      \/ \E f \in Fds : SourceClose(f)
  BY DEF Next, Source, Target, Environment, SendPacket, CountPacket, SendInfo, SendStart,
         LinkLost, ReceiveInfo, vars
<1> QED
  BY <1>1, <1>2, <1>3, <1>4, <1>5, <1>6, <1>7, <1>8 DEF Same

\* Each step keeps the packets of a connection consecutive.
LEMMA StreamsStep ==
  ASSUME TypeOK, Registered, Streams, [Next]_vars
  PROVE  Streams'
<1> USE DEF source
<1>1. ASSUME NEW u \in UEs, ue'[u] = "attached", ue[u] # "new"
      PROVE  got'[u] # Gap /\ Stream(u)'
  <2>1. PICK f : f = c_rnti[u]
    OBVIOUS
  <2>2. ue[u] = "attached" /\ c_rnti'[u] = f
    BY <1>1, <2>1, AttachedStep
  <2>3. /\ f \in Fds /\ down[f] \in Seq(Messages) /\ got[u] \in Nat /\ Written(f) \in Nat
        /\ Consecutive(down[f], got[u], Written(f))
    BY <2>1, <2>2, Owners DEF Streams, Stream
  <2>4. PICK s, g, n : s = down[f] /\ g = got[u] /\ n = Written(f)
    OBVIOUS
  <2>5. s \in Seq(Messages) /\ g \in Nat /\ n \in Nat /\ Consecutive(s, g, n)
    BY <2>3, <2>4
  <2>6. got'[u] \in Nat /\ Consecutive(down'[f], got'[u], Written(f)')
    <3>1. CASE down'[f] = s /\ got'[u] = g /\ Written(f)' = n
      BY <2>5, <3>1
    <3>2. CASE /\ down'[f] = Append(s, n) /\ got'[u] = g /\ Written(f)' = n + 1
               /\ n \in 0 .. Packets - 1
      BY <2>5, <3>2, PacketWritten
    <3>3. CASE down'[f] = Append(s, Start) /\ got'[u] = g /\ Written(f)' = n
      BY <2>5, <3>3, StartWritten
    <3>4. CASE /\ down'[f] = Tail(s) /\ Head(s) # Start /\ s # <<>> /\ Written(f)' = n
               /\ got'[u] = Receives(u, Head(s))
      <4>1. Head(s) = g /\ Consecutive(Tail(s), g + 1, n)
        BY <2>5, <3>4, MessageRead
      <4>2. got'[u] = g + 1
        BY <2>4, <3>4, <4>1 DEF Receives
      <4> QED
        BY <2>5, <3>4, <4>1, <4>2
    <3> QED
      BY <1>1, <2>1, <2>4, <3>1, <3>2, <3>3, <3>4, AttachedStep
  <2>7. Stream(u)'
    BY <2>2, <2>6 DEF Stream, Written
  <2> QED
    BY <2>6, <2>7 DEF Gap
<1>2. ASSUME NEW u \in UEs, Attach(u)
      PROVE  got'[u] # Gap /\ Stream(u)'
  <2>1. PICK f \in Fds :
          /\ client[f] = None
          /\ c_rnti' = [c_rnti EXCEPT ![u] = f]
          /\ client' = [client EXCEPT ![f] = [owner |-> u, index |-> 0]]
          /\ down' = [down EXCEPT ![f] = <<>>]
    BY <1>2 DEF Attach, Free
  <2>2. /\ c_rnti'[u] = f /\ client'[f].index = 0 /\ down'[f] = <<>>
        /\ got'[u] = 0 /\ sending' = sending
    BY <1>2, <2>1 DEF Attach, TypeOK, Streams
  <2>3. sending # f
    BY <2>1, FdsAssumption DEF Registered
  <2>4. Written(f)' = 0
    BY <2>2, <2>3 DEF Written
  <2>5. Consecutive(<<>>, 0, 0)
    BY DEF Consecutive
  <2> QED
    BY <2>2, <2>4, <2>5 DEF Stream, Written, Gap
<1>3. ASSUME NEW u \in UEs
      PROVE  /\ ue'[u] \in {"new", "attached", "moving"} => got'[u] # Gap
             /\ ue'[u] = "new" => got'[u] = 0
             /\ ue'[u] = "attached" => Stream(u)'
  <2>1. CASE ue'[u] = "attached"
    <3>1. CASE ue[u] = "new"
      BY <1>2, <2>1, <3>1, Moves
    <3> QED
      BY <1>1, <2>1, <3>1
  <2>2. CASE ue'[u] # "attached"
    BY <2>2, Moves DEF Streams
  <2> QED
    BY <2>1, <2>2
<1> QED
  BY <1>3 DEF Streams

\* A UE stays in time for an info that it is in time for.
LEMMA InTimeStep ==
  ASSUME TypeOK, Registered, Streams, [Next]_vars,
         NEW u \in UEs, ue[u] # "new", NEW k \in 0 .. Packets, InTime(u, k)
  PROVE  InTime(u, k)'
<1>1. ASSUME ue'[u] = "attached"
      PROVE  InTime(u, k)'
  <2>1. PICK f : f = c_rnti[u]
    OBVIOUS
  <2>2. ue[u] = "attached" /\ c_rnti'[u] = f
    BY <1>1, <2>1, AttachedStep
  <2>3. /\ f \in Fds /\ down[f] \in Seq(Messages) /\ got[u] \in Nat /\ Written(f) \in Nat
        /\ client[f].index \in Nat /\ client[f].index <= Written(f)
        /\ Consecutive(down[f], got[u], Written(f))
        /\ k <= client[f].index /\ Behind(down[f], got[u], k)
    BY <2>1, <2>2, Owners DEF Streams, Stream, InTime, Records
  <2>4. PICK s, g, n, c : s = down[f] /\ g = got[u] /\ n = Written(f) /\ c = client[f].index
    OBVIOUS
  <2>5. /\ s \in Seq(Messages) /\ g \in Nat /\ n \in Nat /\ c \in Nat /\ c <= n /\ k <= c
        /\ Consecutive(s, g, n) /\ Behind(s, g, k) /\ k \in Nat /\ k \in 0 .. n
    BY <2>3, <2>4
  <2>6. k <= client'[f].index /\ Behind(down'[f], got'[u], k)
    <3>1. CASE down'[f] = s /\ got'[u] = g /\ client'[f].index \in {c, c + 1}
      BY <2>5, <3>1
    <3>2. CASE /\ down'[f] = Append(s, n) /\ got'[u] = g /\ client'[f].index = c
               /\ n \in 0 .. Packets - 1
      BY <2>5, <3>2, PacketWritten
    <3>3. CASE down'[f] = Append(s, Start) /\ got'[u] = g /\ client'[f].index = c
      BY <2>5, <3>3, StartWritten
    <3>4. CASE /\ down'[f] = Tail(s) /\ Head(s) # Start /\ s # <<>> /\ client'[f].index = c
               /\ got'[u] = Receives(u, Head(s))
      <4>1. Head(s) = g /\ Behind(Tail(s), g + 1, k)
        BY <2>5, <3>4, MessageRead
      <4>2. got'[u] = g + 1
        BY <2>4, <3>4, <4>1 DEF Receives
      <4> QED
        BY <2>5, <3>4, <4>1, <4>2
    <3> QED
      BY <1>1, <2>1, <2>4, <3>1, <3>2, <3>3, <3>4, AttachedStep
  <2> QED
    BY <1>1, <2>2, <2>6 DEF InTime
<1>2. ASSUME ue'[u] = "moving"
      PROVE  InTime(u, k)'
  <2>1. CASE ue[u] = "moving" /\ got'[u] = got[u]
    BY <1>2, <2>1 DEF InTime
  <2>2. CASE ReadStream(u) /\ ue[u] = "attached" /\ Head(down[c_rnti[u]]) = Start /\ got' = got
    <3>1. PICK s, g, n : s = down[c_rnti[u]] /\ g = got[u] /\ n = Written(c_rnti[u])
      OBVIOUS
    <3>2. s \in Seq(Messages) /\ g \in Nat /\ n \in Nat /\ Consecutive(s, g, n)
      BY <2>2, <3>1, Owners DEF Streams, Stream
    <3>3. s # <<>> /\ Head(s) = Start /\ Behind(s, g, k)
      BY <2>2, <3>1 DEF ReadStream, InTime
    <3>4. k <= g
      BY <3>2, <3>3, MessageRead
    <3> QED
      BY <1>2, <2>2, <3>1, <3>4 DEF InTime
  <2> QED
    BY <1>2, <2>1, <2>2, Moves
<1> QED
  BY <1>1, <1>2 DEF InTime

\* What a step does to the infos on their way, and to the history of robbed UEs.
LEMMA PendingStep ==
  ASSUME TypeOK, [Next]_vars
  PROVE  \/ Pending' = Pending /\ UNCHANGED <<robbed, link>>
         \/ /\ UNCHANGED <<robbed, ue, c_rnti, client, down, got>>
            /\ link = "up" /\ Len(Pending') = Len(Pending) + 1
            /\ \A k \in 1 .. Len(Pending) : k \in DOMAIN Pending' /\ Pending'[k] = Pending[k]
            /\ DOMAIN Pending' = 1 .. Len(Pending) + 1
            /\ \E f \in Fds :
                 /\ client[f] # None /\ main'.fd = f
                 /\ Pending'[Len(Pending) + 1] =
                      [c_rnti |-> f, owner |-> client[f].owner, index |-> client[f].index]
         \/ /\ UNCHANGED robbed /\ link' = "lost"
            /\ \A k \in DOMAIN Pending' : k \in DOMAIN Pending /\ Pending'[k] = Pending[k]
            /\ DOMAIN Pending' = 1 .. Len(Pending')
         \/ \E v \in UEs, i \in DOMAIN waiting :
              /\ Reconnect(v) /\ ue'[v] = "served" /\ UNCHANGED link
              /\ i \in DOMAIN Pending /\ Pending[i] = waiting[i]
              /\ robbed' = robbed \cup ({waiting[i].owner} \ {v})
              /\ DOMAIN Pending' = 1 .. Len(Pending) - 1
              /\ \A k \in 1 .. Len(Pending) - 1 :
                   Pending'[k] = IF k < i THEN Pending[k] ELSE Pending[k + 1]
<1> USE DEF source
<1>1. CASE UNCHANGED <<x2, waiting, link, robbed>>
  BY <1>1 DEF Pending
<1>2. ASSUME NEW f \in Fds, SendInfo(f), ~UNCHANGED x2
      PROVE  /\ UNCHANGED <<robbed, ue, c_rnti, client, down, got>>
             /\ link = "up" /\ Len(Pending') = Len(Pending) + 1
             /\ \A k \in 1 .. Len(Pending) : k \in DOMAIN Pending' /\ Pending'[k] = Pending[k]
             /\ DOMAIN Pending' = 1 .. Len(Pending) + 1
             /\ client[f] # None /\ main'.fd = f
             /\ Pending'[Len(Pending) + 1] =
                  [c_rnti |-> f, owner |-> client[f].owner, index |-> client[f].index]
  <2>1. PICK info :
          /\ info = [c_rnti |-> f, owner |-> client[f].owner, index |-> client[f].index]
          /\ x2' = Append(x2, info) /\ UNCHANGED waiting
    BY <1>2 DEF SendInfo
  <2>2. /\ Len(Pending') = Len(Pending) + 1
        /\ DOMAIN Pending' = 1 .. Len(Pending) + 1
        /\ \A k \in 1 .. Len(Pending) : Pending'[k] = Pending[k]
        /\ Pending'[Len(Pending) + 1] = info
    BY <2>1, PendingGrows
  <2>3. Len(Pending) \in Nat
    BY PendingTyped
  <2>4. \A k \in 1 .. Len(Pending) : k \in DOMAIN Pending'
    BY <2>2, <2>3
  <2>5. /\ UNCHANGED <<robbed, ue, c_rnti, client, down, got>>
        /\ link = "up" /\ client[f] # None /\ main'.fd = f
    BY <1>2 DEF SendInfo
  <2> QED
    BY <2>1, <2>2, <2>4, <2>5
<1>3. ASSUME LinkLost
      PROVE  /\ UNCHANGED robbed /\ link' = "lost"
             /\ \A k \in DOMAIN Pending' : k \in DOMAIN Pending /\ Pending'[k] = Pending[k]
             /\ DOMAIN Pending' = 1 .. Len(Pending')
  BY <1>3, PendingCut, PendingTyped DEF LinkLost
<1>4. ASSUME ReceiveInfo PROVE Pending' = Pending /\ UNCHANGED <<robbed, link>>
  BY <1>4, PendingKept DEF ReceiveInfo
<1>5. ASSUME NEW v \in UEs, Reconnect(v)
      PROVE  \E i \in DOMAIN waiting :
               /\ ue'[v] = "served" /\ UNCHANGED link
               /\ i \in DOMAIN Pending /\ Pending[i] = waiting[i]
               /\ robbed' = robbed \cup ({waiting[i].owner} \ {v})
               /\ DOMAIN Pending' = 1 .. Len(Pending) - 1
               /\ \A k \in 1 .. Len(Pending) - 1 :
                    Pending'[k] = IF k < i THEN Pending[k] ELSE Pending[k + 1]
  <2>1. PICK i \in DOMAIN waiting :
          /\ robbed' = robbed \cup ({waiting[i].owner} \ {v})
          /\ waiting' = SubSeq(waiting, 1, i - 1) \o SubSeq(waiting, i + 1, Len(waiting))
    BY <1>5 DEF Reconnect
  <2>2. UNCHANGED <<x2, link>> /\ ue'[v] = "served"
    BY <1>5 DEF Reconnect, TypeOK
  <2> QED
    BY <2>1, <2>2, PendingLoses
<1>6. \/ UNCHANGED <<x2, waiting, link, robbed>>
      \/ \E f \in Fds : SendInfo(f) /\ ~UNCHANGED x2
      \/ LinkLost \/ ReceiveInfo
      \/ \E v \in UEs : Reconnect(v)
  BY DEF Next, Source, Target, Environment, Attach, SendPacket, CountPacket, SendInfo, SendStart,
         SourceClose, ReadStream, Leave, Refuse, TargetSends, vars
<1> QED
  BY <1>1, <1>2, <1>3, <1>4, <1>5, <1>6

\* No step lets a UE move before it has the packets that its info leaves out.
LEMMA CopiedStep ==
  ASSUME IInv, [Next]_vars
  PROVE  Copied'
<1> USE DEF IInv
<1> SUFFICES ASSUME NEW u \in UEs, u \notin robbed', NEW k \in DOMAIN Pending', First(u, k)'
             PROVE  InTime(u, Pending[k].index)'
  BY DEF Copied
<1> DEFINE Came(l) == /\ l \in DOMAIN Pending /\ Pending[l] = Pending'[k]
                      /\ u \notin robbed /\ First(u, l)
<1>1. ASSUME NEW l, Came(l) PROVE InTime(u, Pending[k].index)'
  <2>1. PICK n : n = Pending[l].index
    OBVIOUS
  <2>2. n \in 0 .. Packets /\ InTime(u, n)
    BY <1>1, <2>1, PendingTyped DEF Copied
  <2>3. ue[u] # "new"
    BY <1>1 DEF First, Addressed
  <2>4. InTime(u, n)'
    BY <2>2, <2>3, InTimeStep
  <2> QED
    BY <1>1, <2>1, <2>4 DEF InTime
<1>2. Pending'[k].owner = u /\ \A j \in DOMAIN Pending' : j < k => Pending'[j].owner # u
  BY DEF First
<1>3. DOMAIN Pending = 1 .. Len(Pending) /\ Len(Pending) \in Nat
  BY PendingTyped
<1>4. CASE Pending' = Pending /\ UNCHANGED robbed
  <2>1. Came(k)
    BY <1>2, <1>4 DEF First
  <2> QED
    BY <1>1, <2>1
<1>5. ASSUME UNCHANGED <<robbed, ue, c_rnti, client, down, got>>, link = "up",
             \A l \in 1 .. Len(Pending) : l \in DOMAIN Pending' /\ Pending'[l] = Pending[l],
             DOMAIN Pending' = 1 .. Len(Pending) + 1,
             NEW f \in Fds, client[f] # None,
             Pending'[Len(Pending) + 1] =
               [c_rnti |-> f, owner |-> client[f].owner, index |-> client[f].index]
      PROVE  InTime(u, Pending[k].index)'
  <2>1. CASE k \in 1 .. Len(Pending)
    <3>1. Came(k)
      BY <1>2, <1>3, <1>5, <2>1 DEF First
    <3> QED
      BY <1>1, <3>1
  <2>2. CASE k = Len(Pending) + 1
    <3>1. /\ client[f].owner = u /\ c_rnti[u] = f /\ Pending'[k].index = client[f].index
          /\ client[f].index \in 0 .. Packets
      BY <1>2, <1>5, <2>2, Owners DEF Registered
    <3>2. ~ Told(u)
      <4>1. \A j \in DOMAIN Pending : Pending[j].owner # u
        BY <1>2, <1>3, <1>5, <2>2
      <4> QED
        BY <1>5, <4>1 DEF Announced
    <3>3. InTime(u, client[f].index)
      BY <3>1, <3>2 DEF Told, InTime, Behind
    <3> QED
      BY <1>5, <3>1, <3>3 DEF InTime
  <2> QED
    BY <1>3, <1>5, <2>1, <2>2
<1>6. CASE /\ UNCHANGED robbed
           /\ \A l \in DOMAIN Pending' : l \in DOMAIN Pending /\ Pending'[l] = Pending[l]
           /\ DOMAIN Pending' = 1 .. Len(Pending')
  <2>1. Came(k)
    <3>1. ASSUME NEW j \in DOMAIN Pending, j < k PROVE Pending[j].owner # u
      <4>1. j \in DOMAIN Pending'
        BY <1>3, <1>6, <3>1
      <4> QED
        BY <1>2, <1>6, <3>1, <4>1
    <3> QED
      BY <1>2, <1>6, <3>1 DEF First
  <2> QED
    BY <1>1, <2>1
<1>7. ASSUME NEW v \in UEs, ue'[v] = "served", NEW i \in DOMAIN Pending,
             robbed' = robbed \cup ({Pending[i].owner} \ {v}),
             DOMAIN Pending' = 1 .. Len(Pending) - 1,
             \A l \in 1 .. Len(Pending) - 1 :
               Pending'[l] = IF l < i THEN Pending[l] ELSE Pending[l + 1]
      PROVE  InTime(u, Pending[k].index)'
  <2>1. CASE u = v
    BY <1>7, <2>1 DEF InTime
  <2>2. CASE u # v
    <3>1. Pending[i].owner # u /\ u \notin robbed
      BY <1>7, <2>2
    <3>2. PICK l : l = IF k < i THEN k ELSE k + 1
      OBVIOUS
    <3>3. l \in DOMAIN Pending /\ Pending[l] = Pending'[k] /\ l # i
      BY <1>3, <1>7, <3>2
    <3>4. ASSUME NEW j \in DOMAIN Pending, j < l, j # i PROVE Pending[j].owner # u
      <4>1. CASE j < i
        <5>1. j \in DOMAIN Pending' /\ j < k /\ Pending'[j] = Pending[j]
          BY <1>3, <1>7, <3>2, <3>4, <4>1
        <5> QED
          BY <1>2, <5>1
      <4>2. CASE j > i
        <5>1. j - 1 \in DOMAIN Pending' /\ j - 1 < k /\ Pending'[j - 1] = Pending[j]
          BY <1>3, <1>7, <3>2, <3>4, <4>2
        <5> QED
          BY <1>2, <5>1
      <4> QED
        BY <1>3, <3>4, <4>1, <4>2
    <3>5. Came(l)
      BY <1>2, <3>1, <3>3, <3>4 DEF First
    <3> QED
      BY <1>1, <3>5
  <2> QED
    BY <2>1, <2>2
<1> HIDE DEF Came
<1> QED
  BY <1>4, <1>5, <1>6, <1>7, PendingStep

\* A UE is told to move only by a step that sends its info, or was told before.
LEMMA ToldStep ==
  ASSUME TypeOK, Registered, [Next]_vars, NEW u \in UEs, Told(u)'
  PROVE  Told(u) \/ \E f \in Fds : SendInfo(f) /\ main'.fd = f /\ client[f].owner = u
<1>1. ASSUME ue'[u] = "attached", ue[u] # "new"
      PROVE  Told(u) \/ \E f \in Fds : SendInfo(f) /\ main'.fd = f /\ client[f].owner = u
  <2>1. PICK f : f = c_rnti[u]
    OBVIOUS
  <2>2. /\ ue[u] = "attached" /\ c_rnti'[u] = f
        /\ f \in Fds /\ client[f].owner = u /\ down[f] \in Seq(Messages)
    BY <1>1, <2>1, AttachedStep, Owners
  <2>3. CASE main'.at = "start" /\ main'.fd = f
    <3>1. main' = main \/ main' = Ready \/ \E g \in Fds : SendInfo(g)
      BY DEF Next, Source, Target, Environment, Attach, SendPacket, CountPacket,
         SendStart, SourceClose, ReadStream, Leave, LinkLost, ReceiveInfo, Reconnect, Refuse,
         TargetSends, source, vars
    <3>2. ASSUME NEW g \in Fds, SendInfo(g) PROVE g = f
      <4>1. main' \in {[at |-> "start", fd |-> g], Ready}
        BY <3>2 DEF SendInfo
      <4> QED
        BY <2>3, <4>1 DEF Ready
    <3> QED
      BY <2>1, <2>2, <2>3, <3>1, <3>2 DEF Told, Ready
  <2>4. ASSUME NEW i \in DOMAIN down'[f], down'[f][i] = Start PROVE Told(u)
    <3>1. PICK s : s = down[f] /\ s \in Seq(Messages)
      BY <2>2
    <3>2. CASE down'[f] = s
      BY <2>1, <2>2, <2>4, <3>1, <3>2 DEF Told
    <3>3. ASSUME NEW n \in 0 .. Packets - 1, down'[f] = Append(s, n) PROVE Told(u)
      <4>1. i \in DOMAIN s /\ s[i] = Start
        BY <2>4, <3>1, <3>3, BoundsAssumption DEF Start
      <4> QED
        BY <2>1, <2>2, <3>1, <4>1 DEF Told
    <3>4. CASE SendStart /\ main.fd = f
      BY <2>1, <2>2, <3>4 DEF Told, SendStart
    <3>5. CASE down'[f] = Tail(s) /\ s # <<>>
      <4>1. i + 1 \in DOMAIN s /\ s[i + 1] = Start
        BY <2>4, <3>1, <3>5
      <4> QED
        BY <2>1, <2>2, <3>1, <4>1 DEF Told
    <3> QED
      BY <1>1, <2>1, <3>1, <3>2, <3>3, <3>4, <3>5, AttachedStep
  <2> QED
    BY <1>1, <2>2, <2>3, <2>4 DEF Told
<1>2. ASSUME Attach(u), ue'[u] = "attached" PROVE FALSE
  <2>1. PICK f \in Fds : c_rnti' = [c_rnti EXCEPT ![u] = f] /\ down' = [down EXCEPT ![f] = <<>>]
    BY <1>2 DEF Attach, Free
  <2>2. c_rnti'[u] = f /\ down'[f] = <<>> /\ main'.at # "start"
    BY <1>2, <2>1 DEF Attach, TypeOK, Ready
  <2> QED
    BY <1>2, <2>2 DEF Told
<1>3. ASSUME ReadStream(u), ue[u] = "attached", Head(down[c_rnti[u]]) = Start
      PROVE  Told(u)
  <2>1. down[c_rnti[u]] \in Seq(Messages) /\ down[c_rnti[u]] # <<>>
    BY <1>3, Owners DEF ReadStream
  <2>2. 1 \in DOMAIN down[c_rnti[u]] /\ down[c_rnti[u]][1] = Start
    BY <1>3, <2>1
  <2> QED
    BY <1>3, <2>2 DEF Told
<1> QED
  BY <1>1, <1>2, <1>3, Moves DEF Told

\* No step tells a UE to move that has no info under way.
LEMMA AnnouncedStep ==
  ASSUME TypeOK, Registered, Announced, [Next]_vars
  PROVE  Announced'
<1> SUFFICES ASSUME NEW u \in UEs, link' = "up", u \notin robbed', Told(u)'
             PROVE  \E k \in DOMAIN Pending' : Pending'[k].owner = u
  BY DEF Announced
<1>1. DOMAIN Pending = 1 .. Len(Pending) /\ Len(Pending) \in Nat
  BY PendingTyped
<1>2. CASE \E f \in Fds : SendInfo(f) /\ main'.fd = f /\ client[f].owner = u
  <2>1. PICK f \in Fds :
          /\ x2' = Append(x2, [c_rnti |-> f, owner |-> client[f].owner,
                               index |-> client[f].index])
          /\ UNCHANGED waiting /\ client[f].owner = u
    BY <1>2 DEF SendInfo
  <2>3. PICK info : info = [c_rnti |-> f, owner |-> client[f].owner, index |-> client[f].index]
    OBVIOUS
  <2>2. /\ DOMAIN Pending' = 1 .. Len(Pending) + 1
        /\ Pending'[Len(Pending) + 1] = info
    BY <2>1, <2>3, PendingGrows
  <2> QED
    BY <1>1, <2>1, <2>2, <2>3
<1>3. ASSUME Told(u), NEW k \in DOMAIN Pending, Pending[k].owner = u,
             NEW v \in UEs, ue'[v] = "served", NEW i \in DOMAIN Pending,
             robbed' = robbed \cup ({Pending[i].owner} \ {v}),
             DOMAIN Pending' = 1 .. Len(Pending) - 1,
             \A l \in 1 .. Len(Pending) - 1 :
               Pending'[l] = IF l < i THEN Pending[l] ELSE Pending[l + 1]
      PROVE  \E l \in DOMAIN Pending' : Pending'[l].owner = u
  <2>1. u # v
    BY <1>3 DEF Told
  <2>2. k # i
    BY <1>3, <2>1
  <2>3. PICK l : l = IF k < i THEN k ELSE k - 1
    OBVIOUS
  <2>4. l \in DOMAIN Pending' /\ Pending'[l] = Pending[k]
    BY <1>1, <1>3, <2>2, <2>3
  <2> QED
    BY <1>3, <2>4
<1>4. CASE Told(u)
  <2>1. link = "up" /\ u \notin robbed
    BY PendingStep
  <2>2. PICK k \in DOMAIN Pending : Pending[k].owner = u
    BY <1>4, <2>1 DEF Announced
  <2> QED
    BY <1>1, <1>3, <1>4, <2>2, PendingStep
<1> QED
  BY <1>2, <1>4, ToldStep

\* A session is resumed at a packet its UE has or is to get next.
LEMMA ResumedStep ==
  ASSUME IInv, [Next]_vars
  PROVE  Resumed'
<1> USE DEF IInv
<1> SUFFICES ASSUME NEW u \in UEs, ue'[u] = "served"
             PROVE  /\ session'[u] # None
                    /\ session'[u].owner = u /\ u \notin robbed' =>
                         got'[u] # Gap /\ session'[u].index <= got'[u]
  BY DEF Resumed, Own
<1>1. u \notin robbed' => u \notin robbed
  BY PendingStep
<1>2. CASE ue'[u] = ue[u] /\ got'[u] = got[u] /\ session'[u] = session[u]
  BY <1>1, <1>2 DEF Resumed, Own
<1>3. ASSUME Reconnect(u), got' = got
      PROVE  /\ session'[u] # None
             /\ session'[u].owner = u /\ u \notin robbed' =>
                  got'[u] # Gap /\ session'[u].index <= got'[u]
  <2>1. PICK i \in DOMAIN waiting : Match(u, i) /\ session' = [session EXCEPT ![u] = waiting[i]]
    BY <1>3 DEF Reconnect
  <2>2. session'[u] = waiting[i] /\ waiting[i] \in Sessions
    BY <2>1 DEF TypeOK
  <2>3. ASSUME waiting[i].owner = u, u \notin robbed' PROVE InTime(u, waiting[i].index)
    <3>1. /\ i \in 1 .. Len(waiting) /\ DOMAIN waiting = 1 .. Len(waiting) /\ Len(waiting) \in Nat
          /\ DOMAIN Pending = 1 .. Len(Pending) /\ Len(Pending) \in Nat
          /\ Len(waiting) <= Len(Pending) /\ Pending[i] = waiting[i]
      <4>1. waiting \in Seq(Sessions) /\ x2 \in Seq(Sessions)
        BY DEF TypeOK
      <4> QED
        BY <4>1, PendingTyped
    <3>2. ASSUME NEW j \in DOMAIN Pending, j < i, Pending[j].owner = u PROVE FALSE
      <4>1. j \in DOMAIN waiting /\ Pending[j] = waiting[j]
        BY <3>1, <3>2, PendingTyped
      <4>2. Pending[j].c_rnti = c_rnti[u]
        BY <3>2 DEF Addressed
      <4>3. i <= j
        BY <2>1, <4>1, <4>2 DEF Match, Matches
      <4> QED
        BY <3>1, <3>2, <4>3
    <3>3. First(u, i)
      BY <2>3, <3>1, <3>2 DEF First
    <3> QED
      BY <1>1, <2>3, <3>1, <3>3 DEF Copied
  <2>4. ue[u] = "moving" /\ got[u] # Gap
    BY <1>3 DEF Reconnect, Streams
  <2> QED
    BY <1>3, <2>2, <2>3, <2>4, NoneAssumption DEF InTime
<1>4. ASSUME TargetSends(u), ue[u] = "served"
      PROVE  /\ session'[u] # None
             /\ session'[u].owner = u /\ u \notin robbed' =>
                  got'[u] # Gap /\ session'[u].index <= got'[u]
  <2>1. PICK r : r = session[u] /\ r \in Sessions
    BY <1>4 DEF Resumed, TypeOK
  <2>2. /\ session'[u] = [r EXCEPT !.index = r.index + 1] /\ r.index < Packets
        /\ got'[u] = Receives(u, r.index)
    BY <1>4, <2>1 DEF TargetSends, TypeOK
  <2>3. /\ session'[u] \in Sessions /\ session'[u].index = r.index + 1
        /\ session'[u].owner = r.owner /\ r.index \in Nat
    BY <2>1, <2>2, RecordTyped DEF Sessions
  <2>4. ASSUME r.owner = u, u \notin robbed' PROVE got'[u] # Gap /\ r.index + 1 <= got'[u]
    <3>1. got[u] # Gap /\ r.index <= got[u]
      BY <1>1, <1>4, <2>1, <2>4 DEF Resumed, Own
    <3>2. got[u] \in Nat
      BY <3>1, Owners
    <3> QED
      BY <2>2, <2>3, <3>1, <3>2 DEF Receives, Gap
  <2> QED
    BY <2>3, <2>4, NoneAssumption
<1> QED
  BY <1>2, <1>3, <1>4, Moves

----------------------------------------------------------------------------
(* The theorems. *)

\* The invariant holds before a UE attaches.
LEMMA InitSound == Init => IInv
<1> SUFFICES ASSUME Init PROVE IInv
  OBVIOUS
<1>1. TypeOK
  BY BoundsAssumption DEF Init, TypeOK, Ready
<1>2. Pending = <<>>
  BY DEF Init, Pending
<1>3. Registered /\ Addressed /\ Streams
  BY <1>2 DEF Init, Registered, Addressed, Streams, Ready, Gap
<1>4. Copied /\ Announced /\ Resumed
  BY <1>2 DEF Init, Copied, First, Announced, Told, Resumed, Own, Ready
<1> QED
  BY <1>1, <1>3, <1>4 DEF IInv

\* Each step keeps the invariant.
LEMMA StepSound == IInv /\ [Next]_vars => IInv'
<1> SUFFICES ASSUME IInv, [Next]_vars PROVE IInv'
  OBVIOUS
<1>1. TypeOK /\ Registered /\ Addressed /\ Streams /\ Announced /\ Resumed
  BY DEF IInv
<1>2. TypeOK' /\ Registered' /\ Addressed'
  BY <1>1, TypesStep, RegisteredStep, AddressedStep
<1>3. Streams' /\ Announced'
  BY <1>1, StreamsStep, AnnouncedStep
<1>4. Copied' /\ Resumed'
  BY CopiedStep, ResumedStep
<1> QED
  BY <1>2, <1>3, <1>4 DEF IInv

\* Wherever the two eNodeBs and the UEs are, the infos on their way are about UEs that
\* had their c-rnti, connections carry packets in order, and the oldest info of a UE is
\* behind what the UE has when it is told to move.
THEOREM Invariance == Spec => []IInv
  BY InitSound, StepSound, PTL DEF Spec

\* The registries, the infos and the messages keep their types, and no packet is
\* counted past the end of the file.
THEOREM TypeCorrect == Spec => []TypeOK
<1>1. IInv => TypeOK
  BY DEF IInv
<1> QED
  BY <1>1, Invariance, PTL

\* No UE misses a packet over a handover, however often it is told to move, while the
\* source goes on sending and counting and the UEs' descriptors are used again.
THEOREM NothingMissed == Spec => []NoGap
<1>1. IInv => NoGap
  BY DEF IInv, Streams, Resumed, NoGap
<1> QED
  BY <1>1, Invariance, PTL

\* A UE that moves finds its session at the target, unless the link was lost or another
\* UE with the same old c-rnti took it.
THEOREM SessionsKept == Spec => []SessionKept
<1>1. ASSUME IInv PROVE SessionKept
  <2> SUFFICES ASSUME NEW u \in UEs, ue[u] = "moving", link = "up", u \notin robbed
               PROVE  \E info \in {x2[i] : i \in DOMAIN x2}
                                  \cup {waiting[i] : i \in DOMAIN waiting} :
                        info.owner = u /\ info.c_rnti = c_rnti[u]
    BY DEF SessionKept
  <2>1. PICK k \in DOMAIN Pending : Pending[k].owner = u
    BY <1>1 DEF IInv, Announced, Told
  <2>2. Pending[k].c_rnti = c_rnti[u]
    BY <1>1, <2>1 DEF IInv, Addressed
  <2>3. \/ k \in DOMAIN waiting /\ Pending[k] = waiting[k]
        \/ k - Len(waiting) \in DOMAIN x2 /\ Pending[k] = x2[k - Len(waiting)]
    <3>1. waiting \in Seq(Sessions) /\ x2 \in Seq(Sessions)
      BY <1>1 DEF IInv, TypeOK
    <3> QED
      BY <3>1 DEF Pending
  <2> QED
    BY <2>1, <2>2, <2>3
<1> QED
  BY <1>1, Invariance, PTL
================================================================================
