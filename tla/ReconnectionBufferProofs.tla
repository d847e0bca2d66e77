---------------------- MODULE ReconnectionBufferProofs ----------------------
(***************************************************************************)
(* The array of ReconnectionBuffer stays within its allocation and         *)
(* implements ReconnectionQueue, whatever clients, c-rntis and bound.      *)
(***************************************************************************)
EXTENDS ReconnectionBuffer, ListLemmas, TLAPS

\* The inductive invariant.
IInv == TypeOK /\ InBounds

\* The invariant holds of the empty array.
LEMMA InvInit == Init => IInv
  BY DEF Init, IInv, TypeOK, InBounds

\* An addition, with or without growth, keeps the invariant.
LEMMA AddKeeps ==
  ASSUME IInv, NEW c \in Clients, add_reconnection_client(c)
  PROVE  IInv'
<1> USE DEF IInv, TypeOK, InBounds
<1>1. size' \in Nat /\ index < size' /\ size <= size'
  BY DEF add_reconnection_client, Grown
<1>2. buffer' = [i \in 0 .. size' - 1 |-> IF i = index THEN c
                   ELSE IF i \in DOMAIN buffer THEN buffer[i] ELSE Junk]
  BY DEF add_reconnection_client, Stored
<1>3. TypeOK'
  BY <1>1, <1>2 DEF add_reconnection_client
<1>4. InBounds'
  BY <1>1, <1>2 DEF add_reconnection_client
<1> QED
  BY <1>3, <1>4

\* A removal keeps the invariant.
LEMMA GetKeeps ==
  ASSUME IInv, NEW c_rnti \in Rntis, get_reconnection_client(c_rnti)
  PROVE  IInv'
<1> USE DEF IInv, TypeOK, InBounds
<1>1. PICK i \in 0 .. index - 1 :
        /\ target' = buffer[i]
        /\ index' = index - 1
        /\ buffer' = [k \in DOMAIN buffer |->
                        IF k \in i .. index - 2 THEN buffer[k + 1] ELSE buffer[k]]
        /\ size' = size
  BY DEF get_reconnection_client, Shifted
<1>2. TypeOK'
  BY <1>1
<1>3. InBounds'
  BY <1>1
<1> QED
  BY <1>2, <1>3

\* Every reachable state satisfies the inductive invariant.
THEOREM Invariance == Spec => []IInv
<1>1. IInv /\ [Next]_vars => IInv'
  <2> SUFFICES ASSUME IInv, [Next]_vars PROVE IInv'
    OBVIOUS
  <2>1. CASE UNCHANGED <<buffer, size, index>> /\ (target' = NotFound \/ UNCHANGED target)
    BY <2>1 DEF IInv, TypeOK, InBounds
  <2> QED
    BY <2>1, AddKeeps, GetKeeps DEF Next, client_not_found, vars
<1> QED
  BY InvInit, <1>1, PTL DEF Spec

\* size and index count cells, and the allocated cells are clients or Junk, also
\* right after a realloc.
THEOREM TypeCorrect == Spec => []TypeOK
  BY Invariance, PTL DEF IInv

\* The array is never accessed outside its allocation or before it is written.
THEOREM AlwaysInBounds == Spec => []InBounds
  BY Invariance, PTL DEF IInv

----------------------------------------------------------------------------
(* Refinement. *)

\* The cells in use are a sequence of clients.
LEMMA ContentsType == IInv => Contents \in Seq(Clients) /\ Len(Contents) = index
  BY DEF IInv, TypeOK, InBounds, Contents

\* Storing a client behind the last one appends it.
LEMMA AddAppends ==
  ASSUME IInv, NEW c \in Clients, add_reconnection_client(c)
  PROVE  Queue!Announce(c)
<1>1. Contents' = Append(Contents, c)
  <2>1. \A i \in 1 .. index : buffer'[i - 1] = buffer[i - 1]
    BY DEF IInv, TypeOK, InBounds, add_reconnection_client, Stored, Grown
  <2>2. buffer'[index] = c
    BY DEF IInv, TypeOK, InBounds, add_reconnection_client, Stored, Grown
  <2> QED
    BY <2>1, <2>2 DEF Contents, IInv, TypeOK, add_reconnection_client
<1> QED
  BY <1>1, ContentsType DEF Queue!Announce, add_reconnection_client

\* Closing the gap removes exactly the client found.
LEMMA GetClaims ==
  ASSUME IInv, NEW c_rnti \in Rntis, get_reconnection_client(c_rnti)
  PROVE  Queue!Claim(c_rnti)
<1>1. PICK i \in 0 .. index - 1 :
        /\ Found(i, c_rnti)
        /\ target' = buffer[i]
        /\ index' = index - 1
        /\ buffer' = Shifted(i)
  BY DEF get_reconnection_client
<1> DEFINE n == i + 1
<1>2. n \in 1 .. Len(Contents) /\ Contents[n] = buffer[i]
  BY ContentsType DEF Contents, IInv, TypeOK
<1>3. Queue!LongestWaiting(n, c_rnti)
  BY <1>1, <1>2, ContentsType DEF Found, Contents, Queue!LongestWaiting, IInv, TypeOK
<1>4. Contents' = SubSeq(Contents, 1, n - 1) \o SubSeq(Contents, n + 1, Len(Contents))
  <2> DEFINE gone == [k \in 1 .. index - 1 |->
                        IF k < n THEN Contents[k] ELSE Contents[k + 1]]
  <2>1. \A k \in 1 .. index - 1 : buffer'[k - 1] = IF k < n THEN buffer[k - 1] ELSE buffer[k]
    BY <1>1 DEF Shifted, IInv, TypeOK, InBounds
  <2>2. \A k \in 1 .. index - 1 :
          buffer'[k - 1] = IF k < n THEN Contents[k] ELSE Contents[k + 1]
    <3>1. \A k \in 1 .. index : Contents[k] = buffer[k - 1]
      BY DEF Contents
    <3> TAKE k \in 1 .. index - 1
    <3>2. k \in 1 .. index /\ k + 1 \in 1 .. index /\ k + 1 - 1 = k
      BY DEF IInv, TypeOK
    <3>3. Contents[k] = buffer[k - 1] /\ Contents[k + 1] = buffer[k]
      BY <3>1, <3>2
    <3> QED
      BY <2>1, <3>3
  <2>3. Contents' = gone
    BY <1>1, <2>2 DEF Contents
  <2> QED
    BY <1>2, <2>3, ContentsType, Removal
<1> QED
  BY <1>1, <1>2, <1>3, <1>4 DEF Queue!Claim

\* A search that finds nothing is a refusal of the queue.
LEMMA MissRefuses ==
  ASSUME IInv, NEW c_rnti \in Rntis, client_not_found(c_rnti)
  PROVE  Queue!Refuse(c_rnti)
  BY ContentsType DEF client_not_found, Queue!Refuse, Contents, IInv, TypeOK

\* The array with its growth and its two loops behaves as the queue: a client
\* that reconnects gets the session that waited longest under its old c-rnti,
\* and the others wait on in order.
THEOREM Implementation == Spec => ImplementsQueue
<1>1. Init => Queue!Init
  BY DEF Init, Queue!Init, Contents
<1>2. IInv /\ [Next]_vars => [Queue!Next]_Queue!vars
  <2> SUFFICES ASSUME IInv, [Next]_vars PROVE [Queue!Next]_Queue!vars
    OBVIOUS
  <2>1. CASE UNCHANGED vars
    BY <2>1 DEF vars, Queue!vars, Contents
  <2> QED
    BY <2>1, AddAppends, GetClaims, MissRefuses DEF Next, Queue!Next
<1> QED
  BY <1>1, <1>2, Invariance, PTL DEF Spec, Queue!Spec, ImplementsQueue
============================================================================
