------------------------------- MODULE ListLemmas -------------------------------
(***************************************************************************)
(* Taking one element out of the list of clients that wait to reconnect.   *)
(***************************************************************************)
EXTENDS Integers, Sequences, SequenceTheorems, TLAPS

\* Leaving out the n-th element, as a concatenation and cell by cell.
LEMMA Removal ==
  ASSUME NEW S, NEW s \in Seq(S), NEW n \in 1 .. Len(s)
  PROVE  LET r == SubSeq(s, 1, n - 1) \o SubSeq(s, n + 1, Len(s))
         IN  /\ r = [k \in 1 .. Len(s) - 1 |-> IF k < n THEN s[k] ELSE s[k + 1]]
             /\ r \in Seq(S) /\ Len(r) = Len(s) - 1
<1> DEFINE front == SubSeq(s, 1, n - 1)
           back == SubSeq(s, n + 1, Len(s))
<1>1. /\ front \in Seq(S) /\ Len(front) = n - 1
      /\ \A k \in 1 .. n - 1 : front[k] = s[k]
  OBVIOUS
<1>2. /\ back \in Seq(S) /\ Len(back) = Len(s) - n
      /\ \A k \in 1 .. Len(s) - n : back[k] = s[k + n]
  OBVIOUS
<1> HIDE DEF front, back
<1>3. /\ front \o back \in Seq(S) /\ Len(front \o back) = Len(s) - 1
      /\ \A k \in 1 .. Len(s) - 1 :
           (front \o back)[k] = IF k <= n - 1 THEN front[k] ELSE back[k - (n - 1)]
  <2>1. Len(front) + Len(back) = Len(s) - 1
    BY <1>1, <1>2
  <2>2. /\ front \o back \in Seq(S) /\ Len(front \o back) = Len(front) + Len(back)
        /\ \A k \in 1 .. Len(front) + Len(back) :
             (front \o back)[k] =
               IF k <= Len(front) THEN front[k] ELSE back[k - Len(front)]
    BY <1>1, <1>2, ConcatProperties
  <2> QED
    BY <1>1, <2>1, <2>2
<1>4. \A k \in 1 .. Len(s) - 1 : (front \o back)[k] = IF k < n THEN s[k] ELSE s[k + 1]
  <2> TAKE k \in 1 .. Len(s) - 1
  <2>1. CASE k < n
    BY <1>1, <1>3, <2>1
  <2>2. CASE k >= n
    <3>1. k - (n - 1) \in 1 .. Len(s) - n /\ k - (n - 1) + n = k + 1
      BY <2>2
    <3> QED
      BY <1>2, <1>3, <2>2, <3>1
  <2>3. k < n \/ k >= n
    OBVIOUS
  <2> QED
    BY <2>1, <2>2, <2>3
<1>5. DOMAIN (front \o back) = 1 .. Len(s) - 1
  BY <1>3, LenProperties
<1>6. front \o back = [k \in 1 .. Len(s) - 1 |-> (front \o back)[k]]
  BY <1>3, <1>5, LenProperties
<1> QED
  BY <1>3, <1>4, <1>6 DEF front, back

\* The same in a list that goes on with others.
LEMMA RemovalBefore ==
  ASSUME NEW S, NEW s \in Seq(S), NEW t \in Seq(S), NEW n \in 1 .. Len(s),
         NEW r \in Seq(S), r = [k \in 1 .. Len(s) - 1 |-> IF k < n THEN s[k] ELSE s[k + 1]],
         Len(r) = Len(s) - 1
  PROVE  /\ Len(r \o t) = Len(s \o t) - 1
         /\ Len(s \o t) \in Nat /\ n \in 1 .. Len(s \o t) /\ (s \o t)[n] = s[n]
         /\ \A k \in 1 .. Len(s \o t) - 1 :
              (r \o t)[k] = IF k < n THEN (s \o t)[k] ELSE (s \o t)[k + 1]
<1>1. PICK a \in Nat, b \in Nat : a = Len(s) /\ b = Len(t)
  OBVIOUS
<1>2. \A k \in 1 .. a - 1 : r[k] = IF k < n THEN s[k] ELSE s[k + 1]
  BY <1>1
<1>3. /\ Len(s \o t) = a + b
      /\ \A k \in 1 .. a + b : (s \o t)[k] = IF k <= a THEN s[k] ELSE t[k - a]
  BY <1>1, ConcatProperties
<1>4. /\ Len(r \o t) = (a - 1) + b
      /\ \A k \in 1 .. (a - 1) + b :
           (r \o t)[k] = IF k <= a - 1 THEN r[k] ELSE t[k - (a - 1)]
  <2>1. /\ Len(r \o t) = Len(r) + Len(t)
        /\ \A k \in 1 .. Len(r) + Len(t) :
             (r \o t)[k] = IF k <= Len(r) THEN r[k] ELSE t[k - Len(r)]
    BY ConcatProperties
  <2>2. Len(r) = a - 1 /\ Len(t) = b
    BY <1>1
  <2> QED
    BY ONLY <2>1, <2>2
<1>5. ASSUME NEW k \in 1 .. a + b - 1
      PROVE  (r \o t)[k] = IF k < n THEN (s \o t)[k] ELSE (s \o t)[k + 1]
  <2>1. n \in 1 .. a /\ k \in 1 .. (a - 1) + b /\ k \in 1 .. a + b /\ k + 1 \in 1 .. a + b
    BY <1>1
  <2>2. CASE k <= a - 1
    <3>1. k \in 1 .. a - 1 /\ k <= a /\ k + 1 <= a
      BY <1>1, <2>2
    <3> QED
      BY ONLY <1>2, <1>3, <1>4, <2>1, <2>2, <3>1
  <2>3. CASE ~(k <= a - 1)
    <3>1. ~(k + 1 <= a) /\ ~(k < n) /\ k - (a - 1) = (k + 1) - a
      BY <1>1, <2>1, <2>3
    <3> QED
      BY ONLY <1>3, <1>4, <2>1, <2>3, <3>1
  <2> QED
    BY <2>2, <2>3
<1>6. n \in 1 .. a /\ (a - 1) + b = (a + b) - 1 /\ a + b \in Nat /\ n \in 1 .. a + b
  BY <1>1
<1>7. Len(s \o t) \in Nat /\ n \in 1 .. Len(s \o t) /\ (s \o t)[n] = s[n]
  BY ONLY <1>3, <1>6
<1>8. Len(r \o t) = Len(s \o t) - 1
  BY ONLY <1>3, <1>4, <1>6
<1> QED
  BY ONLY <1>3, <1>5, <1>7, <1>8
=================================================================================
