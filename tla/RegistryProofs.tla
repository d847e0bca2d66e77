----------------------------- MODULE RegistryProofs -----------------------------
(***************************************************************************)
(* The registry's table for any number of chains, cells and keys.          *)
(***************************************************************************)
EXTENDS Registry, FiniteSetTheorems, WellFoundedInduction, TLAPS

----------------------------------------------------------------------------
(* The loop along the pointers f, from the cells of S. *)

Pointers == [Cells -> Cells \cup {NULL}]

Shut(f, C) == \A c \in C : f[c] \in C \cup {NULL}

\* The cells that every set has that holds S and that f does not lead out of.
Reach(f, S) ==
  {c \in Cells : \A C \in SUBSET Cells : S \ {NULL} \subseteq C /\ Shut(f, C) => c \in C}

\* m has the cells met after each round of the loop.
Rounds(f, S, n, m) ==
  m = [i \in 1 .. n |-> IF i = 1 THEN S \ {NULL}
                        ELSE m[i - 1] \cup ({f[c] : c \in m[i - 1]} \ {NULL})]

Looped(f, S) == (CHOOSE m : Rounds(f, S, Longest, m))[Longest]

\* A set of numbers that holds 0 and with each number the next one holds all.
LEMMA Induction ==
  ASSUME NEW A \in SUBSET Nat, 0 \in A, \A n \in A : n + 1 \in A
  PROVE  A = Nat
<1> SUFFICES ASSUME NEW b \in Nat, b \notin A PROVE FALSE
  OBVIOUS
<1> DEFINE T == {0 .. n - 1 : n \in Nat \ A}
<1>1. T \subseteq FiniteSubsetsOf(Nat)
  <2> SUFFICES ASSUME NEW n \in Nat PROVE 0 .. n - 1 \in FiniteSubsetsOf(Nat)
    OBVIOUS
  <2>1. IsFiniteSet(0 .. n - 1)
    BY FS_Interval
  <2> QED
    BY <2>1 DEF FiniteSubsetsOf
<1>2. T # {}
  OBVIOUS
<1>3. IsWellFoundedOn(StrictSubsetOrdering(Nat), FiniteSubsetsOf(Nat))
  BY FS_StrictSubsetOrderingWellFounded
<1>4. PICK x \in T : \A y \in T : <<y, x>> \notin StrictSubsetOrdering(Nat)
  <2> HIDE DEF T
  <2> QED
    BY <1>1, <1>2, <1>3, WFMin
<1>5. PICK n \in Nat : n \notin A /\ x = 0 .. n - 1
  BY <1>4
<1>6. n - 1 \in Nat /\ n - 1 \notin A
  BY <1>5
<1>7. 0 .. (n - 1) - 1 \in T
  BY <1>6
<1>8. <<0 .. (n - 1) - 1, x>> \in StrictSubsetOrdering(Nat)
  <2>1. 0 .. (n - 1) - 1 \subseteq x /\ n - 1 \in x /\ n - 1 \notin 0 .. (n - 1) - 1
    BY <1>5, <1>6
  <2>2. x \subseteq Nat
    BY <1>5
  <2> QED
    BY <2>1, <2>2 DEF StrictSubsetOrdering
<1> QED
  BY <1>4, <1>7, <1>8

\* The loop of the model, now and after a step.
LEMMA FollowIsLooped ==
  /\ \A S : Follow(S) = Looped(next, S)
  /\ \A S : Follow(S)' = Looped(next', S)
  BY DEF Follow, Looped, Rounds
\* The rounds of the loop are well defined.
LEMMA RoundsExist ==
  ASSUME NEW f, NEW S, NEW n \in Nat
  PROVE  \E m : Rounds(f, S, n, m)
<1> DEFINE A == {k \in Nat : \E m : Rounds(f, S, k, m)}
<1>1. 0 \in A
  <2>1. Rounds(f, S, 0, <<>>)
    BY DEF Rounds
  <2> QED
    BY <2>1
<1>2. ASSUME NEW k \in A PROVE k + 1 \in A
  <2>1. PICK m : Rounds(f, S, k, m)
    OBVIOUS
  <2> DEFINE Round(i) == IF i = 1 THEN S \ {NULL}
                         ELSE m[i - 1] \cup ({f[c] : c \in m[i - 1]} \ {NULL})
             r == [i \in 1 .. k + 1 |-> Round(i)]
  <2>2. \A i \in 1 .. k : r[i] = m[i]
    <3>1. m = [i \in 1 .. k |-> Round(i)]
      BY <2>1 DEF Rounds
    <3> HIDE DEF Round
    <3> QED
      BY <3>1
  <2>3. \A i \in 1 .. k + 1 : i # 1 => i - 1 \in 1 .. k
    OBVIOUS
  <2>4. r = [i \in 1 .. k + 1 |->
               IF i = 1 THEN S \ {NULL}
               ELSE r[i - 1] \cup ({f[c] : c \in r[i - 1]} \ {NULL})]
    <3>1. \A i \in 1 .. k + 1 : i # 1 => r[i - 1] = m[i - 1]
      BY <2>2, <2>3
    <3> QED
      BY <3>1
  <2>5. Rounds(f, S, k + 1, r)
    BY <2>4 DEF Rounds
  <2> QED
    BY <2>5
<1>3. A = Nat
  <2> HIDE DEF A
  <2>1. A \in SUBSET Nat
    BY DEF A
  <2> QED
    BY <1>1, <1>2, <2>1, Induction
<1> QED
  BY <1>3

\* The loop meets what it cannot avoid.
LEMMA LoopedIsReach ==
  ASSUME NEW f \in Pointers, NEW S \in SUBSET (Cells \cup {NULL})
  PROVE  Looped(f, S) = Reach(f, S)
<1> DEFINE N == Longest
           m == CHOOSE r : Rounds(f, S, N, r)
           X == Reach(f, S)
<1>1. N \in Nat /\ N >= 1
  BY CellsAssumption, FS_CardinalityType, FS_EmptySet DEF Longest
<1>2. Rounds(f, S, N, m)
  BY <1>1, RoundsExist
<1>3. Looped(f, S) = m[N]
  BY DEF Looped
<1> HIDE DEF N, m
<1>4. /\ \A i \in 1 .. N : i = 1 => m[i] = S \ {NULL}
      /\ \A i \in 1 .. N : i # 1 => m[i] = m[i - 1] \cup ({f[c] : c \in m[i - 1]} \ {NULL})
  BY <1>2 DEF Rounds
<1>5. /\ X \subseteq Cells /\ S \ {NULL} \subseteq X /\ Shut(f, X)
      /\ \A C \in SUBSET Cells : S \ {NULL} \subseteq C /\ Shut(f, C) => X \subseteq C
  BY DEF Reach, Shut, Pointers
<1> HIDE DEF X
<1>6. \A i \in 1 .. N : m[i] \subseteq X /\ S \ {NULL} \subseteq m[i]
  <2> DEFINE A == {k \in Nat : k + 1 \in 1 .. N => /\ m[k + 1] \subseteq X
                                                   /\ S \ {NULL} \subseteq m[k + 1]}
  <2>1. 0 \in A
    BY <1>1, <1>4, <1>5
  <2>2. ASSUME NEW k \in A PROVE k + 1 \in A
    <3> SUFFICES ASSUME k + 2 \in 1 .. N
                 PROVE  m[k + 2] \subseteq X /\ S \ {NULL} \subseteq m[k + 2]
      OBVIOUS
    <3>1. k + 1 \in 1 .. N /\ m[k + 1] \subseteq X /\ S \ {NULL} \subseteq m[k + 1]
      BY <1>1
    <3>2. m[k + 2] = m[k + 1] \cup ({f[c] : c \in m[k + 1]} \ {NULL})
      <4>1. k + 2 # 1 /\ (k + 2) - 1 = k + 1
        BY <3>1
      <4> QED
        BY <1>4, <4>1
    <3> QED
      BY <1>5, <3>1, <3>2 DEF Shut
  <2>3. A = Nat
    <3> HIDE DEF A
    <3>1. A \in SUBSET Nat
      BY DEF A
    <3> QED
      BY <2>1, <2>2, <3>1, Induction
  <2> QED
    <3> TAKE i \in 1 .. N
    <3>1. i - 1 \in Nat /\ (i - 1) + 1 = i
      BY <1>1
    <3>2. i - 1 \in A
      BY ONLY <2>3, <3>1
    <3> QED
      BY <3>1, <3>2
<1>7. \A i \in 1 .. N : /\ IsFiniteSet(m[i]) /\ Cardinality(m[i]) \in Nat
                        /\ Cardinality(m[i]) <= N /\ m[i] \subseteq Cells
                        /\ Cardinality(m[i]) = N => m[i] = Cells
  <2> TAKE i \in 1 .. N
  <2>1. m[i] \in SUBSET Cells
    BY <1>5, <1>6
  <2> QED
    BY <2>1, CellsAssumption, FS_Subset, FS_CardinalityType DEF N, Longest
<1>8. \A i \in 1 .. N : Shut(f, m[i]) \/ Cardinality(m[i]) >= i
  <2> DEFINE A == {k \in Nat : k + 1 \in 1 .. N => \/ Shut(f, m[k + 1])
                                                   \/ Cardinality(m[k + 1]) >= k + 1}
  <2>1. 0 \in A
    <3> SUFFICES ASSUME ~ Shut(f, m[1]) PROVE Cardinality(m[1]) >= 1
      OBVIOUS
    <3>1. m[1] # {} /\ 1 \in 1 .. N
      BY <1>1 DEF Shut
    <3> QED
      BY <1>7, <3>1, FS_EmptySet
  <2>2. ASSUME NEW k \in A PROVE k + 1 \in A
    <3> SUFFICES ASSUME k + 2 \in 1 .. N
                 PROVE  Shut(f, m[k + 2]) \/ Cardinality(m[k + 2]) >= k + 2
      OBVIOUS
    <3>1. /\ k \in Nat /\ k + 1 \in 1 .. N
          /\ Shut(f, m[k + 1]) \/ Cardinality(m[k + 1]) >= k + 1
      BY <1>1
    <3>2. m[k + 2] = m[k + 1] \cup ({f[c] : c \in m[k + 1]} \ {NULL})
      <4>1. k + 2 # 1 /\ (k + 2) - 1 = k + 1
        BY <3>1
      <4> QED
        BY <1>4, <4>1
    <3>3. CASE Shut(f, m[k + 1])
      <4>1. m[k + 2] = m[k + 1]
        BY <3>2, <3>3 DEF Shut
      <4> QED
        BY <3>3, <4>1
    <3>4. CASE ~ Shut(f, m[k + 1])
      <4>1. PICK c \in m[k + 1] : f[c] \notin m[k + 1] \cup {NULL}
        BY <3>4 DEF Shut
      <4>2. m[k + 1] \subseteq m[k + 2] /\ m[k + 1] # m[k + 2]
        BY <3>2, <4>1
      <4>3. /\ IsFiniteSet(m[k + 1]) /\ IsFiniteSet(m[k + 2])
            /\ Cardinality(m[k + 1]) \in Nat /\ Cardinality(m[k + 2]) \in Nat
        BY <1>7, <3>1
      <4>4. /\ Cardinality(m[k + 1]) <= Cardinality(m[k + 2])
            /\ Cardinality(m[k + 1]) # Cardinality(m[k + 2])
        BY <4>2, <4>3, FS_Subset
      <4> QED
        BY <3>1, <3>4, <4>3, <4>4
    <3> QED
      BY <3>3, <3>4
  <2>3. A = Nat
    <3> HIDE DEF A
    <3>1. A \in SUBSET Nat
      BY DEF A
    <3> QED
      BY <2>1, <2>2, <3>1, Induction
  <2> QED
    <3> TAKE i \in 1 .. N
    <3>1. i - 1 \in Nat /\ (i - 1) + 1 = i
      BY <1>1
    <3>2. i - 1 \in A
      BY ONLY <2>3, <3>1
    <3> QED
      BY <3>1, <3>2
<1>9. Shut(f, m[N])
  <2>1. N \in 1 .. N
    BY <1>1
  <2>2. CASE Cardinality(m[N]) >= N
    <3>1. m[N] = Cells
      BY <1>1, <1>7, <2>1, <2>2
    <3> QED
      BY <3>1 DEF Shut, Pointers
  <2> QED
    BY <1>8, <2>1, <2>2
<1> QED
  BY <1>1, <1>3, <1>5, <1>6, <1>7, <1>9 DEF X
----------------------------------------------------------------------------
(* What the pointers lead to, and how changes of a pointer change it. *)

\* What the definition of Reach says, in the form that is cited.
LEMMA ReachBasics ==
  ASSUME NEW f \in Pointers, NEW S \in SUBSET (Cells \cup {NULL})
  PROVE  /\ Reach(f, S) \subseteq Cells /\ NULL \notin Reach(f, S)
         /\ S \ {NULL} \subseteq Reach(f, S)
         /\ Shut(f, Reach(f, S))
         /\ \A C \in SUBSET Cells : S \ {NULL} \subseteq C /\ Shut(f, C) => Reach(f, S) \subseteq C
  BY CellsAssumption DEF Reach, Shut, Pointers

\* A loop that starts at a cell meets it, and what its pointer leads to.
LEMMA ReachFrom ==
  ASSUME NEW f \in Pointers
  PROVE  /\ Reach(f, {NULL}) = {}
         /\ \A c \in Cells : Reach(f, {c}) = {c} \cup Reach(f, {f[c]})
<1>1. Reach(f, {NULL}) = {}
  <2>1. {} \in SUBSET Cells /\ {NULL} \ {NULL} \subseteq {} /\ Shut(f, {})
    BY DEF Shut
  <2>2. {NULL} \in SUBSET (Cells \cup {NULL})
    OBVIOUS
  <2>3. Reach(f, {NULL}) \subseteq {}
    BY <2>1, <2>2, ReachBasics
  <2> QED
    BY <2>3
<1>2. ASSUME NEW c \in Cells PROVE Reach(f, {c}) = {c} \cup Reach(f, {f[c]})
  <2> DEFINE X == Reach(f, {c})
             Y == Reach(f, {f[c]})
  <2>1. {c} \in SUBSET (Cells \cup {NULL}) /\ {f[c]} \in SUBSET (Cells \cup {NULL})
    BY DEF Pointers
  <2>2. /\ X \subseteq Cells /\ c \in X /\ Shut(f, X)
        /\ \A C \in SUBSET Cells : c \in C /\ Shut(f, C) => X \subseteq C
    <3>1. c # NULL
      BY CellsAssumption
    <3> QED
      BY <2>1, <3>1, ReachBasics
  <2>3. /\ Y \subseteq Cells /\ {f[c]} \ {NULL} \subseteq Y /\ Shut(f, Y)
        /\ \A C \in SUBSET Cells : {f[c]} \ {NULL} \subseteq C /\ Shut(f, C) => Y \subseteq C
    BY <2>1, ReachBasics
  <2> HIDE DEF X, Y
  <2>4. X \subseteq {c} \cup Y
    <3>1. Shut(f, {c} \cup Y)
      BY <2>3 DEF Shut
    <3> QED
      BY <2>2, <2>3, <3>1
  <2>5. Y \subseteq X
    BY <2>2, <2>3 DEF Shut
  <2> QED
    BY <2>2, <2>4, <2>5 DEF X, Y
<1> QED
  BY <1>1, <1>2

\* Loops from several cells meet what the loops from each of them meet.
LEMMA ReachUnion ==
  ASSUME NEW f \in Pointers, NEW D, NEW T \in [D -> Cells \cup {NULL}],
         NEW S, S = {T[n] : n \in D}
  PROVE  \A c : c \in Reach(f, S) <=> \E n \in D : c \in Reach(f, {T[n]})
<1> DEFINE U == UNION {Reach(f, {T[n]}) : n \in D}
<1>1. S \in SUBSET (Cells \cup {NULL}) /\ \A n \in D : {T[n]} \in SUBSET (Cells \cup {NULL})
  OBVIOUS
<1>2. U \in SUBSET Cells /\ S \ {NULL} \subseteq U /\ Shut(f, U)
  <2>1. \A n \in D : /\ Reach(f, {T[n]}) \subseteq Cells /\ Shut(f, Reach(f, {T[n]}))
                     /\ T[n] # NULL => T[n] \in Reach(f, {T[n]})
    BY <1>1, ReachBasics
  <2>2. U \in SUBSET Cells
    BY <2>1
  <2>3. ASSUME NEW n \in D, T[n] # NULL PROVE T[n] \in U
    BY <2>1, <2>3
  <2>4. ASSUME NEW c \in U PROVE f[c] \in U \cup {NULL}
    <3>1. PICK n \in D : c \in Reach(f, {T[n]})
      OBVIOUS
    <3>2. f[c] \in Reach(f, {T[n]}) \cup {NULL}
      BY <2>1, <3>1 DEF Shut
    <3> QED
      BY <3>2
  <2> HIDE DEF U
  <2> QED
    BY <2>2, <2>3, <2>4 DEF Shut
<1>3. Reach(f, S) \subseteq U
  <2> HIDE DEF U
  <2> QED
    BY <1>1, <1>2, ReachBasics
<1>4. ASSUME NEW n \in D PROVE Reach(f, {T[n]}) \subseteq Reach(f, S)
  <2>1. {T[n]} \ {NULL} \subseteq Reach(f, S) /\ Reach(f, S) \in SUBSET Cells /\ Shut(f, Reach(f, S))
    <3>1. S \ {NULL} \subseteq Reach(f, S) /\ T[n] \in S
      BY <1>1, ReachBasics
    <3> QED
      BY <1>1, <3>1, ReachBasics
  <2> QED
    BY <1>1, <2>1, ReachBasics
<1> QED
  BY <1>3, <1>4

\* Each cell that a loop meets after the first one is behind another that it meets.
LEMMA ReachBehind ==
  ASSUME NEW f \in Pointers, NEW a \in Cells \cup {NULL}, NEW c \in Reach(f, {a}), c # a
  PROVE  \E d \in Reach(f, {a}) : f[d] = c
<1> DEFINE X == Reach(f, {a})
           C == {d \in X : d = a \/ \E e \in X : f[e] = d}
<1>1. {a} \in SUBSET (Cells \cup {NULL})
  OBVIOUS
<1>2. X \subseteq Cells /\ {a} \ {NULL} \subseteq X /\ Shut(f, X)
  BY <1>1, ReachBasics
<1>3. C \in SUBSET Cells /\ {a} \ {NULL} \subseteq C
  BY <1>2
<1>4. Shut(f, C)
  BY <1>2 DEF Shut
<1>5. X \subseteq C
  <2> HIDE DEF C
  <2> QED
    BY <1>1, <1>3, <1>4, ReachBasics
<1> QED
  BY <1>5

\* A chain: its head has no cell before it, and no two pointers lead to one cell.
Headed(f, a) ==
  /\ a \in Cells \cup {NULL}
  /\ \A c \in Cells : f[c] = a => a = NULL
  /\ \A c, d \in Cells : f[c] = f[d] /\ f[d] # NULL => c = d

\* A chain does not come back to a cell.
LEMMA NoCycle ==
  ASSUME NEW f \in Pointers, NEW a, Headed(f, a), NEW e \in Reach(f, {a})
  PROVE  e \notin Reach(f, {f[e]})
<1> DEFINE X == Reach(f, {a})
           Y == Reach(f, {f[e]})
<1> SUFFICES ASSUME e \in Y PROVE FALSE
  OBVIOUS
<1>1. {a} \in SUBSET (Cells \cup {NULL}) /\ a \in Cells \cup {NULL}
  BY DEF Headed
<1>2. X \subseteq Cells /\ {a} \ {NULL} \subseteq X /\ Shut(f, X)
  BY <1>1, ReachBasics
<1>3. e \in Cells /\ f[e] \in Cells \cup {NULL}
  BY <1>2 DEF Pointers
<1>4. Y \subseteq Cells /\ NULL \notin Y
  BY <1>3, ReachBasics
<1>5. \A c \in Y : \E d \in Y : f[d] = c
  BY <1>3, ReachBehind
<1>6. a \notin Y
  BY <1>4, <1>5 DEF Headed
<1>7. Shut(f, X \ Y)
  <2> SUFFICES ASSUME NEW c \in X, c \notin Y, f[c] \in Y PROVE FALSE
    BY <1>2 DEF Shut
  <2>1. PICK d \in Y : f[d] = f[c]
    BY <1>5
  <2>2. c = d
    BY <1>2, <1>4, <2>1 DEF Headed
  <2> QED
    BY <2>2
<1>8. X \subseteq X \ Y
  <2>1. X \ Y \in SUBSET Cells /\ {a} \ {NULL} \subseteq X \ Y
    BY <1>2, <1>6
  <2> HIDE DEF Y
  <2>2. \A C \in SUBSET Cells : {a} \ {NULL} \subseteq C /\ Shut(f, C) => X \subseteq C
    BY <1>1, ReachBasics
  <2> HIDE DEF X
  <2> QED
    BY <1>7, <2>1, <2>2
<1> QED
  BY <1>8

\* A chain has a last cell.
LEMMA LastExists ==
  ASSUME NEW f \in Pointers, NEW a \in Cells, Headed(f, a)
  PROVE  \E e \in Reach(f, {a}) : f[e] = NULL
<1> SUFFICES ASSUME \A e \in Reach(f, {a}) : f[e] # NULL PROVE FALSE
  OBVIOUS
<1> DEFINE X == Reach(f, {a})
           g == [e \in X |-> f[e]]
<1>1. {a} \in SUBSET (Cells \cup {NULL}) /\ a # NULL
  BY CellsAssumption
<1>2. X \subseteq Cells /\ a \in X /\ Shut(f, X)
  BY <1>1, ReachBasics
<1>3. g \in [X -> X \ {a}]
  BY <1>1, <1>2 DEF Shut, Headed
<1>4. IsFiniteSet(X) /\ IsFiniteSet(X \ {a}) /\ Cardinality(X \ {a}) < Cardinality(X)
  <2> HIDE DEF X
  <2>1. IsFiniteSet(X)
    BY <1>2, CellsAssumption, FS_Subset
  <2>2. /\ Cardinality(X) \in Nat /\ IsFiniteSet(X \ {a})
        /\ Cardinality(X \ {a}) = Cardinality(X) - 1
    BY <1>2, <2>1, FS_RemoveElement, FS_CardinalityType
  <2> QED
    BY <2>1, <2>2
<1>5. PICK c, d \in X : c # d /\ g[c] = g[d]
  <2> HIDE DEF X, g
  <2> QED
    BY <1>3, <1>4, FS_PigeonHole
<1>6. f[c] = f[d] /\ f[d] # NULL /\ c \in Cells /\ d \in Cells
  BY <1>2, <1>5
<1> QED
  BY <1>5, <1>6 DEF Headed

\* A cell is linked behind the last one.
LEMMA ReachAppend ==
  ASSUME NEW f \in Pointers, NEW S \in SUBSET (Cells \cup {NULL}),
         NEW l \in Cells, f[l] = NULL, NEW e \in Cells, f[e] = NULL, e # l,
         NEW g \in Pointers, g[l] = e, \A c \in Cells \ {l} : g[c] = f[c]
  PROVE  Reach(g, S) = IF l \in Reach(f, S) THEN Reach(f, S) \cup {e} ELSE Reach(f, S)
<1> DEFINE X == Reach(f, S)
           Y == Reach(g, S)
<1>1. /\ g \in Pointers /\ g[l] = e /\ \A c \in Cells : c # l => g[c] = f[c]
  OBVIOUS
<1>2. /\ X \subseteq Cells /\ S \ {NULL} \subseteq X /\ Shut(f, X)
      /\ \A C \in SUBSET Cells : S \ {NULL} \subseteq C /\ Shut(f, C) => X \subseteq C
  BY ReachBasics
<1>3. /\ Y \subseteq Cells /\ S \ {NULL} \subseteq Y /\ Shut(g, Y)
      /\ \A C \in SUBSET Cells : S \ {NULL} \subseteq C /\ Shut(g, C) => Y \subseteq C
  BY <1>1, ReachBasics
<1> HIDE DEF X, Y
<1>4. X \subseteq Y
  <2>1. Shut(f, Y)
    BY <1>1, <1>3 DEF Shut
  <2> QED
    BY <1>2, <1>3, <2>1
<1>5. CASE l \in X
  <2>1. Shut(g, X \cup {e})
    BY <1>1, <1>2, <1>5 DEF Shut
  <2>2. Y \subseteq X \cup {e}
    BY <1>2, <1>3, <2>1
  <2>3. e \in Y
    BY <1>1, <1>3, <1>4, <1>5, CellsAssumption DEF Shut
  <2> QED
    BY <1>1, <1>4, <1>5, <2>2, <2>3 DEF X, Y
<1>6. CASE l \notin X
  <2>1. Shut(g, X)
    BY <1>1, <1>2, <1>6 DEF Shut
  <2>2. Y \subseteq X
    BY <1>2, <1>3, <2>1
  <2> QED
    BY <1>1, <1>4, <1>6, <2>2 DEF X, Y
<1> QED
  BY <1>5, <1>6

\* A cell is taken out.
Without(f, d) ==
  [c \in Cells |-> IF c = d THEN NULL ELSE IF f[c] = d THEN f[d] ELSE f[c]]

\* A loop that starts elsewhere meets the same cells without the one taken out.
LEMMA ReachWithout ==
  ASSUME NEW f \in Pointers, NEW S \in SUBSET (Cells \cup {NULL}),
         NEW d \in Cells, d \notin S, f[d] # d,
         NEW g, g = Without(f, d)
  PROVE  g \in Pointers /\ Reach(g, S) = Reach(f, S) \ {d}
<1> DEFINE X == Reach(f, S)
           Y == Reach(g, S)
           Z == Y \cup IF f[d] \in Y \cup {NULL} THEN {d} ELSE {}
<1>1. /\ g \in Pointers /\ g[d] = NULL
      /\ \A c \in Cells : c # d /\ f[c] = d => g[c] = f[d]
      /\ \A c \in Cells : c # d /\ f[c] # d => g[c] = f[c]
  BY DEF Pointers, Without
<1>2. /\ X \subseteq Cells /\ S \ {NULL} \subseteq X /\ Shut(f, X)
      /\ \A C \in SUBSET Cells : S \ {NULL} \subseteq C /\ Shut(f, C) => X \subseteq C
  BY ReachBasics
<1>3. /\ Y \subseteq Cells /\ S \ {NULL} \subseteq Y /\ Shut(g, Y)
      /\ \A C \in SUBSET Cells : S \ {NULL} \subseteq C /\ Shut(g, C) => Y \subseteq C
  BY <1>1, ReachBasics
<1> HIDE DEF X, Y
<1>4. Y \subseteq X \ {d}
  <2>1. Shut(g, X \ {d})
    <3> SUFFICES ASSUME NEW c \in X \ {d} PROVE g[c] \in (X \ {d}) \cup {NULL}
      BY DEF Shut
    <3>1. c \in Cells /\ f[c] \in X \cup {NULL}
      BY <1>2 DEF Shut
    <3>2. CASE f[c] = d
      <4>1. d \in X
        BY <3>1, <3>2, CellsAssumption
      <4> QED
        BY <1>1, <1>2, <3>1, <3>2, <4>1 DEF Shut
    <3> QED
      BY <1>1, <3>1, <3>2
  <2> QED
    BY <1>2, <1>3, <2>1
<1>5. Shut(f, Z)
  <2> SUFFICES ASSUME NEW c \in Z PROVE f[c] \in Z \cup {NULL}
    BY DEF Shut
  <2>1. CASE c = d
    BY <1>4, <2>1
  <2>2. CASE c # d
    <3>1. c \in Y /\ c \in Cells
      BY <1>3, <2>2
    <3>2. g[c] \in Y \cup {NULL}
      BY <1>3, <3>1 DEF Shut
    <3> QED
      BY <1>1, <2>2, <3>1, <3>2
  <2> QED
    BY <2>1, <2>2
<1>6. X \subseteq Z
  <2>1. Z \in SUBSET Cells /\ S \ {NULL} \subseteq Z
    BY <1>3
  <2> HIDE DEF Z
  <2> QED
    BY <1>2, <1>5, <2>1
<1> QED
  BY <1>1, <1>4, <1>6 DEF X, Y
----------------------------------------------------------------------------
(* The invariant of the table and of the threads that use it, as long as no    *)
(* thread has been deprived of a cell that it holds.                           *)

\* The cells of a chain, given the pointers f and the heads T.
List(f, T, n) == Reach(f, {T[n]})

\* The cells that are not in a chain yet, or no longer.
Unlinked == (Cells \ allocated) \cup IF adding = NULL THEN {} ELSE {adding.entry}

\* No two pointers of the table lead to the same cell, and none to an unlinked one.
Chained ==
  /\ \A n \in DOMAIN Table : Headed(next, Table[n]) /\ Table[n] \notin Unlinked
  /\ \A m, n \in DOMAIN Table : Table[m] = Table[n] /\ Table[n] # NULL => m = n
  /\ \A c \in Cells : next[c] \notin Unlinked
  /\ \A c \in Unlinked : next[c] = NULL

\* A client is in the chain of its key, which no other client has.
Filed ==
  /\ \A c \in allocated : key[c] \in Keys
  /\ \A c, d \in allocated : key[c] = key[d] => c = d
  /\ \A c \in Cells \ Unlinked : c \in List(next, Table, compute_Hash(key[c]))
  /\ \A n \in DOMAIN Table : \A c \in List(next, Table, n) : compute_Hash(key[c]) = n

\* The new cell has its record.
Allocated == adding # NULL => adding.entry \in allocated

\* What holds of the table whatever the threads have done to each other.
Kept == TypeOK /\ Chained /\ Filed /\ Allocated

\* The place that add_Hash found for the new cell.
Placed ==
  adding # NULL =>
    /\ walk["main"] = Idle /\ Inactive("main")
    /\ LET n == compute_Hash(key[adding.entry])
       IN  IF adding.last = NULL THEN Table[n] = NULL
           ELSE adding.last \in List(next, Table, n) /\ next[adding.last] = NULL

\* The client that a walk at w was called with is still there.
AtClient(f, T, k, w) ==
  /\ w.entry \in List(f, T, w.i) /\ k[w.entry] = w.arg
  /\ w.next_entry \in {NULL, f[w.entry]}

\* A walk at w goes on to a cell of the chain it is in, and one that works on the
\* record of a client has it.
InPlace(f, T, k, w) ==
  /\ w.at = "idle" => w = Idle
  /\ w.at = "pass" => (w.entry = NULL \/ w.entry \in List(f, T, w.i)) /\ w.next_entry = NULL
  /\ w.at = "func" =>
       /\ w.arg \in Keys
       /\ \/ w.next_entry = NULL
          \/ w.next_entry \in List(f, T, w.i) /\ k[w.next_entry] # w.arg
       /\ w.func \in WithRecord => AtClient(f, T, k, w)

Walking == \A t \in Walkers : InPlace(next, Table, key, walk[t])

\* The deletion d takes out a linked cell, from where the chain leads to it.
Cuts(f, T, k, d) ==
  /\ d.cell \in Cells \ {NULL}
  /\ IF d.pred = NULL THEN T[compute_Hash(k[d.cell])] = d.cell ELSE f[d.pred] = d.cell

\* A deletion belongs to the function of a walk, or to an event that main handles.
Deleting ==
  \A t \in Walkers :
    \/ Inactive(t)
    \/ /\ Cuts(next, Table, key, deleting[t]) /\ deleting[t].cell \notin Unlinked
       /\ \/ walk[t].at = "func" /\ key[deleting[t].cell] = walk[t].arg
          \/ t = "main" /\ walk[t] = Idle /\ adding = NULL

Later(f, T, n) == UNION {List(f, T, m) : m \in n + 1 .. MAX_CLIENTS - 1}

\* The cells that a walk at w has not left yet.
Ahead(f, T, w) ==
  IF w.at = "idle" THEN {}
  ELSE Later(f, T, w.i) \cup
       IF w.at = "pass" THEN Reach(f, {w.entry})
       ELSE {w.entry} \cup Reach(f, {w.next_entry})

\* The services thread has each client that stays behind it, or ahead of it.
Serviced ==
  LET w == walk["services"]
  IN  w # Idle =>
        /\ w.func = "handle_client_services"
        /\ present \subseteq visited \cup Ahead(next, Table, w)
        /\ visited \cap (Ahead(next, Table, w) \cup Unlinked) = {}

TableInv == Kept /\ Placed /\ Walking /\ Deleting /\ Serviced

----------------------------------------------------------------------------
(* The operators of the model in these terms. *)

\* A key is hashed to one of the chains.
LEMMA HashRange ==
  ASSUME NEW k \in Keys
  PROVE  compute_Hash(k) \in 0 .. MAX_CLIENTS - 1
<1>1. k \in Nat /\ MAX_CLIENTS \in Nat /\ MAX_CLIENTS > 0
  BY KeysAssumption, TableAssumption
<1> QED
  BY <1>1 DEF compute_Hash

\* The chains of the model are Reach from their heads.
LEMMA Views ==
  ASSUME TypeOK
  PROVE  /\ next \in Pointers /\ Table \in [0 .. MAX_CLIENTS - 1 -> Cells \cup {NULL}]
         /\ \A n \in DOMAIN Table : Chain(n) = List(next, Table, n)
         /\ Linked = UNION {List(next, Table, n) : n \in DOMAIN Table}
         /\ \A n \in DOMAIN Table : List(next, Table, n) \subseteq Cells
<1>1. next \in Pointers /\ Table \in [0 .. MAX_CLIENTS - 1 -> Cells \cup {NULL}]
  BY DEF TypeOK, Pointers
<1>2. \A n \in DOMAIN Table : {Table[n]} \in SUBSET (Cells \cup {NULL})
  BY <1>1
<1>3. ASSUME NEW n \in DOMAIN Table
      PROVE  Chain(n) = List(next, Table, n) /\ List(next, Table, n) \subseteq Cells
  <2>1. Chain(n) = Looped(next, {Table[n]})
    BY FollowIsLooped DEF Chain
  <2> QED
    BY <1>1, <1>2, <2>1, LoopedIsReach, ReachBasics DEF List
<1>4. Linked = UNION {List(next, Table, n) : n \in DOMAIN Table}
  <2>1. PICK S : S = {Table[n] : n \in DOMAIN Table}
    OBVIOUS
  <2>2. Linked = Looped(next, S) /\ S \in SUBSET (Cells \cup {NULL})
    BY <1>1, <2>1, FollowIsLooped DEF Linked
  <2>3. Linked = Reach(next, S)
    BY <1>1, <2>2, LoopedIsReach
  <2>4. Table \in [DOMAIN Table -> Cells \cup {NULL}]
    BY <1>1
  <2>5. \A c : c \in Reach(next, S) <=> \E n \in DOMAIN Table : c \in List(next, Table, n)
    BY <1>1, <2>1, <2>4, ReachUnion DEF List
  <2> QED
    BY <2>3, <2>5
<1> QED
  BY <1>1, <1>3, <1>4

\* The same after a step, of the chains.
LEMMA ViewsAfter ==
  ASSUME TypeOK'
  PROVE  /\ next' \in Pointers /\ Table' \in [0 .. MAX_CLIENTS - 1 -> Cells \cup {NULL}]
         /\ \A n \in DOMAIN Table' : Chain(n)' = List(next', Table', n)
<1>1. next' \in Pointers /\ Table' \in [0 .. MAX_CLIENTS - 1 -> Cells \cup {NULL}]
  BY DEF TypeOK, Pointers
<1>2. ASSUME NEW n \in DOMAIN Table' PROVE Chain(n)' = List(next', Table', n)
  <2>1. Chain(n)' = Looped(next', {Table'[n]})
    BY DEF Chain, Follow, Looped, Rounds
  <2>2. {Table'[n]} \in SUBSET (Cells \cup {NULL})
    BY <1>1
  <2> QED
    BY <1>1, <2>1, <2>2, LoopedIsReach DEF List
<1> QED
  BY <1>1, <1>2

\* The chains have the linked cells, each in the chain of its key only.
LEMMA ListsLinked ==
  ASSUME TypeOK, Chained
  PROVE  \A n \in DOMAIN Table : List(next, Table, n) \subseteq Cells \ Unlinked
<1> SUFFICES ASSUME NEW n \in DOMAIN Table
             PROVE  List(next, Table, n) \subseteq Cells \ Unlinked
  OBVIOUS
<1>1. next \in Pointers /\ {Table[n]} \in SUBSET (Cells \cup {NULL})
  BY Views
<1>2. Shut(next, Cells \ Unlinked) /\ {Table[n]} \ {NULL} \subseteq Cells \ Unlinked
  BY <1>1 DEF Chained, Shut, Pointers
<1> HIDE DEF Unlinked
<1> QED
  BY <1>1, <1>2, ReachBasics DEF List

\* lookup_Hash finds the linked cell of a key.
LEMMA LookedUp ==
  ASSUME TypeOK, Chained, Filed
  PROVE  /\ \A k \in Keys : \/ lookup_Hash(k) = NULL
                            \/ lookup_Hash(k) \in Cells \ Unlinked /\ key[lookup_Hash(k)] = k
         /\ \A c \in Cells \ Unlinked : lookup_Hash(key[c]) = c
<1>1. ASSUME NEW k
      PROVE  LET M == {c \in Chain(compute_Hash(k)) : key[c] = k}
             IN  (M = {} /\ lookup_Hash(k) = NULL) \/ (M # {} /\ lookup_Hash(k) \in M)
  BY DEF lookup_Hash
<1>2. Cells \ Unlinked \subseteq allocated
  BY DEF Unlinked
<1>3. DOMAIN Table = 0 .. MAX_CLIENTS - 1
  BY Views
<1>4. ASSUME NEW k \in Keys
      PROVE  \/ lookup_Hash(k) = NULL
             \/ lookup_Hash(k) \in Cells \ Unlinked /\ key[lookup_Hash(k)] = k
  <2>1. Chain(compute_Hash(k)) \subseteq Cells \ Unlinked
    BY <1>3, <1>4, HashRange, Views, ListsLinked
  <2> QED
    BY <1>1, <2>1
<1>5. ASSUME NEW c \in Cells \ Unlinked PROVE lookup_Hash(key[c]) = c
  <2>1. key[c] \in Keys
    BY <1>2 DEF Filed
  <2>2. compute_Hash(key[c]) \in DOMAIN Table
    BY <1>3, <2>1, HashRange
  <2>3. c \in Chain(compute_Hash(key[c]))
    BY <2>2, Views DEF Filed
  <2>4. lookup_Hash(key[c]) # NULL \/ lookup_Hash(key[c]) = c
    <3>1. lookup_Hash(key[c]) \in {d \in Chain(compute_Hash(key[c])) : key[d] = key[c]}
      BY <1>1, <2>3
    <3>2. Chain(compute_Hash(key[c])) \subseteq Cells
      BY <2>2, Views
    <3> QED
      BY <3>1, <3>2, CellsAssumption
  <2> QED
    BY <1>2, <1>4, <2>1, <2>4 DEF Filed
<1> QED
  BY <1>4, <1>5

\* The loop of add_Hash finds no cell only in an empty chain.
LEMMA LastFound ==
  ASSUME TypeOK, Chained, NEW n \in DOMAIN Table
  PROVE  \/ LastEntry(n) = NULL /\ Table[n] = NULL
         \/ /\ LastEntry(n) \in List(next, Table, n) /\ LastEntry(n) \in Cells
            /\ next[LastEntry(n)] = NULL
<1>1. LET L == {c \in Chain(n) : next[c] = NULL}
      IN  (L = {} /\ LastEntry(n) = NULL) \/ LastEntry(n) \in L
  BY DEF LastEntry
<1>2. /\ Chain(n) = List(next, Table, n) /\ Chain(n) \subseteq Cells
      /\ next \in Pointers /\ Table[n] \in Cells \cup {NULL}
  BY Views
<1>3. CASE Table[n] # NULL
  <2>1. \E c \in Chain(n) : next[c] = NULL
    BY <1>2, <1>3, LastExists DEF List, Chained
  <2> QED
    BY <1>1, <1>2, <2>1
<1>4. CASE Table[n] = NULL
  <2>1. Chain(n) = {}
    BY <1>2, <1>4, ReachFrom DEF List
  <2> QED
    BY <1>1, <1>4, <2>1
<1> QED
  BY <1>3, <1>4


\* The loop of delete_value_hash finds from where a linked cell is led to.
LEMMA PredecessorFound ==
  ASSUME TypeOK, Chained, Filed, NEW c \in Cells \ Unlinked,
         NEW d, d = [cell |-> c, pred |-> Before(compute_Hash(key[c]), c)]
  PROVE  Cuts(next, Table, key, d) /\ d.pred \in Cells \cup {NULL}
<1>1. PICK n, p : n = compute_Hash(key[c]) /\ p = Before(n, c)
  OBVIOUS
<1>2. d.cell = c /\ d.pred = p /\ c # NULL
  BY <1>1, CellsAssumption
<1>3. n \in DOMAIN Table
  <2>1. key[c] \in Keys
    BY DEF Filed, Unlinked
  <2> QED
    BY <1>1, <2>1, HashRange, Views
<1>4. /\ Chain(n) = List(next, Table, n) /\ Chain(n) \subseteq Cells
      /\ next \in Pointers /\ Table[n] \in Cells \cup {NULL} /\ c \in List(next, Table, n)
  BY <1>1, <1>3, Views DEF Filed
<1>5. LET P == {e \in Chain(n) : next[e] = c}
      IN  (P = {} /\ p = NULL) \/ p \in P
  BY <1>1 DEF Before
<1>6. CASE p = NULL
  <2>1. \A e \in Chain(n) : next[e] # c
    BY <1>4, <1>5, <1>6, CellsAssumption
  <2>2. Table[n] = c
    BY <1>4, <2>1, ReachBehind DEF List
  <2> QED
    BY <1>1, <1>2, <1>6, <2>2 DEF Cuts
<1>7. CASE p # NULL
  BY <1>2, <1>4, <1>5, <1>7 DEF Cuts
<1> QED
  BY <1>6, <1>7

----------------------------------------------------------------------------
(* The steps. *)

Steps == [at : {"idle", "pass", "func"}, func : WithRecord \cup WithKey \cup {"none"},
          i : 0 .. MAX_CLIENTS - 1, entry : Cells \cup {NULL},
          next_entry : Cells \cup {NULL}, arg : Keys \cup {0}]

Deletions == [cell : Cells \cup {NULL}, pred : Cells \cup {NULL}]

\* The types of what the threads do, by these names.
LEMMA ThreadTypes ==
  /\ TypeOK => walk \in [Walkers -> Steps] /\ deleting \in [Walkers -> Deletions]
  /\ Kept => /\ walk \in [Walkers -> Steps] /\ deleting \in [Walkers -> Deletions]
             /\ Linked \subseteq Cells
<1>1. TypeOK => walk \in [Walkers -> Steps] /\ deleting \in [Walkers -> Deletions]
  BY DEF TypeOK, Steps, Deletions
<1>2. TypeOK => Linked \subseteq Cells
  BY Views
<1> QED
  BY <1>1, <1>2 DEF Kept

\* A cell is taken for a new client.
LEMMA AddStep ==
  ASSUME TableInv, NEW k \in Keys, add_Hash(k)
  PROVE  /\ TableInv' /\ UNCHANGED <<walk, dangling>>
         /\ Unlinked' = Unlinked /\ \A d \in Cells \ Unlinked : key'[d] = key[d]
<1> USE DEF TableInv, Kept
<1>1. /\ adding = NULL /\ walk["main"] = Idle /\ Inactive("main") /\ lookup_Hash(k) = NULL
      /\ UNCHANGED <<Table, walk, deleting, dangling, present, visited, process>>
  BY DEF add_Hash, MainFree, history
<1>2. PICK c \in Cells \ allocated :
        /\ allocated' = allocated \cup {c}
        /\ key' = [key EXCEPT ![c] = k]
        /\ next' = [next EXCEPT ![c] = NULL]
        /\ adding' = [entry |-> c, last |-> LastEntry(compute_Hash(k))]
  BY DEF add_Hash
<1>3. PICK l : l = LastEntry(compute_Hash(k))
  OBVIOUS
<1>4. compute_Hash(k) \in DOMAIN Table
  BY HashRange, Views
<1>5. \/ l = NULL /\ Table[compute_Hash(k)] = NULL
      \/ l \in List(next, Table, compute_Hash(k)) /\ l \in Cells /\ next[l] = NULL
  BY <1>3, <1>4, LastFound
<1>6. adding' \in Additions /\ adding' # NULL /\ adding'.entry = c /\ adding'.last = l
  BY <1>2, <1>3, <1>5, NullAssumption DEF Additions
<1>7. c \in Unlinked /\ Unlinked' = Unlinked /\ Unlinked = Cells \ allocated
  BY <1>1, <1>2, <1>6 DEF Unlinked
<1>8. next' = next
  <2>1. next[c] = NULL
    BY <1>7 DEF Chained
  <2> QED
    BY <1>2, <2>1 DEF TypeOK
<1>9. TypeOK'
  BY <1>1, <1>2, <1>6, <1>8 DEF TypeOK
<1>10. Chained'
  BY <1>1, <1>7, <1>8 DEF Chained
<1>11. key'[c] = k /\ \A d \in Cells : d # c => key'[d] = key[d]
  BY <1>2 DEF TypeOK
<1>12. \A n \in DOMAIN Table : c \notin List(next, Table, n) /\ List(next, Table, n) \subseteq Cells
  BY <1>7, ListsLinked, Views
<1>13. Filed'
  <2>1. \A d \in allocated : key[d] # k
    <3> SUFFICES ASSUME NEW d \in allocated, key[d] = k PROVE FALSE
      OBVIOUS
    <3>1. d \in Cells \ Unlinked
      BY <1>7 DEF TypeOK
    <3>2. lookup_Hash(k) = d
      BY <3>1, LookedUp
    <3> QED
      BY <1>1, <3>1, <3>2, CellsAssumption
  <2>2. \A d \in allocated' : key'[d] \in Keys
    BY <1>2, <1>11 DEF Filed, TypeOK
  <2>3. \A d, e \in allocated' : key'[d] = key'[e] => d = e
    BY <1>2, <1>11, <2>1 DEF Filed, TypeOK
  <2>4. \A d \in Cells \ Unlinked' : d \in List(next', Table', compute_Hash(key'[d]))
    BY <1>1, <1>7, <1>8, <1>11 DEF Filed
  <2>5. \A n \in DOMAIN Table' : \A d \in List(next', Table', n) : compute_Hash(key'[d]) = n
    BY <1>1, <1>8, <1>11, <1>12 DEF Filed
  <2> QED
    BY <2>2, <2>3, <2>4, <2>5 DEF Filed
<1>14. Placed' /\ Allocated'
  <2>1. key'[adding'.entry] = k
    BY <1>6, <1>11
  <2>2. adding'.entry \in allocated' /\ walk'["main"] = Idle /\ deleting'["main"] = NoDeletion
    BY <1>1, <1>2, <1>6 DEF Inactive
  <2>3. LET n == compute_Hash(key'[adding'.entry])
        IN  IF adding'.last = NULL THEN Table'[n] = NULL
            ELSE adding'.last \in List(next', Table', n) /\ next'[adding'.last] = NULL
    BY ONLY <1>1, <1>5, <1>6, <1>8, <2>1, CellsAssumption
  <2> QED
    BY ONLY <2>2, <2>3 DEF Placed, Allocated, Inactive
<1>15. Walking'
  <2> SUFFICES ASSUME NEW t \in Walkers PROVE InPlace(next', Table', key', walk'[t])
    BY DEF Walking
  <2>1. PICK w : w = walk[t]
    OBVIOUS
  <2>2. InPlace(next, Table, key, w) /\ w.i \in DOMAIN Table
    BY <2>1 DEF Walking, TypeOK
  <2>3. \A d \in List(next, Table, w.i) : key'[d] = key[d]
    BY <1>11, <1>12, <2>2
  <2>4. InPlace(next, Table, key', w)
    BY ONLY <2>2, <2>3 DEF InPlace, AtClient
  <2> QED
    BY ONLY <1>1, <1>8, <2>1, <2>4
<1>16. Deleting'
  <2> SUFFICES ASSUME NEW t \in Walkers, ~Inactive(t)
               PROVE  /\ Cuts(next', Table', key', deleting'[t]) /\ deleting'[t].cell \notin Unlinked'
                      /\ walk'[t].at = "func" /\ key'[deleting'[t].cell] = walk'[t].arg
    BY <1>1 DEF Deleting, Inactive
  <2>1. t # "main"
    BY <1>1
  <2>2. PICK d : d = deleting[t]
    OBVIOUS
  <2>3. /\ Cuts(next, Table, key, d) /\ d.cell \notin Unlinked
        /\ walk[t].at = "func" /\ key[d.cell] = walk[t].arg
    BY <2>1, <2>2 DEF Deleting
  <2>4. key'[d.cell] = key[d.cell]
    BY <1>7, <1>11, <2>3 DEF Cuts
  <2> QED
    BY ONLY <1>1, <1>7, <1>8, <2>2, <2>3, <2>4 DEF Cuts
<1>17. Serviced'
  BY <1>1, <1>7, <1>8 DEF Serviced
<1> QED
  BY <1>1, <1>7, <1>9, <1>10, <1>11, <1>13, <1>14, <1>15, <1>16, <1>17

\* The store that makes a cell visible appends it to the chain of its key.
LEMMA LinkStep ==
  ASSUME TableInv, add_Hash_link
  PROVE  /\ TableInv' /\ UNCHANGED <<key, walk, dangling>>
         /\ adding.entry \in Cells \cap Unlinked /\ Unlinked' = Unlinked \ {adding.entry}
<1> USE DEF TableInv, Kept
<1>1. /\ adding # NULL /\ adding' = NULL
      /\ UNCHANGED <<key, allocated, walk, deleting, dangling, present, visited, process>>
  BY DEF add_Hash_link, history
<1>2. PICK e, l, n : e = adding.entry /\ l = adding.last /\ n = compute_Hash(key[e])
  OBVIOUS
<1>3. adding \in Additions
  BY <1>1 DEF TypeOK
<1>4. /\ e \in Cells /\ e \in allocated /\ e \in Unlinked /\ next[e] = NULL /\ l \in Cells \cup {NULL}
      /\ n \in DOMAIN Table /\ DOMAIN Table = 0 .. MAX_CLIENTS - 1
  <2>1. e \in Cells /\ l \in Cells \cup {NULL}
    BY <1>2, <1>3 DEF Additions
  <2>2. e \in allocated /\ e \in Unlinked /\ next[e] = NULL
    BY <1>1, <1>2, <2>1 DEF Allocated, Unlinked, Chained
  <2>3. DOMAIN Table = 0 .. MAX_CLIENTS - 1 /\ key[e] \in Keys
    BY <2>2, Views DEF Filed
  <2> QED
    BY <1>2, <2>1, <2>2, <2>3, HashRange
<1>5. IF l = NULL THEN Table[n] = NULL ELSE l \in List(next, Table, n) /\ next[l] = NULL
  BY <1>1, <1>2 DEF Placed
<1>6. IF l = NULL THEN Table' = [Table EXCEPT ![n] = e] /\ next' = next
                  ELSE next' = [next EXCEPT ![l] = e] /\ Table' = Table
  BY <1>2 DEF add_Hash_link
<1>7. Unlinked' = Unlinked \ {e}
  BY <1>1, <1>2, <1>4 DEF Unlinked
<1>8. \A m \in DOMAIN Table : List(next, Table, m) \subseteq Cells \ Unlinked
  BY ListsLinked
<1>9. next \in Pointers /\ Table \in [0 .. MAX_CLIENTS - 1 -> Cells \cup {NULL}]
  BY Views
<1>10. l # e /\ (l # NULL => l \in Cells \ Unlinked)
  BY <1>4, <1>5, <1>8, CellsAssumption
<1>11. TypeOK'
  BY <1>1, <1>4, <1>6, <1>10 DEF TypeOK
<1>12. DOMAIN Table' = DOMAIN Table
  BY <1>6, <1>9
<1>13. ASSUME l # NULL, NEW S \in SUBSET (Cells \cup {NULL})
       PROVE  Reach(next', S) = IF l \in Reach(next, S) THEN Reach(next, S) \cup {e}
                                ELSE Reach(next, S)
  <2>1. PICK f, g : f = next /\ g = next'
    OBVIOUS
  <2>2. /\ f \in Pointers /\ l \in Cells /\ f[l] = NULL /\ e \in Cells /\ f[e] = NULL /\ e # l
    BY ONLY <1>4, <1>5, <1>9, <1>10, <1>13, <2>1
  <2>4. g \in Pointers /\ g[l] = e /\ \A c \in Cells \ {l} : g[c] = f[c]
    BY ONLY <1>6, <1>13, <2>1, <2>2 DEF Pointers
  <2>3. Reach(g, S) = IF l \in Reach(f, S) THEN Reach(f, S) \cup {e} ELSE Reach(f, S)
    BY ONLY <1>13, <2>2, <2>4, ReachAppend
  <2> QED
    BY ONLY <2>1, <2>3
<1>14. \A c \in Cells \cup {NULL} : /\ Reach(next, {c}) \subseteq Reach(next', {c})
                                    /\ Reach(next', {c}) \subseteq Reach(next, {c}) \cup {e}
  <2>1. CASE l = NULL
    BY <1>6, <2>1
  <2>2. CASE l # NULL
    <3> TAKE c \in Cells \cup {NULL}
    <3>1. {c} \in SUBSET (Cells \cup {NULL})
      OBVIOUS
    <3>3. Reach(next', {c}) = IF l \in Reach(next, {c}) THEN Reach(next, {c}) \cup {e}
                              ELSE Reach(next, {c})
      BY ONLY <1>13, <2>2, <3>1
    <3> QED
      BY <3>3
  <2> QED
    BY <2>1, <2>2
<1>15. \A m \in DOMAIN Table :
         List(next', Table', m) = IF m = n THEN List(next, Table, m) \cup {e}
                                  ELSE List(next, Table, m)
  <2> TAKE m \in DOMAIN Table
  <2>1. CASE l = NULL /\ m = n
    <3>1. next' = next /\ Table'[m] = e /\ Table[m] = NULL
      BY <1>4, <1>5, <1>6, <1>9, <2>1
    <3>2. Reach(next, {e}) = {e} /\ Reach(next, {NULL}) = {}
      BY <1>4, <1>9, ReachFrom
    <3> QED
      BY <2>1, <3>1, <3>2 DEF List
  <2>2. CASE l = NULL /\ m # n
    BY <1>6, <1>9, <2>2 DEF List
  <2>3. CASE l # NULL
    <3>1. {Table[m]} \in SUBSET (Cells \cup {NULL})
      BY <1>9
    <3>2. Table' = Table
      BY <1>6, <2>3
    <3>3. List(next', Table', m) = IF l \in List(next, Table, m) THEN List(next, Table, m) \cup {e}
                                   ELSE List(next, Table, m)
      BY ONLY <1>13, <2>3, <3>1, <3>2 DEF List
    <3>4. l \in List(next, Table, m) <=> m = n
      BY <1>4, <1>5, <2>3 DEF Filed
    <3> QED
      BY <3>3, <3>4
  <2> QED
    BY <2>1, <2>2, <2>3
<1>16. Chained'
  <2>1. CASE l = NULL
    <3>1. Table[n] = NULL /\ Table'[n] = e /\ next' = next
          /\ \A m \in DOMAIN Table : m # n => Table'[m] = Table[m]
      BY <1>4, <1>5, <1>6, <1>9, <2>1
    <3>2. \A c \in Cells : next[c] # e
      BY <1>4 DEF Chained
    <3>3. \A m \in DOMAIN Table : Table[m] # e
      BY <1>4 DEF Chained
    <3>4. \A m \in DOMAIN Table : Headed(next, Table'[m])
      BY <1>4, <3>1, <3>2 DEF Chained, Headed
    <3> QED
      BY <1>4, <1>7, <1>12, <3>1, <3>3, <3>4 DEF Chained
  <2>2. CASE l # NULL
    <3>1. next'[l] = e /\ Table' = Table /\ \A c \in Cells : c # l => next'[c] = next[c]
      BY <1>4, <1>6, <1>9, <2>2 DEF Pointers
    <3>2. \A c \in Cells : next[c] # e
      BY <1>4 DEF Chained
    <3>3. \A m \in DOMAIN Table : Table[m] # e
      BY <1>4 DEF Chained
    <3>4. \A m \in DOMAIN Table : Headed(next', Table[m])
      BY <3>1, <3>2, <3>3 DEF Chained, Headed
    <3>5. \A c \in Cells : next'[c] \notin Unlinked'
      BY <1>7, <3>1 DEF Chained
    <3>6. \A c \in Unlinked' : next'[c] = NULL
      <4>1. Unlinked \subseteq Cells
        BY <1>4 DEF Unlinked, TypeOK, Additions
      <4> QED
        BY <1>7, <1>10, <2>2, <3>1, <4>1 DEF Chained
    <3> QED
      BY <1>7, <3>1, <3>4, <3>5, <3>6 DEF Chained
  <2> QED
    BY <2>1, <2>2
<1>17. Filed'
  <2>1. \A m \in DOMAIN Table' : \A c \in List(next', Table', m) : compute_Hash(key'[c]) = m
    BY <1>1, <1>2, <1>12, <1>15 DEF Filed
  <2>2. \A c \in Cells \ Unlinked' : c \in List(next', Table', compute_Hash(key'[c]))
    <3> TAKE c \in Cells \ Unlinked'
    <3>1. CASE c = e
      BY <1>1, <1>2, <1>4, <1>15, <3>1
    <3>2. CASE c # e
      <4>1. c \in Cells \ Unlinked /\ c \in allocated
        BY <1>7, <3>2 DEF Unlinked
      <4>2. compute_Hash(key[c]) \in DOMAIN Table /\ c \in List(next, Table, compute_Hash(key[c]))
        BY <1>4, <4>1, HashRange DEF Filed
      <4> QED
        BY <1>1, <1>15, <4>2
    <3> QED
      BY <3>1, <3>2
  <2> QED
    BY <1>1, <2>1, <2>2 DEF Filed
<1>18. Placed' /\ Allocated'
  BY <1>1 DEF Placed, Allocated
<1>19. Walking'
  <2> SUFFICES ASSUME NEW t \in Walkers PROVE InPlace(next', Table', key', walk'[t])
    BY DEF Walking
  <2>1. PICK w : w = walk[t]
    OBVIOUS
  <2>2. InPlace(next, Table, key, w) /\ w.i \in DOMAIN Table
    BY <1>4, <2>1 DEF Walking, TypeOK
  <2>3. List(next, Table, w.i) \subseteq List(next', Table', w.i) /\ List(next, Table, w.i) \subseteq Cells
    BY <1>8, <1>15, <2>2
  <2>4. \A c \in Cells : next[c] # NULL => next'[c] = next[c]
    BY <1>4, <1>5, <1>6, <1>9 DEF Pointers
  <2>5. InPlace(next', Table', key, w)
    BY ONLY <2>2, <2>3, <2>4 DEF InPlace, AtClient
  <2> QED
    BY ONLY <1>1, <2>1, <2>5
<1>21. Deleting'
  <2> SUFFICES ASSUME NEW t \in Walkers, ~Inactive(t)
               PROVE  /\ Cuts(next', Table', key', deleting'[t]) /\ deleting'[t].cell \notin Unlinked'
                      /\ walk'[t].at = "func" /\ key'[deleting'[t].cell] = walk'[t].arg
    BY <1>1 DEF Deleting, Inactive
  <2>1. t # "main"
    BY <1>1 DEF Placed
  <2>2. PICK d : d = deleting[t]
    OBVIOUS
  <2>3. /\ Cuts(next, Table, key, d) /\ d.cell \notin Unlinked
        /\ walk[t].at = "func" /\ key[d.cell] = walk[t].arg
        /\ d.pred \in Cells \cup {NULL} /\ d.cell \in allocated
    BY <1>1, <2>1, <2>2, ThreadTypes DEF Deleting, Deletions, Unlinked, Cuts
  <2>4. Cuts(next', Table', key, d)
    <3>1. compute_Hash(key[d.cell]) \in DOMAIN Table
      BY <1>4, <2>3, HashRange DEF Filed
    <3>2. CASE d.pred = NULL
      <4>1. Table[compute_Hash(key[d.cell])] = d.cell /\ d.cell # NULL
        BY <2>3, <3>2 DEF Cuts
      <4>2. Table'[compute_Hash(key[d.cell])] = d.cell
        BY <1>4, <1>5, <1>6, <1>9, <3>1, <4>1
      <4> QED
        BY <2>3, <3>2, <4>2 DEF Cuts
    <3>3. CASE d.pred # NULL
      <4>1. next[d.pred] = d.cell /\ d.cell # NULL /\ d.pred \in Cells
        BY <2>3, <3>3 DEF Cuts
      <4>2. next'[d.pred] = d.cell
        BY <1>4, <1>5, <1>6, <1>9, <4>1 DEF Pointers
      <4> QED
        BY <2>3, <3>3, <4>2 DEF Cuts
    <3> QED
      BY <3>2, <3>3
  <2> QED
    BY <1>1, <1>7, <2>2, <2>3, <2>4
<1>20. Serviced'
  <2> DEFINE w == walk["services"]
  <2>1. CASE w = Idle
    BY <1>1, <2>1 DEF Serviced
  <2>2. CASE w # Idle
    <3>1. /\ w.entry \in Cells \cup {NULL} /\ w.next_entry \in Cells \cup {NULL}
          /\ w.i \in 0 .. MAX_CLIENTS - 1
      BY ThreadTypes DEF Steps, Walkers
    <3>2. w.i + 1 .. MAX_CLIENTS - 1 \subseteq DOMAIN Table
      BY <1>4, <3>1
    <3> HIDE DEF w
    <3>3. /\ Later(next, Table, w.i) \subseteq Later(next', Table', w.i)
          /\ Later(next', Table', w.i) \subseteq Later(next, Table, w.i) \cup {e}
      BY <1>15, <3>2 DEF Later
    <3>4. /\ Ahead(next, Table, w) \subseteq Ahead(next', Table', w)
          /\ Ahead(next', Table', w) \subseteq Ahead(next, Table, w) \cup {e}
      BY <1>14, <3>1, <3>3 DEF Ahead
    <3>5. /\ w.func = "handle_client_services"
          /\ present \subseteq visited \cup Ahead(next, Table, w)
          /\ visited \cap (Ahead(next, Table, w) \cup Unlinked) = {}
      BY <2>2 DEF Serviced, w
    <3>6. e \notin visited
      BY <1>4, <3>5
    <3>7. /\ present \subseteq visited \cup Ahead(next', Table', w)
          /\ visited \cap (Ahead(next', Table', w) \cup Unlinked') = {}
      BY <1>7, <3>4, <3>5, <3>6
    <3> QED
      BY <1>1, <3>5, <3>7 DEF Serviced, w
  <2> QED
    BY <2>1, <2>2
<1> QED
  BY <1>1, <1>2, <1>4, <1>7, <1>11, <1>16, <1>17, <1>18, <1>19, <1>20, <1>21

\* A client that is deleted leaves its chain; the other clients stay where they are.
LEMMA Removed ==
  ASSUME Kept, NEW t \in Walkers, NEW c, c = deleting[t].cell,
         Cuts(next, Table, key, deleting[t]), c \notin Unlinked, delete_value_hash(t)
  PROVE  /\ c \in Cells \ Unlinked
         /\ next[c] # c /\ Unlinked' = Unlinked \cup {c} /\ allocated' = allocated \ {c}
         /\ \A a \in (Cells \cup {NULL}) \ {c} : Reach(next', {a}) = Reach(next, {a}) \ {c}
         /\ DOMAIN Table' = DOMAIN Table
         /\ \A n \in DOMAIN Table :
              /\ List(next', Table', n) = List(next, Table, n) \ {c}
              /\ Table[n] # c => Table'[n] = Table[n]
         /\ \A d \in Cells \ {c} : /\ key'[d] = key[d]
                                   /\ next'[d] = IF next[d] = c THEN next[c] ELSE next[d]
         /\ next' \in Pointers /\ Table' \in [0 .. MAX_CLIENTS - 1 -> Cells \cup {NULL}]
         /\ key' \in [Cells -> Keys \cup {0}]
         /\ Chained' /\ Filed' /\ Allocated'
<1> USE DEF Kept
<1>0. c \in Cells \ Unlinked /\ deleting[t] \in Deletions
  BY ThreadTypes DEF Cuts
<1>1. PICK n, p : n = compute_Hash(key[c]) /\ p = deleting[t].pred
  OBVIOUS
<1>21. /\ Table' = IF p = NULL THEN [Table EXCEPT ![n] = next[c]] ELSE Table
       /\ next' = [e \in Cells |-> IF e = c THEN NULL ELSE IF e = p THEN next[c] ELSE next[e]]
       /\ key' = [key EXCEPT ![c] = 0]
       /\ allocated' = allocated \ {c} /\ adding' = adding
  BY <1>1 DEF delete_value_hash, unlink
<1>22. /\ next \in Pointers /\ Table \in [0 .. MAX_CLIENTS - 1 -> Cells \cup {NULL}]
       /\ n \in DOMAIN Table /\ c # NULL /\ p \in Cells \cup {NULL}
  BY <1>0, <1>1, Views, HashRange, CellsAssumption DEF Filed, Unlinked, Deletions
<1>2. /\ Table' = [Table EXCEPT ![n] = IF Table[n] = c THEN next[c] ELSE Table[n]]
      /\ next' = Without(next, c)
      /\ key' = [key EXCEPT ![c] = 0]
      /\ allocated' = allocated \ {c}
  <2>1. Headed(next, Table[n])
    BY <1>22 DEF Chained
  <2>2. CASE p = NULL
    <3>1. Table[n] = c
      BY <1>1, <2>2 DEF Cuts
    <3>2. \A e \in Cells : next[e] # c
      BY <1>22, <2>1, <3>1 DEF Headed
    <3>3. \A e \in Cells : e # p
      BY <2>2, CellsAssumption
    <3>4. next' = Without(next, c)
      BY ONLY <1>21, <3>2, <3>3 DEF Without
    <3> QED
      BY <1>21, <2>2, <3>1, <3>4
  <2>3. CASE p # NULL
    <3>1. next[p] = c /\ p \in Cells
      BY <1>1, <1>22, <2>3 DEF Cuts
    <3>2. Table[n] # c
      BY <1>22, <2>1, <3>1 DEF Headed
    <3>3. \A e \in Cells : next[e] = c <=> e = p
      BY <1>22, <2>1, <3>1 DEF Headed
    <3>4. next' = Without(next, c)
      BY ONLY <1>21, <3>3 DEF Without
    <3>5. Table = [Table EXCEPT ![n] = Table[n]]
      BY <1>22
    <3> QED
      BY <1>21, <2>3, <3>2, <3>4, <3>5
  <2> QED
    BY <2>2, <2>3
<1>3. /\ next \in Pointers /\ Table \in [0 .. MAX_CLIENTS - 1 -> Cells \cup {NULL}]
      /\ DOMAIN Table = 0 .. MAX_CLIENTS - 1
      /\ \A m \in DOMAIN Table : List(next, Table, m) \subseteq Cells
  BY Views
<1>4. /\ c \in Cells /\ c \in allocated /\ c # NULL /\ key[c] \in Keys /\ n \in DOMAIN Table
      /\ c \in List(next, Table, n)
  BY <1>0, <1>1, <1>3, HashRange, CellsAssumption DEF Unlinked, Filed
<1>5. Unlinked' = Unlinked \cup {c} /\ Unlinked \subseteq Cells
  <2>1. adding # NULL => adding.entry \in Cells /\ adding.entry # c
    BY <1>0 DEF TypeOK, Additions, Unlinked
  <2> QED
    BY <1>2, <1>4, <1>21, <2>1 DEF Unlinked, TypeOK
<1>6. Reach(next, {c}) = {c} \cup Reach(next, {next[c]})
  BY ONLY <1>3, <1>4, ReachFrom
<1>7. next[c] # c
  <2>1. c \in Reach(next, {Table[n]}) /\ Headed(next, Table[n])
    BY <1>4 DEF List, Chained
  <2>2. c \notin Reach(next, {next[c]})
    BY <1>3, <2>1, NoCycle
  <2> QED
    BY <1>6, <2>2
<1>8. \A a \in (Cells \cup {NULL}) \ {c} : Reach(next', {a}) = Reach(next, {a}) \ {c}
  <2> TAKE a \in (Cells \cup {NULL}) \ {c}
  <2>1. {a} \in SUBSET (Cells \cup {NULL}) /\ c \notin {a}
    BY <1>4
  <2> QED
    BY <1>2, <1>3, <1>4, <1>7, <2>1, ReachWithout
<1>9. /\ DOMAIN Table' = DOMAIN Table
      /\ \A m \in DOMAIN Table :
           Table'[m] = IF m = n /\ Table[n] = c THEN next[c] ELSE Table[m]
  BY <1>2, <1>3, <1>4
<1>10. next[c] \in Cells \cup {NULL} /\ \A m \in DOMAIN Table : Table[m] \in Cells \cup {NULL}
  BY <1>3, <1>4 DEF Pointers
<1>11. \A m \in DOMAIN Table : Table[m] = c => m = n
  <2> SUFFICES ASSUME NEW m \in DOMAIN Table, Table[m] = c PROVE m = n
    OBVIOUS
  <2>1. c \in List(next, Table, m)
    BY <1>6 DEF List
  <2> QED
    BY <1>1, <2>1 DEF Filed
<1>12. \A m \in DOMAIN Table : List(next', Table', m) = List(next, Table, m) \ {c}
  <2> TAKE m \in DOMAIN Table
  <2>1. CASE Table[m] # c
    <3>1. Table'[m] = Table[m]
      BY <1>9, <2>1
    <3> QED
      BY <1>8, <1>10, <2>1, <3>1 DEF List
  <2>2. CASE Table[m] = c
    <3>1. Table'[m] = next[c]
      BY <1>9, <1>11, <2>2
    <3>3. Reach(next', {next[c]}) = Reach(next, {next[c]}) \ {c}
      BY <1>7, <1>8, <1>10
    <3> QED
      BY <1>6, <2>2, <3>1, <3>3 DEF List
  <2> QED
    BY <2>1, <2>2
<1>13. \A d \in Cells : next'[d] = IF d = c THEN NULL
                                   ELSE IF next[d] = c THEN next[c] ELSE next[d]
  BY <1>2 DEF Without
<1>14. Chained'
  <2>1. ASSUME NEW m \in DOMAIN Table PROVE Headed(next', Table'[m])
    <3>1. Headed(next, Table[m]) /\ Headed(next, Table[n])
      BY <1>4 DEF Chained
    <3> HIDE DEF Kept
    <3>2. Table'[m] \in Cells \cup {NULL}
      BY <1>9, <1>10
    <3>3. \A d \in Cells : next'[d] = Table'[m] => Table'[m] = NULL
      BY <1>4, <1>9, <1>13, <3>1 DEF Headed
    <3>4. \A d, e \in Cells : next'[d] = next'[e] /\ next'[e] # NULL => d = e
      BY <1>4, <1>13, <3>1 DEF Headed
    <3> QED
      BY <3>2, <3>3, <3>4 DEF Headed
  <2>2. \A m \in DOMAIN Table : Table'[m] \notin Unlinked'
    BY <1>4, <1>5, <1>7, <1>9, <1>11 DEF Chained
  <2>3. \A m, k \in DOMAIN Table : Table'[m] = Table'[k] /\ Table'[k] # NULL => m = k
    BY <1>4, <1>9, <1>11 DEF Chained, Headed
  <2>4. \A d \in Cells : next'[d] \notin Unlinked'
    BY <1>4, <1>5, <1>7, <1>10, <1>13, CellsAssumption DEF Chained
  <2>5. \A d \in Unlinked' : next'[d] = NULL
    BY <1>0, <1>4, <1>5, <1>13 DEF Chained
  <2> QED
    BY <1>9, <2>1, <2>2, <2>3, <2>4, <2>5 DEF Chained
<1>15. Filed'
  <2>1. \A d \in Cells : d # c => key'[d] = key[d]
    BY <1>2 DEF TypeOK
  <2>2. allocated' \subseteq Cells /\ \A d \in allocated' : d \in allocated /\ key'[d] = key[d]
    BY <1>2, <2>1 DEF TypeOK
  <2>3. \A d \in Cells \ Unlinked' : /\ d \in Cells \ Unlinked /\ d # c /\ key'[d] = key[d]
                                     /\ compute_Hash(key[d]) \in DOMAIN Table
    <3>1. \A d \in Cells \ Unlinked : d \in allocated
      BY DEF Unlinked
    <3>2. \A d \in Cells \ Unlinked' : d \in Cells \ Unlinked /\ d # c
      BY <1>5
    <3> QED
      BY <1>3, <2>1, <3>1, <3>2, HashRange DEF Filed
  <2>4. \A d \in Cells \ Unlinked' : d \in List(next', Table', compute_Hash(key'[d]))
    BY <1>12, <2>3 DEF Filed
  <2>5. \A m \in DOMAIN Table' : \A d \in List(next', Table', m) : compute_Hash(key'[d]) = m
    BY <1>3, <1>9, <1>12, <2>1 DEF Filed
  <2> QED
    BY <2>2, <2>4, <2>5 DEF Filed
<1>16. Allocated'
  BY <1>0, <1>2, <1>21 DEF Allocated, Unlinked
<1>17. next' \in Pointers /\ key' \in [Cells -> Keys \cup {0}]
  BY <1>2, <1>3, <1>4, ReachWithout DEF TypeOK, Without, Pointers
<1>18. Table' \in [0 .. MAX_CLIENTS - 1 -> Cells \cup {NULL}]
  BY <1>2, <1>3, <1>4, <1>10
<1>19. \A d \in Cells \ {c} : key'[d] = key[d]
  BY <1>2 DEF TypeOK
<1> HIDE DEF Kept
<1> QED
  BY <1>0, <1>2, <1>5, <1>7, <1>8, <1>9, <1>12, <1>13, <1>14, <1>15, <1>16, <1>17, <1>18, <1>19

\* A thread that looks for a linked client to delete finds from where it is led to.
LEMMA FindStep ==
  ASSUME TableInv, NEW t \in Walkers, NEW c \in Cells \ Unlinked, find_to_delete(t, c),
         \/ walk[t].at = "func" /\ key[c] = walk[t].arg
         \/ t = "main" /\ walk[t] = Idle /\ adding = NULL
  PROVE  /\ TableInv' /\ UNCHANGED <<Unlinked, key, next, Table, allocated, walk, dangling>>
         /\ \A u \in Walkers : u # t => Inactive(u)' = Inactive(u)
<1> USE DEF TableInv, Kept
<1>1. PICK e : e = [cell |-> c, pred |-> Before(compute_Hash(key[c]), c)]
  OBVIOUS
<1>2. /\ UNCHANGED <<Table, key, next, allocated, adding, walk, dangling, present, visited, process>>
      /\ deleting' = [deleting EXCEPT ![t] = e]
  BY <1>1 DEF find_to_delete, table, history
<1>3. Cuts(next, Table, key, e) /\ e.pred \in Cells \cup {NULL} /\ e.cell = c
  BY <1>1, PredecessorFound
<1>4. e \in Deletions
  BY <1>1, <1>3 DEF Deletions
<1>5. deleting'[t] = e /\ \A u \in Walkers : u # t => deleting'[u] = deleting[u]
  BY <1>2, ThreadTypes
<1>6. TypeOK'
  <2>1. deleting' \in [Walkers -> Deletions]
    BY <1>2, <1>4, ThreadTypes
  <2> QED
    BY <1>2, <2>1 DEF TypeOK, Deletions
<1>7. Chained' /\ Filed' /\ Allocated' /\ Unlinked' = Unlinked
  BY <1>2 DEF Chained, Filed, Allocated, Unlinked
<1>8. Placed'
  <2>1. t # "main" \/ adding = NULL
    BY DEF Placed, Idle
  <2> QED
    BY <1>2, <1>5, <2>1 DEF Placed, Inactive, Walkers
<1>9. Walking' /\ Serviced'
  BY <1>2, <1>7 DEF Walking, Serviced
<1>10. Deleting'
  <2> SUFFICES ASSUME NEW u \in Walkers
               PROVE  \/ deleting'[u] = NoDeletion
                      \/ /\ Cuts(next, Table, key, deleting'[u])
                         /\ deleting'[u].cell \notin Unlinked
                         /\ \/ walk[u].at = "func" /\ key[deleting'[u].cell] = walk[u].arg
                            \/ u = "main" /\ walk[u] = Idle /\ adding = NULL
    BY <1>2, <1>7 DEF Deleting, Inactive
  <2>1. CASE u = t
    BY <1>3, <1>5, <2>1
  <2>2. CASE u # t
    BY <1>5, <2>2 DEF Deleting, Inactive
  <2> QED
    BY <2>1, <2>2
<1> QED
  BY <1>2, <1>5, <1>6, <1>7, <1>8, <1>9, <1>10 DEF Inactive

\* A client that is deleted leaves its chain. If no other thread holds its cell, all
\* threads stay where they are, and the one that deletes goes on behind the client.
LEMMA RemoveStep ==
  ASSUME TableInv, NEW t \in Walkers, delete_value_hash(t)
  PROVE  /\ Kept' /\ deleting[t].cell \in Cells \ Unlinked
         /\ Unlinked' = Unlinked \cup {deleting[t].cell}
         /\ \A d \in Cells \ {deleting[t].cell} : key'[d] = key[d]
         /\ allocated' = allocated \ {deleting[t].cell}
         /\ \A u \in Walkers : u # t => walk'[u] = walk[u] /\ deleting'[u] = deleting[u]
         /\ deleting'[t] = NoDeletion /\ adding' = adding
         /\ \/ walk[t] = Idle /\ walk'[t] = Idle
            \/ walk[t].at = "func" /\ walk'[t].at = "pass"
         /\ walk[t].at = "func" /\ walk[t].entry = deleting[t].cell
              => Ahead(next', Table', walk'[t]) = Ahead(next, Table, walk[t]) \ {walk[t].entry}
         /\ ~dangling' => TableInv'
<1> USE DEF TableInv
<1>1. PICK c, w, v : c = deleting[t].cell /\ w = walk[t] /\ v = walk'[t]
  OBVIOUS
<1>2. /\ deleting[t] # NoDeletion
      /\ dangling' = (dangling \/ \E u \in Walkers \ {t} : c \in Held(u))
      /\ deleting' = [deleting EXCEPT ![t] = NoDeletion]
      /\ present' = present \ {c} /\ visited' = visited \ {c}
      /\ IF w = Idle THEN walk' = walk
         ELSE walk' = [walk EXCEPT ![t] = [@ EXCEPT !.at = "pass", !.entry = w.next_entry,
                                                    !.next_entry = NULL, !.arg = 0]]
      /\ allocated' = allocated \ {c} /\ adding' = adding /\ process' = process
  BY <1>1 DEF delete_value_hash, Proceed, Inactive
<1>3. /\ Cuts(next, Table, key, deleting[t]) /\ c \notin Unlinked
      /\ \/ w.at = "func" /\ key[c] = w.arg
         \/ t = "main" /\ w = Idle /\ adding = NULL
  BY <1>1, <1>2 DEF Deleting, Inactive
<1>4. /\ c \in Cells \ Unlinked
      /\ next[c] # c /\ Unlinked' = Unlinked \cup {c} /\ allocated' = allocated \ {c}
      /\ \A a \in (Cells \cup {NULL}) \ {c} : Reach(next', {a}) = Reach(next, {a}) \ {c}
      /\ DOMAIN Table' = DOMAIN Table
      /\ \A n \in DOMAIN Table : List(next', Table', n) = List(next, Table, n) \ {c}
      /\ Chained' /\ Filed' /\ Allocated' /\ \A d \in Cells \ {c} : key'[d] = key[d]
  BY <1>1, <1>3, Removed
<1>5. /\ next' \in Pointers /\ Table' \in [0 .. MAX_CLIENTS - 1 -> Cells \cup {NULL}]
      /\ key' \in [Cells -> Keys \cup {0}]
      /\ \A n \in DOMAIN Table : Table[n] # c => Table'[n] = Table[n]
      /\ \A d \in Cells \ {c} : next'[d] = IF next[d] = c THEN next[c] ELSE next[d]
  BY <1>1, <1>3, Removed
<1>6. /\ walk \in [Walkers -> Steps] /\ deleting \in [Walkers -> Deletions] /\ w \in Steps
      /\ adding \in {NULL} \cup Additions
  BY <1>1, ThreadTypes DEF Kept, TypeOK
<1>7. deleting'[t] = NoDeletion /\ \A u \in Walkers : u # t => deleting'[u] = deleting[u]
  BY <1>2, <1>6
<1>8. /\ \A u \in Walkers : u # t => walk'[u] = walk[u]
      /\ \/ w = Idle /\ v = Idle
         \/ /\ w.at = "func" /\ key[c] = w.arg
            /\ v = [w EXCEPT !.at = "pass", !.entry = w.next_entry, !.next_entry = NULL, !.arg = 0]
      /\ walk' \in [Walkers -> Steps]
  <2>1. CASE w = Idle
    BY <1>1, <1>2, <1>6, <2>1
  <2>2. CASE w # Idle
    <3>1. PICK z : z = [w EXCEPT !.at = "pass", !.entry = w.next_entry, !.next_entry = NULL,
                                 !.arg = 0]
      OBVIOUS
    <3>2. z \in Steps
      BY ONLY <1>6, <3>1 DEF Steps
    <3>3. walk' = [walk EXCEPT ![t] = z]
      BY <1>1, <1>2, <2>2, <3>1
    <3>4. w.at = "func" /\ key[c] = w.arg
      BY <1>3, <2>2
    <3> QED
      BY ONLY <1>1, <1>6, <3>1, <3>2, <3>3, <3>4, t \in Walkers
  <2> QED
    BY <2>1, <2>2
<1>9. w.i \in DOMAIN Table /\ DOMAIN Table = 0 .. MAX_CLIENTS - 1
      /\ \A n \in DOMAIN Table : List(next, Table, n) \subseteq Cells
      /\ NULL \notin Cells /\ Walkers = {"main", "services", "console"}
  BY <1>6, Views, CellsAssumption DEF Kept, Steps, Walkers
<1>10. w.at = "func" =>
         /\ w.next_entry \in (Cells \cup {NULL}) \ {c}
         /\ w.next_entry = NULL \/ w.next_entry \in List(next', Table', w.i)
         /\ v.at = "pass" /\ v.i = w.i /\ v.entry = w.next_entry /\ v.next_entry = NULL
         /\ v.func = w.func
  <2> SUFFICES ASSUME w.at = "func"
               PROVE  /\ w.next_entry \in (Cells \cup {NULL}) \ {c}
                      /\ w.next_entry = NULL \/ w.next_entry \in List(next', Table', w.i)
                      /\ v.at = "pass" /\ v.i = w.i /\ v.entry = w.next_entry
                      /\ v.next_entry = NULL /\ v.func = w.func
    OBVIOUS
  <2>1. /\ key[c] = w.arg
        /\ v = [w EXCEPT !.at = "pass", !.entry = w.next_entry, !.next_entry = NULL, !.arg = 0]
    BY <1>8 DEF Idle
  <2>2. \/ w.next_entry = NULL
        \/ w.next_entry \in List(next, Table, w.i) /\ key[w.next_entry] # w.arg
    BY <1>1 DEF Walking, InPlace
  <2> QED
    BY ONLY <1>4, <1>6, <1>9, <2>1, <2>2 DEF Steps
<1>11. TypeOK'
  <2>1. deleting' \in [Walkers -> Deletions]
    BY <1>2, <1>6 DEF NoDeletion, Deletions
  <2>2. /\ allocated' \subseteq Cells /\ present' \subseteq Cells /\ visited' \subseteq Cells
        /\ adding' \in {NULL} \cup Additions /\ process' \in {"running", "segv"}
        /\ dangling' \in BOOLEAN
    BY <1>2 DEF Kept, TypeOK
  <2> QED
    BY ONLY <1>5, <1>8, <2>1, <2>2 DEF TypeOK, Steps, Deletions, Pointers
<1>12. w.at = "func" => Ahead(next', Table', v) = Ahead(next, Table, w) \ {c, w.entry}
                        \/ w.entry # c
  <2> SUFFICES ASSUME w.at = "func", w.entry = c
               PROVE  Ahead(next', Table', v) = Ahead(next, Table, w) \ {c}
    OBVIOUS
  <2>1. Later(next', Table', w.i) = Later(next, Table, w.i) \ {c}
    <3>1. w.i + 1 .. MAX_CLIENTS - 1 \subseteq DOMAIN Table
      BY <1>9, TableAssumption
    <3> QED
      BY <1>4, <3>1 DEF Later
  <2>2. Reach(next', {w.next_entry}) = Reach(next, {w.next_entry}) \ {c}
    BY <1>4, <1>10
  <2> QED
    BY ONLY <1>10, <2>1, <2>2, w.at = "func", w.entry = c DEF Ahead
<1>13. ASSUME ~dangling' PROVE Placed' /\ Walking' /\ Deleting' /\ Serviced'
  <2>1. \A u \in Walkers : u # t => c \notin Held(u)
    BY <1>2, <1>13
  <2>2. Placed'
    <3> SUFFICES ASSUME adding # NULL
                 PROVE  /\ walk'["main"] = Idle /\ deleting'["main"] = NoDeletion
                        /\ LET n == compute_Hash(key'[adding.entry])
                           IN  IF adding.last = NULL THEN Table'[n] = NULL
                               ELSE /\ adding.last \in List(next', Table', n)
                                    /\ next'[adding.last] = NULL
      BY <1>2 DEF Placed, Inactive
    <3>1. walk["main"] = Idle /\ deleting["main"] = NoDeletion /\ t # "main"
      BY <1>2 DEF Placed, Inactive
    <3>2. adding.last # c /\ adding.entry \in Cells /\ adding.entry # c
          /\ adding.last \in Cells \cup {NULL} /\ adding.entry \in allocated
      BY <1>4, <1>6, <1>9, <2>1, <3>1 DEF Held, Unlinked, Additions, Kept, Allocated
    <3>3. PICK n : n = compute_Hash(key[adding.entry])
      OBVIOUS
    <3>4. n \in DOMAIN Table /\ key'[adding.entry] = key[adding.entry]
      BY <1>4, <1>9, <3>2, <3>3, HashRange DEF Kept, Filed
    <3>5. IF adding.last = NULL THEN Table[n] = NULL
          ELSE adding.last \in List(next, Table, n) /\ next[adding.last] = NULL
      BY <3>3 DEF Placed
    <3>6. IF adding.last = NULL THEN Table'[n] = NULL
          ELSE adding.last \in List(next', Table', n) /\ next'[adding.last] = NULL
      BY <1>4, <1>5, <1>9, <3>2, <3>4, <3>5
    <3> QED
      BY <1>7, <1>8, <1>9, <3>1, <3>3, <3>4, <3>6
  <2>3. Walking'
    <3> SUFFICES ASSUME NEW u \in Walkers PROVE InPlace(next', Table', key', walk'[u])
      BY DEF Walking
    <3>1. CASE u = t
      <4>1. CASE w.at = "func"
        BY <1>1, <1>10, <3>1, <4>1 DEF InPlace
      <4>2. CASE w.at # "func"
        BY <1>1, <1>8, <3>1, <4>2 DEF InPlace, Idle
      <4> QED
        BY <4>1, <4>2
    <3>2. CASE u # t
      <4>1. PICK x : x = walk[u]
        OBVIOUS
      <4>2. /\ InPlace(next, Table, key, x) /\ walk'[u] = x /\ x.i \in DOMAIN Table
            /\ x.at \in {"idle", "pass", "func"}
        BY <1>6, <1>8, <1>9, <3>2, <4>1 DEF Walking, Steps
      <4>3. /\ x.next_entry # c
            /\ x.at = "pass" \/ x.func \in WithRecord => x.entry # c
        BY <2>1, <3>2, <4>1 DEF Held
      <4>4. AtClient(next, Table, key, x) /\ x.entry # c => AtClient(next', Table', key', x)
        BY ONLY <1>4, <1>5, <1>9, <4>2, <4>3 DEF AtClient
      <4>5. x.next_entry \in List(next, Table, x.i) =>
              x.next_entry \in List(next', Table', x.i) /\ key'[x.next_entry] = key[x.next_entry]
        BY <1>4, <1>9, <4>2, <4>3
      <4>6. x.at = "pass" /\ x.entry \in List(next, Table, x.i) =>
              x.entry \in List(next', Table', x.i)
        BY <1>4, <4>2, <4>3
      <4> QED
        BY ONLY <4>2, <4>3, <4>4, <4>5, <4>6 DEF InPlace
    <3> QED
      BY <3>1, <3>2
  <2>4. Deleting'
    <3> SUFFICES ASSUME NEW u \in Walkers, deleting'[u] # NoDeletion
                 PROVE  /\ Cuts(next', Table', key', deleting'[u])
                        /\ deleting'[u].cell \notin Unlinked'
                        /\ \/ walk'[u].at = "func" /\ key'[deleting'[u].cell] = walk'[u].arg
                           \/ u = "main" /\ walk'[u] = Idle /\ adding' = NULL
      BY DEF Deleting, Inactive
    <3>1. PICK d : d = deleting[u]
      OBVIOUS
    <3>2. /\ u # t /\ deleting'[u] = d /\ walk'[u] = walk[u] /\ d # NoDeletion
          /\ d.pred \in Cells \cup {NULL}
      BY <1>6, <1>7, <1>8, <3>1 DEF Deletions
    <3>3. /\ Cuts(next, Table, key, d) /\ d.cell \notin Unlinked
          /\ \/ walk[u].at = "func" /\ key[d.cell] = walk[u].arg
             \/ u = "main" /\ walk[u] = Idle /\ adding = NULL
      BY <3>1, <3>2 DEF Deleting, Inactive
    <3>4. d.cell # c /\ d.pred # c
      BY <2>1, <3>1, <3>2 DEF Held
    <3>5. d.cell \in Cells /\ key'[d.cell] = key[d.cell] /\ d.cell \notin Unlinked'
      BY <1>4, <3>3, <3>4 DEF Cuts
    <3>6. compute_Hash(key[d.cell]) \in DOMAIN Table
      BY <1>9, <3>3, <3>5, HashRange DEF Kept, Filed, Unlinked
    <3>7. Cuts(next', Table', key', d)
      BY ONLY <1>5, <3>2, <3>3, <3>4, <3>5, <3>6 DEF Cuts
    <3> QED
      BY <1>2, <3>2, <3>3, <3>5, <3>7
  <2>5. Serviced'
    <3> SUFFICES ASSUME walk'["services"] # Idle
                 PROVE  /\ walk'["services"].func = "handle_client_services"
                        /\ present' \subseteq visited' \cup Ahead(next', Table', walk'["services"])
                        /\ visited' \cap (Ahead(next', Table', walk'["services"]) \cup Unlinked') = {}
      BY DEF Serviced
    <3>1. PICK x : x = walk["services"]
      OBVIOUS
    <3>2. x # Idle
      BY <1>1, <1>8, <1>9, <3>1 DEF Idle
    <3>3. /\ x.func = "handle_client_services" /\ x.func \in WithRecord
          /\ present \subseteq visited \cup Ahead(next, Table, x)
          /\ visited \cap (Ahead(next, Table, x) \cup Unlinked) = {}
          /\ x.i \in 0 .. MAX_CLIENTS - 1 /\ x.entry \in Cells \cup {NULL}
          /\ x.next_entry \in Cells \cup {NULL} /\ InPlace(next, Table, key, x)
          /\ x.at \in {"pass", "func"}
      BY <1>6, <1>9, <3>1, <3>2 DEF Serviced, WithRecord, Steps, Walking, InPlace
    <3>4. Ahead(next', Table', walk'["services"]) = Ahead(next, Table, x) \ {c}
      <4>1. CASE t = "services"
        <5>1. w = x /\ w.at = "func" /\ key[c] = w.arg
          BY <1>1, <1>8, <3>1, <3>2, <4>1
        <5>2. w.entry \in List(next, Table, w.i) /\ key[w.entry] = w.arg
          BY <3>3, <5>1 DEF InPlace, AtClient
        <5>3. w.entry \in allocated /\ c \in allocated
          BY <1>4, <1>9, <5>2, ListsLinked DEF Kept, Unlinked
        <5>4. w.entry = c
          BY <5>1, <5>2, <5>3 DEF Kept, Filed
        <5> QED
          BY <1>1, <1>12, <4>1, <5>1, <5>4
      <4>2. CASE t # "services"
        <5>1. walk'["services"] = x /\ c \notin Held("services")
          BY <1>8, <1>9, <2>1, <3>1, <4>2
        <5>2. x.entry # c /\ x.next_entry # c
          BY <3>1, <3>3, <5>1 DEF Held
        <5>3. \/ x.at = "pass" /\ x.entry \in (Cells \cup {NULL}) \ {c}
              \/ x.at = "func" /\ x.entry # c /\ x.next_entry \in (Cells \cup {NULL}) \ {c}
          BY <3>3, <5>2
        <5>4. Ahead(next', Table', x) = Ahead(next, Table, x) \ {c}
          <6>1. Later(next', Table', x.i) = Later(next, Table, x.i) \ {c}
            <7>1. x.i + 1 .. MAX_CLIENTS - 1 \subseteq DOMAIN Table
              BY <1>9, <3>3, TableAssumption
            <7> QED
              BY <1>4, <7>1 DEF Later
          <6>2. CASE x.at = "pass"
            BY <1>4, <5>3, <6>1, <6>2 DEF Ahead
          <6>3. CASE x.at = "func"
            BY <1>4, <5>3, <6>1, <6>3 DEF Ahead
          <6> QED
            BY <5>3, <6>2, <6>3
        <5> QED
          BY <5>1, <5>4
      <4> QED
        BY <4>1, <4>2
    <3>5. walk'["services"].func = "handle_client_services"
      BY <1>1, <1>8, <1>9, <1>10, <3>1, <3>2, <3>3
    <3> QED
      BY ONLY <1>2, <1>4, <3>3, <3>4, <3>5
  <2> QED
    BY <2>2, <2>3, <2>4, <2>5
<1>14. Kept'
  BY <1>4, <1>11 DEF Kept
<1> HIDE DEF TableInv
<1>15. ~dangling' => TableInv'
  BY <1>13, <1>14 DEF TableInv
<1> QED
  BY <1>1, <1>2, <1>4, <1>7, <1>8, <1>10, <1>12, <1>14, <1>15

\* A walk begins: everything in the table is ahead of it.
LEMMA StartStep ==
  ASSUME TableInv, NEW t \in Walkers, NEW func \in WithRecord \cup WithKey, StartWalk(t, func),
         t = "main" => adding = NULL, t = "services" => func = "handle_client_services"
  PROVE  /\ TableInv'
         /\ walk'[t].at = "pass" /\ \A u \in Walkers : u # t => walk'[u] = walk[u]
         /\ Linked \subseteq Ahead(next', Table', walk'[t])
<1> USE DEF TableInv, Kept
<1>1. PICK v : v = [Idle EXCEPT !.at = "pass", !.func = func, !.entry = Table[0]]
  OBVIOUS
<1>2. /\ UNCHANGED <<Table, key, next, allocated, adding, deleting, dangling, process>>
      /\ walk[t] = Idle /\ Inactive(t) /\ walk' = [walk EXCEPT ![t] = v]
      /\ IF t = "services" THEN present' = Linked /\ visited' = {}
                           ELSE UNCHANGED <<present, visited>>
  BY <1>1 DEF StartWalk, table, history
<1>4. /\ v.at = "pass" /\ v.i = 0 /\ v.entry = Table[0] /\ v.next_entry = NULL /\ v.func = func
      /\ walk'[t] = v /\ \A u \in Walkers : u # t => walk'[u] = walk[u]
  BY <1>1, <1>2, ThreadTypes DEF Idle
<1>5. /\ DOMAIN Table = 0 .. MAX_CLIENTS - 1 /\ 0 \in DOMAIN Table
      /\ Table[0] \in Cells \cup {NULL} /\ next \in Pointers
      /\ Linked = UNION {List(next, Table, n) : n \in DOMAIN Table} /\ Linked \subseteq Cells
  BY Views, TableAssumption
<1>6. TypeOK'
  <2>1. v \in Steps
    BY <1>1, <1>5 DEF Idle, Steps
  <2>2. walk' \in [Walkers -> Steps]
    BY <1>2, <2>1, ThreadTypes
  <2>3. present' \subseteq Cells /\ visited' \subseteq Cells
    BY <1>2, <1>5 DEF TypeOK
  <2> QED
    BY <1>2, <2>2, <2>3 DEF TypeOK, Steps
<1>7. Chained' /\ Filed' /\ Allocated' /\ Unlinked' = Unlinked
  BY <1>2 DEF Chained, Filed, Allocated, Unlinked
<1>8. Placed'
  BY <1>2, <1>4 DEF Placed, Inactive, Walkers
<1>9. Walking'
  <2>1. v.entry = NULL \/ v.entry \in List(next, Table, v.i)
    <3>1. {Table[0]} \in SUBSET (Cells \cup {NULL})
      BY <1>5
    <3>2. {Table[0]} \ {NULL} \subseteq Reach(next, {Table[0]})
      BY ONLY <1>5, <3>1, ReachBasics
    <3> QED
      BY <1>4, <3>2 DEF List
  <2> SUFFICES ASSUME NEW u \in Walkers PROVE InPlace(next, Table, key, walk'[u])
    BY <1>2 DEF Walking
  <2>2. CASE u = t
    BY <1>4, <2>1, <2>2 DEF InPlace
  <2>3. CASE u # t
    BY <1>4, <2>3 DEF Walking
  <2> QED
    BY <2>2, <2>3
<1>12. Deleting'
  <2> SUFFICES ASSUME NEW u \in Walkers, ~Inactive(u)
               PROVE  /\ Cuts(next, Table, key, deleting[u]) /\ deleting[u].cell \notin Unlinked
                      /\ \/ walk'[u].at = "func" /\ key[deleting[u].cell] = walk'[u].arg
                         \/ u = "main" /\ walk'[u] = Idle /\ adding = NULL
    BY <1>2, <1>7 DEF Deleting, Inactive
  <2> QED
    BY <1>2, <1>4 DEF Deleting
<1>10. Linked \subseteq Ahead(next', Table', v)
  <2> SUFFICES ASSUME NEW n \in DOMAIN Table
               PROVE  List(next, Table, n) \subseteq Ahead(next, Table, v)
    BY <1>2, <1>5
  <2>1. CASE n = 0
    BY <1>4, <2>1 DEF Ahead, List
  <2>2. CASE n # 0
    <3>1. n \in 0 + 1 .. MAX_CLIENTS - 1
      BY <1>5, <2>2, TableAssumption
    <3>2. List(next, Table, n) \subseteq Later(next, Table, 0)
      BY <3>1 DEF Later
    <3> QED
      BY <1>4, <3>2 DEF Ahead
  <2> QED
    BY <2>1, <2>2
<1>11. Serviced'
  BY <1>2, <1>4, <1>7, <1>10 DEF Serviced, Walkers
<1> QED
  BY <1>4, <1>6, <1>7, <1>8, <1>9, <1>10, <1>11, <1>12

\* A thread in the middle of a walk moves to v.
LEMMA Moved ==
  ASSUME TableInv, NEW t \in Walkers, walk[t].at # "idle", Inactive(t), NEW v \in Steps,
         walk' = [walk EXCEPT ![t] = v],
         UNCHANGED <<Table, key, next, allocated, adding, deleting, dangling, process, present>>,
         InPlace(next, Table, key, v),
         IF t = "services" /\ v # Idle
         THEN /\ v.func = walk[t].func
              /\ visited' \subseteq Cells
              /\ present \subseteq visited' \cup Ahead(next, Table, v)
              /\ visited' \cap (Ahead(next, Table, v) \cup Unlinked) = {}
         ELSE visited' = visited
  PROVE  TableInv'
<1> USE DEF TableInv, Kept
<1>1. walk'[t] = v /\ \A u \in Walkers : u # t => walk'[u] = walk[u]
  BY ThreadTypes
<1>2. TypeOK'
  <2>1. walk' \in [Walkers -> Steps]
    BY ThreadTypes
  <2>2. visited' \subseteq Cells
    BY DEF TypeOK
  <2> QED
    BY <2>1, <2>2 DEF TypeOK, Steps
<1>3. Chained' /\ Filed' /\ Allocated' /\ Unlinked' = Unlinked
  BY DEF Chained, Filed, Allocated, Unlinked
<1>4. Placed'
  <2>1. t # "main" \/ adding = NULL
    BY DEF Placed, Idle
  <2> QED
    BY <1>1, <2>1 DEF Placed, Inactive, Walkers
<1>5. Walking'
  <2> SUFFICES ASSUME NEW u \in Walkers PROVE InPlace(next, Table, key, walk'[u])
    BY DEF Walking
  <2> QED
    BY <1>1 DEF Walking
<1>6. Deleting'
  <2> SUFFICES ASSUME NEW u \in Walkers, ~Inactive(u)
               PROVE  /\ Cuts(next, Table, key, deleting[u]) /\ deleting[u].cell \notin Unlinked
                      /\ \/ walk'[u].at = "func" /\ key[deleting[u].cell] = walk'[u].arg
                         \/ u = "main" /\ walk'[u] = Idle /\ adding = NULL
    BY <1>3 DEF Deleting, Inactive
  <2> QED
    BY <1>1 DEF Deleting
<1>7. Serviced'
  <2>1. t = "services" => walk[t] # Idle
    BY DEF Idle
  <2> QED
    BY <1>1, <1>3, <2>1 DEF Serviced, Walkers
<1> QED
  BY <1>2, <1>3, <1>4, <1>5, <1>6, <1>7

\* A thread that is about to delete is in the function of its walk, or in none.
LEMMA DeletesInFunction ==
  ASSUME TableInv, NEW t \in Walkers, walk[t].at = "pass"
  PROVE  Inactive(t)
  BY DEF TableInv, Deleting, Idle

\* A walk goes on to the next chain, or ends: nothing is lost that was ahead of it.
LEMMA NextChainStep ==
  ASSUME TableInv, NEW t \in Walkers, NextChain(t)
  PROVE  /\ TableInv'
         /\ walk'[t].at \in {"idle", "pass"} /\ \A u \in Walkers : u # t => walk'[u] = walk[u]
         /\ Ahead(next', Table', walk'[t]) = Ahead(next, Table, walk[t])
<1> USE DEF TableInv, Kept
<1>1. PICK w, v, i : w = walk[t] /\ i = walk[t].i + 1 /\ v = walk'[t]
  OBVIOUS
<1>2. /\ UNCHANGED <<Table, key, next, allocated, adding, deleting, dangling, process, present,
                    visited>>
      /\ w.at = "pass" /\ w.entry = NULL /\ w \in Steps /\ Inactive(t)
  BY <1>1, ThreadTypes, DeletesInFunction DEF NextChain, AtEnd, table, history
<1>3. /\ walk' = [walk EXCEPT ![t] = v]
      /\ v = IF i < MAX_CLIENTS THEN [w EXCEPT !.i = i, !.entry = Table[i]] ELSE Idle
      /\ \A u \in Walkers : u # t => walk'[u] = walk[u]
  BY <1>1, ThreadTypes DEF NextChain
<1>4. /\ w.i \in 0 .. MAX_CLIENTS - 1 /\ i = w.i + 1 /\ w.next_entry = NULL
      /\ DOMAIN Table = 0 .. MAX_CLIENTS - 1 /\ next \in Pointers /\ MAX_CLIENTS \in Nat \ {0}
      /\ \A n \in DOMAIN Table : Table[n] \in Cells \cup {NULL}
  BY <1>1, <1>2, Views, TableAssumption DEF Walking, InPlace, Steps
<1>5. Ahead(next, Table, w) = Later(next, Table, w.i)
  <2>1. Reach(next, {NULL}) = {}
    BY <1>4, ReachFrom
  <2> QED
    BY <1>2, <2>1 DEF Ahead
<1>6. CASE i < MAX_CLIENTS
  <2>1. /\ v \in Steps /\ v.at = "pass" /\ v.i = i /\ v.entry = Table[i] /\ v.next_entry = NULL
        /\ v.func = w.func /\ i \in DOMAIN Table
    <3>1. i \in 0 .. MAX_CLIENTS - 1 /\ i \in DOMAIN Table /\ Table[i] \in Cells \cup {NULL}
      BY <1>4, <1>6
    <3>2. v = [w EXCEPT !.i = i, !.entry = Table[i]]
      BY <1>3, <1>6
    <3> QED
      BY ONLY <1>2, <1>4, <3>1, <3>2 DEF Steps
  <2>2. Ahead(next, Table, v) = Ahead(next, Table, w)
    <3>1. Ahead(next, Table, v) = Later(next, Table, i) \cup List(next, Table, i)
      BY <2>1 DEF Ahead, List
    <3>2. w.i + 1 .. MAX_CLIENTS - 1 = {i} \cup (i + 1 .. MAX_CLIENTS - 1)
      BY <1>4, <1>6
    <3>3. Later(next, Table, w.i) = Later(next, Table, i) \cup List(next, Table, i)
      BY ONLY <3>2 DEF Later
    <3> QED
      BY <1>5, <3>1, <3>3
  <2>3. v.entry = NULL \/ v.entry \in List(next, Table, v.i)
    <3>1. {Table[i]} \in SUBSET (Cells \cup {NULL})
      BY <1>4, <2>1
    <3>2. {Table[i]} \ {NULL} \subseteq Reach(next, {Table[i]})
      BY ONLY <1>4, <3>1, ReachBasics
    <3> QED
      BY <2>1, <3>2 DEF List
  <2>4. IF t = "services" /\ v # Idle
        THEN /\ v.func = walk[t].func /\ visited' \subseteq Cells
             /\ present \subseteq visited' \cup Ahead(next, Table, v)
             /\ visited' \cap (Ahead(next, Table, v) \cup Unlinked) = {}
        ELSE visited' = visited
    <3>1. w # Idle
      BY <1>2 DEF Idle
    <3> QED
      BY <1>1, <1>2, <2>1, <2>2, <3>1 DEF Serviced, TypeOK
  <2>5. walk[t].at # "idle" /\ InPlace(next, Table, key, v)
    BY <1>1, <1>2, <2>1, <2>3 DEF InPlace
  <2>6. TableInv'
    <3> HIDE DEF TableInv, Kept
    <3> QED
      BY <1>2, <1>3, <2>1, <2>3, <2>4, <2>5, Moved
  <2> QED
    BY <1>1, <1>2, <1>3, <2>1, <2>2, <2>6
<1>7. CASE ~(i < MAX_CLIENTS)
  <2>1. v = Idle /\ v \in Steps /\ v.at = "idle"
    BY <1>3, <1>4, <1>7 DEF Idle, Steps
  <2>2. Ahead(next, Table, v) = Ahead(next, Table, w)
    <3>1. w.i + 1 .. MAX_CLIENTS - 1 = {}
      BY <1>4, <1>7
    <3>2. Later(next, Table, w.i) = {}
      BY <3>1 DEF Later
    <3> QED
      BY <1>5, <2>1, <3>2 DEF Ahead
  <2>3. walk[t].at # "idle" /\ InPlace(next, Table, key, v)
    BY <1>1, <1>2, <2>1 DEF InPlace, Idle
  <2>4. TableInv'
    <3> HIDE DEF TableInv, Kept
    <3> QED
      BY <1>2, <1>3, <2>1, <2>3, Moved
  <2> QED
    BY <1>1, <1>2, <1>3, <2>1, <2>2, <2>4
<1> QED
  BY <1>6, <1>7

\* What a thread in the middle of a walk knows of its place.
LEMMA Place ==
  ASSUME TableInv, NEW t \in Walkers, walk[t].at # "idle"
  PROVE  LET w == walk[t]
         IN  /\ w.at \in {"pass", "func"} /\ w \in Steps /\ w.i \in DOMAIN Table
             /\ InPlace(next, Table, key, w)
             /\ w.at = "pass" => w.entry \in {NULL} \cup List(next, Table, w.i)
             /\ w.at = "func" =>
                  /\ w.next_entry = NULL \/ w.next_entry \in List(next, Table, w.i)
                  /\ w.func \in WithRecord => lookup_Hash(w.arg) = w.entry
             /\ List(next, Table, w.i) \subseteq Cells \ Unlinked
<1> USE DEF TableInv, Kept
<1>1. PICK w : w = walk[t]
  OBVIOUS
<1>2. w \in Steps /\ w.i \in DOMAIN Table /\ InPlace(next, Table, key, w)
  BY <1>1, ThreadTypes, Views DEF Walking, Steps
<1>3. List(next, Table, w.i) \subseteq Cells \ Unlinked
  BY <1>2, ListsLinked
<1>4. w.at \in {"idle", "pass", "func"}
  BY <1>2 DEF Steps
<1>5. AtClient(next, Table, key, w) => lookup_Hash(w.arg) = w.entry
  BY <1>3, LookedUp DEF AtClient
<1> HIDE DEF TableInv, Kept
<1> QED
  BY <1>1, <1>2, <1>3, <1>4, <1>5 DEF InPlace

\* A walk reads the cell it is at.
LEMMA VisitStep ==
  ASSUME TableInv, NEW t \in Walkers, Visit(t)
  PROVE  /\ TableInv'
         /\ walk'[t].at = "func" /\ \A u \in Walkers : u # t => walk'[u] = walk[u]
         /\ Ahead(next', Table', walk'[t]) = Ahead(next, Table, walk[t])
         /\ AtClient(next, Table, key, walk'[t])
<1> USE DEF TableInv, Kept
<1>1. PICK w, v, c : w = walk[t] /\ c = walk[t].entry /\ v = walk'[t]
  OBVIOUS
<1>2. /\ UNCHANGED <<Table, key, next, allocated, adding, deleting, dangling, process, present,
                     visited>>
      /\ w.at = "pass" /\ w.entry = c /\ c \in allocated /\ c \in Cells /\ w \in Steps
      /\ Inactive(t)
  BY <1>1, ThreadTypes, DeletesInFunction DEF Visit, table, history, TypeOK
<1>3. /\ walk' = [walk EXCEPT ![t] = v]
      /\ v = [w EXCEPT !.at = "func", !.arg = key[c], !.next_entry = next[c]]
      /\ \A u \in Walkers : u # t => walk'[u] = walk[u]
  BY <1>1, ThreadTypes DEF Visit
<1>4. /\ c \in List(next, Table, w.i) /\ next \in Pointers /\ key[c] \in Keys
      /\ w.i \in DOMAIN Table /\ List(next, Table, w.i) \subseteq Cells \ Unlinked
      /\ Table[w.i] \in Cells \cup {NULL}
  BY <1>1, <1>2, Place, Views, CellsAssumption DEF Filed
<1>5. /\ v \in Steps /\ v.at = "func" /\ v.i = w.i /\ v.entry = c /\ v.next_entry = next[c]
      /\ v.arg = key[c] /\ v.func = w.func
  <2>1. next[c] \in Cells \cup {NULL}
    BY <1>2, <1>4 DEF Pointers
  <2> QED
    BY <1>2, <1>3, <1>4, <2>1 DEF Steps
<1>6. Reach(next, {c}) = {c} \cup Reach(next, {next[c]})
  BY ONLY <1>2, <1>4, ReachFrom
<1>7. Ahead(next, Table, v) = Ahead(next, Table, w)
  BY <1>2, <1>5, <1>6 DEF Ahead
<1>8. AtClient(next, Table, key, v)
  BY <1>4, <1>5 DEF AtClient
<1>9. next[c] = NULL \/ (next[c] \in List(next, Table, w.i) /\ key[next[c]] # key[c])
  <2>1. {Table[w.i]} \in SUBSET (Cells \cup {NULL})
    BY <1>4
  <2>2. Shut(next, List(next, Table, w.i))
    BY ONLY <1>4, <2>1, ReachBasics DEF List
  <2>3. next[c] \in List(next, Table, w.i) \cup {NULL}
    BY <1>4, <2>2 DEF Shut
  <2>4. next[c] # c
    <3>1. Headed(next, Table[w.i])
      BY <1>4 DEF Chained
    <3>2. c \notin Reach(next, {next[c]})
      BY ONLY <1>4, <3>1, NoCycle DEF List
    <3> QED
      BY <1>6, <3>2
  <2>5. next[c] # NULL => next[c] \in allocated
    BY <1>4, <2>3 DEF Unlinked
  <2> QED
    BY <1>2, <2>3, <2>4, <2>5 DEF Filed
<1>10. InPlace(next, Table, key, v)
  BY <1>4, <1>5, <1>8, <1>9 DEF InPlace
<1>11. IF t = "services" /\ v # Idle
      THEN /\ v.func = walk[t].func /\ visited' \subseteq Cells
           /\ present \subseteq visited' \cup Ahead(next, Table, v)
           /\ visited' \cap (Ahead(next, Table, v) \cup Unlinked) = {}
      ELSE visited' = visited
  <2>1. w # Idle
    BY <1>2 DEF Idle
  <2> QED
    BY <1>1, <1>2, <1>5, <1>7, <2>1 DEF Serviced, TypeOK
<1>12. walk[t].at # "idle"
  BY <1>1, <1>2
<1>13. TableInv'
  <2> HIDE DEF TableInv, Kept
  <2> QED
    BY <1>2, <1>3, <1>5, <1>10, <1>11, <1>12, Moved
<1> QED
  BY <1>1, <1>2, <1>3, <1>5, <1>7, <1>8, <1>13

\* A walk whose function returns without a deletion goes on to the next client.
LEMMA ProceedStep ==
  ASSUME TableInv, NEW t \in Walkers, walk[t].at = "func", Inactive(t), Proceed(t),
         UNCHANGED <<table, adding, deleting, dangling, present, process>>,
         visited' = IF t = "services" THEN visited \cup {walk[t].entry} ELSE visited
  PROVE  /\ TableInv'
         /\ walk'[t].at = "pass"
         /\ \A u \in Walkers : u # t => walk'[u] = walk[u]
<1> USE DEF TableInv, Kept
<1>1. PICK w, v, c : w = walk[t] /\ c = walk[t].entry /\ v = walk'[t]
  OBVIOUS
<1>2. /\ UNCHANGED <<Table, key, next, allocated, adding, deleting, dangling, process, present>>
      /\ w.at = "func" /\ w.entry = c /\ w \in Steps
  BY <1>1, ThreadTypes DEF table
<1>3. /\ walk' = [walk EXCEPT ![t] = v]
      /\ v = [w EXCEPT !.at = "pass", !.entry = w.next_entry, !.next_entry = NULL, !.arg = 0]
      /\ \A u \in Walkers : u # t => walk'[u] = walk[u]
  BY <1>1, <1>2, ThreadTypes DEF Proceed
<1>4. /\ w.i \in DOMAIN Table /\ next \in Pointers
      /\ InPlace(next, Table, key, w)
      /\ w.next_entry = NULL \/ w.next_entry \in List(next, Table, w.i)
      /\ List(next, Table, w.i) \subseteq Cells \ Unlinked
      /\ DOMAIN Table = 0 .. MAX_CLIENTS - 1 /\ Table[w.i] \in Cells \cup {NULL}
  BY <1>1, <1>2, Place, Views
<1>5. /\ v \in Steps /\ v.at = "pass" /\ v.i = w.i /\ v.entry = w.next_entry /\ v.next_entry = NULL
      /\ v.func = w.func
  BY <1>2, <1>3 DEF Steps
<1>6. InPlace(next, Table, key, v)
  BY <1>4, <1>5 DEF InPlace
<1>7. walk[t].at # "idle" /\ v # Idle /\ w # Idle
  BY <1>1, <1>2, <1>5 DEF Idle
<1>8. ASSUME t = "services"
      PROVE  /\ visited' \subseteq Cells
             /\ present \subseteq visited' \cup Ahead(next, Table, v)
             /\ visited' \cap (Ahead(next, Table, v) \cup Unlinked) = {}
  <2>1. /\ w.func = "handle_client_services"
        /\ present \subseteq visited \cup Ahead(next, Table, w)
        /\ visited \cap (Ahead(next, Table, w) \cup Unlinked) = {}
    BY <1>1, <1>7, <1>8 DEF Serviced
  <2>2. c \in List(next, Table, w.i) /\ w.next_entry \in {NULL, next[c]} /\ c \in Cells \ Unlinked
    BY <1>2, <1>4, <2>1 DEF InPlace, AtClient, WithRecord
  <2>3. c \notin Later(next, Table, w.i)
    <3> SUFFICES ASSUME NEW m \in w.i + 1 .. MAX_CLIENTS - 1, c \in List(next, Table, m)
                 PROVE  FALSE
      BY DEF Later
    <3>1. m \in DOMAIN Table /\ m # w.i
      BY <1>4
    <3> QED
      BY <1>4, <2>2, <3>1 DEF Filed
  <2>4. c \notin Reach(next, {next[c]})
    <3>1. Headed(next, Table[w.i])
      BY <1>4 DEF Chained
    <3> QED
      BY ONLY <1>4, <2>2, <3>1, NoCycle DEF List
  <2>5. Reach(next, {NULL}) = {}
    BY ONLY <1>4, ReachFrom
  <2>6. c \notin Ahead(next, Table, v)
    BY <1>5, <2>2, <2>3, <2>4, <2>5 DEF Ahead
  <2>7. Ahead(next, Table, w) = {c} \cup Ahead(next, Table, v)
    BY <1>2, <1>5 DEF Ahead
  <2>8. visited \subseteq Cells /\ visited' = visited \cup {c}
    BY <1>1, <1>8 DEF TypeOK
  <2> QED
    BY ONLY <2>1, <2>2, <2>6, <2>7, <2>8
<1>9. TableInv'
  <2> HIDE DEF TableInv, Kept
  <2> QED
    BY <1>1, <1>2, <1>3, <1>5, <1>6, <1>7, <1>8, Moved
<1> QED
  BY <1>1, <1>3, <1>5, <1>9

\* close_connection finds the client that the walk came to, one that came after it
\* under the same descriptor, or none.
LEMMA CloseStep ==
  ASSUME TableInv, NEW t \in Walkers, Close(t)
  PROVE  /\ TableInv' /\ UNCHANGED <<Unlinked, key, next, Table, allocated, adding, dangling>>
         /\ \A u \in Walkers : u # t => walk'[u] = walk[u] /\ Inactive(u)' = Inactive(u)
         /\ walk'[t] # Idle
         /\ \/ walk' = walk
            \/ walk'[t].at = "pass" /\ ~AtClient(next, Table, key, walk[t])
<1>1. PICK c : c = lookup_Hash(walk[t].arg)
  OBVIOUS
<1>2. walk[t].at = "func" /\ Inactive(t)
  BY DEF Close
<1>3. /\ walk[t] # Idle /\ walk[t].arg \in Keys
      /\ walk[t].func \in WithRecord \/ AtClient(next, Table, key, walk[t])
           => lookup_Hash(walk[t].arg) = walk[t].entry /\ walk[t].entry \in Cells
  <2>1. AtClient(next, Table, key, walk[t]) =>
          lookup_Hash(walk[t].arg) = walk[t].entry /\ walk[t].entry \in Cells
    BY <1>2, Place, LookedUp DEF AtClient, TableInv, Kept
  <2> QED
    BY <1>2, <2>1, Place DEF Idle, InPlace
<1>4. CASE c # NULL /\ find_to_delete(t, c)
  <2>1. c \in Cells \ Unlinked /\ key[c] = walk[t].arg
    BY <1>1, <1>3, <1>4, LookedUp DEF TableInv, Kept
  <2>2. /\ TableInv' /\ UNCHANGED <<Unlinked, key, next, Table, allocated, walk, dangling>>
        /\ \A u \in Walkers : u # t => Inactive(u)' = Inactive(u)
    BY <1>2, <1>4, <2>1, FindStep
  <2> QED
    BY <1>3, <1>4, <2>2 DEF find_to_delete
<1>5. CASE /\ c = NULL /\ Proceed(t)
           /\ UNCHANGED <<table, adding, deleting, dangling, history, process>>
  <2>1. t # "services"
    <3> SUFFICES ASSUME t = "services" PROVE FALSE
      OBVIOUS
    <3>1. walk[t].func \in WithRecord
      BY <1>3 DEF TableInv, Serviced, WithRecord
    <3> QED
      BY <1>1, <1>3, <1>5, <3>1, CellsAssumption
  <2>2. /\ TableInv' /\ walk'[t].at = "pass"
        /\ \A u \in Walkers : u # t => walk'[u] = walk[u]
    BY <1>2, <1>5, <2>1, ProceedStep DEF history
  <2>3. UNCHANGED <<Unlinked, key, next, Table, allocated, adding, dangling, deleting>>
    BY <1>5 DEF table, Unlinked
  <2> QED
    BY <1>1, <1>3, <1>5, <2>1, <2>2, <2>3, CellsAssumption DEF Inactive, Idle
<1> QED
  BY <1>1, <1>4, <1>5 DEF Close

----------------------------------------------------------------------------
(* The map that the table stands for. *)

\* The map has the linked cells, each under its key.
Found ==
  \A k \in Keys :
    /\ \A c \in Cells \ Unlinked : key[c] = k => clients[k] = c
    /\ clients[k] # NULL => clients[k] \in Cells \ Unlinked /\ key[clients[k]] = k

\* lookup_Hash finds exactly the linked clients.
LEMMA ClientsFound == TypeOK /\ Chained /\ Filed => Found
<1> SUFFICES ASSUME TypeOK, Chained, Filed, NEW k \in Keys
             PROVE  /\ \A c \in Cells \ Unlinked : key[c] = k => clients[k] = c
                    /\ clients[k] # NULL =>
                         clients[k] \in Cells \ Unlinked /\ key[clients[k]] = k
  BY DEF Found
<1>1. clients[k] = lookup_Hash(k)
  BY DEF clients
<1> QED
  BY <1>1, LookedUp

\* The same after a step.
LEMMA FoundAfter == (TypeOK /\ Chained /\ Filed)' => Found'
  BY ClientsFound, PTL

\* What a step does to the linked cells and their keys, in terms of the map.
LEMMA MapStep ==
  ASSUME Kept, Kept',
         \/ Unlinked' = Unlinked /\ \A d \in Cells \ Unlinked : key'[d] = key[d]
         \/ \E e \in Cells \cap Unlinked : Unlinked' = Unlinked \ {e} /\ key' = key
         \/ \E c \in Cells \ Unlinked : /\ Unlinked' = Unlinked \cup {c}
                                        /\ \A d \in Cells \ {c} : key'[d] = key[d]
  PROVE  Map!Next \/ UNCHANGED clients
<1>1. Found /\ Found'
  BY ClientsFound, FoundAfter DEF Kept
<1>2. /\ clients = [k \in Keys |-> clients[k]]
      /\ clients' = [k \in Keys |-> clients'[k]]
  BY DEF clients
<1>3. /\ \A c \in Cells \ Unlinked : key[c] \in Keys
      /\ \A c \in Cells \ Unlinked' : key'[c] \in Keys
  BY DEF Kept, Filed, Unlinked
<1>4. \A k \in Keys :
        (\A j \in Keys \ {k} : clients'[j] = clients[j])
          => clients' = [clients EXCEPT ![k] = clients'[k]]
  BY ONLY <1>2
<1>5. NULL \notin Cells
  BY CellsAssumption
<1>6. CASE Unlinked' = Unlinked /\ \A d \in Cells \ Unlinked : key'[d] = key[d]
  <2>1. \A k \in Keys : clients'[k] = clients[k]
    BY ONLY <1>1, <1>5, <1>6 DEF Found
  <2> QED
    BY ONLY <1>2, <2>1
<1>7. ASSUME NEW e \in Cells \cap Unlinked, Unlinked' = Unlinked \ {e}, key' = key
      PROVE  Map!Next
  <2>1. PICK k \in Keys : k = key[e]
    BY <1>3, <1>7
  <2>2. clients'[k] = e
    BY ONLY <1>1, <1>7, <2>1 DEF Found
  <2>3. \A j \in Keys : clients[j] # e
    BY ONLY <1>1, <1>5, <1>7 DEF Found
  <2>4. clients[k] = NULL
    BY ONLY <1>1, <1>7, <2>1, <2>2, <2>3 DEF Found
  <2>5. \A j \in Keys \ {k} : clients'[j] = clients[j]
    BY ONLY <1>1, <1>5, <1>7, <2>1, <2>2 DEF Found
  <2> QED
    BY ONLY <1>4, <1>5, <1>7, <2>2, <2>3, <2>4, <2>5 DEF Map!Next, Map!Add
<1>8. ASSUME NEW c \in Cells \ Unlinked, Unlinked' = Unlinked \cup {c},
             \A d \in Cells \ {c} : key'[d] = key[d]
      PROVE  Map!Next
  <2>1. PICK k \in Keys : k = key[c]
    BY <1>3
  <2>2. clients[k] = c
    BY ONLY <1>1, <1>8, <2>1 DEF Found
  <2>3. clients'[k] = NULL
    BY ONLY <1>1, <1>8, <2>1, <2>2 DEF Found
  <2>4. \A j \in Keys \ {k} : clients'[j] = clients[j]
    BY ONLY <1>1, <1>5, <1>8, <2>1, <2>2 DEF Found
  <2> QED
    BY ONLY <1>4, <1>5, <1>8, <2>2, <2>3, <2>4 DEF Map!Next, Map!Delete
<1> QED
  BY <1>6, <1>7, <1>8

----------------------------------------------------------------------------
(* All steps together. *)

\* The steps that threads take in the table.
TableStep ==
  \/ \E k \in Keys : add_Hash(k) \/ MainDeletes(k)
  \/ add_Hash_link
  \/ \E t \in Walkers : \/ \E func \in WithRecord \cup WithKey :
                             /\ StartWalk(t, func)
                             /\ t = "main" => adding = NULL
                             /\ t = "services" => func = "handle_client_services"
                        \/ WalkStep(t) \/ VisitFreed(t) \/ delete_value_hash(t)
                        \/ Use(t) \/ Close(t)
  \/ UNCHANGED vars

\* Nothing is in the table and nobody is in the middle of a walk or a deletion.
Empty ==
  /\ TypeOK
  /\ \A n \in DOMAIN Table : Table[n] = NULL
  /\ \A c \in Cells : next[c] = NULL
  /\ allocated = {} /\ adding = NULL
  /\ \A t \in Walkers : walk[t] = Idle /\ Inactive(t)

\* An empty table that nobody walks over is in order.
LEMMA EmptyTable == Empty => TableInv /\ Unlinked = Cells
<1> SUFFICES ASSUME Empty PROVE TableInv /\ Unlinked = Cells
  OBVIOUS
<1> USE DEF Empty
<1>1. Unlinked = Cells
  BY DEF Unlinked
<1>2. Chained
  BY <1>1, CellsAssumption DEF Chained, Headed
<1>3. Filed /\ Allocated
  <2>1. \A n \in DOMAIN Table : List(next, Table, n) = {}
    BY Views, ReachFrom DEF List
  <2> QED
    BY <1>1, <2>1 DEF Filed, Allocated
<1>4. Placed /\ Walking /\ Deleting /\ Serviced
  BY DEF Placed, Walking, InPlace, Deleting, Serviced, Idle, Walkers
<1> QED
  BY <1>1, <1>2, <1>3, <1>4 DEF TableInv, Kept

\* The same after a step.
LEMMA EmptyAfter == Empty' => TableInv' /\ (Unlinked = Cells)'
  BY EmptyTable, PTL

\* The table is in order, and the map empty, when the server starts.
LEMMA TableInitially == Init => TableInv /\ Map!Init /\ ~dangling
<1> SUFFICES ASSUME Init PROVE TableInv /\ Map!Init /\ ~dangling
  OBVIOUS
<1>1. walk \in [Walkers -> Steps] /\ deleting \in [Walkers -> Deletions]
  BY TableAssumption DEF Init, Idle, NoDeletion, Steps, Deletions
<1>2. TypeOK
  BY <1>1 DEF Init, TypeOK, Steps, Deletions
<1>3. Empty
  BY <1>2 DEF Init, Empty, Inactive
<1>4. TableInv /\ Unlinked = Cells
  BY <1>3, EmptyTable
<1>5. \A k \in Keys : clients[k] = NULL
  BY <1>4, ClientsFound DEF TableInv, Kept, Found
<1> QED
  BY <1>4, <1>5 DEF Map!Init, clients, Init

\* A thread that holds its cells does not come to a freed one.
LEMMA NoneFreed ==
  ASSUME TableInv, NEW t \in Walkers
  PROVE  ~VisitFreed(t)
<1> SUFFICES ASSUME VisitFreed(t) PROVE FALSE
  OBVIOUS
<1>1. walk[t].at = "pass" /\ walk[t].entry \in Cells \ allocated /\ walk[t].entry # NULL
  BY CellsAssumption DEF VisitFreed
<1>2. walk[t].entry \in Cells \ Unlinked
  BY <1>1, Place
<1> QED
  BY <1>1, <1>2 DEF Unlinked

\* As long as no thread was deprived of a cell, a step in the table keeps it in
\* order, is a step of the map, and leaves no client behind that the services thread
\* has not serviced.
LEMMA TableKept ==
  ASSUME TableInv, ~dangling, TableStep
  PROVE  /\ Kept' /\ (~dangling' => TableInv') /\ (Map!Next \/ UNCHANGED clients)
         /\ walk["services"] # Idle /\ walk'["services"] = Idle => present \subseteq visited
         /\ walk["services"].at = "pass" /\ walk'["services"].at = "func"
              => walk["services"].entry \in Linked
<1> DEFINE Done == /\ Kept' /\ (~dangling' => TableInv') /\ (Map!Next \/ UNCHANGED clients)
                   /\ walk["services"] # Idle /\ walk'["services"] = Idle
                        => present \subseteq visited
                   /\ walk["services"].at = "pass" /\ walk'["services"].at = "func"
                        => walk["services"].entry \in Linked
<1> SUFFICES Done
  OBVIOUS
<1>1. "services" \in Walkers /\ Kept /\ (TableInv' => Kept')
  BY DEF Walkers, TableInv
<1>2. ASSUME NEW k \in Keys, add_Hash(k) PROVE Done
  BY <1>1, <1>2, AddStep, MapStep
<1>4. CASE add_Hash_link
  BY <1>1, <1>4, LinkStep, MapStep
<1>5. ASSUME UNCHANGED <<Unlinked, key>>, TableInv' PROVE Map!Next \/ UNCHANGED clients
  BY <1>1, <1>5, MapStep
<1>3. ASSUME NEW k \in Keys, MainDeletes(k) PROVE Done
  <2>1. PICK c : c = lookup_Hash(k)
    OBVIOUS
  <2>2. /\ c \in Cells \ Unlinked /\ find_to_delete("main", c)
        /\ adding = NULL /\ walk["main"] = Idle
    BY <1>1, <1>3, <2>1, LookedUp DEF MainDeletes, MainFree, Kept
  <2>3. TableInv' /\ UNCHANGED <<Unlinked, key, walk>>
    BY <2>2, FindStep DEF Walkers
  <2> QED
    BY <1>1, <1>5, <2>3
<1>6. ASSUME NEW t \in Walkers, NEW func \in WithRecord \cup WithKey, StartWalk(t, func),
             t = "main" => adding = NULL, t = "services" => func = "handle_client_services"
      PROVE  Done
  <2>1. UNCHANGED <<Unlinked, key>>
    BY <1>6 DEF StartWalk, table, Unlinked
  <2>2. TableInv' /\ walk'[t].at = "pass" /\ \A u \in Walkers : u # t => walk'[u] = walk[u]
    BY <1>6, StartStep
  <2> QED
    BY <1>1, <1>5, <2>1, <2>2 DEF Idle
<1>7. ASSUME NEW t \in Walkers, NextChain(t) PROVE Done
  <2>1. UNCHANGED <<Unlinked, key>>
    BY <1>7 DEF NextChain, table, Unlinked
  <2>2. /\ TableInv' /\ \A u \in Walkers : u # t => walk'[u] = walk[u]
        /\ Ahead(next', Table', walk'[t]) = Ahead(next, Table, walk[t])
    BY <1>7, NextChainStep
  <2>3. ASSUME walk["services"] # Idle, walk'["services"] = Idle PROVE present \subseteq visited
    <3>1. t = "services"
      BY <1>1, <2>2, <2>3
    <3>2. Ahead(next', Table', walk'[t]) = {}
      BY <2>3, <3>1 DEF Ahead, Idle
    <3> QED
      BY <2>2, <2>3, <3>1, <3>2 DEF TableInv, Serviced
  <2>4. walk'["services"].at = "func" => walk["services"].at = "func"
    <3>1. walk'[t].at \in {"idle", "pass"}
      BY <1>7, NextChainStep
    <3> QED
      BY <1>1, <2>2, <3>1
  <2> QED
    BY <1>1, <1>5, <2>1, <2>2, <2>3, <2>4
<1>8. ASSUME NEW t \in Walkers, Visit(t) PROVE Done
  <2>1. UNCHANGED <<Unlinked, key>>
    BY <1>8 DEF Visit, table, Unlinked
  <2>2. TableInv' /\ walk'[t].at = "func" /\ \A u \in Walkers : u # t => walk'[u] = walk[u]
    BY <1>8, VisitStep
  <2>3. walk[t].entry \in Linked
    <3>1. walk[t].at = "pass" /\ walk[t].entry \in allocated
      BY <1>8 DEF Visit
    <3>2. walk[t].entry \in List(next, Table, walk[t].i) /\ walk[t].i \in DOMAIN Table
      BY <1>1, <3>1, Place, CellsAssumption DEF Kept, TypeOK
    <3> QED
      BY <1>1, <3>2, Views DEF Kept
  <2> QED
    BY <1>1, <1>5, <2>1, <2>2, <2>3 DEF Idle
<1>9. ASSUME NEW t \in Walkers, delete_value_hash(t) PROVE Done
  <2>1. /\ Kept' /\ (~dangling' => TableInv')
        /\ \E c \in Cells \ Unlinked : /\ Unlinked' = Unlinked \cup {c}
                                       /\ \A d \in Cells \ {c} : key'[d] = key[d]
        /\ \A u \in Walkers : u # t => walk'[u] = walk[u]
        /\ \/ walk[t] = Idle /\ walk'[t] = Idle
           \/ walk[t].at = "func" /\ walk'[t].at = "pass"
    BY <1>9, RemoveStep
  <2>2. Map!Next \/ UNCHANGED clients
    BY <1>1, <2>1, MapStep
  <2> QED
    BY <1>1, <2>1, <2>2 DEF Idle
<1>10. ASSUME NEW t \in Walkers, Close(t) PROVE Done
  <2>1. /\ TableInv' /\ UNCHANGED <<Unlinked, key>> /\ walk'[t] # Idle
        /\ \A u \in Walkers : u # t => walk'[u] = walk[u]
    BY <1>10, CloseStep
  <2>2. walk[t].at = "func"
    BY <1>10 DEF Close
  <2> QED
    BY <1>1, <1>5, <2>1, <2>2
<1>11. ASSUME NEW t \in Walkers, Use(t) PROVE Done
  <2>1. UNCHANGED <<Unlinked, key>>
    BY <1>11 DEF Use, table, Unlinked
  <2>2. TableInv' /\ walk'[t].at = "pass" /\ \A u \in Walkers : u # t => walk'[u] = walk[u]
    BY <1>11, ProceedStep DEF Use
  <2> QED
    BY <1>1, <1>5, <2>1, <2>2 DEF Idle
<1>12. CASE UNCHANGED vars
  <2>1. UNCHANGED <<Table, key, next, allocated, adding, walk, deleting, dangling, present,
                    visited, process>>
    BY <1>12 DEF vars, table, history
  <2>2. TableInv' /\ UNCHANGED <<Unlinked, key>>
    BY <2>1 DEF TableInv, Kept, TypeOK, Chained, Filed, Allocated, Placed, Inactive, Walking,
                Deleting, Serviced, Unlinked
  <2> QED
    BY <1>1, <1>5, <2>1, <2>2
<1> HIDE DEF Done
<1> QED
  BY <1>2, <1>3, <1>4, <1>6, <1>7, <1>8, <1>9, <1>10, <1>11, <1>12, NoneFreed
     DEF TableStep, WalkStep

\* What the invariant says about the threads in the table and about memory.
LEMMA TableMeaning ==
  /\ TableInv =>
       /\ HoldsLinkedCells
       /\ walk["services"].at = "func" => walk["services"].entry \notin visited
  /\ Kept => NoLostClient /\ Linked = Cells \ Unlinked
<1>1. ASSUME Kept PROVE NoLostClient /\ Linked = Cells \ Unlinked
  <2> USE DEF Kept
  <2>1. /\ DOMAIN Table = 0 .. MAX_CLIENTS - 1
        /\ Linked = UNION {List(next, Table, n) : n \in DOMAIN Table}
    BY <1>1, Views
  <2>2. Linked \subseteq Cells \ Unlinked
    BY <1>1, <2>1, ListsLinked
  <2>3. ASSUME NEW c \in Cells \ Unlinked PROVE c \in Linked
    <3>1. key[c] \in Keys
      BY <1>1 DEF Unlinked, Filed
    <3>2. compute_Hash(key[c]) \in DOMAIN Table
      BY <2>1, <3>1, HashRange
    <3> QED
      BY <1>1, <2>1, <3>2 DEF Filed
  <2>4. Linked = Cells \ Unlinked
    BY <2>2, <2>3
  <2>5. allocated \subseteq Cells /\ (adding # NULL => adding.entry \in allocated)
    BY <1>1 DEF TypeOK, Allocated
  <2> QED
    BY <2>4, <2>5 DEF NoLostClient, Unlinked
<1>2. ASSUME TableInv PROVE HoldsLinkedCells
  <2>1. /\ next \in Pointers /\ DOMAIN Table = 0 .. MAX_CLIENTS - 1
        /\ \A n \in DOMAIN Table : Chain(n) = List(next, Table, n)
        /\ Linked = Cells \ Unlinked /\ Kept
    BY <1>1, <1>2, Views DEF TableInv, Kept
  <2>2. \A c \in Cells : next[c] # NULL => c \in Linked
    BY <2>1 DEF Kept, Chained
  <2>3. ASSUME NEW t \in Walkers
        PROVE  /\ walk[t].next_entry \in Linked \cup {NULL}
               /\ walk[t].next_entry # NULL => walk[t].next_entry \in Chain(walk[t].i)
               /\ walk[t].at = "pass" \/ walk[t].func \in WithRecord
                    => walk[t].entry \in Linked \cup {NULL}
    <3>1. PICK w : w = walk[t]
      OBVIOUS
    <3>2. CASE w.at = "idle"
      <4>1. w = Idle
        BY <1>2, <3>1, <3>2 DEF TableInv, Walking, InPlace
      <4> QED
        BY <3>1, <4>1 DEF Idle, WithRecord
    <3>3. CASE w.at # "idle"
      <4>1. /\ w.at \in {"pass", "func"} /\ w.i \in DOMAIN Table
            /\ InPlace(next, Table, key, w)
            /\ w.at = "pass" => w.entry \in {NULL} \cup List(next, Table, w.i)
            /\ w.at = "func" => \/ w.next_entry = NULL
                                \/ w.next_entry \in List(next, Table, w.i)
            /\ List(next, Table, w.i) \subseteq Cells \ Unlinked
        BY <1>2, <3>1, <3>3, Place
      <4> QED
        BY <2>1, <3>1, <4>1 DEF InPlace, AtClient
    <3> QED
      BY <3>2, <3>3
  <2>4. ASSUME NEW t \in Walkers
        PROVE  LET d == deleting[t]
               IN  /\ d.cell \in Linked \cup {NULL} /\ d.pred \in Linked \cup {NULL}
                   /\ d.cell # NULL => IF d.pred = NULL THEN Table[compute_Hash(key[d.cell])] = d.cell
                                                        ELSE next[d.pred] = d.cell
    <3>1. PICK d : d = deleting[t]
      OBVIOUS
    <3>2. d \in Deletions
      BY <2>1, <3>1, ThreadTypes
    <3>3. CASE d = NoDeletion
      BY <3>1, <3>3 DEF NoDeletion
    <3>4. CASE d # NoDeletion
      <4>1. Cuts(next, Table, key, d) /\ d.cell \notin Unlinked
        BY <1>2, <3>1, <3>4 DEF TableInv, Deleting, Inactive
      <4>2. d.pred # NULL => d.pred \in Linked
        BY <2>2, <3>2, <4>1 DEF Cuts, Deletions
      <4> QED
        BY <2>1, <3>1, <4>1, <4>2 DEF Cuts
    <3> QED
      BY <3>3, <3>4
  <2>5. ASSUME adding # NULL
        PROVE  LET n == compute_Hash(key[adding.entry])
               IN  /\ IF adding.last = NULL THEN Table[n] = NULL
                      ELSE adding.last \in Chain(n) /\ next[adding.last] = NULL
                   /\ adding.last \in Linked \cup {NULL}
    <3>1. PICK n : n = compute_Hash(key[adding.entry])
      OBVIOUS
    <3>2. n \in DOMAIN Table
      BY <2>1, <2>5, <3>1, HashRange DEF Kept, Allocated, Filed
    <3>3. IF adding.last = NULL THEN Table[n] = NULL
          ELSE adding.last \in List(next, Table, n) /\ next[adding.last] = NULL
      BY <1>2, <2>5, <3>1 DEF TableInv, Placed
    <3>4. List(next, Table, n) \subseteq Linked
      BY <2>1, <3>2, ListsLinked DEF Kept
    <3> QED
      BY <2>1, <3>1, <3>2, <3>3, <3>4
  <2>6. ASSUME NEW t \in Walkers PROVE Held(t) \subseteq Linked \cup {NULL}
    BY <2>3, <2>4, <2>5 DEF Held
  <2> QED
    BY <2>3, <2>4, <2>5, <2>6 DEF HoldsLinkedCells
<1>3. ASSUME TableInv, walk["services"].at = "func"
      PROVE  walk["services"].entry \notin visited
  BY <1>3 DEF TableInv, Serviced, Ahead, Idle
<1> QED
  BY <1>1, <1>2, <1>3

----------------------------------------------------------------------------
(* The registry by itself. *)

\* The steps of the registry by itself are steps in the table.
LEMMA NextIsTableStep ==
  ASSUME [Next]_vars
  PROVE  TableStep
<1> USE DEF Walkers, WithRecord, WithKey
<1>1. ASSUME NEW t \in Walkers, InWalk(t) \/ Use(t) \/ Close(t) PROVE TableStep
  BY <1>1 DEF TableStep, InWalk
<1>2. CASE Main
  <2>1. CASE MainFree /\ StartWalk("main", "x2_send_server_info")
    BY <2>1 DEF TableStep, MainFree
  <2>2. CASE add_Hash_link \/ \E k \in Keys : add_Hash(k) \/ MainDeletes(k)
    BY <2>2 DEF TableStep
  <2> QED
    BY <1>1, <1>2, <2>1, <2>2 DEF Main
<1>3. CASE Services
  <2>1. CASE StartWalk("services", "handle_client_services")
    BY <2>1 DEF TableStep
  <2> QED
    BY <1>1, <1>3, <2>1 DEF Services, PingCloses
<1>4. CASE Console
  <2>1. ASSUME NEW func \in {"show_client_info", "close_connection"}, StartWalk("console", func)
        PROVE  TableStep
    BY <2>1 DEF TableStep
  <2> QED
    BY <1>1, <1>4, <2>1 DEF Console, CloseEach
<1> QED
  BY <1>2, <1>3, <1>4 DEF Next, TableStep

\* What was freed under a thread stays so.
LEMMA DanglingStays == dangling /\ TableStep => dangling'
<1> SUFFICES ASSUME dangling, TableStep PROVE dangling'
  OBVIOUS
<1>1. ASSUME NEW t \in Walkers, delete_value_hash(t) PROVE dangling'
  BY <1>1 DEF delete_value_hash
<1>2. ASSUME NEW t \in Walkers,
             WalkStep(t) \/ VisitFreed(t) \/ Use(t) \/ \E func : StartWalk(t, func)
      PROVE  dangling'
  BY <1>2 DEF WalkStep, NextChain, Visit, VisitFreed, Use, StartWalk
<1>3. ASSUME NEW t \in Walkers, Close(t) PROVE dangling'
  BY <1>3 DEF Close, find_to_delete
<1>4. ASSUME NEW k \in Keys, add_Hash(k) \/ MainDeletes(k) PROVE dangling'
  BY <1>4 DEF add_Hash, MainDeletes, find_to_delete
<1>5. CASE add_Hash_link \/ UNCHANGED vars
  BY <1>5 DEF add_Hash_link, vars
<1> QED
  BY <1>1, <1>2, <1>3, <1>4, <1>5 DEF TableStep

InOrder == ~dangling => TableInv

\* Up to the first deletion of a cell that another thread holds the chains stay free
\* of cycles and disjoint, each client stays in the chain of its key, each walk goes on
\* to a cell of its chain, each deletion unlinks its cell from where the chain leads to
\* it, and each addition links behind the last cell, for any number of chains, clients
\* and keys, although nothing keeps the threads from deleting while others are in the
\* middle of a walk, an addition or a deletion (hash_table.c).
THEOREM TableInvariance == Spec => []InOrder
<1>1. Init => InOrder
  BY TableInitially DEF InOrder
<1>2. InOrder /\ [Next]_vars => InOrder'
  BY NextIsTableStep, TableKept, DanglingStays DEF InOrder
<1> QED
  BY <1>1, <1>2, PTL DEF Spec

\* Such a deletion is the only cause of what the race shows: as long as there was none
\* iter_Hash runs its function on clients of the table only.
THEOREM WalksOnlyTable ==
  Spec => [][~dangling /\ walk["services"].at = "pass" /\ walk'["services"].at = "func"
               => walk["services"].entry \in Linked]_vars
<1>1. InOrder /\ [Next]_vars =>
        [~dangling /\ walk["services"].at = "pass" /\ walk'["services"].at = "func"
           => walk["services"].entry \in Linked]_vars
  BY NextIsTableStep, TableKept DEF InOrder
<1> QED
  BY <1>1, TableInvariance, PTL DEF Spec
================================================================================
