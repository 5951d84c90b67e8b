-------------------------- MODULE MatchRulesProofs --------------------------
(***************************************************************************)
(* What a match rule may return, whatever the queue, the configuration, the *)
(* joinable instances and the fairness records: parties that were queued, a *)
(* task force for each of their players and nobody else, and an instance    *)
(* that was offered, with a seat for each of them; sides that a backfill    *)
(* makes more equal; for a strict queue, equal sides of a new match and     *)
(* nobody who was passed over for one with less of a claim; and the         *)
(* defenders of a Double Agent match, one split party at most, in turn.     *)
(*                                                                          *)
(* The rules are folds, and FoldLeft is defined by a CHOOSE of a recursive  *)
(* function.  The first sections show that this function exists for any     *)
(* step that stays in a set X (FoldExists) and what its values are          *)
(* (FoldSteps).  The proof of each fold then says what its step is and that *)
(* it stays in X: the steps <1>6 to <1>12 are the same in all of them.      *)
(***************************************************************************)
EXTENDS MatchRules, FiniteSetTheorems, SequenceTheorems, WellFoundedInduction, TLAPS

-----------------------------------------------------------------------------
(* Numbers and positions.                                                 *)

\* A set of numbers that is not empty has a least one.
LEMMA LeastNat ==
    ASSUME NEW T \in SUBSET Nat, T # {}
    PROVE  \E n \in T : \A m \in T : n <= m
  <1> DEFINE R == {d \in Nat \X Nat : d[1] < d[2]}
  <1>1. IsWellFoundedOn(R, Nat)
    BY NatLessThanWellFounded DEF OpToRel
  <1>2. \E x \in T : \A y \in T : ~(<<y, x>> \in R)
    BY <1>1, WFMin
  <1>3. PICK x \in T : \A y \in T : ~(<<y, x>> \in R)
    BY <1>2
  <1>4. ASSUME NEW y \in T PROVE x <= y
    <2>1. y \in Nat /\ x \in Nat /\ ~(<<y, x>> \in R)
      BY <1>3
    <2>2. ~(y < x)
      BY <2>1
    <2> QED BY <2>1, <2>2
  <1> QED BY <1>4

\* Induction up to n, for a set P in place of a predicate.
LEMMA NatInd ==
    ASSUME NEW n \in Nat, NEW P, 0 \in P, \A k \in 0 .. n - 1 : k \in P => k + 1 \in P
    PROVE  n \in P
  <1> DEFINE T == {k \in 0 .. n : k \notin P}
  <1>1. ASSUME T # {} PROVE FALSE
    <2>1. T \in SUBSET Nat
      OBVIOUS
    <2>2. PICK m \in T : \A k \in T : m <= k
      BY <1>1, <2>1, LeastNat
    <2>3. m # 0 /\ m - 1 \in 0 .. n - 1 /\ m - 1 \notin T
      BY <2>2
    <2>4. m - 1 \in P
      BY <2>3
    <2> QED BY <2>2, <2>3, <2>4
  <1> QED BY <1>1

\* Max of a set of positions, FoldLeft takes the last position away first.
LEMMA MaxInterval ==
    ASSUME NEW n \in Nat, NEW S \in SUBSET (1 .. n), S # {}
    PROVE  Max(S) \in S /\ \A m \in S : m <= Max(S)
  <1> DEFINE T == {n - m : m \in S}
  <1>a. T \in SUBSET Nat /\ T # {}
    <2>1. \A m \in S : n - m \in Nat
      OBVIOUS
    <2> QED BY <2>1
  <1> HIDE DEF T
  <1>1. PICK t \in T : \A u \in T : t <= u
    BY <1>a, LeastNat
  <1> USE DEF T
  <1>2. PICK m \in S : t = n - m
    BY <1>1
  <1>3. \A k \in S : m >= k
    BY <1>1, <1>2
  <1> QED BY <1>3 DEF Max

\* Min of a set of positions, PlacePool takes the first instance that fits.
LEMMA MinNat ==
    ASSUME NEW S \in SUBSET Nat, S # {}
    PROVE  Min(S) \in S /\ \A m \in S : Min(S) <= m
  BY LeastNat DEF Min

\* Max of a finite set of numbers, the last time anybody defended.
LEMMA MaxNat ==
    ASSUME NEW S \in SUBSET Nat, IsFiniteSet(S), S # {}
    PROVE  Max(S) \in S
  <1> PICK n \in Nat : n = Cardinality(S)
    BY FS_CardinalityType
  <1>1. PICK f \in [1 .. n -> S] : \A x \in S : \E k \in 1 .. n : f[k] = x
    <2>1. Cardinality(S) \in Nat /\ ExistsBijection(1 .. Cardinality(S), S)
      BY FS_CardinalityType
    <2> QED BY <2>1 DEF ExistsBijection, Bijection, Surjection
  <1> DEFINE P == {k \in 0 .. n : \E b \in Nat : \A i \in 1 .. k : f[i] <= b}
  <1>2. 0 \in P
    OBVIOUS
  <1>3. ASSUME NEW k \in 0 .. n - 1, k \in P PROVE k + 1 \in P
    <2>1. PICK b \in Nat : \A i \in 1 .. k : f[i] <= b
      BY <1>3
    <2>2. /\ k \in Nat /\ k + 1 \in 0 .. n /\ f[k + 1] \in Nat
          /\ \A i \in 1 .. k : f[i] \in Nat
      <3>1. k \in Nat /\ k + 1 \in 0 .. n /\ k + 1 \in 1 .. n /\ 1 .. k \subseteq 1 .. n
        OBVIOUS
      <3>2. \A i \in 1 .. n : f[i] \in Nat
        OBVIOUS
      <3> QED BY <3>1, <3>2
    <2> DEFINE c == b + f[k + 1]
    <2>3. \A i \in 1 .. k + 1 : f[i] <= c
      <3>1. \A i \in 1 .. k + 1 : i \in 1 .. k \/ i = k + 1
        BY <2>2
      <3> QED BY <2>1, <2>2, <3>1
    <2>4. c \in Nat
      BY <2>2
    <2> QED BY <2>2, <2>3, <2>4
  <1>4. n \in P
    <2> HIDE DEF P
    <2> QED BY <1>2, <1>3, NatInd
  <1>5. PICK b \in Nat : \A x \in S : x <= b
    BY <1>1, <1>4
  <1> DEFINE T == {b - x : x \in S}
  <1>6. PICK t \in T : \A u \in T : t <= u
    <2>1. \A x \in S : b - x \in Nat
      BY <1>5
    <2>2. T \in SUBSET Nat /\ T # {}
      BY <2>1
    <2> HIDE DEF T
    <2> QED BY <2>2, LeastNat
  <1>7. PICK m \in S : t = b - m
    BY <1>6
  <1>8. \A x \in S : m >= x
    <2>1. \A x \in S : b - m <= b - x
      BY <1>6, <1>7
    <2>2. m \in Nat /\ \A x \in S : x \in Nat
      OBVIOUS
    <2> QED BY <2>1, <2>2
  <1> QED BY <1>8 DEF Max

\* The last of the first k positions and the ones before it.
LEMMA UpTo ==
    ASSUME NEW k \in Nat, k > 0
    PROVE  Max(1 .. k) = k /\ (1 .. k) \ {k} = 1 .. (k - 1)
  <1>a. (1 .. k) \in SUBSET (1 .. k) /\ k \in 1 .. k
    OBVIOUS
  <1>b. Max(1 .. k) \in 1 .. k /\ \A m \in 1 .. k : m <= Max(1 .. k)
    BY <1>a, MaxInterval
  <1>1. Max(1 .. k) = k
    BY <1>a, <1>b
  <1> QED BY <1>1

\* Of a set of pairs of numbers one is the least, the first numbers first.
LEMMA LeastPair ==
    ASSUME NEW n \in Nat, NEW D \in SUBSET ((1 .. n) \X (1 .. n)), D # {}
    PROVE  \E d \in D : \A e \in D : d[1] < e[1] \/ (d[1] = e[1] /\ d[2] <= e[2])
  <1> DEFINE A == {d[1] : d \in D}
  <1>0. \A d \in D : d[1] \in Nat /\ d[2] \in Nat
    OBVIOUS
  <1>1. PICK i \in A : \A m \in A : i <= m
    <2>1. A \in SUBSET Nat /\ A # {}
      BY <1>0
    <2> HIDE DEF A
    <2> QED BY <2>1, LeastNat
  <1> DEFINE B == {d[2] : d \in {e \in D : e[1] = i}}
  <1>2. PICK j \in B : \A m \in B : j <= m
    <2>1. B \in SUBSET Nat /\ B # {}
      BY <1>0, <1>1
    <2> HIDE DEF B
    <2> QED BY <2>1, LeastNat
  <1>3. PICK d \in D : d[1] = i /\ d[2] = j
    BY <1>2
  <1>4. ASSUME NEW e \in D PROVE d[1] < e[1] \/ (d[1] = e[1] /\ d[2] <= e[2])
    <2>1. i <= e[1] /\ i \in Nat /\ e[1] \in Nat
      BY <1>0, <1>1, <1>3
    <2>2. e[1] = i => j <= e[2]
      BY <1>2
    <2> QED BY <1>3, <2>1, <2>2
  <1> QED BY <1>4

\* Min of two numbers.
LEMMA MinPair ==
    ASSUME NEW a \in Int, NEW b \in Int
    PROVE  Min({a, b}) \in {a, b} /\ Min({a, b}) <= a /\ Min({a, b}) <= b
  <1>1. \E x \in {a, b} : \A y \in {a, b} : x <= y
    <2>1. CASE a <= b
      BY <2>1
    <2>2. CASE ~(a <= b)
      BY <2>2
    <2> QED BY <2>1, <2>2
  <1>2. Min({a, b}) \in {a, b} /\ \A y \in {a, b} : Min({a, b}) <= y
    BY <1>1 DEF Min
  <1> QED BY <1>2

\* The number of the first n positions.
LEMMA Interval ==
    ASSUME NEW n \in Nat
    PROVE  IsFiniteSet(1 .. n) /\ Cardinality(1 .. n) = n
  <1>1. n \in Int /\ 1 \in Int /\ n >= 0
    OBVIOUS
  <1>2. IsFiniteSet(1 .. n) /\ Cardinality(1 .. n) = IF 1 > n THEN 0 ELSE n - 1 + 1
    BY <1>1, FS_Interval
  <1> QED BY <1>1, <1>2

-----------------------------------------------------------------------------
(* Folds.                                                                 *)

\* What FoldLeft computes for the sets of the first n positions, from b and with
\* the step G.
Folds(it, n, X, b, G) ==
    /\ it \in [SUBSET (1 .. n) -> X]
    /\ \A t \in SUBSET (1 .. n) :
          it[t] = IF t = {} THEN b ELSE G[<<it[t \ {Max(t)}], Max(t)>>]

\* A step that stays in X can be folded.
LEMMA FoldExists ==
    ASSUME NEW n \in Nat, NEW X, NEW b \in X, NEW G \in [X \X (1 .. n) -> X]
    PROVE  \E it : Folds(it, n, X, b, G)
  <1> DEFINE Good(k, h) == /\ h \in [SUBSET (1 .. k) -> X]
                           /\ \A t \in SUBSET (1 .. k) :
                                 h[t] = IF t = {} THEN b ELSE G[<<h[t \ {Max(t)}], Max(t)>>]
             P == {k \in 0 .. n : \E h : Good(k, h)}
  <1>1. 0 \in P
    <2> DEFINE h == [t \in SUBSET (1 .. 0) |-> b]
    <2>1. Good(0, h)
      <3>1. \A t \in SUBSET (1 .. 0) : t = {}
        OBVIOUS
      <3> QED BY <3>1
    <2> HIDE DEF Good
    <2> QED BY <2>1
  <1>2. ASSUME NEW k \in 0 .. n - 1, k \in P
        PROVE  k + 1 \in P
    <2>1. PICK g : Good(k, g)
      BY <1>2
    <2> DEFINE h == [t \in SUBSET (1 .. k + 1) |->
                        IF k + 1 \in t THEN G[<<g[t \ {k + 1}], k + 1>>] ELSE g[t]]
    <2>a. /\ k \in Nat /\ k + 1 \in Nat /\ k + 1 \in 1 .. n
          /\ \A t \in SUBSET (1 .. k) : g[t] \in X /\ t \in SUBSET (1 .. k + 1)
      BY <2>1
    <2>b. h = [t \in SUBSET (1 .. k + 1) |->
                  IF k + 1 \in t THEN G[<<g[t \ {k + 1}], k + 1>>] ELSE g[t]]
      OBVIOUS
    <2> HIDE DEF h
    <2>2. ASSUME NEW t \in SUBSET (1 .. k + 1), k + 1 \in t
          PROVE  h[t] \in X /\ h[t] = G[<<h[t \ {Max(t)}], Max(t)>>]
      <3>1. Max(t) \in t /\ \A m \in t : m <= Max(t)
        BY <2>2, <2>a, MaxInterval
      <3>2. Max(t) = k + 1
        <4>1. Max(t) \in 1 .. k + 1 /\ k + 1 <= Max(t)
          BY <2>2, <3>1
        <4> QED BY <2>a, <4>1
      <3>3. t \ {k + 1} \in SUBSET (1 .. k) /\ k + 1 \notin t \ {k + 1}
        <4>1. \A m \in t \ {k + 1} : m \in 1 .. k
          BY <2>a
        <4> QED BY <4>1
      <3>4. h[t \ {k + 1}] = g[t \ {k + 1}]
        BY <2>a, <2>b, <3>3
      <3>5. h[t] = G[<<g[t \ {k + 1}], k + 1>>]
        BY <2>2, <2>b
      <3> QED BY <2>a, <3>2, <3>3, <3>4, <3>5
    <2>3. ASSUME NEW t \in SUBSET (1 .. k + 1), k + 1 \notin t
          PROVE  /\ h[t] \in X
                 /\ h[t] = IF t = {} THEN b ELSE G[<<h[t \ {Max(t)}], Max(t)>>]
      <3>1. t \in SUBSET (1 .. k)
        BY <2>3, <2>a
      <3>2. h[t] = g[t]
        BY <2>3, <2>b
      <3>3. t \ {Max(t)} \in SUBSET (1 .. k) /\ k + 1 \notin t \ {Max(t)}
        BY <3>1, <2>3
      <3>4. h[t \ {Max(t)}] = g[t \ {Max(t)}]
        BY <2>a, <2>b, <3>3
      <3>5. g[t] = IF t = {} THEN b ELSE G[<<g[t \ {Max(t)}], Max(t)>>]
        BY <2>1, <3>1
      <3> QED BY <2>a, <3>1, <3>2, <3>4, <3>5
    <2>4. \A t \in SUBSET (1 .. k + 1) :
              /\ h[t] \in X
              /\ h[t] = IF t = {} THEN b ELSE G[<<h[t \ {Max(t)}], Max(t)>>]
      BY <2>2, <2>3
    <2>5. h \in [SUBSET (1 .. k + 1) -> X]
      BY <2>b, <2>4
    <2>6. Good(k + 1, h)
      BY <2>4, <2>5
    <2> HIDE DEF Good
    <2> QED BY <2>6
  <1>3. n \in P
    <2> HIDE DEF P
    <2> QED BY <1>1, <1>2, NatInd
  <1> QED BY <1>3 DEF Folds

\* The recursion is the one of Folds wherever it stays in X.
Unfolds(it, n, X, b, G) ==
    /\ it[{}] = b
    /\ \A t \in SUBSET (1 .. n) : t # {} /\ it[t \ {Max(t)}] \in X
          => it[t] = G[<<it[t \ {Max(t)}], Max(t)>>]

\* a[k] is the value after k steps from b.
Traces(a, it, n, X, b, G) ==
    /\ a \in [0 .. n -> X]
    /\ a[0] = b /\ a[n] = it[1 .. n]
    /\ \A k \in 1 .. n : a[k] = G[<<a[k - 1], k>>]

\* A recursion that unfolds like a fold takes one step for each position.
LEMMA FoldSteps ==
    ASSUME NEW n \in Nat, NEW X, NEW b \in X, NEW G \in [X \X (1 .. n) -> X], NEW it,
           Unfolds(it, n, X, b, G)
    PROVE  \E a : Traces(a, it, n, X, b, G)
  <1> DEFINE P == {k \in 0 .. n : it[1 .. k] \in X}
             a == [k \in 0 .. n |-> it[1 .. k]]
  <1>1. ASSUME NEW k \in 1 .. n, it[1 .. (k - 1)] \in X
        PROVE  it[1 .. k] = G[<<it[1 .. (k - 1)], k>>] /\ it[1 .. k] \in X
    <2>1. Max(1 .. k) = k /\ (1 .. k) \ {k} = 1 .. (k - 1)
      BY UpTo
    <2>2. (1 .. k) \in SUBSET (1 .. n) /\ 1 .. k # {}
      OBVIOUS
    <2>3. it[1 .. k] = G[<<it[1 .. (k - 1)], k>>]
      BY <1>1, <2>1, <2>2 DEF Unfolds
    <2> QED BY <1>1, <2>3
  <1>2. 1 .. 0 = {}
    OBVIOUS
  <1>3. 0 \in P
    BY <1>2 DEF Unfolds
  <1>4. ASSUME NEW k \in 0 .. n - 1, k \in P
        PROVE  k + 1 \in P
    <2>1. k + 1 \in 1 .. n /\ (k + 1) - 1 = k /\ k + 1 \in 0 .. n
      OBVIOUS
    <2>2. it[1 .. ((k + 1) - 1)] \in X
      BY <1>4, <2>1
    <2>3. it[1 .. (k + 1)] \in X
      BY <1>1, <2>1, <2>2
    <2> QED BY <2>1, <2>3
  <1>5. \A k \in 0 .. n : it[1 .. k] \in X
    <2>1. ASSUME NEW m \in 0 .. n PROVE m \in P
      <3>1. m \in Nat /\ \A k \in 0 .. m - 1 : k \in 0 .. n - 1
        OBVIOUS
      <3> HIDE DEF P
      <3> QED BY <1>3, <1>4, <3>1, NatInd
    <2> QED BY <2>1
  <1>6. \A k \in 1 .. n : k - 1 \in 0 .. n /\ k \in 0 .. n
    OBVIOUS
  <1>7. a \in [0 .. n -> X] /\ a[0] = b /\ a[n] = it[1 .. n]
    BY <1>2, <1>5 DEF Unfolds
  <1>8. \A k \in 1 .. n : a[k] = G[<<a[k - 1], k>>]
    BY <1>1, <1>5, <1>6
  <1> QED BY <1>7, <1>8 DEF Traces

-----------------------------------------------------------------------------
(* Sequences.                                                             *)

\* InsertAt stays in Seq(S).
LEMMA InsertAtType ==
    ASSUME NEW S, NEW s \in Seq(S), NEW i \in 1 .. Len(s) + 1, NEW e \in S
    PROVE  InsertAt(s, i, e) \in Seq(S)
  <1>1. /\ i \in Int /\ i - 1 \in Int /\ 1 \in Int /\ Len(s) \in Int
        /\ \A j \in 1 .. i - 1 : s[j] \in S
        /\ \A j \in i .. Len(s) : s[j] \in S
    OBVIOUS
  <1>2. SubSeq(s, 1, i - 1) \in Seq(S) /\ SubSeq(s, i, Len(s)) \in Seq(S)
    BY <1>1, SubSeqProperties
  <1>3. SubSeq(s, 1, i - 1) \o <<e>> \in Seq(S)
    BY <1>2, ConcatProperties
  <1> QED BY <1>2, <1>3, ConcatProperties DEF InsertAt

\* RemoveAt stays in Seq(S).
LEMMA RemoveAtType ==
    ASSUME NEW S, NEW s \in Seq(S), NEW i \in 1 .. Len(s)
    PROVE  RemoveAt(s, i) \in Seq(S)
  <1>1. /\ i - 1 \in Int /\ i + 1 \in Int /\ 1 \in Int /\ Len(s) \in Int
        /\ \A j \in 1 .. i - 1 : s[j] \in S
        /\ \A j \in i + 1 .. Len(s) : s[j] \in S
    OBVIOUS
  <1>2. SubSeq(s, 1, i - 1) \in Seq(S) /\ SubSeq(s, i + 1, Len(s)) \in Seq(S)
    BY <1>1, SubSeqProperties
  <1> QED BY <1>2, ConcatProperties DEF RemoveAt

\* t is s without its position i.
Removed(t, s, i) ==
    /\ Len(t) = Len(s) - 1
    /\ \A k \in 1 .. Len(s) - 1 : t[k] = IF k < i THEN s[k] ELSE s[k + 1]

\* RemoveAt moves what is behind the position.
LEMMA RemoveAtSteps ==
    ASSUME NEW S, NEW s \in Seq(S), NEW i \in 1 .. Len(s)
    PROVE  Removed(RemoveAt(s, i), s, i)
  <1>0. PICK n \in Nat : n = Len(s)
    OBVIOUS
  <1>1. PICK m \in Nat : m = i - 1
    OBVIOUS
  <1>2. PICK r \in Nat : r = n - i
    <2>1. n - i \in Nat
      BY <1>0
    <2> QED BY <2>1
  <1>a. PICK A : A = SubSeq(s, 1, i - 1)
    OBVIOUS
  <1>b. PICK B : B = SubSeq(s, i + 1, n)
    OBVIOUS
  <1>3. A \in Seq(S) /\ Len(A) = m /\ \A k \in 1 .. m : A[k] = s[k]
    BY <1>0, <1>1, <1>a
  <1>4. B \in Seq(S) /\ Len(B) = r /\ \A k \in 1 .. r : B[k] = s[k + i]
    BY <1>0, <1>1, <1>2, <1>b
  <1>5. RemoveAt(s, i) = A \o B
    BY <1>0, <1>a, <1>b DEF RemoveAt
  <1>6. Len(A \o B) = m + r
    BY <1>3, <1>4
  <1>7. m + r = n - 1 /\ i = m + 1
    BY <1>1, <1>2
  <1>8. ASSUME NEW k \in 1 .. n - 1 PROVE (A \o B)[k] = IF k < i THEN s[k] ELSE s[k + 1]
    <2>1. k \in 1 .. m + r
      BY <1>7
    <2>2. (A \o B)[k] = IF k <= m THEN A[k] ELSE B[k - m]
      <3>1. A \in Seq(S) /\ B \in Seq(S) /\ Len(A) = m /\ Len(B) = r
        BY <1>3, <1>4
      <3> QED BY <2>1, <3>1
    <2>3. CASE k <= m
      <3>1. k \in 1 .. m /\ k < i
        BY <1>7, <2>1, <2>3
      <3> QED BY <1>3, <2>2, <2>3, <3>1
    <2>4. CASE ~(k <= m)
      <3>1. k - m \in 1 .. r /\ (k - m) + i = k + 1 /\ ~(k < i)
        BY <1>7, <2>1, <2>4
      <3>2. B[k - m] = s[(k - m) + i]
        BY <1>4, <3>1
      <3> QED BY <2>2, <2>4, <3>1, <3>2
    <2> QED BY <2>3, <2>4
  <1> QED BY <1>0, <1>5, <1>6, <1>7, <1>8 DEF Removed

\* The first n of s, at most, and none if n is negative.
LEMMA FirstPart ==
    ASSUME NEW P, NEW s \in Seq(P), NEW n \in Int
    PROVE  FirstOf(s, n) \in Seq(P) /\ (n >= 0 => Len(FirstOf(s, n)) <= n)
  <1>1. Len(s) \in Int /\ 1 \in Int
    OBVIOUS
  <1>2. Min({n, Len(s)}) \in Int /\ Min({n, Len(s)}) <= Len(s)
    BY <1>1, MinPair
  <1>3. \A i \in 1 .. Min({n, Len(s)}) : s[i] \in P
    BY <1>1, <1>2
  <1>4. FirstOf(s, n) \in Seq(P) /\ (n >= 0 => Len(FirstOf(s, n)) <= Min({n, Len(s)}))
    <2>1. PICK m \in Int : m = Min({n, Len(s)})
      BY <1>2
    <2>2. (n >= 0 => m >= 0) /\ 1 \in Int /\ \A i \in 1 .. m : s[i] \in P
      <3>1. m \in {n, Len(s)}
        BY <1>1, <2>1, MinPair
      <3>2. Len(s) \in Nat
        OBVIOUS
      <3>3. n >= 0 => m >= 0
        BY <3>1, <3>2
      <3>4. \A i \in 1 .. m : s[i] \in P
        BY <1>3, <2>1
      <3> QED BY <3>3, <3>4
    <2>3. SubSeq(s, 1, m) \in Seq(P) /\ Len(SubSeq(s, 1, m)) = IF 1 <= m THEN (m - 1) + 1 ELSE 0
      BY <2>2, SubSeqProperties
    <2>4. n >= 0 => Len(SubSeq(s, 1, m)) <= m
      BY <2>2, <2>3
    <2> QED BY <2>1, <2>3, <2>4 DEF FirstOf
  <1>5. Min({n, Len(s)}) <= n
    BY <1>1, MinPair
  <1> QED BY <1>2, <1>4, <1>5

\* Keep takes the elements of s one by one.
LEMMA KeepSteps ==
    ASSUME NEW P, NEW s \in Seq(P), NEW S
    PROVE  \E a \in [0 .. Len(s) -> Seq(P)] :
              /\ a[0] = <<>> /\ a[Len(s)] = Keep(s, S)
              /\ \A k \in 1 .. Len(s) :
                    a[k] = IF s[k] \in S THEN Append(a[k - 1], s[k]) ELSE a[k - 1]
  <1> DEFINE Step(x, k) == IF s[k] \in S THEN Append(x, s[k]) ELSE x
             Body(f) == [t \in SUBSET DOMAIN s |->
                            IF t = {} THEN <<>> ELSE Step(f[t \ {Max(t)}], Max(t))]
             it == CHOOSE f : f = Body(f)
  <1>1. PICK n \in Nat : n = Len(s) /\ DOMAIN s = 1 .. n
    OBVIOUS
  <1>2. PICK X : X = Seq(P)
    OBVIOUS
  <1>3. PICK b \in X : b = <<>>
    <2>1. <<>> \in X
      BY <1>2
    <2> QED BY <2>1
  <1>4. Keep(s, S) = it[DOMAIN s]
    BY DEF Keep, FoldLeft, MapThenFoldSet
  <1>5. \A x \in X, k \in 1 .. n : Step(x, k) \in X
    BY <1>1, <1>2
  <1> HIDE DEF Step
  <1>6. PICK G \in [X \X (1 .. n) -> X] : \A x \in X, k \in 1 .. n : G[<<x, k>>] = Step(x, k)
    <2> DEFINE G == [d \in X \X (1 .. n) |-> Step(d[1], d[2])]
    <2>1. G \in [X \X (1 .. n) -> X] /\ \A x \in X, k \in 1 .. n : G[<<x, k>>] = Step(x, k)
      BY <1>5
    <2> QED BY <2>1
  <1>7. PICK h : Folds(h, n, X, b, G)
    BY FoldExists
  <1>8. \A t \in SUBSET (1 .. n) : t # {} => Max(t) \in 1 .. n /\ t \ {Max(t)} \in SUBSET (1 .. n)
    BY MaxInterval
  <1>9. h = Body(h)
    BY <1>1, <1>3, <1>6, <1>7, <1>8 DEF Folds
  <1>10. it = Body(it)
    BY <1>9
  <1> HIDE DEF it
  <1>11. Unfolds(it, n, X, b, G)
    BY <1>1, <1>3, <1>6, <1>8, <1>10 DEF Unfolds
  <1>12. PICK a : Traces(a, it, n, X, b, G)
    BY <1>11, FoldSteps
  <1>13. ASSUME NEW k \in 1 .. n PROVE a[k] = Step(a[k - 1], k)
    <2>1. a[k - 1] \in X
      BY <1>12 DEF Traces
    <2> QED BY <1>6, <1>12, <2>1 DEF Traces
  <1> QED BY <1>1, <1>2, <1>3, <1>4, <1>12, <1>13 DEF Step, Traces

\* f leads from the positions of s to positions of t up to k with the same
\* elements, all of them in S, and never twice to the same one.
Picks(f, s, t, k, S) ==
    /\ f \in [DOMAIN s -> 1 .. k]
    /\ \A j \in DOMAIN s : s[j] = t[f[j]] /\ s[j] \in S
    /\ \A i, j \in DOMAIN s : f[i] = f[j] => i = j

\* What Keep returns are different positions of s.
LEMMA KeepPicks ==
    ASSUME NEW P, NEW s \in Seq(P), NEW S
    PROVE  \E f : Picks(f, Keep(s, S), s, Len(s), S)
  <1>1. PICK a \in [0 .. Len(s) -> Seq(P)] :
           /\ a[0] = <<>> /\ a[Len(s)] = Keep(s, S)
           /\ \A k \in 1 .. Len(s) :
                 a[k] = IF s[k] \in S THEN Append(a[k - 1], s[k]) ELSE a[k - 1]
    BY KeepSteps
  <1> DEFINE M == {k \in 0 .. Len(s) : \E f : Picks(f, a[k], s, k, S)}
  <1>2. 0 \in M
    <2>1. DOMAIN a[0] = {}
      BY <1>1
    <2> DEFINE f == [j \in {} |-> 1]
    <2>2. Picks(f, a[0], s, 0, S)
      BY <2>1 DEF Picks
    <2>3. 0 \in 0 .. Len(s)
      OBVIOUS
    <2> QED BY <2>2, <2>3
  <1>3. ASSUME NEW k \in 0 .. Len(s) - 1, k \in M
        PROVE  k + 1 \in M
    <2>0. k + 1 \in 1 .. Len(s) /\ (k + 1) - 1 = k /\ k \in Nat /\ k \in 0 .. Len(s)
      OBVIOUS
    <2>1. PICK f : Picks(f, a[k], s, k, S)
      BY <1>3
    <2>a. a[k] \in Seq(P) /\ s[k + 1] \in P
      BY <1>1, <2>0
    <2>b. a[k + 1] = IF s[k + 1] \in S THEN Append(a[(k + 1) - 1], s[k + 1]) ELSE a[(k + 1) - 1]
      BY <1>1, <2>0, Zenon
    <2>c. a[k + 1] = IF s[k + 1] \in S THEN Append(a[k], s[k + 1]) ELSE a[k]
      BY <2>0, <2>b, Zenon
    <2>2. CASE s[k + 1] \notin S
      <3>1. a[k + 1] = a[k]
        BY <2>c, <2>2
      <3>2. Picks(f, a[k + 1], s, k + 1, S)
        BY <2>0, <2>1, <3>1 DEF Picks
      <3> QED BY <2>0, <3>2
    <2>3. CASE s[k + 1] \in S
      <3>1. a[k + 1] = Append(a[k], s[k + 1])
        BY <2>c, <2>3
      <3> DEFINE l == Len(a[k])
                 g == [j \in 1 .. l + 1 |-> IF j = l + 1 THEN k + 1 ELSE f[j]]
      <3>2. /\ l \in Nat /\ DOMAIN a[k] = 1 .. l /\ DOMAIN a[k + 1] = 1 .. l + 1
            /\ a[k + 1][l + 1] = s[k + 1]
            /\ \A j \in 1 .. l : a[k + 1][j] = a[k][j]
        BY <2>a, <3>1
      <3> HIDE DEF l
      <3>3. /\ \A j \in 1 .. l : g[j] = f[j] /\ f[j] \in 1 .. k
            /\ g[l + 1] = k + 1
        BY <2>1, <3>2 DEF Picks
      <3>4. \A j \in 1 .. l + 1 : j \in 1 .. l \/ j = l + 1
        BY <3>2
      <3>5. g \in [DOMAIN a[k + 1] -> 1 .. k + 1]
        <4>0. \A j \in 1 .. l : g[j] \in 1 .. k + 1
          <5>1. (1 .. k) \subseteq 1 .. k + 1
            BY <2>0
          <5>2. \A j \in 1 .. l : g[j] \in 1 .. k
            BY <3>3
          <5> QED BY <5>1, <5>2
        <4>a. g[l + 1] \in 1 .. k + 1
          BY <2>0, <3>3
        <4>1. \A j \in 1 .. l + 1 : g[j] \in 1 .. k + 1
          BY <3>4, <4>0, <4>a
        <4>2. g \in [1 .. l + 1 -> 1 .. k + 1]
          BY <4>1
        <4> QED BY <3>2, <4>2
      <3> HIDE DEF g
      <3>6. \A j \in DOMAIN a[k + 1] : a[k + 1][j] = s[g[j]] /\ a[k + 1][j] \in S
        BY <2>1, <2>3, <3>2, <3>3, <3>4 DEF Picks
      <3>7. ASSUME NEW i \in DOMAIN a[k + 1], NEW j \in DOMAIN a[k + 1], g[i] = g[j]
            PROVE  i = j
        <4>1. \A m \in 1 .. l : g[m] # k + 1
          BY <2>0, <3>3
        <4>2. CASE i = l + 1 \/ j = l + 1
          BY <3>2, <3>3, <3>4, <3>7, <4>1, <4>2
        <4>3. CASE i \in 1 .. l /\ j \in 1 .. l
          BY <2>1, <3>2, <3>3, <3>7, <4>3 DEF Picks
        <4> QED BY <3>2, <3>4, <4>2, <4>3
      <3>8. Picks(g, a[k + 1], s, k + 1, S)
        BY <3>5, <3>6, <3>7 DEF Picks
      <3> QED BY <2>0, <3>8
    <2> QED BY <2>2, <2>3
  <1>4. Len(s) \in Nat
    OBVIOUS
  <1>5. Len(s) \in M
    <2> HIDE DEF M
    <2> QED BY <1>2, <1>3, <1>4, NatInd
  <1> QED BY <1>1, <1>5

\* What Keep returns: elements of s that are in S; two of them come from two
\* positions of s.
LEMMA KeepPart ==
    ASSUME NEW P, NEW s \in Seq(P), NEW S
    PROVE  /\ Keep(s, S) \in Seq(P)
           /\ \A k \in DOMAIN Keep(s, S) : Keep(s, S)[k] \in S /\ Keep(s, S)[k] \in ToSet(s)
           /\ \A j, k \in DOMAIN Keep(s, S) : j # k =>
                 \E i, l \in DOMAIN s : i # l /\ Keep(s, S)[j] = s[i] /\ Keep(s, S)[k] = s[l]
  <1>1. Keep(s, S) \in Seq(P)
    <2>1. PICK a \in [0 .. Len(s) -> Seq(P)] : a[Len(s)] = Keep(s, S)
      BY KeepSteps
    <2>2. Len(s) \in 0 .. Len(s)
      OBVIOUS
    <2> QED BY <2>1, <2>2
  <1>2. PICK f : Picks(f, Keep(s, S), s, Len(s), S)
    BY KeepPicks
  <1>3. DOMAIN s = 1 .. Len(s)
    OBVIOUS
  <1>4. \A k \in DOMAIN Keep(s, S) : f[k] \in DOMAIN s /\ Keep(s, S)[k] = s[f[k]] /\ Keep(s, S)[k] \in S
    BY <1>2, <1>3 DEF Picks
  <1>5. \A k \in DOMAIN Keep(s, S) : Keep(s, S)[k] \in ToSet(s)
    BY <1>4 DEF ToSet
  <1>6. \A j, k \in DOMAIN Keep(s, S) : j # k => f[j] # f[k]
    BY <1>2 DEF Picks
  <1> QED BY <1>1, <1>4, <1>5, <1>6

\* Where position k goes among the positions x.
Slot(x, k, before) == 1 + Cardinality({j \in DOMAIN x : <<k, x[j]>> \notin before})

\* Insertion puts the positions of s in one by one, a[k] has the first k.
InsertTrace(a, s, before) ==
    /\ a[0] = <<>> /\ a[Len(s)] = Insertion(s, before)
    /\ \A k \in 1 .. Len(s) : a[k] = InsertAt(a[k - 1], Slot(a[k - 1], k, before), k)

\* A slot is before, between or behind the elements of x.
LEMMA SlotType ==
    ASSUME NEW S, NEW x \in Seq(S), NEW k, NEW before
    PROVE  Slot(x, k, before) \in 1 .. Len(x) + 1
  <1> DEFINE J == {j \in DOMAIN x : <<k, x[j]>> \notin before}
  <1>1. Len(x) \in Nat /\ DOMAIN x = 1 .. Len(x)
    OBVIOUS
  <1>2. IsFiniteSet(1 .. Len(x)) /\ Cardinality(1 .. Len(x)) = Len(x)
    BY <1>1, Interval
  <1>3. IsFiniteSet(J) /\ Cardinality(J) <= Cardinality(1 .. Len(x))
    BY <1>1, <1>2, FS_Subset
  <1>4. Cardinality(J) \in Nat
    BY <1>3, FS_CardinalityType
  <1>5. 1 + Cardinality(J) \in 1 .. Len(x) + 1
    BY <1>1, <1>2, <1>3, <1>4
  <1> QED BY <1>5 DEF Slot

\* Insertion is a fold over the positions.
LEMMA InsertionSteps ==
    ASSUME NEW P, NEW s \in Seq(P), NEW before
    PROVE  \E a \in [0 .. Len(s) -> Seq(1 .. Len(s))] : InsertTrace(a, s, before)
  <1> DEFINE E == [i \in DOMAIN s |-> i]
  <1> DEFINE Step(x, k) == InsertAt(x, 1 + Cardinality({j \in DOMAIN x : <<E[k], x[j]>> \notin before}), E[k])
             Body(f) == [t \in SUBSET DOMAIN E |->
                            IF t = {} THEN <<>> ELSE Step(f[t \ {Max(t)}], Max(t))]
             it == CHOOSE f : f = Body(f)
  <1>1. PICK n \in Nat : n = Len(s) /\ DOMAIN E = 1 .. n
    OBVIOUS
  <1>2. PICK X : X = Seq(1 .. n)
    OBVIOUS
  <1>3. PICK b \in X : b = <<>>
    <2>1. <<>> \in X
      BY <1>2
    <2> QED BY <2>1
  <1>4. Insertion(s, before) = it[DOMAIN E]
    <2>1. Insertion(s, before) = FoldLeft(LAMBDA x, k :
              InsertAt(x, 1 + Cardinality({j \in DOMAIN x : <<k, x[j]>> \notin before}), k),
              <<>>, E)
      BY DEF Insertion, FoldLeftDomain
    <2> QED BY <2>1 DEF FoldLeft, MapThenFoldSet
  <1>5. \A x \in X, k \in 1 .. n : /\ Step(x, k) \in X
                                    /\ Step(x, k) = InsertAt(x, Slot(x, k, before), k)
    <2>1. ASSUME NEW x \in X, NEW k \in 1 .. n
          PROVE  /\ Step(x, k) \in X
                 /\ Step(x, k) = InsertAt(x, Slot(x, k, before), k)
      <3>1. E[k] = k
        BY <1>1
      <3>2. Step(x, k) = InsertAt(x, Slot(x, k, before), k)
        BY <3>1 DEF Slot
      <3>3. Slot(x, k, before) \in 1 .. Len(x) + 1
        BY <1>2, SlotType
      <3>4. InsertAt(x, Slot(x, k, before), k) \in Seq(1 .. n)
        BY <1>2, <3>3, InsertAtType
      <3> HIDE DEF Step
      <3> QED BY <1>2, <3>2, <3>4
    <2> QED BY <2>1
  <1> HIDE DEF Step
  <1>6. PICK G \in [X \X (1 .. n) -> X] : \A x \in X, k \in 1 .. n : G[<<x, k>>] = Step(x, k)
    <2> DEFINE G == [d \in X \X (1 .. n) |-> Step(d[1], d[2])]
    <2>1. G \in [X \X (1 .. n) -> X] /\ \A x \in X, k \in 1 .. n : G[<<x, k>>] = Step(x, k)
      BY <1>5
    <2> QED BY <2>1
  <1>7. PICK h : Folds(h, n, X, b, G)
    BY FoldExists
  <1>8. \A t \in SUBSET (1 .. n) : t # {} => Max(t) \in 1 .. n /\ t \ {Max(t)} \in SUBSET (1 .. n)
    BY MaxInterval
  <1>9. h = Body(h)
    BY <1>1, <1>3, <1>6, <1>7, <1>8 DEF Folds
  <1>10. it = Body(it)
    BY <1>9
  <1> HIDE DEF it
  <1>11. Unfolds(it, n, X, b, G)
    BY <1>1, <1>3, <1>6, <1>8, <1>10 DEF Unfolds
  <1>12. PICK a : Traces(a, it, n, X, b, G)
    BY <1>11, FoldSteps
  <1>13. Len(s) = n /\ DOMAIN E = 1 .. n
    BY <1>1
  <1> HIDE DEF E
  <1>14. /\ a \in [0 .. n -> X] /\ a[0] = <<>> /\ a[n] = Insertion(s, before)
         /\ \A k \in 1 .. n : a[k] = G[<<a[k - 1], k>>]
    BY <1>3, <1>4, <1>12, <1>13 DEF Traces
  <1>15. \A k \in 1 .. n : a[k] = InsertAt(a[k - 1], Slot(a[k - 1], k, before), k)
    <2> TAKE k \in 1 .. n
    <2>1. k - 1 \in 0 .. n
      OBVIOUS
    <2>2. a[k - 1] \in X
      BY <1>14, <2>1
    <2> QED BY <1>5, <1>6, <1>14, <2>2
  <1> QED BY <1>2, <1>13, <1>14, <1>15 DEF InsertTrace

\* Sorting orders positions of s and invents none.
LEMMA InsertionType ==
    ASSUME NEW P, NEW s \in Seq(P), NEW before
    PROVE  Insertion(s, before) \in Seq(DOMAIN s)
  <1>1. PICK a \in [0 .. Len(s) -> Seq(1 .. Len(s))] : InsertTrace(a, s, before)
    BY InsertionSteps
  <1>2. Len(s) \in 0 .. Len(s) /\ DOMAIN s = 1 .. Len(s)
    OBVIOUS
  <1> QED BY <1>1, <1>2 DEF InsertTrace

\* StableSort rearranges what it is given.
LEMMA SortType ==
    ASSUME NEW P, NEW s \in Seq(P), NEW before
    PROVE  Arranged(s, Insertion(s, before)) \in Seq(P)
  <1> DEFINE o == Insertion(s, before)
  <1>1. o \in Seq(DOMAIN s)
    BY InsertionType
  <1> HIDE DEF o
  <1>2. DOMAIN o = 1 .. Len(o) /\ Len(o) \in Nat /\ \A k \in 1 .. Len(o) : o[k] \in DOMAIN s
    BY <1>1
  <1>3. \A k \in 1 .. Len(o) : s[o[k]] \in P
    BY <1>2
  <1>4. [k \in DOMAIN o |-> s[o[k]]] \in [1 .. Len(o) -> P]
    BY <1>2, <1>3
  <1>5. [k \in DOMAIN o |-> s[o[k]]] \in Seq(P)
    BY <1>2, <1>4, IsASeq
  <1> QED BY <1>5 DEF o, Arranged

-----------------------------------------------------------------------------
(* Parties and their players.                                             *)

\* The parties of players in Q.
PartyOf(Q) == [members : Seq(Q), team : BOOLEAN]

\* The members of a party of players in Q.
LEMMA MembersType ==
    ASSUME NEW Q, NEW p \in PartyOf(Q)
    PROVE  Members(p) \in SUBSET Q
  <1>1. p.members \in Seq(Q)
    BY DEF PartyOf
  <1>2. \A i \in DOMAIN p.members : p.members[i] \in Q
    BY <1>1
  <1> QED BY <1>2 DEF Members, ToSet

\* The players of parties of players in Q.
LEMMA PlayersType ==
    ASSUME NEW Q, NEW ps \in Seq(PartyOf(Q))
    PROVE  Players(ps) \in SUBSET Q
  <1>1. \A i \in DOMAIN ps : ps[i] \in PartyOf(Q)
    OBVIOUS
  <1>2. \A i \in DOMAIN ps : Members(ps[i]) \in SUBSET Q
    BY <1>1, MembersType
  <1> QED BY <1>2 DEF Players

\* Count of a finite set of players.
LEMMA CountType ==
    ASSUME NEW S, IsFiniteSet(S), NEW c
    PROVE  Count(S, c) \in Nat
  <1>1. IsFiniteSet({q \in S : q.class = c})
    BY FS_Subset
  <1> QED BY <1>1, FS_CardinalityType DEF Count

\* Heads adds the sizes of the parties one by one.
LEMMA HeadsSteps ==
    ASSUME NEW Q, NEW s \in Seq(PartyOf(Q))
    PROVE  \E a \in [0 .. Len(s) -> Nat] :
              /\ a[0] = 0 /\ a[Len(s)] = Heads(s)
              /\ \A k \in 1 .. Len(s) : a[k] = a[k - 1] + Size(s[k])
  <1> DEFINE Step(x, k) == x + Size(s[k])
             Body(f) == [t \in SUBSET DOMAIN s |->
                            IF t = {} THEN 0 ELSE Step(f[t \ {Max(t)}], Max(t))]
             it == CHOOSE f : f = Body(f)
  <1>1. PICK n \in Nat : n = Len(s) /\ DOMAIN s = 1 .. n
    OBVIOUS
  <1>2. PICK X : X = Nat
    OBVIOUS
  <1>3. PICK b \in X : b = 0
    <2>1. 0 \in X
      BY <1>2
    <2> QED BY <2>1
  <1>4. Heads(s) = it[DOMAIN s]
    BY DEF Heads, FoldLeft, MapThenFoldSet
  <1>5. \A x \in X, k \in 1 .. n : Step(x, k) \in X
    BY <1>1, <1>2 DEF PartyOf, Size
  <1> HIDE DEF Step
  <1>6. PICK G \in [X \X (1 .. n) -> X] : \A x \in X, k \in 1 .. n : G[<<x, k>>] = Step(x, k)
    <2> DEFINE G == [d \in X \X (1 .. n) |-> Step(d[1], d[2])]
    <2>1. G \in [X \X (1 .. n) -> X] /\ \A x \in X, k \in 1 .. n : G[<<x, k>>] = Step(x, k)
      BY <1>5
    <2> QED BY <2>1
  <1>7. PICK h : Folds(h, n, X, b, G)
    BY FoldExists
  <1>8. \A t \in SUBSET (1 .. n) : t # {} => Max(t) \in 1 .. n /\ t \ {Max(t)} \in SUBSET (1 .. n)
    BY MaxInterval
  <1>9. h = Body(h)
    BY <1>1, <1>3, <1>6, <1>7, <1>8 DEF Folds
  <1>10. it = Body(it)
    BY <1>9
  <1> HIDE DEF it
  <1>11. Unfolds(it, n, X, b, G)
    BY <1>1, <1>3, <1>6, <1>8, <1>10 DEF Unfolds
  <1>12. PICK a : Traces(a, it, n, X, b, G)
    BY <1>11, FoldSteps
  <1>13. ASSUME NEW k \in 1 .. n PROVE a[k] = Step(a[k - 1], k)
    <2>1. a[k - 1] \in X
      BY <1>12 DEF Traces
    <2> QED BY <1>6, <1>12, <2>1 DEF Traces
  <1> QED BY <1>1, <1>2, <1>3, <1>4, <1>12, <1>13 DEF Step, Traces

\* Heads is a number.
LEMMA HeadsType ==
    ASSUME NEW Q, NEW s \in Seq(PartyOf(Q))
    PROVE  Heads(s) \in Nat
  <1>1. PICK a \in [0 .. Len(s) -> Nat] : a[Len(s)] = Heads(s)
    BY HeadsSteps
  <1>2. Len(s) \in 0 .. Len(s)
    OBVIOUS
  <1> QED BY <1>1, <1>2

\* No party is nobody.
LEMMA HeadsEmpty == Heads(<<>>) = 0
  <1> DEFINE Q == {}
  <1>1. <<>> \in Seq(PartyOf(Q)) /\ Len(<<>>) = 0
    OBVIOUS
  <1> PICK s : s = <<>>
    OBVIOUS
  <1>2. PICK a \in [0 .. Len(s) -> Nat] : a[0] = 0 /\ a[Len(s)] = Heads(s)
    BY <1>1, HeadsSteps
  <1> QED BY <1>1, <1>2

\* A party more is as many players more.
LEMMA HeadsAppend ==
    ASSUME NEW Q, NEW s \in Seq(PartyOf(Q)), NEW p \in PartyOf(Q)
    PROVE  Heads(Append(s, p)) = Heads(s) + Size(p)
  <1> PICK n \in Nat : n = Len(s)
    OBVIOUS
  <1> PICK t : t = Append(s, p)
    OBVIOUS
  <1>1. /\ t \in Seq(PartyOf(Q)) /\ Len(t) = n + 1 /\ t[n + 1] = p
        /\ \A k \in 1 .. n : t[k] = s[k]
    OBVIOUS
  <1>2. PICK a \in [0 .. Len(s) -> Nat] :
           /\ a[0] = 0 /\ a[Len(s)] = Heads(s)
           /\ \A k \in 1 .. Len(s) : a[k] = a[k - 1] + Size(s[k])
    BY HeadsSteps
  <1>3. PICK b \in [0 .. Len(t) -> Nat] :
           /\ b[0] = 0 /\ b[Len(t)] = Heads(t)
           /\ \A k \in 1 .. Len(t) : b[k] = b[k - 1] + Size(t[k])
    BY <1>1, HeadsSteps
  <1> DEFINE M == {k \in 0 .. n : b[k] = a[k]}
  <1>4. 0 \in M
    BY <1>2, <1>3
  <1>5. ASSUME NEW k \in 0 .. n - 1, k \in M PROVE k + 1 \in M
    <2>1. k + 1 \in 1 .. n /\ k + 1 \in 1 .. n + 1 /\ (k + 1) - 1 = k /\ k + 1 \in 0 .. n
      OBVIOUS
    <2>2. a[k + 1] = a[k] + Size(s[k + 1])
      <3>1. a[k + 1] = a[(k + 1) - 1] + Size(s[k + 1])
        BY <1>2, <2>1
      <3> QED BY <2>1, <3>1
    <2>3. b[k + 1] = b[k] + Size(t[k + 1])
      <3>1. b[k + 1] = b[(k + 1) - 1] + Size(t[k + 1])
        BY <1>1, <1>3, <2>1
      <3> QED BY <2>1, <3>1
    <2>4. t[k + 1] = s[k + 1] /\ b[k] = a[k]
      BY <1>1, <1>5, <2>1
    <2> QED BY <2>1, <2>2, <2>3, <2>4
  <1>6. n \in M
    <2> HIDE DEF M
    <2> QED BY <1>4, <1>5, NatInd
  <1>7. b[n + 1] = b[n] + Size(p)
    <2>1. n + 1 \in 1 .. Len(t) /\ (n + 1) - 1 = n
      BY <1>1
    <2>2. b[n + 1] = b[(n + 1) - 1] + Size(t[n + 1])
      BY <1>3, <2>1
    <2> QED BY <1>1, <2>1, <2>2
  <1>8. Heads(t) = b[n + 1] /\ Heads(s) = a[n]
    BY <1>1, <1>2, <1>3
  <1> QED BY <1>6, <1>7, <1>8

\* Solo parties are as many players as they are parties.
LEMMA SoloHeads ==
    ASSUME NEW Q, NEW s \in Seq(PartyOf(Q)), \A k \in DOMAIN s : Size(s[k]) = 1
    PROVE  Heads(s) = Len(s)
  <1> PICK n \in Nat : n = Len(s)
    OBVIOUS
  <1>1. PICK a \in [0 .. n -> Nat] :
           /\ a[0] = 0 /\ a[n] = Heads(s)
           /\ \A k \in 1 .. n : a[k] = a[k - 1] + Size(s[k])
    BY HeadsSteps
  <1> DEFINE M == {k \in 0 .. n : a[k] = k}
  <1>2. 0 \in M
    BY <1>1
  <1>3. ASSUME NEW k \in 0 .. n - 1, k \in M PROVE k + 1 \in M
    <2>1. k + 1 \in 1 .. n /\ (k + 1) - 1 = k /\ k + 1 \in 0 .. n /\ Size(s[k + 1]) = 1
      OBVIOUS
    <2>2. a[k + 1] = a[(k + 1) - 1] + Size(s[k + 1])
      BY <1>1, <2>1
    <2> QED BY <1>3, <2>1, <2>2
  <1>4. n \in M
    <2> HIDE DEF M
    <2> QED BY <1>2, <1>3, NatInd
  <1> QED BY <1>1, <1>4

\* A party has at most as many players as members.
LEMMA MembersBound ==
    ASSUME NEW Q, NEW p \in PartyOf(Q)
    PROVE  IsFiniteSet(Members(p)) /\ Cardinality(Members(p)) <= Size(p) /\ Size(p) \in Nat
  <1>1. p.members \in Seq(Q)
    BY DEF PartyOf
  <1> PICK n \in Nat : n = Len(p.members) /\ DOMAIN p.members = 1 .. n
    BY <1>1
  <1> DEFINE F == [k \in 1 .. n |-> p.members[k]]
  <1>2. F \in Surjection(1 .. n, Members(p))
    BY DEF Surjection, Members, ToSet
  <1>3. IsFiniteSet(1 .. n) /\ Cardinality(1 .. n) = n
    BY Interval
  <1> HIDE DEF F
  <1>4. IsFiniteSet(Members(p)) /\ Cardinality(Members(p)) <= Cardinality(1 .. n)
    BY <1>2, <1>3, FS_Surjection
  <1> QED BY <1>3, <1>4 DEF Size

\* A party less is no player more.
LEMMA HeadsRemove ==
    ASSUME NEW Q, NEW s \in Seq(PartyOf(Q)), NEW i \in 1 .. Len(s)
    PROVE  Heads(RemoveAt(s, i)) <= Heads(s)
  <1> PICK n \in Nat : n = Len(s) /\ n > 0
    OBVIOUS
  <1>t. PICK t : t = RemoveAt(s, i)
    OBVIOUS
  <1>1. /\ t \in Seq(PartyOf(Q)) /\ Len(t) = n - 1 /\ n - 1 \in Nat
        /\ \A k \in 1 .. n - 1 : t[k] = IF k < i THEN s[k] ELSE s[k + 1]
    <2>1. t \in Seq(PartyOf(Q))
      BY <1>t, RemoveAtType
    <2>2. Removed(t, s, i)
      BY <1>t, RemoveAtSteps
    <2>3. n - 1 \in Nat
      OBVIOUS
    <2> QED BY <2>1, <2>2, <2>3 DEF Removed
  <1>2. PICK a \in [0 .. n -> Nat] :
           /\ a[0] = 0 /\ a[n] = Heads(s)
           /\ \A k \in 1 .. n : a[k] = a[k - 1] + Size(s[k])
    BY HeadsSteps
  <1>3. PICK b \in [0 .. n - 1 -> Nat] :
           /\ b[0] = 0 /\ b[n - 1] = Heads(t)
           /\ \A k \in 1 .. n - 1 : b[k] = b[k - 1] + Size(t[k])
    <2>1. PICK b \in [0 .. Len(t) -> Nat] :
             /\ b[0] = 0 /\ b[Len(t)] = Heads(t)
             /\ \A k \in 1 .. Len(t) : b[k] = b[k - 1] + Size(t[k])
      BY <1>1, HeadsSteps
    <2> QED BY <1>1, <2>1
  <1>s. \A k \in 1 .. n : Size(s[k]) \in Nat
    <2>1. \A k \in 1 .. n : s[k] \in PartyOf(Q)
      OBVIOUS
    <2> QED BY <2>1, MembersBound
  <1>a. \A k \in 0 .. n - 1 : a[k + 1] = a[k] + Size(s[k + 1])
    <2> TAKE k \in 0 .. n - 1
    <2>1. k + 1 \in 1 .. n /\ (k + 1) - 1 = k
      OBVIOUS
    <2>2. a[k + 1] = a[(k + 1) - 1] + Size(s[k + 1])
      BY <1>2, <2>1
    <2> QED BY <2>1, <2>2
  <1>b. \A k \in 0 .. n - 2 : b[k + 1] = b[k] + Size(t[k + 1])
    <2> TAKE k \in 0 .. n - 2
    <2>1. k + 1 \in 1 .. n - 1 /\ (k + 1) - 1 = k
      OBVIOUS
    <2>2. b[k + 1] = b[(k + 1) - 1] + Size(t[k + 1])
      BY <1>3, <2>1
    <2> QED BY <2>1, <2>2
  <1> DEFINE M == {k \in 0 .. n - 1 : IF k < i THEN b[k] = a[k] ELSE b[k] <= a[k + 1]}
  <1>4. 0 \in M
    <2>1. 0 \in 0 .. n - 1 /\ 0 < i
      OBVIOUS
    <2> QED BY <1>2, <1>3, <2>1
  <1>5. ASSUME NEW k \in 0 .. n - 2, k \in M PROVE k + 1 \in M
    <2>1. /\ k + 1 \in 1 .. n - 1 /\ k + 1 \in 0 .. n - 1 /\ k \in 0 .. n - 1 /\ k \in Nat
          /\ k + 1 \in 1 .. n /\ (k + 1) + 1 \in 1 .. n /\ i \in Nat
      OBVIOUS
    <2>2. /\ a[k + 1] = a[k] + Size(s[k + 1]) /\ b[k + 1] = b[k] + Size(t[k + 1])
          /\ a[(k + 1) + 1] = a[k + 1] + Size(s[(k + 1) + 1])
      BY <1>a, <1>b, <2>1
    <2>3. t[k + 1] = IF k + 1 < i THEN s[k + 1] ELSE s[(k + 1) + 1]
      BY <1>1, <2>1
    <2>4. Size(s[k + 1]) \in Nat /\ Size(s[(k + 1) + 1]) \in Nat /\ a[k] \in Nat /\ b[k] \in Nat
      <3>1. a[k] \in Nat /\ b[k] \in Nat
        <4>1. k \in 0 .. n
          BY <2>1
        <4> QED BY <2>1, <4>1
      <3>2. Size(s[k + 1]) \in Nat /\ Size(s[(k + 1) + 1]) \in Nat
        BY <1>s, <2>1, Zenon
      <3> QED BY <3>1, <3>2
    <2>5. IF k < i THEN b[k] = a[k] ELSE b[k] <= a[k + 1]
      BY <1>5
    <2>6. CASE k + 1 < i
      BY <2>1, <2>2, <2>3, <2>5, <2>6
    <2>7. CASE ~(k + 1 < i)
      <3>1. b[k + 1] = b[k] + Size(s[(k + 1) + 1])
        BY <2>2, <2>3, <2>7
      <3>2. b[k] <= a[k + 1]
        BY <2>1, <2>2, <2>4, <2>5
      <3> QED BY <2>1, <2>2, <2>4, <2>7, <3>1, <3>2
    <2> QED BY <2>6, <2>7
  <1>6. n - 1 \in M
    <2>1. n - 1 \in Nat /\ \A k \in 0 .. (n - 1) - 1 : k \in 0 .. n - 2
      OBVIOUS
    <2> HIDE DEF M
    <2> QED BY <1>4, <1>5, <2>1, NatInd
  <1>7. b[n - 1] <= a[n]
    <2>1. (n - 1) + 1 = n /\ n - 1 \in 0 .. n - 1 /\ i \in 1 .. n
      OBVIOUS
    <2>2. IF n - 1 < i THEN b[n - 1] = a[n - 1] ELSE b[n - 1] <= a[(n - 1) + 1]
      BY <1>6
    <2>3. a[(n - 1) + 1] = a[n - 1] + Size(s[(n - 1) + 1])
      BY <1>a, <2>1
    <2>4. Size(s[n]) \in Nat /\ a[n - 1] \in Nat /\ b[n - 1] \in Nat
      <3>1. n \in 1 .. n /\ n - 1 \in 0 .. n
        OBVIOUS
      <3>2. Size(s[n]) \in Nat
        BY <1>s, <3>1, Zenon
      <3>3. a[n - 1] \in Nat /\ b[n - 1] \in Nat
        BY <2>1, <3>1
      <3> QED BY <3>2, <3>3
    <2> QED BY <2>1, <2>2, <2>3, <2>4
  <1> QED BY <1>t, <1>2, <1>3, <1>7

\* Parties have at most as many different players as heads.
LEMMA PlayersBound ==
    ASSUME NEW Q, NEW s \in Seq(PartyOf(Q))
    PROVE  IsFiniteSet(Players(s)) /\ Cardinality(Players(s)) <= Heads(s)
  <1> PICK n \in Nat : n = Len(s) /\ DOMAIN s = 1 .. n
    OBVIOUS
  <1>1. PICK a \in [0 .. n -> Nat] :
           /\ a[0] = 0 /\ a[n] = Heads(s)
           /\ \A k \in 1 .. n : a[k] = a[k - 1] + Size(s[k])
    BY HeadsSteps
  <1> DEFINE U(k) == UNION {Members(s[i]) : i \in 1 .. k}
             M == {k \in 0 .. n : IsFiniteSet(U(k)) /\ Cardinality(U(k)) <= a[k]}
  <1>2. 0 \in M
    <2>1. U(0) = {}
      OBVIOUS
    <2> HIDE DEF U
    <2> QED BY <1>1, <2>1, FS_EmptySet
  <1>3. ASSUME NEW k \in 0 .. n - 1, k \in M PROVE k + 1 \in M
    <2>1. k + 1 \in 1 .. n /\ (k + 1) - 1 = k /\ k + 1 \in 0 .. n /\ k \in 0 .. n
      OBVIOUS
    <2>2. a[k + 1] = a[k] + Size(s[k + 1])
      <3>1. a[k + 1] = a[(k + 1) - 1] + Size(s[k + 1])
        BY <1>1, <2>1
      <3> QED BY <2>1, <3>1
    <2>3. s[k + 1] \in PartyOf(Q)
      BY <2>1
    <2>4. U(k + 1) = U(k) \cup Members(s[k + 1])
      <3>1. \A i : i \in 1 .. k + 1 <=> i \in 1 .. k \/ i = k + 1
        OBVIOUS
      <3> QED BY <3>1
    <2>5. IsFiniteSet(U(k)) /\ Cardinality(U(k)) <= a[k]
      BY <1>3
    <2> HIDE DEF U
    <2>6. /\ IsFiniteSet(Members(s[k + 1])) /\ Cardinality(Members(s[k + 1])) <= Size(s[k + 1])
          /\ Size(s[k + 1]) \in Nat
      BY <2>3, MembersBound
    <2>7. /\ IsFiniteSet(U(k + 1))
          /\ Cardinality(U(k + 1)) <= Cardinality(U(k)) + Cardinality(Members(s[k + 1]))
      <3> PICK A : A = U(k)
        OBVIOUS
      <3> PICK B : B = Members(s[k + 1])
        OBVIOUS
      <3>1. IsFiniteSet(A \cup B) /\ Cardinality(A \cup B) = Cardinality(A) + Cardinality(B) - Cardinality(A \cap B)
        BY <2>5, <2>6, FS_Union
      <3>2. IsFiniteSet(A \cap B)
        BY <2>5, FS_Subset
      <3>3. Cardinality(A \cap B) \in Nat /\ Cardinality(A) \in Nat /\ Cardinality(B) \in Nat
        BY <2>5, <2>6, <3>2, FS_CardinalityType
      <3>4. Cardinality(A \cup B) <= Cardinality(A) + Cardinality(B)
        BY <3>1, <3>3
      <3> HIDE DEF U
      <3>5. U(k + 1) = A \cup B
        BY <2>4
      <3> QED BY <3>1, <3>4, <3>5
    <2>8. Cardinality(U(k)) \in Nat /\ Cardinality(Members(s[k + 1])) \in Nat /\ a[k] \in Nat
          /\ Cardinality(U(k + 1)) \in Nat
      BY <2>1, <2>5, <2>6, <2>7, FS_CardinalityType
    <2> QED BY <2>1, <2>2, <2>5, <2>6, <2>7, <2>8
  <1>4. n \in M
    <2> HIDE DEF M
    <2> QED BY <1>2, <1>3, NatInd
  <1> QED BY <1>1, <1>4 DEF Players

\* AllMembers joins the members of the parties one by one.
LEMMA AllMembersSteps ==
    ASSUME NEW Q, NEW s \in Seq(PartyOf(Q))
    PROVE  \E a \in [0 .. Len(s) -> Seq(Q)] :
              /\ a[0] = <<>> /\ a[Len(s)] = AllMembers(s)
              /\ \A k \in 1 .. Len(s) : a[k] = a[k - 1] \o s[k].members
  <1> DEFINE Step(x, k) == x \o s[k].members
             Body(f) == [t \in SUBSET DOMAIN s |->
                            IF t = {} THEN <<>> ELSE Step(f[t \ {Max(t)}], Max(t))]
             it == CHOOSE f : f = Body(f)
  <1>1. PICK n \in Nat : n = Len(s) /\ DOMAIN s = 1 .. n
    OBVIOUS
  <1>2. PICK X : X = Seq(Q)
    OBVIOUS
  <1>3. PICK b \in X : b = <<>>
    <2>1. <<>> \in X
      BY <1>2
    <2> QED BY <2>1
  <1>4. AllMembers(s) = it[DOMAIN s]
    BY DEF AllMembers, FoldLeft, MapThenFoldSet
  <1>5. \A x \in X, k \in 1 .. n : Step(x, k) \in X
    <2>1. \A k \in 1 .. n : s[k] \in PartyOf(Q)
      BY <1>1
    <2>2. \A k \in 1 .. n : s[k].members \in Seq(Q)
      BY <2>1 DEF PartyOf
    <2> QED BY <1>2, <2>2, ConcatProperties
  <1> HIDE DEF Step
  <1>6. PICK G \in [X \X (1 .. n) -> X] : \A x \in X, k \in 1 .. n : G[<<x, k>>] = Step(x, k)
    <2> DEFINE G == [d \in X \X (1 .. n) |-> Step(d[1], d[2])]
    <2>1. G \in [X \X (1 .. n) -> X] /\ \A x \in X, k \in 1 .. n : G[<<x, k>>] = Step(x, k)
      BY <1>5
    <2> QED BY <2>1
  <1>7. PICK h : Folds(h, n, X, b, G)
    BY FoldExists
  <1>8. \A t \in SUBSET (1 .. n) : t # {} => Max(t) \in 1 .. n /\ t \ {Max(t)} \in SUBSET (1 .. n)
    BY MaxInterval
  <1>9. h = Body(h)
    BY <1>1, <1>3, <1>6, <1>7, <1>8 DEF Folds
  <1>10. it = Body(it)
    BY <1>9
  <1> HIDE DEF it
  <1>11. Unfolds(it, n, X, b, G)
    BY <1>1, <1>3, <1>6, <1>8, <1>10 DEF Unfolds
  <1>12. PICK a : Traces(a, it, n, X, b, G)
    BY <1>11, FoldSteps
  <1>13. ASSUME NEW k \in 1 .. n PROVE a[k] = Step(a[k - 1], k)
    <2>1. a[k - 1] \in X
      BY <1>12 DEF Traces
    <2> QED BY <1>6, <1>12, <2>1 DEF Traces
  <1> QED BY <1>1, <1>2, <1>3, <1>4, <1>12, <1>13 DEF Step, Traces

\* The members of parties of players in Q are in Q.
LEMMA AllMembersType ==
    ASSUME NEW Q, NEW s \in Seq(PartyOf(Q))
    PROVE  AllMembers(s) \in Seq(Q)
  <1>1. PICK a \in [0 .. Len(s) -> Seq(Q)] : a[Len(s)] = AllMembers(s)
    BY AllMembersSteps
  <1>2. Len(s) \in 0 .. Len(s)
    OBVIOUS
  <1> QED BY <1>1, <1>2

-----------------------------------------------------------------------------
(* Choosing parties.                                                      *)

\* The states of the fold of PackParties, from nobody to the parties it packs.
PackTrace(a, s, seats) ==
    /\ a[0] = <<>> /\ a[Len(s)] = PackParties(s, seats)
    /\ \A k \in 1 .. Len(s) :
          a[k] = IF seats >= 0 /\ Heads(a[k - 1]) + Size(s[k]) > seats
                 THEN a[k - 1] ELSE Append(a[k - 1], s[k])

\* PackParties passes over a party that does not fit, and takes the next one.
LEMMA PackSteps ==
    ASSUME NEW P, NEW s \in Seq(P), NEW seats
    PROVE  \E a \in [0 .. Len(s) -> Seq(P)] : PackTrace(a, s, seats)
  <1> DEFINE Step(x, k) == IF seats >= 0 /\ Heads(x) + Size(s[k]) > seats THEN x ELSE Append(x, s[k])
             Body(f) == [t \in SUBSET DOMAIN s |->
                            IF t = {} THEN <<>> ELSE Step(f[t \ {Max(t)}], Max(t))]
             it == CHOOSE f : f = Body(f)
  <1>1. PICK n \in Nat : n = Len(s) /\ DOMAIN s = 1 .. n
    OBVIOUS
  <1>2. PICK X : X = Seq(P)
    OBVIOUS
  <1>3. PICK b \in X : b = <<>>
    <2>1. <<>> \in X
      BY <1>2
    <2> QED BY <2>1
  <1>4. PackParties(s, seats) = it[DOMAIN s]
    BY DEF PackParties, FoldLeft, MapThenFoldSet
  <1>5. \A x \in X, k \in 1 .. n : Step(x, k) \in X
    BY <1>1, <1>2
  <1> HIDE DEF Step
  <1>6. PICK G \in [X \X (1 .. n) -> X] : \A x \in X, k \in 1 .. n : G[<<x, k>>] = Step(x, k)
    <2> DEFINE G == [d \in X \X (1 .. n) |-> Step(d[1], d[2])]
    <2>1. G \in [X \X (1 .. n) -> X] /\ \A x \in X, k \in 1 .. n : G[<<x, k>>] = Step(x, k)
      BY <1>5
    <2> QED BY <2>1
  <1>7. PICK h : Folds(h, n, X, b, G)
    BY FoldExists
  <1>8. \A t \in SUBSET (1 .. n) : t # {} => Max(t) \in 1 .. n /\ t \ {Max(t)} \in SUBSET (1 .. n)
    BY MaxInterval
  <1>9. h = Body(h)
    BY <1>1, <1>3, <1>6, <1>7, <1>8 DEF Folds
  <1>10. it = Body(it)
    BY <1>9
  <1> HIDE DEF it
  <1>11. Unfolds(it, n, X, b, G)
    BY <1>1, <1>3, <1>6, <1>8, <1>10 DEF Unfolds
  <1>12. PICK a : Traces(a, it, n, X, b, G)
    BY <1>11, FoldSteps
  <1>13. ASSUME NEW k \in 1 .. n PROVE a[k] = Step(a[k - 1], k)
    <2>1. a[k - 1] \in X
      BY <1>12 DEF Traces
    <2> QED BY <1>6, <1>12, <2>1 DEF Traces
  <1>14. PackTrace(a, s, seats)
    BY <1>1, <1>2, <1>3, <1>4, <1>12, <1>13 DEF Step, Traces, PackTrace
  <1>15. a \in [0 .. Len(s) -> Seq(P)]
    BY <1>1, <1>2, <1>12 DEF Traces
  <1> QED BY <1>14, <1>15

\* PackParties chooses among the parties it is given.
LEMMA PackType ==
    ASSUME NEW P, NEW s \in Seq(P), NEW seats
    PROVE  PackParties(s, seats) \in Seq(P)
  <1>1. PICK a \in [0 .. Len(s) -> Seq(P)] : a[Len(s)] = PackParties(s, seats)
    BY PackSteps DEF PackTrace
  <1>2. Len(s) \in 0 .. Len(s)
    OBVIOUS
  <1> QED BY <1>1, <1>2

\* PackParties keeps to the seats it is given.
LEMMA PackBound ==
    ASSUME NEW Q, NEW s \in Seq(PartyOf(Q)), NEW seats \in Nat
    PROVE  Heads(PackParties(s, seats)) <= seats
  <1> PICK n \in Nat : n = Len(s)
    OBVIOUS
  <1>0. PICK a \in [0 .. Len(s) -> Seq(PartyOf(Q))] : PackTrace(a, s, seats)
    BY PackSteps
  <1>1. /\ a[0] = <<>> /\ a[n] = PackParties(s, seats)
        /\ \A k \in 1 .. n :
              a[k] = IF seats >= 0 /\ Heads(a[k - 1]) + Size(s[k]) > seats
                     THEN a[k - 1] ELSE Append(a[k - 1], s[k])
    BY <1>0, Zenon DEF PackTrace
  <1> DEFINE M == {k \in 0 .. n : Heads(a[k]) <= seats}
  <1>2. 0 \in M
    BY <1>1, HeadsEmpty
  <1>3. ASSUME NEW k \in 0 .. n - 1, k \in M PROVE k + 1 \in M
    <2>1. k + 1 \in 1 .. n /\ (k + 1) - 1 = k /\ k + 1 \in 0 .. n /\ k \in 0 .. n
      OBVIOUS
    <2>2. a[k + 1] = IF seats >= 0 /\ Heads(a[k]) + Size(s[k + 1]) > seats
                     THEN a[k] ELSE Append(a[k], s[k + 1])
      <3>1. a[k + 1] = IF seats >= 0 /\ Heads(a[(k + 1) - 1]) + Size(s[k + 1]) > seats
                       THEN a[(k + 1) - 1] ELSE Append(a[(k + 1) - 1], s[k + 1])
        BY <1>1, <2>1, Zenon
      <3> QED BY <2>1, <3>1, Zenon
    <2>3. a[k] \in Seq(PartyOf(Q)) /\ s[k + 1] \in PartyOf(Q)
      BY <1>1, <2>1
    <2>4. Size(s[k + 1]) \in Nat /\ Heads(a[k]) \in Nat
      <3>1. \A p \in PartyOf(Q) : Size(p) \in Nat
        BY DEF PartyOf, Size
      <3> QED BY <2>3, <3>1, HeadsType
    <2>5. Heads(Append(a[k], s[k + 1])) = Heads(a[k]) + Size(s[k + 1])
      BY <2>3, HeadsAppend
    <2>6. Heads(a[k]) <= seats
      BY <1>3
    <2>7. CASE Heads(a[k]) + Size(s[k + 1]) > seats
      BY <2>1, <2>2, <2>6, <2>7
    <2>8. CASE ~(Heads(a[k]) + Size(s[k + 1]) > seats)
      <3>1. a[k + 1] = Append(a[k], s[k + 1])
        BY <2>2, <2>8
      <3>2. Heads(a[k + 1]) = Heads(a[k]) + Size(s[k + 1])
        BY <2>5, <3>1
      <3>3. Heads(a[k + 1]) <= seats
        BY <2>4, <2>8, <3>2
      <3> QED BY <2>1, <3>3
    <2> QED BY <2>7, <2>8
  <1>4. n \in M
    <2> HIDE DEF M
    <2> QED BY <1>2, <1>3, NatInd
  <1> QED BY <1>1, <1>4

\* So does the order of ClassEqualSubset and of the backfill planner.
LEMMA ByPriorityType ==
    ASSUME NEW P, NEW ps \in Seq(P), NEW fair
    PROVE  PartiesByPriority(ps, fair) \in Seq(P)
  BY SortType DEF PartiesByPriority, StableSort

\* A class that is odd has a player in some party.
LEMMA OddMember ==
    ASSUME NEW Q, IsFiniteSet(Q), NEW ps \in Seq(PartyOf(Q)), OddClasses(ps) # {}
    PROVE  \E i \in DOMAIN ps : Count(Members(ps[i]), Min(OddClasses(ps))) > 0
  <1> DEFINE c == Min(OddClasses(ps))
  <1>1. c \in OddClasses(ps)
    <2>1. OddClasses(ps) \in SUBSET Nat
      BY DEF OddClasses, Classes, Medic, Robotics, Assault, Recon
    <2> QED BY <2>1, MinNat
  <1> HIDE DEF c
  <1>2. PICK q \in Players(ps) : q.class = c
    <2>1. Count(Players(ps), c) % 2 = 1
      BY <1>1 DEF OddClasses
    <2> DEFINE C == {q \in Players(ps) : q.class = c}
    <2> PICK k : k = Cardinality(C)
      OBVIOUS
    <2>2. k % 2 = 1
      BY <2>1 DEF Count
    <2>3. C # {}
      <3>1. k # 0
        BY <2>2
      <3>2. Cardinality({}) = 0
        BY FS_EmptySet
      <3> HIDE DEF C
      <3> QED BY <3>1, <3>2
    <2> QED BY <2>3 DEF C
  <1>3. PICK i \in DOMAIN ps : q \in Members(ps[i])
    BY <1>2 DEF Players
  <1>4. Count(Members(ps[i]), c) > 0
    <2> DEFINE C == {m \in Members(ps[i]) : m.class = c}
    <2>1. ps[i] \in PartyOf(Q)
      OBVIOUS
    <2>2. Members(ps[i]) \in SUBSET Q
      BY <2>1, MembersType
    <2>3. IsFiniteSet(C) /\ q \in C
      BY <1>2, <1>3, <2>2, FS_Subset
    <2>4. Cardinality(C) \in Nat /\ Cardinality(C) # 0
      BY <2>3, FS_CardinalityType, FS_EmptySet
    <2> QED BY <2>4 DEF Count
  <1> QED BY <1>4 DEF c

\* While a class is odd there is a victim.
LEMMA VictimThere ==
    ASSUME NEW Q, IsFiniteSet(Q), NEW ps \in Seq(PartyOf(Q)), OddClasses(ps) # {}
    PROVE  Victim(ps, Min(OddClasses(ps))) \in 1 .. Len(ps)
  <1> PICK c : c = Min(OddClasses(ps))
    OBVIOUS
  <1> DEFINE any == {i \in DOMAIN ps : Count(Members(ps[i]), c) > 0}
             solos == {i \in DOMAIN ps : Size(ps[i]) = 1 /\ Count(Members(ps[i]), c) = 1}
  <1>4. any # {}
    BY OddMember
  <1>5. PICK n \in Nat : n = Len(ps) /\ DOMAIN ps = 1 .. n
    OBVIOUS
  <1>6. Victim(ps, c) \in 1 .. n
    <2>1. any \in SUBSET (1 .. n) /\ solos \in SUBSET (1 .. n) /\ any # {}
      BY <1>4, <1>5
    <2>2. Victim(ps, c) = Max(IF solos # {} THEN solos ELSE any)
      BY DEF Victim
    <2> HIDE DEF any, solos
    <2> QED BY <2>1, <2>2, MaxInterval
  <1> QED BY <1>5, <1>6

\* A round drops no party or one, and adds none.
LEMMA DropOddType ==
    ASSUME NEW Q, IsFiniteSet(Q), NEW P \in SUBSET PartyOf(Q), NEW ps \in Seq(P)
    PROVE  DropOdd(ps) \in Seq(P) /\ Heads(DropOdd(ps)) <= Heads(ps)
  <1>0. ps \in Seq(PartyOf(Q)) /\ Heads(ps) \in Nat
    <2>1. ps \in Seq(PartyOf(Q))
      OBVIOUS
    <2> QED BY <2>1, HeadsType
  <1>1. CASE OddClasses(ps) = {}
    BY <1>0, <1>1 DEF DropOdd
  <1>2. CASE OddClasses(ps) # {}
    <2> PICK v : v = Victim(ps, Min(OddClasses(ps)))
      OBVIOUS
    <2>1. v \in 1 .. Len(ps)
      BY <1>0, <1>2, VictimThere
    <2>2. RemoveAt(ps, v) \in Seq(P)
      BY <2>1, RemoveAtType
    <2>3. Heads(RemoveAt(ps, v)) <= Heads(ps)
      BY <1>0, <2>1, HeadsRemove
    <2> QED BY <1>2, <2>2, <2>3 DEF DropOdd
  <1> QED BY <1>1, <1>2

\* s: the parties before the first round, y: after the last.
DropTrace(a, s, y) ==
    /\ a[0] = s /\ a[Len(s)] = y
    /\ \A k \in 1 .. Len(s) : a[k] = DropOdd(a[k - 1])

\* The parties ClassEqualSubset starts to drop from.
Chosen(ps, cap, fair) == PackParties(PartiesByPriority(ps, fair), IF cap > 0 THEN cap ELSE -1)

\* ClassEqualSubset drops a party in each round in which a class is odd.
LEMMA SelectSteps ==
    ASSUME NEW P, NEW X \in SUBSET Seq(P), \A x \in X : DropOdd(x) \in X, NEW ps, NEW cap, NEW fair,
           NEW s \in X, s = Chosen(ps, cap, fair), NEW y, y = SelectClassEqualSubset(ps, cap, fair)
    PROVE  \E a \in [0 .. Len(s) -> X] : DropTrace(a, s, y)
  <1> DEFINE Step(x, k) == DropOdd(x)
             Body(f) == [t \in SUBSET DOMAIN s |->
                            IF t = {} THEN s ELSE Step(f[t \ {Max(t)}], Max(t))]
             it == CHOOSE f : f = Body(f)
  <1>1. PICK n \in Nat : n = Len(s) /\ DOMAIN s = 1 .. n
    <2>1. s \in Seq(P)
      OBVIOUS
    <2> QED BY <2>1
  <1>3. PICK b \in X : b = s
    OBVIOUS
  <1>4. y = it[DOMAIN s]
    BY DEF SelectClassEqualSubset, FoldLeft, MapThenFoldSet, Chosen
  <1>5. \A x \in X, k \in 1 .. n : Step(x, k) \in X
    OBVIOUS
  <1> HIDE DEF Step
  <1>6. PICK G \in [X \X (1 .. n) -> X] : \A x \in X, k \in 1 .. n : G[<<x, k>>] = Step(x, k)
    <2> DEFINE G == [d \in X \X (1 .. n) |-> Step(d[1], d[2])]
    <2>1. G \in [X \X (1 .. n) -> X] /\ \A x \in X, k \in 1 .. n : G[<<x, k>>] = Step(x, k)
      BY <1>5
    <2> QED BY <2>1
  <1>7. PICK h : Folds(h, n, X, b, G)
    BY FoldExists
  <1>8. \A t \in SUBSET (1 .. n) : t # {} => Max(t) \in 1 .. n /\ t \ {Max(t)} \in SUBSET (1 .. n)
    BY MaxInterval
  <1>9. h = Body(h)
    BY <1>1, <1>3, <1>6, <1>7, <1>8 DEF Folds
  <1>10. it = Body(it)
    BY <1>9
  <1> HIDE DEF it
  <1>11. Unfolds(it, n, X, b, G)
    BY <1>1, <1>3, <1>6, <1>8, <1>10 DEF Unfolds
  <1>12. PICK a : Traces(a, it, n, X, b, G)
    BY <1>11, FoldSteps
  <1>13. ASSUME NEW k \in 1 .. n PROVE a[k] = Step(a[k - 1], k)
    <2>1. a[k - 1] \in X
      BY <1>12 DEF Traces
    <2> QED BY <1>6, <1>12, <2>1 DEF Traces
  <1>14. a \in [0 .. Len(s) -> X]
    BY <1>1, <1>12 DEF Traces
  <1>15. a[0] = s /\ a[Len(s)] = y
    BY <1>1, <1>3, <1>4, <1>12 DEF Traces
  <1>16. \A k \in 1 .. Len(s) : a[k] = DropOdd(a[k - 1])
    BY <1>1, <1>13 DEF Step
  <1> QED BY <1>14, <1>15, <1>16 DEF DropTrace

\* ClassEqualSubset sorts, packs and drops: what these keep, it keeps.
LEMMA SelectKeeps ==
    ASSUME NEW P, NEW X \in SUBSET Seq(P), \A x \in X : DropOdd(x) \in X, NEW ps, NEW cap, NEW fair,
           Chosen(ps, cap, fair) \in X
    PROVE  SelectClassEqualSubset(ps, cap, fair) \in X
  <1> PICK s \in X : s = Chosen(ps, cap, fair)
    OBVIOUS
  <1> PICK y : y = SelectClassEqualSubset(ps, cap, fair)
    OBVIOUS
  <1>1. PICK a \in [0 .. Len(s) -> X] : DropTrace(a, s, y)
    BY SelectSteps
  <1>2. Len(s) \in 0 .. Len(s)
    <2>1. s \in Seq(P)
      OBVIOUS
    <2> QED BY <2>1
  <1> QED BY <1>1, <1>2 DEF DropTrace

\* The class-equal subset is chosen among the parties it is given, under the cap.
LEMMA SelectType ==
    ASSUME NEW Q, IsFiniteSet(Q), NEW P \in SUBSET PartyOf(Q), NEW ps \in Seq(P),
           NEW cap \in Nat, NEW fair
    PROVE  /\ SelectClassEqualSubset(ps, cap, fair) \in Seq(P)
           /\ cap > 0 => Heads(SelectClassEqualSubset(ps, cap, fair)) <= cap
  <1> DEFINE s == PackParties(PartiesByPriority(ps, fair), IF cap > 0 THEN cap ELSE -1)
  <1>0. s \in Seq(P)
    BY ByPriorityType, PackType
  <1>1. PICK X : X = {x \in Seq(P) : cap > 0 => Heads(x) <= cap}
    OBVIOUS
  <1>2. s \in X
    <2>1. PartiesByPriority(ps, fair) \in Seq(PartyOf(Q))
      <3>1. PartiesByPriority(ps, fair) \in Seq(P)
        BY ByPriorityType
      <3> QED BY <3>1
    <2>2. cap > 0 => s = PackParties(PartiesByPriority(ps, fair), cap)
      OBVIOUS
    <2> HIDE DEF s
    <2>3. cap > 0 => Heads(s) <= cap
      BY <2>1, <2>2, PackBound
    <2> QED BY <1>0, <1>1, <2>3
  <1>3. ASSUME NEW x \in X PROVE DropOdd(x) \in X
    <2>1. x \in Seq(P) /\ (cap > 0 => Heads(x) <= cap)
      BY <1>1
    <2>2. DropOdd(x) \in Seq(P) /\ Heads(DropOdd(x)) <= Heads(x)
      BY <2>1, DropOddType
    <2>3. Heads(x) \in Nat /\ Heads(DropOdd(x)) \in Nat
      <3>1. x \in Seq(PartyOf(Q)) /\ DropOdd(x) \in Seq(PartyOf(Q))
        BY <2>1, <2>2
      <3> QED BY <3>1, HeadsType
    <2>4. cap > 0 => Heads(DropOdd(x)) <= cap
      BY <2>1, <2>2, <2>3
    <2> QED BY <1>1, <2>2, <2>4
  <1>4. X \in SUBSET Seq(P)
    BY <1>1
  <1>5. SelectClassEqualSubset(ps, cap, fair) \in X
    BY <1>2, <1>3, <1>4, SelectKeeps DEF Chosen
  <1> QED BY <1>1, <1>5

-----------------------------------------------------------------------------
(* Sides.                                                                 *)

\* Sides for players in Q.
SideMaps(Q) == UNION {[D -> {1, 2}] : D \in SUBSET Q}

\* The domain and the values of sides for players in Q.
LEMMA SideMapType ==
    ASSUME NEW Q, NEW a \in SideMaps(Q)
    PROVE  DOMAIN a \subseteq Q /\ a \in [DOMAIN a -> {1, 2}]
  BY DEF SideMaps

\* Put gives a group one of the two sides.
LEMMA PutType ==
    ASSUME NEW Q, NEW a \in SideMaps(Q), NEW S \in SUBSET Q, NEW t \in {1, 2}
    PROVE  Put(a, S, t) \in SideMaps(Q)
  <1>1. DOMAIN a \subseteq Q /\ a \in [DOMAIN a -> {1, 2}]
    BY SideMapType
  <1>2. Put(a, S, t) \in [DOMAIN a \cup S -> {1, 2}]
    BY <1>1 DEF Put
  <1>3. DOMAIN a \cup S \in SUBSET Q
    BY <1>1
  <1> QED BY <1>2, <1>3 DEF SideMaps

\* Nobody is an assignment of sides.
LEMMA NobodyType ==
    ASSUME NEW Q
    PROVE  Nobody \in SideMaps(Q)
  <1>1. Nobody \in [{} -> {1, 2}] /\ {} \in SUBSET Q
    BY DEF Nobody
  <1> QED BY <1>1 DEF SideMaps

\* SidePlacement puts a group on one of the two sides, whatever they cost.
LEMMA PlaceGroupType ==
    ASSUME NEW Q, NEW a \in SideMaps(Q), NEW S \in SUBSET Q, NEW unrated
    PROVE  PlaceGroup(a, S, unrated) \in SideMaps(Q)
  <1>1. Put(a, S, 1) \in SideMaps(Q) /\ Put(a, S, 2) \in SideMaps(Q)
    BY PutType
  <1>2. PlaceGroup(a, S, unrated) \in {Put(a, S, 1), Put(a, S, 2)}
    BY DEF PlaceGroup
  <1> QED BY <1>1, <1>2

\* The parties as AssignWhole sorts them.
BySize(ps) ==
    Arranged(ps, Insertion(ps, {d \in (DOMAIN ps) \X (DOMAIN ps) : Size(ps[d[1]]) > Size(ps[d[2]])}))

\* AssignWhole places the parties one by one, the largest first.
LEMMA AssignWholeSteps ==
    ASSUME NEW Q, NEW ps \in Seq(PartyOf(Q)), NEW seed \in SideMaps(Q), NEW unrated,
           NEW s, s = BySize(ps), NEW y, y = AssignWhole(ps, seed, unrated)
    PROVE  \E a \in [0 .. Len(s) -> SideMaps(Q)] :
              /\ a[0] = seed /\ a[Len(s)] = y
              /\ \A k \in 1 .. Len(s) : a[k] = PlaceGroup(a[k - 1], Members(s[k]), unrated)
  <1> DEFINE Step(x, k) == PlaceGroup(x, Members(s[k]), unrated)
             Body(f) == [t \in SUBSET DOMAIN s |->
                            IF t = {} THEN seed ELSE Step(f[t \ {Max(t)}], Max(t))]
             it == CHOOSE f : f = Body(f)
  <1>0. s \in Seq(PartyOf(Q))
    BY SortType DEF BySize
  <1>1. PICK n \in Nat : n = Len(s) /\ DOMAIN s = 1 .. n
    BY <1>0
  <1>2. PICK X : X = SideMaps(Q)
    OBVIOUS
  <1>3. PICK b \in X : b = seed
    <2>1. seed \in X
      BY <1>2
    <2> QED BY <2>1
  <1>4. AssignWhole(ps, seed, unrated) = it[DOMAIN s]
    BY DEF AssignWhole, BySize, StableSort, FoldLeft, MapThenFoldSet
  <1>5. \A x \in X, k \in 1 .. n : Step(x, k) \in X
    <2>1. ASSUME NEW x \in X, NEW k \in 1 .. n PROVE Step(x, k) \in X
      <3>1. s[k] \in PartyOf(Q)
        BY <1>1, <1>0
      <3>2. Members(s[k]) \in SUBSET Q
        BY <3>1, MembersType
      <3> QED BY <1>2, <3>2, PlaceGroupType
    <2> QED BY <2>1
  <1> HIDE DEF Step
  <1>6. PICK G \in [X \X (1 .. n) -> X] : \A x \in X, k \in 1 .. n : G[<<x, k>>] = Step(x, k)
    <2> DEFINE G == [d \in X \X (1 .. n) |-> Step(d[1], d[2])]
    <2>1. G \in [X \X (1 .. n) -> X] /\ \A x \in X, k \in 1 .. n : G[<<x, k>>] = Step(x, k)
      BY <1>5
    <2> QED BY <2>1
  <1>7. PICK h : Folds(h, n, X, b, G)
    BY FoldExists
  <1>8. \A t \in SUBSET (1 .. n) : t # {} => Max(t) \in 1 .. n /\ t \ {Max(t)} \in SUBSET (1 .. n)
    BY MaxInterval
  <1>9. h = Body(h)
    BY <1>1, <1>3, <1>6, <1>7, <1>8 DEF Folds
  <1>10. it = Body(it)
    BY <1>9
  <1> HIDE DEF it
  <1>11. Unfolds(it, n, X, b, G)
    BY <1>1, <1>3, <1>6, <1>8, <1>10 DEF Unfolds
  <1>12. PICK a : Traces(a, it, n, X, b, G)
    BY <1>11, FoldSteps
  <1>13. ASSUME NEW k \in 1 .. n PROVE a[k] = Step(a[k - 1], k)
    <2>1. a[k - 1] \in X
      BY <1>12 DEF Traces
    <2> QED BY <1>6, <1>12, <2>1 DEF Traces
  <1> QED BY <1>1, <1>2, <1>3, <1>4, <1>12, <1>13 DEF Step, Traces

\* Placing whole parties gives sides for players in Q.
LEMMA AssignWholeType ==
    ASSUME NEW Q, NEW ps \in Seq(PartyOf(Q)), NEW seed \in SideMaps(Q), NEW unrated
    PROVE  AssignWhole(ps, seed, unrated) \in SideMaps(Q)
  <1> PICK s : s = BySize(ps)
    OBVIOUS
  <1> PICK y : y = AssignWhole(ps, seed, unrated)
    OBVIOUS
  <1>1. PICK a \in [0 .. Len(s) -> SideMaps(Q)] : a[Len(s)] = y
    BY AssignWholeSteps
  <1>2. s \in Seq(PartyOf(Q))
    BY SortType DEF BySize
  <1>3. Len(s) \in 0 .. Len(s)
    BY <1>2
  <1> QED BY <1>1, <1>3

\* Players as AssignIndividual sorts them.
ByHeal(s) ==
    Arranged(s, Insertion(s, {d \in (DOMAIN s) \X (DOMAIN s) : HealValue(s[d[1]], 2) > HealValue(s[d[2]], 2)}))

\* A player alone.
PlaceOne(a, q, unrated) == PlaceGroup(a, {q}, unrated)

\* AssignIndividual places the players one by one, the healers first.
LEMMA AssignIndividualSteps ==
    ASSUME NEW Q, NEW ps \in Seq(PartyOf(Q)), NEW seed \in SideMaps(Q), NEW unrated,
           NEW s, s = ByHeal(AllMembers(ps)), NEW y, y = AssignIndividual(ps, seed, unrated)
    PROVE  \E a \in [0 .. Len(s) -> SideMaps(Q)] :
              /\ a[0] = seed /\ a[Len(s)] = y
              /\ \A k \in 1 .. Len(s) : a[k] = PlaceOne(a[k - 1], s[k], unrated)
  <1> DEFINE Step(x, k) == PlaceOne(x, s[k], unrated)
             Body(f) == [t \in SUBSET DOMAIN s |->
                            IF t = {} THEN seed ELSE Step(f[t \ {Max(t)}], Max(t))]
             it == CHOOSE f : f = Body(f)
  <1>0. s \in Seq(Q)
    BY AllMembersType, SortType DEF ByHeal
  <1>1. PICK n \in Nat : n = Len(s) /\ DOMAIN s = 1 .. n
    BY <1>0
  <1>2. PICK X : X = SideMaps(Q)
    OBVIOUS
  <1>3. PICK b \in X : b = seed
    <2>1. seed \in X
      BY <1>2
    <2> QED BY <2>1
  <1>4. AssignIndividual(ps, seed, unrated) = it[DOMAIN s]
    BY DEF AssignIndividual, PlaceOne, ByHeal, StableSort, FoldLeft, MapThenFoldSet
  <1>5. \A x \in X, k \in 1 .. n : Step(x, k) \in X
    <2>1. ASSUME NEW x \in X, NEW k \in 1 .. n PROVE Step(x, k) \in X
      <3>1. s[k] \in Q
        BY <1>1, <1>0
      <3>2. {s[k]} \in SUBSET Q
        BY <3>1
      <3> QED BY <1>2, <3>2, PlaceGroupType DEF PlaceOne
    <2> QED BY <2>1
  <1> HIDE DEF Step
  <1>6. PICK G \in [X \X (1 .. n) -> X] : \A x \in X, k \in 1 .. n : G[<<x, k>>] = Step(x, k)
    <2> DEFINE G == [d \in X \X (1 .. n) |-> Step(d[1], d[2])]
    <2>1. G \in [X \X (1 .. n) -> X] /\ \A x \in X, k \in 1 .. n : G[<<x, k>>] = Step(x, k)
      BY <1>5
    <2> QED BY <2>1
  <1>7. PICK h : Folds(h, n, X, b, G)
    BY FoldExists
  <1>8. \A t \in SUBSET (1 .. n) : t # {} => Max(t) \in 1 .. n /\ t \ {Max(t)} \in SUBSET (1 .. n)
    BY MaxInterval
  <1>9. h = Body(h)
    BY <1>1, <1>3, <1>6, <1>7, <1>8 DEF Folds
  <1>10. it = Body(it)
    BY <1>9
  <1> HIDE DEF it
  <1>11. Unfolds(it, n, X, b, G)
    BY <1>1, <1>3, <1>6, <1>8, <1>10 DEF Unfolds
  <1>12. PICK a : Traces(a, it, n, X, b, G)
    BY <1>11, FoldSteps
  <1>13. ASSUME NEW k \in 1 .. n PROVE a[k] = Step(a[k - 1], k)
    <2>1. a[k - 1] \in X
      BY <1>12 DEF Traces
    <2> QED BY <1>6, <1>12, <2>1 DEF Traces
  <1>14. a \in [0 .. Len(s) -> SideMaps(Q)]
    BY <1>1, <1>2, <1>12 DEF Traces
  <1>15. a[0] = seed /\ a[Len(s)] = y
    BY <1>1, <1>3, <1>4, <1>12 DEF Traces
  <1>16. \A k \in 1 .. Len(s) : a[k] = PlaceOne(a[k - 1], s[k], unrated)
    BY <1>1, <1>13 DEF Step
  <1> QED BY <1>14, <1>15, <1>16

\* So does placing the players one by one.
LEMMA AssignIndividualType ==
    ASSUME NEW Q, NEW ps \in Seq(PartyOf(Q)), NEW seed \in SideMaps(Q), NEW unrated
    PROVE  AssignIndividual(ps, seed, unrated) \in SideMaps(Q)
  <1> PICK s : s = ByHeal(AllMembers(ps))
    OBVIOUS
  <1> PICK y : y = AssignIndividual(ps, seed, unrated)
    OBVIOUS
  <1>1. PICK a \in [0 .. Len(s) -> SideMaps(Q)] : a[Len(s)] = y
    BY AssignIndividualSteps
  <1>2. s \in Seq(Q)
    BY AllMembersType, SortType DEF ByHeal
  <1>3. Len(s) \in 0 .. Len(s)
    BY <1>2
  <1> QED BY <1>1, <1>3

\* SidePlacement::Assign, for every policy and configuration.
LEMMA AssignType ==
    ASSUME NEW Q, NEW ps \in Seq(PartyOf(Q)), NEW seed \in SideMaps(Q), NEW cfg,
           cfg.force \in {"pinned", "balanced", "pvp"},
           cfg.side \in {"ignore", "preferred", "required"}
    PROVE  Assign(cfg, ps, seed) \in SideMaps(Q)
  <1> DEFINE unrated == IF cfg.force = "pvp" THEN {} ELSE DOMAIN seed
  <1>1. /\ AssignWhole(ps, seed, unrated) \in SideMaps(Q)
        /\ AssignIndividual(ps, seed, unrated) \in SideMaps(Q)
    BY AssignWholeType, AssignIndividualType
  <1>2. Put(seed, Players(ps), 1) \in SideMaps(Q)
    BY PlayersType, PutType
  <1> QED BY <1>1, <1>2 DEF Assign

-----------------------------------------------------------------------------
(* The backfill plans.                                                    *)

\* MatchAccess.
Access == {"OPEN", "PARTY_LOCKED", "SEALED", "BACKFILL_ONLY"}

\* The parties in P of one player.
SolosOf(P) == {p \in P : Size(p) = 1}

\* Parties that are all of one player.
LEMMA SoloSeq ==
    ASSUME NEW P, NEW s \in Seq(P), NEW S, \A p \in S : Size(p) = 1, \A k \in DOMAIN s : s[k] \in S
    PROVE  s \in Seq(SolosOf(P))
  <1>1. \A k \in 1 .. Len(s) : s[k] \in SolosOf(P)
    BY DEF SolosOf
  <1>2. s = [k \in 1 .. Len(s) |-> s[k]] /\ Len(s) \in Nat
    OBVIOUS
  <1>3. s \in [1 .. Len(s) -> SolosOf(P)]
    BY <1>1, <1>2
  <1> QED BY <1>2, <1>3

\* Plans that take solo parties in P, whose players are in Q, as far as the free
\* seats go.
PlanOf(P, Q, free) ==
    {x \in [taken : Seq(SolosOf(P)), tf : SideMaps(Q)] : free >= 0 => Len(x.taken) <= free}

\* Abs of an integer.
LEMMA AbsType ==
    ASSUME NEW n \in Int
    PROVE  Abs(n) \in Nat
  BY DEF Abs

\* How many more of class c one side has than the other.
Gap(a, c) == Abs(Count(Side(a, 1), c) - Count(Side(a, 2), c))

\* The solo parties in P whose player has class c.
SolosIn(P, c) == {p \in SolosOf(P) : Count(Members(p), c) = 1}

\* Plan y is x with solos of class c for the side short of them, as many as it lacks at
\* most.
GrowsBy(x, y, c, P, inst) ==
    \E new \in Seq(SolosIn(P, c)) :
        /\ Len(new) <= Gap(inst.tf, c)
        /\ y = WithSolos(x, new, DeficitSide(c, inst))

\* PlanDeficitBackfill takes the classes one by one.
DeficitTrace(a, ps, P, inst, fair) ==
    /\ a[0] = [taken |-> <<>>, tf |-> Nobody] /\ a[4] = PlanDeficitBackfill(ps, inst, fair)
    /\ GrowsBy(a[0], a[1], Medic, P, inst) /\ GrowsBy(a[1], a[2], Robotics, P, inst)
    /\ GrowsBy(a[2], a[3], Assault, P, inst) /\ GrowsBy(a[3], a[4], Recon, P, inst)

\* Each step takes queued solos of its class, as many as one side lacks and as are free.
LEMMA DeficitSteps ==
    ASSUME NEW Q, IsFiniteSet(Q), NEW P \in SUBSET PartyOf(Q), NEW ps \in Seq(P), NEW fair,
           NEW inst, inst.tf \in SideMaps(Q), inst.free \in Int
    PROVE  \E a \in [0 .. 4 -> PlanOf(P, Q, inst.free)] : DeficitTrace(a, ps, P, inst, fair)
  <1> DEFINE C == <<Medic, Robotics, Assault, Recon>>
             Solos(c)   == Keep(PartiesByPriority(ps, fair),
                                {p \in ToSet(ps) : Size(p) = 1 /\ Count(Members(p), c) = 1})
             Missing(c) == Abs(Count(Side(inst.tf, 1), c) - Count(Side(inst.tf, 2), c))
             Room(x, c) == IF inst.free < 0 THEN Missing(c) ELSE inst.free - Len(x.taken)
             New(x, c)  == FirstOf(Solos(c), Min({Missing(c), Room(x, c)}))
             Add(x, c)  == WithSolos(x, New(x, c), DeficitSide(c, inst))
  <1> DEFINE Step(x, k) == Add(x, C[k])
             Body(f) == [t \in SUBSET DOMAIN C |->
                            IF t = {} THEN [taken |-> <<>>, tf |-> Nobody] ELSE Step(f[t \ {Max(t)}], Max(t))]
             it == CHOOSE f : f = Body(f)
  <1>1. PICK n \in Nat : n = 4 /\ DOMAIN C = 1 .. n
    OBVIOUS
  <1>2. PICK X : X = PlanOf(P, Q, inst.free)
    OBVIOUS
  <1>3. PICK b \in X : b = [taken |-> <<>>, tf |-> Nobody]
    <2>1. [taken |-> <<>>, tf |-> Nobody] \in X
      <3>1. <<>> \in Seq(SolosOf(P)) /\ Len(<<>>) = 0
        OBVIOUS
      <3> QED BY <1>2, <3>1, NobodyType DEF PlanOf
    <2> QED BY <2>1
  <1>4. PlanDeficitBackfill(ps, inst, fair) = it[DOMAIN C]
    BY DEF PlanDeficitBackfill, FoldLeft, MapThenFoldSet
  <1>c. C[1] = Medic /\ C[2] = Robotics /\ C[3] = Assault /\ C[4] = Recon
    OBVIOUS
  <1> HIDE DEF C
  <1>5. \A x \in X, k \in 1 .. n : Step(x, k) \in X /\ GrowsBy(x, Step(x, k), C[k], P, inst)
    <2>1. ASSUME NEW x \in X, NEW k \in 1 .. n
          PROVE  Step(x, k) \in X /\ GrowsBy(x, Step(x, k), C[k], P, inst)
      <3> PICK c : c = C[k]
        OBVIOUS
      <3>1. /\ IsFiniteSet(Side(inst.tf, 1)) /\ IsFiniteSet(Side(inst.tf, 2))
        <4>1. DOMAIN inst.tf \in SUBSET Q
          BY SideMapType
        <4>2. Side(inst.tf, 1) \in SUBSET Q /\ Side(inst.tf, 2) \in SUBSET Q
          BY <4>1 DEF Side
        <4> QED BY <4>2, FS_Subset
      <3>2. Missing(c) \in Nat
        <4>1. Count(Side(inst.tf, 1), c) \in Nat /\ Count(Side(inst.tf, 2), c) \in Nat
          BY <3>1, CountType
        <4>2. Count(Side(inst.tf, 1), c) - Count(Side(inst.tf, 2), c) \in Int
          BY <4>1
        <4>3. Missing(c) \in Nat
          BY <4>2, AbsType
        <4> QED BY <4>3
      <3>m. Missing(c) = Gap(inst.tf, c)
        BY DEF Gap
      <3>3. /\ x.taken \in Seq(SolosOf(P)) /\ x.tf \in SideMaps(Q)
            /\ inst.free >= 0 => Len(x.taken) <= inst.free
        BY <1>2 DEF PlanOf
      <3> HIDE DEF Missing
      <3>4. /\ Room(x, c) \in Nat
            /\ inst.free >= 0 => Len(x.taken) + Room(x, c) <= inst.free
        BY <3>2, <3>3
      <3> HIDE DEF Room
      <3>5. /\ Min({Missing(c), Room(x, c)}) \in Nat
            /\ Min({Missing(c), Room(x, c)}) <= Room(x, c)
            /\ Min({Missing(c), Room(x, c)}) <= Missing(c)
        <4>1. PICK u \in Nat : u = Missing(c)
          BY <3>2
        <4>2. PICK v \in Nat : v = Room(x, c)
          BY <3>4
        <4>3. Min({u, v}) \in {u, v} /\ Min({u, v}) <= v /\ Min({u, v}) <= u
          <5>1. u \in Int /\ v \in Int
            OBVIOUS
          <5> QED BY <5>1, MinPair
        <4>4. Min({u, v}) \in Nat /\ Min({u, v}) <= v /\ Min({u, v}) <= u
          BY <4>3
        <4> QED BY <4>1, <4>2, <4>4
      <3>6. Solos(c) \in Seq(SolosIn(P, c))
        <4> DEFINE S == {p \in ToSet(ps) : Size(p) = 1 /\ Count(Members(p), c) = 1}
                   b0 == PartiesByPriority(ps, fair)
        <4>1. b0 \in Seq(P)
          BY ByPriorityType
        <4> HIDE DEF b0
        <4>2. Keep(b0, S) \in Seq(P) /\ \A l \in DOMAIN Keep(b0, S) : Keep(b0, S)[l] \in S
          BY <4>1, KeepPart
        <4>3. \A p \in S : p \in P => p \in SolosIn(P, c)
          BY DEF SolosIn, SolosOf
        <4> HIDE DEF S
        <4>4. PICK t \in Seq(P) : t = Keep(b0, S) /\ \A l \in DOMAIN t : t[l] \in S
          BY <4>2
        <4>5. t \in Seq(SolosIn(P, c))
          <5>1. \A l \in 1 .. Len(t) : t[l] \in SolosIn(P, c)
            BY <4>3, <4>4
          <5>2. t = [l \in 1 .. Len(t) |-> t[l]] /\ Len(t) \in Nat
            OBVIOUS
          <5>3. t \in [1 .. Len(t) -> SolosIn(P, c)]
            BY <5>1, <5>2
          <5> QED BY <5>2, <5>3
        <4> QED BY <4>4, <4>5 DEF b0, S
      <3> HIDE DEF Solos
      <3>7. /\ New(x, c) \in Seq(SolosIn(P, c)) /\ New(x, c) \in Seq(SolosOf(P))
            /\ Len(New(x, c)) <= Room(x, c) /\ Len(New(x, c)) <= Missing(c)
        <4> DEFINE b1 == Min({Missing(c), Room(x, c)})
        <4>1. New(x, c) \in Seq(SolosIn(P, c)) /\ Len(New(x, c)) <= b1
          <5> HIDE DEF b1
          <5>1. b1 \in Int /\ b1 >= 0
            BY <3>5 DEF b1
          <5>2. New(x, c) = FirstOf(Solos(c), b1)
            BY DEF b1
          <5> QED BY <3>6, <5>1, <5>2, FirstPart
        <4>2. Len(New(x, c)) \in Nat
          BY <4>1
        <4>3. SolosIn(P, c) \subseteq SolosOf(P)
          BY DEF SolosIn
        <4> HIDE DEF New
        <4>4. New(x, c) \in Seq(SolosOf(P))
          BY <4>1, <4>3
        <4>5. PICK l \in Nat : l = Len(New(x, c))
          BY <4>2
        <4>6. PICK e \in Nat : e = b1
          BY <3>5
        <4>7. l <= e /\ e <= Room(x, c) /\ e <= Missing(c)
          BY <3>5, <4>1, <4>5, <4>6
        <4> HIDE DEF b1
        <4>8. l <= Room(x, c) /\ l <= Missing(c)
          BY <3>2, <3>4, <4>7
        <4> QED BY <4>1, <4>4, <4>5, <4>8
      <3> HIDE DEF New
      <3>8. /\ x.taken \o New(x, c) \in Seq(SolosOf(P))
            /\ inst.free >= 0 => Len(x.taken \o New(x, c)) <= inst.free
        <4>0. x.taken \in Seq(SolosOf(P)) /\ New(x, c) \in Seq(SolosOf(P))
          BY <3>3, <3>7
        <4>1. /\ x.taken \o New(x, c) \in Seq(SolosOf(P))
              /\ Len(x.taken \o New(x, c)) = Len(x.taken) + Len(New(x, c))
          BY <4>0, ConcatProperties
        <4>2. Len(x.taken) \in Nat /\ Len(New(x, c)) \in Nat
          BY <4>0
        <4>3. inst.free >= 0 => Len(x.taken) + Len(New(x, c)) <= inst.free
          <5>1. /\ Room(x, c) \in Nat /\ Len(New(x, c)) <= Room(x, c)
                /\ inst.free >= 0 => Len(x.taken) + Room(x, c) <= inst.free
            BY <3>4, <3>7
          <5>2. PICK a \in Nat : a = Len(x.taken)
            BY <4>2
          <5>3. PICK d \in Nat : d = Len(New(x, c))
            BY <4>2
          <5>4. PICK r \in Nat : r = Room(x, c)
            BY <5>1
          <5>5. PICK f \in Int : f = inst.free
            OBVIOUS
          <5>6. f >= 0 => a + d <= f
            <6>1. d <= r /\ (f >= 0 => a + r <= f)
              BY <5>1, <5>2, <5>3, <5>4, <5>5
            <6> QED BY <6>1
          <5> QED BY <5>2, <5>3, <5>5, <5>6
        <4> QED BY <4>1, <4>3
      <3>9. New(x, c) \in Seq(PartyOf(Q))
        <4>1. SolosOf(P) \subseteq PartyOf(Q)
          BY DEF SolosOf
        <4> QED BY <3>7, <4>1
      <3>10. Players(New(x, c)) \in SUBSET Q /\ DeficitSide(c, inst) \in {1, 2}
        BY <3>9, PlayersType DEF DeficitSide
      <3>11. Put(x.tf, Players(New(x, c)), DeficitSide(c, inst)) \in SideMaps(Q)
        BY <3>3, <3>10, PutType
      <3>12. Add(x, c) \in X
        BY <1>2, <3>8, <3>11 DEF PlanOf, WithSolos
      <3>13. GrowsBy(x, Add(x, c), c, P, inst)
        BY <3>7, <3>m DEF GrowsBy
      <3> QED BY <3>12, <3>13
    <2> QED BY <2>1
  <1> HIDE DEF Step
  <1>6. PICK G \in [X \X (1 .. n) -> X] : \A x \in X, k \in 1 .. n : G[<<x, k>>] = Step(x, k)
    <2> DEFINE G == [d \in X \X (1 .. n) |-> Step(d[1], d[2])]
    <2>1. G \in [X \X (1 .. n) -> X] /\ \A x \in X, k \in 1 .. n : G[<<x, k>>] = Step(x, k)
      BY <1>5
    <2> QED BY <2>1
  <1>7. PICK h : Folds(h, n, X, b, G)
    BY FoldExists
  <1>8. \A t \in SUBSET (1 .. n) : t # {} => Max(t) \in 1 .. n /\ t \ {Max(t)} \in SUBSET (1 .. n)
    BY MaxInterval
  <1>9. h = Body(h)
    BY <1>1, <1>3, <1>6, <1>7, <1>8 DEF Folds
  <1>10. it = Body(it)
    BY <1>9
  <1> HIDE DEF it
  <1>11. Unfolds(it, n, X, b, G)
    BY <1>1, <1>3, <1>6, <1>8, <1>10 DEF Unfolds
  <1>12. PICK a : Traces(a, it, n, X, b, G)
    BY <1>11, FoldSteps
  <1>13. /\ a \in [0 .. n -> X] /\ a[0] = b /\ a[n] = it[1 .. n]
         /\ \A k \in 1 .. n : a[k] = G[<<a[k - 1], k>>]
    BY <1>12 DEF Traces
  <1>14. /\ a \in [0 .. 4 -> X] /\ a[0] = [taken |-> <<>>, tf |-> Nobody]
         /\ a[4] = PlanDeficitBackfill(ps, inst, fair)
    BY <1>1, <1>3, <1>4, <1>13, Zenon
  <1>15. ASSUME NEW k \in 1 .. n PROVE GrowsBy(a[k - 1], a[k], C[k], P, inst)
    <2>1. k - 1 \in 0 .. n
      OBVIOUS
    <2>2. a[k - 1] \in X
      BY <1>13, <2>1
    <2>3. a[k] = Step(a[k - 1], k)
      BY <1>6, <1>13, <2>2
    <2> QED BY <1>5, <2>2, <2>3
  <1>16. /\ GrowsBy(a[0], a[1], Medic, P, inst) /\ GrowsBy(a[1], a[2], Robotics, P, inst)
         /\ GrowsBy(a[2], a[3], Assault, P, inst) /\ GrowsBy(a[3], a[4], Recon, P, inst)
    <2>1. /\ 1 \in 1 .. n /\ 2 \in 1 .. n /\ 3 \in 1 .. n /\ 4 \in 1 .. n
          /\ 1 - 1 = 0 /\ 2 - 1 = 1 /\ 3 - 1 = 2 /\ 4 - 1 = 3
      BY <1>1
    <2>2. /\ GrowsBy(a[1 - 1], a[1], C[1], P, inst) /\ GrowsBy(a[2 - 1], a[2], C[2], P, inst)
          /\ GrowsBy(a[3 - 1], a[3], C[3], P, inst) /\ GrowsBy(a[4 - 1], a[4], C[4], P, inst)
      BY <1>15, <2>1
    <2> QED BY <1>c, <2>1, <2>2
  <1>17. DeficitTrace(a, ps, P, inst, fair)
    BY <1>14, <1>16 DEF DeficitTrace
  <1> QED BY <1>2, <1>14, <1>17

\* PlanDeficitBackfill takes queued solo players, one seat for each.
LEMMA DeficitType ==
    ASSUME NEW Q, IsFiniteSet(Q), NEW P \in SUBSET PartyOf(Q), NEW ps \in Seq(P), NEW fair,
           NEW inst, inst.tf \in SideMaps(Q), inst.free \in Int
    PROVE  PlanDeficitBackfill(ps, inst, fair) \in PlanOf(P, Q, inst.free)
  <1>1. PICK a \in [0 .. 4 -> PlanOf(P, Q, inst.free)] : DeficitTrace(a, ps, P, inst, fair)
    BY DeficitSteps
  <1>2. a[4] = PlanDeficitBackfill(ps, inst, fair)
    BY <1>1 DEF DeficitTrace
  <1>3. a[4] \in PlanOf(P, Q, inst.free)
    OBVIOUS
  <1> QED BY <1>2, <1>3

\* PlanPairJoin takes two queued solo players, if it finds a pair.
LEMMA PairJoinType ==
    ASSUME NEW Q, NEW P \in SUBSET PartyOf(Q), NEW ps \in Seq(P),
           NEW inst, inst.free \in Int, NEW fair
    PROVE  PlanPairJoin(ps, inst, fair) \in PlanOf(P, Q, inst.free)
  <1> DEFINE solos == Keep(PartiesByPriority(ps, fair), {p \in ToSet(ps) : Size(p) = 1})
             class(i) == solos[i].members[1].class
             pairs == {d \in (DOMAIN solos) \X (DOMAIN solos) :
                          d[1] < d[2] /\ class(d[1]) = class(d[2])}
             first == CHOOSE d \in pairs : \A e \in pairs :
                          d[1] < e[1] \/ (d[1] = e[1] /\ d[2] <= e[2])
             none  == [taken |-> <<>>, tf |-> Nobody]
             two   == [taken |-> <<solos[first[1]], solos[first[2]]>>,
                       tf    |-> Put(Put(Nobody, Members(solos[first[1]]), 1),
                                     Members(solos[first[2]]), 2)]
  <1>1. solos \in Seq(SolosOf(P))
    <2> DEFINE S == {p \in ToSet(ps) : Size(p) = 1}
               b0 == PartiesByPriority(ps, fair)
    <2>1. b0 \in Seq(P)
      BY ByPriorityType
    <2> HIDE DEF b0
    <2>2. Keep(b0, S) \in Seq(P) /\ \A k \in DOMAIN Keep(b0, S) : Keep(b0, S)[k] \in S
      BY <2>1, KeepPart
    <2>3. \A p \in S : Size(p) = 1
      OBVIOUS
    <2>4. Keep(b0, S) \in Seq(SolosOf(P))
      <3> HIDE DEF S
      <3> QED BY <2>2, <2>3, SoloSeq
    <2> QED BY <2>4 DEF b0
  <1>2. inst.free >= 0 => none \in PlanOf(P, Q, inst.free)
    <2>1. <<>> \in Seq(SolosOf(P)) /\ Len(<<>>) = 0
      OBVIOUS
    <2> QED BY <2>1, NobodyType DEF PlanOf
  <1>2b. ~(inst.free >= 0) => none \in PlanOf(P, Q, inst.free)
    <2>1. <<>> \in Seq(SolosOf(P))
      OBVIOUS
    <2> QED BY <2>1, NobodyType DEF PlanOf
  <1>3. ASSUME pairs # {}, inst.free < 0 \/ inst.free >= 2 PROVE two \in PlanOf(P, Q, inst.free)
    <2> HIDE DEF solos
    <2>1. PICK n \in Nat : n = Len(solos) /\ DOMAIN solos = 1 .. n
      BY <1>1
    <2>2. pairs \in SUBSET ((1 .. n) \X (1 .. n))
      BY <2>1
    <2> HIDE DEF pairs
    <2>3. \E d \in pairs : \A e \in pairs : d[1] < e[1] \/ (d[1] = e[1] /\ d[2] <= e[2])
      BY <1>3, <2>2, LeastPair
    <2>4. first \in pairs
      BY <2>3
    <2> HIDE DEF first
    <2>5. first[1] \in DOMAIN solos /\ first[2] \in DOMAIN solos
      BY <2>1, <2>2, <2>4
    <2>6. /\ solos[first[1]] \in SolosOf(P) /\ solos[first[2]] \in SolosOf(P)
          /\ solos[first[1]] \in P /\ solos[first[2]] \in P
      BY <1>1, <2>5 DEF SolosOf
    <2>7. Members(solos[first[1]]) \in SUBSET Q /\ Members(solos[first[2]]) \in SUBSET Q
      BY <2>6, MembersType
    <2>8. Put(Nobody, Members(solos[first[1]]), 1) \in SideMaps(Q)
      BY <2>7, NobodyType, PutType
    <2>9. two.tf \in SideMaps(Q)
      BY <2>7, <2>8, PutType
    <2>10. two.taken \in Seq(SolosOf(P)) /\ Len(two.taken) = 2
      BY <2>6
    <2>11. inst.free >= 0 => 2 <= inst.free
      BY <1>3
    <2>12. two \in [taken : Seq(SolosOf(P)), tf : SideMaps(Q)]
      BY <2>9, <2>10
    <2> HIDE DEF two
    <2> QED BY <2>10, <2>11, <2>12 DEF PlanOf
  <1>4. \/ PlanPairJoin(ps, inst, fair) = none
        \/ PlanPairJoin(ps, inst, fair) = two /\ pairs # {} /\ (inst.free < 0 \/ inst.free >= 2)
    BY DEF PlanPairJoin, PairUp
  <1> HIDE DEF two, none, pairs
  <1> QED BY <1>2, <1>2b, <1>3, <1>4

\* A backfill of either kind.
LEMMA BackfillType ==
    ASSUME NEW Q, IsFiniteSet(Q), NEW P \in SUBSET PartyOf(Q), NEW ps \in Seq(P), NEW fair,
           NEW inst, inst.tf \in SideMaps(Q), inst.free \in Int, NEW cfg
    PROVE  Backfill(cfg, ps, inst, fair) \in PlanOf(P, Q, inst.free)
  BY DeficitType, PairJoinType DEF Backfill, OrPair

-----------------------------------------------------------------------------
(* The rules.                                                             *)

\* What a rule promises: parties in P, a side for each of their players and for
\* nobody else, an instance it was offered or a new one, of a known access.
GoodResult(r, P, I) ==
    /\ r.taken \in Seq(P)
    /\ r.tf \in [Players(r.taken) -> {1, 2}]
    /\ r.inst \in I \cup {0}
    /\ r.access \in Access
    /\ r.cap \in Nat

\* BuildResult keeps the promise if its sides and parties are right.
LEMMA TakenGood ==
    ASSUME NEW Q, NEW P, NEW ps \in Seq(P), NEW sides \in SideMaps(Q),
           NEW I, NEW i \in I \cup {0}, NEW access \in Access, NEW cap \in Nat
    PROVE  GoodResult(Taken(ps, sides, i, access, cap), P, I)
  <1>1. sides \in [DOMAIN sides -> {1, 2}]
    BY SideMapType
  <1>2. \A q : (IF q \in DOMAIN sides THEN sides[q] ELSE 1) \in {1, 2}
    BY <1>1
  <1>3. [q \in Players(ps) |-> IF q \in DOMAIN sides THEN sides[q] ELSE 1]
           \in [Players(ps) -> {1, 2}]
    BY <1>2
  <1> QED BY <1>3 DEF Taken, GoodResult

\* So does the result that takes nobody.
LEMMA NoResultGood ==
    ASSUME NEW P, NEW I
    PROVE  GoodResult(NoResult, P, I)
  <1>1. Players(<<>>) = {}
    BY DEF Players
  <1>2. Nobody \in [{} -> {1, 2}] /\ <<>> \in Seq(P)
    BY DEF Nobody
  <1> QED BY <1>1, <1>2 DEF NoResult, GoodResult, Access

\* Configurations with a rule.
GoodConfig(cfg) ==
    /\ cfg.rule \in {"coop", "agent", "versus"}
    /\ cfg.team \in {"own", "mixed", "block"}
    /\ cfg.side \in {"ignore", "preferred", "required"}
    /\ cfg.force \in {"pinned", "balanced", "pvp"}
    /\ cfg.cap \in Nat

\* Instances that can be joined, whose players are in Q.
InstOf(Q) == [id : Nat \ {0}, tf : SideMaps(Q), access : Access, free : Int]

\* The instances a rule is offered.
InstIds(insts) == {insts[k].id : k \in DOMAIN insts}

\* Whoever is taken has a seat: under the cap of a new match, unless it is locked to
\* its parties, or a seat that is free in the instance it joins.
Seated(r, insts) ==
    IF r.inst = 0
    THEN r.access # "PARTY_LOCKED" /\ r.cap > 0 => Heads(r.taken) <= r.cap
    ELSE \E k \in DOMAIN insts :
            insts[k].id = r.inst /\ (insts[k].free >= 0 => Heads(r.taken) <= insts[k].free)

\* Nobody needs no seat.
LEMMA NoResultSeated ==
    ASSUME NEW insts
    PROVE  Seated(NoResult, insts)
  BY DEF NoResult, Seated

\* A new match with room for the parties it takes.
LEMMA NewSeated ==
    ASSUME NEW ps, NEW sides, NEW access, NEW cap, NEW insts,
           access # "PARTY_LOCKED" /\ cap > 0 => Heads(ps) <= cap
    PROVE  Seated(Taken(ps, sides, 0, access, cap), insts)
  BY DEF Taken, Seated

\* An instance with free seats for the parties that join it.
LEMMA JoinSeated ==
    ASSUME NEW Q, NEW ps, NEW sides, NEW access, NEW cap, NEW insts \in Seq(InstOf(Q)),
           NEW k \in DOMAIN insts,
           insts[k].free >= 0 => Heads(ps) <= insts[k].free
    PROVE  Seated(Taken(ps, sides, insts[k].id, access, cap), insts)
  <1>1. insts[k] \in InstOf(Q)
    OBVIOUS
  <1>2. insts[k].id # 0
    BY <1>1 DEF InstOf
  <1> QED BY <1>2 DEF Taken, Seated

\* A party that is matched alone.
LEMMA OwnMatchGood ==
    ASSUME NEW Q, NEW P \in SUBSET PartyOf(Q), NEW p \in P, NEW cfg, GoodConfig(cfg), NEW I,
           NEW insts
    PROVE  GoodResult(OwnMatch(cfg, p), P, I) /\ Seated(OwnMatch(cfg, p), insts)
  <1>1. \A s \in Seq(PartyOf(Q)) : Assign(cfg, s, Nobody) \in SideMaps(Q)
    BY NobodyType, AssignType DEF GoodConfig
  <1> PICK own : own = <<p>>
    OBVIOUS
  <1>2. own \in Seq(P) /\ own \in Seq(PartyOf(Q))
    OBVIOUS
  <1>3. 0 \in I \cup {0} /\ "PARTY_LOCKED" \in Access /\ cfg.cap \in Nat
    BY DEF Access, GoodConfig
  <1>4. GoodResult(Taken(own, Assign(cfg, own, Nobody), 0, "PARTY_LOCKED", cfg.cap), P, I)
    BY <1>1, <1>2, <1>3, TakenGood
  <1>5. Seated(Taken(own, Assign(cfg, own, Nobody), 0, "PARTY_LOCKED", cfg.cap), insts)
    BY NewSeated
  <1> QED BY <1>4, <1>5 DEF OwnMatch

\* Backfill, drop-in and a new match.
LEMMA PlacePoolGood ==
    ASSUME NEW Q, IsFiniteSet(Q), NEW P \in SUBSET PartyOf(Q), NEW ps \in Seq(P),
           NEW insts \in Seq(InstOf(Q)), NEW fair, NEW cfg, GoodConfig(cfg)
    PROVE  /\ GoodResult(PlacePool(cfg, ps, insts, fair), P, InstIds(insts))
           /\ Seated(PlacePool(cfg, ps, insts, fair), insts)
  <1> DEFINE I == InstIds(insts)
             pvp      == cfg.force = "pvp"
             backfill == pvp /\ cfg.backfill
             short    == {i \in DOMAIN insts : /\ insts[i].access = "BACKFILL_ONLY"
                                               /\ Backfill(cfg, ps, insts[i], fair).taken # <<>>}
             open     == {i \in DOMAIN insts : /\ insts[i].access = "OPEN"
                                               /\ PackParties(ps, insts[i].free) # <<>>}
             seats    == IF cfg.cap > 0 THEN cfg.cap ELSE -1
             chosen   == IF pvp /\ cfg.strict THEN SelectClassEqualSubset(ps, cfg.cap, fair)
                                              ELSE PackParties(ps, seats)
             s        == insts[Min(short)]
             o        == insts[Min(open)]
             plan     == Backfill(cfg, ps, s, fair)
             fit      == PackParties(ps, o.free)
             repair   == Taken(plan.taken, plan.tf, s.id, s.access, cfg.cap)
             dropin   == Taken(fit, Assign(cfg, fit, o.tf), o.id, "OPEN", cfg.cap)
             new      == IF chosen = <<>> THEN NoResult
                         ELSE Taken(chosen, Assign(cfg, chosen, Nobody), 0,
                                    IF backfill THEN "BACKFILL_ONLY" ELSE "OPEN",
                                    IF backfill THEN Heads(chosen) ELSE cfg.cap)
  <1>0. cfg.cap \in Nat
    BY DEF GoodConfig
  <1>a. DOMAIN insts \in SUBSET Nat
    OBVIOUS
  <1>b. \A k \in DOMAIN insts : /\ insts[k] \in InstOf(Q) /\ insts[k].id \in I
    BY DEF InstIds
  <1>c. ps \in Seq(PartyOf(Q))
    OBVIOUS
  <1>1. ASSUME short # {} PROVE GoodResult(repair, P, I) /\ Seated(repair, insts)
    <2>1. Min(short) \in DOMAIN insts
      <3>1. short \in SUBSET Nat /\ short \subseteq DOMAIN insts
        BY <1>a
      <3> HIDE DEF short
      <3> QED BY <1>1, <3>1, MinNat
    <2>2. s \in InstOf(Q) /\ s.id \in I
      BY <1>b, <2>1
    <2>3. PICK k \in DOMAIN insts : k = Min(short)
      BY <2>1
    <2>4. s = insts[k]
      BY <2>3
    <2> HIDE DEF s, I
    <2>5. s.tf \in SideMaps(Q) /\ s.free \in Int /\ s.access \in Access
      BY <2>2 DEF InstOf
    <2>6. plan \in PlanOf(P, Q, s.free)
      BY <2>5, BackfillType
    <2> HIDE DEF plan
    <2>7. /\ plan.taken \in Seq(SolosOf(P)) /\ plan.tf \in SideMaps(Q)
          /\ s.free >= 0 => Len(plan.taken) <= s.free
      BY <2>6 DEF PlanOf
    <2>8. s.id \in I \cup {0}
      BY <2>2
    <2>9. plan.taken \in Seq(P)
      BY <2>7 DEF SolosOf
    <2>10. s.free >= 0 => Heads(plan.taken) <= s.free
      <3>1. plan.taken \in Seq(PartyOf(Q))
        BY <2>9
      <3>2. \A i \in DOMAIN plan.taken : Size(plan.taken[i]) = 1
        <4>1. \A i \in DOMAIN plan.taken : plan.taken[i] \in SolosOf(P)
          BY <2>7
        <4> QED BY <4>1 DEF SolosOf
      <3>3. Heads(plan.taken) = Len(plan.taken)
        BY <3>1, <3>2, SoloHeads
      <3> QED BY <2>7, <3>3
    <2>11. Seated(repair, insts)
      BY <2>4, <2>10, JoinSeated
    <2>12. GoodResult(repair, P, I)
      BY <1>0, <2>5, <2>7, <2>8, <2>9, TakenGood
    <2> QED BY <2>11, <2>12
  <1>2. ASSUME open # {} PROVE GoodResult(dropin, P, I) /\ Seated(dropin, insts)
    <2>1. Min(open) \in DOMAIN insts
      <3>1. open \in SUBSET Nat /\ open \subseteq DOMAIN insts
        BY <1>a
      <3> HIDE DEF open
      <3> QED BY <1>2, <3>1, MinNat
    <2>2. o \in InstOf(Q) /\ o.id \in I
      BY <1>b, <2>1
    <2>a. PICK k \in DOMAIN insts : k = Min(open)
      BY <2>1
    <2>b. o = insts[k]
      BY <2>a
    <2> HIDE DEF o, I
    <2>3. /\ o.tf \in SideMaps(Q) /\ o.id \in I \cup {0} /\ "OPEN" \in Access
          /\ o.free \in Int
      BY <2>2 DEF InstOf, Access
    <2>4. fit \in Seq(P)
      BY PackType
    <2>c. o.free >= 0 => Heads(fit) <= o.free
      <3>1. o.free >= 0 => o.free \in Nat
        BY <2>3
      <3> QED BY <1>c, <3>1, PackBound
    <2> HIDE DEF fit
    <2>5. fit \in Seq(PartyOf(Q))
      BY <2>4
    <2>6. Assign(cfg, fit, o.tf) \in SideMaps(Q)
      BY <2>3, <2>5, AssignType DEF GoodConfig
    <2>7. Seated(dropin, insts)
      BY <2>b, <2>c, JoinSeated
    <2>8. GoodResult(dropin, P, I)
      BY <1>0, <2>3, <2>4, <2>6, TakenGood
    <2> QED BY <2>7, <2>8
  <1>3. GoodResult(new, P, I) /\ Seated(new, insts)
    <2>1. chosen \in Seq(P)
      BY <1>0, SelectType, PackType
    <2>a. cfg.cap > 0 => Heads(chosen) <= cfg.cap
      <3>1. cfg.cap > 0 => Heads(SelectClassEqualSubset(ps, cfg.cap, fair)) <= cfg.cap
        BY <1>0, SelectType
      <3>2. cfg.cap > 0 => Heads(PackParties(ps, seats)) <= cfg.cap
        BY <1>0, <1>c, PackBound
      <3> QED BY <3>1, <3>2
    <2> HIDE DEF chosen, I
    <2>2. chosen \in Seq(PartyOf(Q))
      BY <2>1
    <2>3. Assign(cfg, chosen, Nobody) \in SideMaps(Q)
      BY <2>2, NobodyType, AssignType DEF GoodConfig
    <2>4. Heads(chosen) \in Nat
      BY <2>2, HeadsType
    <2> PICK access \in Access : access = IF backfill THEN "BACKFILL_ONLY" ELSE "OPEN"
      BY DEF Access
    <2> PICK cap \in Nat : cap = IF backfill THEN Heads(chosen) ELSE cfg.cap
      BY <1>0, <2>4
    <2>5. 0 \in I \cup {0}
      OBVIOUS
    <2>6. GoodResult(Taken(chosen, Assign(cfg, chosen, Nobody), 0, access, cap), P, I)
      BY <2>1, <2>3, <2>5, TakenGood
    <2>7. cap > 0 => Heads(chosen) <= cap
      BY <2>4, <2>a
    <2>8. Seated(Taken(chosen, Assign(cfg, chosen, Nobody), 0, access, cap), insts)
      BY <2>7, NewSeated
    <2> QED BY <2>6, <2>8, NoResultGood, NoResultSeated
  <1>4. PlacePool(cfg, ps, insts, fair) =
           CASE backfill /\ short # {}                    -> repair
             [] ~(backfill /\ short # {}) /\ open # {}    -> dropin
             [] ~(backfill /\ short # {}) /\ open = {}    -> new
    BY DEF PlacePool
  <1> HIDE DEF repair, dropin, new, short, open, backfill
  <1> QED BY <1>1, <1>2, <1>3, <1>4

\* CoopMatchRule.
LEMMA CoopGood ==
    ASSUME NEW Q, IsFiniteSet(Q), NEW P \in SUBSET PartyOf(Q), NEW ps \in Seq(P),
           NEW insts \in Seq(InstOf(Q)), NEW fair, NEW cfg, GoodConfig(cfg), NEW solo
    PROVE  /\ GoodResult(CoopRule(cfg, ps, insts, fair, solo), P, InstIds(insts))
           /\ Seated(CoopRule(cfg, ps, insts, fair, solo), insts)
  <1> DEFINE I == InstIds(insts)
             wants(p) == cfg.min <= 1 /\ ~p.team /\ p.members[1].id \in solo
             locked   == Keep(ps, {p \in ToSet(ps) : wants(p)})
             teams    == Keep(ps, {p \in ToSet(ps) : p.team})
             solos    == Keep(ps, {p \in ToSet(ps) : ~p.team /\ ~wants(p)})
             mixed    == Keep(ps, {p \in ToSet(ps) : p.team \/ ~wants(p)})
             pool(s)  == IF s = <<>> THEN NoResult ELSE PlacePool(cfg, s, insts, fair)
  <1>1. /\ locked \in Seq(P) /\ teams \in Seq(P) /\ solos \in Seq(P) /\ mixed \in Seq(P)
    BY KeepPart
  <1>2. CoopRule(cfg, ps, insts, fair, solo) =
           CASE locked # <<>>                                     -> OwnMatch(cfg, locked[1])
             [] locked = <<>> /\ cfg.team = "own" /\ teams # <<>> -> OwnMatch(cfg, teams[1])
             [] locked = <<>> /\ cfg.team = "own" /\ teams = <<>> -> pool(solos)
             [] locked = <<>> /\ cfg.team = "block"               -> pool(solos)
             [] locked = <<>> /\ cfg.team = "mixed"               -> pool(mixed)
    BY DEF CoopRule
  <1> HIDE DEF locked, teams, solos, mixed
  <1>3. \A s \in Seq(P) : s # <<>> => s[1] \in P
    OBVIOUS
  <1>4. \A s \in Seq(P) : s # <<>> => /\ GoodResult(OwnMatch(cfg, s[1]), P, I)
                                       /\ Seated(OwnMatch(cfg, s[1]), insts)
    BY <1>3, OwnMatchGood
  <1>5. \A s \in Seq(P) : GoodResult(pool(s), P, I) /\ Seated(pool(s), insts)
    <2> TAKE s \in Seq(P)
    <2>1. /\ GoodResult(PlacePool(cfg, s, insts, fair), P, I)
          /\ Seated(PlacePool(cfg, s, insts, fair), insts)
      BY PlacePoolGood
    <2> QED BY <2>1, NoResultGood, NoResultSeated
  <1> HIDE DEF pool, I
  <1>6. cfg.team \in {"own", "mixed", "block"}
    BY DEF GoodConfig
  <1>7. /\ GoodResult(CoopRule(cfg, ps, insts, fair, solo), P, I)
        /\ Seated(CoopRule(cfg, ps, insts, fair, solo), insts)
    BY <1>1, <1>2, <1>4, <1>5, <1>6
  <1> QED BY <1>7 DEF I

\* DoubleAgentMatchRule, whoever defends.
LEMMA AgentGood ==
    ASSUME NEW Q, NEW P \in SUBSET PartyOf(Q), NEW ps \in Seq(P), NEW fair, NEW I,
           NEW insts
    PROVE  GoodResult(AgentRule(ps, fair), P, I) /\ Seated(AgentRule(ps, fair), insts)
  <1> DEFINE chosen == PackParties(ps, AgentMax)
             total  == Heads(chosen)
             def    == Defenders(chosen, total - Attackers[total], fair)
             sides  == [q \in def \cap Q |-> 2]
  <1>1. chosen \in Seq(P)
    BY PackType
  <1> HIDE DEF chosen
  <1>2. chosen \in Seq(PartyOf(Q))
    BY <1>1
  <1>3. total \in Nat /\ 0 \in I \cup {0} /\ "SEALED" \in Access
    BY <1>2, HeadsType DEF Access
  <1> HIDE DEF total, def
  <1>4. sides \in SideMaps(Q)
    <2>1. sides \in [def \cap Q -> {1, 2}] /\ def \cap Q \in SUBSET Q
      OBVIOUS
    <2> QED BY <2>1 DEF SideMaps
  <1>5. GoodResult(Taken(chosen, sides, 0, "SEALED", total), P, I)
    BY <1>1, <1>3, <1>4, TakenGood
  <1>6. Taken(chosen, [q \in def |-> 2], 0, "SEALED", total) = Taken(chosen, sides, 0, "SEALED", total)
    <2>1. Players(chosen) \in SUBSET Q
      BY <1>2, PlayersType
    <2>2. \A q \in Players(chosen) :
             (IF q \in DOMAIN [p \in def |-> 2] THEN [p \in def |-> 2][q] ELSE 1)
                = IF q \in DOMAIN sides THEN sides[q] ELSE 1
      BY <2>1
    <2>3. [q \in Players(chosen) |->
             IF q \in DOMAIN [p \in def |-> 2] THEN [p \in def |-> 2][q] ELSE 1]
          = [q \in Players(chosen) |-> IF q \in DOMAIN sides THEN sides[q] ELSE 1]
      BY <2>2
    <2> QED BY <2>3 DEF Taken
  <1>7. AgentRule(ps, fair) = IF total < 2 THEN NoResult
                              ELSE Taken(chosen, [q \in def |-> 2], 0, "SEALED", total)
    BY DEF AgentRule, chosen, total, def
  <1>8. Seated(Taken(chosen, [q \in def |-> 2], 0, "SEALED", total), insts)
    <2>1. Heads(chosen) <= total
      BY <1>3 DEF total
    <2> QED BY <2>1, NewSeated
  <1> QED BY <1>5, <1>6, <1>7, <1>8, NoResultGood, NoResultSeated

\* VersusMatchRule.
LEMMA VersusGood ==
    ASSUME NEW Q, NEW P \in SUBSET PartyOf(Q), NEW ps \in Seq(P), NEW cfg, GoodConfig(cfg), NEW I,
           NEW insts
    PROVE  GoodResult(VersusRule(cfg, ps), P, I) /\ Seated(VersusRule(cfg, ps), insts)
  <1>1. CASE Len(ps) < 2
    BY <1>1, NoResultGood, NoResultSeated DEF VersusRule
  <1>2. CASE ~(Len(ps) < 2)
    <2>1. ps[1] \in P /\ ps[2] \in P
      <3>1. 1 \in DOMAIN ps /\ 2 \in DOMAIN ps
        BY <1>2
      <3> QED BY <3>1
    <2>2. Members(ps[1]) \in SUBSET Q /\ Members(ps[2]) \in SUBSET Q
      BY <2>1, MembersType
    <2>3. Put(Put(Nobody, Members(ps[1]), 1), Members(ps[2]), 2) \in SideMaps(Q)
      BY <2>2, NobodyType, PutType
    <2>4. <<ps[1], ps[2]>> \in Seq(P) /\ 0 \in I \cup {0} /\ "PARTY_LOCKED" \in Access
      BY <2>1 DEF Access
    <2>5. cfg.cap \in Nat
      BY DEF GoodConfig
    <2> PICK two : two = <<ps[1], ps[2]>>
      OBVIOUS
    <2> PICK sides : sides = Put(Put(Nobody, Members(ps[1]), 1), Members(ps[2]), 2)
      OBVIOUS
    <2>6. GoodResult(Taken(two, sides, 0, "PARTY_LOCKED", cfg.cap), P, I)
      BY <2>3, <2>4, <2>5, TakenGood
    <2>7. Seated(Taken(two, sides, 0, "PARTY_LOCKED", cfg.cap), insts)
      BY NewSeated
    <2> QED BY <1>2, <2>6, <2>7 DEF VersusRule
  <1> QED BY <1>1, <1>2

\* Whatever rule a queue has, Evaluate takes parties that are queued, puts each of
\* their players and nobody else on side 1 or 2, joins an instance only if it was
\* offered, and takes no more players than there are seats: TryPop commits all that
\* without another look.
THEOREM EvaluateGood ==
    ASSUME NEW Q, IsFiniteSet(Q), NEW ps \in Seq(PartyOf(Q)),
           NEW insts \in Seq(InstOf(Q)), NEW fair, NEW cfg, GoodConfig(cfg), NEW solo
    PROVE  /\ GoodResult(Evaluate(cfg, ps, insts, fair, solo), ToSet(ps), InstIds(insts))
           /\ Seated(Evaluate(cfg, ps, insts, fair, solo), insts)
  <1> DEFINE P == ToSet(ps)
  <1>1. P \in SUBSET PartyOf(Q) /\ ps \in Seq(P)
    <2>1. \A k \in 1 .. Len(ps) : ps[k] \in PartyOf(Q) /\ ps[k] \in P
      BY DEF ToSet
    <2>2. P \in SUBSET PartyOf(Q)
      BY DEF ToSet
    <2>3. ps = [k \in 1 .. Len(ps) |-> ps[k]]
      OBVIOUS
    <2>4. ps \in [1 .. Len(ps) -> P]
      BY <2>1, <2>3
    <2>5. Len(ps) \in Nat
      OBVIOUS
    <2> HIDE DEF P
    <2> QED BY <2>2, <2>4, <2>5
  <1> HIDE DEF P
  <1>2. /\ GoodResult(CoopRule(cfg, ps, insts, fair, solo), P, InstIds(insts))
        /\ Seated(CoopRule(cfg, ps, insts, fair, solo), insts)
    BY <1>1, CoopGood
  <1>3. /\ GoodResult(AgentRule(ps, fair), P, InstIds(insts))
        /\ Seated(AgentRule(ps, fair), insts)
    BY <1>1, AgentGood
  <1>4. /\ GoodResult(VersusRule(cfg, ps), P, InstIds(insts))
        /\ Seated(VersusRule(cfg, ps), insts)
    BY <1>1, VersusGood
  <1>5. /\ GoodResult(Evaluate(cfg, ps, insts, fair, solo), P, InstIds(insts))
        /\ Seated(Evaluate(cfg, ps, insts, fair, solo), insts)
    BY <1>2, <1>3, <1>4 DEF Evaluate, GoodConfig
  <1> QED BY <1>5 DEF P

-----------------------------------------------------------------------------
(* Sorting.                                                               *)

\* t is s with e put in as its element i.
Inserted(t, s, i, e) ==
    /\ Len(t) = Len(s) + 1
    /\ \A k \in 1 .. Len(s) + 1 : t[k] = IF k < i THEN s[k] ELSE IF k = i THEN e ELSE s[k - 1]

\* InsertAt moves what is behind the new element by one.
LEMMA InsertAtSteps ==
    ASSUME NEW S, NEW s \in Seq(S), NEW i \in 1 .. Len(s) + 1, NEW e \in S
    PROVE  Inserted(InsertAt(s, i, e), s, i, e)
  <1>0. PICK n \in Nat : n = Len(s)
    OBVIOUS
  <1>1. PICK m \in Nat : m = i - 1
    OBVIOUS
  <1>2. PICK r \in Nat : r = n - m
    <2>1. n - m \in Nat
      BY <1>0, <1>1
    <2> QED BY <2>1
  <1>3. PICK b : b = SubSeq(s, 1, m)
    OBVIOUS
  <1>4. PICK c : c = SubSeq(s, i, n)
    OBVIOUS
  <1>5. b \in Seq(S) /\ Len(b) = m /\ \A k \in 1 .. m : b[k] = s[k]
    <2>1. /\ 1 \in Int /\ m \in Int
          /\ \A j \in 1 .. m : s[j] \in S
      BY <1>0, <1>1
    <2>2. /\ b \in Seq(S) /\ Len(b) = IF 1 <= m THEN m - 1 + 1 ELSE 0
          /\ \A k \in 1 .. m - 1 + 1 : b[k] = s[1 + k - 1]
      BY <1>3, <2>1, SubSeqProperties
    <2>3. \A k \in 1 .. m : k \in 1 .. m - 1 + 1 /\ 1 + k - 1 = k
      OBVIOUS
    <2> QED BY <2>2, <2>3
  <1>6. c \in Seq(S) /\ Len(c) = r /\ \A k \in 1 .. r : c[k] = s[m + k]
    <2>1. /\ i \in Int /\ n \in Int /\ i = m + 1 /\ n = m + r
          /\ \A j \in i .. n : s[j] \in S
      BY <1>0, <1>1, <1>2
    <2>2. /\ c \in Seq(S) /\ Len(c) = IF i <= n THEN n - i + 1 ELSE 0
          /\ \A k \in 1 .. n - i + 1 : c[k] = s[i + k - 1]
      BY <1>4, <2>1, SubSeqProperties
    <2>3. \A k \in 1 .. r : k \in 1 .. n - i + 1 /\ i + k - 1 = m + k
      BY <2>1
    <2>4. (IF i <= n THEN n - i + 1 ELSE 0) = r
      BY <2>1
    <2> QED BY <2>2, <2>3, <2>4
  <1>7. PICK d : d = b \o <<e>>
    OBVIOUS
  <1>8. /\ d \in Seq(S) /\ Len(d) = m + 1
        /\ \A k \in 1 .. m : d[k] = s[k]
        /\ d[m + 1] = e
    BY <1>5, <1>7
  <1>9. PICK t : t = d \o c
    OBVIOUS
  <1>10. t = InsertAt(s, i, e)
    BY <1>0, <1>1, <1>3, <1>4, <1>7, <1>9 DEF InsertAt
  <1>11. Len(t) = (m + 1) + r
    <2>1. d \in Seq(S) /\ c \in Seq(S)
      BY <1>6, <1>8
    <2>2. Len(d \o c) = Len(d) + Len(c)
      BY <2>1, ConcatProperties
    <2>3. Len(d) = m + 1 /\ Len(c) = r
      BY <1>6, <1>8
    <2> QED BY <1>9, <2>2, <2>3
  <1>12. \A k \in 1 .. (m + 1) + r : t[k] = IF k <= m + 1 THEN d[k] ELSE c[k - (m + 1)]
    BY <1>6, <1>8, <1>9
  <1>13. n = m + r /\ i = m + 1
    BY <1>0, <1>1, <1>2
  <1>14. ASSUME NEW k \in 1 .. n + 1
         PROVE  t[k] = IF k < i THEN s[k] ELSE IF k = i THEN e ELSE s[k - 1]
    <2>1. k \in 1 .. (m + 1) + r
      BY <1>13
    <2>2. t[k] = IF k <= m + 1 THEN d[k] ELSE c[k - (m + 1)]
      BY <1>12, <2>1
    <2>3. CASE k <= m
      BY <1>8, <1>13, <2>2, <2>3
    <2>4. CASE k = m + 1
      BY <1>8, <1>13, <2>2, <2>4
    <2>5. CASE k > m + 1
      <3>1. k - (m + 1) \in 1 .. r /\ m + (k - (m + 1)) = k - 1
        BY <1>13, <2>5
      <3>2. c[k - (m + 1)] = s[m + (k - (m + 1))]
        BY <1>6, <3>1
      <3>3. c[k - (m + 1)] = s[k - 1]
        BY <3>1, <3>2
      <3> QED BY <1>13, <2>2, <2>5, <3>3
    <2> QED BY <2>3, <2>4, <2>5
  <1>15. Len(t) = n + 1
    BY <1>11, <1>13
  <1> QED BY <1>0, <1>10, <1>14, <1>15 DEF Inserted

\* A set of positions that has with each one all before it is given by its size.
LEMMA PrefixCount ==
    ASSUME NEW n \in Nat, NEW J \in SUBSET (1 .. n), \A i, j \in 1 .. n : i < j /\ j \in J => i \in J
    PROVE  Cardinality(J) \in 0 .. n /\ J = 1 .. Cardinality(J)
  <1>1. CASE J = {}
    <2>1. Cardinality(J) = 0 /\ 1 .. 0 = {}
      BY <1>1, FS_EmptySet
    <2> QED BY <1>1, <2>1
  <1>2. CASE J # {}
    <2>1. PICK m \in J : \A j \in J : j <= m
      <3> DEFINE T == {n - j : j \in J}
      <3>1. T \in SUBSET Nat /\ T # {}
        <4>1. \A j \in J : n - j \in Nat
          OBVIOUS
        <4>2. T \in SUBSET Nat
          BY <4>1
        <4> QED BY <1>2, <4>2
      <3>2. PICK l \in T : \A u \in T : l <= u
        <4> HIDE DEF T
        <4> QED BY <3>1, LeastNat
      <3>3. PICK m \in J : l = n - m
        BY <3>2
      <3>4. \A j \in J : n - m <= n - j
        BY <3>2, <3>3
      <3>5. \A j \in J : j <= m
        BY <3>4
      <3> QED BY <3>5
    <2>2. J = 1 .. m
      <3>1. ASSUME NEW i \in 1 .. m PROVE i \in J
        <4>1. i \in 1 .. n /\ (i < m \/ i = m)
          OBVIOUS
        <4> QED BY <4>1
      <3>2. \A i \in J : i \in 1 .. m
        BY <2>1
      <3> QED BY <3>1, <3>2, Zenon
    <2>3. m \in Nat /\ m \in 0 .. n
      OBVIOUS
    <2>4. Cardinality(1 .. m) = m
      BY <2>3, Interval
    <2> QED BY <2>2, <2>3, <2>4
  <1> QED BY <1>1, <1>2

\* before orders positions by some rank: what the comparisons of std::stable_sort are.
WeakOrder(before, n) ==
    /\ \A x, y \in 1 .. n : <<x, y>> \in before => <<y, x>> \notin before
    /\ \A x, y, z \in 1 .. n :
          <<x, z>> \in before => <<x, y>> \in before \/ <<y, z>> \in before

\* x has each of the positions up to k once.
Listed(x, k) ==
    /\ x \in Seq(1 .. k) /\ Len(x) = k
    /\ \A i, j \in 1 .. k : x[i] = x[j] => i = j
    /\ \A j \in 1 .. k : \E i \in 1 .. k : x[i] = j

\* No position in x is before one that precedes it.
Sorted(x, k, before) == \A i, j \in 1 .. k : i < j => <<x[j], x[i]>> \notin before

\* With the next position put in, each is there once.
LEMMA InsertedListed ==
    ASSUME NEW k \in Nat, NEW x, Listed(x, k), NEW i \in 1 .. k + 1, NEW t,
           t \in Seq(1 .. k + 1), Inserted(t, x, i, k + 1)
    PROVE  Listed(t, k + 1)
  <1>1. /\ Len(x) = k /\ \A j \in 1 .. k : x[j] \in 1 .. k
        /\ \A j, l \in 1 .. k : x[j] = x[l] => j = l
        /\ \A l \in 1 .. k : \E j \in 1 .. k : x[j] = l
    <2>1. /\ x \in Seq(1 .. k) /\ Len(x) = k
          /\ \A j, l \in 1 .. k : x[j] = x[l] => j = l
          /\ \A l \in 1 .. k : \E j \in 1 .. k : x[j] = l
      BY DEF Listed
    <2>2. \A j \in 1 .. k : x[j] \in 1 .. k
      BY <2>1
    <2> QED BY <2>1, <2>2
  <1>2. /\ Len(t) = k + 1
        /\ \A j \in 1 .. k + 1 :
              t[j] = IF j < i THEN x[j] ELSE IF j = i THEN k + 1 ELSE x[j - 1]
    <2>1. /\ Len(t) = Len(x) + 1
          /\ \A j \in 1 .. Len(x) + 1 :
                t[j] = IF j < i THEN x[j] ELSE IF j = i THEN k + 1 ELSE x[j - 1]
      BY DEF Inserted
    <2> QED BY <1>1, <2>1, Zenon
  <1>3. ASSUME NEW j \in 1 .. k + 1
        PROVE  \/ j = i /\ t[j] = k + 1
               \/ j < i /\ j \in 1 .. k /\ t[j] = x[j] /\ t[j] \in 1 .. k
               \/ j > i /\ j - 1 \in 1 .. k /\ t[j] = x[j - 1] /\ t[j] \in 1 .. k
    <2>1. CASE j = i
      BY <1>2, <2>1
    <2>2. CASE j < i
      <3>1. j \in 1 .. k
        BY <2>2
      <3> QED BY <1>1, <1>2, <2>2, <3>1
    <2>3. CASE j > i
      <3>1. j - 1 \in 1 .. k
        BY <2>3
      <3> QED BY <1>1, <1>2, <2>3, <3>1
    <2> QED BY <2>1, <2>2, <2>3
  <1>4. ASSUME NEW j \in 1 .. k + 1, NEW l \in 1 .. k + 1, t[j] = t[l] PROVE j = l
    <2>1. k + 1 \notin 1 .. k
      OBVIOUS
    <2>2. CASE j = i
      BY <1>3, <1>4, <2>1, <2>2
    <2>3. CASE l = i
      BY <1>3, <1>4, <2>1, <2>3
    <2>4. CASE j # i /\ l # i
      <3> DEFINE J == IF j < i THEN j ELSE j - 1
                 L == IF l < i THEN l ELSE l - 1
      <3>1. J \in 1 .. k /\ t[j] = x[J]
        BY <1>3, <2>4
      <3>2. L \in 1 .. k /\ t[l] = x[L]
        BY <1>3, <2>4
      <3>3. J = L
        <4> HIDE DEF J, L
        <4> QED BY <1>1, <1>4, <3>1, <3>2
      <3> QED BY <2>4, <3>3
    <2> QED BY <2>2, <2>3, <2>4
  <1>5. ASSUME NEW l \in 1 .. k + 1 PROVE \E j \in 1 .. k + 1 : t[j] = l
    <2>1. CASE l = k + 1
      BY <1>2, <2>1
    <2>2. CASE l \in 1 .. k
      <3>1. PICK j \in 1 .. k : x[j] = l
        BY <1>1, <2>2
      <3>2. CASE j < i
        <4>1. j \in 1 .. k + 1
          OBVIOUS
        <4> QED BY <1>2, <3>1, <3>2, <4>1
      <3>3. CASE ~(j < i)
        <4>1. j + 1 \in 1 .. k + 1 /\ ~(j + 1 < i) /\ j + 1 # i /\ (j + 1) - 1 = j
          BY <3>3
        <4>2. t[j + 1] = x[(j + 1) - 1]
          BY <1>2, <4>1
        <4> QED BY <3>1, <4>1, <4>2
      <3> QED BY <3>2, <3>3
    <2> QED BY <2>1, <2>2
  <1> QED BY <1>2, <1>4, <1>5 DEF Listed

\* A new position goes behind all it is not before, so what was sorted stays sorted.
LEMMA InsertedSorted ==
    ASSUME NEW k \in Nat, NEW n \in Nat, k + 1 <= n, NEW before, WeakOrder(before, n),
           NEW x, Listed(x, k), Sorted(x, k, before), NEW t,
           Inserted(t, x, Slot(x, k + 1, before), k + 1)
    PROVE  Sorted(t, k + 1, before)
  <1> DEFINE J == {j \in 1 .. k : <<k + 1, x[j]>> \notin before}
  <1>1. /\ Len(x) = k /\ DOMAIN x = 1 .. k /\ \A j \in 1 .. k : x[j] \in 1 .. n
        /\ k + 1 \in 1 .. n
    <2>1. x \in Seq(1 .. k) /\ Len(x) = k
      BY DEF Listed
    <2>2. \A j \in 1 .. k : x[j] \in 1 .. k
      BY <2>1
    <2>3. 1 .. k \subseteq 1 .. n
      OBVIOUS
    <2> QED BY <2>1, <2>2, <2>3
  <1>2. PICK c \in 0 .. k : c = Cardinality(J) /\ J = 1 .. c
    <2>1. J \in SUBSET (1 .. k)
      OBVIOUS
    <2>2. \A i, j \in 1 .. k : i < j /\ j \in J => i \in J
      BY <1>1 DEF WeakOrder, Sorted
    <2> HIDE DEF J
    <2> QED BY <2>1, <2>2, PrefixCount
  <1>3. Slot(x, k + 1, before) = c + 1
    <2>1. Slot(x, k + 1, before) = 1 + Cardinality(J)
      BY <1>1 DEF Slot
    <2> QED BY <1>2, <2>1
  <1>4. \A j \in 1 .. k + 1 :
           t[j] = IF j < c + 1 THEN x[j] ELSE IF j = c + 1 THEN k + 1 ELSE x[j - 1]
    BY <1>1, <1>3 DEF Inserted
  <1>5. /\ \A j \in 1 .. c : <<k + 1, x[j]>> \notin before
        /\ \A j \in c + 1 .. k : <<k + 1, x[j]>> \in before
    <2>1. \A j \in 1 .. c : j \in J
      BY <1>2
    <2>2. \A j \in c + 1 .. k : j \in 1 .. k /\ j \notin 1 .. c
      OBVIOUS
    <2>3. \A j \in c + 1 .. k : j \in 1 .. k /\ j \notin J
      BY <1>2, <2>2
    <2> QED BY <2>1, <2>3
  <1> HIDE DEF J
  <1>6. ASSUME NEW i \in 1 .. k + 1, NEW j \in 1 .. k + 1, i < j PROVE <<t[j], t[i]>> \notin before
    <2>1. CASE j < c + 1
      <3>1. i \in 1 .. k /\ j \in 1 .. k /\ t[i] = x[i] /\ t[j] = x[j]
        BY <1>4, <1>6, <2>1
      <3> QED BY <1>6, <3>1 DEF Sorted
    <2>2. CASE j = c + 1
      <3>1. i \in 1 .. c /\ t[i] = x[i] /\ t[j] = k + 1
        BY <1>4, <1>6, <2>2
      <3> QED BY <1>5, <3>1
    <2>3. CASE j > c + 1
      <3>1. j - 1 \in c + 1 .. k /\ j - 1 \in 1 .. k /\ t[j] = x[j - 1]
        BY <1>4, <2>3
      <3>2. CASE i < c + 1
        <4>1. i \in 1 .. k /\ i < j - 1 /\ t[i] = x[i]
          BY <1>4, <2>3, <3>2
        <4> QED BY <3>1, <4>1 DEF Sorted
      <3>3. CASE i = c + 1
        <4>1. t[i] = k + 1 /\ <<k + 1, x[j - 1]>> \in before
          BY <1>4, <1>5, <3>1, <3>3
        <4>2. x[j - 1] \in 1 .. n
          BY <1>1, <3>1
        <4> QED BY <1>1, <3>1, <4>1, <4>2 DEF WeakOrder
      <3>4. CASE i > c + 1
        <4>1. i - 1 \in 1 .. k /\ i - 1 < j - 1 /\ t[i] = x[i - 1]
          BY <1>4, <1>6, <3>4
        <4> QED BY <3>1, <4>1 DEF Sorted
      <3> QED BY <3>2, <3>3, <3>4
    <2> QED BY <2>1, <2>2, <2>3
  <1> QED BY <1>6 DEF Sorted

\* Sorting a sequence lists its positions, and sorts them by a weak order.
LEMMA InsertionOrder ==
    ASSUME NEW P, NEW s \in Seq(P), NEW before
    PROVE  /\ Listed(Insertion(s, before), Len(s))
           /\ WeakOrder(before, Len(s)) => Sorted(Insertion(s, before), Len(s), before)
  <1> PICK n \in Nat : n = Len(s)
    OBVIOUS
  <1>1. PICK a \in [0 .. n -> Seq(1 .. n)] :
           /\ a[0] = <<>> /\ a[n] = Insertion(s, before)
           /\ \A k \in 1 .. n : a[k] = InsertAt(a[k - 1], Slot(a[k - 1], k, before), k)
    <2>1. PICK a \in [0 .. Len(s) -> Seq(1 .. Len(s))] : InsertTrace(a, s, before)
      BY InsertionSteps
    <2>2. /\ a[0] = <<>> /\ a[Len(s)] = Insertion(s, before)
          /\ \A k \in 1 .. Len(s) : a[k] = InsertAt(a[k - 1], Slot(a[k - 1], k, before), k)
      BY <2>1 DEF InsertTrace
    <2> QED BY <2>1, <2>2, Zenon
  <1> DEFINE M == {k \in 0 .. n : /\ Listed(a[k], k)
                                  /\ WeakOrder(before, n) => Sorted(a[k], k, before)}
  <1>2. 0 \in M
    <2>1. a[0] = <<>> /\ 1 .. 0 = {} /\ <<>> \in Seq(1 .. 0) /\ Len(<<>>) = 0
      BY <1>1
    <2> QED BY <2>1 DEF Listed, Sorted
  <1>3. ASSUME NEW k \in 0 .. n - 1, k \in M PROVE k + 1 \in M
    <2> PICK x : x = a[k]
      OBVIOUS
    <2> PICK t : t = a[k + 1]
      OBVIOUS
    <2>1. k \in Nat /\ k + 1 \in 1 .. n /\ k + 1 \in 0 .. n /\ (k + 1) - 1 = k /\ k + 1 <= n
      OBVIOUS
    <2>2. Listed(x, k) /\ (WeakOrder(before, n) => Sorted(x, k, before))
      BY <1>3
    <2>3. t = InsertAt(x, Slot(x, k + 1, before), k + 1)
      <3>1. a[k + 1] = InsertAt(a[(k + 1) - 1], Slot(a[(k + 1) - 1], k + 1, before), k + 1)
        BY <1>1, <2>1, Zenon
      <3> QED BY <2>1, <3>1, Zenon
    <2>4. x \in Seq(1 .. k + 1) /\ Len(x) = k /\ k + 1 \in 1 .. k + 1
      <3>1. x \in Seq(1 .. k) /\ Len(x) = k
        BY <2>2 DEF Listed
      <3>2. 1 .. k \subseteq 1 .. k + 1
        OBVIOUS
      <3> QED BY <2>1, <3>1, <3>2
    <2>5. Slot(x, k + 1, before) \in 1 .. Len(x) + 1
      BY <2>4, SlotType
    <2>6. Inserted(t, x, Slot(x, k + 1, before), k + 1) /\ t \in Seq(1 .. k + 1)
      <3> PICK i \in 1 .. Len(x) + 1 : i = Slot(x, k + 1, before)
        BY <2>5
      <3>1. x \in Seq(1 .. k + 1) /\ k + 1 \in 1 .. k + 1 /\ t = InsertAt(x, i, k + 1)
        BY <2>3, <2>4
      <3>2. Inserted(InsertAt(x, i, k + 1), x, i, k + 1)
        BY <3>1, InsertAtSteps
      <3>3. InsertAt(x, i, k + 1) \in Seq(1 .. k + 1)
        BY <3>1, InsertAtType
      <3> QED BY <3>1, <3>2, <3>3
    <2>7. Slot(x, k + 1, before) \in 1 .. k + 1
      BY <2>4, <2>5
    <2>8. Listed(t, k + 1)
      BY <2>1, <2>2, <2>6, <2>7, InsertedListed
    <2>9. WeakOrder(before, n) => Sorted(t, k + 1, before)
      BY <2>1, <2>2, <2>6, InsertedSorted
    <2> QED BY <2>1, <2>8, <2>9
  <1>4. n \in M
    <2> HIDE DEF M
    <2> QED BY <1>2, <1>3, NatInd
  <1> QED BY <1>1, <1>4

\* The elements of two sequences in a row.
LEMMA ConcatSet ==
    ASSUME NEW Q, NEW x \in Seq(Q), NEW y \in Seq(Q)
    PROVE  ToSet(x \o y) = ToSet(x) \cup ToSet(y)
  <1> PICK m \in Nat, n \in Nat : m = Len(x) /\ n = Len(y)
    OBVIOUS
  <1> PICK z : z = x \o y
    OBVIOUS
  <1>1. Len(z) = m + n /\ z \in Seq(Q)
    BY ConcatProperties
  <1>2. \A i \in 1 .. m + n : z[i] = IF i <= m THEN x[i] ELSE y[i - m]
    BY ConcatProperties
  <1>3. DOMAIN z = 1 .. m + n /\ DOMAIN x = 1 .. m /\ DOMAIN y = 1 .. n
    BY <1>1
  <1>4. ASSUME NEW e \in ToSet(z) PROVE e \in ToSet(x) \cup ToSet(y)
    <2>1. PICK i \in 1 .. m + n : e = z[i]
      BY <1>3, <1>4 DEF ToSet
    <2>2. CASE i <= m
      <3>1. i \in 1 .. m /\ e = x[i]
        BY <1>2, <2>1, <2>2
      <3> QED BY <1>3, <3>1 DEF ToSet
    <2>3. CASE ~(i <= m)
      <3>1. i - m \in 1 .. n /\ e = y[i - m]
        BY <1>2, <2>1, <2>3
      <3> QED BY <1>3, <3>1 DEF ToSet
    <2> QED BY <2>2, <2>3
  <1>5. ASSUME NEW e \in ToSet(x) PROVE e \in ToSet(z)
    <2>1. PICK i \in 1 .. m : e = x[i]
      BY <1>3, <1>5 DEF ToSet
    <2>2. i \in 1 .. m + n /\ i <= m
      OBVIOUS
    <2>3. i \in 1 .. m + n /\ z[i] = x[i]
      BY <1>2, <2>2
    <2> QED BY <1>3, <2>1, <2>3 DEF ToSet
  <1>6. ASSUME NEW e \in ToSet(y) PROVE e \in ToSet(z)
    <2>1. PICK i \in 1 .. n : e = y[i]
      BY <1>3, <1>6 DEF ToSet
    <2>2. i + m \in 1 .. m + n /\ ~(i + m <= m) /\ (i + m) - m = i
      OBVIOUS
    <2>3. z[i + m] = y[i]
      BY <1>2, <2>2
    <2> QED BY <1>3, <2>1, <2>2, <2>3 DEF ToSet
  <1> QED BY <1>4, <1>5, <1>6

\* AllMembers lists the players of the parties.
LEMMA AllMembersSet ==
    ASSUME NEW Q, NEW s \in Seq(PartyOf(Q))
    PROVE  ToSet(AllMembers(s)) = Players(s)
  <1>1. PICK a \in [0 .. Len(s) -> Seq(Q)] :
              /\ a[0] = <<>> /\ a[Len(s)] = AllMembers(s)
              /\ \A k \in 1 .. Len(s) : a[k] = a[k - 1] \o s[k].members
    BY AllMembersSteps
  <1> PICK n \in Nat : n = Len(s) /\ DOMAIN s = 1 .. n
    OBVIOUS
  <1> DEFINE P == {k \in 0 .. n : \A e : e \in ToSet(a[k]) <=> \E i \in 1 .. k : e \in Members(s[i])}
  <1>2. 0 \in P
    <2>1. ToSet(<<>>) = {} /\ 1 .. 0 = {} /\ 0 \in 0 .. n
      BY DEF ToSet
    <2> QED BY <1>1, <2>1
  <1>3. ASSUME NEW k \in 0 .. n - 1, k \in P PROVE k + 1 \in P
    <2> PICK j \in 1 .. n : j = k + 1
      OBVIOUS
    <2>1. a[j] = a[k] \o s[j].members /\ a[k] \in Seq(Q)
      <3>1. j - 1 = k /\ k \in 0 .. n
        OBVIOUS
      <3> QED BY <1>1, <3>1
    <2>2. s[j].members \in Seq(Q)
      <3>1. s[j] \in PartyOf(Q)
        OBVIOUS
      <3> QED BY <3>1 DEF PartyOf
    <2>3. ToSet(a[j]) = ToSet(a[k]) \cup Members(s[j])
      <3> PICK x \in Seq(Q) : x = a[k]
        BY <2>1
      <3> PICK y \in Seq(Q) : y = s[j].members
        BY <2>2
      <3>1. ToSet(x \o y) = ToSet(x) \cup ToSet(y)
        BY ConcatSet
      <3> QED BY <2>1, <3>1 DEF Members
    <2>4. \A i : i \in 1 .. j <=> i \in 1 .. k \/ i = j
      OBVIOUS
    <2>5. \A e : e \in ToSet(a[k]) <=> \E i \in 1 .. k : e \in Members(s[i])
      BY <1>3
    <2>6. j \in P
      <3>1. \A e : e \in ToSet(a[j]) <=> \E i \in 1 .. j : e \in Members(s[i])
        BY <2>3, <2>4, <2>5
      <3>2. j \in 0 .. n
        OBVIOUS
      <3> QED BY <3>1, <3>2
    <2> QED BY <2>6
  <1>4. n \in P
    <2> HIDE DEF P
    <2> QED BY <1>2, <1>3, NatInd
  <1>5. \A e : e \in ToSet(AllMembers(s)) <=> \E i \in DOMAIN s : e \in Members(s[i])
    BY <1>1, <1>4
  <1> QED BY <1>5 DEF Players

\* Sorting adds and removes nothing.
LEMMA SortSet ==
    ASSUME NEW P, NEW s \in Seq(P), NEW before
    PROVE  ToSet(Arranged(s, Insertion(s, before))) = ToSet(s)
  <1> PICK o : o = Insertion(s, before)
    OBVIOUS
  <1> PICK t : t = Arranged(s, o)
    OBVIOUS
  <1>1. Listed(o, Len(s))
    BY InsertionOrder
  <1>2. /\ o \in Seq(1 .. Len(s)) /\ Len(o) = Len(s)
        /\ \A j \in 1 .. Len(s) : \E i \in 1 .. Len(s) : o[i] = j
    BY <1>1 DEF Listed
  <1>3. DOMAIN o = 1 .. Len(s) /\ DOMAIN s = 1 .. Len(s)
    BY <1>2
  <1>4. DOMAIN t = DOMAIN s /\ \A k \in DOMAIN s : t[k] = s[o[k]] /\ o[k] \in DOMAIN s
    BY <1>2, <1>3 DEF Arranged
  <1>a. ASSUME NEW e \in ToSet(t) PROVE e \in ToSet(s)
    <2>1. PICK k \in DOMAIN s : e = t[k]
      BY <1>4 DEF ToSet
    <2> QED BY <1>4, <2>1 DEF ToSet
  <1>b. ASSUME NEW e \in ToSet(s) PROVE e \in ToSet(t)
    <2>1. PICK j \in DOMAIN s : e = s[j]
      BY DEF ToSet
    <2>2. PICK i \in DOMAIN s : o[i] = j
      BY <1>2, <1>3
    <2>3. e = t[i]
      BY <1>4, <2>1, <2>2
    <2> QED BY <1>4, <2>3 DEF ToSet
  <1>5. ToSet(t) = ToSet(s)
    BY <1>a, <1>b
  <1> QED BY <1>5

\* The healers come first: no player heals more than one before him.
LEMMA HealSorted ==
    ASSUME NEW Q, NEW s \in Seq(Q), NEW i \in 1 .. Len(s), NEW j \in 1 .. Len(s), i < j
    PROVE  HealValue(ByHeal(s)[j], 2) <= HealValue(ByHeal(s)[i], 2)
  <1> DEFINE before == {d \in (DOMAIN s) \X (DOMAIN s) : HealValue(s[d[1]], 2) > HealValue(s[d[2]], 2)}
  <1>1. \A q : HealValue(q, 2) \in Nat
    BY DEF HealValue
  <1>2. PICK n \in Nat : n = Len(s) /\ DOMAIN s = 1 .. n
    OBVIOUS
  <1>a. PICK h \in [1 .. n -> Nat] : \A x \in 1 .. n : h[x] = HealValue(s[x], 2)
    <2> DEFINE h == [x \in 1 .. n |-> HealValue(s[x], 2)]
    <2>1. h \in [1 .. n -> Nat] /\ \A x \in 1 .. n : h[x] = HealValue(s[x], 2)
      BY <1>1
    <2> QED BY <2>1
  <1>3. \A x, y \in 1 .. n : <<x, y>> \in before <=> h[x] > h[y]
    BY <1>2, <1>a
  <1> HIDE DEF before
  <1>4. WeakOrder(before, n)
    <2>1. \A x \in 1 .. n : h[x] \in Nat
      BY <1>a
    <2>2. \A x, y \in 1 .. n : <<x, y>> \in before => <<y, x>> \notin before
      BY <1>3, <2>1
    <2>3. \A x, y, z \in 1 .. n : <<x, z>> \in before => <<x, y>> \in before \/ <<y, z>> \in before
      BY <1>3, <2>1
    <2> QED BY <2>2, <2>3 DEF WeakOrder
  <1> PICK o : o = Insertion(s, before)
    OBVIOUS
  <1>5. Listed(o, n) /\ Sorted(o, n, before)
    BY <1>2, <1>4, InsertionOrder
  <1>6. /\ DOMAIN o = 1 .. n /\ o[i] \in 1 .. n /\ o[j] \in 1 .. n
    <2>1. o \in Seq(1 .. n) /\ Len(o) = n
      BY <1>5 DEF Listed
    <2> QED BY <1>2, <2>1
  <1>7. <<o[j], o[i]>> \notin before
    BY <1>2, <1>5 DEF Sorted
  <1>8. ~(h[o[j]] > h[o[i]])
    BY <1>3, <1>6, <1>7
  <1>9. HealValue(s[o[j]], 2) <= HealValue(s[o[i]], 2)
    BY <1>a, <1>6, <1>8
  <1>10. ByHeal(s) = Arranged(s, o)
    BY DEF ByHeal, before
  <1>11. ByHeal(s)[i] = s[o[i]] /\ ByHeal(s)[j] = s[o[j]]
    <2>1. DOMAIN ByHeal(s) = 1 .. n /\ \A k \in 1 .. n : ByHeal(s)[k] = s[o[k]]
      BY <1>6, <1>10 DEF Arranged
    <2>2. i \in 1 .. n /\ j \in 1 .. n
      BY <1>2
    <2> QED BY <2>1, <2>2
  <1> QED BY <1>9, <1>11

-----------------------------------------------------------------------------
(* Repairing the sides.                                                   *)

\* Gaps are numbers.
LEMMA GapType ==
    ASSUME NEW a, IsFiniteSet(DOMAIN a), NEW c
    PROVE  /\ Gap(a, c) \in Nat
           /\ Count(Side(a, 1), c) \in Nat /\ Count(Side(a, 2), c) \in Nat
  <1>1. IsFiniteSet(Side(a, 1)) /\ IsFiniteSet(Side(a, 2))
    BY FS_Subset DEF Side
  <1>2. Count(Side(a, 1), c) \in Nat /\ Count(Side(a, 2), c) \in Nat
    BY <1>1, CountType
  <1>3. Count(Side(a, 1), c) - Count(Side(a, 2), c) \in Int
    BY <1>2
  <1> QED BY <1>2, <1>3, AbsType DEF Gap

\* The class imbalance is the sum of the gaps of the four classes.
LEMMA ImbalanceSum ==
    ASSUME NEW a, IsFiniteSet(DOMAIN a)
    PROVE  ClassImbalance(a) = Gap(a, Medic) + Gap(a, Robotics) + Gap(a, Assault) + Gap(a, Recon)
  <1> DEFINE Some(s) == CHOOSE x \in s : TRUE
             Body(f) == [s \in SUBSET Classes |->
                            IF s = {} THEN 0 ELSE Gap(a, Some(s)) + f[s \ {Some(s)}]]
             it == CHOOSE f : f = Body(f)
  <1>1. ClassImbalance(a) = it[Classes]
    BY DEF ClassImbalance, MapThenSumSet, MapThenFoldSet, Gap
  <1>2. PICK g \in [Classes -> Nat] : \A c \in Classes : g[c] = Gap(a, c)
    <2> DEFINE g == [c \in Classes |-> Gap(a, c)]
    <2>1. g \in [Classes -> Nat] /\ \A c \in Classes : g[c] = Gap(a, c)
      BY GapType
    <2> QED BY <2>1
  <1>3. PICK m, r, s, t : /\ m = Medic /\ r = Robotics /\ s = Assault /\ t = Recon
                          /\ Classes = {m, r, s, t}
                          /\ m # r /\ m # s /\ m # t /\ r # s /\ r # t /\ s # t
    BY DEF Classes, Medic, Robotics, Assault, Recon
  <1>4. \A u \in SUBSET Classes : u # {} => Some(u) \in u
    OBVIOUS
  <1> HIDE DEF Some
  <1> DEFINE W(u, c) == IF c \in u THEN g[c] ELSE 0
             h == [u \in SUBSET Classes |-> W(u, m) + W(u, r) + W(u, s) + W(u, t)]
  <1>5. h = Body(h)
    <2>1. ASSUME NEW u \in SUBSET Classes, u # {}
          PROVE  h[u] = Gap(a, Some(u)) + h[u \ {Some(u)}]
      <3> PICK x : x = Some(u)
        OBVIOUS
      <3>1. x \in u /\ x \in {m, r, s, t} /\ Gap(a, x) = g[x]
        BY <1>2, <1>3, <1>4, <2>1
      <3>2. PICK v \in SUBSET Classes : v = u \ {x}
        OBVIOUS
      <3>3. h[u] = W(u, m) + W(u, r) + W(u, s) + W(u, t)
        OBVIOUS
      <3>4. h[v] = W(v, m) + W(v, r) + W(v, s) + W(v, t)
        OBVIOUS
      <3>5. \A c \in {m, r, s, t} : c # x => W(v, c) = W(u, c)
        BY <3>2
      <3>6. W(u, x) = g[x] /\ W(v, x) = 0
        BY <3>1, <3>2
      <3>7. \A c \in {m, r, s, t} : W(u, c) \in Nat /\ g[c] \in Nat
        BY <1>2, <1>3
      <3> HIDE DEF W, h
      <3>8. h[u] = g[x] + h[v]
        <4>1. CASE x = m
          BY <1>3, <3>1, <3>3, <3>4, <3>5, <3>6, <3>7, <4>1
        <4>2. CASE x = r
          BY <1>3, <3>1, <3>3, <3>4, <3>5, <3>6, <3>7, <4>2
        <4>3. CASE x = s
          BY <1>3, <3>1, <3>3, <3>4, <3>5, <3>6, <3>7, <4>3
        <4>4. CASE x = t
          BY <1>3, <3>1, <3>3, <3>4, <3>5, <3>6, <3>7, <4>4
        <4> QED BY <3>1, <4>1, <4>2, <4>3, <4>4
      <3> QED BY <3>1, <3>2, <3>8
    <2>2. h[{}] = 0
      OBVIOUS
    <2>3. h = [u \in SUBSET Classes |-> h[u]]
      OBVIOUS
    <2> HIDE DEF h
    <2> QED BY <2>1, <2>2, <2>3
  <1>6. it = Body(it)
    BY <1>5
  <1> HIDE DEF it, h
  <1>7. \A u \in SUBSET Classes : u # {} => \E x \in u : it[u] = g[x] + it[u \ {x}]
    BY <1>2, <1>4, <1>6
  <1>8. it[{}] = 0
    BY <1>6
  <1> HIDE DEF Body
  <1>9. it[Classes] = g[m] + g[r] + g[s] + g[t]
    <2>1. PICK x1 \in Classes : it[Classes] = g[x1] + it[Classes \ {x1}]
      BY <1>3, <1>7
    <2> PICK u1 : u1 = Classes \ {x1}
      OBVIOUS
    <2>a. u1 \in SUBSET Classes /\ u1 # {}
      <3>1. m \in u1 \/ r \in u1
        BY <1>3
      <3> QED BY <3>1
    <2>2. PICK x2 \in u1 : it[u1] = g[x2] + it[u1 \ {x2}]
      BY <1>7, <2>a
    <2> PICK u2 : u2 = u1 \ {x2}
      OBVIOUS
    <2>b. u2 \in SUBSET Classes /\ u2 # {}
      <3>1. m \in u2 \/ r \in u2 \/ s \in u2
        BY <1>3
      <3> QED BY <2>a, <3>1
    <2>3. PICK x3 \in u2 : it[u2] = g[x3] + it[u2 \ {x3}]
      BY <1>7, <2>b
    <2> PICK u3 : u3 = u2 \ {x3}
      OBVIOUS
    <2>c. u3 \in SUBSET Classes /\ u3 # {}
      <3>1. m \in u3 \/ r \in u3 \/ s \in u3 \/ t \in u3
        BY <1>3
      <3> QED BY <2>b, <3>1
    <2>4. PICK x4 \in u3 : it[u3] = g[x4] + it[u3 \ {x4}]
      BY <1>7, <2>c
    <2>5. u3 \ {x4} = {}
      BY <1>3
    <2>6. it[Classes] = g[x1] + (g[x2] + (g[x3] + (g[x4] + 0)))
      BY <1>8, <2>1, <2>2, <2>3, <2>4, <2>5
    <2>7. g[m] \in Nat /\ g[r] \in Nat /\ g[s] \in Nat /\ g[t] \in Nat
      BY <1>2, <1>3
    <2>8. /\ x1 \in {m, r, s, t} /\ x2 \in {m, r, s, t} /\ x3 \in {m, r, s, t} /\ x4 \in {m, r, s, t}
          /\ x1 # x2 /\ x1 # x3 /\ x1 # x4 /\ x2 # x3 /\ x2 # x4 /\ x3 # x4
      BY <1>3
    <2>9. g[x1] + (g[x2] + (g[x3] + (g[x4] + 0))) = g[m] + g[r] + g[s] + g[t]
      BY <2>7, <2>8
    <2> QED BY <2>6, <2>9
  <1> QED BY <1>1, <1>2, <1>3, <1>9

\* The sides m are those of a, with the players of b that are not in a.
Joined(m, a, b) ==
    /\ DOMAIN m = DOMAIN a \cup DOMAIN b
    /\ \A q \in DOMAIN m : m[q] = IF q \in DOMAIN a THEN a[q] ELSE b[q]

\* Each side has its players and the new ones.
LEMMA JoinedCount ==
    ASSUME NEW m, NEW a, NEW b, Joined(m, a, b), NEW c, NEW t,
           IsFiniteSet(DOMAIN a), IsFiniteSet(DOMAIN b)
    PROVE  /\ Count(Side(m, t), c) = Count(Side(a, t), c) + Count(Side(b, t) \ DOMAIN a, c)
           /\ Count(Side(b, t) \ DOMAIN a, c) \in Nat
  <1> DEFINE A == {q \in Side(a, t) : q.class = c}
             B == {q \in Side(b, t) \ DOMAIN a : q.class = c}
  <1>1. Side(m, t) = Side(a, t) \cup (Side(b, t) \ DOMAIN a)
    BY DEF Joined, Side
  <1>2. {q \in Side(m, t) : q.class = c} = A \cup B /\ A \cap B = {}
    BY <1>1 DEF Side
  <1>3. IsFiniteSet(A) /\ IsFiniteSet(B)
    <2>1. A \subseteq DOMAIN a /\ B \subseteq DOMAIN b
      BY DEF Side
    <2> HIDE DEF A, B
    <2> QED BY <2>1, FS_Subset
  <1>4. Count(Side(m, t), c) = Cardinality(A \cup B)
    BY <1>2 DEF Count
  <1>5. Count(Side(a, t), c) = Cardinality(A) /\ Count(Side(b, t) \ DOMAIN a, c) = Cardinality(B)
    BY DEF Count
  <1>6. Cardinality(A \cup B) = Cardinality(A) + Cardinality(B) /\ Cardinality(B) \in Nat
    <2>1. A \cap B = {}
      BY <1>2
    <2> HIDE DEF A, B
    <2>2. Cardinality(A \cup B) = Cardinality(A) + Cardinality(B) - Cardinality(A \cap B)
      BY <1>3, FS_Union
    <2>3. Cardinality(A \cap B) = 0
      BY <2>1, FS_EmptySet
    <2>4. Cardinality(A) \in Nat /\ Cardinality(B) \in Nat
      BY <1>3, FS_CardinalityType
    <2> QED BY <2>2, <2>3, <2>4
  <1> QED BY <1>4, <1>5, <1>6

\* The side that has fewer of class c.
Short(a, c) == IF Count(Side(a, 1), c) < Count(Side(a, 2), c) THEN 1 ELSE 2

\* b puts players on the side that has fewer of their class, as many as it lacks.
Fills(b, a) ==
    /\ \A q \in DOMAIN b : q.class \in Classes /\ b[q] = Short(a, q.class)
    /\ \A c \in Classes : Count(DOMAIN b, c) <= Gap(a, c)

\* b puts one player of a class on each side, where the sides are equal.
Pairs(b, a) ==
    /\ ClassImbalance(a) = 0
    /\ \E p, q : /\ p # q /\ p.class = q.class /\ p \notin DOMAIN a /\ q \notin DOMAIN a
                 /\ DOMAIN b = {p, q} /\ b[p] = 1 /\ b[q] = 2

\* Who fills a side narrows the gap of his class and no other.
LEMMA FillsGap ==
    ASSUME NEW m, NEW a, NEW b, Joined(m, a, b), Fills(b, a), NEW c \in Classes,
           IsFiniteSet(DOMAIN a), IsFiniteSet(DOMAIN b)
    PROVE  /\ Gap(m, c) <= Gap(a, c)
           /\ (\E q \in DOMAIN b \ DOMAIN a : q.class = c) => Gap(m, c) < Gap(a, c)
  <1> PICK t : t = Short(a, c)
    OBVIOUS
  <1>1. t \in {1, 2}
    BY DEF Short
  <1> PICK o : o \in {1, 2} /\ o # t
    BY <1>1
  <1>2. PICK u, v, w \in Nat : u = Count(Side(a, 1), c) /\ v = Count(Side(a, 2), c) /\ w = Gap(a, c)
    BY GapType
  <1>3. Count(Side(b, o) \ DOMAIN a, c) = 0
    <2>1. {q \in Side(b, o) \ DOMAIN a : q.class = c} = {}
      BY DEF Fills, Side
    <2> QED BY <2>1, FS_EmptySet DEF Count
  <1>4. PICK n \in Nat : n = Count(Side(b, t) \ DOMAIN a, c)
    BY JoinedCount
  <1>5. n <= w
    <2>1. /\ {q \in Side(b, t) \ DOMAIN a : q.class = c} \subseteq {q \in DOMAIN b : q.class = c}
          /\ IsFiniteSet({q \in DOMAIN b : q.class = c})
      BY FS_Subset DEF Side
    <2>2. n <= Count(DOMAIN b, c) /\ Count(DOMAIN b, c) \in Nat
      <3>1. Cardinality({q \in Side(b, t) \ DOMAIN a : q.class = c})
               <= Cardinality({q \in DOMAIN b : q.class = c})
        BY <2>1, FS_Subset
      <3> QED BY <1>4, <3>1, CountType DEF Count
    <2>3. Count(DOMAIN b, c) <= w
      BY <1>2 DEF Fills
    <2> QED BY <2>2, <2>3
  <1>6. (\E q \in DOMAIN b \ DOMAIN a : q.class = c) => n > 0
    <2> SUFFICES ASSUME NEW q \in DOMAIN b \ DOMAIN a, q.class = c PROVE n # 0
      OBVIOUS
    <2>1. q \in {p \in Side(b, t) \ DOMAIN a : p.class = c}
      BY DEF Fills, Side
    <2>2. IsFiniteSet({p \in Side(b, t) \ DOMAIN a : p.class = c})
      <3>1. {p \in Side(b, t) \ DOMAIN a : p.class = c} \subseteq DOMAIN b
        BY DEF Side
      <3> QED BY <3>1, FS_Subset
    <2> QED BY <1>4, <2>1, <2>2, FS_EmptySet DEF Count
  <1>7. /\ Count(Side(m, t), c) = Count(Side(a, t), c) + n
        /\ Count(Side(m, o), c) = Count(Side(a, o), c) + 0
    BY <1>3, <1>4, JoinedCount
  <1>8. w = (IF u - v < 0 THEN -(u - v) ELSE u - v)
    BY <1>2 DEF Gap, Abs
  <1>9. CASE u < v
    <2>1. t = 1 /\ o = 2
      BY <1>1, <1>2, <1>9 DEF Short
    <2>2. Count(Side(m, 1), c) = u + n /\ Count(Side(m, 2), c) = v
      BY <1>2, <1>7, <2>1
    <2>3. Gap(m, c) = w - n
      BY <1>5, <1>8, <1>9, <2>2 DEF Gap, Abs
    <2> QED BY <1>2, <1>5, <1>6, <2>3
  <1>10. CASE ~(u < v)
    <2>1. t = 2 /\ o = 1
      BY <1>1, <1>2, <1>10 DEF Short
    <2>2. Count(Side(m, 1), c) = u /\ Count(Side(m, 2), c) = v + n
      BY <1>2, <1>7, <2>1
    <2>3. Gap(m, c) = w - n
      BY <1>5, <1>8, <1>10, <2>2 DEF Gap, Abs
    <2> QED BY <1>2, <1>5, <1>6, <2>3
  <1> QED BY <1>9, <1>10

\* Sides that are filled have less class imbalance.
LEMMA FillsMend ==
    ASSUME NEW m, NEW a, NEW b, Joined(m, a, b), Fills(b, a),
           IsFiniteSet(DOMAIN a), IsFiniteSet(DOMAIN b), DOMAIN b \ DOMAIN a # {}
    PROVE  ClassImbalance(m) < ClassImbalance(a)
  <1>1. IsFiniteSet(DOMAIN m)
    BY FS_Union DEF Joined
  <1>2. PICK f \in [Classes -> Nat] : \A c \in Classes : f[c] = Gap(m, c)
    <2> DEFINE f == [c \in Classes |-> Gap(m, c)]
    <2>1. f \in [Classes -> Nat] /\ \A c \in Classes : f[c] = Gap(m, c)
      BY <1>1, GapType
    <2> QED BY <2>1
  <1>3. PICK g \in [Classes -> Nat] : \A c \in Classes : g[c] = Gap(a, c)
    <2> DEFINE g == [c \in Classes |-> Gap(a, c)]
    <2>1. g \in [Classes -> Nat] /\ \A c \in Classes : g[c] = Gap(a, c)
      BY GapType
    <2> QED BY <2>1
  <1>4. Classes = {Medic, Robotics, Assault, Recon}
    BY DEF Classes
  <1>5. \A c \in Classes : f[c] <= g[c]
    BY <1>2, <1>3, FillsGap
  <1>6. PICK c \in Classes : f[c] < g[c]
    <2>1. PICK q : q \in DOMAIN b \ DOMAIN a
      OBVIOUS
    <2>2. q.class \in Classes
      BY <2>1 DEF Fills
    <2> QED BY <1>2, <1>3, <2>1, <2>2, FillsGap
  <1>7. /\ ClassImbalance(m) = f[Medic] + f[Robotics] + f[Assault] + f[Recon]
        /\ ClassImbalance(a) = g[Medic] + g[Robotics] + g[Assault] + g[Recon]
    BY <1>1, <1>2, <1>3, <1>4, ImbalanceSum
  <1>8. \A d \in {Medic, Robotics, Assault, Recon} : f[d] \in Nat /\ g[d] \in Nat /\ f[d] <= g[d]
    BY <1>2, <1>3, <1>4, <1>5
  <1> QED BY <1>4, <1>6, <1>7, <1>8

\* A pair leaves equal sides equal.
LEMMA PairsMend ==
    ASSUME NEW m, NEW a, NEW b, Joined(m, a, b), Pairs(b, a),
           IsFiniteSet(DOMAIN a), IsFiniteSet(DOMAIN b)
    PROVE  ClassImbalance(m) = 0
  <1>1. IsFiniteSet(DOMAIN m)
    BY FS_Union DEF Joined
  <1>2. PICK p, q : /\ p # q /\ p.class = q.class /\ p \notin DOMAIN a /\ q \notin DOMAIN a
                    /\ DOMAIN b = {p, q} /\ b[p] = 1 /\ b[q] = 2
    BY DEF Pairs
  <1>3. ASSUME NEW c PROVE Gap(m, c) = Gap(a, c)
    <2>1. Side(b, 1) \ DOMAIN a = {p} /\ Side(b, 2) \ DOMAIN a = {q}
      BY <1>2 DEF Side
    <2>2. Count({p}, c) = Count({q}, c)
      <3>1. CASE p.class = c
        <4>1. {x \in {p} : x.class = c} = {p} /\ {x \in {q} : x.class = c} = {q}
          BY <1>2, <3>1
        <4> QED BY <4>1, FS_Singleton DEF Count
      <3>2. CASE p.class # c
        <4>1. {x \in {p} : x.class = c} = {} /\ {x \in {q} : x.class = c} = {}
          BY <1>2, <3>2
        <4> QED BY <4>1 DEF Count
      <3> QED BY <3>1, <3>2
    <2>3. PICK n \in Nat : n = Count({p}, c) /\ n = Count({q}, c)
      BY <2>1, <2>2, JoinedCount
    <2>4. PICK u, v \in Nat : u = Count(Side(a, 1), c) /\ v = Count(Side(a, 2), c)
      BY GapType
    <2>5. Count(Side(m, 1), c) = u + n /\ Count(Side(m, 2), c) = v + n
      <3>1. /\ Count(Side(m, 1), c) = Count(Side(a, 1), c) + Count(Side(b, 1) \ DOMAIN a, c)
            /\ Count(Side(m, 2), c) = Count(Side(a, 2), c) + Count(Side(b, 2) \ DOMAIN a, c)
        BY JoinedCount
      <3>2. Count(Side(b, 1) \ DOMAIN a, c) = n /\ Count(Side(b, 2) \ DOMAIN a, c) = n
        BY <2>1, <2>3
      <3> QED BY <2>4, <3>1, <3>2
    <2>6. (u + n) - (v + n) = u - v
      BY <2>3, <2>4
    <2> QED BY <2>4, <2>5, <2>6 DEF Gap
  <1>4. ClassImbalance(m) = ClassImbalance(a)
    BY <1>1, <1>3, ImbalanceSum
  <1> QED BY <1>4 DEF Pairs

\* Plan x puts players of the classes D where a has too few of their class, and no more.
Grown(x, D, a) ==
    /\ DOMAIN x.tf = Players(x.taken)
    /\ \A q \in DOMAIN x.tf : q.class \in D /\ x.tf[q] = Short(a, q.class)
    /\ \A c \in D : Count(DOMAIN x.tf, c) <= Gap(a, c)

\* Solos of class c are as many players of class c.
LEMMA SoloPlayers ==
    ASSUME NEW Q, NEW P \in SUBSET PartyOf(Q), NEW c, NEW new \in Seq(SolosIn(P, c))
    PROVE  /\ IsFiniteSet(Players(new)) /\ Cardinality(Players(new)) <= Len(new)
           /\ \A q \in Players(new) : q.class = c
  <1>1. new \in Seq(PartyOf(Q)) /\ DOMAIN new = 1 .. Len(new)
    <2>1. SolosIn(P, c) \subseteq PartyOf(Q)
      BY DEF SolosIn, SolosOf
    <2> QED BY <2>1
  <1>2. \A k \in DOMAIN new : new[k] \in SolosIn(P, c)
    OBVIOUS
  <1>3. \A k \in DOMAIN new : Size(new[k]) = 1
    BY <1>2 DEF SolosIn, SolosOf
  <1>4. IsFiniteSet(Players(new)) /\ Cardinality(Players(new)) <= Len(new)
    <2>1. Heads(new) = Len(new)
      BY <1>1, <1>3, SoloHeads
    <2> QED BY <1>1, <2>1, PlayersBound
  <1>5. ASSUME NEW k \in DOMAIN new, NEW q \in Members(new[k]) PROVE q.class = c
    <2>1. Len(new[k].members) = 1
      BY <1>3 DEF Size
    <2>2. new[k].members \in Seq(Q)
      <3>1. new[k] \in PartyOf(Q)
        BY <1>1
      <3> QED BY <3>1 DEF PartyOf
    <2>3. DOMAIN new[k].members = 1 .. 1
      BY <2>1, <2>2
    <2>4. Members(new[k]) = {new[k].members[1]}
      BY <2>3 DEF Members, ToSet
    <2>5. Count(Members(new[k]), c) = 1
      BY <1>2 DEF SolosIn
    <2>6. {p \in Members(new[k]) : p.class = c} # {}
      BY <2>5, FS_EmptySet DEF Count
    <2> QED BY <2>4, <2>6
  <1>6. \A q \in Players(new) : q.class = c
    BY <1>5 DEF Players
  <1> QED BY <1>4, <1>6

\* The players of two sequences of parties.
LEMMA PlayersConcat ==
    ASSUME NEW P, NEW s \in Seq(P), NEW t \in Seq(P)
    PROVE  Players(s \o t) = Players(s) \cup Players(t)
  <1>1. PICK m \in Nat : m = Len(s) /\ DOMAIN s = 1 .. m
    OBVIOUS
  <1>2. PICK n \in Nat : n = Len(t) /\ DOMAIN t = 1 .. n
    OBVIOUS
  <1>3. PICK u : u = s \o t
    OBVIOUS
  <1>4. DOMAIN u = 1 .. m + n /\ \A k \in 1 .. m + n : u[k] = IF k <= m THEN s[k] ELSE t[k - m]
    BY <1>1, <1>2, <1>3
  <1>5. ASSUME NEW k \in DOMAIN u PROVE (\E i \in DOMAIN s : u[k] = s[i]) \/ (\E i \in DOMAIN t : u[k] = t[i])
    <2>1. CASE k <= m
      <3>1. k \in DOMAIN s /\ u[k] = s[k]
        BY <1>1, <1>4, <2>1
      <3> QED BY <3>1
    <2>2. CASE k > m
      <3>1. k - m \in DOMAIN t /\ u[k] = t[k - m]
        BY <1>2, <1>4, <2>2
      <3> QED BY <3>1
    <2>3. k <= m \/ k > m
      BY <1>4
    <2> QED BY <2>1, <2>2, <2>3
  <1>6. ASSUME NEW i \in DOMAIN s PROVE \E k \in DOMAIN u : u[k] = s[i]
    <2>1. i \in DOMAIN u /\ u[i] = s[i]
      BY <1>1, <1>4
    <2> QED BY <2>1
  <1>7. ASSUME NEW i \in DOMAIN t PROVE \E k \in DOMAIN u : u[k] = t[i]
    <2>1. m + i \in DOMAIN u /\ ~(m + i <= m) /\ (m + i) - m = i
      BY <1>2, <1>4
    <2>2. u[m + i] = t[(m + i) - m]
      BY <1>4, <2>1
    <2> QED BY <2>1, <2>2
  <1>8. Players(u) = Players(s) \cup Players(t)
    BY <1>5, <1>6, <1>7 DEF Players
  <1> QED BY <1>3, <1>8

\* Solos of another class leave the classes that are done as they are.
LEMMA GrownStep ==
    ASSUME NEW Q, IsFiniteSet(Q), NEW P \in SUBSET PartyOf(Q), NEW inst, inst.tf \in SideMaps(Q),
           NEW c, NEW D, c \notin D,
           NEW x \in PlanOf(P, Q, inst.free), Grown(x, D, inst.tf),
           NEW y, GrowsBy(x, y, c, P, inst)
    PROVE  Grown(y, D \cup {c}, inst.tf)
  <1> PICK a \in SideMaps(Q) : a = inst.tf
    OBVIOUS
  <1>1. PICK new \in Seq(SolosIn(P, c)) :
           /\ Len(new) <= Gap(a, c)
           /\ y = WithSolos(x, new, DeficitSide(c, inst))
    BY DEF GrowsBy
  <1> PICK N : N = Players(new)
    OBVIOUS
  <1>2. IsFiniteSet(N) /\ Cardinality(N) <= Len(new) /\ \A q \in N : q.class = c
    BY SoloPlayers
  <1>3. x.taken \in Seq(SolosOf(P)) /\ x.tf \in SideMaps(Q)
    BY DEF PlanOf
  <1>4. y.taken = x.taken \o new /\ y.tf = Put(x.tf, N, Short(a, c))
    BY <1>1 DEF WithSolos, DeficitSide, Short
  <1>5. DOMAIN y.tf = DOMAIN x.tf \cup N
    BY <1>4 DEF Put
  <1>6. Players(y.taken) = Players(x.taken) \cup N
    <2>1. SolosIn(P, c) \subseteq SolosOf(P)
      BY DEF SolosIn
    <2>2. new \in Seq(SolosOf(P))
      BY <2>1
    <2> QED BY <1>3, <1>4, <2>2, PlayersConcat
  <1>7. DOMAIN x.tf = Players(x.taken) /\ \A q \in DOMAIN x.tf : q.class \in D /\ x.tf[q] = Short(a, q.class)
    BY DEF Grown
  <1>8. ASSUME NEW q \in DOMAIN y.tf PROVE q.class \in D \cup {c} /\ y.tf[q] = Short(a, q.class)
    <2>1. CASE q \in N
      <3>1. y.tf[q] = Short(a, c) /\ q.class = c
        BY <1>2, <1>4, <1>5, <2>1 DEF Put
      <3> QED BY <3>1
    <2>2. CASE q \notin N
      <3>1. q \in DOMAIN x.tf /\ y.tf[q] = x.tf[q]
        BY <1>4, <1>5, <2>2 DEF Put
      <3> QED BY <1>7, <3>1
    <2> QED BY <2>1, <2>2
  <1>9. ASSUME NEW d \in D \cup {c} PROVE Count(DOMAIN y.tf, d) <= Gap(a, d)
    <2>1. CASE d = c
      <3>1. {q \in DOMAIN y.tf : q.class = c} = N
        BY <1>2, <1>5, <1>7
      <3>2. Count(DOMAIN y.tf, c) = Cardinality(N) /\ Cardinality(N) \in Nat /\ Len(new) \in Nat
        <4>1. Cardinality(N) \in Nat
          BY <1>2, FS_CardinalityType
        <4>2. Len(new) \in Nat
          OBVIOUS
        <4>3. Count(DOMAIN y.tf, c) = Cardinality(N)
          BY <3>1 DEF Count
        <4> QED BY <4>1, <4>2, <4>3
      <3>3. Gap(a, c) \in Nat
        <4>1. DOMAIN a \in SUBSET Q
          BY SideMapType
        <4>2. IsFiniteSet(DOMAIN a)
          BY <4>1, FS_Subset
        <4> QED BY <4>2, GapType
      <3> QED BY <1>1, <1>2, <2>1, <3>2, <3>3
    <2>2. CASE d # c
      <3>1. {q \in DOMAIN y.tf : q.class = d} = {q \in DOMAIN x.tf : q.class = d}
        BY <1>2, <1>5, <2>2
      <3>2. Count(DOMAIN x.tf, d) <= Gap(a, d)
        BY <2>2 DEF Grown
      <3> QED BY <3>1, <3>2 DEF Count
    <2> QED BY <2>1, <2>2
  <1>10. Grown(y, D \cup {c}, a)
    BY <1>5, <1>6, <1>7, <1>8, <1>9 DEF Grown
  <1> QED BY <1>10

\* A deficit plan fills the sides: it never puts more of a class on a side than it lacks.
LEMMA DeficitFills ==
    ASSUME NEW Q, IsFiniteSet(Q), NEW P \in SUBSET PartyOf(Q), NEW ps \in Seq(P), NEW fair,
           NEW inst, inst.tf \in SideMaps(Q), inst.free \in Int,
           NEW y, y = PlanDeficitBackfill(ps, inst, fair)
    PROVE  DOMAIN y.tf = Players(y.taken) /\ Fills(y.tf, inst.tf)
  <1>1. PICK a \in [0 .. 4 -> PlanOf(P, Q, inst.free)] : DeficitTrace(a, ps, P, inst, fair)
    BY DeficitSteps
  <1> PICK X : X = PlanOf(P, Q, inst.free)
    OBVIOUS
  <1>2. a[0] \in X /\ a[1] \in X /\ a[2] \in X /\ a[3] \in X
    OBVIOUS
  <1>3. /\ a[0] = [taken |-> <<>>, tf |-> Nobody] /\ a[4] = y
        /\ GrowsBy(a[0], a[1], Medic, P, inst) /\ GrowsBy(a[1], a[2], Robotics, P, inst)
        /\ GrowsBy(a[2], a[3], Assault, P, inst) /\ GrowsBy(a[3], a[4], Recon, P, inst)
    BY <1>1 DEF DeficitTrace
  <1>4. Grown(a[0], {}, inst.tf)
    <2>1. DOMAIN Nobody = {} /\ Players(<<>>) = {}
      BY DEF Nobody, Players
    <2> QED BY <1>3, <2>1 DEF Grown
  <1>5. /\ Robotics \notin {Medic} /\ Assault \notin {Medic, Robotics}
        /\ Recon \notin {Medic, Robotics, Assault}
    BY DEF Medic, Robotics, Assault, Recon
  <1>6. Grown(a[1], {Medic}, inst.tf)
    <2>1. Grown(a[1], {} \cup {Medic}, inst.tf)
      BY <1>2, <1>3, <1>4, GrownStep
    <2> QED BY <2>1
  <1>7. Grown(a[2], {Medic, Robotics}, inst.tf)
    <2>1. Grown(a[2], {Medic} \cup {Robotics}, inst.tf)
      BY <1>2, <1>3, <1>5, <1>6, GrownStep
    <2>2. {Medic} \cup {Robotics} = {Medic, Robotics}
      OBVIOUS
    <2> QED BY <2>1, <2>2
  <1>8. Grown(a[3], {Medic, Robotics, Assault}, inst.tf)
    <2>1. Grown(a[3], {Medic, Robotics} \cup {Assault}, inst.tf)
      BY <1>2, <1>3, <1>5, <1>7, GrownStep
    <2>2. {Medic, Robotics} \cup {Assault} = {Medic, Robotics, Assault}
      OBVIOUS
    <2> QED BY <2>1, <2>2
  <1>9. Grown(a[4], Classes, inst.tf)
    <2>1. Grown(a[4], {Medic, Robotics, Assault} \cup {Recon}, inst.tf)
      BY <1>2, <1>3, <1>5, <1>8, GrownStep
    <2>2. {Medic, Robotics, Assault} \cup {Recon} = Classes
      BY DEF Classes
    <2> QED BY <2>1, <2>2
  <1> QED BY <1>3, <1>9 DEF Grown, Fills

\* t has parties of s, each position of s at most once.
Drawn(t, s) ==
    \E f \in [DOMAIN t -> DOMAIN s] :
        /\ \A k \in DOMAIN t : t[k] = s[f[k]]
        /\ \A j, k \in DOMAIN t : f[j] = f[k] => j = k

\* No player is in two parties, or in a party and in an instance.
Strangers(ps, insts) ==
    /\ \A j, k \in DOMAIN ps : j # k => Members(ps[j]) \cap Members(ps[k]) = {}
    /\ \A j \in DOMAIN ps, k \in DOMAIN insts : Members(ps[j]) \cap DOMAIN insts[k].tf = {}

\* Some of several strangers are strangers.
LEMMA DrawnStrangers ==
    ASSUME NEW s, NEW t, Drawn(t, s), NEW insts, Strangers(s, insts)
    PROVE  Strangers(t, insts)
  <1>1. PICK f \in [DOMAIN t -> DOMAIN s] :
           /\ \A k \in DOMAIN t : t[k] = s[f[k]]
           /\ \A j, k \in DOMAIN t : f[j] = f[k] => j = k
    BY DEF Drawn
  <1>2. ASSUME NEW j \in DOMAIN t, NEW k \in DOMAIN t, j # k
        PROVE  Members(t[j]) \cap Members(t[k]) = {}
    <2>1. f[j] \in DOMAIN s /\ f[k] \in DOMAIN s /\ f[j] # f[k] /\ t[j] = s[f[j]] /\ t[k] = s[f[k]]
      BY <1>1, <1>2
    <2>2. Members(s[f[j]]) \cap Members(s[f[k]]) = {}
      BY <2>1 DEF Strangers
    <2> QED BY <2>1, <2>2
  <1>3. ASSUME NEW j \in DOMAIN t, NEW k \in DOMAIN insts
        PROVE  Members(t[j]) \cap DOMAIN insts[k].tf = {}
    <2>1. f[j] \in DOMAIN s /\ t[j] = s[f[j]]
      BY <1>1
    <2>2. Members(s[f[j]]) \cap DOMAIN insts[k].tf = {}
      BY <2>1 DEF Strangers
    <2> QED BY <2>1, <2>2
  <1> QED BY <1>2, <1>3 DEF Strangers

\* Keep draws parties,
LEMMA KeepDrawn ==
    ASSUME NEW P, NEW s \in Seq(P), NEW S
    PROVE  Drawn(Keep(s, S), s)
  <1>1. PICK f : Picks(f, Keep(s, S), s, Len(s), S)
    BY KeepPicks
  <1>2. DOMAIN s = 1 .. Len(s)
    OBVIOUS
  <1> QED BY <1>1, <1>2 DEF Picks, Drawn

\* and so does sorting,
LEMMA SortDrawn ==
    ASSUME NEW P, NEW s \in Seq(P), NEW before
    PROVE  Drawn(Arranged(s, Insertion(s, before)), s)
  <1> PICK o : o = Insertion(s, before)
    OBVIOUS
  <1> PICK t : t = Arranged(s, o)
    OBVIOUS
  <1>1. Listed(o, Len(s))
    BY InsertionOrder
  <1>2. o \in Seq(1 .. Len(s)) /\ Len(o) = Len(s) /\ \A i, j \in 1 .. Len(s) : o[i] = o[j] => i = j
    BY <1>1 DEF Listed
  <1>3. DOMAIN o = 1 .. Len(s) /\ DOMAIN s = 1 .. Len(s)
    BY <1>2
  <1>4. DOMAIN t = DOMAIN s /\ \A k \in DOMAIN s : t[k] = s[o[k]]
    BY <1>3 DEF Arranged
  <1>5. o \in [DOMAIN t -> DOMAIN s]
    BY <1>2, <1>3, <1>4
  <1>6. Drawn(t, s)
    BY <1>2, <1>3, <1>4, <1>5 DEF Drawn
  <1> QED BY <1>6

\* by priority too.
LEMMA PriorityDrawn ==
    ASSUME NEW P, NEW ps \in Seq(P), NEW fair
    PROVE  Drawn(PartiesByPriority(ps, fair), ps)
  BY SortDrawn DEF PartiesByPriority, StableSort

\* The member of a party of one.
LEMMA SoloMember ==
    ASSUME NEW Q, NEW p \in PartyOf(Q), Size(p) = 1
    PROVE  Members(p) = {p.members[1]}
  <1>1. p.members \in Seq(Q) /\ Len(p.members) = 1
    BY DEF PartyOf, Size
  <1>2. DOMAIN p.members = 1 .. 1
    BY <1>1
  <1> QED BY <1>2 DEF Members, ToSet

\* PlanPairJoin finds two players of one class for equal sides.
LEMMA PairJoinPairs ==
    ASSUME NEW Q, NEW P \in SUBSET PartyOf(Q), NEW ps \in Seq(P), NEW fair,
           NEW insts, Strangers(ps, insts), NEW i \in DOMAIN insts,
           NEW y, y = PlanPairJoin(ps, insts[i], fair), y.taken # <<>>
    PROVE  DOMAIN y.tf = Players(y.taken) /\ Pairs(y.tf, insts[i].tf)
  <1> DEFINE S == {p \in ToSet(ps) : Size(p) = 1}
  <1>1. PICK b \in Seq(P) : b = PartiesByPriority(ps, fair)
    BY ByPriorityType
  <1>2. PICK solos \in Seq(P) : /\ solos = Keep(b, S)
                                /\ \A k \in DOMAIN solos : solos[k] \in S
    <2> HIDE DEF S
    <2> QED BY KeepPart
  <1>3. Strangers(solos, insts)
    <2>1. Strangers(b, insts)
      BY <1>1, PriorityDrawn, DrawnStrangers
    <2> HIDE DEF S
    <2> QED BY <1>2, <2>1, KeepDrawn, DrawnStrangers
  <1> PICK inst : inst = insts[i]
    OBVIOUS
  <1> DEFINE class(k) == solos[k].members[1].class
             pairs == {d \in (DOMAIN solos) \X (DOMAIN solos) :
                          d[1] < d[2] /\ class(d[1]) = class(d[2])}
             first == CHOOSE d \in pairs : \A e \in pairs :
                          d[1] < e[1] \/ (d[1] = e[1] /\ d[2] <= e[2])
             two   == [taken |-> <<solos[first[1]], solos[first[2]]>>,
                       tf    |-> Put(Put(Nobody, Members(solos[first[1]]), 1),
                                     Members(solos[first[2]]), 2)]
  <1>4. y = two /\ pairs # {} /\ ClassImbalance(inst.tf) = 0
    <2>1. y = PairUp(solos, inst)
      BY <1>1, <1>2 DEF PlanPairJoin
    <2> HIDE DEF S
    <2>2. PairUp(solos, inst) =
             IF ClassImbalance(inst.tf) = 0 /\ (inst.free < 0 \/ inst.free >= 2) /\ pairs # {}
             THEN two ELSE [taken |-> <<>>, tf |-> Nobody]
      BY DEF PairUp
    <2>3. y # [taken |-> <<>>, tf |-> Nobody]
      OBVIOUS
    <2> HIDE DEF two, pairs
    <2> QED BY <2>1, <2>2, <2>3
  <1>5. first \in pairs
    <2>1. PICK n \in Nat : DOMAIN solos = 1 .. n
      OBVIOUS
    <2>2. pairs \in SUBSET ((1 .. n) \X (1 .. n))
      BY <2>1
    <2>3. pairs # {}
      BY <1>4
    <2> HIDE DEF pairs
    <2>4. \E d \in pairs : \A e \in pairs : d[1] < e[1] \/ (d[1] = e[1] /\ d[2] <= e[2])
      BY <2>2, <2>3, LeastPair
    <2> QED BY <2>4
  <1> HIDE DEF first
  <1>6. PICK j \in DOMAIN solos, k \in DOMAIN solos :
           j = first[1] /\ k = first[2] /\ j < k /\ class(j) = class(k)
    BY <1>5
  <1> PICK p : p = solos[j].members[1]
    OBVIOUS
  <1> PICK q : q = solos[k].members[1]
    OBVIOUS
  <1>7. Members(solos[j]) = {p} /\ Members(solos[k]) = {q}
    <2>1. /\ solos[j] \in PartyOf(Q) /\ Size(solos[j]) = 1
          /\ solos[k] \in PartyOf(Q) /\ Size(solos[k]) = 1
      BY <1>2
    <2> QED BY <2>1, SoloMember
  <1>8. p # q /\ p \notin DOMAIN inst.tf /\ q \notin DOMAIN inst.tf /\ p.class = q.class
    <2>1. j # k
      BY <1>6
    <2>2. /\ Members(solos[j]) \cap Members(solos[k]) = {}
          /\ Members(solos[j]) \cap DOMAIN inst.tf = {}
          /\ Members(solos[k]) \cap DOMAIN inst.tf = {}
      BY <1>3, <2>1 DEF Strangers
    <2> QED BY <1>6, <1>7, <2>2
  <1>9. y.taken = <<solos[j], solos[k]>> /\ y.tf = Put(Put(Nobody, {p}, 1), {q}, 2)
    <2>1. two = [taken |-> <<solos[j], solos[k]>>,
                 tf    |-> Put(Put(Nobody, Members(solos[j]), 1), Members(solos[k]), 2)]
      BY <1>6
    <2> HIDE DEF two
    <2>2. y = [taken |-> <<solos[j], solos[k]>>, tf |-> Put(Put(Nobody, {p}, 1), {q}, 2)]
      BY <1>4, <1>7, <2>1, Zenon
    <2> QED BY <2>2
  <1>10. DOMAIN y.tf = {p, q} /\ y.tf[p] = 1 /\ y.tf[q] = 2
    BY <1>8, <1>9 DEF Put, Nobody
  <1>11. Players(y.taken) = {p, q}
    <2>1. DOMAIN <<solos[j], solos[k]>> = {1, 2}
      OBVIOUS
    <2> QED BY <1>7, <1>9, <2>1 DEF Players
  <1>12. Pairs(y.tf, inst.tf)
    BY <1>4, <1>8, <1>10 DEF Pairs
  <1> QED BY <1>10, <1>11, <1>12

\* A backfill of either kind.
LEMMA BackfillMends ==
    ASSUME NEW Q, IsFiniteSet(Q), NEW P \in SUBSET PartyOf(Q), NEW ps \in Seq(P), NEW fair, NEW cfg,
           NEW insts \in Seq(InstOf(Q)), Strangers(ps, insts), NEW i \in DOMAIN insts,
           NEW y, y = Backfill(cfg, ps, insts[i], fair), y.taken # <<>>
    PROVE  /\ DOMAIN y.tf = Players(y.taken)
           /\ Fills(y.tf, insts[i].tf) \/ Pairs(y.tf, insts[i].tf)
  <1>1. insts[i].tf \in SideMaps(Q) /\ insts[i].free \in Int
    <2>1. insts[i] \in InstOf(Q)
      OBVIOUS
    <2> QED BY <2>1 DEF InstOf
  <1>2. CASE y = PlanPairJoin(ps, insts[i], fair)
    BY <1>2, PairJoinPairs
  <1>3. CASE y = PlanDeficitBackfill(ps, insts[i], fair)
    BY <1>1, <1>3, DeficitFills
  <1> QED BY <1>2, <1>3 DEF Backfill, OrPair

\* Who joins an instance that is closed but for backfill fills its sides or is a pair.
Mended(r, insts) ==
    r.inst # 0 =>
        \E k \in DOMAIN insts :
            /\ insts[k].id = r.inst
            /\ insts[k].access = "BACKFILL_ONLY"
                   => Fills(r.tf, insts[k].tf) \/ Pairs(r.tf, insts[k].tf)

\* Only the repair joins an instance that is BACKFILL_ONLY.
LEMMA PlacePoolMends ==
    ASSUME NEW Q, IsFiniteSet(Q), NEW P \in SUBSET PartyOf(Q), NEW ps \in Seq(P),
           NEW insts \in Seq(InstOf(Q)), NEW fair, NEW cfg, Strangers(ps, insts)
    PROVE  Mended(PlacePool(cfg, ps, insts, fair), insts)
  <1> DEFINE pvp      == cfg.force = "pvp"
             backfill == pvp /\ cfg.backfill
             short    == {i \in DOMAIN insts : /\ insts[i].access = "BACKFILL_ONLY"
                                               /\ Backfill(cfg, ps, insts[i], fair).taken # <<>>}
             open     == {i \in DOMAIN insts : /\ insts[i].access = "OPEN"
                                               /\ PackParties(ps, insts[i].free) # <<>>}
             seats    == IF cfg.cap > 0 THEN cfg.cap ELSE -1
             chosen   == IF pvp /\ cfg.strict THEN SelectClassEqualSubset(ps, cfg.cap, fair)
                                              ELSE PackParties(ps, seats)
             s        == insts[Min(short)]
             o        == insts[Min(open)]
             plan     == Backfill(cfg, ps, s, fair)
             fit      == PackParties(ps, o.free)
             repair   == Taken(plan.taken, plan.tf, s.id, s.access, cfg.cap)
             dropin   == Taken(fit, Assign(cfg, fit, o.tf), o.id, "OPEN", cfg.cap)
             new      == IF chosen = <<>> THEN NoResult
                         ELSE Taken(chosen, Assign(cfg, chosen, Nobody), 0,
                                    IF backfill THEN "BACKFILL_ONLY" ELSE "OPEN",
                                    IF backfill THEN Heads(chosen) ELSE cfg.cap)
  <1>a. DOMAIN insts \in SUBSET Nat
    OBVIOUS
  <1>1. ASSUME short # {} PROVE Mended(repair, insts)
    <2>1. Min(short) \in short
      <3>1. short \in SUBSET Nat
        BY <1>a
      <3> HIDE DEF short
      <3> QED BY <1>1, <3>1, MinNat
    <2>2. PICK k \in DOMAIN insts : k = Min(short)
      BY <2>1
    <2>3. s = insts[k] /\ plan.taken # <<>>
      BY <2>1, <2>2
    <2> HIDE DEF s
    <2>4. plan = Backfill(cfg, ps, insts[k], fair)
      BY <2>3
    <2> HIDE DEF plan, short
    <2>5. /\ DOMAIN plan.tf = Players(plan.taken)
          /\ Fills(plan.tf, s.tf) \/ Pairs(plan.tf, s.tf)
      BY <2>3, <2>4, BackfillMends
    <2>6. repair.inst = s.id /\ DOMAIN repair.tf = DOMAIN plan.tf
          /\ \A q \in DOMAIN plan.tf : repair.tf[q] = plan.tf[q]
      BY <2>5 DEF Taken
    <2> HIDE DEF repair
    <2>7. Fills(plan.tf, s.tf) => Fills(repair.tf, s.tf)
      BY <2>6 DEF Fills
    <2>8. Pairs(plan.tf, s.tf) => Pairs(repair.tf, s.tf)
      BY <2>6 DEF Pairs
    <2> QED BY <2>3, <2>5, <2>6, <2>7, <2>8 DEF Mended
  <1>2. ASSUME open # {} PROVE Mended(dropin, insts)
    <2>1. Min(open) \in open
      <3>1. open \in SUBSET Nat
        BY <1>a
      <3> HIDE DEF open
      <3> QED BY <1>2, <3>1, MinNat
    <2>2. PICK k \in DOMAIN insts : k = Min(open) /\ insts[k].access = "OPEN"
      BY <2>1
    <2>3. o = insts[k]
      BY <2>2
    <2> HIDE DEF o, open, fit
    <2>4. dropin.inst = insts[k].id /\ insts[k].access # "BACKFILL_ONLY"
      BY <2>2, <2>3 DEF Taken
    <2> HIDE DEF dropin
    <2> QED BY <2>4 DEF Mended
  <1>3. Mended(new, insts)
    <2> HIDE DEF chosen, backfill
    <2> QED BY DEF Mended, Taken, NoResult
  <1>4. PlacePool(cfg, ps, insts, fair) =
           CASE backfill /\ short # {}                    -> repair
             [] ~(backfill /\ short # {}) /\ open # {}    -> dropin
             [] ~(backfill /\ short # {}) /\ open = {}    -> new
    BY DEF PlacePool
  <1> HIDE DEF repair, dropin, new, short, open, backfill
  <1> QED BY <1>1, <1>2, <1>3, <1>4

\* CoopMatchRule, for whatever part of the queue it places.
LEMMA CoopMends ==
    ASSUME NEW Q, IsFiniteSet(Q), NEW P \in SUBSET PartyOf(Q), NEW ps \in Seq(P),
           NEW insts \in Seq(InstOf(Q)), NEW fair, NEW cfg, GoodConfig(cfg), NEW solo,
           Strangers(ps, insts)
    PROVE  Mended(CoopRule(cfg, ps, insts, fair, solo), insts)
  <1> DEFINE wants(p) == cfg.min <= 1 /\ ~p.team /\ p.members[1].id \in solo
             locked   == Keep(ps, {p \in ToSet(ps) : wants(p)})
             teams    == Keep(ps, {p \in ToSet(ps) : p.team})
             solos    == Keep(ps, {p \in ToSet(ps) : ~p.team /\ ~wants(p)})
             mixed    == Keep(ps, {p \in ToSet(ps) : p.team \/ ~wants(p)})
             pool(s)  == IF s = <<>> THEN NoResult ELSE PlacePool(cfg, s, insts, fair)
  <1>1. /\ solos \in Seq(P) /\ mixed \in Seq(P)
        /\ Strangers(solos, insts) /\ Strangers(mixed, insts)
    <2>1. \A S : Keep(ps, S) \in Seq(P) /\ Strangers(Keep(ps, S), insts)
      BY KeepPart, KeepDrawn, DrawnStrangers
    <2> QED BY <2>1
  <1>2. CoopRule(cfg, ps, insts, fair, solo) =
           CASE locked # <<>>                                     -> OwnMatch(cfg, locked[1])
             [] locked = <<>> /\ cfg.team = "own" /\ teams # <<>> -> OwnMatch(cfg, teams[1])
             [] locked = <<>> /\ cfg.team = "own" /\ teams = <<>> -> pool(solos)
             [] locked = <<>> /\ cfg.team = "block"               -> pool(solos)
             [] locked = <<>> /\ cfg.team = "mixed"               -> pool(mixed)
    BY DEF CoopRule
  <1> HIDE DEF locked, teams, solos, mixed
  <1>3. \A p : Mended(OwnMatch(cfg, p), insts)
    BY DEF Mended, OwnMatch, Taken
  <1>4. \A s \in Seq(P) : Strangers(s, insts) => Mended(pool(s), insts)
    <2> SUFFICES ASSUME NEW s \in Seq(P), Strangers(s, insts) PROVE Mended(pool(s), insts)
      OBVIOUS
    <2>1. Mended(PlacePool(cfg, s, insts, fair), insts)
      BY PlacePoolMends
    <2>2. Mended(NoResult, insts)
      BY DEF Mended, NoResult
    <2> QED BY <2>1, <2>2
  <1> HIDE DEF pool
  <1>5. cfg.team \in {"own", "mixed", "block"}
    BY DEF GoodConfig
  <1> QED BY <1>1, <1>2, <1>3, <1>4, <1>5

\* Only CoopMatchRule joins instances.
LEMMA EvaluateMends ==
    ASSUME NEW Q, IsFiniteSet(Q), NEW ps \in Seq(PartyOf(Q)),
           NEW insts \in Seq(InstOf(Q)), NEW fair, NEW cfg, GoodConfig(cfg), NEW solo,
           Strangers(ps, insts)
    PROVE  Mended(Evaluate(cfg, ps, insts, fair, solo), insts)
  <1>1. Mended(CoopRule(cfg, ps, insts, fair, solo), insts)
    BY CoopMends
  <1>2. Mended(AgentRule(ps, fair), insts)
    BY DEF Mended, AgentRule, Taken, NoResult
  <1>3. Mended(VersusRule(cfg, ps), insts)
    BY DEF Mended, VersusRule, Taken, NoResult
  <1>4. cfg.rule \in {"coop", "agent", "versus"}
    BY DEF GoodConfig
  <1> QED BY <1>1, <1>2, <1>3, <1>4 DEF Evaluate

-----------------------------------------------------------------------------
(* Leads.                                                                 *)

\* One player more.
LEMMA CountStep ==
    ASSUME NEW S, IsFiniteSet(S), NEW q \in S, NEW c
    PROVE  /\ Count(S, c) = Count(S \ {q}, c) + (IF q.class = c THEN 1 ELSE 0)
           /\ Count(S, c) \in Nat /\ Count(S \ {q}, c) \in Nat
  <1> DEFINE A == {x \in S : x.class = c}
             B == {x \in S \ {q} : x.class = c}
  <1>1. IsFiniteSet(A)
    BY FS_Subset
  <1>2. B = A \ {q} /\ (q \in A <=> q.class = c)
    OBVIOUS
  <1>3. Cardinality(A) \in Nat /\ Cardinality(A \ {q}) \in Nat
    BY <1>1, FS_RemoveElement, FS_CardinalityType
  <1>4. Cardinality(A \ {q}) = IF q \in A THEN Cardinality(A) - 1 ELSE Cardinality(A)
    BY <1>1, FS_RemoveElement
  <1>5. Count(S, c) = Cardinality(A) /\ Count(S \ {q}, c) = Cardinality(B)
    BY DEF Count
  <1> HIDE DEF A, B
  <1> QED BY <1>2, <1>3, <1>4, <1>5

\* What a robotics counts on side t.
HealRate(t) == IF t = 2 THEN 85 ELSE 75

\* A side's heal score depends on how many of the two healing classes it has.
LEMMA HealSum ==
    ASSUME NEW a, IsFiniteSet(DOMAIN a), NEW t
    PROVE  HealScore(a, t) = 100 * Count(Side(a, t), Medic) + HealRate(t) * Count(Side(a, t), Robotics)
  <1> DEFINE U == Side(a, t)
             Some(s) == CHOOSE x \in s : TRUE
             Body(f) == [s \in SUBSET U |->
                            IF s = {} THEN 0 ELSE HealValue(Some(s), t) + f[s \ {Some(s)}]]
             it == CHOOSE f : f = Body(f)
             g(s) == 100 * Count(s, Medic) + HealRate(t) * Count(s, Robotics)
             h == [s \in SUBSET U |-> g(s)]
  <1>1. HealScore(a, t) = it[U]
    BY DEF HealScore, MapThenSumSet, MapThenFoldSet
  <1>2. IsFiniteSet(U)
    BY FS_Subset DEF Side
  <1>3. \A s \in SUBSET U : s # {} => Some(s) \in s
    OBVIOUS
  <1> HIDE DEF Some
  <1>4. ASSUME NEW s \in SUBSET U, NEW x \in s
        PROVE  g(s) = HealValue(x, t) + g(s \ {x}) /\ g(s) \in Nat
    <2>1. IsFiniteSet(s)
      BY <1>2, FS_Subset
    <2>2. /\ Count(s, Medic) = Count(s \ {x}, Medic) + (IF x.class = Medic THEN 1 ELSE 0)
          /\ Count(s, Medic) \in Nat /\ Count(s \ {x}, Medic) \in Nat
      BY <2>1, CountStep
    <2>3. /\ Count(s, Robotics) = Count(s \ {x}, Robotics) + (IF x.class = Robotics THEN 1 ELSE 0)
          /\ Count(s, Robotics) \in Nat /\ Count(s \ {x}, Robotics) \in Nat
      BY <2>1, CountStep
    <2> QED BY <2>2, <2>3 DEF HealValue, HealRate, Medic, Robotics
  <1>5. g({}) = 0
    <2>1. Count({}, Medic) = 0 /\ Count({}, Robotics) = 0
      <3>1. {x \in {} : x.class = Medic} = {} /\ {x \in {} : x.class = Robotics} = {}
        OBVIOUS
      <3> QED BY <3>1, FS_EmptySet DEF Count
    <2> QED BY <2>1 DEF HealRate
  <1> HIDE DEF g
  <1>6. h = Body(h)
    <2>1. ASSUME NEW s \in SUBSET U, s # {}
          PROVE  h[s] = HealValue(Some(s), t) + h[s \ {Some(s)}]
      <3>1. Some(s) \in s /\ s \ {Some(s)} \in SUBSET U
        BY <1>3, <2>1
      <3> QED BY <1>4, <3>1
    <2>2. h[{}] = 0
      BY <1>5
    <2>3. h = [s \in SUBSET U |-> h[s]]
      OBVIOUS
    <2> HIDE DEF h
    <2> QED BY <2>1, <2>2, <2>3
  <1>7. it = Body(it)
    BY <1>6
  <1> HIDE DEF it, h
  <1>8. it[{}] = 0 /\ \A s \in SUBSET U : s # {} => it[s] = HealValue(Some(s), t) + it[s \ {Some(s)}]
    BY <1>7
  <1> HIDE DEF Body
  <1> PICK n \in Nat : n = Cardinality(U)
    BY <1>2, FS_CardinalityType
  <1> DEFINE P == {k \in Nat : \A s \in SUBSET U : Cardinality(s) = k => it[s] = g(s)}
  <1> HIDE DEF U
  <1>9. 0 \in P
    <2>1. ASSUME NEW s \in SUBSET U, Cardinality(s) = 0 PROVE it[s] = g(s)
      <3>1. s = {}
        BY <1>2, <2>1, FS_Subset, FS_EmptySet
      <3> QED BY <1>5, <1>8, <3>1
    <2> QED BY <2>1
  <1>10. ASSUME NEW k \in 0 .. n - 1, k \in P PROVE k + 1 \in P
    <2>1. ASSUME NEW s \in SUBSET U, Cardinality(s) = k + 1 PROVE it[s] = g(s)
      <3>1. IsFiniteSet(s)
        BY <1>2, FS_Subset
      <3>2. s # {}
        <4>1. Cardinality({}) = 0
          BY FS_EmptySet
        <4> QED BY <2>1, <4>1
      <3> PICK x : x = Some(s)
        OBVIOUS
      <3>3. x \in s /\ s \ {x} \in SUBSET U
        BY <1>3, <3>2
      <3>4. Cardinality(s \ {x}) = k
        <4>1. Cardinality(s \ {x}) = Cardinality(s) - 1
          BY <3>1, <3>3, FS_RemoveElement
        <4> QED BY <2>1, <4>1
      <3>5. it[s \ {x}] = g(s \ {x})
        BY <1>10, <3>3, <3>4
      <3>6. it[s] = HealValue(x, t) + it[s \ {x}]
        BY <1>8, <3>2
      <3> QED BY <1>4, <3>3, <3>5, <3>6
    <2>2. k + 1 \in Nat
      OBVIOUS
    <2> QED BY <2>1, <2>2
  <1>11. n \in P
    <2> HIDE DEF P
    <2> QED BY <1>9, <1>10, NatInd
  <1>12. it[U] = g(U)
    BY <1>11
  <1> QED BY <1>1, <1>12 DEF g, U

\* How many more of class c there are on side 1.
Lead(a, c) == Count(Side(a, 1), c) - Count(Side(a, 2), c)

\* Sides 1 and 2 for finitely many players of the four classes.
SidesOk(a) ==
    /\ IsFiniteSet(DOMAIN a)
    /\ \A q \in DOMAIN a : q.class \in Classes /\ a[q] \in {1, 2}

\* Players of the four classes, counted by class.
LEMMA ClassSum ==
    ASSUME NEW S, IsFiniteSet(S), \A q \in S : q.class \in Classes
    PROVE  /\ Cardinality(S) = Count(S, Medic) + Count(S, Robotics) + Count(S, Assault) + Count(S, Recon)
           /\ \A c : Count(S, c) \in Nat
  <1> DEFINE A(c) == {q \in S : q.class = c}
  <1>1. \A c : IsFiniteSet(A(c)) /\ Cardinality(A(c)) \in Nat
    BY FS_Subset, FS_CardinalityType
  <1>2. ASSUME NEW X, NEW Y, IsFiniteSet(X), IsFiniteSet(Y), X \cap Y = {}
        PROVE  IsFiniteSet(X \cup Y) /\ Cardinality(X \cup Y) = Cardinality(X) + Cardinality(Y)
    <2>1. Cardinality(X \cap Y) = 0 /\ Cardinality(X) \in Nat /\ Cardinality(Y) \in Nat
      BY <1>2, FS_EmptySet, FS_CardinalityType
    <2>2. /\ IsFiniteSet(X \cup Y)
          /\ Cardinality(X \cup Y) = Cardinality(X) + Cardinality(Y) - Cardinality(X \cap Y)
      BY <1>2, FS_Union
    <2> QED BY <2>1, <2>2
  <1>3. PICK m, r, s, t : /\ m = Medic /\ r = Robotics /\ s = Assault /\ t = Recon
                          /\ Classes = {m, r, s, t}
                          /\ m # r /\ m # s /\ m # t /\ r # s /\ r # t /\ s # t
    BY DEF Classes, Medic, Robotics, Assault, Recon
  <1>4. S = ((A(m) \cup A(r)) \cup A(s)) \cup A(t)
    BY <1>3
  <1>5. /\ A(m) \cap A(r) = {} /\ (A(m) \cup A(r)) \cap A(s) = {}
        /\ ((A(m) \cup A(r)) \cup A(s)) \cap A(t) = {}
    BY <1>3
  <1>6. \A c : Count(S, c) = Cardinality(A(c))
    BY DEF Count
  <1> HIDE DEF A
  <1>7. /\ IsFiniteSet(A(m) \cup A(r))
        /\ Cardinality(A(m) \cup A(r)) = Cardinality(A(m)) + Cardinality(A(r))
    BY <1>1, <1>2, <1>5
  <1>8. /\ IsFiniteSet((A(m) \cup A(r)) \cup A(s))
        /\ Cardinality((A(m) \cup A(r)) \cup A(s)) = Cardinality(A(m) \cup A(r)) + Cardinality(A(s))
    BY <1>1, <1>2, <1>5, <1>7
  <1>9. Cardinality(S) = Cardinality((A(m) \cup A(r)) \cup A(s)) + Cardinality(A(t))
    BY <1>1, <1>2, <1>4, <1>5, <1>8
  <1> QED BY <1>1, <1>3, <1>6, <1>7, <1>8, <1>9

\* The sides differ in size by the sum of the leads.
LEMMA SizeSum ==
    ASSUME NEW a, SidesOk(a)
    PROVE  /\ SizeGap(a) = Abs(Lead(a, Medic) + Lead(a, Robotics) + Lead(a, Assault) + Lead(a, Recon))
           /\ \A c : Lead(a, c) \in Int /\ Gap(a, c) = Abs(Lead(a, c))
  <1>1. \A t \in {1, 2} : IsFiniteSet(Side(a, t)) /\ \A q \in Side(a, t) : q.class \in Classes
    BY FS_Subset DEF Side, SidesOk
  <1>2. \A t \in {1, 2} : /\ Cardinality(Side(a, t)) = Count(Side(a, t), Medic) + Count(Side(a, t), Robotics)
                                + Count(Side(a, t), Assault) + Count(Side(a, t), Recon)
                          /\ \A c : Count(Side(a, t), c) \in Nat
    BY <1>1, ClassSum
  <1>3. \A c : Lead(a, c) \in Int /\ Gap(a, c) = Abs(Lead(a, c))
    BY <1>2 DEF Lead, Gap
  <1>4. Cardinality(Side(a, 1)) - Cardinality(Side(a, 2))
           = Lead(a, Medic) + Lead(a, Robotics) + Lead(a, Assault) + Lead(a, Recon)
    BY <1>2 DEF Lead
  <1> QED BY <1>3, <1>4 DEF SizeGap

\* No class but c and e leads.
EvenBut(a, c, e) == \A x \in Classes \ {c, e} : Lead(a, x) = 0

\* With at most two classes that lead, size and classes cost what their leads do.
LEMMA EvenButSum ==
    ASSUME NEW a, SidesOk(a), NEW c \in Classes, NEW e \in Classes, c # e, EvenBut(a, c, e)
    PROVE  /\ SizeGap(a) = Abs(Lead(a, c) + Lead(a, e))
           /\ ClassImbalance(a) = Abs(Lead(a, c)) + Abs(Lead(a, e))
  <1>1. PICK m, r, s, t : /\ m = Medic /\ r = Robotics /\ s = Assault /\ t = Recon
                          /\ Classes = {m, r, s, t}
                          /\ m # r /\ m # s /\ m # t /\ r # s /\ r # t /\ s # t
    BY DEF Classes, Medic, Robotics, Assault, Recon
  <1>2. PICK l \in [Classes -> Int] : \A x \in Classes : l[x] = Lead(a, x)
    <2> DEFINE l == [x \in Classes |-> Lead(a, x)]
    <2>1. l \in [Classes -> Int] /\ \A x \in Classes : l[x] = Lead(a, x)
      BY SizeSum
    <2> QED BY <2>1
  <1>3. SizeGap(a) = Abs(l[m] + l[r] + l[s] + l[t])
    BY <1>1, <1>2, SizeSum
  <1>4. ClassImbalance(a) = Abs(l[m]) + Abs(l[r]) + Abs(l[s]) + Abs(l[t])
    <2>1. IsFiniteSet(DOMAIN a)
      BY DEF SidesOk
    <2> QED BY <1>1, <1>2, <2>1, SizeSum, ImbalanceSum
  <1>5. \A x \in Classes : x # c /\ x # e => l[x] = 0
    BY <1>2 DEF EvenBut
  <1>6. /\ l[m] \in Int /\ l[r] \in Int /\ l[s] \in Int /\ l[t] \in Int
    BY <1>1, <1>2
  <1>7. /\ l[m] + l[r] + l[s] + l[t] = l[c] + l[e]
        /\ Abs(l[m]) + Abs(l[r]) + Abs(l[s]) + Abs(l[t]) = Abs(l[c]) + Abs(l[e])
    <2>1. CASE c = m
      BY <1>1, <1>5, <1>6, <2>1 DEF Abs
    <2>2. CASE c = r
      BY <1>1, <1>5, <1>6, <2>2 DEF Abs
    <2>3. CASE c = s
      BY <1>1, <1>5, <1>6, <2>3 DEF Abs
    <2>4. CASE c = t
      BY <1>1, <1>5, <1>6, <2>4 DEF Abs
    <2> QED BY <1>1, <2>1, <2>2, <2>3, <2>4
  <1> QED BY <1>2, <1>3, <1>4, <1>7

\* An even class that leads by one at most does not lead.
LEMMA LeadParity ==
    ASSUME NEW a, SidesOk(a), NEW c, Lead(a, c) \in -1 .. 1, Count(DOMAIN a, c) % 2 = 0
    PROVE  Lead(a, c) = 0
  <1> DEFINE A == {q \in Side(a, 1) : q.class = c}
             B == {q \in Side(a, 2) : q.class = c}
             C == {q \in DOMAIN a : q.class = c}
  <1>1. IsFiniteSet(A) /\ IsFiniteSet(B)
    BY FS_Subset DEF Side, SidesOk
  <1>2. A \cap B = {} /\ C = A \cup B
    BY DEF Side, SidesOk
  <1>3. /\ Cardinality(C) = Cardinality(A) + Cardinality(B) - Cardinality(A \cap B)
        /\ Cardinality(A) \in Nat /\ Cardinality(B) \in Nat
    BY <1>1, <1>2, FS_Union, FS_CardinalityType
  <1>4. Cardinality(A \cap B) = 0
    BY <1>2, FS_EmptySet
  <1>5. /\ Count(Side(a, 1), c) = Cardinality(A) /\ Count(Side(a, 2), c) = Cardinality(B)
        /\ Count(DOMAIN a, c) = Cardinality(C)
    BY DEF Count
  <1> HIDE DEF A, B, C
  <1> PICK m \in Nat, n \in Nat : m = Cardinality(A) /\ n = Cardinality(B)
    BY <1>3
  <1>6. m - n \in -1 .. 1 /\ (m + n) % 2 = 0 /\ Lead(a, c) = m - n
    BY <1>3, <1>4, <1>5 DEF Lead
  <1> QED BY <1>6

\* A class nobody plays does not lead.
LEMMA LeadNone ==
    ASSUME NEW a, NEW c, \A q \in DOMAIN a : q.class # c
    PROVE  Lead(a, c) = 0
  <1>1. {q \in Side(a, 1) : q.class = c} = {} /\ {q \in Side(a, 2) : q.class = c} = {}
    BY DEF Side
  <1>2. Cardinality({}) = 0
    BY FS_EmptySet
  <1> QED BY <1>1, <1>2 DEF Lead, Count

\* The class imbalance is a number.
LEMMA ImbalanceNat ==
    ASSUME NEW a, IsFiniteSet(DOMAIN a)
    PROVE  ClassImbalance(a) \in Nat
  <1>1. \A t : IsFiniteSet(Side(a, t))
    BY FS_Subset DEF Side
  <1>2. \A t, c : Count(Side(a, t), c) \in Nat
    BY <1>1, CountType
  <1>3. \A c : Gap(a, c) \in Nat
    BY <1>2 DEF Gap, Abs
  <1> QED BY <1>3, ImbalanceSum

\* Nobody is equal.
LEMMA NoneEven ==
    ASSUME NEW a, DOMAIN a = {}
    PROVE  ClassImbalance(a) = 0
  <1>1. IsFiniteSet(DOMAIN a)
    BY FS_EmptySet
  <1>2. \A c : Lead(a, c) = 0
    BY LeadNone
  <1>3. SidesOk(a)
    BY <1>1 DEF SidesOk
  <1>4. \A c : Gap(a, c) = 0
    BY <1>2, <1>3, SizeSum DEF Abs
  <1> QED BY <1>1, <1>4, ImbalanceSum

-----------------------------------------------------------------------------
(* Placing one player.                                                    *)

\* The players of class c on side u before and after q is put on side t.
PutCounts(a, q, t, u, c) ==
    /\ Count(Side(Put(a, {q}, t), u), c)
          = Count(Side(a, u) \ {q}, c) + (IF u = t /\ q.class = c THEN 1 ELSE 0)
    /\ Count(Side(a, u), c)
          = Count(Side(a, u) \ {q}, c) + (IF q \in Side(a, u) /\ q.class = c THEN 1 ELSE 0)
    /\ Count(Side(a, u) \ {q}, c) \in Nat

\* Only the side q comes to and the side he leaves change, for his class.
LEMMA PutCount ==
    ASSUME NEW a, SidesOk(a), NEW q, NEW t \in {1, 2}, NEW u \in {1, 2}, NEW c
    PROVE  PutCounts(a, q, t, u, c)
  <1>1. IsFiniteSet(Side(a, u)) /\ IsFiniteSet(Side(a, u) \ {q}) /\ IsFiniteSet(Side(a, u) \cup {q})
    BY FS_Subset, FS_AddElement DEF Side, SidesOk
  <1>2. Side(Put(a, {q}, t), u) = IF u = t THEN Side(a, u) \cup {q} ELSE Side(a, u) \ {q}
    BY DEF Side, Put
  <1>3. (Side(a, u) \cup {q}) \ {q} = Side(a, u) \ {q} /\ q \in Side(a, u) \cup {q}
    OBVIOUS
  <1>4. Count(Side(a, u) \cup {q}, c) = Count(Side(a, u) \ {q}, c) + (IF q.class = c THEN 1 ELSE 0)
    BY <1>1, <1>3, CountStep
  <1>5. q \in Side(a, u) =>
           Count(Side(a, u), c) = Count(Side(a, u) \ {q}, c) + (IF q.class = c THEN 1 ELSE 0)
    BY <1>1, CountStep
  <1>6. q \notin Side(a, u) => Side(a, u) \ {q} = Side(a, u)
    OBVIOUS
  <1>7. Count(Side(a, u) \ {q}, c) \in Nat
    BY <1>1, CountType
  <1> QED BY <1>2, <1>4, <1>5, <1>6, <1>7 DEF PutCounts

\* Sides stay sides.
LEMMA PutSides ==
    ASSUME NEW a, SidesOk(a), NEW q, q.class \in Classes, NEW t \in {1, 2}
    PROVE  SidesOk(Put(a, {q}, t)) /\ DOMAIN Put(a, {q}, t) = DOMAIN a \cup {q}
  <1>1. IsFiniteSet(DOMAIN a \cup {q})
    BY FS_AddElement DEF SidesOk
  <1> QED BY <1>1 DEF Put, SidesOk

\* Classes c and e lead by one player at most, alone and together, the others are even.
Level(a, c, e) ==
    /\ EvenBut(a, c, e)
    /\ Lead(a, c) \in -1 .. 1 /\ Lead(a, e) \in -1 .. 1
    /\ Lead(a, c) + Lead(a, e) \in -1 .. 1

\* What a side costs with a lead of y of the class that is placed and e of another.
Price(y, e, h) == 10000000 * Abs(y + e) + 100000 * (Abs(y) + Abs(e)) + Abs(h)

\* The weights of Imbalance: a side on which y, the lead with the player there, is less
\* far from zero costs less, whatever the heal score.
LEMMA CheaperSide ==
    ASSUME NEW d \in -1 .. 1, NEW e \in -1 .. 1, d + e \in -1 .. 1,
           NEW x \in Int, NEW y \in Int, x = y + 2, y + 1 \in d - 1 .. d + 1,
           NEW A \in Int, NEW B \in Int, A - B \in 0 .. 200
    PROVE  /\ Price(x, e, A) \in Int /\ Price(y, e, B) \in Int
           /\ Price(x, e, A) <= Price(y, e, B) => x \in -1 .. 1 /\ x + e \in -1 .. 1
           /\ Price(y, e, B) <= Price(x, e, A) => y \in -1 .. 1 /\ y + e \in -1 .. 1
  <1>1. PICK k \in Int : k = Abs(A)
    BY DEF Abs
  <1>2. PICK l \in Int : l = Abs(B)
    BY DEF Abs
  <1>3. k - l <= 200 /\ l - k <= 200
    BY <1>1, <1>2 DEF Abs
  <1>4. d \in {-1, 0, 1} /\ e \in {-1, 0, 1}
    OBVIOUS
  <1>5. y \in {d - 2, d - 1, d}
    OBVIOUS
  <1> QED BY <1>1, <1>2, <1>3, <1>4, <1>5 DEF Price, Abs

\* PlaceGroup puts a single player where the leads stay within one, however the ties are
\* broken and however the heal scores differ.
LEMMA PlaceLevel ==
    ASSUME NEW a, SidesOk(a), NEW q, NEW c \in Classes, q.class = c, NEW e \in Classes, c # e,
           Level(a, c, e), NEW unrated, NEW b, b = PlaceOne(a, q, unrated)
    PROVE  Level(b, c, e) /\ SidesOk(b) /\ (\A p : p \in DOMAIN b <=> p \in DOMAIN a \/ p = q)
  <1> DEFINE P(t) == Put(a, {q}, t)
             N(u, x) == Count(Side(a, u) \ {q}, x)
  <1>1. \A t \in {1, 2} : SidesOk(P(t)) /\ DOMAIN P(t) = DOMAIN a \cup {q}
    BY PutSides
  <1>a. \A x : \A t, u \in {1, 2} : PutCounts(a, q, t, u, x)
    BY PutCount
  <1>2. \A x : \A u \in {1, 2} : N(u, x) \in Nat
    BY <1>a DEF PutCounts
  <1>3. \A x : \A t, u \in {1, 2} :
           Count(Side(P(t), u), x) = N(u, x) + (IF u = t /\ c = x THEN 1 ELSE 0)
    BY <1>a DEF PutCounts
  <1>4. \A x : \A u \in {1, 2} :
           Count(Side(a, u), x) = N(u, x) + (IF q \in Side(a, u) /\ c = x THEN 1 ELSE 0)
    <2>1. \A x : \A u \in {1, 2} : PutCounts(a, q, 1, u, x)
      BY <1>a
    <2> QED BY <2>1 DEF PutCounts
  <1>5. ~(q \in Side(a, 1) /\ q \in Side(a, 2))
    BY DEF Side
  <1> HIDE DEF P, N
  <1> DEFINE d == Lead(a, c)
             f == Lead(a, e)
             y == N(1, c) - N(2, c)
  <1>6. \A x \in Classes : x # c => Lead(P(1), x) = Lead(a, x) /\ Lead(P(2), x) = Lead(a, x)
    <2>1. ASSUME NEW x \in Classes, x # c
          PROVE  Lead(P(1), x) = Lead(a, x) /\ Lead(P(2), x) = Lead(a, x)
      <3>1. /\ Count(Side(P(1), 1), x) = N(1, x) /\ Count(Side(P(1), 2), x) = N(2, x)
            /\ Count(Side(P(2), 1), x) = N(1, x) /\ Count(Side(P(2), 2), x) = N(2, x)
        BY <1>2, <1>3, <2>1
      <3>2. Count(Side(a, 1), x) = N(1, x) /\ Count(Side(a, 2), x) = N(2, x)
        BY <1>2, <1>4, <2>1
      <3> QED BY <3>1, <3>2 DEF Lead
    <2> QED BY <2>1
  <1>7. Lead(P(1), c) = y + 1 /\ Lead(P(2), c) = y - 1
    <2>1. /\ Count(Side(P(1), 1), c) = N(1, c) + 1 /\ Count(Side(P(1), 2), c) = N(2, c)
          /\ Count(Side(P(2), 1), c) = N(1, c) /\ Count(Side(P(2), 2), c) = N(2, c) + 1
      BY <1>2, <1>3
    <2> QED BY <1>2, <2>1 DEF Lead
  <1>8. d \in -1 .. 1 /\ f \in -1 .. 1 /\ d + f \in -1 .. 1
    BY DEF Level
  <1>9. y \in d - 1 .. d + 1
    <2>1. \E i, j \in {0, 1} : Count(Side(a, 1), c) = N(1, c) + i /\ Count(Side(a, 2), c) = N(2, c) + j
      BY <1>4
    <2> QED BY <1>2, <2>1 DEF Lead
  <1>10. EvenBut(P(1), c, e) /\ EvenBut(P(2), c, e)
    BY <1>6 DEF EvenBut, Level
  <1>11. Lead(P(1), e) = f /\ Lead(P(2), e) = f
    BY <1>6
  <1> DEFINE A == HealScore(P(1), 1) - HealScore(P(1), 2)
             B == HealScore(P(2), 1) - HealScore(P(2), 2)
  <1>12. A \in Int /\ B \in Int /\ A - B \in 0 .. 200
    <2>1. \A t \in {1, 2} : IsFiniteSet(DOMAIN P(t))
      BY <1>1 DEF SidesOk
    <2>2. \A t \in {1, 2} :
             /\ HealScore(P(t), 1) = 100 * Count(Side(P(t), 1), Medic) + 75 * Count(Side(P(t), 1), Robotics)
             /\ HealScore(P(t), 2) = 100 * Count(Side(P(t), 2), Medic) + 85 * Count(Side(P(t), 2), Robotics)
      BY <2>1, HealSum DEF HealRate
    <2>3. N(1, Medic) \in Nat /\ N(2, Medic) \in Nat /\ N(1, Robotics) \in Nat /\ N(2, Robotics) \in Nat
      BY <1>2
    <2> DEFINE i == IF c = Medic THEN 1 ELSE 0
               j == IF c = Robotics THEN 1 ELSE 0
    <2>4. /\ Count(Side(P(1), 1), Medic) = N(1, Medic) + i /\ Count(Side(P(1), 2), Medic) = N(2, Medic)
          /\ Count(Side(P(2), 1), Medic) = N(1, Medic) /\ Count(Side(P(2), 2), Medic) = N(2, Medic) + i
      BY <1>3, <2>3
    <2>5. /\ Count(Side(P(1), 1), Robotics) = N(1, Robotics) + j /\ Count(Side(P(1), 2), Robotics) = N(2, Robotics)
          /\ Count(Side(P(2), 1), Robotics) = N(1, Robotics) /\ Count(Side(P(2), 2), Robotics) = N(2, Robotics) + j
      BY <1>3, <2>3
    <2>6. i \in {0, 1} /\ j \in {0, 1} /\ i + j <= 1
      BY DEF Medic, Robotics
    <2> HIDE DEF i, j
    <2>7. /\ HealScore(P(1), 1) = 100 * (N(1, Medic) + i) + 75 * (N(1, Robotics) + j)
          /\ HealScore(P(1), 2) = 100 * N(2, Medic) + 85 * N(2, Robotics)
          /\ HealScore(P(2), 1) = 100 * N(1, Medic) + 75 * N(1, Robotics)
          /\ HealScore(P(2), 2) = 100 * (N(2, Medic) + i) + 85 * (N(2, Robotics) + j)
      BY <2>2, <2>4, <2>5
    <2>8. /\ A = (100 * (N(1, Medic) + i) + 75 * (N(1, Robotics) + j)) - (100 * N(2, Medic) + 85 * N(2, Robotics))
          /\ B = (100 * N(1, Medic) + 75 * N(1, Robotics)) - (100 * (N(2, Medic) + i) + 85 * (N(2, Robotics) + j))
      BY <2>7
    <2>9. /\ (100 * (N(1, Medic) + i) + 75 * (N(1, Robotics) + j)) - (100 * N(2, Medic) + 85 * N(2, Robotics)) \in Int
          /\ (100 * N(1, Medic) + 75 * N(1, Robotics)) - (100 * (N(2, Medic) + i) + 85 * (N(2, Robotics) + j)) \in Int
      BY <2>3, <2>6
    <2> HIDE DEF A, B
    <2>10. A - B = 200 * i + 160 * j
      BY <2>3, <2>6, <2>8
    <2>11. 200 * i + 160 * j \in 0 .. 200
      BY <2>6
    <2> QED BY <2>8, <2>9, <2>10, <2>11
  <1>13. Imbalance(P(1)) = Price(Lead(P(1), c), f, A) /\ Imbalance(P(2)) = Price(Lead(P(2), c), f, B)
    <2>1. \A t \in {1, 2} : /\ SizeGap(P(t)) = Abs(Lead(P(t), c) + Lead(P(t), e))
                            /\ ClassImbalance(P(t)) = Abs(Lead(P(t), c)) + Abs(Lead(P(t), e))
      BY <1>1, <1>10, EvenButSum
    <2> QED BY <1>11, <2>1 DEF Imbalance, Price
  <1>14. /\ Imbalance(P(1)) \in Int /\ Imbalance(P(2)) \in Int
         /\ Imbalance(P(1)) <= Imbalance(P(2)) => Lead(P(1), c) \in -1 .. 1 /\ Lead(P(1), c) + f \in -1 .. 1
         /\ Imbalance(P(2)) <= Imbalance(P(1)) => Lead(P(2), c) \in -1 .. 1 /\ Lead(P(2), c) + f \in -1 .. 1
    <2>1. PICK k : k = d
      OBVIOUS
    <2>2. PICK g : g = f
      OBVIOUS
    <2>3. PICK x : x = Lead(P(1), c)
      OBVIOUS
    <2>4. PICK z : z = Lead(P(2), c)
      OBVIOUS
    <2>5. PICK l : l = A
      OBVIOUS
    <2>6. PICK m : m = B
      OBVIOUS
    <2>7. y \in Int
      BY <1>2
    <2>8. /\ k \in -1 .. 1 /\ g \in -1 .. 1 /\ k + g \in -1 .. 1
          /\ x \in Int /\ z \in Int /\ x = z + 2 /\ z + 1 \in k - 1 .. k + 1
      BY <1>7, <1>8, <1>9, <2>1, <2>2, <2>3, <2>4, <2>7
    <2>9. l \in Int /\ m \in Int /\ l - m \in 0 .. 200
      BY <1>12, <2>5, <2>6
    <2>10. /\ Price(x, g, l) \in Int /\ Price(z, g, m) \in Int
           /\ Price(x, g, l) <= Price(z, g, m) => x \in -1 .. 1 /\ x + g \in -1 .. 1
           /\ Price(z, g, m) <= Price(x, g, l) => z \in -1 .. 1 /\ z + g \in -1 .. 1
      BY <2>8, <2>9, CheaperSide
    <2> HIDE DEF A, B, d, f, y
    <2> QED BY <1>13, <2>2, <2>3, <2>4, <2>5, <2>6, <2>10
  <1>15. \/ b = P(1) /\ ~(Imbalance(P(2)) < Imbalance(P(1)))
         \/ b = P(2) /\ ~(Imbalance(P(1)) < Imbalance(P(2)))
    <2>1. b = IF \/ Imbalance(P(2)) < Imbalance(P(1))
                 \/ /\ Imbalance(P(2)) = Imbalance(P(1))
                    /\ Cardinality(Side(a, 2) \ unrated) < Cardinality(Side(a, 1) \ unrated)
              THEN P(2) ELSE P(1)
      BY DEF PlaceOne, PlaceGroup, P
    <2> QED BY <1>14, <2>1
  <1>16. \E t \in {1, 2} : b = P(t) /\ Lead(b, c) \in -1 .. 1 /\ Lead(b, c) + f \in -1 .. 1
    BY <1>14, <1>15
  <1> QED BY <1>1, <1>8, <1>10, <1>11, <1>16 DEF Level

\* No class leads by more than one player, nor do Assault and Recon together.
Leveled(a) ==
    /\ \A c \in Classes : Lead(a, c) \in -1 .. 1
    /\ Lead(a, Assault) + Lead(a, Recon) \in -1 .. 1

\* The class that mixes with c when the healers go first.
Mate(c) ==
    CASE c = Medic    -> Robotics
      [] c = Robotics -> Medic
      [] c = Assault  -> Recon
      [] c = Recon    -> Assault

\* a has the players of T who come before q and maybe some that heal as much.
NextByHeal(a, q, T) ==
    /\ DOMAIN a \subseteq T
    /\ \A c \in Classes : Count(T, c) % 2 = 0
    /\ \A p \in DOMAIN a : HealValue(p, 2) >= HealValue(q, 2)
    /\ \A p \in T : p.class \in Classes /\ (HealValue(p, 2) > HealValue(q, 2) => p \in DOMAIN a)

\* The next player by heal value keeps the leads: the classes that heal more are complete
\* and even, so that two classes at most lead.
LEMMA LeveledStep ==
    ASSUME NEW a, SidesOk(a), Leveled(a), NEW q, q.class \in Classes, NEW T, NextByHeal(a, q, T),
           NEW unrated, NEW b, b = PlaceOne(a, q, unrated)
    PROVE  Leveled(b) /\ SidesOk(b) /\ (\A p : p \in DOMAIN b <=> p \in DOMAIN a \/ p = q)
  <1>0. /\ DOMAIN a \subseteq T
        /\ \A x \in Classes : Count(T, x) % 2 = 0
        /\ \A p \in DOMAIN a : HealValue(p, 2) >= HealValue(q, 2)
        /\ \A p \in T : p.class \in Classes /\ (HealValue(p, 2) > HealValue(q, 2) => p \in DOMAIN a)
    BY DEF NextByHeal
  <1> DEFINE c == q.class
             e == Mate(c)
  <1>1. PICK m, r, s, t : /\ m = Medic /\ r = Robotics /\ s = Assault /\ t = Recon
                          /\ Classes = {m, r, s, t}
                          /\ m # r /\ m # s /\ m # t /\ r # s /\ r # t /\ s # t
    BY DEF Classes, Medic, Robotics, Assault, Recon
  <1>2. e \in Classes /\ c # e /\ (c \in {m, r} <=> e \in {m, r}) /\ (c \in {s, t} <=> e \in {s, t})
    <2>1. c \in {m, r, s, t}
      BY <1>1
    <2>2. /\ Mate(m) = r /\ Mate(r) = m /\ Mate(s) = t /\ Mate(t) = s
      BY <1>1 DEF Mate
    <2> QED BY <1>1, <2>1, <2>2
  <1>3. \A p : HealValue(p, 2) = IF p.class = m THEN 100 ELSE IF p.class = r THEN 85 ELSE 0
    BY <1>1 DEF HealValue
  <1>4. ASSUME NEW x \in Classes, \A p \in DOMAIN a : p.class = x => FALSE
        PROVE  Lead(a, x) = 0
    BY <1>4, LeadNone
  <1>5. ASSUME NEW x \in Classes, \A p \in T : p.class = x => p \in DOMAIN a
        PROVE  Lead(a, x) = 0
    <2>1. {p \in DOMAIN a : p.class = x} = {p \in T : p.class = x}
      BY <1>0, <1>5
    <2>2. Count(DOMAIN a, x) % 2 = 0
      BY <1>0, <2>1 DEF Count
    <2> QED BY <2>2, LeadParity DEF Leveled
  <1> HIDE DEF c
  <1>6. \A x \in Classes \ {c, e} : Lead(a, x) = 0
    <2>1. CASE c \in {m, r}
      <3>1. ASSUME NEW x \in {s, t} PROVE Lead(a, x) = 0
        <4>1. \A p \in DOMAIN a : p.class = x => FALSE
          <5>1. HealValue(q, 2) >= 85
            BY <1>1, <1>3, <2>1 DEF c
          <5> QED BY <1>0, <1>1, <1>3, <3>1, <5>1
        <4> QED BY <1>1, <1>4, <4>1
      <3> QED BY <1>1, <1>2, <2>1, <3>1
    <2>2. CASE c \in {s, t}
      <3>1. ASSUME NEW x \in {m, r} PROVE Lead(a, x) = 0
        <4>1. \A p \in T : p.class = x => p \in DOMAIN a
          <5>1. HealValue(q, 2) = 0
            BY <1>1, <1>3, <2>2 DEF c
          <5> QED BY <1>0, <1>1, <1>3, <3>1, <5>1
        <4> QED BY <1>1, <1>5, <4>1
      <3> QED BY <1>1, <1>2, <2>2, <3>1
    <2> QED BY <1>1, <2>1, <2>2 DEF c
  <1>7. c \in {m, r} => Lead(a, e) = 0
    <2>1. CASE c = m
      <3>1. e = r
        BY <1>1, <1>2, <2>1
      <3>2. HealValue(q, 2) = 100
        BY <1>3, <2>1 DEF c
      <3>3. \A p \in DOMAIN a : p.class = r => FALSE
        BY <1>0, <1>1, <1>3, <3>2
      <3> QED BY <1>1, <1>4, <3>1, <3>3
    <2>2. CASE c = r
      <3>1. e = m
        BY <1>1, <1>2, <2>2
      <3>2. HealValue(q, 2) = 85
        BY <1>1, <1>3, <2>2 DEF c
      <3>3. \A p \in T : p.class = m => p \in DOMAIN a
        BY <1>0, <1>3, <3>2
      <3> QED BY <1>1, <1>5, <3>1, <3>3
    <2> QED BY <2>1, <2>2
  <1> HIDE DEF e
  <1>8. c \in Classes
    BY DEF c
  <1>9. Level(a, c, e)
    <2>1. Lead(a, c) \in -1 .. 1 /\ Lead(a, e) \in -1 .. 1
      BY <1>2, <1>8 DEF Leveled
    <2>2. Lead(a, c) + Lead(a, e) \in -1 .. 1
      <3>1. CASE c \in {m, r}
        BY <1>7, <2>1, <3>1
      <3>2. CASE c = s
        <4>1. e = t
          BY <1>1, <1>2, <3>2
        <4> QED BY <1>1, <3>2, <4>1 DEF Leveled
      <3>3. CASE c = t
        <4>1. e = s
          BY <1>1, <1>2, <3>3
        <4> QED BY <1>1, <2>1, <3>3, <4>1 DEF Leveled
      <3> QED BY <1>1, <1>8, <3>1, <3>2, <3>3
    <2> QED BY <1>6, <2>1, <2>2 DEF Level, EvenBut
  <1>10. Level(b, c, e) /\ SidesOk(b) /\ (\A p : p \in DOMAIN b <=> p \in DOMAIN a \/ p = q)
    <2>1. q.class = c
      BY DEF c
    <2> QED BY <1>2, <1>8, <1>9, <2>1, PlaceLevel
  <1>11. Leveled(b)
    <2>1. \A x \in Classes : Lead(b, x) \in -1 .. 1 /\ (x # c /\ x # e => Lead(b, x) = 0)
      BY <1>10 DEF Level, EvenBut
    <2>2. Lead(b, s) + Lead(b, t) \in -1 .. 1
      <3>1. CASE c \in {m, r}
        <4>1. Lead(b, s) = 0 /\ Lead(b, t) = 0
          BY <1>1, <1>2, <2>1, <3>1
        <4> QED BY <4>1
      <3>2. CASE c = s
        <4>1. e = t
          BY <1>1, <1>2, <3>2
        <4> QED BY <1>10, <3>2, <4>1 DEF Level
      <3>3. CASE c = t
        <4>1. e = s
          BY <1>1, <1>2, <3>3
        <4>2. Lead(b, t) + Lead(b, s) \in -1 .. 1 /\ Lead(b, s) \in -1 .. 1 /\ Lead(b, t) \in -1 .. 1
          BY <1>10, <3>3, <4>1 DEF Level
        <4> QED BY <4>2
      <3> QED BY <1>1, <1>8, <3>1, <3>2, <3>3
    <2> QED BY <1>1, <2>1, <2>2 DEF Leveled
  <1> QED BY <1>10, <1>11

\* The sides of nobody.
LEMMA NobodyLeveled == SidesOk(Nobody) /\ Leveled(Nobody) /\ DOMAIN Nobody = {}
  <1>1. DOMAIN Nobody = {} /\ IsFiniteSet({})
    BY FS_EmptySet DEF Nobody
  <1>2. \A c : Lead(Nobody, c) = 0
    BY <1>1, LeadNone
  <1> QED BY <1>1, <1>2 DEF SidesOk, Leveled

-----------------------------------------------------------------------------
(* Equal sides.                                                           *)

\* An even number of players of each class.
AllEven(ps) == \A c \in Classes : Count(Players(ps), c) % 2 = 0

\* One player after another, healers first, to the cheaper side: what was even in each
\* class is divided equally, however the parties are made up and whoever joined first.
LEMMA IndividualEven ==
    ASSUME NEW Q, \A q \in Q : q.class \in Classes, NEW ps \in Seq(PartyOf(Q)), AllEven(ps),
           NEW unrated, NEW x, x = AssignIndividual(ps, Nobody, unrated)
    PROVE  DOMAIN x = Players(ps) /\ ClassImbalance(x) = 0
  <1> PICK l : l = AllMembers(ps)
    OBVIOUS
  <1> PICK s : s = ByHeal(l)
    OBVIOUS
  <1>1. l \in Seq(Q) /\ ToSet(l) = Players(ps)
    BY AllMembersType, AllMembersSet
  <1>2. s \in Seq(Q) /\ ToSet(s) = Players(ps)
    BY <1>1, SortType, SortSet DEF ByHeal
  <1>3. Len(s) = Len(l)
    <2>1. Listed(Insertion(l, {d \in (DOMAIN l) \X (DOMAIN l) : HealValue(l[d[1]], 2) > HealValue(l[d[2]], 2)}), Len(l))
      BY <1>1, InsertionOrder
    <2> PICK o : o = Insertion(l, {d \in (DOMAIN l) \X (DOMAIN l) : HealValue(l[d[1]], 2) > HealValue(l[d[2]], 2)})
      OBVIOUS
    <2>2. DOMAIN o = 1 .. Len(l)
      <3>1. o \in Seq(1 .. Len(l)) /\ Len(o) = Len(l)
        BY <2>1 DEF Listed
      <3> QED BY <3>1
    <2>3. s = Arranged(l, o)
      BY DEF ByHeal
    <2>4. DOMAIN s = 1 .. Len(l)
      BY <2>2, <2>3 DEF Arranged
    <2>5. Len(l) \in Nat
      BY <1>1
    <2> QED BY <1>2, <2>4, <2>5
  <1> PICK n \in Nat : n = Len(s) /\ DOMAIN s = 1 .. n
    BY <1>2
  <1>4. PICK a \in [0 .. n -> SideMaps(Q)] :
              /\ a[0] = Nobody /\ a[n] = x
              /\ \A k \in 1 .. n : a[k] = PlaceOne(a[k - 1], s[k], unrated)
    <2>1. Nobody \in SideMaps(Q)
      BY NobodyType
    <2>2. PICK a \in [0 .. Len(s) -> SideMaps(Q)] :
              /\ a[0] = Nobody /\ a[Len(s)] = x
              /\ \A k \in 1 .. Len(s) : a[k] = PlaceOne(a[k - 1], s[k], unrated)
      BY <2>1, AssignIndividualSteps
    <2> QED BY <2>2
  <1>5. \A i, j \in 1 .. n : i < j => HealValue(s[j], 2) <= HealValue(s[i], 2)
    <2>1. ASSUME NEW i \in 1 .. n, NEW j \in 1 .. n, i < j
          PROVE  HealValue(s[j], 2) <= HealValue(s[i], 2)
      BY <1>1, <1>3, <2>1, HealSorted
    <2> QED BY <2>1
  <1> DEFINE Done(k) == /\ SidesOk(a[k]) /\ Leveled(a[k])
                        /\ \A p : p \in DOMAIN a[k] <=> \E i \in 1 .. k : p = s[i]
             P == {k \in 0 .. n : Done(k)}
  <1>6. 0 \in P
    <2>1. 1 .. 0 = {} /\ 0 \in 0 .. n
      OBVIOUS
    <2> QED BY <1>4, <2>1, NobodyLeveled
  <1>7. ASSUME NEW k \in 0 .. n - 1, k \in P PROVE k + 1 \in P
    <2> PICK j \in 1 .. n : j = k + 1
      OBVIOUS
    <2>1. a[j] = PlaceOne(a[k], s[j], unrated)
      <3>1. j - 1 = k
        OBVIOUS
      <3> QED BY <1>4, <3>1
    <2>2. s[j] \in Q /\ s[j].class \in Classes
      BY <1>2
    <2>3. \A p \in ToSet(s) : \E i \in 1 .. n : p = s[i]
      BY DEF ToSet
    <2>4. \A i \in 1 .. n : s[i] \in ToSet(s)
      BY DEF ToSet
    <2>5. DOMAIN a[k] \subseteq ToSet(s)
      BY <1>7, <2>4
    <2>6. \A p : HealValue(p, 2) \in Nat
      BY DEF HealValue
    <2>7. \A p \in DOMAIN a[k] : HealValue(p, 2) >= HealValue(s[j], 2)
      <3>1. ASSUME NEW p \in DOMAIN a[k] PROVE HealValue(p, 2) >= HealValue(s[j], 2)
        <4>1. PICK i \in 1 .. k : p = s[i]
          BY <1>7
        <4>2. i \in 1 .. n /\ i < j
          OBVIOUS
        <4>3. HealValue(s[j], 2) <= HealValue(s[i], 2)
          BY <1>5, <4>2
        <4> QED BY <2>6, <4>1, <4>3
      <3> QED BY <3>1
    <2>8. \A p \in ToSet(s) : /\ p.class \in Classes
                              /\ HealValue(p, 2) > HealValue(s[j], 2) => p \in DOMAIN a[k]
      <3>1. ASSUME NEW p \in ToSet(s), HealValue(p, 2) > HealValue(s[j], 2) PROVE p \in DOMAIN a[k]
        <4>1. PICK i \in 1 .. n : p = s[i]
          BY <2>3
        <4>2. ~(j < i)
          <5>1. j < i => HealValue(s[i], 2) <= HealValue(s[j], 2)
            BY <1>5
          <5> QED BY <2>6, <3>1, <4>1, <5>1
        <4>3. i # j
          BY <2>6, <3>1, <4>1
        <4>4. i \in 1 .. k
          BY <4>2, <4>3
        <4> QED BY <1>7, <4>1, <4>4
      <3>2. \A p \in ToSet(s) : p.class \in Classes
        BY <1>2, <2>3
      <3> QED BY <3>1, <3>2
    <2>9. \A c \in Classes : Count(ToSet(s), c) % 2 = 0
      BY <1>2 DEF AllEven
    <2>10. SidesOk(a[k]) /\ Leveled(a[k])
      BY <1>7
    <2>11. /\ Leveled(a[j]) /\ SidesOk(a[j])
           /\ \A p : p \in DOMAIN a[j] <=> p \in DOMAIN a[k] \/ p = s[j]
      <3>1. NextByHeal(a[k], s[j], ToSet(s))
        BY <2>5, <2>7, <2>8, <2>9 DEF NextByHeal
      <3> QED BY <2>1, <2>2, <2>10, <3>1, LeveledStep
    <2>12. \A p : p \in DOMAIN a[k] <=> \E i \in 1 .. k : p = s[i]
      BY <1>7
    <2>13. \A i : i \in 1 .. j <=> i \in 1 .. k \/ i = j
      OBVIOUS
    <2>14. \A p : p \in DOMAIN a[j] <=> \E i \in 1 .. j : p = s[i]
      BY <2>11, <2>12, <2>13
    <2>15. j \in 0 .. n
      OBVIOUS
    <2> QED BY <2>11, <2>14, <2>15
  <1>8. n \in P
    <2> HIDE DEF P
    <2> QED BY <1>6, <1>7, NatInd
  <1>9. /\ SidesOk(x) /\ Leveled(x)
        /\ \A p : p \in DOMAIN x <=> \E i \in 1 .. n : p = s[i]
    BY <1>4, <1>8
  <1>10. DOMAIN x = Players(ps)
    <2>1. \A p : p \in ToSet(s) <=> \E i \in 1 .. n : p = s[i]
      BY DEF ToSet
    <2> QED BY <1>2, <1>9, <2>1
  <1>11. ClassImbalance(x) = 0
    <2>1. \A c \in Classes : Lead(x, c) = 0
      BY <1>9, <1>10, LeadParity DEF Leveled, AllEven
    <2>2. \A c \in Classes : Gap(x, c) = 0
      BY <1>9, <2>1, SizeSum DEF Abs
    <2>3. Medic \in Classes /\ Robotics \in Classes /\ Assault \in Classes /\ Recon \in Classes
      BY DEF Classes
    <2>4. ClassImbalance(x) = Gap(x, Medic) + Gap(x, Robotics) + Gap(x, Assault) + Gap(x, Recon)
      BY <1>9, ImbalanceSum DEF SidesOk
    <2> QED BY <2>2, <2>3, <2>4
  <1> QED BY <1>10, <1>11

\* A round drops a party while a class is odd.
LEMMA DropOddSteps ==
    ASSUME NEW Q, IsFiniteSet(Q), NEW ps \in Seq(PartyOf(Q)), NEW y, y = DropOdd(ps)
    PROVE  IF OddClasses(ps) = {} THEN y = ps ELSE Len(ps) > 0 /\ Len(y) = Len(ps) - 1
  <1>1. CASE OddClasses(ps) = {}
    BY <1>1 DEF DropOdd
  <1>2. CASE OddClasses(ps) # {}
    <2> PICK v : v = Victim(ps, Min(OddClasses(ps)))
      OBVIOUS
    <2>1. v \in 1 .. Len(ps)
      BY <1>2, VictimThere
    <2>2. y = RemoveAt(ps, v)
      BY <1>2 DEF DropOdd
    <2>3. Removed(y, ps, v)
      BY <2>1, <2>2, RemoveAtSteps
    <2>4. Len(ps) \in Nat
      OBVIOUS
    <2> QED BY <1>2, <2>1, <2>3, <2>4 DEF Removed
  <1> QED BY <1>1, <1>2

\* No parties have no odd class.
LEMMA NoPartiesEven == ASSUME NEW ps, ps = <<>> PROVE OddClasses(ps) = {}
  <1>1. Players(ps) = {}
    BY DEF Players
  <1>2. \A c : {q \in {} : q.class = c} = {}
    OBVIOUS
  <1>3. \A c : Count(Players(ps), c) = 0
    BY <1>1, <1>2, FS_EmptySet DEF Count
  <1>4. 0 % 2 # 1
    OBVIOUS
  <1> QED BY <1>3, <1>4 DEF OddClasses

\* As many rounds as there were parties are enough: none is left or every class is even.
LEMMA SelectEven ==
    ASSUME NEW Q, IsFiniteSet(Q), NEW ps \in Seq(PartyOf(Q)), NEW cap, NEW fair,
           NEW y, y = SelectClassEqualSubset(ps, cap, fair)
    PROVE  AllEven(y)
  <1>1. PICK X : X = Seq(PartyOf(Q))
    OBVIOUS
  <1>2. PICK s \in X : s = Chosen(ps, cap, fair)
    <2>1. Chosen(ps, cap, fair) \in Seq(PartyOf(Q))
      BY ByPriorityType, PackType DEF Chosen
    <2> QED BY <1>1, <2>1
  <1>3. \A x \in X : DropOdd(x) \in X
    <2>1. PartyOf(Q) \in SUBSET PartyOf(Q)
      OBVIOUS
    <2> QED BY <1>1, <2>1, DropOddType
  <1> PICK n \in Nat : n = Len(s)
    BY <1>1
  <1>4. PICK a \in [0 .. n -> X] : DropTrace(a, s, y)
    <2>1. X \in SUBSET Seq(PartyOf(Q))
      BY <1>1
    <2> QED BY <1>2, <1>3, <2>1, SelectSteps
  <1>5. \A x \in X : Len(x) \in Nat
    BY <1>1
  <1> DEFINE Done(x, k) == OddClasses(x) = {} \/ Len(x) <= n - k
             P == {k \in 0 .. n : Done(a[k], k)}
  <1>6. 0 \in P
    BY <1>4, <1>5 DEF DropTrace
  <1>7. ASSUME NEW k \in 0 .. n - 1, k \in P PROVE k + 1 \in P
    <2> PICK j \in 1 .. n : j = k + 1
      OBVIOUS
    <2>1. a[j] = DropOdd(a[k])
      <3>1. j - 1 = k
        OBVIOUS
      <3> QED BY <1>4, <3>1 DEF DropTrace
    <2>2. a[k] \in X /\ a[j] \in X
      OBVIOUS
    <2>3. IF OddClasses(a[k]) = {} THEN a[j] = a[k] ELSE Len(a[k]) > 0 /\ Len(a[j]) = Len(a[k]) - 1
      BY <1>1, <2>1, <2>2, DropOddSteps
    <2>4. Done(a[k], k)
      BY <1>7
    <2>5. Len(a[k]) \in Nat /\ Len(a[j]) \in Nat
      BY <1>5, <2>2
    <2>6. Done(a[j], j)
      BY <2>3, <2>4, <2>5
    <2> QED BY <2>6
  <1>8. n \in P
    <2> HIDE DEF P
    <2> QED BY <1>6, <1>7, NatInd
  <1>9. a[n] = y
    BY <1>4 DEF DropTrace
  <1>10. OddClasses(y) = {}
    <2>1. y \in Seq(PartyOf(Q))
      BY <1>1, <1>9
    <2>2. OddClasses(y) = {} \/ Len(y) <= 0
      BY <1>8, <1>9
    <2>3. Len(y) <= 0 => y = <<>>
      BY <2>1
    <2> QED BY <2>2, <2>3, NoPartiesEven
  <1>11. ASSUME NEW c \in Classes PROVE Count(Players(y), c) % 2 = 0
    <2>1. y \in Seq(PartyOf(Q))
      BY <1>1, <1>9
    <2>2. IsFiniteSet(Players(y))
      BY <2>1, PlayersType, FS_Subset
    <2> PICK m : m = Count(Players(y), c)
      OBVIOUS
    <2>3. m \in Nat
      BY <2>2, CountType
    <2>4. m % 2 # 1
      BY <1>10 DEF OddClasses
    <2> QED BY <2>3, <2>4
  <1> QED BY <1>11 DEF AllEven

\* A group gets a side, and nobody loses one.
LEMMA PlaceGroupDomain ==
    ASSUME NEW a, NEW S, NEW unrated, NEW b, b = PlaceGroup(a, S, unrated)
    PROVE  \A q : q \in DOMAIN b <=> q \in DOMAIN a \/ q \in S
  <1>1. b = Put(a, S, 1) \/ b = Put(a, S, 2)
    BY DEF PlaceGroup
  <1>2. \A t : DOMAIN Put(a, S, t) = DOMAIN a \cup S
    BY DEF Put
  <1> QED BY <1>1, <1>2

\* Whole parties get sides for all their players.
LEMMA WholeDomain ==
    ASSUME NEW Q, NEW ps \in Seq(PartyOf(Q)), NEW unrated, NEW x, x = AssignWhole(ps, Nobody, unrated)
    PROVE  DOMAIN x = Players(ps)
  <1> PICK s : s = BySize(ps)
    OBVIOUS
  <1>1. s \in Seq(PartyOf(Q)) /\ ToSet(s) = ToSet(ps)
    BY SortType, SortSet DEF BySize
  <1> PICK n \in Nat : n = Len(s) /\ DOMAIN s = 1 .. n
    BY <1>1
  <1>2. PICK a \in [0 .. n -> SideMaps(Q)] :
              /\ a[0] = Nobody /\ a[n] = x
              /\ \A k \in 1 .. n : a[k] = PlaceGroup(a[k - 1], Members(s[k]), unrated)
    <2>1. Nobody \in SideMaps(Q)
      BY NobodyType
    <2>2. PICK a \in [0 .. Len(s) -> SideMaps(Q)] :
              /\ a[0] = Nobody /\ a[Len(s)] = x
              /\ \A k \in 1 .. Len(s) : a[k] = PlaceGroup(a[k - 1], Members(s[k]), unrated)
      BY <2>1, AssignWholeSteps
    <2> QED BY <2>2
  <1> DEFINE Done(k) == \A q : q \in DOMAIN a[k] <=> \E i \in 1 .. k : q \in Members(s[i])
             P == {k \in 0 .. n : Done(k)}
  <1>3. 0 \in P
    <2>1. 1 .. 0 = {} /\ 0 \in 0 .. n
      OBVIOUS
    <2>2. DOMAIN Nobody = {}
      BY DEF Nobody
    <2> QED BY <1>2, <2>1, <2>2
  <1>4. ASSUME NEW k \in 0 .. n - 1, k \in P PROVE k + 1 \in P
    <2> PICK j \in 1 .. n : j = k + 1
      OBVIOUS
    <2>1. a[j] = PlaceGroup(a[k], Members(s[j]), unrated)
      <3>1. j - 1 = k
        OBVIOUS
      <3> QED BY <1>2, <3>1
    <2>2. \A q : q \in DOMAIN a[j] <=> q \in DOMAIN a[k] \/ q \in Members(s[j])
      BY <2>1, PlaceGroupDomain
    <2>3. \A q : q \in DOMAIN a[k] <=> \E i \in 1 .. k : q \in Members(s[i])
      BY <1>4
    <2>4. \A i : i \in 1 .. j <=> i \in 1 .. k \/ i = j
      OBVIOUS
    <2>5. \A q : q \in DOMAIN a[j] <=> \E i \in 1 .. j : q \in Members(s[i])
      BY <2>2, <2>3, <2>4
    <2>6. j \in 0 .. n
      OBVIOUS
    <2> QED BY <2>5, <2>6
  <1>5. n \in P
    <2> HIDE DEF P
    <2> QED BY <1>3, <1>4, NatInd
  <1>6. \A q : q \in DOMAIN x <=> \E i \in 1 .. n : q \in Members(s[i])
    BY <1>2, <1>5
  <1>7. \A q : q \in Players(ps) <=> \E i \in 1 .. n : q \in Members(s[i])
    <2>1. \A q : q \in Players(ps) <=> \E p \in ToSet(ps) : q \in Members(p)
      BY DEF Players, ToSet
    <2>2. \A p : p \in ToSet(s) <=> \E i \in 1 .. n : p = s[i]
      BY DEF ToSet
    <2> QED BY <1>1, <2>1, <2>2
  <1> QED BY <1>6, <1>7

\* SidePlacement::Assign of parties that are even in each class, unless they must stay
\* whole: 'preferred' takes whole parties only where they are as equal.
LEMMA AssignEven ==
    ASSUME NEW Q, IsFiniteSet(Q), \A q \in Q : q.class \in Classes,
           NEW ps \in Seq(PartyOf(Q)), AllEven(ps),
           NEW cfg, cfg.force = "pvp", cfg.side \in {"ignore", "preferred"},
           NEW x, x = Assign(cfg, ps, Nobody)
    PROVE  DOMAIN x = Players(ps) /\ ClassImbalance(x) = 0
  <1> PICK w : w = AssignWhole(ps, Nobody, {})
    OBVIOUS
  <1> PICK v : v = AssignIndividual(ps, Nobody, {})
    OBVIOUS
  <1>1. DOMAIN v = Players(ps) /\ ClassImbalance(v) = 0
    BY IndividualEven
  <1>2. DOMAIN w = Players(ps)
    BY WholeDomain
  <1>3. ClassImbalance(w) \in Nat
    <2>1. IsFiniteSet(Players(ps))
      BY PlayersType, FS_Subset
    <2> QED BY <1>2, <2>1, ImbalanceNat
  <1>4. x = v \/ (x = w /\ ~(ClassImbalance(v) < ClassImbalance(w)))
    BY DEF Assign
  <1> QED BY <1>1, <1>2, <1>3, <1>4

\* A new match that is not locked to its parties has equal sides.
EvenIfNew(r) == r.inst = 0 /\ r.access # "PARTY_LOCKED" => ClassImbalance(r.tf) = 0

\* A queue with strict_class_balance whose teams may be divided.
StrictSides(cfg) == cfg.force = "pvp" /\ cfg.strict /\ cfg.side \in {"ignore", "preferred"}

\* No result has no players.
LEMMA NoResultEven == EvenIfNew(NoResult)
  <1>1. DOMAIN Nobody = {}
    BY DEF Nobody
  <1> QED BY <1>1, NoneEven DEF EvenIfNew, NoResult

\* No joinable instance has the id of a new one.
LEMMA InstId ==
    ASSUME NEW Q, NEW insts \in Seq(InstOf(Q)), NEW k \in DOMAIN insts
    PROVE  insts[k].id # 0
  <1>1. insts[k] \in InstOf(Q)
    OBVIOUS
  <1> QED BY <1>1 DEF InstOf

\* A new match takes a subset that is even in each class and divides it equally.
LEMMA PlacePoolEven ==
    ASSUME NEW Q, IsFiniteSet(Q), \A q \in Q : q.class \in Classes, NEW ps \in Seq(PartyOf(Q)),
           NEW insts \in Seq(InstOf(Q)), NEW fair, NEW cfg, StrictSides(cfg)
    PROVE  EvenIfNew(PlacePool(cfg, ps, insts, fair))
  <1> DEFINE backfill == cfg.force = "pvp" /\ cfg.backfill
             short    == {i \in DOMAIN insts : /\ insts[i].access = "BACKFILL_ONLY"
                                               /\ Backfill(cfg, ps, insts[i], fair).taken # <<>>}
             open     == {i \in DOMAIN insts : /\ insts[i].access = "OPEN"
                                               /\ PackParties(ps, insts[i].free) # <<>>}
             seats    == IF cfg.cap > 0 THEN cfg.cap ELSE -1
             chosen   == IF cfg.force = "pvp" /\ cfg.strict THEN SelectClassEqualSubset(ps, cfg.cap, fair)
                                                            ELSE PackParties(ps, seats)
             s        == insts[Min(short)]
             o        == insts[Min(open)]
             plan     == Backfill(cfg, ps, s, fair)
             fit      == PackParties(ps, o.free)
             repair   == Taken(plan.taken, plan.tf, s.id, s.access, cfg.cap)
             dropin   == Taken(fit, Assign(cfg, fit, o.tf), o.id, "OPEN", cfg.cap)
             fresh    == Taken(chosen, Assign(cfg, chosen, Nobody), 0,
                               IF backfill THEN "BACKFILL_ONLY" ELSE "OPEN",
                               IF backfill THEN Heads(chosen) ELSE cfg.cap)
             new      == IF chosen = <<>> THEN NoResult ELSE fresh
  <1>a. DOMAIN insts \in SUBSET Nat
    OBVIOUS
  <1>1. ASSUME short # {} PROVE EvenIfNew(repair)
    <2>1. Min(short) \in short
      <3>1. short \in SUBSET Nat
        BY <1>a
      <3> HIDE DEF short
      <3> QED BY <1>1, <3>1, MinNat
    <2> PICK k \in DOMAIN insts : k = Min(short)
      BY <2>1
    <2>2. insts[k].id # 0
      BY InstId
    <2>3. repair.inst = insts[k].id
      BY DEF Taken
    <2> HIDE DEF repair
    <2> QED BY <2>2, <2>3 DEF EvenIfNew, Taken
  <1>2. ASSUME open # {} PROVE EvenIfNew(dropin)
    <2>1. Min(open) \in open
      <3>1. open \in SUBSET Nat
        BY <1>a
      <3> HIDE DEF open
      <3> QED BY <1>2, <3>1, MinNat
    <2> PICK k \in DOMAIN insts : k = Min(open)
      BY <2>1
    <2>2. insts[k].id # 0
      BY InstId
    <2>3. dropin.inst = insts[k].id
      BY DEF Taken
    <2> HIDE DEF dropin
    <2> QED BY <2>2, <2>3 DEF EvenIfNew, Taken
  <1>3. EvenIfNew(fresh)
    <2> PICK y : y = chosen
      OBVIOUS
    <2>1. y = SelectClassEqualSubset(ps, cfg.cap, fair)
      BY DEF StrictSides
    <2>2. y \in Seq(PartyOf(Q))
      <3>1. PartyOf(Q) \in SUBSET PartyOf(Q)
        OBVIOUS
      <3>2. \A x \in Seq(PartyOf(Q)) : DropOdd(x) \in Seq(PartyOf(Q))
        BY <3>1, DropOddType
      <3>3. Chosen(ps, cfg.cap, fair) \in Seq(PartyOf(Q))
        BY ByPriorityType, PackType DEF Chosen
      <3>4. Seq(PartyOf(Q)) \in SUBSET Seq(PartyOf(Q))
        OBVIOUS
      <3> QED BY <2>1, <3>2, <3>3, <3>4, SelectKeeps
    <2>3. AllEven(y)
      BY <2>1, SelectEven
    <2> PICK x : x = Assign(cfg, y, Nobody)
      OBVIOUS
    <2>4. DOMAIN x = Players(y) /\ ClassImbalance(x) = 0
      BY <2>2, <2>3, AssignEven DEF StrictSides
    <2>5. x \in SideMaps(Q)
      BY <2>2, NobodyType, AssignType DEF StrictSides
    <2>6. x = [q \in Players(y) |-> x[q]]
      BY <2>4, <2>5, SideMapType
    <2> HIDE DEF chosen, backfill
    <2>7. fresh.tf = [q \in Players(y) |-> IF q \in DOMAIN x THEN x[q] ELSE 1]
      BY DEF Taken
    <2>8. fresh.tf = [q \in Players(y) |-> x[q]]
      BY <2>4, <2>7
    <2> QED BY <2>4, <2>6, <2>8 DEF EvenIfNew
  <1>4. EvenIfNew(new)
    BY <1>3, NoResultEven
  <1>5. PlacePool(cfg, ps, insts, fair) =
           CASE backfill /\ short # {}                    -> repair
             [] ~(backfill /\ short # {}) /\ open # {}    -> dropin
             [] ~(backfill /\ short # {}) /\ open = {}    -> new
    BY DEF PlacePool
  <1> HIDE DEF repair, dropin, new, short, open, backfill
  <1> QED BY <1>1, <1>2, <1>4, <1>5

\* CoopMatchRule, for whatever part of the queue it places.
LEMMA CoopEven ==
    ASSUME NEW Q, IsFiniteSet(Q), \A q \in Q : q.class \in Classes, NEW ps \in Seq(PartyOf(Q)),
           NEW insts \in Seq(InstOf(Q)), NEW fair, NEW cfg, GoodConfig(cfg), StrictSides(cfg), NEW solo
    PROVE  EvenIfNew(CoopRule(cfg, ps, insts, fair, solo))
  <1> DEFINE wants(p) == cfg.min <= 1 /\ ~p.team /\ p.members[1].id \in solo
             locked   == Keep(ps, {p \in ToSet(ps) : wants(p)})
             teams    == Keep(ps, {p \in ToSet(ps) : p.team})
             solos    == Keep(ps, {p \in ToSet(ps) : ~p.team /\ ~wants(p)})
             mixed    == Keep(ps, {p \in ToSet(ps) : p.team \/ ~wants(p)})
             pool(s)  == IF s = <<>> THEN NoResult ELSE PlacePool(cfg, s, insts, fair)
  <1>1. solos \in Seq(PartyOf(Q)) /\ mixed \in Seq(PartyOf(Q))
    <2>1. \A S : Keep(ps, S) \in Seq(PartyOf(Q))
      BY KeepPart
    <2> QED BY <2>1
  <1>2. CoopRule(cfg, ps, insts, fair, solo) =
           CASE locked # <<>>                                     -> OwnMatch(cfg, locked[1])
             [] locked = <<>> /\ cfg.team = "own" /\ teams # <<>> -> OwnMatch(cfg, teams[1])
             [] locked = <<>> /\ cfg.team = "own" /\ teams = <<>> -> pool(solos)
             [] locked = <<>> /\ cfg.team = "block"               -> pool(solos)
             [] locked = <<>> /\ cfg.team = "mixed"               -> pool(mixed)
    BY DEF CoopRule
  <1> HIDE DEF locked, teams, solos, mixed
  <1>3. \A p : EvenIfNew(OwnMatch(cfg, p))
    BY DEF EvenIfNew, OwnMatch, Taken
  <1>4. \A s \in Seq(PartyOf(Q)) : EvenIfNew(pool(s))
    <2> SUFFICES ASSUME NEW s \in Seq(PartyOf(Q)) PROVE EvenIfNew(pool(s))
      OBVIOUS
    <2>1. EvenIfNew(PlacePool(cfg, s, insts, fair))
      BY PlacePoolEven
    <2> QED BY <2>1, NoResultEven
  <1> HIDE DEF pool
  <1>5. cfg.team \in {"own", "mixed", "block"}
    BY DEF GoodConfig
  <1> QED BY <1>1, <1>2, <1>3, <1>4, <1>5

-----------------------------------------------------------------------------
(* Fair exclusions.                                                       *)

\* The elements Keep keeps.
LEMMA KeepSet ==
    ASSUME NEW P, NEW s \in Seq(P), NEW S, NEW y, y = Keep(s, S)
    PROVE  ToSet(y) = ToSet(s) \cap S
  <1> PICK n \in Nat : n = Len(s) /\ DOMAIN s = 1 .. n
    OBVIOUS
  <1>1. PICK a \in [0 .. n -> Seq(P)] :
           /\ a[0] = <<>> /\ a[n] = y
           /\ \A k \in 1 .. n :
                 a[k] = IF s[k] \in S THEN Append(a[k - 1], s[k]) ELSE a[k - 1]
    <2>1. PICK a \in [0 .. Len(s) -> Seq(P)] :
           /\ a[0] = <<>> /\ a[Len(s)] = y
           /\ \A k \in 1 .. Len(s) :
                 a[k] = IF s[k] \in S THEN Append(a[k - 1], s[k]) ELSE a[k - 1]
      BY KeepSteps
    <2> QED BY <2>1
  <1> DEFINE Done(k) == \A e : e \in ToSet(a[k]) <=> e \in S /\ \E i \in 1 .. k : e = s[i]
             M == {k \in 0 .. n : Done(k)}
  <1>2. 0 \in M
    <2>1. ToSet(a[0]) = {} /\ 1 .. 0 = {} /\ 0 \in 0 .. n
      BY <1>1 DEF ToSet
    <2> QED BY <2>1
  <1>3. ASSUME NEW k \in 0 .. n - 1, k \in M PROVE k + 1 \in M
    <2> PICK j \in 1 .. n : j = k + 1
      OBVIOUS
    <2> PICK x \in Seq(P) : x = a[k]
      OBVIOUS
    <2> PICK p \in P : p = s[j]
      OBVIOUS
    <2>1. a[j] = IF p \in S THEN Append(x, p) ELSE x
      <3>1. j - 1 = k
        OBVIOUS
      <3> QED BY <1>1, <3>1, Zenon
    <2>2. \A e : e \in ToSet(Append(x, p)) <=> e \in ToSet(x) \/ e = p
      <3> PICK m \in Nat : m = Len(x) /\ DOMAIN x = 1 .. m
        OBVIOUS
      <3> PICK z : z = Append(x, p)
        OBVIOUS
      <3>1. DOMAIN z = 1 .. m + 1 /\ z[m + 1] = p /\ \A i \in 1 .. m : z[i] = x[i]
        OBVIOUS
      <3>2. \A i : i \in 1 .. m + 1 <=> i \in 1 .. m \/ i = m + 1
        OBVIOUS
      <3>3. \A e : e \in ToSet(z) <=> \E i \in 1 .. m + 1 : e = z[i]
        BY <3>1 DEF ToSet
      <3>4. \A e : e \in ToSet(x) <=> \E i \in 1 .. m : e = x[i]
        BY DEF ToSet
      <3>5. ASSUME NEW e \in ToSet(x) PROVE e \in ToSet(z)
        <4>1. PICK i \in 1 .. m : e = x[i]
          BY <3>4
        <4>2. i \in 1 .. m + 1 /\ e = z[i]
          BY <3>1, <4>1
        <4> QED BY <3>3, <4>2
      <3>6. p \in ToSet(z)
        BY <3>1, <3>2, <3>3
      <3>7. ASSUME NEW e \in ToSet(z), e # p PROVE e \in ToSet(x)
        <4>1. PICK i \in 1 .. m + 1 : e = z[i]
          BY <3>3
        <4>2. i \in 1 .. m
          BY <3>1, <3>2, <3>7, <4>1
        <4> QED BY <3>1, <3>4, <4>1, <4>2
      <3> QED BY <3>5, <3>6, <3>7
    <2>3. \A e : e \in ToSet(x) <=> e \in S /\ \E i \in 1 .. k : e = s[i]
      BY <1>3
    <2>4. \A i : i \in 1 .. j <=> i \in 1 .. k \/ i = j
      OBVIOUS
    <2>5. Done(j)
      <3>1. CASE p \in S
        <4>1. a[j] = Append(x, p)
          BY <2>1, <3>1
        <4> QED BY <2>2, <2>3, <2>4, <3>1, <4>1
      <3>2. CASE p \notin S
        <4>1. a[j] = x
          BY <2>1, <3>2
        <4> QED BY <2>3, <2>4, <3>2, <4>1
      <3> QED BY <3>1, <3>2
    <2>6. j \in 0 .. n
      OBVIOUS
    <2> QED BY <2>5, <2>6
  <1>4. n \in M
    <2> HIDE DEF M
    <2> QED BY <1>2, <1>3, NatInd
  <1>5. \A e : e \in ToSet(s) <=> \E i \in 1 .. n : e = s[i]
    BY DEF ToSet
  <1>6. \A e : e \in ToSet(y) <=> e \in S /\ \E i \in 1 .. n : e = s[i]
    BY <1>1, <1>4
  <1> QED BY <1>5, <1>6

\* FairnessStats of the players in Q, as far as a rule reads them.
FairOf(Q, fair) ==
    \A q \in Q : /\ fair[q.id].excluded \in Nat
                 /\ fair[q.id].lifetime \in Nat
                 /\ fair[q.id].played \in Nat

\* Parties of players in Q that have a player.
Filled(Q) == {p \in PartyOf(Q) : Size(p) > 0}

\* Parties that have a player are parties.
LEMMA FilledType ==
    ASSUME NEW Q, NEW s \in Seq(Filled(Q))
    PROVE  s \in Seq(PartyOf(Q)) /\ Heads(s) \in Nat
  <1>1. Filled(Q) \in SUBSET PartyOf(Q)
    BY DEF Filled
  <1>2. s \in Seq(PartyOf(Q))
    BY <1>1
  <1> QED BY <1>2, HeadsType

\* A rate is a number.
LEMMA ExclusionRateNat ==
    ASSUME NEW f, f.lifetime \in Nat, f.played \in Nat
    PROVE  ExclusionRate(f) \in Nat
  <1> PICK l \in Nat, n \in Nat : l = f.lifetime /\ n = f.played
    OBVIOUS
  <1>1. CASE l + n = 0
    BY <1>1 DEF ExclusionRate
  <1>2. CASE l + n # 0
    <2> PICK d \in Nat : d = l + n /\ d > 0
      BY <1>2
    <2> PICK x \in Nat : x = 60 * l
      OBVIOUS
    <2>1. x \div d \in Nat
      OBVIOUS
    <2> QED BY <1>2, <2>1 DEF ExclusionRate
  <1> QED BY <1>1, <1>2

\* What a party is sorted by are numbers.
LEMMA ClaimsNat ==
    ASSUME NEW Q, NEW p \in Filled(Q), NEW fair, FairOf(Q, fair)
    PROVE  Exclusions(p, fair) \in Nat /\ PartyRate(p, fair) \in Nat
  <1>0. p \in PartyOf(Q) /\ Size(p) > 0
    BY DEF Filled
  <1>1. IsFiniteSet(Members(p)) /\ Members(p) \in SUBSET Q
    BY <1>0, MembersBound, MembersType
  <1>2. Members(p) # {}
    <2>1. p.members \in Seq(Q) /\ Len(p.members) > 0
      BY <1>0 DEF PartyOf, Size
    <2>2. 1 \in DOMAIN p.members
      BY <2>1
    <2>3. p.members[1] \in Members(p)
      BY <2>2 DEF Members, ToSet
    <2> QED BY <2>3
  <1> PICK M : M = Members(p)
    OBVIOUS
  <1>3. ASSUME NEW F \in [M -> Nat] PROVE Max({F[q] : q \in M}) \in Nat
    <2> DEFINE T == {F[q] : q \in M}
    <2>1. F \in Surjection(M, T)
      BY DEF Surjection
    <2>2. IsFiniteSet(T)
      BY <1>1, <2>1, FS_Surjection
    <2>3. T \in SUBSET Nat /\ T # {}
      BY <1>2
    <2> HIDE DEF T
    <2>4. Max(T) \in T
      BY <2>2, <2>3, MaxNat
    <2> QED BY <2>3, <2>4 DEF T
  <1>4. Exclusions(p, fair) \in Nat
    <2> DEFINE F == [q \in M |-> fair[q.id].excluded]
    <2>1. F \in [M -> Nat]
      BY <1>1 DEF FairOf
    <2>2. {fair[q.id].excluded : q \in M} = {F[q] : q \in M}
      OBVIOUS
    <2> HIDE DEF F
    <2>3. Max({F[q] : q \in M}) \in Nat
      BY <1>3, <2>1
    <2> QED BY <2>2, <2>3 DEF Exclusions
  <1>5. PartyRate(p, fair) \in Nat
    <2> DEFINE F == [q \in M |-> ExclusionRate(fair[q.id])]
    <2>1. F \in [M -> Nat]
      BY <1>1, ExclusionRateNat DEF FairOf
    <2>2. {ExclusionRate(fair[q.id]) : q \in M} = {F[q] : q \in M}
      OBVIOUS
    <2> HIDE DEF F
    <2>3. Max({F[q] : q \in M}) \in Nat
      BY <1>3, <2>1
    <2> QED BY <2>2, <2>3 DEF PartyRate
  <1> QED BY <1>4, <1>5

\* The most often excluded come first.
Descends(t, fair) ==
    \A i, j \in DOMAIN t : i < j => Exclusions(t[j], fair) <= Exclusions(t[i], fair)

\* PartiesByPriority sorts by exclusions.
LEMMA PrioritySorted ==
    ASSUME NEW Q, NEW s \in Seq(Filled(Q)), NEW fair, FairOf(Q, fair),
           NEW t, t = PartiesByPriority(s, fair)
    PROVE  t \in Seq(Filled(Q)) /\ ToSet(t) = ToSet(s) /\ Descends(t, fair)
  <1> DEFINE before == {d \in (DOMAIN s) \X (DOMAIN s) :
                 \/ Exclusions(s[d[1]], fair) > Exclusions(s[d[2]], fair)
                 \/ /\ Exclusions(s[d[1]], fair) = Exclusions(s[d[2]], fair)
                    /\ PartyRate(s[d[1]], fair) > PartyRate(s[d[2]], fair)}
  <1>1. t = Arranged(s, Insertion(s, before))
    BY DEF PartiesByPriority, StableSort
  <1>2. PICK n \in Nat : n = Len(s) /\ DOMAIN s = 1 .. n
    OBVIOUS
  <1>3. PICK h \in [1 .. n -> Nat], r \in [1 .. n -> Nat] :
           \A x \in 1 .. n : h[x] = Exclusions(s[x], fair) /\ r[x] = PartyRate(s[x], fair)
    <2> DEFINE h == [x \in 1 .. n |-> Exclusions(s[x], fair)]
               r == [x \in 1 .. n |-> PartyRate(s[x], fair)]
    <2>1. \A x \in 1 .. n : s[x] \in Filled(Q)
      BY <1>2
    <2>2. /\ h \in [1 .. n -> Nat] /\ r \in [1 .. n -> Nat]
          /\ \A x \in 1 .. n : h[x] = Exclusions(s[x], fair) /\ r[x] = PartyRate(s[x], fair)
      BY <2>1, ClaimsNat
    <2> QED BY <2>2
  <1>4. \A x, y \in 1 .. n : <<x, y>> \in before <=> h[x] > h[y] \/ (h[x] = h[y] /\ r[x] > r[y])
    BY <1>2, <1>3
  <1>5. t \in Seq(Filled(Q)) /\ ToSet(t) = ToSet(s)
    BY <1>1, SortType, SortSet
  <1> PICK o : o = Insertion(s, before)
    OBVIOUS
  <1>6. t = Arranged(s, o)
    BY <1>1
  <1> HIDE DEF before
  <1>7. WeakOrder(before, n)
    <2>1. \A x \in 1 .. n : h[x] \in Nat /\ r[x] \in Nat
      BY <1>3
    <2>2. ASSUME NEW x \in 1 .. n, NEW y \in 1 .. n, <<x, y>> \in before
          PROVE  <<y, x>> \notin before
      <3>1. h[x] > h[y] \/ (h[x] = h[y] /\ r[x] > r[y])
        BY <1>4, <2>2
      <3>2. ~(h[y] > h[x] \/ (h[y] = h[x] /\ r[y] > r[x]))
        BY <2>1, <3>1
      <3> QED BY <1>4, <3>2
    <2>3. \A x, y, z \in 1 .. n : <<x, z>> \in before => <<x, y>> \in before \/ <<y, z>> \in before
      BY <1>4, <2>1
    <2> QED BY <2>2, <2>3 DEF WeakOrder
  <1>8. Listed(o, n) /\ Sorted(o, n, before)
    BY <1>2, <1>7, InsertionOrder
  <1>9. DOMAIN o = 1 .. n /\ \A i \in 1 .. n : o[i] \in 1 .. n
    <2>1. o \in Seq(1 .. n) /\ Len(o) = n
      BY <1>8 DEF Listed
    <2> QED BY <2>1
  <1>10. DOMAIN t = 1 .. n /\ \A i \in 1 .. n : t[i] = s[o[i]]
    BY <1>6, <1>9 DEF Arranged
  <1>11. ASSUME NEW i \in 1 .. n, NEW j \in 1 .. n, i < j
         PROVE  Exclusions(t[j], fair) <= Exclusions(t[i], fair)
    <2>1. o[i] \in 1 .. n /\ o[j] \in 1 .. n
      BY <1>9
    <2>2. <<o[j], o[i]>> \notin before
      BY <1>8, <1>11 DEF Sorted
    <2>3. ~(h[o[j]] > h[o[i]])
      BY <1>4, <2>1, <2>2
    <2>4. h[o[j]] <= h[o[i]]
      BY <1>3, <2>1, <2>3
    <2> QED BY <1>3, <1>10, <2>1, <2>4
  <1> QED BY <1>5, <1>10, <1>11 DEF Descends

\* Two parties of one player, of the same class.
Alike(p, q) == Size(p) = 1 /\ Size(q) = 1 /\ p.members[1].class = q.members[1].class

\* Nobody in S is passed over for one of x who is like him and was excluded less often.
Foremost(x, S, fair) ==
    \A p \in ToSet(x), q \in S \ ToSet(x) : Alike(p, q) => Exclusions(q, fair) <= Exclusions(p, fair)

\* One more solo does not fit behind x, and none of x was excluded less often than q.
Late(x, q, seats, fair) ==
    /\ seats >= 0 /\ Heads(x) + 1 > seats
    /\ \A i \in DOMAIN x : Size(x[i]) = 1 => Exclusions(q, fair) <= Exclusions(x[i], fair)

\* A solo who is passed over found no seat, and then nobody behind him who is like him
\* finds one.
LEMMA PackFirst ==
    ASSUME NEW Q, NEW t \in Seq(Filled(Q)), NEW fair, FairOf(Q, fair), Descends(t, fair),
           NEW seats \in Int, NEW y, y = PackParties(t, seats)
    PROVE  y \in Seq(Filled(Q)) /\ Descends(y, fair) /\ Foremost(y, ToSet(t), fair)
  <1> PICK n \in Nat : n = Len(t) /\ DOMAIN t = 1 .. n
    OBVIOUS
  <1>0. PICK a \in [0 .. n -> Seq(Filled(Q))] : PackTrace(a, t, seats)
    BY PackSteps
  <1>1. /\ a[0] = <<>> /\ a[n] = y
        /\ \A k \in 1 .. n :
              a[k] = IF seats >= 0 /\ Heads(a[k - 1]) + Size(t[k]) > seats
                     THEN a[k - 1] ELSE Append(a[k - 1], t[k])
    BY <1>0, Zenon DEF PackTrace
  <1>2. \A p \in Filled(Q) : Exclusions(p, fair) \in Nat /\ Size(p) \in Nat
    <2>1. \A p \in PartyOf(Q) : Size(p) \in Nat
      BY DEF PartyOf, Size
    <2> QED BY <2>1, ClaimsNat DEF Filled
  <1> DEFINE Ahead(k, x) == \A i \in DOMAIN x : \A l \in k + 1 .. n : Exclusions(t[l], fair) <= Exclusions(x[i], fair)
             Fate(k, x) == \A l \in 1 .. k : \/ \E i \in DOMAIN x : x[i] = t[l]
                                             \/ Size(t[l]) # 1
                                             \/ Late(x, t[l], seats, fair)
             Done(k, x) == Ahead(k, x) /\ Descends(x, fair) /\ Fate(k, x)
             M == {k \in 0 .. n : Done(k, a[k])}
  <1>3. 0 \in M
    <2>1. DOMAIN a[0] = {} /\ 1 .. 0 = {} /\ 0 \in 0 .. n
      BY <1>1
    <2> QED BY <2>1 DEF Descends
  <1>4. ASSUME NEW k \in 0 .. n - 1, k \in M PROVE k + 1 \in M
    <2> PICK j \in 1 .. n : j = k + 1
      OBVIOUS
    <2> PICK p \in Filled(Q) : p = t[j]
      OBVIOUS
    <2> PICK x \in Seq(Filled(Q)) : x = a[k]
      OBVIOUS
    <2> PICK z \in Seq(Filled(Q)) : z = a[j]
      OBVIOUS
    <2> PICK m \in Nat : m = Len(x) /\ DOMAIN x = 1 .. m
      OBVIOUS
    <2>1. z = IF seats >= 0 /\ Heads(x) + Size(p) > seats THEN x ELSE Append(x, p)
      <3>1. j - 1 = k
        OBVIOUS
      <3> QED BY <1>1, <3>1, Zenon
    <2>2. Ahead(k, x) /\ Descends(x, fair) /\ Fate(k, x)
      BY <1>4
    <2>3. \A l \in 1 .. j : l \in 1 .. k \/ l = j
      OBVIOUS
    <2>4. \A l \in j + 1 .. n : l \in k + 1 .. n /\ l \in 1 .. n /\ j < l
      OBVIOUS
    <2>5. \A i \in DOMAIN x : x[i] \in Filled(Q)
      OBVIOUS
    <2>6. j \in k + 1 .. n /\ j \in 0 .. n
      OBVIOUS
    <2>h. Heads(x) \in Nat /\ Heads(z) \in Nat
      BY FilledType
    <2>7. CASE seats >= 0 /\ Heads(x) + Size(p) > seats
      <3>1. z = x
        BY <2>1, <2>7
      <3>2. Ahead(j, x)
        BY <2>2, <2>4
      <3>3. Size(p) = 1 => Late(x, p, seats, fair)
        BY <2>2, <2>6, <2>7 DEF Late
      <3>4. Fate(j, x)
        BY <2>2, <2>3, <3>3
      <3> QED BY <2>2, <2>6, <3>1, <3>2, <3>4
    <2>8. CASE ~(seats >= 0 /\ Heads(x) + Size(p) > seats)
      <3>1. z = Append(x, p)
        BY <2>1, <2>8
      <3>2. /\ DOMAIN z = 1 .. m + 1 /\ z[m + 1] = p
            /\ \A i \in 1 .. m : z[i] = x[i]
        BY <3>1
      <3>3. \A i \in 1 .. m + 1 : i \in 1 .. m \/ i = m + 1
        OBVIOUS
      <3>4. Heads(z) = Heads(x) + Size(p)
        <4>1. x \in Seq(PartyOf(Q)) /\ p \in PartyOf(Q)
          BY FilledType DEF Filled
        <4> QED BY <3>1, <4>1, HeadsAppend
      <3>5. Ahead(j, z)
        <4>1. ASSUME NEW i \in DOMAIN z, NEW l \in j + 1 .. n
              PROVE  Exclusions(t[l], fair) <= Exclusions(z[i], fair)
          <5>1. CASE i \in 1 .. m
            BY <2>2, <2>4, <3>2, <5>1
          <5>2. CASE i = m + 1
            BY <2>4, <3>2, <5>2 DEF Descends
          <5> QED BY <3>2, <3>3, <5>1, <5>2
        <4> QED BY <4>1
      <3>6. Descends(z, fair)
        <4>1. ASSUME NEW i \in DOMAIN z, NEW l \in DOMAIN z, i < l
              PROVE  Exclusions(z[l], fair) <= Exclusions(z[i], fair)
          <5>1. i \in 1 .. m /\ (l \in 1 .. m \/ l = m + 1)
            BY <3>2, <4>1
          <5>2. CASE l \in 1 .. m
            BY <2>2, <3>2, <4>1, <5>1, <5>2 DEF Descends
          <5>3. CASE l = m + 1
            BY <2>2, <2>6, <3>2, <5>1, <5>3
          <5> QED BY <5>1, <5>2, <5>3
        <4> QED BY <4>1 DEF Descends
      <3>7. Fate(j, z)
        <4>1. ASSUME NEW l \in 1 .. j
              PROVE  \/ \E i \in DOMAIN z : z[i] = t[l]
                     \/ Size(t[l]) # 1
                     \/ Late(z, t[l], seats, fair)
          <5>1. CASE l = j
            <6>1. m + 1 \in DOMAIN z
              BY <3>2
            <6> QED BY <3>2, <5>1, <6>1
          <5>2. CASE l \in 1 .. k /\ \E i \in DOMAIN x : x[i] = t[l]
            <6>1. \A i \in 1 .. m : i \in DOMAIN z
              BY <3>2
            <6> QED BY <3>2, <5>2, <6>1
          <5>3. CASE Late(x, t[l], seats, fair)
            <6>1. Size(p) # 1 /\ Size(p) \in Nat
              BY <1>2, <2>8, <2>h, <5>3 DEF Late
            <6>2. Heads(z) + 1 > seats /\ seats >= 0
              BY <2>h, <3>4, <5>3, <6>1 DEF Late
            <6>3. \A i \in DOMAIN z : Size(z[i]) = 1 => Exclusions(t[l], fair) <= Exclusions(z[i], fair)
              BY <3>2, <3>3, <5>3, <6>1 DEF Late
            <6> QED BY <6>2, <6>3 DEF Late
          <5> QED BY <2>2, <2>3, <5>1, <5>2, <5>3
        <4> QED BY <4>1
      <3> QED BY <2>6, <3>5, <3>6, <3>7
    <2> QED BY <2>7, <2>8
  <1>5. n \in M
    <2> HIDE DEF M
    <2> QED BY <1>3, <1>4, NatInd
  <1>6. y \in Seq(Filled(Q)) /\ Descends(y, fair) /\ Fate(n, y)
    <2>1. n \in 0 .. n
      OBVIOUS
    <2> QED BY <1>1, <1>5, <2>1
  <1>7. ASSUME NEW p \in ToSet(y), NEW q \in ToSet(t) \ ToSet(y), Alike(p, q)
        PROVE  Exclusions(q, fair) <= Exclusions(p, fair)
    <2>1. PICK l \in 1 .. n : q = t[l]
      BY DEF ToSet
    <2>2. PICK i \in DOMAIN y : p = y[i]
      BY DEF ToSet
    <2>3. ~\E e \in DOMAIN y : y[e] = t[l]
      BY <2>1 DEF ToSet
    <2>4. Size(p) = 1 /\ Size(q) = 1
      BY <1>7 DEF Alike
    <2>5. Late(y, q, seats, fair)
      BY <1>6, <2>1, <2>3, <2>4
    <2> QED BY <2>2, <2>4, <2>5 DEF Late
  <1> QED BY <1>6, <1>7 DEF Foremost

\* A solo counts for his own class.
LEMMA SoloCount ==
    ASSUME NEW Q, NEW p \in PartyOf(Q), Size(p) = 1, NEW c
    PROVE  /\ Count(Members(p), c) = 1 <=> p.members[1].class = c
           /\ Count(Members(p), c) > 0 <=> p.members[1].class = c
  <1> PICK m : m = p.members[1]
    OBVIOUS
  <1>1. Members(p) = {m}
    BY SoloMember
  <1>2. CASE m.class = c
    <2>1. {q \in {m} : q.class = c} = {m}
      BY <1>2
    <2>2. Cardinality({m}) = 1
      BY FS_Singleton
    <2> QED BY <1>1, <1>2, <2>1, <2>2 DEF Count
  <1>3. CASE m.class # c
    <2>1. {q \in {m} : q.class = c} = {}
      BY <1>3
    <2>2. Cardinality({}) = 0
      BY FS_EmptySet
    <2> QED BY <1>1, <1>3, <2>1, <2>2 DEF Count
  <1> QED BY <1>2, <1>3

\* The victim is the last of those who are like him: solos of the odd class go before
\* larger parties.
LEMMA VictimLast ==
    ASSUME NEW Q, IsFiniteSet(Q), NEW x \in Seq(PartyOf(Q)), OddClasses(x) # {},
           NEW v, v = Victim(x, Min(OddClasses(x))), NEW i \in DOMAIN x, Alike(x[i], x[v])
    PROVE  v \in 1 .. Len(x) /\ i <= v
  <1> PICK c : c = Min(OddClasses(x))
    OBVIOUS
  <1> PICK n \in Nat : n = Len(x) /\ DOMAIN x = 1 .. n
    OBVIOUS
  <1> DEFINE solos == {k \in DOMAIN x : Size(x[k]) = 1 /\ Count(Members(x[k]), c) = 1}
             any   == {k \in DOMAIN x : Count(Members(x[k]), c) > 0}
  <1>1. v \in 1 .. n
    BY VictimThere
  <1>2. v = Max(IF solos # {} THEN solos ELSE any)
    BY DEF Victim
  <1>3. \A k \in DOMAIN x : Size(x[k]) = 1 =>
           /\ Count(Members(x[k]), c) = 1 <=> x[k].members[1].class = c
           /\ Count(Members(x[k]), c) > 0 <=> x[k].members[1].class = c
    <2>1. \A k \in DOMAIN x : x[k] \in PartyOf(Q)
      OBVIOUS
    <2> QED BY <2>1, SoloCount
  <1>4. Size(x[i]) = 1 /\ Size(x[v]) = 1 /\ x[i].members[1].class = x[v].members[1].class
    BY DEF Alike
  <1>5. solos \in SUBSET (1 .. n) /\ any \in SUBSET (1 .. n)
    OBVIOUS
  <1>6. v \in solos
    <2>1. CASE solos # {}
      <3>1. v = Max(solos)
        BY <1>2, <2>1
      <3> HIDE DEF solos
      <3> QED BY <1>5, <2>1, <3>1, MaxInterval
    <2>2. CASE solos = {} /\ any # {}
      <3>1. v = Max(any)
        BY <1>2, <2>2
      <3>2. v \in any
        <4> HIDE DEF any
        <4> QED BY <1>5, <2>2, <3>1, MaxInterval
      <3> QED BY <1>3, <1>4, <3>2
    <2>3. CASE solos = {} /\ any = {}
      <3>1. \E k \in DOMAIN x : Count(Members(x[k]), c) > 0
        BY OddMember
      <3> QED BY <2>3, <3>1
    <2> QED BY <2>1, <2>2, <2>3
  <1>7. i \in solos
    BY <1>3, <1>4, <1>6
  <1>8. v = Max(solos)
    BY <1>2, <1>7
  <1> HIDE DEF solos
  <1>9. i <= Max(solos)
    BY <1>5, <1>7, MaxInterval
  <1> QED BY <1>1, <1>8, <1>9

\* A round that drops a party leaves the others in order, and passes over nobody.
LEMMA DropFirst ==
    ASSUME NEW Q, IsFiniteSet(Q), NEW x \in Seq(Filled(Q)), NEW fair, NEW S,
           Descends(x, fair), Foremost(x, S, fair), NEW y, y = DropOdd(x)
    PROVE  y \in Seq(Filled(Q)) /\ Descends(y, fair) /\ Foremost(y, S, fair)
  <1>0. x \in Seq(PartyOf(Q))
    BY FilledType
  <1>1. y \in Seq(Filled(Q))
    <2>1. Filled(Q) \in SUBSET PartyOf(Q)
      BY DEF Filled
    <2> QED BY <2>1, DropOddType
  <1>2. CASE OddClasses(x) = {}
    BY <1>1, <1>2 DEF DropOdd
  <1>3. CASE OddClasses(x) # {}
    <2> PICK v : v = Victim(x, Min(OddClasses(x)))
      OBVIOUS
    <2> PICK n \in Nat : n = Len(x) /\ DOMAIN x = 1 .. n
      OBVIOUS
    <2>1. v \in 1 .. n
      BY <1>0, <1>3, VictimThere
    <2>2. Removed(y, x, v)
      <3>1. y = RemoveAt(x, v)
        BY <1>3 DEF DropOdd
      <3> QED BY <2>1, <3>1, RemoveAtSteps
    <2>3. /\ DOMAIN y = 1 .. n - 1
          /\ \A k \in 1 .. n - 1 : y[k] = IF k < v THEN x[k] ELSE x[k + 1]
      <3>1. Len(y) = n - 1 /\ \A k \in 1 .. n - 1 : y[k] = IF k < v THEN x[k] ELSE x[k + 1]
        BY <2>2 DEF Removed
      <3>2. DOMAIN y = 1 .. Len(y)
        BY <1>1
      <3> QED BY <3>1, <3>2
    <2> DEFINE at(k) == IF k < v THEN k ELSE k + 1
    <2>4. \A k \in 1 .. n - 1 : at(k) \in 1 .. n /\ at(k) # v /\ y[k] = x[at(k)]
      BY <2>1, <2>3
    <2>5. \A i, j \in 1 .. n - 1 : i < j => at(i) < at(j)
      BY <2>1
    <2>6. \A i \in 1 .. n : i # v => \E k \in 1 .. n - 1 : i = at(k)
      <3>1. ASSUME NEW i \in 1 .. n, i # v PROVE \E k \in 1 .. n - 1 : i = at(k)
        <4>1. CASE i < v
          <5>1. i \in 1 .. n - 1 /\ i = at(i)
            BY <2>1, <4>1
          <5> QED BY <5>1
        <4>2. CASE ~(i < v)
          <5> PICK k \in Int : k = i - 1
            OBVIOUS
          <5>1. k \in 1 .. n - 1 /\ i = at(k)
            BY <2>1, <3>1, <4>2
          <5> QED BY <5>1
        <4> QED BY <4>1, <4>2
      <3> QED BY <3>1
    <2> HIDE DEF at
    <2>7. Descends(y, fair)
      <3>1. ASSUME NEW i \in 1 .. n - 1, NEW j \in 1 .. n - 1, i < j
            PROVE  Exclusions(y[j], fair) <= Exclusions(y[i], fair)
        <4>1. at(i) < at(j) /\ at(i) \in DOMAIN x /\ at(j) \in DOMAIN x
          BY <2>4, <2>5, <3>1
        <4>2. Exclusions(x[at(j)], fair) <= Exclusions(x[at(i)], fair)
          BY <4>1 DEF Descends
        <4> QED BY <2>4, <4>2
      <3> QED BY <2>3, <3>1 DEF Descends
    <2>8. ASSUME NEW p \in ToSet(y), NEW q \in S \ ToSet(y), Alike(p, q)
          PROVE  Exclusions(q, fair) <= Exclusions(p, fair)
      <3>1. PICK k \in 1 .. n - 1 : p = y[k]
        BY <2>3 DEF ToSet
      <3> PICK i : i = at(k)
        OBVIOUS
      <3>2. i \in 1 .. n /\ i # v /\ p = x[i]
        BY <2>4, <3>1
      <3>3. p \in ToSet(x)
        BY <3>2 DEF ToSet
      <3>4. CASE q \notin ToSet(x)
        BY <2>8, <3>3, <3>4 DEF Foremost
      <3>5. CASE q \in ToSet(x)
        <4>1. PICK j \in 1 .. n : q = x[j]
          BY <3>5 DEF ToSet
        <4>2. j = v
          <5>1. ASSUME j # v PROVE FALSE
            <6>1. PICK l \in 1 .. n - 1 : j = at(l)
              BY <2>6, <5>1
            <6>2. y[l] = q
              BY <2>4, <4>1, <6>1
            <6>3. q \in ToSet(y)
              BY <2>3, <6>2 DEF ToSet
            <6> QED BY <2>8, <6>3
          <5> QED BY <5>1
        <4>3. Alike(x[i], x[v])
          BY <2>8, <3>2, <4>1, <4>2
        <4>4. i <= v
          BY <1>0, <1>3, <3>2, <4>3, VictimLast
        <4>5. i < v
          BY <2>1, <3>2, <4>4
        <4>6. Exclusions(x[v], fair) <= Exclusions(x[i], fair)
          BY <2>1, <3>2, <4>5 DEF Descends
        <4> QED BY <3>2, <4>1, <4>2, <4>6
      <3> QED BY <3>4, <3>5
    <2> QED BY <1>1, <2>7, <2>8 DEF Foremost
  <1> QED BY <1>2, <1>3

\* Nor does the subset that is even in each class.
LEMMA SelectFirst ==
    ASSUME NEW Q, IsFiniteSet(Q), NEW ps \in Seq(Filled(Q)), NEW cap \in Nat, NEW fair, FairOf(Q, fair),
           NEW y, y = SelectClassEqualSubset(ps, cap, fair)
    PROVE  y \in Seq(Filled(Q)) /\ Foremost(y, ToSet(ps), fair)
  <1> PICK t : t = PartiesByPriority(ps, fair)
    OBVIOUS
  <1>1. t \in Seq(Filled(Q)) /\ ToSet(t) = ToSet(ps) /\ Descends(t, fair)
    BY PrioritySorted
  <1> PICK seats \in Int : seats = IF cap > 0 THEN cap ELSE -1
    OBVIOUS
  <1>2. Chosen(ps, cap, fair) = PackParties(t, seats)
    BY DEF Chosen
  <1> PICK c : c = PackParties(t, seats)
    OBVIOUS
  <1>3. c \in Seq(Filled(Q)) /\ Descends(c, fair) /\ Foremost(c, ToSet(ps), fair)
    BY <1>1, PackFirst
  <1> PICK X : X = {x \in Seq(Filled(Q)) : Descends(x, fair) /\ Foremost(x, ToSet(ps), fair)}
    OBVIOUS
  <1>4. \A x \in X : DropOdd(x) \in X
    BY DropFirst
  <1>5. X \in SUBSET Seq(Filled(Q)) /\ Chosen(ps, cap, fair) \in X
    BY <1>2, <1>3
  <1>6. y \in X
    BY <1>4, <1>5, SelectKeeps
  <1> QED BY <1>6

\* A new match that is not locked to its parties passes over nobody in S.
FirstIfNew(r, S, fair) ==
    r.inst = 0 /\ r.access # "PARTY_LOCKED" => Foremost(r.taken, S, fair)

\* No result takes nobody.
LEMMA NoResultFirst ==
    ASSUME NEW S, NEW fair
    PROVE  FirstIfNew(NoResult, S, fair)
  <1>1. NoResult.taken = <<>>
    BY DEF NoResult
  <1>2. ToSet(<<>>) = {}
    BY DEF ToSet
  <1> QED BY <1>1, <1>2 DEF FirstIfNew, Foremost

\* A new match of a strict queue passes over nobody of the pool.
LEMMA PlacePoolFirst ==
    ASSUME NEW Q, IsFiniteSet(Q), NEW ps \in Seq(Filled(Q)), NEW insts \in Seq(InstOf(Q)),
           NEW fair, FairOf(Q, fair), NEW cfg, GoodConfig(cfg),
           cfg.force = "pvp", cfg.strict
    PROVE  FirstIfNew(PlacePool(cfg, ps, insts, fair), ToSet(ps), fair)
  <1> DEFINE backfill == cfg.force = "pvp" /\ cfg.backfill
             short    == {i \in DOMAIN insts : /\ insts[i].access = "BACKFILL_ONLY"
                                               /\ Backfill(cfg, ps, insts[i], fair).taken # <<>>}
             open     == {i \in DOMAIN insts : /\ insts[i].access = "OPEN"
                                               /\ PackParties(ps, insts[i].free) # <<>>}
             seats    == IF cfg.cap > 0 THEN cfg.cap ELSE -1
             chosen   == IF cfg.force = "pvp" /\ cfg.strict THEN SelectClassEqualSubset(ps, cfg.cap, fair)
                                                            ELSE PackParties(ps, seats)
             s        == insts[Min(short)]
             o        == insts[Min(open)]
             plan     == Backfill(cfg, ps, s, fair)
             fit      == PackParties(ps, o.free)
             repair   == Taken(plan.taken, plan.tf, s.id, s.access, cfg.cap)
             dropin   == Taken(fit, Assign(cfg, fit, o.tf), o.id, "OPEN", cfg.cap)
             fresh    == Taken(chosen, Assign(cfg, chosen, Nobody), 0,
                               IF backfill THEN "BACKFILL_ONLY" ELSE "OPEN",
                               IF backfill THEN Heads(chosen) ELSE cfg.cap)
             new      == IF chosen = <<>> THEN NoResult ELSE fresh
  <1>a. DOMAIN insts \in SUBSET Nat
    OBVIOUS
  <1>1. ASSUME short # {} PROVE FirstIfNew(repair, ToSet(ps), fair)
    <2>1. Min(short) \in short
      <3>1. short \in SUBSET Nat
        BY <1>a
      <3> HIDE DEF short
      <3> QED BY <1>1, <3>1, MinNat
    <2> PICK k \in DOMAIN insts : k = Min(short)
      BY <2>1
    <2>2. insts[k].id # 0
      BY InstId
    <2>3. repair.inst = insts[k].id
      BY DEF Taken
    <2> HIDE DEF repair
    <2> QED BY <2>2, <2>3 DEF FirstIfNew, Taken
  <1>2. ASSUME open # {} PROVE FirstIfNew(dropin, ToSet(ps), fair)
    <2>1. Min(open) \in open
      <3>1. open \in SUBSET Nat
        BY <1>a
      <3> HIDE DEF open
      <3> QED BY <1>2, <3>1, MinNat
    <2> PICK k \in DOMAIN insts : k = Min(open)
      BY <2>1
    <2>2. insts[k].id # 0
      BY InstId
    <2>3. dropin.inst = insts[k].id
      BY DEF Taken
    <2> HIDE DEF dropin
    <2> QED BY <2>2, <2>3 DEF FirstIfNew, Taken
  <1>3. FirstIfNew(fresh, ToSet(ps), fair)
    <2>1. chosen = SelectClassEqualSubset(ps, cfg.cap, fair)
      OBVIOUS
    <2>2. cfg.cap \in Nat
      BY DEF GoodConfig
    <2>3. Foremost(chosen, ToSet(ps), fair)
      BY <2>1, <2>2, SelectFirst
    <2>4. fresh.taken = chosen
      BY DEF Taken
    <2> HIDE DEF fresh, chosen
    <2> QED BY <2>3, <2>4 DEF FirstIfNew
  <1>4. FirstIfNew(new, ToSet(ps), fair)
    BY <1>3, NoResultFirst
  <1>5. PlacePool(cfg, ps, insts, fair) =
           CASE backfill /\ short # {}                    -> repair
             [] ~(backfill /\ short # {}) /\ open # {}    -> dropin
             [] ~(backfill /\ short # {}) /\ open = {}    -> new
    BY DEF PlacePool
  <1> HIDE DEF repair, dropin, new, short, open, backfill
  <1> QED BY <1>1, <1>2, <1>4, <1>5

\* CoopMatchRule passes over nobody who is not in a team: unless someone's own match is
\* the result, all of them are in the pool.
LEMMA CoopFirst ==
    ASSUME NEW Q, IsFiniteSet(Q), NEW ps \in Seq(Filled(Q)), NEW insts \in Seq(InstOf(Q)),
           NEW fair, FairOf(Q, fair), NEW cfg, GoodConfig(cfg),
           cfg.force = "pvp", cfg.strict, NEW solo
    PROVE  FirstIfNew(CoopRule(cfg, ps, insts, fair, solo), {p \in ToSet(ps) : ~p.team}, fair)
  <1> DEFINE wants(p) == cfg.min <= 1 /\ ~p.team /\ p.members[1].id \in solo
             locked   == Keep(ps, {p \in ToSet(ps) : wants(p)})
             teams    == Keep(ps, {p \in ToSet(ps) : p.team})
             solos    == Keep(ps, {p \in ToSet(ps) : ~p.team /\ ~wants(p)})
             mixed    == Keep(ps, {p \in ToSet(ps) : p.team \/ ~wants(p)})
             pool(s)  == IF s = <<>> THEN NoResult ELSE PlacePool(cfg, s, insts, fair)
             S        == {p \in ToSet(ps) : ~p.team}
             Good(r)  == FirstIfNew(r, S, fair)
  <1>1. ASSUME locked = <<>>
        PROVE  /\ solos \in Seq(Filled(Q)) /\ S \subseteq ToSet(solos)
               /\ mixed \in Seq(Filled(Q)) /\ S \subseteq ToSet(mixed)
    <2>1. \A T : Keep(ps, T) \in Seq(Filled(Q))
      BY KeepPart
    <2>2. ToSet(locked) = {}
      BY <1>1 DEF ToSet
    <2>3. ToSet(locked) = ToSet(ps) \cap {p \in ToSet(ps) : wants(p)}
      <3> HIDE DEF wants
      <3> QED BY KeepSet
    <2>4. \A p \in ToSet(ps) : ~wants(p)
      <3> HIDE DEF wants, locked
      <3> QED BY <2>2, <2>3
    <2>5. ToSet(solos) = ToSet(ps) \cap {p \in ToSet(ps) : ~p.team /\ ~wants(p)}
      <3> HIDE DEF wants
      <3> QED BY KeepSet
    <2>6. ToSet(mixed) = ToSet(ps) \cap {p \in ToSet(ps) : p.team \/ ~wants(p)}
      <3> HIDE DEF wants
      <3> QED BY KeepSet
    <2> HIDE DEF wants
    <2>7. solos \in Seq(Filled(Q)) /\ mixed \in Seq(Filled(Q))
      BY <2>1
    <2> HIDE DEF solos, mixed, locked
    <2> QED BY <2>4, <2>5, <2>6, <2>7
  <1>2. CoopRule(cfg, ps, insts, fair, solo) =
           CASE locked # <<>>                                     -> OwnMatch(cfg, locked[1])
             [] locked = <<>> /\ cfg.team = "own" /\ teams # <<>> -> OwnMatch(cfg, teams[1])
             [] locked = <<>> /\ cfg.team = "own" /\ teams = <<>> -> pool(solos)
             [] locked = <<>> /\ cfg.team = "block"               -> pool(solos)
             [] locked = <<>> /\ cfg.team = "mixed"               -> pool(mixed)
    BY DEF CoopRule
  <1> HIDE DEF locked, teams, solos, mixed
  <1>3. \A p : Good(OwnMatch(cfg, p))
    BY DEF FirstIfNew, OwnMatch, Taken
  <1>4. \A s \in Seq(Filled(Q)) : S \subseteq ToSet(s) => Good(pool(s))
    <2> SUFFICES ASSUME NEW s \in Seq(Filled(Q)), S \subseteq ToSet(s) PROVE Good(pool(s))
      OBVIOUS
    <2>1. FirstIfNew(PlacePool(cfg, s, insts, fair), ToSet(s), fair)
      BY PlacePoolFirst
    <2>2. \A r : FirstIfNew(r, ToSet(s), fair) => Good(r)
      <3> HIDE DEF S
      <3> QED BY DEF FirstIfNew, Foremost
    <2> HIDE DEF S
    <2> QED BY <2>1, <2>2, NoResultFirst
  <1> HIDE DEF pool, S
  <1>5. cfg.team \in {"own", "mixed", "block"}
    BY DEF GoodConfig
  <1> HIDE DEF Good
  <1>6. Good(CoopRule(cfg, ps, insts, fair, solo))
    <2>1. locked = <<>> => Good(pool(solos)) /\ Good(pool(mixed))
      BY <1>1, <1>4
    <2> QED BY <1>2, <1>3, <1>5, <2>1
  <1> QED BY <1>6 DEF Good, S

-----------------------------------------------------------------------------
(* Sums of ranks.                                                         *)

\* g sums w over the subsets of U.
Sums(g, U, w) ==
    /\ g \in [SUBSET U -> Nat] /\ g[{}] = 0
    /\ \A s \in SUBSET U : \A x \in s : g[s] = w[x] + g[s \ {x}]

\* One more element can be summed,
LEMMA SumAdded ==
    ASSUME NEW V, NEW w, NEW v \in V, \A x \in V : w[x] \in Nat, NEW h, Sums(h, V \ {v}, w)
    PROVE  \E g : Sums(g, V, w)
  <1> DEFINE g == [s \in SUBSET V |-> IF v \in s THEN w[v] + h[s \ {v}] ELSE h[s]]
  <1>1. h \in [SUBSET (V \ {v}) -> Nat] /\ h[{}] = 0
    BY DEF Sums
  <1>2. \A s \in SUBSET V : s \ {v} \in SUBSET (V \ {v})
    OBVIOUS
  <1>3. \A s \in SUBSET V : v \notin s => s \in SUBSET (V \ {v})
    OBVIOUS
  <1>4. g \in [SUBSET V -> Nat]
    <2>1. ASSUME NEW s \in SUBSET V PROVE g[s] \in Nat
      <3>1. CASE v \in s
        <4>1. h[s \ {v}] \in Nat
          BY <1>1, <1>2
        <4> QED BY <3>1, <4>1
      <3>2. CASE v \notin s
        <4>1. h[s] \in Nat
          BY <1>1, <1>3, <3>2
        <4> QED BY <3>2, <4>1
      <3> QED BY <3>1, <3>2
    <2> QED BY <2>1
  <1>5. g[{}] = 0
    BY <1>1
  <1>6. ASSUME NEW s \in SUBSET V, NEW x \in s, w[x] + h[(s \ {v}) \ {x}] = h[s \ {v}] \/ x = v,
               NEW t, t = s \ {x}
        PROVE  g[s] = w[x] + g[t]
    <2>0. t \in SUBSET V /\ s \ {v} \in SUBSET (V \ {v})
      BY <1>6
    <2>1. CASE x = v
      <3>1. g[s] = w[v] + h[t] /\ g[t] = h[t]
        BY <1>6, <2>0, <2>1
      <3> QED BY <2>1, <3>1
    <2>2. CASE x # v /\ v \in s
      <3> PICK a \in Nat : a = h[s \ {v}]
        BY <1>1, <1>2
      <3> PICK b \in Nat : b = h[t \ {v}]
        BY <1>1, <1>2, <2>0
      <3>1. t \ {v} = (s \ {v}) \ {x}
        BY <1>6
      <3>2. w[x] + b = a
        BY <1>6, <2>2, <3>1
      <3>3. g[s] = w[v] + a /\ g[t] = w[v] + b
        BY <1>6, <2>0, <2>2
      <3> PICK c \in Nat, d \in Nat : c = w[x] /\ d = w[v]
        OBVIOUS
      <3> QED BY <1>6, <2>2, <3>2, <3>3
    <2>3. CASE x # v /\ v \notin s
      <3>1. s \ {v} = s /\ t \ {v} = t /\ (s \ {v}) \ {x} = t
        BY <1>6, <2>3
      <3>2. g[s] = h[s] /\ g[t] = h[t]
        BY <1>6, <2>0, <2>3
      <3> QED BY <1>6, <2>3, <3>1, <3>2
    <2> QED BY <2>1, <2>2, <2>3
  <1>7. ASSUME NEW s \in SUBSET V, NEW x \in s PROVE g[s] = w[x] + g[s \ {x}]
    <2>1. x # v => h[s \ {v}] = w[x] + h[(s \ {v}) \ {x}]
      <3> PICK u \in SUBSET (V \ {v}) : u = s \ {v}
        BY <1>2
      <3>1. x # v => x \in u
        BY <1>7
      <3> QED BY <3>1 DEF Sums
    <2> HIDE DEF g
    <2> QED BY <1>6, <1>7, <2>1
  <1> HIDE DEF g
  <1> QED BY <1>4, <1>5, <1>7 DEF Sums

\* so a finite set can,
LEMMA SumExists ==
    ASSUME NEW U, IsFiniteSet(U), NEW w, \A x \in U : w[x] \in Nat
    PROVE  \E g : Sums(g, U, w)
  <1> PICK n \in Nat : n = Cardinality(U)
    BY FS_CardinalityType
  <1> DEFINE Has(V) == \E g : Sums(g, V, w)
             P == {k \in Nat : \A V \in SUBSET U : Cardinality(V) = k => Has(V)}
  <1>f. \A V \in SUBSET U : IsFiniteSet(V)
    BY FS_Subset
  <1>1. 0 \in P
    <2>1. ASSUME NEW V \in SUBSET U, Cardinality(V) = 0 PROVE Has(V)
      <3>1. V = {}
        BY <1>f, <2>1, FS_EmptySet
      <3> DEFINE g == [s \in SUBSET {} |-> 0]
      <3>2. g \in [SUBSET {} -> Nat] /\ g[{}] = 0 /\ \A s \in SUBSET {} : s = {}
        OBVIOUS
      <3> HIDE DEF g
      <3>3. Sums(g, {}, w)
        BY <3>2 DEF Sums
      <3> QED BY <3>1, <3>3
    <2> QED BY <2>1
  <1>2. ASSUME NEW k \in 0 .. n - 1, k \in P PROVE k + 1 \in P
    <2>1. ASSUME NEW V \in SUBSET U, Cardinality(V) = k + 1 PROVE Has(V)
      <3>1. V # {}
        <4>1. Cardinality({}) = 0
          BY FS_EmptySet
        <4> QED BY <2>1, <4>1
      <3> PICK v : v \in V
        BY <3>1
      <3>2. V \ {v} \in SUBSET U /\ Cardinality(V \ {v}) = k
        <4>1. Cardinality(V \ {v}) = Cardinality(V) - 1
          BY <1>f, FS_RemoveElement
        <4> QED BY <2>1, <4>1
      <3>3. PICK h : Sums(h, V \ {v}, w)
        BY <1>2, <3>2
      <3> QED BY <3>3, SumAdded
    <2> HIDE DEF Has
    <2> QED BY <2>1
  <1> HIDE DEF P
  <1>3. n \in P
    BY <1>1, <1>2, NatInd
  <1> QED BY <1>3 DEF P

\* and Cost is that sum.
LEMMA CostSums ==
    ASSUME NEW U, IsFiniteSet(U), NEW w, NEW g, Sums(g, U, w)
    PROVE  Cost(U, w) = g[U]
  <1> DEFINE Some(s) == CHOOSE x \in s : TRUE
             Body(f) == [s \in SUBSET U |->
                            IF s = {} THEN 0 ELSE w[Some(s)] + f[s \ {Some(s)}]]
             it == CHOOSE f : f = Body(f)
  <1>1. Cost(U, w) = it[U]
    BY DEF Cost, MapThenSumSet, MapThenFoldSet
  <1>2. \A s \in SUBSET U : s # {} => Some(s) \in s
    OBVIOUS
  <1> HIDE DEF Some
  <1>3. g = Body(g)
    <2>1. \A s \in SUBSET U : s # {} => g[s] = w[Some(s)] + g[s \ {Some(s)}]
      BY <1>2 DEF Sums
    <2>2. g[{}] = 0 /\ g = [s \in SUBSET U |-> g[s]]
      BY DEF Sums
    <2> QED BY <2>1, <2>2
  <1>4. it = Body(it)
    BY <1>3
  <1> HIDE DEF it
  <1>5. it[{}] = 0 /\ \A s \in SUBSET U : s # {} => it[s] = w[Some(s)] + it[s \ {Some(s)}]
    BY <1>4
  <1> HIDE DEF Body
  <1> PICK n \in Nat : n = Cardinality(U)
    BY FS_CardinalityType
  <1> DEFINE P == {k \in Nat : \A s \in SUBSET U : Cardinality(s) = k => it[s] = g[s]}
  <1>f. \A s \in SUBSET U : IsFiniteSet(s)
    BY FS_Subset
  <1>6. 0 \in P
    <2>1. ASSUME NEW s \in SUBSET U, Cardinality(s) = 0 PROVE it[s] = g[s]
      <3>1. s = {}
        BY <1>f, <2>1, FS_EmptySet
      <3> QED BY <1>5, <3>1 DEF Sums
    <2> QED BY <2>1
  <1>7. ASSUME NEW k \in 0 .. n - 1, k \in P PROVE k + 1 \in P
    <2>1. ASSUME NEW s \in SUBSET U, Cardinality(s) = k + 1 PROVE it[s] = g[s]
      <3>1. s # {}
        <4>1. Cardinality({}) = 0
          BY FS_EmptySet
        <4> QED BY <2>1, <4>1
      <3> PICK x : x = Some(s)
        OBVIOUS
      <3>2. x \in s /\ s \ {x} \in SUBSET U
        BY <1>2, <3>1
      <3>3. Cardinality(s \ {x}) = k
        <4>1. Cardinality(s \ {x}) = Cardinality(s) - 1
          BY <1>f, <3>2, FS_RemoveElement
        <4> QED BY <2>1, <4>1
      <3>4. it[s \ {x}] = g[s \ {x}]
        BY <1>7, <3>2, <3>3
      <3>5. it[s] = w[x] + it[s \ {x}]
        BY <1>5, <3>1
      <3>6. g[s] = w[x] + g[s \ {x}]
        BY <3>2 DEF Sums
      <3> QED BY <3>4, <3>5, <3>6
    <2> QED BY <2>1
  <1> HIDE DEF P
  <1>8. n \in P
    BY <1>6, <1>7, NatInd
  <1> QED BY <1>1, <1>8 DEF P

\* A sum over a set is one over its subsets.
LEMMA SumPart ==
    ASSUME NEW U, NEW w, NEW g, Sums(g, U, w), NEW V \in SUBSET U
    PROVE  \E h : Sums(h, V, w) /\ h[V] = g[V]
  <1> DEFINE h == [s \in SUBSET V |-> g[s]]
  <1>1. \A s \in SUBSET V : s \in SUBSET U
    OBVIOUS
  <1>2. h \in [SUBSET V -> Nat]
    BY <1>1 DEF Sums
  <1>3. h[{}] = 0 /\ h[V] = g[V]
    BY DEF Sums
  <1>4. ASSUME NEW s \in SUBSET V, NEW x \in s PROVE h[s] = w[x] + h[s \ {x}]
    <2>1. h[s] = g[s] /\ h[s \ {x}] = g[s \ {x}]
      OBVIOUS
    <2>2. g[s] = w[x] + g[s \ {x}]
      BY <1>1 DEF Sums
    <2> QED BY <2>1, <2>2
  <1> HIDE DEF h
  <1> QED BY <1>2, <1>3, <1>4 DEF Sums

\* A cost without one of the players.
LEMMA CostStep ==
    ASSUME NEW S, IsFiniteSet(S), NEW w, \A x \in S : w[x] \in Nat
    PROVE  /\ Cost(S, w) \in Nat
           /\ \A x \in S : Cost(S, w) = w[x] + Cost(S \ {x}, w) /\ Cost(S \ {x}, w) \in Nat
           /\ \A x \in S : Cost({x}, w) = w[x]
  <1>1. PICK g : Sums(g, S, w)
    BY SumExists
  <1>2. ASSUME NEW V \in SUBSET S PROVE Cost(V, w) = g[V] /\ g[V] \in Nat
    <2>1. PICK h : Sums(h, V, w) /\ h[V] = g[V]
      BY <1>1, SumPart
    <2>2. IsFiniteSet(V)
      BY FS_Subset
    <2>3. Cost(V, w) = h[V]
      BY <2>1, <2>2, CostSums
    <2>4. g[V] \in Nat
      BY <1>1 DEF Sums
    <2> QED BY <2>1, <2>3, <2>4
  <1>3. \A x \in S : g[S] = w[x] + g[S \ {x}]
    BY <1>1 DEF Sums
  <1>4. ASSUME NEW x \in S PROVE Cost({x}, w) = w[x]
    <2>1. g[{x}] = w[x] + g[{x} \ {x}]
      BY <1>1 DEF Sums
    <2>2. {x} \ {x} = {} /\ g[{}] = 0
      BY <1>1 DEF Sums
    <2>3. g[{x}] = w[x]
      BY <2>1, <2>2
    <2> QED BY <1>2, <2>3
  <1>5. S \in SUBSET S /\ \A x \in S : S \ {x} \in SUBSET S
    OBVIOUS
  <1> QED BY <1>2, <1>3, <1>4, <1>5

\* A cost without a player that is named.
LEMMA CostDrop ==
    ASSUME NEW S, IsFiniteSet(S), NEW w, \A x \in S : w[x] \in Nat, NEW x \in S,
           NEW R, R = S \ {x}
    PROVE  Cost(S, w) = w[x] + Cost(R, w) /\ Cost(R, w) \in Nat
  BY CostStep

\* q takes the place of p.
Swapped(D, E, p, q) == p \in D /\ q \notin D /\ E = (D \ {p}) \cup {q}

\* If the swap costs no less, q's number is no lower.
LEMMA Swap ==
    ASSUME NEW D, IsFiniteSet(D), NEW p, NEW q, NEW E, Swapped(D, E, p, q),
           NEW w, \A x \in D : w[x] \in Nat, w[q] \in Nat
    PROVE  Cardinality(E) = Cardinality(D) /\ (Cost(D, w) <= Cost(E, w) => w[p] <= w[q])
  <1>0. p \in D /\ q \notin D /\ E = (D \ {p}) \cup {q}
    BY DEF Swapped
  <1> PICK R : R = D \ {p}
    OBVIOUS
  <1>1. IsFiniteSet(R) /\ Cardinality(R) = Cardinality(D) - 1
    BY <1>0, FS_RemoveElement
  <1>2. IsFiniteSet(E) /\ Cardinality(E) = Cardinality(R) + 1
    <2>1. E = R \cup {q}
      BY <1>0
    <2>2. IsFiniteSet(R \cup {q}) /\ Cardinality(R \cup {q}) = Cardinality(R) + 1
      <3>1. q \notin R
        BY <1>0
      <3> QED BY <1>1, <3>1, FS_AddElement
    <2> QED BY <2>1, <2>2
  <1>3. q \in E /\ R = E \ {q}
    BY <1>0
  <1>5. \A x \in E : w[x] \in Nat
    BY <1>0
  <1>6. Cost(D, w) = w[p] + Cost(R, w) /\ Cost(R, w) \in Nat
    BY <1>0, CostDrop
  <1>7. Cost(E, w) = w[q] + Cost(R, w)
    BY <1>2, <1>3, <1>5, CostDrop
  <1>8. w[p] \in Nat /\ w[q] \in Nat
    BY <1>0
  <1>9. Cardinality(D) \in Nat
    BY FS_CardinalityType
  <1> QED BY <1>1, <1>2, <1>6, <1>7, <1>8, <1>9

-----------------------------------------------------------------------------
(* The order of claims.                                                   *)

\* Distinct numbers for the players of S.
Ranking(rank, S) ==
    /\ \A q \in S : rank[q] \in Nat
    /\ \A p, q \in S : rank[p] = rank[q] => p = q

\* FairnessStats of the players in Q, as far as the rotation reads them.
ClaimsOf(Q, fair) ==
    \A q \in Q : /\ fair[q.id].lastDefended \in Nat
                 /\ fair[q.id].defended \in Nat
                 /\ fair[q.id].played \in Nat

\* A ratio is a number.
LEMMA DefenderRatioNat ==
    ASSUME NEW f, f.defended \in Nat, f.played \in Nat
    PROVE  DefenderRatio(f) \in Nat
  <1> PICK l \in Nat, n \in Nat : l = f.defended /\ n = f.played
    OBVIOUS
  <1>1. CASE n = 0
    BY <1>1 DEF DefenderRatio
  <1>2. CASE n # 0
    <2> PICK x \in Nat : x = 60 * l
      OBVIOUS
    <2>1. x \div n \in Nat
      BY <1>2
    <2> QED BY <1>2, <2>1 DEF DefenderRatio
  <1> QED BY <1>1, <1>2

\* Players listed by when they last defended.
Longest(t, fair) == \A i, j \in DOMAIN t : i < j => fair[t[i].id].lastDefended <= fair[t[j].id].lastDefended

\* Ranked sorts the players by when they last defended.
LEMMA ClaimsSorted ==
    ASSUME NEW Q, NEW ps \in Seq(PartyOf(Q)), NEW fair, ClaimsOf(Q, fair),
           NEW t, t = Ranked(ps, fair)
    PROVE  t \in Seq(Q) /\ ToSet(t) = Players(ps) /\ Longest(t, fair)
  <1> PICK s \in Seq(Q) : s = AllMembers(ps)
    BY AllMembersType
  <1> DEFINE before == {d \in (DOMAIN s) \X (DOMAIN s) : StrongerClaim(s[d[1]], s[d[2]], fair)}
  <1>1. t = Arranged(s, Insertion(s, before))
    BY DEF Ranked, StableSort
  <1>2. PICK n \in Nat : n = Len(s) /\ DOMAIN s = 1 .. n
    OBVIOUS
  <1>3. PICK h \in [1 .. n -> Nat], r \in [1 .. n -> Nat] :
           \A x \in 1 .. n : h[x] = fair[s[x].id].lastDefended /\ r[x] = DefenderRatio(fair[s[x].id])
    <2> DEFINE h == [x \in 1 .. n |-> fair[s[x].id].lastDefended]
               r == [x \in 1 .. n |-> DefenderRatio(fair[s[x].id])]
    <2>1. \A x \in 1 .. n : s[x] \in Q
      BY <1>2
    <2>2. \A q \in Q : fair[q.id].lastDefended \in Nat /\ DefenderRatio(fair[q.id]) \in Nat
      BY DefenderRatioNat DEF ClaimsOf
    <2>3. /\ h \in [1 .. n -> Nat] /\ r \in [1 .. n -> Nat]
          /\ \A x \in 1 .. n : h[x] = fair[s[x].id].lastDefended /\ r[x] = DefenderRatio(fair[s[x].id])
      BY <2>1, <2>2
    <2> QED BY <2>3
  <1>4. \A x, y \in 1 .. n : <<x, y>> \in before <=> h[x] < h[y] \/ (h[x] = h[y] /\ r[x] < r[y])
    BY <1>2, <1>3 DEF StrongerClaim
  <1>5. t \in Seq(Q) /\ ToSet(t) = ToSet(s)
    BY <1>1, SortType, SortSet
  <1>s. ToSet(s) = Players(ps)
    BY AllMembersSet
  <1> PICK o : o = Insertion(s, before)
    OBVIOUS
  <1>6. t = Arranged(s, o)
    BY <1>1
  <1> HIDE DEF before
  <1>7. WeakOrder(before, n)
    <2>1. \A x \in 1 .. n : h[x] \in Nat /\ r[x] \in Nat
      BY <1>3
    <2>2. ASSUME NEW x \in 1 .. n, NEW y \in 1 .. n, <<x, y>> \in before
          PROVE  <<y, x>> \notin before
      <3>1. h[x] < h[y] \/ (h[x] = h[y] /\ r[x] < r[y])
        BY <1>4, <2>2
      <3>2. ~(h[y] < h[x] \/ (h[y] = h[x] /\ r[y] < r[x]))
        BY <2>1, <3>1
      <3> QED BY <1>4, <3>2
    <2>3. \A x, y, z \in 1 .. n : <<x, z>> \in before => <<x, y>> \in before \/ <<y, z>> \in before
      BY <1>4, <2>1
    <2> QED BY <2>2, <2>3 DEF WeakOrder
  <1>8. Listed(o, n) /\ Sorted(o, n, before)
    BY <1>2, <1>7, InsertionOrder
  <1>9. DOMAIN o = 1 .. n /\ \A i \in 1 .. n : o[i] \in 1 .. n
    <2>1. o \in Seq(1 .. n) /\ Len(o) = n
      BY <1>8 DEF Listed
    <2> QED BY <2>1
  <1>10. DOMAIN t = 1 .. n /\ \A i \in 1 .. n : t[i] = s[o[i]]
    BY <1>6, <1>9 DEF Arranged
  <1>11. ASSUME NEW i \in 1 .. n, NEW j \in 1 .. n, i < j
         PROVE  fair[t[i].id].lastDefended <= fair[t[j].id].lastDefended
    <2>1. o[i] \in 1 .. n /\ o[j] \in 1 .. n
      BY <1>9
    <2>2. <<o[j], o[i]>> \notin before
      BY <1>8, <1>11 DEF Sorted
    <2>3. ~(h[o[j]] < h[o[i]])
      BY <1>4, <2>1, <2>2
    <2>4. h[o[i]] <= h[o[j]]
      BY <1>3, <2>1, <2>3
    <2>5. h[o[i]] = fair[s[o[i]].id].lastDefended /\ h[o[j]] = fair[s[o[j]].id].lastDefended
      BY <1>3, <2>1
    <2>6. t[i] = s[o[i]] /\ t[j] = s[o[j]]
      BY <1>10
    <2> QED BY <2>4, <2>5, <2>6
  <1> QED BY <1>5, <1>s, <1>10, <1>11 DEF Longest

\* Ranks numbers the players, and who has the lower number defended no later.
LEMMA RankOrder ==
    ASSUME NEW Q, NEW ps \in Seq(PartyOf(Q)), NEW fair, ClaimsOf(Q, fair),
           NEW rank, rank = Ranks(ps, fair)
    PROVE  /\ Ranking(rank, Players(ps))
           /\ \A p, q \in Players(ps) : rank[p] <= rank[q]
                 => fair[p.id].lastDefended <= fair[q.id].lastDefended
  <1> PICK t : t = Ranked(ps, fair)
    OBVIOUS
  <1>1. t \in Seq(Q) /\ ToSet(t) = Players(ps) /\ Longest(t, fair)
    BY ClaimsSorted
  <1>2. \A q \in Players(ps) : rank[q] = CHOOSE k \in DOMAIN t : t[k] = q
    BY DEF Ranks
  <1>3. \A q \in Players(ps) : \E k \in DOMAIN t : t[k] = q
    BY <1>1 DEF ToSet
  <1>4. \A q \in Players(ps) : rank[q] \in DOMAIN t /\ t[rank[q]] = q
    BY <1>2, <1>3
  <1>5. DOMAIN t \in SUBSET Nat
    BY <1>1
  <1>6. Ranking(rank, Players(ps))
    BY <1>4, <1>5 DEF Ranking
  <1>7. ASSUME NEW p \in Players(ps), NEW q \in Players(ps), rank[p] <= rank[q]
        PROVE  fair[p.id].lastDefended <= fair[q.id].lastDefended
    <2>1. rank[p] \in Nat /\ rank[q] \in Nat
      BY <1>4, <1>5
    <2>2. CASE rank[p] < rank[q]
      BY <1>1, <1>4, <2>2 DEF Longest
    <2>3. CASE rank[p] = rank[q]
      <3>1. p = q
        BY <1>4, <2>3
      <3>2. fair[p.id].lastDefended \in Nat
        <4>1. p \in Q
          BY PlayersType
        <4> QED BY <4>1 DEF ClaimsOf
      <3> QED BY <3>1, <3>2
    <2> QED BY <1>7, <2>1, <2>2, <2>3
  <1> QED BY <1>6, <1>7

-----------------------------------------------------------------------------
(* The best set of whole parties.                                         *)

\* The set with the highest position is the larger number.
LEMMA MaskTop ==
    ASSUME NEW k \in Nat, NEW I, I \subseteq 1 .. k, NEW J, J \subseteq 1 .. k + 1, k + 1 \in J
    PROVE  LowerMask(I, J)
  <1> DEFINE D == (I \ J) \cup (J \ I)
  <1>1. k + 1 \notin 1 .. k
    OBVIOUS
  <1>2. \A x \in D : x \in 1 .. k + 1
    OBVIOUS
  <1>3. k + 1 \in D
    BY <1>1
  <1> HIDE DEF D
  <1>4. k + 1 \in {x \in D : \A y \in D : x >= y}
    BY <1>2, <1>3
  <1>5. \A x \in D : (\A y \in D : x >= y) => x = k + 1
    BY <1>2, <1>3
  <1>6. Max(D) = k + 1
    <2>1. \E x \in D : \A y \in D : x >= y
      BY <1>4
    <2>2. Max(D) \in D /\ \A y \in D : Max(D) >= y
      BY <2>1 DEF Max
    <2> QED BY <1>5, <2>2
  <1> QED BY <1>6 DEF LowerMask, D

\* A position in both sets does not matter.
LEMMA MaskBelow ==
    ASSUME NEW x, NEW I, NEW J, x \in I, x \in J, LowerMask(I \ {x}, J \ {x}), I # J
    PROVE  LowerMask(I, J)
  <1> DEFINE D == (I \ J) \cup (J \ I)
  <1>1. ((I \ {x}) \ (J \ {x})) \cup ((J \ {x}) \ (I \ {x})) = D
    OBVIOUS
  <1>2. Max(D) \in J \ {x}
    <2> HIDE DEF D
    <2> QED BY <1>1 DEF LowerMask
  <1> QED BY <1>2 DEF LowerMask

\* I is the smallest number of F.
Lowest(I, F) == I \in F /\ \A J \in F \ {I} : LowerMask(I, J)

\* Some set of positions is the smallest number.
LEMMA MaskLeast ==
    ASSUME NEW n \in Nat, NEW F, F \subseteq SUBSET (1 .. n), F # {}
    PROVE  \E I : Lowest(I, F)
  <1> DEFINE Good(G) == \E I : Lowest(I, G)
             P == {k \in Nat : \A G \in SUBSET SUBSET (1 .. k) : G # {} => Good(G)}
  <1>1. 0 \in P
    <2>1. ASSUME NEW G \in SUBSET SUBSET (1 .. 0), G # {} PROVE Good(G)
      <3>1. 1 .. 0 = {}
        OBVIOUS
      <3>2. G = {{}}
        BY <2>1, <3>1
      <3>3. Lowest({}, G)
        BY <3>2 DEF Lowest
      <3> QED BY <3>3
    <2> HIDE DEF Good
    <2> QED BY <2>1
  <1>2. ASSUME NEW k \in 0 .. n - 1, k \in P PROVE k + 1 \in P
    <2>0. k \in Nat /\ \A x \in 1 .. k + 1 : x # k + 1 => x \in 1 .. k
      OBVIOUS
    <2>1. ASSUME NEW G \in SUBSET SUBSET (1 .. k + 1), G # {} PROVE Good(G)
      <3> DEFINE without == {I \in G : k + 1 \notin I}
                 rest    == {I \in SUBSET (1 .. k) : I \cup {k + 1} \in G}
      <3>1. CASE without # {}
        <4>1. without \in SUBSET SUBSET (1 .. k)
          BY <2>0
        <4>2. PICK I : Lowest(I, without)
          <5> HIDE DEF without
          <5> QED BY <1>2, <3>1, <4>1
        <4>3. I \in G /\ I \subseteq 1 .. k
          BY <4>1, <4>2 DEF Lowest
        <4>4. ASSUME NEW J \in G \ {I} PROVE LowerMask(I, J)
          <5>1. CASE J \in without
            <6> HIDE DEF without
            <6> QED BY <4>2, <4>4, <5>1 DEF Lowest
          <5>2. CASE J \notin without
            <6>1. k + 1 \in J /\ J \subseteq 1 .. k + 1
              BY <5>2
            <6> QED BY <2>0, <4>3, <6>1, MaskTop
          <5> QED BY <5>1, <5>2
        <4>5. Lowest(I, G)
          BY <4>3, <4>4 DEF Lowest
        <4> QED BY <4>5
      <3>2. CASE without = {}
        <4>1. \A J \in G : k + 1 \in J /\ J \ {k + 1} \in rest /\ (J \ {k + 1}) \cup {k + 1} = J
          <5>1. ASSUME NEW J \in G
                PROVE  k + 1 \in J /\ J \ {k + 1} \in rest /\ (J \ {k + 1}) \cup {k + 1} = J
            <6>1. k + 1 \in J
              BY <3>2
            <6>2. (J \ {k + 1}) \cup {k + 1} = J
              BY <6>1
            <6>3. J \ {k + 1} \in SUBSET (1 .. k)
              BY <2>0
            <6> QED BY <6>1, <6>2, <6>3
          <5> QED BY <5>1
        <4>2. rest # {}
          BY <2>1, <4>1
        <4>3. PICK I : Lowest(I, rest)
          <5>1. rest \in SUBSET SUBSET (1 .. k)
            OBVIOUS
          <5> HIDE DEF rest
          <5> QED BY <1>2, <4>2, <5>1
        <4> PICK K : K = I \cup {k + 1}
          OBVIOUS
        <4>4. I \in SUBSET (1 .. k) /\ K \in G
          BY <4>3 DEF Lowest
        <4>5. K \ {k + 1} = I
          BY <4>4
        <4>6. ASSUME NEW J \in G \ {K} PROVE LowerMask(K, J)
          <5>1. J \ {k + 1} \in rest /\ J \ {k + 1} # I /\ k + 1 \in J
            BY <4>1, <4>6
          <5>2. LowerMask(I, J \ {k + 1})
            <6> HIDE DEF rest
            <6> QED BY <4>3, <5>1 DEF Lowest
          <5>3. k + 1 \in K
            OBVIOUS
          <5> QED BY <4>5, <4>6, <5>1, <5>2, <5>3, MaskBelow
        <4>7. Lowest(K, G)
          BY <4>4, <4>6 DEF Lowest
        <4> QED BY <4>7
      <3> QED BY <3>1, <3>2
    <2> HIDE DEF Good
    <2> QED BY <2>1
  <1> HIDE DEF P
  <1>3. n \in P
    BY <1>1, <1>2, NatInd
  <1> QED BY <1>3 DEF P

\* The elements of F where c is least.
Least(F, c) == {I \in F : \A J \in F : c[I] <= c[J]}

\* There is one.
LEMMA LeastThere ==
    ASSUME NEW F, F # {}, NEW c, \A I \in F : c[I] \in Nat
    PROVE  Least(F, c) # {}
  <1> DEFINE T == {c[I] : I \in F}
  <1>1. T \in SUBSET Nat /\ T # {}
    OBVIOUS
  <1>2. PICK n \in T : \A m \in T : n <= m
    <2> HIDE DEF T
    <2> QED BY <1>1, LeastNat
  <1>3. PICK I \in F : n = c[I]
    BY <1>2
  <1>4. I \in Least(F, c)
    BY <1>2, <1>3 DEF Least
  <1> QED BY <1>4

\* I is better than every other set of F: by c, at a tie by w, at a tie as a number.
BestOf(I, F, c, w) ==
    /\ I \in F
    /\ \A J \in F \ {I} : \/ c[I] < c[J]
                          \/ c[I] = c[J] /\ w[I] < w[J]
                          \/ c[I] = c[J] /\ w[I] = w[J] /\ LowerMask(I, J)

\* Some set is better than all others, so BestFit chooses one.
LEMMA BestThere ==
    ASSUME NEW n \in Nat, NEW F, F \subseteq SUBSET (1 .. n), F # {},
           NEW c, \A I \in F : c[I] \in Nat, NEW w, \A I \in F : w[I] \in Nat
    PROVE  \E I : BestOf(I, F, c, w)
  <1> PICK G : G = Least(F, c)
    OBVIOUS
  <1>1. G # {} /\ G \subseteq F
    BY LeastThere DEF Least
  <1> PICK H : H = Least(G, w)
    OBVIOUS
  <1>2. H # {} /\ H \subseteq G
    BY <1>1, LeastThere DEF Least
  <1>3. PICK I : Lowest(I, H)
    BY <1>1, <1>2, MaskLeast
  <1>4. I \in H /\ I \in G /\ I \in F
    BY <1>1, <1>2, <1>3 DEF Lowest
  <1>5. ASSUME NEW J \in F, J # I
        PROVE  \/ c[I] < c[J]
               \/ c[I] = c[J] /\ w[I] < w[J]
               \/ c[I] = c[J] /\ w[I] = w[J] /\ LowerMask(I, J)
    <2>1. c[I] \in Nat /\ c[J] \in Nat /\ w[I] \in Nat /\ w[J] \in Nat
      BY <1>4
    <2>2. c[I] <= c[J]
      BY <1>4 DEF Least
    <2>3. CASE J \notin G
      <3>1. PICK K \in F : ~(c[J] <= c[K])
        BY <2>3 DEF Least
      <3>2. c[I] <= c[K] /\ c[K] \in Nat
        BY <1>4 DEF Least
      <3> QED BY <2>1, <3>1, <3>2
    <2>4. CASE J \in G /\ J \notin H
      <3>1. PICK K \in G : ~(w[J] <= w[K])
        BY <2>4 DEF Least
      <3>2. w[I] <= w[K] /\ w[K] \in Nat
        BY <1>1, <1>4 DEF Least
      <3>3. c[J] <= c[I]
        BY <1>4, <2>4 DEF Least
      <3> QED BY <2>1, <2>2, <3>1, <3>2, <3>3
    <2>5. CASE J \in H
      <3>1. c[J] <= c[I] /\ w[I] <= w[J] /\ w[J] <= w[I]
        BY <1>2, <1>4, <2>5 DEF Least
      <3>2. LowerMask(I, J)
        BY <1>3, <1>5, <2>5 DEF Lowest
      <3>3. c[I] = c[J] /\ w[I] = w[J]
        BY <2>1, <2>2, <3>1
      <3> QED BY <3>2, <3>3
    <2> QED BY <2>3, <2>4, <2>5
  <1> QED BY <1>4, <1>5 DEF BestOf

\* Members of some of the parties.
LEMMA WithinPart ==
    ASSUME NEW Q, NEW ps \in Seq(PartyOf(Q)), NEW I, I \subseteq DOMAIN ps
    PROVE  Within(ps, I) \subseteq Players(ps) /\ IsFiniteSet(Within(ps, I))
  <1>1. Within(ps, I) \subseteq Players(ps)
    BY DEF Within, Players
  <1>2. IsFiniteSet(Players(ps))
    BY PlayersBound
  <1> QED BY <1>1, <1>2, FS_Subset

\* A party that is filled has a member.
LEMMA FilledMember ==
    ASSUME NEW Q, NEW p \in Filled(Q)
    PROVE  Members(p) # {}
  <1>1. p.members \in Seq(Q) /\ Len(p.members) > 0
    BY DEF Filled, PartyOf, Size
  <1>2. 1 \in DOMAIN p.members
    BY <1>1
  <1>3. p.members[1] \in Members(p)
    BY <1>2 DEF Members, ToSet
  <1> QED BY <1>3

\* The highest number of a set is a number.
LEMMA WorstNat ==
    ASSUME NEW S, IsFiniteSet(S), S # {}, NEW w, \A x \in S : w[x] \in Nat
    PROVE  Worst(S, w) \in Nat
  <1> DEFINE T == {w[x] : x \in S}
             F == [x \in S |-> w[x]]
  <1>1. F \in Surjection(S, T)
    BY DEF Surjection
  <1>2. IsFiniteSet(T)
    BY <1>1, FS_Surjection
  <1>3. T \in SUBSET Nat /\ T # {}
    OBVIOUS
  <1> HIDE DEF T
  <1>4. Max(T) \in T
    BY <1>2, <1>3, MaxNat
  <1>5. Max(T) \in Nat
    BY <1>3, <1>4
  <1> QED BY <1>5 DEF T, Worst

\* BestFit is a set that fills the seats and better than all others.
LEMMA FitBest ==
    ASSUME NEW Q, NEW ps \in Seq(Filled(Q)), NEW rank, Ranking(rank, Players(ps)),
           NEW seats, NEW F, F = Fits(ps, seats), F # {}, NEW I, I = BestFit(ps, seats, rank)
    PROVE  I \in F /\ \A J \in F \ {I} : Better(ps, rank, I, J)
  <1> PICK n \in Nat : n = Len(ps) /\ DOMAIN ps = 1 .. n
    OBVIOUS
  <1>0. ps \in Seq(PartyOf(Q))
    BY FilledType
  <1>1. F \subseteq SUBSET (1 .. n)
    BY DEF Fits
  <1> PICK c : \A J \in F : c[J] = Cost(Within(ps, J), rank)
    <2> DEFINE c == [J \in F |-> Cost(Within(ps, J), rank)]
    <2>1. \A J \in F : c[J] = Cost(Within(ps, J), rank)
      OBVIOUS
    <2> QED BY <2>1
  <1> PICK w : \A J \in F : w[J] = Worst(Within(ps, J), rank)
    <2> DEFINE w == [J \in F |-> Worst(Within(ps, J), rank)]
    <2>1. \A J \in F : w[J] = Worst(Within(ps, J), rank)
      OBVIOUS
    <2> QED BY <2>1
  <1>2. ASSUME NEW J \in F PROVE c[J] \in Nat /\ w[J] \in Nat
    <2> PICK S : S = Within(ps, J)
      OBVIOUS
    <2>1. J \subseteq DOMAIN ps /\ J # {}
      BY <1>2 DEF Fits
    <2>2. S \subseteq Players(ps) /\ IsFiniteSet(S)
      BY <1>0, <2>1, WithinPart
    <2>3. \A x \in S : rank[x] \in Nat
      BY <2>2 DEF Ranking
    <2>4. S # {}
      <3>1. PICK i : i \in J
        BY <2>1
      <3>2. ps[i] \in Filled(Q)
        BY <2>1, <3>1
      <3>3. Members(ps[i]) # {}
        BY <3>2, FilledMember
      <3> QED BY <3>1, <3>3 DEF Within
    <2>5. Cost(S, rank) \in Nat /\ Worst(S, rank) \in Nat
      BY <2>2, <2>3, <2>4, CostStep, WorstNat
    <2> QED BY <2>5
  <1>3. PICK K : BestOf(K, F, c, w)
    <2>1. \A J \in F : c[J] \in Nat
      BY <1>2
    <2>2. \A J \in F : w[J] \in Nat
      BY <1>2
    <2> QED BY <1>1, <2>1, <2>2, BestThere
  <1>4. K \in F /\ \A J \in F \ {K} : Better(ps, rank, K, J)
    BY <1>3 DEF BestOf, Better
  <1>5. I = CHOOSE G \in F : \A J \in F \ {G} : Better(ps, rank, G, J)
    BY DEF BestFit
  <1>6. \E G \in F : \A J \in F \ {G} : Better(ps, rank, G, J)
    BY <1>4
  <1> QED BY <1>5, <1>6

\* The members of p are all in D or none is.
Uncut(p, D) == Members(p) \subseteq D \/ Members(p) \cap D = {}

\* No two parties of ps share a player.
Separate(ps) == \A j, k \in DOMAIN ps : j # k => Members(ps[j]) \cap Members(ps[k]) = {}

\* Whole parties are not cut.
LEMMA FitUncut ==
    ASSUME NEW ps, Separate(ps), NEW I, I \subseteq DOMAIN ps, NEW k \in DOMAIN ps
    PROVE  /\ Uncut(ps[k], Within(ps, I))
           /\ k \in I => Members(ps[k]) \subseteq Within(ps, I)
           /\ k \notin I => Members(ps[k]) \cap Within(ps, I) = {}
  BY DEF Separate, Within, Uncut

\* The solos of ps who are in D go before the ones who are not.
Ahead(D, ps, rank) ==
    \A i, j \in DOMAIN ps :
        Size(ps[i]) = 1 /\ Size(ps[j]) = 1 /\ Members(ps[i]) \subseteq D /\ Members(ps[j]) \cap D = {}
            => rank[ps[i].members[1]] <= rank[ps[j].members[1]]

\* The best set has the solos who go before others: a swap would cost less.
LEMMA FitAhead ==
    ASSUME NEW Q, NEW ps \in Seq(Filled(Q)), Separate(ps), NEW rank, Ranking(rank, Players(ps)),
           NEW seats, NEW F, F = Fits(ps, seats), F # {}, NEW I, I = BestFit(ps, seats, rank)
    PROVE  Ahead(Within(ps, I), ps, rank)
  <1>0. ps \in Seq(PartyOf(Q))
    BY FilledType
  <1>1. I \in F /\ \A J \in F \ {I} : Better(ps, rank, I, J)
    BY FitBest
  <1> PICK D : D = Within(ps, I)
    OBVIOUS
  <1>2. I \subseteq DOMAIN ps /\ Cardinality(D) = seats
    BY <1>1 DEF Fits
  <1>3. ASSUME NEW i \in DOMAIN ps, NEW j \in DOMAIN ps, Size(ps[i]) = 1, Size(ps[j]) = 1,
               Members(ps[i]) \subseteq D, Members(ps[j]) \cap D = {}
        PROVE  rank[ps[i].members[1]] <= rank[ps[j].members[1]]
    <2> PICK p : p = ps[i].members[1]
      OBVIOUS
    <2> PICK q : q = ps[j].members[1]
      OBVIOUS
    <2>1. Members(ps[i]) = {p} /\ Members(ps[j]) = {q}
      <3>1. ps[i] \in PartyOf(Q) /\ ps[j] \in PartyOf(Q)
        BY <1>0
      <3> QED BY <1>3, <3>1, SoloMember
    <2>2. p \in D /\ q \notin D
      BY <1>3, <2>1
    <2>3. i \in I /\ j \notin I
      BY <1>2, <2>1, <2>2, FitUncut
    <2> PICK J : J = (I \ {i}) \cup {j}
      OBVIOUS
    <2> PICK E : E = Within(ps, J)
      OBVIOUS
    <2>4. E = (D \ {p}) \cup {q}
      <3>1. \A x : x \in D <=> \E k \in I : x \in Members(ps[k])
        BY DEF Within
      <3>2. \A x : x \in E <=> \E k \in J : x \in Members(ps[k])
        BY DEF Within
      <3>3. \A k \in I : k # i => p \notin Members(ps[k])
        BY <1>2, <2>1, <2>3 DEF Separate
      <3>4. ASSUME NEW x \in E PROVE x \in (D \ {p}) \cup {q}
        <4>1. PICK k \in J : x \in Members(ps[k])
          BY <3>2
        <4>2. CASE k = j
          BY <2>1, <4>1, <4>2
        <4>3. CASE k # j
          <5>1. k \in I /\ k # i
            BY <4>3
          <5> QED BY <3>1, <3>3, <4>1, <5>1
        <4> QED BY <4>2, <4>3
      <3>5. ASSUME NEW x \in (D \ {p}) \cup {q} PROVE x \in E
        <4>1. CASE x = q
          <5>1. j \in J
            OBVIOUS
          <5> QED BY <2>1, <3>2, <4>1, <5>1
        <4>2. CASE x # q
          <5>1. PICK k \in I : x \in Members(ps[k])
            BY <3>1, <3>5, <4>2
          <5>2. k # i
            BY <2>1, <3>5, <4>2, <5>1
          <5>3. k \in J
            BY <5>2
          <5> QED BY <3>2, <5>1, <5>3
        <4> QED BY <4>1, <4>2
      <3> QED BY <3>4, <3>5
    <2>5. J \subseteq DOMAIN ps /\ J # {} /\ J # I
      BY <1>2, <2>3
    <2>6. D \subseteq Players(ps) /\ IsFiniteSet(D) /\ E \subseteq Players(ps) /\ IsFiniteSet(E)
      <3>1. D \subseteq Players(ps) /\ IsFiniteSet(D)
        BY <1>0, <1>2, WithinPart
      <3>2. E \subseteq Players(ps) /\ IsFiniteSet(E)
        BY <1>0, <2>5, WithinPart
      <3> QED BY <3>1, <3>2
    <2>7. (\A x \in D : rank[x] \in Nat) /\ rank[q] \in Nat
      <3>1. q \in Players(ps)
        BY <2>4, <2>6
      <3> QED BY <2>6, <3>1 DEF Ranking
    <2>8. Cardinality(E) = seats /\ (Cost(D, rank) <= Cost(E, rank) => rank[p] <= rank[q])
      <3>1. Swapped(D, E, p, q)
        BY <2>2, <2>4 DEF Swapped
      <3>4. Cardinality(E) = Cardinality(D) /\ (Cost(D, rank) <= Cost(E, rank) => rank[p] <= rank[q])
        BY <2>6, <2>7, <3>1, Swap
      <3> QED BY <1>2, <3>4
    <2>9. J \in F
      BY <2>5, <2>8 DEF Fits
    <2>10. Better(ps, rank, I, J)
      BY <1>1, <2>5, <2>9
    <2>11. Cost(D, rank) \in Nat /\ Cost(E, rank) \in Nat
      <3>1. \A x \in D : rank[x] \in Nat
        BY <2>7
      <3>2. \A x \in E : rank[x] \in Nat
        BY <2>4, <2>7
      <3>3. Cost(D, rank) \in Nat
        BY <2>6, <3>1, CostStep
      <3>4. Cost(E, rank) \in Nat
        BY <2>6, <3>2, CostStep
      <3> QED BY <3>3, <3>4
    <2>12. Cost(D, rank) < Cost(E, rank) \/ Cost(D, rank) = Cost(E, rank)
      BY <2>10 DEF Better
    <2>13. Cost(D, rank) <= Cost(E, rank)
      BY <2>11, <2>12
    <2> QED BY <2>8, <2>13
  <1> QED BY <1>3 DEF Ahead

-----------------------------------------------------------------------------
(* Splitting a party.                                                     *)

\* One more seat goes to one more player, the lowest number that is left.
LEMMA StrongestStep ==
    ASSUME NEW S, IsFiniteSet(S), NEW rank, Ranking(rank, S), NEW n \in Nat,
           NEW T, T = Strongest(S, rank, n), Cardinality(T) = n, n < Cardinality(S)
    PROVE  Cardinality(Strongest(S, rank, n + 1)) = n + 1
  <1> DEFINE Under(q) == {p \in S : rank[p] < rank[q]}
  <1>1. \A q : IsFiniteSet(Under(q)) /\ Cardinality(Under(q)) \in Nat
    BY FS_Subset, FS_CardinalityType
  <1>2. \A q \in S : rank[q] \in Nat
    BY DEF Ranking
  <1>3. \A k : \A q : q \in Strongest(S, rank, k) <=> q \in S /\ Cardinality(Under(q)) < k
    BY DEF Strongest
  <1>4. T \subseteq S /\ IsFiniteSet(T)
    BY <1>3, FS_Subset
  <1>5. \E u \in S : u \notin T
    <2>1. ASSUME S = T PROVE FALSE
      BY <2>1
    <2> QED BY <1>4, <2>1
  <1>6. PICK m \in S : m \notin T /\ \A u \in S : u \notin T => rank[m] <= rank[u]
    <2> DEFINE N == {rank[u] : u \in {v \in S : v \notin T}}
    <2>1. N \in SUBSET Nat /\ N # {}
      BY <1>2, <1>5
    <2>2. PICK x \in N : \A y \in N : x <= y
      <3> HIDE DEF N
      <3> QED BY <2>1, LeastNat
    <2>3. PICK m \in S : m \notin T /\ x = rank[m]
      BY <2>2
    <2> QED BY <2>2, <2>3
  <1>7. ASSUME NEW p \in S, NEW q \in T, rank[p] < rank[q] PROVE p \in T
    <2>1. \A r \in Under(p) : r \in Under(q)
      BY <1>2, <1>4, <1>7
    <2>2. Cardinality(Under(p)) <= Cardinality(Under(q))
      <3>1. Under(p) \subseteq Under(q)
        BY <2>1
      <3> HIDE DEF Under
      <3> QED BY <1>1, <3>1, FS_Subset
    <2>3. Cardinality(Under(q)) < n
      BY <1>3
    <2>4. Cardinality(Under(p)) < n
      <3> HIDE DEF Under
      <3> QED BY <1>1, <2>2, <2>3
    <2> QED BY <1>3, <2>4
  <1>8. Under(m) = T
    <2>1. ASSUME NEW p \in Under(m) PROVE p \in T
      <3>1. ~(rank[m] <= rank[p])
        BY <1>2, <2>1
      <3> QED BY <1>6, <2>1, <3>1
    <2>2. ASSUME NEW p \in T PROVE p \in Under(m)
      <3>1. ~(rank[m] < rank[p])
        BY <1>6, <1>7, <2>2
      <3>2. rank[m] # rank[p]
        BY <1>4, <1>6, <2>2 DEF Ranking
      <3>3. rank[p] \in Nat /\ rank[m] \in Nat
        BY <1>2, <1>4, <2>2
      <3>4. rank[p] < rank[m]
        BY <3>1, <3>2, <3>3
      <3> QED BY <1>4, <2>2, <3>4
    <2> QED BY <2>1, <2>2
  <1> PICK V : V = Strongest(S, rank, n + 1)
    OBVIOUS
  <1> HIDE DEF Under
  <1>9. m \in V
    <2>1. Cardinality(Under(m)) < n + 1
      BY <1>8
    <2> QED BY <1>3, <2>1
  <1>10. T \subseteq V
    <2>1. ASSUME NEW q \in T PROVE q \in V
      <3>1. q \in S /\ Cardinality(Under(q)) < n /\ Cardinality(Under(q)) \in Nat
        BY <1>1, <1>3
      <3>2. Cardinality(Under(q)) < n + 1
        BY <3>1
      <3> QED BY <1>3, <3>1, <3>2
    <2> QED BY <2>1
  <1>11. ASSUME NEW u \in V, u \notin T, u # m PROVE FALSE
    <2>1. u \in S /\ Cardinality(Under(u)) < n + 1
      BY <1>3
    <2>2. rank[m] < rank[u]
      <3>1. rank[m] <= rank[u] /\ rank[m] # rank[u]
        BY <1>6, <1>11, <2>1 DEF Ranking
      <3> QED BY <1>2, <2>1, <3>1
    <2>3. \A p \in T \cup {m} : p \in Under(u)
      <3>1. ASSUME NEW p \in T PROVE p \in Under(u)
        <4>1. p \in Under(m)
          BY <1>8
        <4>2. p \in S /\ rank[p] < rank[m]
          BY <4>1 DEF Under
        <4>3. rank[p] < rank[u]
          BY <1>2, <2>1, <2>2, <4>2
        <4> QED BY <4>2, <4>3 DEF Under
      <3>2. m \in Under(u)
        BY <2>2 DEF Under
      <3> QED BY <3>1, <3>2
    <2>4. Cardinality(T \cup {m}) = n + 1
      BY <1>4, <1>6, FS_AddElement
    <2>5. Cardinality(T \cup {m}) <= Cardinality(Under(u))
      <3>1. T \cup {m} \subseteq Under(u)
        BY <2>3
      <3> QED BY <1>1, <3>1, FS_Subset
    <2>6. Cardinality(Under(u)) \in Nat
      BY <1>1
    <2> QED BY <2>1, <2>4, <2>5, <2>6
  <1>12. V = T \cup {m}
    BY <1>9, <1>10, <1>11
  <1>13. Cardinality(T \cup {m}) = n + 1
    BY <1>4, <1>6, FS_AddElement
  <1> QED BY <1>12, <1>13

\* Strongest fills the seats it is given.
LEMMA StrongestCount ==
    ASSUME NEW S, IsFiniteSet(S), NEW rank, Ranking(rank, S), NEW n \in Nat, n <= Cardinality(S)
    PROVE  Strongest(S, rank, n) \subseteq S /\ Cardinality(Strongest(S, rank, n)) = n
  <1>1. Strongest(S, rank, n) \subseteq S
    BY DEF Strongest
  <1> DEFINE M == {k \in 0 .. n : Cardinality(Strongest(S, rank, k)) = k}
  <1>2. 0 \in M
    <2>1. \A q \in S : Cardinality({p \in S : rank[p] < rank[q]}) \in Nat
      BY FS_Subset, FS_CardinalityType
    <2>2. \A q \in S : ~(Cardinality({p \in S : rank[p] < rank[q]}) < 0)
      BY <2>1
    <2>3. Strongest(S, rank, 0) = {}
      BY <2>2 DEF Strongest
    <2>4. Cardinality({}) = 0
      BY FS_EmptySet
    <2> QED BY <2>3, <2>4
  <1>3. ASSUME NEW k \in 0 .. n - 1, k \in M PROVE k + 1 \in M
    <2>1. k < Cardinality(S)
      <3>1. Cardinality(S) \in Nat
        BY FS_CardinalityType
      <3> QED BY <3>1
    <2>2. k \in Nat /\ k + 1 \in 0 .. n
      OBVIOUS
    <2>3. Cardinality(Strongest(S, rank, k)) = k
      BY <1>3
    <2>4. Cardinality(Strongest(S, rank, k + 1)) = k + 1
      BY <2>1, <2>2, <2>3, StrongestStep
    <2> QED BY <2>2, <2>4
  <1>4. n \in M
    <2> HIDE DEF M
    <2> QED BY <1>2, <1>3, NatInd
  <1> QED BY <1>1, <1>4

\* A set of one.
LEMMA OneElement ==
    ASSUME NEW C, NEW t, C = {t}
    PROVE  Cardinality(C) = 1
  BY FS_Singleton

\* Parties in which nobody is named twice.
Proper(Q) == {p \in Filled(Q) : Cardinality(Members(p)) = Size(p)}

\* They are parties that have a player.
LEMMA ProperType ==
    ASSUME NEW Q, NEW s \in Seq(Proper(Q))
    PROVE  s \in Seq(Filled(Q)) /\ s \in Seq(PartyOf(Q)) /\ Heads(s) \in Nat
  <1>1. Proper(Q) \in SUBSET Filled(Q)
    BY DEF Proper
  <1>2. s \in Seq(Filled(Q))
    BY <1>1
  <1> QED BY <1>2, FilledType

\* Of such parties that share nobody, heads are players.
LEMMA HeadsExact ==
    ASSUME NEW Q, NEW s \in Seq(Proper(Q)), Separate(s)
    PROVE  Cardinality(Players(s)) = Heads(s)
  <1> PICK n \in Nat : n = Len(s) /\ DOMAIN s = 1 .. n
    OBVIOUS
  <1>0. s \in Seq(PartyOf(Q))
    BY ProperType
  <1>1. PICK a \in [0 .. n -> Nat] :
           a[0] = 0 /\ a[n] = Heads(s) /\ \A k \in 1 .. n : a[k] = a[k - 1] + Size(s[k])
    <2>1. PICK a \in [0 .. Len(s) -> Nat] :
             a[0] = 0 /\ a[Len(s)] = Heads(s) /\ \A k \in 1 .. Len(s) : a[k] = a[k - 1] + Size(s[k])
      BY <1>0, HeadsSteps
    <2> QED BY <2>1
  <1> DEFINE M == {k \in 0 .. n : Cardinality(Within(s, 1 .. k)) = a[k]}
  <1>2. 0 \in M
    <2>1. 1 .. 0 = {}
      OBVIOUS
    <2>2. Within(s, 1 .. 0) = {}
      BY <2>1 DEF Within
    <2>3. Cardinality({}) = 0
      BY FS_EmptySet
    <2>4. Cardinality(Within(s, 1 .. 0)) = a[0] /\ 0 \in 0 .. n
      BY <1>1, <2>2, <2>3
    <2> QED BY <2>4
  <1>3. ASSUME NEW k \in 0 .. n - 1, k \in M PROVE k + 1 \in M
    <2> PICK j \in 1 .. n : j = k + 1
      OBVIOUS
    <2> PICK A : A = Within(s, 1 .. k)
      OBVIOUS
    <2> PICK B : B = Members(s[j])
      OBVIOUS
    <2>1. IsFiniteSet(A)
      <3>1. 1 .. k \subseteq DOMAIN s
        OBVIOUS
      <3> QED BY <1>0, <3>1, WithinPart
    <2>2. IsFiniteSet(B) /\ Cardinality(B) = Size(s[j])
      <3>1. s[j] \in Proper(Q)
        OBVIOUS
      <3>2. s[j] \in PartyOf(Q)
        BY <1>0
      <3> QED BY <3>1, <3>2, MembersBound DEF Proper
    <2>3. \A i : i \in 1 .. j <=> i \in 1 .. k \/ i = j
      OBVIOUS
    <2>4. Within(s, 1 .. j) = A \cup B
      BY <2>3 DEF Within
    <2>5. A \cap B = {}
      <3>1. \A i \in 1 .. k : i \in DOMAIN s /\ i # j
        OBVIOUS
      <3> QED BY <3>1 DEF Within, Separate
    <2>6. Cardinality(A \cup B) = Cardinality(A) + Cardinality(B) - Cardinality(A \cap B)
      BY <2>1, <2>2, FS_Union
    <2>7. Cardinality(A \cap B) = 0
      BY <2>5, FS_EmptySet
    <2>8. Cardinality(A) = a[k] /\ a[k] \in Nat
      BY <1>3
    <2>9. a[j] = a[k] + Size(s[j])
      <3>1. j - 1 = k
        OBVIOUS
      <3> QED BY <1>1, <3>1
    <2>10. Size(s[j]) \in Nat
      BY <2>2, FS_CardinalityType
    <2>11. Cardinality(Within(s, 1 .. j)) = a[j]
      BY <2>2, <2>4, <2>6, <2>7, <2>8, <2>9, <2>10
    <2>12. j \in 0 .. n
      OBVIOUS
    <2> QED BY <2>11, <2>12
  <1>4. n \in M
    <2> HIDE DEF M
    <2> QED BY <1>2, <1>3, NatInd
  <1>5. Within(s, 1 .. n) = Players(s)
    BY DEF Within, Players
  <1> QED BY <1>1, <1>4, <1>5

\* The parties of x, from the first k of t, each at most once.
Packed(f, x, t, k) ==
    /\ f \in [DOMAIN x -> 1 .. k]
    /\ \A i \in DOMAIN x : x[i] = t[f[i]]
    /\ \A i, j \in DOMAIN x : f[i] = f[j] => i = j

\* The first k of t that are not in x do not fit behind it.
Crowded(x, t, k, seats) ==
    \A l \in 1 .. k : (\E i \in DOMAIN x : x[i] = t[l]) \/ Heads(x) + Size(t[l]) > seats

\* Solos before a solo of x are in x.
Early(f, x, t) ==
    \A i \in DOMAIN x : \A l \in 1 .. f[i] :
        Size(x[i]) = 1 /\ Size(t[l]) = 1 => \E e \in DOMAIN x : x[e] = t[l]

\* PackParties takes parties in their order, leaves out none that fits, and no solo for
\* one behind him.
LEMMA PackOrder ==
    ASSUME NEW Q, NEW t \in Seq(PartyOf(Q)), NEW seats \in Nat,
           NEW y, y = PackParties(t, seats)
    PROVE  \E f : Packed(f, y, t, Len(t)) /\ Crowded(y, t, Len(t), seats) /\ Early(f, y, t)
  <1> PICK n \in Nat : n = Len(t) /\ DOMAIN t = 1 .. n
    OBVIOUS
  <1>0. PICK a \in [0 .. n -> Seq(PartyOf(Q))] : PackTrace(a, t, seats)
    BY PackSteps
  <1>1. /\ a[0] = <<>> /\ a[n] = y
        /\ \A k \in 1 .. n :
              a[k] = IF seats >= 0 /\ Heads(a[k - 1]) + Size(t[k]) > seats
                     THEN a[k - 1] ELSE Append(a[k - 1], t[k])
    BY <1>0, Zenon DEF PackTrace
  <1>2. \A p \in PartyOf(Q) : Size(p) \in Nat
    BY DEF PartyOf, Size
  <1> DEFINE Done(k, x) == \E f : Packed(f, x, t, k) /\ Crowded(x, t, k, seats) /\ Early(f, x, t)
             M == {k \in 0 .. n : Done(k, a[k])}
  <1>3. 0 \in M
    <2> DEFINE f == [i \in {} |-> 1]
    <2>1. DOMAIN a[0] = {} /\ 1 .. 0 = {} /\ 0 \in 0 .. n
      BY <1>1
    <2>2. Packed(f, a[0], t, 0) /\ Crowded(a[0], t, 0, seats) /\ Early(f, a[0], t)
      BY <2>1 DEF Packed, Crowded, Early
    <2> QED BY <2>1, <2>2
  <1>4. ASSUME NEW k \in 0 .. n - 1, k \in M PROVE k + 1 \in M
    <2> PICK j \in 1 .. n : j = k + 1
      OBVIOUS
    <2> PICK p \in PartyOf(Q) : p = t[j]
      OBVIOUS
    <2> PICK x \in Seq(PartyOf(Q)) : x = a[k]
      OBVIOUS
    <2> PICK z \in Seq(PartyOf(Q)) : z = a[j]
      OBVIOUS
    <2> PICK m \in Nat : m = Len(x) /\ DOMAIN x = 1 .. m
      OBVIOUS
    <2> PICK h \in Nat : h = Heads(x)
      BY HeadsType
    <2> PICK b \in Nat : b = Size(p)
      BY <1>2
    <2>1. z = IF seats >= 0 /\ Heads(x) + Size(p) > seats THEN x ELSE Append(x, p)
      <3>1. j - 1 = k
        OBVIOUS
      <3> QED BY <1>1, <3>1, Zenon
    <2>2. PICK f : Packed(f, x, t, k) /\ Crowded(x, t, k, seats) /\ Early(f, x, t)
      BY <1>4
    <2>3. \A l \in 1 .. j : l \in 1 .. k \/ l = j
      OBVIOUS
    <2>4. 1 .. k \subseteq 1 .. j /\ j \in 0 .. n /\ j \notin 1 .. k
      OBVIOUS
    <2>5. CASE h + b > seats
      <3>1. z = x
        BY <2>1, <2>5
      <3>2. Packed(f, x, t, j)
        BY <2>2, <2>4 DEF Packed
      <3>3. Crowded(x, t, j, seats)
        BY <2>2, <2>3, <2>5 DEF Crowded
      <3> QED BY <2>2, <2>4, <3>1, <3>2, <3>3
    <2>6. CASE ~(h + b > seats)
      <3>1. z = Append(x, p)
        BY <2>1, <2>6
      <3>2. /\ DOMAIN z = 1 .. m + 1 /\ z[m + 1] = p
            /\ \A i \in 1 .. m : z[i] = x[i]
        BY <3>1
      <3>3. \A i : i \in 1 .. m + 1 <=> i \in 1 .. m \/ i = m + 1
        OBVIOUS
      <3>4. m + 1 \notin 1 .. m
        OBVIOUS
      <3>5. Heads(z) = h + b
        BY <3>1, HeadsAppend
      <3> DEFINE g == [i \in 1 .. m + 1 |-> IF i = m + 1 THEN j ELSE f[i]]
      <3>6. g[m + 1] = j /\ \A i \in 1 .. m : g[i] = f[i]
        BY <3>3, <3>4
      <3>f. f \in [1 .. m -> 1 .. k] /\ (\A i \in 1 .. m : x[i] = t[f[i]])
              /\ \A i, l \in 1 .. m : f[i] = f[l] => i = l
        BY <2>2 DEF Packed
      <3>7. g \in [1 .. m + 1 -> 1 .. j]
        <4>1. \A i \in 1 .. m + 1 : g[i] \in 1 .. j
          BY <2>4, <3>3, <3>6, <3>f
        <4> QED BY <4>1
      <3> HIDE DEF g
      <3>8. Packed(g, z, t, j)
        <4>1. ASSUME NEW i \in 1 .. m + 1 PROVE z[i] = t[g[i]]
          <5>1. CASE i = m + 1
            BY <3>2, <3>6, <5>1
          <5>2. CASE i \in 1 .. m
            <6>1. z[i] = x[i] /\ x[i] = t[f[i]] /\ g[i] = f[i]
              BY <3>2, <3>6, <3>f, <5>2
            <6> QED BY <6>1
          <5> QED BY <3>3, <5>1, <5>2
        <4>2. ASSUME NEW i \in 1 .. m + 1, NEW l \in 1 .. m + 1, g[i] = g[l] PROVE i = l
          <5>0. \A e \in 1 .. m : f[e] \in 1 .. k
            BY <3>f
          <5>1. \A e \in 1 .. m : g[e] # j
            BY <2>4, <3>6, <5>0
          <5>2. (i = m + 1 \/ i \in 1 .. m) /\ (l = m + 1 \/ l \in 1 .. m)
            BY <3>3
          <5> QED BY <3>6, <3>f, <4>2, <5>1, <5>2
        <4> QED BY <3>2, <3>7, <4>1, <4>2 DEF Packed
      <3>9. \A q : (\E i \in DOMAIN x : x[i] = q) => \E i \in DOMAIN z : z[i] = q
        BY <3>2, <3>3
      <3>10. Crowded(z, t, j, seats)
        <4>1. ASSUME NEW l \in 1 .. j
              PROVE  (\E i \in DOMAIN z : z[i] = t[l]) \/ Heads(z) + Size(t[l]) > seats
          <5>1. CASE l = j
            BY <3>2, <3>3, <5>1
          <5>2. CASE l \in 1 .. k /\ h + Size(t[l]) > seats
            <6>1. Size(t[l]) \in Nat
              BY <1>2
            <6> QED BY <3>5, <5>2, <6>1
          <5> QED BY <2>2, <2>3, <3>9, <5>1, <5>2 DEF Crowded
        <4> QED BY <4>1 DEF Crowded
      <3>11. Early(g, z, t)
        <4>1. ASSUME NEW i \in DOMAIN z, NEW l \in 1 .. g[i], Size(z[i]) = 1, Size(t[l]) = 1
              PROVE  \E e \in DOMAIN z : z[e] = t[l]
          <5>1. CASE i \in 1 .. m
            <6>1. l \in 1 .. f[i] /\ z[i] = x[i] /\ i \in DOMAIN x
              BY <3>2, <3>6, <4>1, <5>1
            <6>2. \E e \in DOMAIN x : x[e] = t[l]
              BY <2>2, <4>1, <6>1 DEF Early
            <6> QED BY <3>9, <6>2
          <5>2. CASE i = m + 1
            <6>1. b = 1 /\ l \in 1 .. j
              BY <3>2, <3>6, <4>1, <5>2
            <6>2. CASE l = j
              BY <3>2, <3>3, <6>2
            <6>3. CASE l \in 1 .. k
              <7>1. ~(h + Size(t[l]) > seats)
                BY <2>6, <4>1, <6>1
              <7>2. \E e \in DOMAIN x : x[e] = t[l]
                BY <2>2, <6>3, <7>1 DEF Crowded
              <7> QED BY <3>9, <7>2
            <6> QED BY <2>3, <6>1, <6>2, <6>3
          <5> QED BY <3>2, <3>3, <5>1, <5>2
        <4> QED BY <4>1 DEF Early
      <3> QED BY <2>4, <3>8, <3>10, <3>11
    <2> QED BY <2>5, <2>6
  <1>5. n \in M
    <2> HIDE DEF M
    <2> QED BY <1>3, <1>4, NatInd
  <1> QED BY <1>1, <1>5

\* Order is kept by a factor.
LEMMA Scaled ==
    ASSUME NEW a \in Nat, NEW b \in Nat, NEW k \in Nat
    PROVE  /\ a <= b => a * k <= b * k
           /\ a < b /\ k > 0 => a * k < b * k
  OBVIOUS

\* Means c / s are compared without division: a mean below another is below any third or
\* the third is below the other.
LEMMA MeanOrder ==
    ASSUME NEW cx \in Nat, NEW cy \in Nat, NEW cz \in Nat,
           NEW sx \in Nat, NEW sy \in Nat, NEW sz \in Nat, sy > 0, cx * sz < cz * sx
    PROVE  cx * sy < cy * sx \/ cy * sz < cz * sy
  <1> SUFFICES ASSUME ~(cx * sy < cy * sx), ~(cy * sz < cz * sy) PROVE FALSE
    OBVIOUS
  <1>1. /\ cx * sy \in Nat /\ cy * sx \in Nat /\ cy * sz \in Nat /\ cz * sy \in Nat
        /\ cx * sz \in Nat /\ cz * sx \in Nat
    OBVIOUS
  <1>2. cy * sx <= cx * sy /\ cz * sy <= cy * sz
    BY <1>1
  <1>3. (cy * sx) * sz <= (cx * sy) * sz
    BY <1>1, <1>2, Scaled
  <1>4. (cz * sy) * sx <= (cy * sz) * sx
    BY <1>1, <1>2, Scaled
  <1>5. (cx * sz) * sy < (cz * sx) * sy
    BY <1>1, Scaled
  <1>6. /\ (cz * sy) * sx = (cz * sx) * sy /\ (cy * sz) * sx = (cy * sx) * sz
        /\ (cx * sy) * sz = (cx * sz) * sy
    OBVIOUS
  <1>7. /\ (cz * sx) * sy \in Nat /\ (cy * sx) * sz \in Nat /\ (cx * sz) * sy \in Nat
    OBVIOUS
  <1> QED BY <1>3, <1>4, <1>5, <1>6, <1>7

\* The parties of t in order of their mean rank, the lowest first.
ByMean(t, rank) ==
    \A i, j \in DOMAIN t : i < j =>
        ~(Cost(Members(t[j]), rank) * Size(t[i]) < Cost(Members(t[i]), rank) * Size(t[j]))

\* ByMeanRank sorts by mean rank.
LEMMA MeanSorted ==
    ASSUME NEW Q, NEW P, P \subseteq Filled(Q), NEW s \in Seq(P), NEW rank, Ranking(rank, Players(s)),
           NEW t, t = ByMeanRank(s, rank)
    PROVE  t \in Seq(P) /\ ToSet(t) = ToSet(s) /\ Drawn(t, s) /\ ByMean(t, rank)
  <1> DEFINE before == {d \in (DOMAIN s) \X (DOMAIN s) :
                 Cost(Members(s[d[1]]), rank) * Size(s[d[2]])
                    < Cost(Members(s[d[2]]), rank) * Size(s[d[1]])}
  <1>1. t = Arranged(s, Insertion(s, before))
    BY DEF ByMeanRank, StableSort
  <1>2. PICK n \in Nat : n = Len(s) /\ DOMAIN s = 1 .. n
    OBVIOUS
  <1>3. PICK c \in [1 .. n -> Nat], z \in [1 .. n -> Nat] :
           \A x \in 1 .. n : c[x] = Cost(Members(s[x]), rank) /\ z[x] = Size(s[x]) /\ z[x] > 0
    <2> DEFINE c == [x \in 1 .. n |-> Cost(Members(s[x]), rank)]
               z == [x \in 1 .. n |-> Size(s[x])]
    <2>1. ASSUME NEW x \in 1 .. n
          PROVE  Cost(Members(s[x]), rank) \in Nat /\ Size(s[x]) \in Nat /\ Size(s[x]) > 0
      <3>1. s[x] \in Filled(Q)
        BY <1>2
      <3>2. s[x] \in PartyOf(Q) /\ Size(s[x]) > 0
        BY <3>1 DEF Filled
      <3> PICK S : S = Members(s[x])
        OBVIOUS
      <3>3. IsFiniteSet(S) /\ Size(s[x]) \in Nat
        BY <3>2, MembersBound
      <3>4. \A q \in S : rank[q] \in Nat
        <4>1. S \subseteq Players(s)
          BY <1>2 DEF Players
        <4> QED BY <4>1 DEF Ranking
      <3>5. Cost(S, rank) \in Nat
        BY <3>3, <3>4, CostStep
      <3> QED BY <3>2, <3>3, <3>5
    <2>2. /\ c \in [1 .. n -> Nat] /\ z \in [1 .. n -> Nat]
          /\ \A x \in 1 .. n : c[x] = Cost(Members(s[x]), rank) /\ z[x] = Size(s[x]) /\ z[x] > 0
      BY <2>1
    <2> QED BY <2>2
  <1>4. \A x, y \in 1 .. n : <<x, y>> \in before <=> c[x] * z[y] < c[y] * z[x]
    BY <1>2, <1>3
  <1>5. t \in Seq(P) /\ ToSet(t) = ToSet(s) /\ Drawn(t, s)
    BY <1>1, SortType, SortSet, SortDrawn
  <1> PICK o : o = Insertion(s, before)
    OBVIOUS
  <1>6. t = Arranged(s, o)
    BY <1>1
  <1> HIDE DEF before
  <1>7. WeakOrder(before, n)
    <2>1. \A x \in 1 .. n : c[x] \in Nat /\ z[x] \in Nat /\ z[x] > 0
      BY <1>3
    <2>2. ASSUME NEW x \in 1 .. n, NEW y \in 1 .. n, <<x, y>> \in before
          PROVE  <<y, x>> \notin before
      <3>1. c[x] * z[y] < c[y] * z[x] /\ c[x] * z[y] \in Nat /\ c[y] * z[x] \in Nat
        BY <1>4, <2>1, <2>2
      <3>2. ~(c[y] * z[x] < c[x] * z[y])
        BY <3>1
      <3> QED BY <1>4, <3>2
    <2>3. ASSUME NEW x \in 1 .. n, NEW y \in 1 .. n, NEW v \in 1 .. n, <<x, v>> \in before
          PROVE  <<x, y>> \in before \/ <<y, v>> \in before
      <3>1. c[x] * z[v] < c[v] * z[x]
        BY <1>4, <2>3
      <3>2. c[x] * z[y] < c[y] * z[x] \/ c[y] * z[v] < c[v] * z[y]
        BY <2>1, <3>1, MeanOrder
      <3> QED BY <1>4, <3>2
    <2> QED BY <2>2, <2>3 DEF WeakOrder
  <1>8. Listed(o, n) /\ Sorted(o, n, before)
    BY <1>2, <1>7, InsertionOrder
  <1>9. DOMAIN o = 1 .. n /\ \A i \in 1 .. n : o[i] \in 1 .. n
    <2>1. o \in Seq(1 .. n) /\ Len(o) = n
      BY <1>8 DEF Listed
    <2> QED BY <2>1
  <1>10. DOMAIN t = 1 .. n /\ \A i \in 1 .. n : t[i] = s[o[i]]
    BY <1>6, <1>9 DEF Arranged
  <1>11. ASSUME NEW i \in 1 .. n, NEW j \in 1 .. n, i < j
         PROVE  ~(Cost(Members(t[j]), rank) * Size(t[i]) < Cost(Members(t[i]), rank) * Size(t[j]))
    <2>1. o[i] \in 1 .. n /\ o[j] \in 1 .. n
      BY <1>9
    <2>2. <<o[j], o[i]>> \notin before
      BY <1>8, <1>11 DEF Sorted
    <2>3. ~(c[o[j]] * z[o[i]] < c[o[i]] * z[o[j]])
      BY <1>4, <2>1, <2>2
    <2>4. /\ c[o[i]] = Cost(Members(t[i]), rank) /\ z[o[i]] = Size(t[i])
          /\ c[o[j]] = Cost(Members(t[j]), rank) /\ z[o[j]] = Size(t[j])
      BY <1>3, <1>10, <2>1
    <2> QED BY <2>3, <2>4
  <1> QED BY <1>5, <1>10, <1>11 DEF ByMean

\* The mean rank of a solo is his own.
LEMMA SolosByMean ==
    ASSUME NEW Q, NEW t \in Seq(PartyOf(Q)), NEW rank, Ranking(rank, Players(t)), ByMean(t, rank),
           NEW i \in DOMAIN t, NEW j \in DOMAIN t, i < j, Size(t[i]) = 1, Size(t[j]) = 1
    PROVE  rank[t[i].members[1]] <= rank[t[j].members[1]]
  <1> PICK p : p = t[i].members[1]
    OBVIOUS
  <1> PICK q : q = t[j].members[1]
    OBVIOUS
  <1>1. Members(t[i]) = {p} /\ Members(t[j]) = {q}
    BY SoloMember
  <1>2. p \in Players(t) /\ q \in Players(t)
    BY <1>1 DEF Players
  <1>3. rank[p] \in Nat /\ rank[q] \in Nat
    BY <1>2 DEF Ranking
  <1>4. \A x : rank[x] \in Nat => Cost({x}, rank) = rank[x]
    <2>1. ASSUME NEW x, rank[x] \in Nat PROVE Cost({x}, rank) = rank[x]
      <3>1. IsFiniteSet({x}) /\ x \in {x} /\ \A y \in {x} : rank[y] \in Nat
        BY <2>1, FS_Singleton
      <3> QED BY <3>1, CostStep
    <2> QED BY <2>1
  <1>5. ~(Cost({q}, rank) * 1 < Cost({p}, rank) * 1)
    BY <1>1 DEF ByMean
  <1>6. Cost({q}, rank) = rank[q] /\ Cost({p}, rank) = rank[p]
    BY <1>3, <1>4
  <1>7. rank[p] <= rank[q]
    BY <1>3, <1>5, <1>6
  <1> QED BY <1>7

\* Players of the parties of a sequence.
LEMMA PlayersSet ==
    ASSUME NEW s
    PROVE  \A x : x \in Players(s) <=> \E p \in ToSet(s) : x \in Members(p)
  <1>1. ASSUME NEW x PROVE x \in Players(s) <=> \E i \in DOMAIN s : x \in Members(s[i])
    BY DEF Players
  <1>2. ASSUME NEW x
        PROVE  (\E p \in ToSet(s) : x \in Members(p)) <=> \E i \in DOMAIN s : x \in Members(s[i])
    BY DEF ToSet
  <1> QED BY <1>1, <1>2

\* Parties that are packed are some of the parties.
LEMMA PackedSeparate ==
    ASSUME NEW t, Separate(t), NEW y, NEW f, NEW k \in Nat, 1 .. k \subseteq DOMAIN t, Packed(f, y, t, k)
    PROVE  Separate(y) /\ ToSet(y) \subseteq ToSet(t)
  <1>1. /\ f \in [DOMAIN y -> 1 .. k]
        /\ \A i \in DOMAIN y : y[i] = t[f[i]]
        /\ \A i, j \in DOMAIN y : f[i] = f[j] => i = j
    BY DEF Packed
  <1>2. \A i \in DOMAIN y : f[i] \in DOMAIN t
    BY <1>1
  <1>3. ASSUME NEW i \in DOMAIN y, NEW j \in DOMAIN y, i # j PROVE Members(y[i]) \cap Members(y[j]) = {}
    <2>1. f[i] # f[j]
      BY <1>1, <1>3
    <2>2. Members(t[f[i]]) \cap Members(t[f[j]]) = {}
      BY <1>2, <2>1 DEF Separate
    <2> QED BY <1>1, <2>2
  <1>4. ToSet(y) \subseteq ToSet(t)
    BY <1>1, <1>2 DEF ToSet
  <1> QED BY <1>3, <1>4 DEF Separate

\* A party that is not packed shares nobody with those that are.
LEMMA PassedOver ==
    ASSUME NEW t, Separate(t), NEW y, NEW f, NEW k \in Nat, 1 .. k \subseteq DOMAIN t, Packed(f, y, t, k),
           NEW p, p \in ToSet(t), p \notin ToSet(y)
    PROVE  Players(y) \cap Members(p) = {}
  <1> PICK l \in DOMAIN t : p = t[l]
    BY DEF ToSet
  <1>1. ASSUME NEW i \in DOMAIN y PROVE Members(y[i]) \cap Members(p) = {}
    <2>1. f[i] \in DOMAIN t /\ y[i] = t[f[i]]
      BY DEF Packed
    <2>2. y[i] # p
      BY DEF ToSet
    <2>3. f[i] # l
      BY <2>1, <2>2
    <2> QED BY <2>1, <2>3 DEF Separate
  <1>2. \A q \in ToSet(y) : Members(q) \cap Members(p) = {}
    BY <1>1 DEF ToSet
  <1> QED BY <1>2, PlayersSet

\* The party that may be split when the whole parties y do not fill the seats.
Split(next, y, t, seats) ==
    /\ next \in ToSet(t) \ ToSet(y)
    /\ Players(y) \cap Members(next) = {}
    /\ seats < Heads(y) + Size(next)

\* There is one: it does not fit.
LEMMA SpillNext ==
    ASSUME NEW Q, NEW t \in Seq(Proper(Q)), Separate(t), NEW seats \in Nat, seats < Heads(t),
           NEW y, y = PackParties(t, seats), NEW next, next = Keep(t, ToSet(t) \ ToSet(y))[1]
    PROVE  Split(next, y, t, seats)
  <1>0. t \in Seq(PartyOf(Q)) /\ Heads(t) \in Nat
    BY ProperType
  <1>1. y \in Seq(Proper(Q))
    BY PackType
  <1>2. Heads(y) \in Nat /\ Heads(y) <= seats
    BY <1>0, <1>1, ProperType, PackBound
  <1>3. PICK f : Packed(f, y, t, Len(t)) /\ Crowded(y, t, Len(t), seats) /\ Early(f, y, t)
    BY <1>0, PackOrder
  <1>d. Len(t) \in Nat /\ DOMAIN t = 1 .. Len(t)
    OBVIOUS
  <1>4. Separate(y) /\ ToSet(y) \subseteq ToSet(t)
    BY <1>3, <1>d, PackedSeparate
  <1>5. ToSet(t) \ ToSet(y) # {}
    <2>1. ASSUME ToSet(t) \subseteq ToSet(y) PROVE FALSE
      <3>1. ToSet(t) = ToSet(y)
        BY <1>4, <2>1
      <3>2. Players(t) = Players(y)
        <4>1. \A x : x \in Players(t) <=> x \in Players(y)
          BY <3>1, PlayersSet
        <4>2. Players(t) \subseteq Players(y) /\ Players(y) \subseteq Players(t)
          BY <4>1
        <4> QED BY <4>2
      <3>3. Heads(t) = Heads(y)
        BY <1>1, <1>4, <3>2, HeadsExact
      <3> QED BY <1>0, <1>2, <3>3
    <2> QED BY <2>1
  <1> PICK K : K = Keep(t, ToSet(t) \ ToSet(y))
    OBVIOUS
  <1>6. ToSet(K) = ToSet(t) \ ToSet(y)
    <2>1. ToSet(K) = ToSet(t) \cap (ToSet(t) \ ToSet(y))
      BY KeepSet
    <2> QED BY <2>1
  <1>7. K \in Seq(Proper(Q))
    BY KeepPart
  <1>8. next \in ToSet(K)
    <2>1. DOMAIN K # {}
      BY <1>5, <1>6 DEF ToSet
    <2>2. 1 \in DOMAIN K
      <3>1. PICK i : i \in DOMAIN K
        BY <2>1
      <3>2. DOMAIN K = 1 .. Len(K) /\ Len(K) \in Nat
        BY <1>7
      <3> QED BY <3>1, <3>2
    <2> QED BY <2>2 DEF ToSet
  <1>9. next \in ToSet(t) /\ next \notin ToSet(y)
    BY <1>6, <1>8
  <1>10. PICK l \in 1 .. Len(t) : next = t[l]
    BY <1>9, <1>d DEF ToSet
  <1>11. Players(y) \cap Members(next) = {}
    BY <1>3, <1>9, <1>d, PassedOver
  <1>12. Heads(y) + Size(next) > seats
    <2>1. ~ \E i \in DOMAIN y : y[i] = t[l]
      BY <1>9, <1>10 DEF ToSet
    <2> QED BY <1>3, <1>10, <2>1 DEF Crowded
  <1>13. Size(next) \in Nat
    <2>1. next \in PartyOf(Q)
      BY <1>0, <1>10
    <2> QED BY <2>1 DEF PartyOf, Size
  <1>14. seats < Heads(y) + Size(next)
    BY <1>2, <1>12, <1>13
  <1> QED BY <1>9, <1>11, <1>14 DEF Split

\* All parties but one are whole.
OneCut(ps, D) == \E x : \A p \in ToSet(ps) : p # x => Uncut(p, D)

\* Some of several parties share nobody.
LEMMA DrawnSeparate ==
    ASSUME NEW s, Separate(s), NEW t, Drawn(t, s)
    PROVE  Separate(t)
  <1>1. PICK f \in [DOMAIN t -> DOMAIN s] :
           /\ \A k \in DOMAIN t : t[k] = s[f[k]]
           /\ \A j, k \in DOMAIN t : f[j] = f[k] => j = k
    BY DEF Drawn
  <1>2. ASSUME NEW j \in DOMAIN t, NEW k \in DOMAIN t, j # k
        PROVE  Members(t[j]) \cap Members(t[k]) = {}
    <2>1. f[j] \in DOMAIN s /\ f[k] \in DOMAIN s /\ f[j] # f[k] /\ t[j] = s[f[j]] /\ t[k] = s[f[k]]
      BY <1>1, <1>2
    <2>2. Members(s[f[j]]) \cap Members(s[f[k]]) = {}
      BY <2>1 DEF Separate
    <2> QED BY <2>1, <2>2
  <1> QED BY <1>2 DEF Separate

\* N fills the seats behind y with members of next.
Rest(N, y, next, seats) ==
    /\ N \subseteq Members(next) /\ Cardinality(Players(y) \cup N) = seats
    /\ seats = Heads(y) => N = {}

\* The strongest members do.
LEMMA SpillCount ==
    ASSUME NEW Q, NEW y \in Seq(Proper(Q)), Separate(y), NEW next \in Proper(Q), NEW seats \in Nat,
           Players(y) \cap Members(next) = {}, Heads(y) <= seats, seats <= Heads(y) + Size(next),
           NEW rank, Ranking(rank, Members(next)),
           NEW l \in Nat, l = seats - Heads(y), NEW N, N = Strongest(Members(next), rank, l)
    PROVE  Rest(N, y, next, seats)
  <1> PICK h \in Nat : h = Heads(y)
    BY ProperType
  <1> PICK B : B = Members(next)
    OBVIOUS
  <1> PICK A : A = Players(y)
    OBVIOUS
  <1>1. IsFiniteSet(B) /\ Cardinality(B) = Size(next) /\ Cardinality(B) \in Nat
    <2>1. next \in PartyOf(Q) /\ Cardinality(Members(next)) = Size(next)
      BY DEF Proper, Filled
    <2>2. IsFiniteSet(B)
      BY <2>1, MembersBound
    <2> QED BY <2>1, <2>2, FS_CardinalityType
  <1>2. IsFiniteSet(A) /\ Cardinality(A) = h
    <2>1. y \in Seq(PartyOf(Q))
      BY ProperType
    <2>2. IsFiniteSet(A)
      BY <2>1, PlayersBound
    <2> QED BY <2>2, HeadsExact
  <1>0. l = seats - h
    OBVIOUS
  <1>3. l <= Cardinality(B)
    BY <1>1, <1>0
  <1>4. N = Strongest(B, rank, l)
    OBVIOUS
  <1>5. N \subseteq B /\ Cardinality(N) = l
    BY <1>1, <1>3, <1>4, StrongestCount
  <1>6. IsFiniteSet(N)
    BY <1>1, <1>5, FS_Subset
  <1>7. Cardinality(A \cup N) = Cardinality(A) + Cardinality(N) - Cardinality(A \cap N)
    BY <1>2, <1>6, FS_Union
  <1>8. Cardinality(A \cap N) = 0
    <2>1. A \cap N = {}
      BY <1>5
    <2> QED BY <2>1, FS_EmptySet
  <1>9. Cardinality(A \cup N) = seats
    BY <1>2, <1>5, <1>7, <1>8, <1>0
  <1>10. ASSUME seats = h PROVE N = {}
    <2>1. Cardinality(N) = 0
      BY <1>5, <1>10, <1>0
    <2> QED BY <1>6, <2>1, FS_EmptySet
  <1> QED BY <1>5, <1>9, <1>10 DEF Rest

\* A solo who is passed over comes behind all that were packed, and whole solos are
\* never split.
LEMMA SpillAhead ==
    ASSUME NEW Q, NEW t \in Seq(Proper(Q)), Separate(t), NEW rank, Ranking(rank, Players(t)),
           ByMean(t, rank), NEW seats \in Nat, NEW y, y = PackParties(t, seats),
           NEW next, Split(next, y, t, seats), NEW N, Rest(N, y, next, seats),
           Heads(y) <= seats, NEW D, D = Players(y) \cup N
    PROVE  Ahead(D, t, rank) /\ OneCut(t, D)
  <1>r. N \subseteq Members(next) /\ (seats = Heads(y) => N = {})
    BY DEF Rest
  <1>0. t \in Seq(PartyOf(Q))
    BY ProperType
  <1> PICK n \in Nat : n = Len(t) /\ DOMAIN t = 1 .. n
    OBVIOUS
  <1>1. PICK f : Packed(f, y, t, n) /\ Crowded(y, t, n, seats) /\ Early(f, y, t)
    BY <1>0, PackOrder
  <1>2. \A p \in ToSet(t) : p \notin ToSet(y) => Players(y) \cap Members(p) = {}
    BY <1>1, PassedOver
  <1>3. \A p \in ToSet(y) : Members(p) \subseteq D
    BY PlayersSet
  <1>s. next \in ToSet(t) /\ next \notin ToSet(y)
    BY DEF Split
  <1> PICK l \in 1 .. n : next = t[l]
    BY <1>s DEF ToSet
  <1>4. ASSUME NEW p \in ToSet(t), p # next PROVE Uncut(p, D)
    <2>1. CASE p \in ToSet(y)
      BY <1>3, <2>1 DEF Uncut
    <2>2. CASE p \notin ToSet(y)
      <3>1. PICK i \in 1 .. n : p = t[i]
        BY DEF ToSet
      <3>2. Members(p) \cap Members(next) = {}
        BY <1>4, <3>1 DEF Separate
      <3>3. Players(y) \cap Members(p) = {}
        BY <1>2, <2>2
      <3> QED BY <1>r, <3>2, <3>3 DEF Uncut
    <2> QED BY <2>1, <2>2
  <1>5. ASSUME NEW i \in 1 .. n, NEW j \in 1 .. n, Size(t[i]) = 1, Size(t[j]) = 1,
               Members(t[i]) \subseteq D, Members(t[j]) \cap D = {}
        PROVE  rank[t[i].members[1]] <= rank[t[j].members[1]]
    <2>0. t[i] \in ToSet(t) /\ t[j] \in ToSet(t)
      BY DEF ToSet
    <2>1. Members(t[i]) # {} /\ Members(t[j]) # {}
      <3>1. t[i] \in Filled(Q) /\ t[j] \in Filled(Q)
        BY DEF Proper
      <3> QED BY <3>1, FilledMember
    <2>2. t[j] \notin ToSet(y)
      BY <1>3, <1>5, <2>1
    <2>3. CASE t[i] \in ToSet(y)
      <3>1. PICK e \in DOMAIN y : t[i] = y[e]
        BY <2>3 DEF ToSet
      <3>2. f[e] \in 1 .. n /\ y[e] = t[f[e]]
        BY <1>1 DEF Packed
      <3>3. f[e] = i
        BY <2>1, <3>1, <3>2 DEF Separate
      <3>4. ASSUME j \in 1 .. i PROVE FALSE
        <4>1. \E g \in DOMAIN y : y[g] = t[j]
          BY <1>1, <1>5, <3>1, <3>3, <3>4 DEF Early
        <4> QED BY <2>2, <4>1 DEF ToSet
      <3>5. i < j
        BY <3>4
      <3> QED BY <1>0, <1>5, <3>5, SolosByMean
    <2>4. CASE t[i] \notin ToSet(y)
      <3>1. Players(y) \cap Members(t[i]) = {}
        BY <1>2, <2>0, <2>4
      <3>2. N # {} /\ Members(t[i]) \cap Members(next) # {}
        BY <1>5, <1>r, <2>1, <3>1
      <3>3. l = i
        BY <3>2 DEF Separate
      <3>4. seats < Heads(y) + 1
        BY <1>5, <3>3 DEF Split
      <3>5. Heads(y) \in Nat
        <4>1. y \in Seq(Proper(Q))
          BY PackType
        <4> QED BY <4>1, ProperType
      <3> QED BY <1>r, <3>2, <3>4, <3>5
    <2> QED BY <2>3, <2>4
  <1>6. Ahead(D, t, rank)
    BY <1>5 DEF Ahead
  <1> QED BY <1>4, <1>6 DEF OneCut

\* The order of the parties does not matter.
LEMMA AheadSet ==
    ASSUME NEW t, NEW s, ToSet(t) = ToSet(s), NEW D, NEW rank, Ahead(D, t, rank)
    PROVE  Ahead(D, s, rank)
  <1>1. ASSUME NEW i \in DOMAIN s PROVE \E k \in DOMAIN t : t[k] = s[i]
    <2>1. s[i] \in ToSet(t)
      BY DEF ToSet
    <2> QED BY <2>1 DEF ToSet
  <1>2. ASSUME NEW i \in DOMAIN s, NEW j \in DOMAIN s, Size(s[i]) = 1, Size(s[j]) = 1,
               Members(s[i]) \subseteq D, Members(s[j]) \cap D = {}
        PROVE  rank[s[i].members[1]] <= rank[s[j].members[1]]
    <2>1. PICK k \in DOMAIN t : t[k] = s[i]
      BY <1>1
    <2>2. PICK m \in DOMAIN t : t[m] = s[j]
      BY <1>1
    <2> QED BY <1>2, <2>1, <2>2 DEF Ahead
  <1> QED BY <1>2 DEF Ahead

\* Spill fills the seats, splits one party at most, and keeps the solos in order.
LEMMA SpillGood ==
    ASSUME NEW Q, NEW ps \in Seq(Proper(Q)), Separate(ps), NEW rank, Ranking(rank, Players(ps)),
           NEW seats \in Nat, seats < Heads(ps), NEW D, D = Spill(ps, seats, rank)
    PROVE  /\ D \subseteq Players(ps) /\ Cardinality(D) = seats
           /\ OneCut(ps, D) /\ Ahead(D, ps, rank)
  <1> PICK t : t = ByMeanRank(ps, rank)
    OBVIOUS
  <1>1. t \in Seq(Proper(Q)) /\ ToSet(t) = ToSet(ps) /\ Drawn(t, ps) /\ ByMean(t, rank)
    <2>1. Proper(Q) \subseteq Filled(Q)
      BY DEF Proper
    <2> QED BY <2>1, MeanSorted
  <1>2. Separate(t)
    BY <1>1, DrawnSeparate
  <1>3. Players(t) = Players(ps)
    <2>1. \A x : x \in Players(t) <=> x \in Players(ps)
      BY <1>1, PlayersSet
    <2>2. Players(t) \subseteq Players(ps) /\ Players(ps) \subseteq Players(t)
      BY <2>1
    <2> QED BY <2>2
  <1>4. seats < Heads(t)
    <2>1. Cardinality(Players(t)) = Heads(t)
      BY <1>1, <1>2, HeadsExact
    <2>2. Cardinality(Players(ps)) = Heads(ps)
      BY HeadsExact
    <2> QED BY <1>3, <2>1, <2>2
  <1> PICK y : y = PackParties(t, seats)
    OBVIOUS
  <1> PICK next : next = Keep(t, ToSet(t) \ ToSet(y))[1]
    OBVIOUS
  <1> PICK l : l = seats - Heads(y)
    OBVIOUS
  <1> PICK N : N = Strongest(Members(next), rank, l)
    OBVIOUS
  <1>5. D = Players(y) \cup N
    BY DEF Spill
  <1>6. Split(next, y, t, seats)
    BY <1>1, <1>2, <1>4, SpillNext
  <1>7. next \in Proper(Q) /\ Members(next) \subseteq Players(ps)
    <2>1. next \in ToSet(t)
      BY <1>6 DEF Split
    <2>2. PICK i \in DOMAIN t : next = t[i]
      BY <2>1 DEF ToSet
    <2>3. next \in Proper(Q)
      BY <1>1, <2>2
    <2>4. Members(next) \subseteq Players(t)
      BY <2>1, PlayersSet
    <2> QED BY <1>3, <2>3, <2>4
  <1>8. y \in Seq(Proper(Q))
    BY <1>1, PackType
  <1>9. Heads(y) \in Nat /\ Heads(y) <= seats
    BY <1>1, <1>8, ProperType, PackBound
  <1>10. Separate(y) /\ ToSet(y) \subseteq ToSet(t)
    <2>0. t \in Seq(PartyOf(Q))
      BY <1>1, ProperType
    <2>1. PICK f : Packed(f, y, t, Len(t))
      BY <2>0, PackOrder
    <2>2. Len(t) \in Nat /\ 1 .. Len(t) \subseteq DOMAIN t
      BY <1>1
    <2> QED BY <1>2, <2>1, <2>2, PackedSeparate
  <1>11. Players(y) \subseteq Players(ps)
    <2>1. \A x : x \in Players(y) => x \in Players(t)
      BY <1>10, PlayersSet
    <2> QED BY <1>3, <2>1
  <1>12. Ranking(rank, Members(next))
    BY <1>7 DEF Ranking
  <1>13. seats <= Heads(y) + Size(next) /\ Players(y) \cap Members(next) = {}
    <2>1. seats < Heads(y) + Size(next) /\ Players(y) \cap Members(next) = {}
      BY <1>6 DEF Split
    <2>2. Size(next) \in Nat
      BY <1>7 DEF Proper, Filled, PartyOf, Size
    <2> PICK a \in Nat : a = Heads(y)
      BY <1>9
    <2> PICK b \in Nat : b = Size(next)
      BY <2>2
    <2>3. seats < a + b
      BY <2>1
    <2>4. seats <= a + b
      BY <2>3
    <2> QED BY <2>1, <2>4
  <1>14. Rest(N, y, next, seats)
    <2>1. Heads(y) <= seats
      BY <1>9
    <2>2. next \in Proper(Q)
      BY <1>7
    <2>3. Separate(y)
      BY <1>10
    <2>4. seats <= Heads(y) + Size(next)
      BY <1>13
    <2>5. Players(y) \cap Members(next) = {}
      BY <1>13
    <2>6. l \in Nat
      BY <1>9
    <2> QED BY <1>8, <1>12, <2>6, <2>1, <2>2, <2>3, <2>4, <2>5, SpillCount
  <1>15. Ahead(D, t, rank) /\ OneCut(t, D)
    <2>1. Ranking(rank, Players(t))
      BY <1>3
    <2>2. Heads(y) <= seats
      BY <1>9
    <2>3. t \in Seq(Proper(Q))
      BY <1>1
    <2>4. ByMean(t, rank)
      BY <1>1
    <2>5. Split(next, y, t, seats) /\ Rest(N, y, next, seats)
      BY <1>6, <1>14
    <2>6. y = PackParties(t, seats)
      OBVIOUS
    <2>7. \A x, p, M :
             x = PackParties(t, seats) /\ Split(p, x, t, seats) /\ Rest(M, x, p, seats) /\ Heads(x) <= seats
               => Ahead(Players(x) \cup M, t, rank) /\ OneCut(t, Players(x) \cup M)
      BY <1>2, <2>1, <2>3, <2>4, SpillAhead
    <2> QED BY <1>5, <2>2, <2>5, <2>6, <2>7
  <1>16. Ahead(D, ps, rank)
    BY <1>1, <1>15, AheadSet
  <1>17. OneCut(ps, D)
    BY <1>1, <1>15 DEF OneCut
  <1> QED BY <1>5, <1>7, <1>11, <1>14, <1>16, <1>17 DEF Rest

-----------------------------------------------------------------------------
(* Double Agent matches.                                                  *)

\* The solos of ps who defend did so last before the ones who do not.
Rotated(D, ps, fair) ==
    \A i, j \in DOMAIN ps :
        Size(ps[i]) = 1 /\ Size(ps[j]) = 1 /\ Members(ps[i]) \subseteq D /\ Members(ps[j]) \cap D = {}
            => fair[ps[i].members[1].id].lastDefended <= fair[ps[j].members[1].id].lastDefended

\* What DefenderRotation::Assign promises of the set D it chooses.
GoodDefense(D, ps, seats, fair) ==
    /\ D \subseteq Players(ps) /\ Cardinality(D) = seats
    /\ OneCut(ps, D)
    /\ Fits(ps, seats) # {} => \A p \in ToSet(ps) : Uncut(p, D)
    /\ Rotated(D, ps, fair)

\* Solos in the order of their numbers are in the order of their claims.
LEMMA AheadRotated ==
    ASSUME NEW Q, NEW ps \in Seq(PartyOf(Q)), NEW fair, ClaimsOf(Q, fair),
           NEW rank, rank = Ranks(ps, fair), NEW D, Ahead(D, ps, rank)
    PROVE  Rotated(D, ps, fair)
  <1>1. ASSUME NEW i \in DOMAIN ps, NEW j \in DOMAIN ps, Size(ps[i]) = 1, Size(ps[j]) = 1,
               Members(ps[i]) \subseteq D, Members(ps[j]) \cap D = {}
        PROVE  fair[ps[i].members[1].id].lastDefended <= fair[ps[j].members[1].id].lastDefended
    <2> PICK p : p = ps[i].members[1]
      OBVIOUS
    <2> PICK q : q = ps[j].members[1]
      OBVIOUS
    <2>1. Members(ps[i]) = {p} /\ Members(ps[j]) = {q}
      <3>1. ps[i] \in PartyOf(Q) /\ ps[j] \in PartyOf(Q)
        OBVIOUS
      <3> QED BY <1>1, <3>1, SoloMember
    <2>2. p \in Players(ps) /\ q \in Players(ps)
      BY <2>1 DEF Players
    <2>3. rank[p] <= rank[q]
      BY <1>1 DEF Ahead
    <2>4. fair[p.id].lastDefended <= fair[q.id].lastDefended
      BY <2>2, <2>3, RankOrder
    <2> QED BY <2>4
  <1> QED BY <1>1 DEF Rotated

\* It keeps the promise, whether whole parties fill the seats or not.
LEMMA DefendersGood ==
    ASSUME NEW Q, NEW ps \in Seq(Proper(Q)), Separate(ps), NEW fair, ClaimsOf(Q, fair),
           NEW seats \in Nat, seats < Heads(ps), NEW D, D = Defenders(ps, seats, fair)
    PROVE  GoodDefense(D, ps, seats, fair)
  <1> PICK rank : rank = Ranks(ps, fair)
    OBVIOUS
  <1> PICK F : F = Fits(ps, seats)
    OBVIOUS
  <1>1. ps \in Seq(PartyOf(Q)) /\ ps \in Seq(Filled(Q))
    BY ProperType
  <1>2. Ranking(rank, Players(ps))
    BY <1>1, RankOrder
  <1>3. CASE F # {}
    <2> PICK I : I = BestFit(ps, seats, rank)
      OBVIOUS
    <2>1. D = Within(ps, I)
      BY <1>3 DEF Defenders
    <2>2. I \in F
      BY <1>1, <1>2, <1>3, FitBest
    <2>3. I \subseteq DOMAIN ps /\ Cardinality(D) = seats
      BY <2>1, <2>2 DEF Fits
    <2>4. D \subseteq Players(ps)
      BY <1>1, <2>1, <2>3, WithinPart
    <2>5. ASSUME NEW p \in ToSet(ps) PROVE Uncut(p, D)
      <3>1. PICK k \in DOMAIN ps : p = ps[k]
        BY DEF ToSet
      <3> QED BY <2>1, <2>3, <3>1, FitUncut
    <2>6. Ahead(D, ps, rank)
      BY <1>1, <1>2, <1>3, <2>1, FitAhead
    <2>7. Rotated(D, ps, fair)
      BY <1>1, <2>6, AheadRotated
    <2>8. OneCut(ps, D)
      BY <2>5 DEF OneCut
    <2> QED BY <2>3, <2>4, <2>5, <2>7, <2>8 DEF GoodDefense
  <1>4. CASE F = {}
    <2>1. D = Spill(ps, seats, rank)
      BY <1>4 DEF Defenders
    <2>2. D \subseteq Players(ps) /\ Cardinality(D) = seats /\ OneCut(ps, D) /\ Ahead(D, ps, rank)
      BY <1>2, <2>1, SpillGood
    <2>3. Rotated(D, ps, fair)
      BY <1>1, <2>2, AheadRotated
    <2> QED BY <1>4, <2>2, <2>3 DEF GoodDefense
  <1> QED BY <1>3, <1>4

\* The shape table has both sides for every size.
LEMMA AttackersFew ==
    ASSUME NEW n \in 2 .. 10
    PROVE  Attackers[n] \in 1 .. n - 1
  <1>1. Attackers[n] = <<1, 2, 2, 3, 4, 4, 5, 5, 6>>[n - 1]
    BY DEF Attackers
  <1>2. n = 2 \/ n = 3 \/ n = 4 \/ n = 5 \/ n = 6 \/ n = 7 \/ n = 8 \/ n = 9 \/ n = 10
    OBVIOUS
  <1> QED BY <1>1, <1>2

\* The sides a result gives are those of a set that keeps the promise.
Defended(r, fair) ==
    \E D, seats :
        /\ seats = Heads(r.taken) - Attackers[Heads(r.taken)] /\ seats > 0
        /\ GoodDefense(D, r.taken, seats, fair)
        /\ DOMAIN r.tf = Players(r.taken)
        /\ \A q \in Players(r.taken) : r.tf[q] = IF q \in D THEN 2 ELSE 1

\* A new Double Agent match of parties that share nobody.
SealedResult(r, Q, fair) ==
    /\ r.inst = 0 /\ r.access = "SEALED"
    /\ r.taken \in Seq(Proper(Q)) /\ Separate(r.taken)
    /\ Defended(r, fair)

\* DoubleAgentMatchRule returns one, or nothing.
LEMMA AgentDefended ==
    ASSUME NEW Q, NEW ps \in Seq(Proper(Q)), Separate(ps), NEW fair, ClaimsOf(Q, fair),
           NEW r, r = AgentRule(ps, fair), r # NoResult
    PROVE  SealedResult(r, Q, fair)
  <1> PICK x : x = PackParties(ps, AgentMax)
    OBVIOUS
  <1>1. AgentMax \in Nat /\ AgentMax <= 10
    BY AgentAssumption
  <1>2. ps \in Seq(PartyOf(Q))
    BY ProperType
  <1>3. x \in Seq(Proper(Q))
    BY PackType
  <1>4. Separate(x)
    <2>1. PICK f : Packed(f, x, ps, Len(ps))
      BY <1>1, <1>2, PackOrder
    <2>2. Len(ps) \in Nat /\ 1 .. Len(ps) \subseteq DOMAIN ps
      OBVIOUS
    <2> QED BY <2>1, <2>2, PackedSeparate
  <1> PICK h \in Nat : h = Heads(x)
    BY <1>3, ProperType
  <1>5. h <= AgentMax
    BY <1>1, <1>2, PackBound
  <1> PICK D : D = Defenders(x, h - Attackers[h], fair)
    OBVIOUS
  <1>6. ~(h < 2) /\ r = Taken(x, [q \in D |-> 2], 0, "SEALED", h)
    BY DEF AgentRule
  <1>7. h \in 2 .. 10
    BY <1>1, <1>5, <1>6
  <1> PICK a \in Nat : a = Attackers[h] /\ a > 0 /\ a < h
    BY <1>7, AttackersFew
  <1> PICK seats \in Nat : seats = h - a /\ seats > 0 /\ seats < h
    OBVIOUS
  <1>8. D = Defenders(x, seats, fair)
    OBVIOUS
  <1>9. GoodDefense(D, x, seats, fair)
    <2>1. seats < Heads(x)
      OBVIOUS
    <2> QED BY <1>3, <1>4, <1>8, <2>1, DefendersGood
  <1>10. /\ r.taken = x /\ r.inst = 0 /\ r.access = "SEALED"
         /\ r.tf = [q \in Players(x) |-> IF q \in DOMAIN [p \in D |-> 2] THEN [p \in D |-> 2][q] ELSE 1]
    BY <1>6 DEF Taken
  <1>11. DOMAIN r.tf = Players(x) /\ \A q \in Players(x) : r.tf[q] = IF q \in D THEN 2 ELSE 1
    BY <1>10
  <1>12. seats = Heads(r.taken) - Attackers[Heads(r.taken)]
    BY <1>10
  <1>13. Defended(r, fair)
    BY <1>9, <1>10, <1>11, <1>12 DEF Defended
  <1> QED BY <1>3, <1>4, <1>10, <1>13 DEF SealedResult

\* The parties of P on both sides.
SplitOf(tf, P) == {p \in P : Cardinality({tf[q] : q \in Members(p)}) = 2}

\* One party at most is.
LEMMA OneSplit ==
    ASSUME NEW Q, NEW ps \in Seq(Proper(Q)), NEW D, OneCut(ps, D),
           NEW tf, \A q \in Players(ps) : tf[q] = IF q \in D THEN 2 ELSE 1,
           NEW split, split = SplitOf(tf, ToSet(ps))
    PROVE  Cardinality(split) <= 1 /\ \A p \in split : ~Uncut(p, D)
  <1>1. ASSUME NEW p \in ToSet(ps), Uncut(p, D) PROVE p \notin split
    <2>1. PICK k \in DOMAIN ps : p = ps[k]
      BY DEF ToSet
    <2>2. Members(p) # {}
      <3>1. p \in Filled(Q)
        BY <2>1 DEF Proper
      <3> QED BY <3>1, FilledMember
    <2>3. Members(p) \subseteq Players(ps)
      BY PlayersSet
    <2>4. \E t : \A q \in Members(p) : tf[q] = t
      <3>1. CASE Members(p) \subseteq D
        BY <2>3, <3>1
      <3>2. CASE Members(p) \cap D = {}
        BY <2>3, <3>2
      <3> QED BY <1>1, <3>1, <3>2 DEF Uncut
    <2>5. PICK t : \A q \in Members(p) : tf[q] = t
      BY <2>4
    <2> PICK C : C = {tf[q] : q \in Members(p)}
      OBVIOUS
    <2>6. C = {t}
      BY <2>2, <2>5
    <2>7. Cardinality(C) = 1
      BY <2>6, OneElement
    <2> QED BY <2>7 DEF SplitOf
  <1>2. PICK x : \A p \in ToSet(ps) : p # x => Uncut(p, D)
    BY DEF OneCut
  <1>3. split \subseteq {x}
    BY <1>1, <1>2 DEF SplitOf
  <1>4. IsFiniteSet({x}) /\ Cardinality({x}) = 1
    BY FS_Singleton
  <1>5. Cardinality(split) <= 1
    BY <1>3, <1>4, FS_Subset
  <1>6. \A p \in split : ~Uncut(p, D)
    BY <1>1 DEF SplitOf
  <1> QED BY <1>5, <1>6

\* If no positions fill the seats, no parties do.
LEMMA NoneFits ==
    ASSUME NEW ps, NEW seats \in Nat, seats > 0, Fits(ps, seats) = {}, NEW S, S \subseteq ToSet(ps)
    PROVE  Cardinality(UNION {Members(p) : p \in S}) # seats
  <1> PICK I : I = {i \in DOMAIN ps : ps[i] \in S}
    OBVIOUS
  <1> PICK U : U = UNION {Members(p) : p \in S}
    OBVIOUS
  <1>1. \A x : x \in U <=> \E p \in S : x \in Members(p)
    OBVIOUS
  <1>2. \A x : x \in Within(ps, I) <=> \E i \in I : x \in Members(ps[i])
    BY DEF Within
  <1>3. \A p \in S : \E i \in I : ps[i] = p
    BY DEF ToSet
  <1>4. U \subseteq Within(ps, I) /\ Within(ps, I) \subseteq U
    BY <1>1, <1>2, <1>3
  <1>5. ASSUME Cardinality(U) = seats PROVE FALSE
    <2>1. U # {}
      <3>1. Cardinality({}) = 0
        BY FS_EmptySet
      <3> QED BY <1>5, <3>1
    <2>2. I # {}
      BY <1>1, <1>3, <2>1
    <2>3. I \in SUBSET DOMAIN ps /\ Cardinality(Within(ps, I)) = seats
      BY <1>4, <1>5
    <2>4. I \in Fits(ps, seats)
      BY <2>2, <2>3 DEF Fits
    <2> QED BY <2>4
  <1> QED BY <1>5

\* The sides tf of the players of the parties in P are those of a Double Agent match.
ExactSides(tf, P) ==
    LET seats == Cardinality(DOMAIN tf) - Attackers[Cardinality(DOMAIN tf)] IN
    /\ Cardinality(Side(tf, 2)) = seats
    /\ Cardinality(SplitOf(tf, P)) <= 1
    /\ SplitOf(tf, P) # {} => \A S \in SUBSET P : Cardinality(UNION {Members(p) : p \in S}) # seats

\* The sides of a Double Agent match have the sizes of the shape table and split one
\* party at most, and only if no whole parties fill the seats.
LEMMA AgentExact ==
    ASSUME NEW Q, NEW fair, NEW r, SealedResult(r, Q, fair)
    PROVE  ExactSides(r.tf, ToSet(r.taken))
  <1> PICK ps : ps = r.taken
    OBVIOUS
  <1> PICK tf : tf = r.tf
    OBVIOUS
  <1>1. ps \in Seq(Proper(Q)) /\ Separate(ps)
    BY DEF SealedResult
  <1>2. PICK D, seats :
           /\ seats = Heads(ps) - Attackers[Heads(ps)] /\ seats > 0
           /\ GoodDefense(D, ps, seats, fair)
           /\ DOMAIN tf = Players(ps)
           /\ \A q \in Players(ps) : tf[q] = IF q \in D THEN 2 ELSE 1
    BY DEF SealedResult, Defended
  <1>3. /\ D \subseteq Players(ps) /\ Cardinality(D) = seats /\ OneCut(ps, D)
        /\ Fits(ps, seats) # {} => \A p \in ToSet(ps) : Uncut(p, D)
    BY <1>2 DEF GoodDefense
  <1>4. Cardinality(DOMAIN tf) = Heads(ps)
    BY <1>1, <1>2, HeadsExact
  <1>5. Side(tf, 2) = D
    BY <1>2, <1>3 DEF Side
  <1> PICK split : split = SplitOf(tf, ToSet(ps))
    OBVIOUS
  <1>6. Cardinality(split) <= 1 /\ \A p \in split : ~Uncut(p, D)
    BY <1>1, <1>2, <1>3, OneSplit
  <1>7. seats \in Nat
    <2>1. IsFiniteSet(D)
      <3>1. ps \in Seq(PartyOf(Q))
        BY <1>1, ProperType
      <3>2. IsFiniteSet(Players(ps))
        BY <3>1, PlayersBound
      <3> QED BY <1>3, <3>2, FS_Subset
    <2> QED BY <1>3, <2>1, FS_CardinalityType
  <1>8. ASSUME split # {}, NEW S \in SUBSET ToSet(ps)
        PROVE  Cardinality(UNION {Members(p) : p \in S}) # seats
    <2>1. Fits(ps, seats) = {}
      BY <1>3, <1>6, <1>8 DEF SplitOf
    <2> QED BY <1>2, <1>7, <1>8, <2>1, NoneFits
  <1>9. seats = Cardinality(DOMAIN tf) - Attackers[Cardinality(DOMAIN tf)]
    BY <1>2, <1>4
  <1> QED BY <1>3, <1>5, <1>6, <1>8, <1>9 DEF ExactSides

\* Nor does a solo defend who did so after one who attacks.
LEMMA AgentRotated ==
    ASSUME NEW Q, NEW fair, NEW r, SealedResult(r, Q, fair),
           NEW x \in ToSet(r.taken), NEW y \in ToSet(r.taken), NEW p, NEW q,
           x.members = <<p>>, y.members = <<q>>, r.tf[p] = 2, r.tf[q] = 1
    PROVE  fair[p.id].lastDefended <= fair[q.id].lastDefended
  <1> PICK ps : ps = r.taken
    OBVIOUS
  <1>1. PICK D, seats :
           /\ GoodDefense(D, ps, seats, fair)
           /\ \A z \in Players(ps) : r.tf[z] = IF z \in D THEN 2 ELSE 1
    BY DEF SealedResult, Defended
  <1>2. Rotated(D, ps, fair)
    BY <1>1 DEF GoodDefense
  <1>3. PICK i \in DOMAIN ps : x = ps[i]
    BY DEF ToSet
  <1>4. PICK j \in DOMAIN ps : y = ps[j]
    BY DEF ToSet
  <1>5. /\ Size(x) = 1 /\ x.members[1] = p /\ Members(x) = {p}
        /\ Size(y) = 1 /\ y.members[1] = q /\ Members(y) = {q}
    <2>1. ASSUME NEW z, NEW o, z.members = <<o>>
          PROVE  Size(z) = 1 /\ z.members[1] = o /\ Members(z) = {o}
      <3>1. Len(<<o>>) = 1 /\ <<o>>[1] = o /\ DOMAIN <<o>> = {1}
        OBVIOUS
      <3>2. Members(z) = {<<o>>[k] : k \in {1}}
        BY <2>1, <3>1 DEF Members, ToSet
      <3> QED BY <2>1, <3>1, <3>2 DEF Size
    <2> QED BY <2>1
  <1>6. p \in Players(ps) /\ q \in Players(ps)
    BY <1>3, <1>4, <1>5 DEF Players
  <1>7. p \in D /\ q \notin D
    BY <1>1, <1>6
  <1>8. Members(x) \subseteq D /\ Members(y) \cap D = {}
    BY <1>5, <1>7
  <1> QED BY <1>2, <1>3, <1>4, <1>5, <1>8 DEF Rotated
=============================================================================
