---------------------------- MODULE SequenceLemmas ----------------------------
(***************************************************************************)
(* What the proofs about the runtime need of sequences and of counting:    *)
(* the members and the distinctness of a queue that grows at its end or    *)
(* loses an entry, and the number of carriers at a location after one of   *)
(* them has moved.                                                         *)
(***************************************************************************)
EXTENDS Integers, Sequences, FiniteSets, FiniteSetTheorems,
        WellFoundedInduction, TLAPS

Distinct(q) == \A i, j \in DOMAIN q : q[i] = q[j] => i = j
Occurs(c, q) == \E i \in DOMAIN q : q[i] = c

(* A nonempty set of numbers has a least one, and CHOOSE finds it. *)
LEMMA Least ==
    ASSUME NEW S \in SUBSET Nat, S # {}
    PROVE  LET i == CHOOSE j \in S : \A l \in S : j <= l
           IN  i \in S /\ \A l \in S : i <= l
<1> DEFINE R == {p \in Nat \X Nat : p[1] < p[2]}
<1>1. IsWellFoundedOn(R, Nat)
  BY NatLessThanWellFounded, Zenon DEF OpToRel
<1>2. PICK x \in S : \A y \in S : ~(<<y, x>> \in R)
  <2> HIDE DEF R
  <2> QED BY <1>1, WFMin
<1>3. ASSUME NEW y \in S PROVE x <= y
  <2>1. <<y, x>> \in Nat \X Nat /\ <<y, x>>[1] = y /\ <<y, x>>[2] = x
    OBVIOUS
  <2> QED
    BY <1>2, <2>1
<1> QED
  BY <1>3

(* A queue that gets one more entry. *)
LEMMA OneMore ==
    ASSUME NEW S, NEW q \in Seq(S), NEW c \in S
    PROVE  /\ Append(q, c) \in Seq(S)
           /\ Distinct(q) /\ ~Occurs(c, q) => Distinct(Append(q, c))
           /\ \A d : Occurs(d, Append(q, c)) <=> Occurs(d, q) \/ d = c
<1>1. /\ Append(q, c) \in Seq(S) /\ Len(q) \in Nat
      /\ DOMAIN q = 1 .. Len(q) /\ DOMAIN Append(q, c) = 1 .. Len(q) + 1
      /\ \A i \in 1 .. Len(q) : Append(q, c)[i] = q[i]
      /\ Append(q, c)[Len(q) + 1] = c
  OBVIOUS
<1>2. \A i \in 1 .. Len(q) + 1 : i \in 1 .. Len(q) \/ i = Len(q) + 1
  BY <1>1
<1>3. \A d : Occurs(d, Append(q, c)) <=> Occurs(d, q) \/ d = c
  BY <1>1, <1>2 DEF Occurs
<1>4. ASSUME Distinct(q), ~Occurs(c, q) PROVE Distinct(Append(q, c))
  BY <1>1, <1>2, <1>4 DEF Occurs, Distinct
<1> QED
  BY <1>1, <1>3, <1>4

(* A sequence that goes through a finite set names everybody, and once. *)
LEMMA AllInOrder ==
    ASSUME NEW T, IsFiniteSet(T), NEW S, T \subseteq S,
           NEW q \in [1 .. Cardinality(T) -> T],
           \A c \in T : \E i \in DOMAIN q : q[i] = c
    PROVE  q \in Seq(S) /\ Distinct(q) /\ \A d : Occurs(d, q) <=> d \in T
<1> DEFINE n == Cardinality(T)
<1>1. n \in Nat /\ q \in [1 .. n -> T]
  BY FS_CardinalityType
<1>2. q \in Seq(S) /\ DOMAIN q = 1 .. n
  BY <1>1
<1>3. \A d : Occurs(d, q) <=> d \in T
  BY <1>1 DEF Occurs
<1>4. q \in Surjection(1 .. n, T)
  BY <1>1, <1>3 DEF Surjection, Occurs
<1>5. IsFiniteSet(1 .. n) /\ Cardinality(1 .. n) = Cardinality(T)
  BY <1>1, FS_Interval
<1>6. q \in Injection(1 .. n, T)
  BY <1>4, <1>5, FS_SurjSameCardinalityImpliesInj
<1>7. Distinct(q)
  BY <1>2, <1>6 DEF Injection, IsInjective, Distinct
<1> QED
  BY <1>2, <1>3, <1>7

(* A queue that gets several more entries. *)
LEMMA ManyMore ==
    ASSUME NEW S, NEW q \in Seq(S), NEW r \in Seq(S)
    PROVE  /\ q \o r \in Seq(S)
           /\ \A d : Occurs(d, q \o r) <=> Occurs(d, q) \/ Occurs(d, r)
           /\ Distinct(q) /\ Distinct(r) /\ (\A d : ~(Occurs(d, q) /\ Occurs(d, r)))
                 => Distinct(q \o r)
<1> DEFINE s == q \o r
           m == Len(q)
           n == Len(r)
<1>1. /\ s \in Seq(S) /\ m \in Nat /\ n \in Nat
      /\ DOMAIN q = 1 .. m /\ DOMAIN r = 1 .. n /\ DOMAIN s = 1 .. m + n
      /\ \A i \in 1 .. m : s[i] = q[i]
      /\ \A i \in 1 .. n : s[m + i] = r[i]
  OBVIOUS
<1> HIDE DEF s, m, n
<1>2. \A i \in 1 .. m + n : i \notin 1 .. m => i - m \in 1 .. n /\ s[i] = r[i - m]
  <2> SUFFICES ASSUME NEW i \in 1 .. m + n, i \notin 1 .. m
               PROVE  i - m \in 1 .. n /\ s[i] = r[i - m]
    OBVIOUS
  <2>1. i - m \in 1 .. n /\ m + (i - m) = i
    BY <1>1
  <2> QED
    BY <1>1, <2>1
<1>3. \A i \in 1 .. m : i \in 1 .. m + n
  BY <1>1
<1>4. \A i \in 1 .. n : m + i \in 1 .. m + n
  BY <1>1
<1>5. \A d : Occurs(d, s) <=> Occurs(d, q) \/ Occurs(d, r)
  <2>1. ASSUME NEW d, Occurs(d, s) PROVE Occurs(d, q) \/ Occurs(d, r)
    BY <1>1, <1>2, <2>1 DEF Occurs
  <2>2. ASSUME NEW d, Occurs(d, q) PROVE Occurs(d, s)
    BY <1>1, <1>3, <2>2 DEF Occurs
  <2>3. ASSUME NEW d, Occurs(d, r) PROVE Occurs(d, s)
    BY <1>1, <1>4, <2>3 DEF Occurs
  <2> QED
    BY <2>1, <2>2, <2>3
<1>6. ASSUME Distinct(q), Distinct(r), \A d : ~(Occurs(d, q) /\ Occurs(d, r)),
             NEW i \in 1 .. m + n, NEW j \in 1 .. m + n, s[i] = s[j]
      PROVE  i = j
  <2>1. CASE i \in 1 .. m /\ j \in 1 .. m
    BY <1>1, <1>6, <2>1 DEF Distinct
  <2>2. CASE i \notin 1 .. m /\ j \notin 1 .. m
    <3>1. i - m \in DOMAIN r /\ j - m \in DOMAIN r /\ r[i - m] = r[j - m]
      BY <1>1, <1>2, <1>6, <2>2
    <3>2. i - m = j - m
      BY <1>6, <3>1 DEF Distinct
    <3> QED
      BY <1>1, <3>2
  <2>3. CASE i \in 1 .. m /\ j \notin 1 .. m
    <3>1. Occurs(s[i], q) /\ Occurs(s[i], r)
      BY <1>1, <1>2, <1>6, <2>3 DEF Occurs
    <3> QED
      BY <1>6, <3>1
  <2>4. CASE i \notin 1 .. m /\ j \in 1 .. m
    <3>1. Occurs(s[i], q) /\ Occurs(s[i], r)
      BY <1>1, <1>2, <1>6, <2>4 DEF Occurs
    <3> QED
      BY <1>6, <3>1
  <2> QED
    BY <2>1, <2>2, <2>3, <2>4
<1> QED
  BY <1>1, <1>5, <1>6 DEF Distinct, s

(* The queue q without its entry at i. *)
Skipping(q, i) == [j \in 1 .. Len(q) - 1 |-> IF j < i THEN q[j] ELSE q[j + 1]]

(* A queue that loses the entry at i. *)
LEMMA OneLess ==
    ASSUME NEW S, NEW q \in Seq(S), NEW i \in DOMAIN q
    PROVE  /\ Skipping(q, i) \in Seq(S)
           /\ \A d : Occurs(d, Skipping(q, i)) => Occurs(d, q)
           /\ \A d : Occurs(d, q) => Occurs(d, Skipping(q, i)) \/ d = q[i]
           /\ Distinct(q) => Distinct(Skipping(q, i)) /\ ~Occurs(q[i], Skipping(q, i))
<1> DEFINE at(j) == IF j < i THEN j ELSE j + 1
           w == Skipping(q, i)
<1>0. w = [j \in 1 .. Len(q) - 1 |-> IF j < i THEN q[j] ELSE q[j + 1]]
  BY DEF Skipping
<1> HIDE DEF w
<1>1. /\ Len(q) \in Nat \ {0} /\ i \in 1 .. Len(q) /\ DOMAIN q = 1 .. Len(q)
      /\ w \in Seq(S) /\ DOMAIN w = 1 .. Len(q) - 1
  BY <1>0
<1>2. \A j \in DOMAIN w : at(j) \in DOMAIN q /\ at(j) # i /\ w[j] = q[at(j)]
  BY <1>0, <1>1
<1>3. \A j \in DOMAIN q : j = i \/ (j < i /\ j \in DOMAIN w /\ w[j] = q[j])
                             \/ (j > i /\ j - 1 \in DOMAIN w /\ w[j - 1] = q[j])
  BY <1>0, <1>1
<1>4. \A d : Occurs(d, w) => Occurs(d, q)
  BY <1>2 DEF Occurs
<1>5. \A d : Occurs(d, q) => Occurs(d, w) \/ d = q[i]
  BY <1>3 DEF Occurs
<1>6. ASSUME Distinct(q) PROVE Distinct(w) /\ ~Occurs(q[i], w)
  <2>1. \A j, l \in DOMAIN w : at(j) = at(l) => j = l
    BY <1>1
  <2>2. Distinct(w)
    BY <1>2, <1>6, <2>1 DEF Distinct
  <2>3. ~Occurs(q[i], w)
    BY <1>2, <1>6, <1>1 DEF Distinct, Occurs
  <2> QED
    BY <2>2, <2>3
<1> QED
  BY <1>1, <1>4, <1>5, <1>6 DEF w

(* How many members of S the function f takes into L. *)
Number(S, f, L) == Cardinality({x \in S : f[x] \in L})
Is(x, L) == IF x \in L THEN 1 ELSE 0

(* One member of S moves from f[k] to l: how many are in L now. *)
LEMMA Recount ==
    ASSUME NEW S, IsFiniteSet(S), NEW f, NEW g, NEW k \in S, NEW l, NEW L,
           g = [f EXCEPT ![k] = l], f = [x \in S |-> f[x]]
    PROVE  /\ Number(S, f, L) \in Nat
           /\ Number(S, g, L) \in Nat
           /\ Number(S, g, L) = Number(S, f, L) + Is(l, L) - Is(f[k], L)
           /\ Is(l, L) \in {0, 1} /\ Is(f[k], L) \in {0, 1}
<1> DEFINE F == {x \in S : f[x] \in L}
           G == {x \in S : g[x] \in L}
<1>1. IsFiniteSet(F) /\ IsFiniteSet(G)
  BY FS_Subset
<1>2. F \ {k} = G \ {k} /\ (k \in F <=> f[k] \in L) /\ (k \in G <=> l \in L)
  OBVIOUS
<1> HIDE DEF F, G
<1>3. Cardinality(F \ {k}) = Cardinality(G \ {k})
  BY <1>2
<1>4. Cardinality(F \ {k}) = IF k \in F THEN Cardinality(F) - 1 ELSE Cardinality(F)
  BY <1>1, FS_RemoveElement
<1>5. Cardinality(G \ {k}) = IF k \in G THEN Cardinality(G) - 1 ELSE Cardinality(G)
  BY <1>1, FS_RemoveElement
<1>6. Cardinality(F) \in Nat /\ Cardinality(G) \in Nat
  BY <1>1, FS_CardinalityType
<1>7. Cardinality(G) = Cardinality(F) + Is(l, L) - Is(f[k], L)
  BY <1>2, <1>3, <1>4, <1>5, <1>6 DEF Is
<1>8. Number(S, f, L) = Cardinality(F) /\ Number(S, g, L) = Cardinality(G)
  BY DEF F, G, Number
<1> QED
  BY <1>6, <1>7, <1>8 DEF Is
(* Among more numbers than W has members there is one f does not use. *)
LEMMA OneIsUnused ==
    ASSUME NEW W, IsFiniteSet(W), NEW V, NEW f \in Surjection(W, V),
           NEW n \in Nat, Cardinality(W) < n
    PROVE  \E t \in 1 .. n : t \notin V
<1> DEFINE I == 1 .. n
<1>1. IsFiniteSet(V) /\ Cardinality(V) <= Cardinality(W)
  BY FS_Surjection
<1>2. IsFiniteSet(I) /\ Cardinality(I) = n
  BY FS_Interval
<1>3. Cardinality(W) \in Nat /\ Cardinality(V) \in Nat
  BY <1>1, FS_CardinalityType
<1>4. ~(I \subseteq V)
  <2> SUFFICES ASSUME I \subseteq V PROVE FALSE
    OBVIOUS
  <2>1. Cardinality(I) <= Cardinality(V)
    <3> HIDE DEF I
    <3> QED BY <1>1, FS_Subset
  <2> QED
    BY <1>1, <1>2, <1>3, <2>1
<1> QED
  BY <1>4
==============================================================================
