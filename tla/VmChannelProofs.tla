---------------------------- MODULE VmChannelProofs ----------------------------
(***************************************************************************)
(* Proofs about the channel.  For any contexts, values and capacities:     *)
(*                                                                         *)
(*  - nobody waits for what is there (WaitersFaceAnEmptyBuffer), and no    *)
(*    wake is lost or goes astray (OneWakePerPark);                        *)
(*  - the protocol in two phases, registering an entry under the Sync lock *)
(*    and parking under the scheduler lock, is the channel BoundedChannel  *)
(*    in which every call decides at once.                                 *)
(*                                                                         *)
(* All three rest on one inductive invariant, ChannelInv: what the table   *)
(* says of a context (PhaseOf), how far its call is (at), the state of the *)
(* context and the wakes under way to it determine each other.  The rest   *)
(* is bookkeeping: what appending, stamping, dropping and sweeping do to   *)
(* a table, and what they do to the line of those who wait in it.          *)
(***************************************************************************)
EXTENDS VmChannel, SequenceLemmas

(***************************************************************************)
(* A table of entries, one per context at most: what it says of a context. *)
(***************************************************************************)
OnceEach(q) == \A i, j \in DOMAIN q : q[i].ctx = q[j].ctx => i = j
Has(q, c) == \E i \in DOMAIN q : q[i].ctx = c
PhaseOf(q, c) == IF Has(q, c) THEN q[OwnAt(q, c)].phase ELSE "absent"

(* The entry of the call that c is in. *)
Entry(c) == IF op[c] = "recv" THEN PhaseOf(waiters, c) ELSE PhaseOf(pending, c)

(* The wakes under way to c, with an exception or at all; nobody has two. *)
Coming(w, c) == \E d \in Contexts : \E i \in DOMAIN w[d] : w[d][i].to = c
Exceptional(w, c) == \E d \in Contexts : \E i \in DOMAIN w[d] :
                        w[d][i].to = c /\ w[d][i].exc
WakesOnce(w) ==
    \A d, e \in Contexts : \A i \in DOMAIN w[d], j \in DOMAIN w[e] :
        w[d][i].to = w[e][j].to => d = e /\ i = j

(***************************************************************************)
(* Where a call is, against its entry, the state of its context and the    *)
(* wakes under way.                                                        *)
(***************************************************************************)
CallInv(c) ==
    /\ op[c] # "recv" => PhaseOf(waiters, c) = "absent"
    /\ op[c] # "send" => PhaseOf(pending, c) = "absent"
    /\ at[c] = "run" <=> op[c] = "none"
    /\ at[c] \in {"migrate", "recheck", "abort", "unwind", "parked"}
          => op[c] \in {"send", "recv"}
    /\ report[c] = "none" <=> at[c] \notin {"wake", "abort", "return"}
    /\ wakes[c] = <<>> <=> at[c] # "wake"
    /\ at[c] \in {"run", "wake", "abort", "return"} => Entry(c) = "absent"
    /\ at[c] \in {"migrate", "recheck"} => Entry(c) \in {"Pending", "Value", "Closed"}
    /\ at[c] \in {"unwind", "parked"} => Entry(c) \in {"Committed", "absent"}
    /\ Entry(c) = "Value" /\ op[c] = "recv" => cell[c] \in Values
ParkInv(c) ==
    /\ at[c] \in {"run", "wake", "migrate", "return"} => state[c] = "Runnable"
    /\ at[c] \in {"recheck", "abort"} => state[c] # "Runnable"
    /\ at[c] # "parked" => ~framesParked[c] /\ queued[c] = 0
    /\ at[c] = "parked" => IF state[c] = "Runnable" THEN queued[c] = 1
                           ELSE queued[c] = 0 /\ framesParked[c]
    /\ at[c] \in {"unwind", "parked"} =>
          (state[c] = "Runnable" <=> Entry(c) = "absent" /\ ~Coming(wakes, c))
    /\ Coming(wakes, c) => at[c] \in {"unwind", "parked"} /\ Entry(c) = "absent"
    /\ rethrow[c] => at[c] \in {"unwind", "parked"} /\ state[c] = "Runnable"
    /\ at[c] \in {"unwind", "parked"} /\ op[c] = "recv" /\ Entry(c) = "absent"
          => rethrow[c] \/ Exceptional(wakes, c) \/ cell[c] \in Values

(* The inductive invariant. *)
ChannelInv ==
    /\ ChannelTypeOK
    /\ WaitersFaceAnEmptyBuffer
    /\ OnceEach(waiters) /\ OnceEach(pending)
    /\ WakesOnce(wakes)
    /\ \A c \in Contexts : CallInv(c) /\ ParkInv(c)

-----------------------------------------------------------------------------
(***************************************************************************)
(* Places in order.                                                        *)
(***************************************************************************)
Upto(I, i) == {j \in I : j <= i}
Enumerates(f, m, I) ==
    /\ f \in [1 .. m -> I]
    /\ \A k, l \in 1 .. m : k < l => f[k] < f[l]
    /\ \A i \in I : \E k \in 1 .. m : f[k] = i

(* Every place has its number, and the numbers follow the order. *)
LEMMA Places ==
    ASSUME NEW I \in SUBSET Nat, IsFiniteSet(I)
    PROVE  /\ Cardinality(I) \in Nat
           /\ \A k \in 1 .. Cardinality(I) :
                 Place(I, k) \in I /\ Cardinality(Upto(I, Place(I, k))) = k
           /\ \A k, l \in 1 .. Cardinality(I) : k < l => Place(I, k) < Place(I, l)
           /\ \A i \in I : \E k \in 1 .. Cardinality(I) : Place(I, k) = i
<1> DEFINE n == Cardinality(I)
           r == [i \in I |-> Cardinality(Upto(I, i))]
<1>1. n \in Nat
  BY FS_CardinalityType
<1>2. ASSUME NEW i \in I
      PROVE  IsFiniteSet(Upto(I, i)) /\ r[i] \in 1 .. n
  <2>1. Upto(I, i) \in SUBSET I /\ i \in Upto(I, i)
    BY DEF Upto
  <2>2. IsFiniteSet(Upto(I, i)) /\ Cardinality(Upto(I, i)) <= n
    BY <2>1, FS_Subset
  <2>3. Cardinality(Upto(I, i)) \in Nat /\ Cardinality(Upto(I, i)) # 0
    BY <2>1, <2>2, FS_CardinalityType, FS_EmptySet
  <2> QED
    BY <1>1, <2>2, <2>3
<1>3. ASSUME NEW i \in I, NEW j \in I, i < j
      PROVE  r[i] < r[j]
  <2>1. Upto(I, i) \in SUBSET Upto(I, j) /\ j \in Upto(I, j) /\ j \notin Upto(I, i)
    <3>1. i \in Nat /\ j \in Nat /\ ~(j <= i) /\ \A x \in I : x \in Nat /\ (x <= i => x <= j)
      BY <1>3
    <3>2. \A x : x \in Upto(I, i) => x \in Upto(I, j)
      BY <3>1 DEF Upto
    <3>3. j \in Upto(I, j) /\ j \notin Upto(I, i)
      BY <3>1 DEF Upto
    <3> QED
      BY <3>2, <3>3
  <2>2. /\ Cardinality(Upto(I, i)) <= Cardinality(Upto(I, j))
        /\ Cardinality(Upto(I, j)) # Cardinality(Upto(I, i))
    BY <1>2, <2>1, FS_Subset
  <2>3. r[i] \in 1 .. n /\ r[j] \in 1 .. n
    BY <1>2
  <2> QED
    BY <1>1, <2>2, <2>3
<1>4. \A i, j \in I : r[i] = r[j] => i = j
  <2> SUFFICES ASSUME NEW i \in I, NEW j \in I, i # j PROVE r[i] # r[j]
    OBVIOUS
  <2>1. i < j \/ j < i
    OBVIOUS
  <2>2. r[i] \in 1 .. n /\ r[j] \in 1 .. n
    BY <1>2
  <2> HIDE DEF r, n
  <2> QED
    BY <1>1, <1>3, <2>1, <2>2
<1>5. \A k \in 1 .. n : \E i \in I : r[i] = k
  <2>1. IsFiniteSet(1 .. n) /\ Cardinality(1 .. n) = n
    BY <1>1, FS_Interval
  <2>2. r \in [I -> 1 .. n]
    BY <1>2
  <2>3. r \in Injection(I, 1 .. n)
    <3> HIDE DEF r
    <3> QED BY <1>4, <2>2 DEF Injection, IsInjective
  <2>4. r \in Surjection(I, 1 .. n)
    <3> HIDE DEF r
    <3> QED BY <2>1, <2>3, FS_Injection
  <2> HIDE DEF r
  <2> QED
    BY <2>4 DEF Surjection
<1>6. ASSUME NEW k \in 1 .. n
      PROVE  Place(I, k) \in I /\ r[Place(I, k)] = k
  <2>1. PICK i \in I : Cardinality({j \in I : j <= i}) = k
    BY <1>5 DEF Upto
  <2>2. Place(I, k) \in I /\ Cardinality({j \in I : j <= Place(I, k)}) = k
    BY <2>1 DEF Place
  <2> QED
    BY <2>2 DEF Upto
<1>7. ASSUME NEW k \in 1 .. n, NEW l \in 1 .. n, k < l
      PROVE  Place(I, k) < Place(I, l)
  <2>1. /\ Place(I, k) \in I /\ r[Place(I, k)] = k
        /\ Place(I, l) \in I /\ r[Place(I, l)] = l
    BY <1>6
  <2> HIDE DEF r, n
  <2>2. k \in Nat /\ l \in Nat /\ ~(l < k) /\ l # k
    BY <1>1, <1>7
  <2>4. Place(I, k) \in Nat /\ Place(I, l) \in Nat
    BY <2>1
  <2>3. ~(Place(I, l) < Place(I, k)) /\ Place(I, l) # Place(I, k)
    BY <1>3, <2>1, <2>2
  <2> QED
    BY <2>3, <2>4
<1>8. ASSUME NEW i \in I
      PROVE  \E k \in 1 .. n : Place(I, k) = i
  <2>1. r[i] \in 1 .. n
    BY <1>2
  <2>2. Place(I, r[i]) \in I /\ r[Place(I, r[i])] = r[i]
    BY <1>6, <2>1
  <2> QED
    BY <1>4, <2>1, <2>2
<1>9. \A k \in 1 .. n : Place(I, k) \in I /\ Cardinality(Upto(I, Place(I, k))) = k
  BY <1>6
<1> QED
  BY <1>1, <1>7, <1>8, <1>9

(* There is one way to go through a set in order. *)
LEMMA OneOrder ==
    ASSUME NEW I \in SUBSET Nat, NEW m \in Nat, NEW f, Enumerates(f, m, I)
    PROVE  /\ IsFiniteSet(I) /\ Cardinality(I) = m
           /\ \A k \in 1 .. m : Place(I, k) = f[k]
<1>1. /\ f \in [1 .. m -> I]
      /\ \A k, l \in 1 .. m : k < l => f[k] < f[l]
      /\ \A i \in I : \E k \in 1 .. m : f[k] = i
  BY DEF Enumerates
<1>2. ASSUME NEW k \in 1 .. m, NEW l \in 1 .. m
      PROVE  /\ f[k] = f[l] => k = l
             /\ f[k] <= f[l] <=> k <= l
  <2>1. k < l \/ l < k \/ k = l
    OBVIOUS
  <2>2. f[k] \in Nat /\ f[l] \in Nat
    BY <1>1
  <2> QED
    BY <1>1, <2>1, <2>2
<1>3. f \in Bijection(1 .. m, I)
  <2>1. f \in Injection(1 .. m, I)
    BY <1>1, <1>2 DEF Injection, IsInjective
  <2>2. f \in Surjection(1 .. m, I)
    BY <1>1 DEF Surjection
  <2> QED
    BY <2>1, <2>2 DEF Bijection
<1>4. IsFiniteSet(I) /\ Cardinality(I) = m
  BY <1>3, FS_NatBijection, FS_CountingElements DEF ExistsBijection
<1>5. ASSUME NEW k \in 1 .. m
      PROVE  Place(I, k) = f[k]
  <2> DEFINE U == Upto(I, f[k])
             g == [l \in 1 .. k |-> f[l]]
  <2>1. ASSUME NEW l \in 1 .. k PROVE l \in 1 .. m /\ g[l] = f[l] /\ f[l] \in U
    <3>1. l \in 1 .. m /\ g[l] = f[l] /\ l <= k
      BY <2>1
    <3> QED
      BY <1>1, <1>2, <3>1 DEF Upto
  <2>2. ASSUME NEW j \in U PROVE \E l \in 1 .. k : g[l] = j
    <3>1. PICK l \in 1 .. m : f[l] = j
      BY <1>1 DEF Upto
    <3>2. l <= k
      BY <1>2, <3>1 DEF Upto
    <3>3. l \in 1 .. k
      BY <3>2
    <3> QED
      BY <3>1, <3>3
  <2>3. g \in Bijection(1 .. k, U)
    <3>1. g \in [1 .. k -> U]
      BY <2>1
    <3>2. \A a, b \in 1 .. k : g[a] = g[b] => a = b
      BY <1>2, <2>1
    <3> HIDE DEF g, U
    <3>3. g \in Injection(1 .. k, U)
      BY <3>1, <3>2 DEF Injection, IsInjective
    <3>4. g \in Surjection(1 .. k, U)
      BY <2>2, <3>1 DEF Surjection
    <3> QED
      BY <3>3, <3>4 DEF Bijection
  <2>4. Cardinality(U) = k
    <3> HIDE DEF g, U
    <3> QED BY <2>3, FS_CountingElements DEF ExistsBijection
  <2>5. PICK l \in 1 .. m : Place(I, l) = f[k]
    BY <1>1, <1>4, Places
  <2>6. Cardinality(Upto(I, Place(I, l))) = l
    BY <1>4, Places
  <2> QED
    BY <2>4, <2>5, <2>6
<1> QED
  BY <1>4, <1>5

(* The places of a set enumerate it. *)
LEMMA PlacesEnumerate ==
    ASSUME NEW I \in SUBSET Nat, IsFiniteSet(I)
    PROVE  Cardinality(I) \in Nat
           /\ Enumerates([k \in 1 .. Cardinality(I) |-> Place(I, k)], Cardinality(I), I)
<1> DEFINE f == [k \in 1 .. Cardinality(I) |-> Place(I, k)]
<1>1. \A k \in 1 .. Cardinality(I) : f[k] = Place(I, k)
  OBVIOUS
<1>2. f \in [1 .. Cardinality(I) -> I]
  BY Places
<1> HIDE DEF f
<1>3. Enumerates(f, Cardinality(I), I)
  BY <1>1, <1>2, Places DEF Enumerates
<1> QED
  BY <1>3, Places DEF f

(***************************************************************************)
(* Selections.                                                             *)
(***************************************************************************)
LEMMA Selected ==
    ASSUME NEW S, NEW D \in SUBSET Nat, IsFiniteSet(D), NEW q \in [D -> S],
           NEW I \in SUBSET D
    PROVE  /\ I \in SUBSET Nat /\ IsFiniteSet(I) /\ Cardinality(I) \in Nat
           /\ Select(q, I) \in Seq(S) /\ Len(Select(q, I)) = Cardinality(I)
           /\ DOMAIN Select(q, I) = 1 .. Cardinality(I)
           /\ \A k \in 1 .. Cardinality(I) :
                 Place(I, k) \in I /\ Select(q, I)[k] = q[Place(I, k)]
<1>1. I \in SUBSET Nat
  OBVIOUS
<1>3. IsFiniteSet(I) /\ Cardinality(I) \in Nat
  BY FS_Subset, FS_CardinalityType
<1>4. \A k \in 1 .. Cardinality(I) : Place(I, k) \in I
  BY <1>1, <1>3, Places
<1>5. \A k \in 1 .. Cardinality(I) : Select(q, I)[k] = q[Place(I, k)] /\ q[Place(I, k)] \in S
  BY <1>4 DEF Select
<1>6. Select(q, I) \in [1 .. Cardinality(I) -> S]
  BY <1>5 DEF Select
<1> QED
  BY <1>1, <1>3, <1>4, <1>5, <1>6

(* A selection that goes through its places in the order of g. *)
LEMMA SelectBy ==
    ASSUME NEW q, NEW I \in SUBSET Nat, NEW m \in Nat, NEW f, Enumerates(f, m, I)
    PROVE  /\ IsFiniteSet(I) /\ Cardinality(I) = m
           /\ Select(q, I) = [k \in 1 .. m |-> q[f[k]]]
<1>1. IsFiniteSet(I) /\ Cardinality(I) = m /\ \A k \in 1 .. m : Place(I, k) = f[k]
  BY OneOrder
<1> QED
  BY <1>1 DEF Select

(* Two selections with corresponding places are the same. *)
Matches(g, I, J) ==
    /\ g \in [I -> J]
    /\ \A i, j \in I : i < j => g[i] < g[j]
    /\ \A j \in J : \E i \in I : g[i] = j
LEMMA SelectSame ==
    ASSUME NEW q, NEW r, NEW I \in SUBSET Nat, NEW J \in SUBSET Nat, IsFiniteSet(I),
           NEW g, Matches(g, I, J), \A i \in I : q[i] = r[g[i]]
    PROVE  Select(q, I) = Select(r, J)
<1> DEFINE m == Cardinality(I)
           f == [k \in 1 .. m |-> g[Place(I, k)]]
<1>1. /\ m \in Nat
      /\ \A k \in 1 .. m : Place(I, k) \in I
      /\ \A k, l \in 1 .. m : k < l => Place(I, k) < Place(I, l)
      /\ \A i \in I : \E k \in 1 .. m : Place(I, k) = i
  BY Places
<1>2. \A k \in 1 .. m : f[k] = g[Place(I, k)] /\ f[k] \in J
  BY <1>1 DEF Matches
<1>3. f \in [1 .. m -> J]
  BY <1>2
<1> HIDE DEF f, m
<1>4. Enumerates(f, m, J)
  <2>1. \A k, l \in 1 .. m : k < l => f[k] < f[l]
    BY <1>1, <1>2, ZenonT(40) DEF Matches
  <2>2. \A j \in J : \E k \in 1 .. m : f[k] = j
    BY <1>1, <1>2 DEF Matches
  <2> QED
    BY <1>3, <2>1, <2>2 DEF Enumerates
<1>5. Select(r, J) = [k \in 1 .. m |-> r[f[k]]]
  BY <1>1, <1>4, SelectBy
<1>6. Select(q, I) = [k \in 1 .. m |-> q[Place(I, k)]]
  BY DEF Select, m
<1>7. \A k \in 1 .. m : q[Place(I, k)] = r[f[k]]
  BY <1>1, <1>2
<1> QED
  BY <1>5, <1>6, <1>7

(* The first place is the least; without it the selection is the tail. *)
LEMMA SelectFirst ==
    ASSUME NEW S, NEW n \in Nat, NEW q \in [1 .. n -> S], NEW I \in SUBSET (1 .. n),
           NEW i \in I, \A j \in I : i <= j
    PROVE  /\ Select(q, I) # <<>> /\ Head(Select(q, I)) = q[i]
           /\ Select(q, I \ {i}) = Tail(Select(q, I))
<1> DEFINE m == Cardinality(I)
           s == Select(q, I)
           f == [k \in 1 .. m - 1 |-> Place(I, k + 1)]
<1>1. /\ I \in SUBSET Nat /\ IsFiniteSet(I) /\ m \in Nat
      /\ s \in Seq(S) /\ Len(s) = m
      /\ \A k \in 1 .. m : Place(I, k) \in I /\ s[k] = q[Place(I, k)]
  <2>1. IsFiniteSet(1 .. n) /\ 1 .. n \in SUBSET Nat
    BY FS_Interval
  <2> QED
    BY <2>1, Selected, SMTT(30)
<1>2. /\ \A k, l \in 1 .. m : k < l => Place(I, k) < Place(I, l)
      /\ \A j \in I : \E k \in 1 .. m : Place(I, k) = j
  BY <1>1, Places
<1> HIDE DEF m, s
<1>3. 1 \in 1 .. m /\ Place(I, 1) = i
  <2>1. PICK k \in 1 .. m : Place(I, k) = i
    BY <1>2
  <2>2. 1 \in 1 .. m /\ m >= 1
    BY <1>1
  <2>3. Place(I, 1) \in I /\ i <= Place(I, 1) /\ Place(I, 1) \in Nat /\ i \in Nat
    BY <1>1, <2>2
  <2>4. 1 < k => Place(I, 1) < i
    BY <1>2, <2>1, <2>2
  <2>5. k = 1
    BY <2>3, <2>4
  <2> QED
    BY <2>1, <2>2, <2>5
<1>4. s # <<>> /\ Head(s) = q[i]
  BY <1>1, <1>3
<1>5. m - 1 \in Nat /\ \A k \in 1 .. m - 1 : k + 1 \in 1 .. m /\ k + 1 # 1
  BY <1>1, <1>3
<1>6. Enumerates(f, m - 1, I \ {i})
  <2>1. ASSUME NEW k \in 1 .. m - 1 PROVE f[k] = Place(I, k + 1) /\ f[k] \in I \ {i}
    <3>1. k + 1 \in 1 .. m /\ 1 < k + 1
      BY <1>1, <2>1
    <3>2. Place(I, 1) < Place(I, k + 1) /\ Place(I, k + 1) \in I
      BY <1>1, <1>2, <1>3, <3>1
    <3>3. f[k] = Place(I, k + 1) /\ i \in Nat /\ i < Place(I, k + 1)
      BY <1>1, <1>3, <3>2
    <3> QED
      BY <3>2, <3>3
  <2>2. f \in [1 .. m - 1 -> I \ {i}]
    BY <2>1
  <2> HIDE DEF f
  <2>3. ASSUME NEW k \in 1 .. m - 1, NEW l \in 1 .. m - 1, k < l PROVE f[k] < f[l]
    <3>1. k + 1 \in 1 .. m /\ l + 1 \in 1 .. m /\ k + 1 < l + 1
      BY <1>1, <2>3
    <3> QED
      BY <1>2, <2>1, <3>1
  <2>4. ASSUME NEW j \in I \ {i} PROVE \E k \in 1 .. m - 1 : f[k] = j
    <3>1. PICK k \in 1 .. m : Place(I, k) = j
      BY <1>2
    <3>2. k # 1
      BY <1>3, <3>1
    <3>3. k - 1 \in 1 .. m - 1 /\ (k - 1) + 1 = k
      BY <1>1, <3>2
    <3> QED
      BY <2>1, <3>1, <3>3
  <2> QED
    BY <2>2, <2>3, <2>4 DEF Enumerates
<1>7. I \ {i} \in SUBSET Nat
  BY <1>1
<1>8. Select(q, I \ {i}) = [k \in 1 .. m - 1 |-> q[f[k]]]
  <2> HIDE DEF f
  <2> QED BY <1>5, <1>6, <1>7, SelectBy
<1>9. Tail(s) = [k \in 1 .. m - 1 |-> s[k + 1]]
  <2>1. Tail(s) \in Seq(S) /\ Len(Tail(s)) = m - 1
    BY <1>1, <1>4
  <2>2. \A k \in 1 .. m - 1 : Tail(s)[k] = s[k + 1]
    BY <1>1, <1>4
  <2>3. \A t \in Seq(S) : t \in [1 .. Len(t) -> S]
    OBVIOUS
  <2>4. Tail(s) \in [1 .. m - 1 -> S]
    BY <2>1, <2>3
  <2> QED
    BY <2>2, <2>4
<1>10. \A k \in 1 .. m - 1 : q[f[k]] = s[k + 1]
  BY <1>1, <1>5
<1> QED
  BY <1>4, <1>8, <1>9, <1>10 DEF s

(* A place behind all others comes last. *)
LEMMA SelectLast ==
    ASSUME NEW S, NEW n \in Nat, NEW q \in [1 .. n + 1 -> S], NEW I \in SUBSET (1 .. n)
    PROVE  Select(q, I \cup {n + 1}) = Append(Select(q, I), q[n + 1])
<1> DEFINE m == Cardinality(I)
           s == Select(q, I)
           f == [k \in 1 .. m + 1 |-> IF k = m + 1 THEN n + 1 ELSE Place(I, k)]
<1>0. I \in SUBSET (1 .. n + 1) /\ n + 1 \in Nat /\ q[n + 1] \in S
  OBVIOUS
<1>1. /\ I \in SUBSET Nat /\ IsFiniteSet(I) /\ m \in Nat
      /\ s \in Seq(S) /\ Len(s) = m
      /\ \A k \in 1 .. m : Place(I, k) \in I /\ s[k] = q[Place(I, k)]
  <2>1. IsFiniteSet(1 .. n + 1) /\ 1 .. n + 1 \in SUBSET Nat
    BY FS_Interval
  <2> QED
    BY <1>0, <2>1, Selected
<1>2. /\ \A k, l \in 1 .. m : k < l => Place(I, k) < Place(I, l)
      /\ \A j \in I : \E k \in 1 .. m : Place(I, k) = j
  BY <1>1, Places
<1> HIDE DEF m, s
<1>3. /\ \A k \in 1 .. m + 1 : k \in 1 .. m \/ k = m + 1
      /\ \A k \in 1 .. m : k \in 1 .. m + 1 /\ k # m + 1
      /\ m + 1 \in 1 .. m + 1
  BY <1>1
<1>4. Enumerates(f, m + 1, I \cup {n + 1})
  <2>1. /\ \A k \in 1 .. m : f[k] = Place(I, k) /\ f[k] \in I
        /\ f[m + 1] = n + 1
    BY <1>1, <1>3
  <2>2. f \in [1 .. m + 1 -> I \cup {n + 1}]
    BY <1>1, <1>3
  <2> HIDE DEF f
  <2>3. ASSUME NEW k \in 1 .. m + 1, NEW l \in 1 .. m + 1, k < l PROVE f[k] < f[l]
    <3>1. k \in 1 .. m
      BY <1>1, <2>3
    <3>2. CASE l \in 1 .. m
      BY <1>2, <2>1, <2>3, <3>1, <3>2
    <3>3. CASE l = m + 1
      <4>1. f[k] \in 1 .. n
        BY <2>1, <3>1
      <4> QED
        BY <2>1, <3>3, <4>1
    <3> QED
      BY <1>3, <3>2, <3>3
  <2>4. \A j \in I \cup {n + 1} : \E k \in 1 .. m + 1 : f[k] = j
    BY <1>2, <1>3, <2>1
  <2> QED
    BY <2>2, <2>3, <2>4 DEF Enumerates
<1>5. I \cup {n + 1} \in SUBSET Nat /\ m + 1 \in Nat
  BY <1>1
<1>6. Select(q, I \cup {n + 1}) = [k \in 1 .. m + 1 |-> q[f[k]]]
  <2> HIDE DEF f
  <2> QED BY <1>4, <1>5, SelectBy
<1>7. Append(s, q[n + 1]) = [k \in 1 .. m + 1 |-> IF k = m + 1 THEN q[n + 1] ELSE s[k]]
  <2>1. s \in [1 .. m -> S]
    BY <1>1
  <2> QED BY <1>0, <1>1
<1>8. \A k \in 1 .. m + 1 : q[f[k]] = IF k = m + 1 THEN q[n + 1] ELSE s[k]
  BY <1>1, <1>3
<1> QED
  BY <1>6, <1>7, <1>8 DEF s

-----------------------------------------------------------------------------
(***************************************************************************)
(* Tables: the waiters and the pending senders of a channel.               *)
(***************************************************************************)
IsRow(e, S) ==
    /\ e.ctx \in Contexts /\ e.phase \in Phases
    /\ \A p \in Phases : LET f == [e EXCEPT !.phase = p]
                         IN  f \in S /\ f.ctx = e.ctx /\ f.phase = p
AreRows(S) == \A e \in S : IsRow(e, S)
Table(q, S) == AreRows(S) /\ q \in Seq(S) /\ OnceEach(q)
LivePhases == {"Pending", "Committed"}

LEMMA BothAreRows == AreRows(Waiter) /\ AreRows(PendingSend)
<1>1. ASSUME NEW e \in Waiter PROVE IsRow(e, Waiter)
  BY DEF Waiter, IsRow
<1>2. ASSUME NEW e \in PendingSend PROVE IsRow(e, PendingSend)
  BY DEF PendingSend, IsRow
<1> QED
  BY <1>1, <1>2 DEF AreRows

LEMMA Indices ==
    ASSUME NEW S, NEW q \in Seq(S)
    PROVE  /\ Len(q) \in Nat /\ DOMAIN q = 1 .. Len(q) /\ q \in [1 .. Len(q) -> S]
           /\ DOMAIN q \in SUBSET Nat /\ IsFiniteSet(DOMAIN q)
           /\ \A i \in DOMAIN q : q[i] \in S
           /\ LiveAt(q) \in SUBSET (1 .. Len(q)) /\ LiveAt(q) \in SUBSET Nat
           /\ IsFiniteSet(LiveAt(q))
<1>1. Len(q) \in Nat /\ DOMAIN q = 1 .. Len(q) /\ q \in [1 .. Len(q) -> S]
  OBVIOUS
<1>2. DOMAIN q \in SUBSET Nat /\ IsFiniteSet(DOMAIN q)
  BY <1>1, FS_Interval
<1>3. LiveAt(q) \in SUBSET (DOMAIN q)
  BY DEF LiveAt
<1>4. IsFiniteSet(LiveAt(q))
  BY <1>2, <1>3, FS_Subset
<1> QED
  BY <1>1, <1>2, <1>3, <1>4

LEMMA Own ==
    ASSUME NEW q, OnceEach(q)
    PROVE  /\ \A i \in DOMAIN q : /\ OwnAt(q, q[i].ctx) = i /\ Has(q, q[i].ctx)
                                 /\ PhaseOf(q, q[i].ctx) = q[i].phase
           /\ \A c : Has(q, c) => /\ OwnAt(q, c) \in DOMAIN q
                                  /\ q[OwnAt(q, c)].ctx = c
                                  /\ PhaseOf(q, c) = q[OwnAt(q, c)].phase
           /\ \A c : ~Has(q, c) => PhaseOf(q, c) = "absent"
<1>1. ASSUME NEW c, Has(q, c)
      PROVE  OwnAt(q, c) \in DOMAIN q /\ q[OwnAt(q, c)].ctx = c
             /\ PhaseOf(q, c) = q[OwnAt(q, c)].phase
  BY <1>1 DEF Has, OwnAt, PhaseOf
<1>2. \A i \in DOMAIN q : Has(q, q[i].ctx)
  BY DEF Has
<1>3. \A i \in DOMAIN q : OwnAt(q, q[i].ctx) = i
  BY <1>1, <1>2 DEF OnceEach
<1> QED
  BY <1>1, <1>2, <1>3 DEF PhaseOf

LEMMA PhaseType ==
    ASSUME NEW S, NEW q, Table(q, S)
    PROVE  /\ \A c : PhaseOf(q, c) \in Phases \cup {"absent"}
           /\ \A c : Has(q, c) <=> PhaseOf(q, c) # "absent"
           /\ \A c : Has(q, c) => c \in Contexts
           /\ LiveAt(q) # {} <=> \E c \in Contexts : PhaseOf(q, c) \in LivePhases
           /\ \A c : (\E i \in LiveAt(q) : q[i].ctx = c) <=> PhaseOf(q, c) \in LivePhases
<1>1. /\ \A i \in DOMAIN q : q[i].ctx \in Contexts /\ q[i].phase \in Phases
      /\ q \in Seq(S) /\ OnceEach(q)
  BY Indices DEF Table, AreRows, IsRow
<1>2. "absent" \notin Phases /\ "absent" \notin LivePhases
  BY DEF Phases, LivePhases
<1>3. \A c : PhaseOf(q, c) \in Phases \cup {"absent"}
  BY <1>1, Own
<1>4. \A c : Has(q, c) <=> PhaseOf(q, c) # "absent"
  BY <1>1, <1>2, Own
<1>5. \A c : Has(q, c) => c \in Contexts
  BY <1>1, Own
<1>6. ASSUME NEW c
      PROVE  (\E i \in LiveAt(q) : q[i].ctx = c) <=> PhaseOf(q, c) \in LivePhases
  <2>1. ASSUME NEW i \in LiveAt(q), q[i].ctx = c PROVE PhaseOf(q, c) \in LivePhases
    BY <1>1, <2>1, Own DEF LiveAt, IsLive, LivePhases
  <2>2. ASSUME PhaseOf(q, c) \in LivePhases
        PROVE  \E i \in LiveAt(q) : q[i].ctx = c
    <3>1. Has(q, c)
      BY <1>2, <1>4, <2>2
    <3>2. OwnAt(q, c) \in DOMAIN q /\ q[OwnAt(q, c)].ctx = c
          /\ q[OwnAt(q, c)].phase \in LivePhases
      BY <1>1, <2>2, <3>1, Own
    <3> QED
      BY <3>2 DEF LiveAt, IsLive, LivePhases
  <2> QED
    BY <2>1, <2>2
<1>7. LiveAt(q) # {} <=> \E c \in Contexts : PhaseOf(q, c) \in LivePhases
  BY <1>1, <1>6 DEF LiveAt
<1> QED
  BY <1>3, <1>4, <1>5, <1>6, <1>7

(* An entry at the end. *)
LEMMA Appended ==
    ASSUME NEW S, NEW q, Table(q, S), NEW e \in S, ~Has(q, e.ctx)
    PROVE  /\ Table(Append(q, e), S)
           /\ \A c : PhaseOf(Append(q, e), c) =
                        IF c = e.ctx THEN e.phase ELSE PhaseOf(q, c)
<1> DEFINE r == Append(q, e)
           n == Len(q)
<1>1. /\ q \in Seq(S) /\ OnceEach(q) /\ n \in Nat /\ DOMAIN q = 1 .. n
      /\ r \in Seq(S) /\ DOMAIN r = 1 .. n + 1
      /\ r[n + 1] = e /\ \A i \in 1 .. n : r[i] = q[i]
  BY DEF Table
<1>2. /\ \A i \in 1 .. n + 1 : i \in 1 .. n \/ i = n + 1
      /\ \A i \in 1 .. n : i \in 1 .. n + 1
      /\ n + 1 \in 1 .. n + 1
  BY <1>1
<1> HIDE DEF r, n
<1>3. OnceEach(r)
  BY <1>1, <1>2 DEF OnceEach, Has
<1>4. PhaseOf(r, e.ctx) = e.phase
  BY <1>1, <1>2, <1>3, Own
<1>5. ASSUME NEW c, c # e.ctx PROVE PhaseOf(r, c) = PhaseOf(q, c)
  <2>1. CASE Has(q, c)
    <3> DEFINE i == OwnAt(q, c)
    <3>1. i \in 1 .. n /\ q[i].ctx = c /\ PhaseOf(q, c) = q[i].phase
      BY <1>1, <2>1, Own
    <3>2. i \in DOMAIN r /\ r[i] = q[i]
      BY <1>1, <1>2, <3>1
    <3> HIDE DEF i
    <3> QED
      BY <1>3, <3>1, <3>2, Own
  <2>2. CASE ~Has(q, c)
    <3>1. ~Has(r, c)
      BY <1>1, <1>2, <1>5, <2>2 DEF Has
    <3> QED
      BY <2>2, <3>1 DEF PhaseOf
  <2> QED
    BY <2>1, <2>2
<1>6. Table(r, S)
  BY <1>1, <1>3 DEF Table
<1> QED
  BY <1>4, <1>5, <1>6 DEF r

(* An entry with another phase. *)
WithPhase(e, p) == [e EXCEPT !.phase = p]
LEMMA StampedRows ==
    ASSUME NEW S, NEW q, Table(q, S), NEW i \in DOMAIN q, NEW p \in Phases
    PROVE  /\ Stamp(q, i, p) \in Seq(S)
           /\ DOMAIN Stamp(q, i, p) = DOMAIN q
           /\ Stamp(q, i, p)[i].phase = p
           /\ \A j \in DOMAIN q : j # i => Stamp(q, i, p)[j] = q[j]
           /\ \A j \in DOMAIN q : Stamp(q, i, p)[j].ctx = q[j].ctx
           /\ Stamp(q, i, p)[i] = WithPhase(q[i], p)
<1> DEFINE r == Stamp(q, i, p)
<1>1. /\ q \in Seq(S) /\ OnceEach(q) /\ Len(q) \in Nat /\ DOMAIN q = 1 .. Len(q)
      /\ q[i] \in S
      /\ \A j \in DOMAIN q : q[j] \in S
  BY DEF Table
<1>2. [q[i] EXCEPT !.phase = p] \in S /\ [q[i] EXCEPT !.phase = p].ctx = q[i].ctx
      /\ [q[i] EXCEPT !.phase = p].phase = p
  BY <1>1 DEF Table, AreRows, IsRow
<1>3. r = [q EXCEPT ![i] = [q[i] EXCEPT !.phase = p]]
  BY DEF Stamp
<1>4. /\ r \in Seq(S) /\ DOMAIN r = DOMAIN q
      /\ r[i] = [q[i] EXCEPT !.phase = p]
      /\ \A j \in DOMAIN q : j # i => r[j] = q[j]
  BY <1>1, <1>2, <1>3
<1> HIDE DEF r
<1>5. \A j \in DOMAIN q : r[j].ctx = q[j].ctx
  BY <1>2, <1>4
<1>6. r[i] = WithPhase(q[i], p)
  BY <1>4 DEF WithPhase
<1> QED
  BY <1>2, <1>4, <1>5, <1>6 DEF r

LEMMA Stamped ==
    ASSUME NEW S, NEW q, Table(q, S), NEW i \in DOMAIN q, NEW p \in Phases
    PROVE  /\ Table(Stamp(q, i, p), S)
           /\ \A c : PhaseOf(Stamp(q, i, p), c) =
                        IF c = q[i].ctx THEN p ELSE PhaseOf(q, c)
<1> DEFINE r == Stamp(q, i, p)
<1>1. q \in Seq(S) /\ OnceEach(q)
  BY DEF Table
<1>4. /\ r \in Seq(S) /\ DOMAIN r = DOMAIN q /\ r[i].phase = p
      /\ \A j \in DOMAIN q : j # i => r[j] = q[j]
      /\ \A j \in DOMAIN q : r[j].ctx = q[j].ctx
  BY StampedRows
<1> HIDE DEF r
<1>6. OnceEach(r)
  BY <1>1, <1>4 DEF OnceEach
<1>7. ASSUME NEW c PROVE PhaseOf(r, c) = IF c = q[i].ctx THEN p ELSE PhaseOf(q, c)
  <2>1. CASE c = q[i].ctx
    <3>1. i \in DOMAIN r /\ r[i].ctx = c /\ r[i].phase = p
      BY <1>4, <2>1
    <3>2. PhaseOf(r, r[i].ctx) = r[i].phase
      BY <1>6, <3>1, Own
    <3> QED
      BY <2>1, <3>1, <3>2
  <2>2. CASE c # q[i].ctx /\ Has(q, c)
    <3>1. OwnAt(q, c) \in DOMAIN q /\ q[OwnAt(q, c)].ctx = c
          /\ PhaseOf(q, c) = q[OwnAt(q, c)].phase
      BY <1>1, <2>2, Own
    <3>2. OwnAt(q, c) # i /\ r[OwnAt(q, c)] = q[OwnAt(q, c)]
      BY <1>4, <2>2, <3>1
    <3> QED
      BY <1>4, <1>6, <2>2, <3>1, <3>2, Own
  <2>3. CASE c # q[i].ctx /\ ~Has(q, c)
    <3>1. ~Has(r, c)
      BY <1>4, <2>3 DEF Has
    <3> QED
      BY <2>3, <3>1 DEF PhaseOf
  <2> QED
    BY <2>1, <2>2, <2>3
<1>8. Table(r, S)
  BY <1>4, <1>6 DEF Table
<1> QED
  BY <1>7, <1>8 DEF r

(* A table without one of its entries. *)
Old(j, i) == IF j < i THEN j ELSE j + 1
LEMMA Dropped ==
    ASSUME NEW S, NEW q, Table(q, S), NEW i \in DOMAIN q
    PROVE  /\ Table(Drop(q, i), S)
           /\ \A j \in DOMAIN Drop(q, i) :
                 /\ j \in Nat /\ Old(j, i) \in DOMAIN q \ {i}
                 /\ Drop(q, i)[j] = q[Old(j, i)]
           /\ \A k \in DOMAIN q \ {i} : \E j \in DOMAIN Drop(q, i) : Old(j, i) = k
           /\ \A c : PhaseOf(Drop(q, i), c) =
                        IF c = q[i].ctx THEN "absent" ELSE PhaseOf(q, c)
<1> DEFINE r == Drop(q, i)
           n == Len(q)
<1>1. /\ q \in Seq(S) /\ OnceEach(q) /\ n \in Nat /\ DOMAIN q = 1 .. n
      /\ i \in 1 .. n /\ n - 1 \in Nat
      /\ \A j \in DOMAIN q : q[j] \in S
  BY DEF Table
<1> HIDE DEF n
<1>2. \A j \in 1 .. n - 1 : /\ j \in Nat /\ Old(j, i) \in DOMAIN q \ {i}
  BY <1>1 DEF Old
<1>3. /\ DOMAIN r = 1 .. n - 1
      /\ \A j \in 1 .. n - 1 : r[j] = q[Old(j, i)]
  BY <1>1 DEF Drop, Old, n
<1>4. r \in Seq(S)
  <2>1. \A j \in 1 .. n - 1 : r[j] \in S
    BY <1>1, <1>2, <1>3
  <2>2. r = [j \in 1 .. n - 1 |-> r[j]]
    BY DEF Drop, n
  <2>3. r \in [1 .. n - 1 -> S]
    <3> HIDE DEF r
    <3> QED BY <2>1, <2>2
  <2> HIDE DEF r
  <2> QED
    BY <1>1, <2>3
<1> HIDE DEF r
<1>5. \A k \in DOMAIN q \ {i} : \E j \in 1 .. n - 1 : Old(j, i) = k
  <2> SUFFICES ASSUME NEW k \in DOMAIN q \ {i}
               PROVE  \E j \in 1 .. n - 1 : Old(j, i) = k
    OBVIOUS
  <2>1. CASE k < i
    <3>1. k \in 1 .. n - 1 /\ Old(k, i) = k
      BY <1>1, <2>1 DEF Old
    <3> QED
      BY <3>1
  <2>2. CASE ~(k < i)
    <3>1. k - 1 \in 1 .. n - 1 /\ Old(k - 1, i) = k
      BY <1>1, <2>2 DEF Old
    <3> QED
      BY <3>1
  <2> QED
    BY <2>1, <2>2
<1>6. \A j, k \in 1 .. n - 1 : Old(j, i) = Old(k, i) => j = k
  BY <1>1 DEF Old
<1>7. OnceEach(r)
  <2> SUFFICES ASSUME NEW j \in 1 .. n - 1, NEW k \in 1 .. n - 1, r[j].ctx = r[k].ctx
               PROVE  j = k
    BY <1>3 DEF OnceEach
  <2>1. Old(j, i) = Old(k, i)
    BY <1>1, <1>2, <1>3 DEF OnceEach
  <2> QED
    BY <1>6, <2>1
<1>8. ASSUME NEW c PROVE PhaseOf(r, c) = IF c = q[i].ctx THEN "absent" ELSE PhaseOf(q, c)
  <2>1. CASE c = q[i].ctx
    <3>1. ~Has(r, c)
      BY <1>1, <1>2, <1>3, <2>1 DEF Has, OnceEach
    <3> QED
      BY <2>1, <3>1 DEF PhaseOf
  <2>2. CASE c # q[i].ctx /\ Has(q, c)
    <3>1. OwnAt(q, c) \in DOMAIN q \ {i} /\ q[OwnAt(q, c)].ctx = c
          /\ PhaseOf(q, c) = q[OwnAt(q, c)].phase
      BY <1>1, <2>2, Own
    <3>2. PICK j \in 1 .. n - 1 : Old(j, i) = OwnAt(q, c)
      BY <1>5, <3>1
    <3>3. j \in DOMAIN r /\ r[j] = q[OwnAt(q, c)]
      BY <1>3, <3>2
    <3> QED
      BY <1>7, <2>2, <3>1, <3>3, Own
  <2>3. CASE c # q[i].ctx /\ ~Has(q, c)
    <3>1. ~Has(r, c)
      BY <1>2, <1>3, <2>3 DEF Has
    <3> QED
      BY <2>3, <3>1 DEF PhaseOf
  <2> QED
    BY <2>1, <2>2, <2>3
<1>9. Table(r, S)
  BY <1>4, <1>7 DEF Table
<1> QED
  BY <1>2, <1>3, <1>5, <1>8, <1>9 DEF r

(* The sweep of a close: committed entries leave, the others are rewritten. *)
SweepOf(r, t, q) == r = Select(t, DOMAIN q \ CommittedAt(q))
LEMMA Swept ==
    ASSUME NEW S, NEW q, Table(q, S), NEW t \in [DOMAIN q -> S],
           \A i \in DOMAIN q : t[i].ctx = q[i].ctx,
           NEW r, SweepOf(r, t, q)
    PROVE  /\ Table(r, S)
           /\ \A c : PhaseOf(q, c) \in {"Committed", "absent"} => PhaseOf(r, c) = "absent"
           /\ \A c : PhaseOf(q, c) \notin {"Committed", "absent"} =>
                        OwnAt(q, c) \in DOMAIN q /\ q[OwnAt(q, c)].ctx = c
                        /\ PhaseOf(q, c) = q[OwnAt(q, c)].phase
                        /\ PhaseOf(r, c) = t[OwnAt(q, c)].phase
<1> DEFINE D == DOMAIN q
           I == D \ CommittedAt(q)
           m == Cardinality(I)
<1>1. /\ q \in Seq(S) /\ OnceEach(q) /\ D \in SUBSET Nat /\ IsFiniteSet(D)
      /\ I \in SUBSET D
  BY Indices DEF Table
<1>2. /\ I \in SUBSET Nat /\ IsFiniteSet(I) /\ m \in Nat
      /\ r \in Seq(S) /\ DOMAIN r = 1 .. m
      /\ \A k \in 1 .. m : Place(I, k) \in I /\ r[k] = t[Place(I, k)]
  <2> HIDE DEF D
  <2>1. t \in [D -> S]
    BY DEF D
  <2>2. r = Select(t, I)
    BY DEF D, SweepOf
  <2> HIDE DEF I
  <2>3. /\ I \in SUBSET Nat /\ IsFiniteSet(I) /\ Cardinality(I) \in Nat
        /\ Select(t, I) \in Seq(S) /\ DOMAIN Select(t, I) = 1 .. Cardinality(I)
        /\ \A k \in 1 .. Cardinality(I) :
              Place(I, k) \in I /\ Select(t, I)[k] = t[Place(I, k)]
    BY <1>1, <2>1, Selected
  <2> QED
    BY <2>2, <2>3
<1>3. /\ \A k, l \in 1 .. m : k < l => Place(I, k) < Place(I, l)
      /\ \A i \in I : \E k \in 1 .. m : Place(I, k) = i
  <2> HIDE DEF I
  <2> QED BY <1>2, Places
<1>4. \A i \in I : i \in D /\ q[i].phase # "Committed"
  BY DEF CommittedAt
<1>5. \A i \in D : q[i].phase # "Committed" => i \in I
  BY DEF CommittedAt
<1>6. \A i \in D : t[i].ctx = q[i].ctx
  OBVIOUS
<1> HIDE DEF D, I, m
<1>7. OnceEach(r)
  <2> SUFFICES ASSUME NEW k \in 1 .. m, NEW l \in 1 .. m, r[k].ctx = r[l].ctx
               PROVE  k = l
    BY <1>2 DEF OnceEach
  <2>1. Place(I, k) \in D /\ Place(I, l) \in D /\ q[Place(I, k)].ctx = q[Place(I, l)].ctx
    BY <1>2, <1>4, <1>6
  <2>2. Place(I, k) = Place(I, l)
    BY <1>1, <2>1 DEF OnceEach, D
  <2>3. k < l \/ l < k \/ k = l
    BY <1>2
  <2>4. Place(I, k) \in Nat /\ Place(I, l) \in Nat
    BY <1>1, <2>1
  <2> QED
    BY <1>3, <2>2, <2>3, <2>4
<1>8. ASSUME NEW c, PhaseOf(q, c) \in {"Committed", "absent"}
      PROVE  PhaseOf(r, c) = "absent"
  <2>1. ASSUME NEW k \in 1 .. m, r[k].ctx = c PROVE FALSE
    <3>1. Place(I, k) \in D /\ q[Place(I, k)].ctx = c /\ q[Place(I, k)].phase # "Committed"
      BY <1>2, <1>4, <1>6, <2>1
    <3>2. PhaseOf(q, c) = q[Place(I, k)].phase /\ Has(q, c)
      BY <1>1, <3>1, Own DEF D
    <3>3. PhaseOf(q, c) # "absent"
      BY <3>2, PhaseType
    <3> QED
      BY <1>8, <3>1, <3>2, <3>3
  <2> QED
    BY <1>2, <2>1 DEF PhaseOf, Has
<1>9. ASSUME NEW c, PhaseOf(q, c) \notin {"Committed", "absent"}
      PROVE  OwnAt(q, c) \in DOMAIN q /\ q[OwnAt(q, c)].ctx = c
             /\ PhaseOf(q, c) = q[OwnAt(q, c)].phase
             /\ PhaseOf(r, c) = t[OwnAt(q, c)].phase
  <2>1. OwnAt(q, c) \in D /\ q[OwnAt(q, c)].ctx = c
        /\ PhaseOf(q, c) = q[OwnAt(q, c)].phase
    BY <1>1, <1>9, Own DEF D
  <2>2. PICK k \in 1 .. m : Place(I, k) = OwnAt(q, c)
    BY <1>3, <1>5, <1>9, <2>1
  <2>3. k \in DOMAIN r /\ r[k] = t[OwnAt(q, c)] /\ r[k].ctx = c
    BY <1>2, <1>6, <2>1, <2>2
  <2>4. PhaseOf(r, c) = r[k].phase
    BY <1>7, <2>3, Own
  <2> QED
    BY <2>1, <2>3, <2>4 DEF D
<1>10. Table(r, S)
  BY <1>2, <1>7 DEF Table
<1> QED
  BY <1>8, <1>9, <1>10

(* The first live entry. *)
LEMMA FirstIsLive ==
    ASSUME NEW S, NEW q, Table(q, S), LiveAt(q) # {}
    PROVE  /\ FirstLive(q) \in LiveAt(q) /\ FirstLive(q) \in DOMAIN q
           /\ q[FirstLive(q)].ctx \in Contexts
           /\ q[FirstLive(q)] \in S
           /\ q[FirstLive(q)].phase = PhaseOf(q, q[FirstLive(q)].ctx)
           /\ PhaseOf(q, q[FirstLive(q)].ctx) \in LivePhases
           /\ \A j \in LiveAt(q) : FirstLive(q) <= j
<1>1. LiveAt(q) \in SUBSET Nat /\ LiveAt(q) \in SUBSET (DOMAIN q)
      /\ \A i \in DOMAIN q : q[i] \in S
  BY Indices DEF Table
<1>2. FirstLive(q) \in LiveAt(q) /\ \A j \in LiveAt(q) : FirstLive(q) <= j
  BY <1>1, Least DEF FirstLive
<1>3. FirstLive(q) \in DOMAIN q /\ q[FirstLive(q)] \in S
  BY <1>1, <1>2
<1>4. q[FirstLive(q)].ctx \in Contexts
  BY <1>3 DEF Table, AreRows, IsRow
<1>5. PhaseOf(q, q[FirstLive(q)].ctx) = q[FirstLive(q)].phase
  BY <1>3, Own DEF Table
<1>6. q[FirstLive(q)].phase \in LivePhases
  BY <1>2 DEF LiveAt, IsLive, LivePhases
<1> QED
  BY <1>2, <1>3, <1>4, <1>5, <1>6

(* Serving it: a committed entry leaves, a pending one is stamped. *)
LEMMA ServedFirst ==
    ASSUME NEW S, NEW q, Table(q, S), LiveAt(q) # {}, NEW i, i = FirstLive(q)
    PROVE  /\ Table(Served(q, i), S)
           /\ \A c : PhaseOf(Served(q, i), c) =
                        IF c # q[i].ctx THEN PhaseOf(q, c)
                        ELSE IF PhaseOf(q, c) = "Committed" THEN "absent" ELSE "Value"
<1>1. i \in DOMAIN q /\ q[i].phase = PhaseOf(q, q[i].ctx)
  BY FirstIsLive
<1>2. CASE q[i].phase = "Committed"
  <2>1. Served(q, i) = Drop(q, i)
    BY <1>2 DEF Served
  <2>2. /\ Table(Drop(q, i), S)
        /\ \A c : PhaseOf(Drop(q, i), c) =
                     IF c = q[i].ctx THEN "absent" ELSE PhaseOf(q, c)
    BY <1>1, Dropped
  <2> QED
    BY <1>1, <1>2, <2>1, <2>2
<1>3. CASE q[i].phase # "Committed"
  <2>1. "Value" \in Phases
    BY DEF Phases
  <2>2. Served(q, i) = Stamp(q, i, "Value")
    BY <1>3 DEF Served
  <2>3. ASSUME NEW p \in Phases
        PROVE  /\ Table(Stamp(q, i, p), S)
               /\ \A c : PhaseOf(Stamp(q, i, p), c) =
                            IF c = q[i].ctx THEN p ELSE PhaseOf(q, c)
    BY <1>1, Stamped
  <2> QED
    BY <1>1, <1>3, <2>1, <2>2, <2>3
<1> QED
  BY <1>2, <1>3

-----------------------------------------------------------------------------
(***************************************************************************)
(* Wakes.                                                                  *)
(***************************************************************************)
To(s, c) == \E i \in DOMAIN s : s[i].to = c
ToldBy(s, c) == \E i \in DOMAIN s : s[i].to = c /\ s[i].exc

(* A call that had no wakes to send gets the list s. *)
Gets(w, v, c, s) == v = [w EXCEPT ![c] = s]
LEMMA NewWakes ==
    ASSUME NEW w \in [Contexts -> Seq(Wakes)], NEW c \in Contexts, w[c] = <<>>,
           NEW s \in Seq(Wakes), NEW v, Gets(w, v, c, s),
           WakesOnce(w), \A i, j \in DOMAIN s : s[i].to = s[j].to => i = j,
           \A i \in DOMAIN s : ~Coming(w, s[i].to)
    PROVE  /\ v \in [Contexts -> Seq(Wakes)] /\ v[c] = s /\ WakesOnce(v)
           /\ \A d \in Contexts : d # c => v[d] = w[d]
           /\ \A d : Coming(v, d) <=> Coming(w, d) \/ To(s, d)
           /\ \A d : Exceptional(v, d) <=> Exceptional(w, d) \/ ToldBy(s, d)
<1>1. v \in [Contexts -> Seq(Wakes)] /\ v[c] = s /\ \A d \in Contexts \ {c} : v[d] = w[d]
  BY DEF Gets
<1>2. DOMAIN w[c] = {}
  OBVIOUS
<1> HIDE DEF Wakes
<1>3. WakesOnce(v)
  <2> SUFFICES ASSUME NEW d \in Contexts, NEW e \in Contexts,
                      NEW i \in DOMAIN v[d], NEW j \in DOMAIN v[e], v[d][i].to = v[e][j].to
               PROVE  d = e /\ i = j
    BY DEF WakesOnce
  <2>1. CASE d = c /\ e = c
    BY <1>1, <2>1
  <2>2. CASE d # c /\ e # c
    BY <1>1, <2>2 DEF WakesOnce
  <2>3. CASE d = c /\ e # c
    BY <1>1, <2>3 DEF Coming
  <2>4. CASE d # c /\ e = c
    BY <1>1, <2>4 DEF Coming
  <2> QED
    BY <2>1, <2>2, <2>3, <2>4
<1>4. ASSUME NEW d PROVE Coming(v, d) <=> Coming(w, d) \/ To(s, d)
  <2>1. ASSUME NEW e \in Contexts, NEW i \in DOMAIN v[e], v[e][i].to = d
        PROVE  Coming(w, d) \/ To(s, d)
    BY <1>1, <2>1 DEF Coming, To
  <2>2. ASSUME NEW e \in Contexts, NEW i \in DOMAIN w[e], w[e][i].to = d
        PROVE  Coming(v, d)
    <3>1. e # c
      BY <1>2, <2>2
    <3> QED
      BY <1>1, <2>2, <3>1 DEF Coming
  <2>3. ASSUME NEW i \in DOMAIN s, s[i].to = d
        PROVE  Coming(v, d)
    BY <1>1, <2>3 DEF Coming
  <2> QED
    BY <2>1, <2>2, <2>3 DEF Coming, To
<1>5. ASSUME NEW d PROVE Exceptional(v, d) <=> Exceptional(w, d) \/ ToldBy(s, d)
  <2>1. ASSUME NEW e \in Contexts, NEW i \in DOMAIN v[e], v[e][i].to = d /\ v[e][i].exc
        PROVE  Exceptional(w, d) \/ ToldBy(s, d)
    BY <1>1, <2>1 DEF Exceptional, ToldBy
  <2>2. ASSUME NEW e \in Contexts, NEW i \in DOMAIN w[e], w[e][i].to = d /\ w[e][i].exc
        PROVE  Exceptional(v, d)
    <3>1. e # c
      BY <1>2, <2>2
    <3> QED
      BY <1>1, <2>2, <3>1 DEF Exceptional
  <2>3. ASSUME NEW i \in DOMAIN s, s[i].to = d /\ s[i].exc
        PROVE  Exceptional(v, d)
    BY <1>1, <2>3 DEF Exceptional
  <2> QED
    BY <2>1, <2>2, <2>3 DEF Exceptional, ToldBy
<1> QED
  BY <1>1, <1>3, <1>4, <1>5

(* No wake, or one. *)
LEMMA NoWakes ==
    ASSUME NEW w \in [Contexts -> Seq(Wakes)], NEW c \in Contexts, w[c] = <<>>
    PROVE  [w EXCEPT ![c] = <<>>] = w
OBVIOUS

LEMMA OneWake ==
    ASSUME NEW w \in [Contexts -> Seq(Wakes)], NEW c \in Contexts, w[c] = <<>>,
           NEW x \in Contexts,
           NEW v, Gets(w, v, c, <<[to |-> x, exc |-> FALSE]>>),
           WakesOnce(w), ~Coming(w, x)
    PROVE  /\ v \in [Contexts -> Seq(Wakes)] /\ v[c] # <<>> /\ WakesOnce(v)
           /\ \A d \in Contexts : d # c => v[d] = w[d]
           /\ \A d : Coming(v, d) <=> Coming(w, d) \/ d = x
           /\ \A d : Exceptional(v, d) <=> Exceptional(w, d)
<1> DEFINE s == <<[to |-> x, exc |-> FALSE]>>
<1>1. s \in Seq(Wakes) /\ DOMAIN s = {1} /\ s[1].to = x /\ s[1].exc = FALSE /\ s # <<>>
  BY DEF Wakes
<1>2. Gets(w, v, c, s)
  OBVIOUS
<1> HIDE DEF s
<1>3. /\ v \in [Contexts -> Seq(Wakes)] /\ v[c] = s /\ WakesOnce(v)
      /\ \A d \in Contexts : d # c => v[d] = w[d]
      /\ \A d : Coming(v, d) <=> Coming(w, d) \/ To(s, d)
      /\ \A d : Exceptional(v, d) <=> Exceptional(w, d) \/ ToldBy(s, d)
  BY <1>1, <1>2, NewWakes
<1>4. \A d : (To(s, d) <=> d = x) /\ ~ToldBy(s, d)
  BY <1>1 DEF To, ToldBy
<1> QED
  BY <1>1, <1>3, <1>4

(* The first wake of c is sent. *)
Sends(w, v, c) == v = [w EXCEPT ![c] = Tail(w[c])]
LEMMA WakeSent ==
    ASSUME NEW w \in [Contexts -> Seq(Wakes)], NEW c \in Contexts, w[c] # <<>>,
           NEW v, Sends(w, v, c), WakesOnce(w), NEW h, h = Head(w[c])
    PROVE  /\ h \in Wakes /\ Coming(w, h.to) /\ (Exceptional(w, h.to) <=> h.exc)
           /\ v \in [Contexts -> Seq(Wakes)] /\ WakesOnce(v)
           /\ v[c] = <<>> <=> Len(w[c]) = 1
           /\ \A d \in Contexts : d # c => v[d] = w[d]
           /\ \A d : Coming(v, d) <=> Coming(w, d) /\ d # h.to
           /\ \A d : Exceptional(v, d) <=> Exceptional(w, d) /\ d # h.to
<1> DEFINE q == w[c]
           n == Len(q)
<1>1. /\ q \in Seq(Wakes) /\ n \in Nat /\ n > 0 /\ DOMAIN q = 1 .. n /\ h = q[1] /\ h \in Wakes
      /\ Tail(q) \in Seq(Wakes) /\ DOMAIN Tail(q) = 1 .. n - 1
      /\ \A i \in 1 .. n - 1 : Tail(q)[i] = q[i + 1]
      /\ Tail(q) = <<>> <=> n = 1
  <2>1. q \in Seq(Wakes) /\ q # <<>> /\ h = Head(q)
    OBVIOUS
  <2> HIDE DEF q
  <2>2. n \in Nat /\ n > 0 /\ DOMAIN q = 1 .. n /\ h = q[1] /\ h \in Wakes
    BY <2>1
  <2>3. /\ Tail(q) \in Seq(Wakes) /\ Len(Tail(q)) = n - 1 /\ DOMAIN Tail(q) = 1 .. n - 1
        /\ \A i \in 1 .. n - 1 : Tail(q)[i] = q[i + 1]
    BY <2>1, <2>2
  <2>4. Tail(q) = <<>> <=> n = 1
    <3>1. \A t \in Seq(Wakes) : t = <<>> <=> Len(t) = 0
      OBVIOUS
    <3>2. n - 1 = 0 <=> n = 1
      BY <2>2
    <3> QED
      BY <2>3, <3>1, <3>2
  <2> QED
    BY <2>1, <2>2, <2>3, <2>4
<1>2. /\ v \in [Contexts -> Seq(Wakes)] /\ v[c] = Tail(q)
      /\ \A d \in Contexts \ {c} : v[d] = w[d]
  BY <1>1 DEF Sends
<1>3. /\ 1 \in 1 .. n
      /\ \A i \in 1 .. n - 1 : i + 1 \in 1 .. n /\ i + 1 # 1
      /\ \A i \in 1 .. n : i # 1 => i - 1 \in 1 .. n - 1 /\ (i - 1) + 1 = i
      /\ \A i, j \in 1 .. n - 1 : i + 1 = j + 1 => i = j
  BY <1>1
<1>4. q = w[c]
  OBVIOUS
<1> HIDE DEF q, n, Wakes
<1>5. Coming(w, h.to) /\ (Exceptional(w, h.to) <=> h.exc)
  BY <1>1, <1>3, <1>4 DEF Coming, Exceptional, WakesOnce
<1>6. \A d \in Contexts : \A i \in DOMAIN v[d] : d # c => i \in DOMAIN w[d] /\ v[d][i] = w[d][i]
  BY <1>2
<1>7. \A i \in DOMAIN v[c] : i + 1 \in DOMAIN w[c] /\ v[c][i] = w[c][i + 1] /\ i + 1 # 1
                            /\ i \in 1 .. n - 1
  BY <1>1, <1>2, <1>3, <1>4
<1>8. WakesOnce(v)
  <2> SUFFICES ASSUME NEW d \in Contexts, NEW e \in Contexts,
                      NEW i \in DOMAIN v[d], NEW j \in DOMAIN v[e], v[d][i].to = v[e][j].to
               PROVE  d = e /\ i = j
    BY DEF WakesOnce
  <2>1. CASE d = c /\ e = c
    <3>1. i + 1 = j + 1
      BY <1>7, <2>1 DEF WakesOnce
    <3> QED
      BY <1>3, <1>7, <2>1, <3>1
  <2>2. CASE d # c /\ e # c
    BY <1>6, <2>2 DEF WakesOnce
  <2>3. CASE d = c /\ e # c
    BY <1>6, <1>7, <2>3 DEF WakesOnce
  <2>4. CASE d # c /\ e = c
    BY <1>6, <1>7, <2>4 DEF WakesOnce
  <2> QED
    BY <2>1, <2>2, <2>3, <2>4
<1>9. ASSUME NEW d \in Contexts, NEW i \in DOMAIN v[d]
      PROVE  /\ v[d][i].to # h.to
             /\ \E k \in DOMAIN w[d] : w[d][k] = v[d][i]
  <2>1. CASE d = c
    BY <1>1, <1>3, <1>4, <1>7, <2>1 DEF WakesOnce
  <2>2. CASE d # c
    BY <1>1, <1>3, <1>4, <1>6, <2>2 DEF WakesOnce
  <2> QED
    BY <2>1, <2>2
<1>10. ASSUME NEW d \in Contexts, NEW i \in DOMAIN w[d], w[d][i].to # h.to
       PROVE  \E k \in DOMAIN v[d] : v[d][k] = w[d][i]
  <2>1. CASE d = c
    <3>1. i \in 1 .. n /\ i # 1
      BY <1>1, <1>4, <1>10, <2>1
    <3>2. i - 1 \in 1 .. n - 1 /\ (i - 1) + 1 = i
      BY <1>3, <3>1
    <3>3. i - 1 \in DOMAIN v[c] /\ v[c][i - 1] = w[c][i]
      BY <1>1, <1>2, <1>4, <3>2
    <3> QED
      BY <2>1, <3>3
  <2>2. CASE d # c
    BY <1>2, <2>2
  <2> QED
    BY <2>1, <2>2
<1>11. ASSUME NEW d PROVE Coming(v, d) <=> Coming(w, d) /\ d # h.to
  <2>1. ASSUME Coming(v, d) PROVE Coming(w, d) /\ d # h.to
    BY <1>9, <2>1 DEF Coming
  <2>2. ASSUME Coming(w, d), d # h.to PROVE Coming(v, d)
    <3>1. PICK e \in Contexts : \E i \in DOMAIN w[e] : w[e][i].to = d
      BY <2>2 DEF Coming
    <3>2. PICK i \in DOMAIN w[e] : w[e][i].to = d
      BY <3>1
    <3>3. PICK k \in DOMAIN v[e] : v[e][k] = w[e][i]
      BY <1>10, <2>2, <3>2
    <3> QED
      BY <3>2, <3>3 DEF Coming
  <2> QED
    BY <2>1, <2>2
<1>12. ASSUME NEW d PROVE Exceptional(v, d) <=> Exceptional(w, d) /\ d # h.to
  <2>1. ASSUME Exceptional(v, d) PROVE Exceptional(w, d) /\ d # h.to
    BY <1>9, <2>1 DEF Exceptional
  <2>2. ASSUME Exceptional(w, d), d # h.to PROVE Exceptional(v, d)
    <3>1. PICK e \in Contexts : \E i \in DOMAIN w[e] : w[e][i].to = d /\ w[e][i].exc
      BY <2>2 DEF Exceptional
    <3>2. PICK i \in DOMAIN w[e] : w[e][i].to = d /\ w[e][i].exc
      BY <3>1
    <3>3. PICK k \in DOMAIN v[e] : v[e][k] = w[e][i]
      BY <1>10, <2>2, <3>2
    <3> QED
      BY <3>2, <3>3 DEF Exceptional
  <2> QED
    BY <2>1, <2>2
<1> QED
  BY <1>1, <1>2, <1>4, <1>5, <1>8, <1>11, <1>12 DEF q, n

-----------------------------------------------------------------------------
(***************************************************************************)
(* The steps.  Most of them change what one or two contexts see.           *)
(***************************************************************************)
SameView(d) ==
    /\ op'[d] = op[d] /\ at'[d] = at[d] /\ report'[d] = report[d]
    /\ state'[d] = state[d] /\ framesParked'[d] = framesParked[d]
    /\ queued'[d] = queued[d] /\ rethrow'[d] = rethrow[d] /\ cell'[d] = cell[d]
    /\ wakes'[d] = wakes[d]
    /\ PhaseOf(waiters', d) = PhaseOf(waiters, d)
    /\ PhaseOf(pending', d) = PhaseOf(pending, d)
    /\ Coming(wakes', d) <=> Coming(wakes, d)
    /\ Exceptional(wakes', d) <=> Exceptional(wakes, d)

LEMMA SameViewSameInv ==
    ASSUME NEW d, SameView(d), CallInv(d), ParkInv(d)
    PROVE  CallInv(d)' /\ ParkInv(d)'
<1>1. Entry(d)' = Entry(d)
  BY DEF SameView, Entry
<1>2. CallInv(d)'
  BY <1>1 DEF SameView, CallInv
<1>3. ParkInv(d)'
  BY <1>1 DEF SameView, ParkInv
<1> QED
  BY <1>2, <1>3

(* What the abstract channel shows of a call, by its entry and its wake. *)
Shown(c) ==
    IF at[c] = "run" THEN "idle"
    ELSE IF report[c] # "none" THEN report[c]
    ELSE IF Entry(c) \in LivePhases THEN "waiting"
    ELSE IF rethrow[c] \/ Entry(c) = "Closed" \/ Exceptional(wakes, c) THEN "closed"
    ELSE IF op[c] = "recv" THEN cell[c] ELSE "sent"

LEMMA SameViewSameShown ==
    ASSUME NEW d, SameView(d)
    PROVE  Shown(d)' = Shown(d)
<1>1. Entry(d)' = Entry(d)
  BY DEF SameView, Entry
<1> QED
  BY <1>1 DEF SameView, Shown

(* What the invariant says of the variables. *)
LEMMA Facts ==
    ASSUME ChannelInv
    PROVE  /\ state \in [Contexts -> {"Runnable", "ParkedChanRecv", "ParkedChanSend"}]
           /\ framesParked \in [Contexts -> BOOLEAN] /\ queued \in [Contexts -> Nat]
           /\ capacity \in Nat /\ buffered \in Seq(Values) /\ closed \in BOOLEAN
           /\ cell \in [Contexts -> Values \cup {NoValue}]
           /\ rethrow \in [Contexts -> BOOLEAN]
           /\ op \in [Contexts -> {"none", "send", "recv", "close"}]
           /\ at \in [Contexts -> {"run", "wake", "migrate", "recheck", "abort",
                                   "unwind", "parked", "return"}]
           /\ wakes \in [Contexts -> Seq(Wakes)] /\ WakesOnce(wakes)
           /\ report \in [Contexts -> Reports]
           /\ Table(waiters, Waiter) /\ Table(pending, PendingSend)
           /\ \A c \in Contexts : CallInv(c) /\ ParkInv(c)
<1>1. capacity \in Nat
  BY ChannelAssumption DEF ChannelInv, ChannelTypeOK
<1>2. Table(waiters, Waiter) /\ Table(pending, PendingSend)
  BY BothAreRows DEF ChannelInv, ChannelTypeOK, Table
<1> QED
  BY <1>1, <1>2 DEF ChannelInv, ChannelTypeOK

(* In the terms of the phases: nobody waits for what is there. *)
LEMMA Faces ==
    ASSUME Table(waiters, Waiter), Table(pending, PendingSend)
    PROVE  WaitersFaceAnEmptyBuffer <=>
             /\ (\E c \in Contexts : PhaseOf(waiters, c) \in LivePhases)
                   => /\ buffered = <<>> /\ ~closed
                      /\ \A c \in Contexts : PhaseOf(pending, c) \notin LivePhases
             /\ (\E c \in Contexts : PhaseOf(pending, c) \in LivePhases)
                   => IsFull /\ ~closed
             /\ capacity > 0 => Len(buffered) <= capacity
<1>1. LiveAt(waiters) # {} <=> \E c \in Contexts : PhaseOf(waiters, c) \in LivePhases
  BY PhaseType
<1>2. LiveAt(pending) # {} <=> \E c \in Contexts : PhaseOf(pending, c) \in LivePhases
  BY PhaseType
<1> QED
  BY <1>1, <1>2 DEF WaitersFaceAnEmptyBuffer

(* Steps that leave the slot and the wakes alone. *)
LEMMA OwnStep ==
    ASSUME ChannelInv, NEW c \in Contexts, UNCHANGED <<slotVars, wakes>>,
           ChannelTypeOK',
           \A d \in Contexts \ {c} : SameView(d),
           CallInv(c)', ParkInv(c)'
    PROVE  ChannelInv'
<1>1. \A d \in Contexts : CallInv(d) /\ ParkInv(d)
  BY DEF ChannelInv
<1>2. \A d \in Contexts \ {c} : CallInv(d)' /\ ParkInv(d)'
  BY <1>1, SameViewSameInv
<1>3. \A d \in Contexts : CallInv(d)' /\ ParkInv(d)'
  BY <1>2
<1>4. WaitersFaceAnEmptyBuffer' /\ OnceEach(waiters)' /\ OnceEach(pending)'
  BY DEF ChannelInv, slotVars, WaitersFaceAnEmptyBuffer, IsFull
<1>5. WakesOnce(wakes)'
  BY DEF ChannelInv
<1> QED
  BY <1>3, <1>4, <1>5 DEF ChannelInv

(* The tables and the wakes as a context sees them when neither changes. *)
LEMMA SlotSeen ==
    ASSUME NEW d, UNCHANGED <<slotVars, wakes>>
    PROVE  /\ PhaseOf(waiters', d) = PhaseOf(waiters, d)
           /\ PhaseOf(pending', d) = PhaseOf(pending, d)
           /\ Coming(wakes', d) <=> Coming(wakes, d)
           /\ Exceptional(wakes', d) <=> Exceptional(wakes, d)
BY DEF slotVars

LEMMA MigrateStep ==
    ASSUME ChannelInv, NEW c \in Contexts, Migrate(c)
    PROVE  ChannelInv' /\ \A d \in Contexts \ {c} : SameView(d)
<1> DEFINE kind == IF op[c] = "recv" THEN "ParkedChanRecv" ELSE "ParkedChanSend"
<1>0. /\ at[c] = "migrate" /\ state' = [state EXCEPT ![c] = kind]
      /\ at' = [at EXCEPT ![c] = "recheck"]
      /\ UNCHANGED <<framesParked, queued, cell, rethrow, op, wakes, report>>
      /\ UNCHANGED slotVars
  BY DEF Migrate, MarkParked
<1>1. kind \in {"ParkedChanRecv", "ParkedChanSend"}
  OBVIOUS
<1> HIDE DEF kind
<1>2. ChannelTypeOK'
  BY <1>0, <1>1 DEF ChannelInv, ChannelTypeOK, slotVars
<1>3. \A d \in Contexts \ {c} : SameView(d)
  BY <1>0, Facts, SlotSeen DEF SameView
<1>4. at'[c] = "recheck" /\ state'[c] # "Runnable" /\ CallInv(c) /\ ParkInv(c)
  BY <1>0, <1>1, Facts
<1>5. Entry(c)' = Entry(c)
  BY <1>0, SlotSeen DEF Entry
<1>6. CallInv(c)'
  BY <1>0, <1>4, <1>5, SlotSeen DEF CallInv
<1>7. ParkInv(c)'
  BY <1>0, <1>4, <1>5, SlotSeen DEF ParkInv
<1> QED
  BY <1>0, <1>2, <1>3, <1>6, <1>7, OwnStep

LEMMA AbortStep ==
    ASSUME ChannelInv, NEW c \in Contexts, Abort(c)
    PROVE  ChannelInv' /\ \A d \in Contexts \ {c} : SameView(d)
<1>0. /\ at[c] = "abort" /\ state' = [state EXCEPT ![c] = "Runnable"]
      /\ at' = [at EXCEPT ![c] = "return"]
      /\ UNCHANGED <<framesParked, queued, cell, rethrow, op, wakes, report>>
      /\ UNCHANGED slotVars
  BY DEF Abort, UndoPark
<1>2. ChannelTypeOK'
  BY <1>0 DEF ChannelInv, ChannelTypeOK, slotVars
<1>3. \A d \in Contexts \ {c} : SameView(d)
  BY <1>0, Facts, SlotSeen DEF SameView
<1>4. at'[c] = "return" /\ state'[c] = "Runnable" /\ CallInv(c) /\ ParkInv(c)
  BY <1>0, Facts
<1>5. Entry(c)' = Entry(c)
  BY <1>0, SlotSeen DEF Entry
<1>6. CallInv(c)'
  BY <1>0, <1>4, <1>5, SlotSeen DEF CallInv
<1>7. ParkInv(c)'
  BY <1>0, <1>4, <1>5, SlotSeen DEF ParkInv
<1> QED
  BY <1>0, <1>2, <1>3, <1>6, <1>7, OwnStep

LEMMA LandStep ==
    ASSUME ChannelInv, NEW c \in Contexts, Land(c)
    PROVE  ChannelInv' /\ \A d \in Contexts \ {c} : SameView(d)
<1>0. /\ at[c] = "unwind" /\ at' = [at EXCEPT ![c] = "parked"]
      /\ UNCHANGED <<state, cell, rethrow, op, wakes, report>>
      /\ UNCHANGED slotVars
      /\ \/ /\ state[c] = "Runnable"
            /\ queued' = [queued EXCEPT ![c] = queued[c] + 1]
            /\ UNCHANGED framesParked
         \/ /\ state[c] # "Runnable"
            /\ framesParked' = [framesParked EXCEPT ![c] = TRUE]
            /\ UNCHANGED queued
  BY DEF Land, LandFrames
<1>1. CallInv(c) /\ ParkInv(c) /\ queued \in [Contexts -> Nat] /\ at'[c] = "parked"
      /\ framesParked \in [Contexts -> BOOLEAN]
  BY <1>0, Facts
<1>2. ChannelTypeOK'
  <2>1. queued' \in [Contexts -> Nat]
    BY <1>0, <1>1
  <2>2. framesParked' \in [Contexts -> BOOLEAN]
    BY <1>0, <1>1
  <2> QED
    BY <1>0, <2>1, <2>2 DEF ChannelInv, ChannelTypeOK, slotVars
<1>3. \A d \in Contexts \ {c} : SameView(d)
  BY <1>0, Facts, SlotSeen DEF SameView
<1>4. IF state'[c] = "Runnable" THEN queued'[c] = 1 ELSE queued'[c] = 0 /\ framesParked'[c]
  <2>1. queued[c] = 0
    BY <1>0, <1>1 DEF ParkInv
  <2> QED
    BY <1>0, <1>1, <2>1
<1>5. Entry(c)' = Entry(c)
  BY <1>0, SlotSeen DEF Entry
<1>6. CallInv(c)'
  BY <1>0, <1>1, <1>5, SlotSeen DEF CallInv
<1>7. ParkInv(c)'
  BY <1>0, <1>1, <1>4, <1>5, SlotSeen DEF ParkInv
<1> QED
  BY <1>0, <1>2, <1>3, <1>6, <1>7, OwnStep

(* What a resumed call reports. *)
Outcome(c) == IF rethrow[c] THEN "closed" ELSE IF op[c] = "recv" THEN cell[c] ELSE "sent"

LEMMA ResumeFacts ==
    ASSUME ChannelInv, NEW c \in Contexts, Resume(c)
    PROVE  /\ at[c] = "parked" /\ state[c] = "Runnable" /\ queued[c] = 1
           /\ Entry(c) = "absent" /\ ~Coming(wakes, c)
           /\ at' = [at EXCEPT ![c] = "return"]
           /\ queued' = [queued EXCEPT ![c] = 0]
           /\ framesParked' = [framesParked EXCEPT ![c] = FALSE]
           /\ rethrow' = [rethrow EXCEPT ![c] = FALSE]
           /\ report' = [report EXCEPT ![c] = Outcome(c)]
           /\ Outcome(c) \in Reports \ {"none"}
           /\ UNCHANGED <<state, cell, op, wakes>> /\ UNCHANGED slotVars
<1>1. /\ CallInv(c) /\ ParkInv(c) /\ queued \in [Contexts -> Nat]
      /\ cell \in [Contexts -> Values \cup {NoValue}]
  BY Facts
<1>2. /\ at[c] = "parked" /\ queued[c] > 0
      /\ at' = [at EXCEPT ![c] = "return"]
      /\ queued' = [queued EXCEPT ![c] = queued[c] - 1]
      /\ framesParked' = [framesParked EXCEPT ![c] = FALSE]
      /\ rethrow' = [rethrow EXCEPT ![c] = FALSE]
      /\ report' = [report EXCEPT ![c] = Outcome(c)]
      /\ UNCHANGED <<state, cell, op, wakes>> /\ UNCHANGED slotVars
  BY DEF Resume, Dispatch, Outcome
<1>3. state[c] = "Runnable" /\ queued[c] = 1
  BY <1>1, <1>2 DEF ParkInv
<1>4. Entry(c) = "absent" /\ ~Coming(wakes, c)
  BY <1>1, <1>2, <1>3 DEF ParkInv
<1>5. ~Exceptional(wakes, c)
  BY <1>4 DEF Coming, Exceptional
<1>6. op[c] = "recv" => rethrow[c] \/ cell[c] \in Values
  BY <1>1, <1>2, <1>4, <1>5 DEF ParkInv
<1>7. Values \cup {"closed", "sent"} \subseteq Reports \ {"none"}
  BY ChannelAssumption DEF Reports
<1>8. Outcome(c) \in Reports \ {"none"}
  BY <1>6, <1>7 DEF Outcome
<1>9. queued[c] - 1 = 0
  BY <1>3
<1> QED
  BY <1>2, <1>3, <1>4, <1>8, <1>9

LEMMA ResumeStep ==
    ASSUME ChannelInv, NEW c \in Contexts, Resume(c)
    PROVE  ChannelInv' /\ \A d \in Contexts \ {c} : SameView(d)
<1>0. /\ at[c] = "parked" /\ state[c] = "Runnable" /\ queued[c] = 1
      /\ Entry(c) = "absent" /\ ~Coming(wakes, c)
      /\ at' = [at EXCEPT ![c] = "return"]
      /\ queued' = [queued EXCEPT ![c] = 0]
      /\ framesParked' = [framesParked EXCEPT ![c] = FALSE]
      /\ rethrow' = [rethrow EXCEPT ![c] = FALSE]
      /\ report' = [report EXCEPT ![c] = Outcome(c)]
      /\ Outcome(c) \in Reports \ {"none"}
      /\ UNCHANGED <<state, cell, op, wakes>> /\ UNCHANGED slotVars
  BY ResumeFacts
<1>1. CallInv(c) /\ ParkInv(c)
  BY Facts
<1>2. ChannelTypeOK'
  BY <1>0 DEF ChannelInv, ChannelTypeOK, slotVars
<1>3. \A d \in Contexts \ {c} : SameView(d)
  BY <1>0, Facts, SlotSeen DEF SameView
<1>4. at'[c] = "return" /\ queued'[c] = 0 /\ ~framesParked'[c] /\ ~rethrow'[c]
      /\ report'[c] # "none"
  BY <1>0, Facts
<1>5. Entry(c)' = Entry(c)
  BY <1>0, SlotSeen DEF Entry
<1>6. CallInv(c)'
  BY <1>0, <1>1, <1>4, <1>5, SlotSeen DEF CallInv
<1>7. ParkInv(c)'
  BY <1>0, <1>1, <1>4, <1>5, SlotSeen DEF ParkInv
<1> QED
  BY <1>0, <1>2, <1>3, <1>6, <1>7, OwnStep

LEMMA ReturnStep ==
    ASSUME ChannelInv, NEW c \in Contexts, Return(c)
    PROVE  ChannelInv' /\ \A d \in Contexts \ {c} : SameView(d)
<1>0. /\ at[c] = "return" /\ at' = [at EXCEPT ![c] = "run"]
      /\ op' = [op EXCEPT ![c] = "none"]
      /\ report' = [report EXCEPT ![c] = "none"]
      /\ cell' = [cell EXCEPT ![c] = NoValue]
      /\ UNCHANGED <<state, framesParked, queued, rethrow, wakes>> /\ UNCHANGED slotVars
  BY DEF Return, parkVars
<1>1. CallInv(c) /\ ParkInv(c)
  BY Facts
<1>2. ChannelTypeOK'
  BY <1>0 DEF ChannelInv, ChannelTypeOK, slotVars, Reports
<1>3. \A d \in Contexts \ {c} : SameView(d)
  BY <1>0, Facts, SlotSeen DEF SameView
<1>4. at'[c] = "run" /\ op'[c] = "none" /\ report'[c] = "none"
  BY <1>0, Facts
<1>5. PhaseOf(waiters, c) = "absent" /\ PhaseOf(pending, c) = "absent"
  BY <1>0, <1>1 DEF CallInv, Entry
<1>6. Entry(c)' = "absent"
  BY <1>0, <1>5, SlotSeen DEF Entry
<1>7. CallInv(c)'
  BY <1>0, <1>1, <1>4, <1>5, <1>6, SlotSeen DEF CallInv
<1>8. ParkInv(c)'
  BY <1>0, <1>1, <1>4, <1>6, SlotSeen DEF ParkInv
<1> QED
  BY <1>0, <1>2, <1>3, <1>7, <1>8, OwnStep

(***************************************************************************)
(* Steps on the slot.                                                      *)
(***************************************************************************)
LEMMA SlotStep ==
    ASSUME ChannelInv, ChannelTypeOK', WaitersFaceAnEmptyBuffer',
           Table(waiters', Waiter), Table(pending', PendingSend), WakesOnce(wakes'),
           NEW X, \A d \in Contexts \ X : SameView(d),
           \A d \in Contexts \cap X : CallInv(d)' /\ ParkInv(d)'
    PROVE  ChannelInv'
<1>1. \A d \in Contexts : CallInv(d) /\ ParkInv(d)
  BY DEF ChannelInv
<1>2. \A d \in Contexts \ X : CallInv(d)' /\ ParkInv(d)'
  BY <1>1, SameViewSameInv
<1>3. \A d \in Contexts : CallInv(d)' /\ ParkInv(d)'
  BY <1>2
<1>4. OnceEach(waiters)' /\ OnceEach(pending)'
  BY DEF Table
<1> QED
  BY <1>3, <1>4 DEF ChannelInv

(* A context that calls: what is known of it. *)
LEMMA Caller ==
    ASSUME ChannelInv, NEW c \in Contexts, at[c] = "run"
    PROVE  /\ op[c] = "none" /\ report[c] = "none" /\ wakes[c] = <<>>
           /\ PhaseOf(waiters, c) = "absent" /\ PhaseOf(pending, c) = "absent"
           /\ ~Has(waiters, c) /\ ~Has(pending, c)
           /\ state[c] = "Runnable" /\ ~framesParked[c] /\ queued[c] = 0
           /\ ~Coming(wakes, c) /\ ~Exceptional(wakes, c) /\ ~rethrow[c]
<1>1. CallInv(c) /\ ParkInv(c) /\ Table(waiters, Waiter) /\ Table(pending, PendingSend)
  BY Facts
<1>2. /\ op[c] = "none" /\ report[c] = "none" /\ wakes[c] = <<>>
      /\ PhaseOf(waiters, c) = "absent" /\ PhaseOf(pending, c) = "absent"
  BY <1>1 DEF CallInv
<1>3. ~Has(waiters, c) /\ ~Has(pending, c)
  BY <1>1, <1>2, PhaseType
<1>4. state[c] = "Runnable" /\ ~framesParked[c] /\ queued[c] = 0 /\ ~Coming(wakes, c)
      /\ ~rethrow[c]
  BY <1>1 DEF ParkInv
<1>5. ~Exceptional(wakes, c)
  BY <1>4 DEF Coming, Exceptional
<1> QED
  BY <1>2, <1>3, <1>4, <1>5

(* The caller has its decision, or an entry and is on its way to park. *)
LEMMA CallerDecides ==
    ASSUME ChannelInv, NEW c \in Contexts, at[c] = "run",
           NEW name \in {"send", "recv", "close"}, op'[c] = name,
           NEW r \in Reports \ {"none"}, report'[c] = r,
           at'[c] = IF wakes'[c] = <<>> THEN "return" ELSE "wake",
           PhaseOf(waiters', c) = "absent", PhaseOf(pending', c) = "absent",
           ~Coming(wakes', c),
           state'[c] = state[c], framesParked'[c] = framesParked[c],
           queued'[c] = queued[c], rethrow'[c] = rethrow[c]
    PROVE  CallInv(c)' /\ ParkInv(c)'
<1>1. /\ state[c] = "Runnable" /\ ~framesParked[c] /\ queued[c] = 0 /\ ~rethrow[c]
  BY Caller
<1>2. Entry(c)' = "absent"
  BY DEF Entry
<1>3. CallInv(c)'
  BY <1>2 DEF CallInv
<1>4. ParkInv(c)'
  BY <1>1, <1>2 DEF ParkInv
<1> QED
  BY <1>3, <1>4

LEMMA CallerParks ==
    ASSUME ChannelInv, NEW c \in Contexts, at[c] = "run",
           NEW name \in {"send", "recv"}, op'[c] = name, at'[c] = "migrate",
           UNCHANGED <<report, wakes>>,
           PhaseOf(waiters', c) = (IF name = "recv" THEN "Pending" ELSE "absent"),
           PhaseOf(pending', c) = (IF name = "send" THEN "Pending" ELSE "absent"),
           state'[c] = state[c], framesParked'[c] = framesParked[c],
           queued'[c] = queued[c], rethrow'[c] = rethrow[c]
    PROVE  CallInv(c)' /\ ParkInv(c)'
<1>1. /\ state[c] = "Runnable" /\ ~framesParked[c] /\ queued[c] = 0 /\ ~rethrow[c]
      /\ report[c] = "none" /\ wakes[c] = <<>> /\ ~Coming(wakes, c)
  BY Caller
<1>2. Entry(c)' = "Pending"
  BY DEF Entry
<1>3. CallInv(c)'
  BY <1>1, <1>2 DEF CallInv
<1>4. ParkInv(c)'
  BY <1>1, <1>2 DEF ParkInv
<1> QED
  BY <1>3, <1>4

(* The one who is served: a receiver, with its value, or a sender. *)
LEMMA ServedRecv ==
    ASSUME ChannelInv, NEW x \in Contexts, op[x] = "recv",
           PhaseOf(waiters, x) \in LivePhases,
           PhaseOf(waiters', x) = IF PhaseOf(waiters, x) = "Committed" THEN "absent" ELSE "Value",
           PhaseOf(pending', x) = PhaseOf(pending, x), cell'[x] \in Values,
           Coming(wakes', x) <=> PhaseOf(waiters, x) = "Committed",
           op'[x] = op[x], at'[x] = at[x], report'[x] = report[x],
           state'[x] = state[x], framesParked'[x] = framesParked[x],
           queued'[x] = queued[x], rethrow'[x] = rethrow[x],
           wakes'[x] = wakes[x]
    PROVE  CallInv(x)' /\ ParkInv(x)'
<1>1. CallInv(x) /\ ParkInv(x) /\ Entry(x) = PhaseOf(waiters, x)
  BY Facts DEF Entry
<1>2. Entry(x)' = PhaseOf(waiters', x)
  BY DEF Entry
<1>3. LivePhases = {"Pending", "Committed"}
  BY DEF LivePhases
<1>4. /\ PhaseOf(waiters, x) = "Committed" => at[x] \in {"unwind", "parked"}
      /\ PhaseOf(waiters, x) = "Pending" => at[x] \in {"migrate", "recheck"}
  BY <1>1, Facts DEF CallInv
<1>5. CallInv(x)'
  <2>1. PhaseOf(pending', x) = "absent"
    BY <1>1 DEF CallInv
  <2> QED
    BY <1>1, <1>2, <1>3, <1>4, <2>1 DEF CallInv
<1>6. ParkInv(x)'
  BY <1>1, <1>2, <1>3, <1>4 DEF ParkInv
<1> QED
  BY <1>5, <1>6

LEMMA ServedSend ==
    ASSUME ChannelInv, NEW x \in Contexts, op[x] = "send",
           PhaseOf(pending, x) \in LivePhases,
           PhaseOf(pending', x) = IF PhaseOf(pending, x) = "Committed" THEN "absent" ELSE "Value",
           PhaseOf(waiters', x) = PhaseOf(waiters, x),
           Coming(wakes', x) <=> PhaseOf(pending, x) = "Committed",
           op'[x] = op[x], at'[x] = at[x], report'[x] = report[x],
           state'[x] = state[x], framesParked'[x] = framesParked[x],
           queued'[x] = queued[x], rethrow'[x] = rethrow[x],
           wakes'[x] = wakes[x]
    PROVE  CallInv(x)' /\ ParkInv(x)'
<1>1. CallInv(x) /\ ParkInv(x) /\ Entry(x) = PhaseOf(pending, x)
  BY Facts DEF Entry
<1>2. Entry(x)' = PhaseOf(pending', x)
  BY DEF Entry
<1>3. LivePhases = {"Pending", "Committed"}
  BY DEF LivePhases
<1>4. /\ PhaseOf(pending, x) = "Committed" => at[x] \in {"unwind", "parked"}
      /\ PhaseOf(pending, x) = "Pending" => at[x] \in {"migrate", "recheck"}
  BY <1>1, Facts DEF CallInv
<1>5. CallInv(x)'
  <2>1. PhaseOf(waiters', x) = "absent"
    BY <1>1 DEF CallInv
  <2> QED
    BY <1>1, <1>2, <1>3, <1>4, <2>1 DEF CallInv
<1>6. ParkInv(x)'
  BY <1>1, <1>2, <1>3, <1>4 DEF ParkInv
<1> QED
  BY <1>5, <1>6


(* Who has an entry is not being woken. *)
LEMMA EntryNoWake ==
    ASSUME ChannelInv, NEW d \in Contexts
    PROVE  /\ PhaseOf(waiters, d) # "absent" => op[d] = "recv" /\ ~Coming(wakes, d)
           /\ PhaseOf(pending, d) # "absent" => op[d] = "send" /\ ~Coming(wakes, d)
           /\ Exceptional(wakes, d) => Coming(wakes, d)
<1>1. CallInv(d) /\ ParkInv(d)
  BY Facts
<1>2. PhaseOf(waiters, d) # "absent" => op[d] = "recv"
  BY <1>1 DEF CallInv
<1>3. PhaseOf(pending, d) # "absent" => op[d] = "send"
  BY <1>1 DEF CallInv
<1>4. Entry(d) # "absent" => ~Coming(wakes, d)
  BY <1>1 DEF ParkInv
<1>5. Exceptional(wakes, d) => Coming(wakes, d)
  BY DEF Exceptional, Coming
<1> QED
  BY <1>2, <1>3, <1>4, <1>5 DEF Entry

(* The caller c serves x: the table q becomes r, the wakes become v. *)
Serves(c, x, q, r, v) ==
    /\ x \in Contexts /\ x # c /\ PhaseOf(q, x) \in LivePhases
    /\ \A d : d # x => PhaseOf(r, d) = PhaseOf(q, d)
    /\ PhaseOf(r, x) = IF PhaseOf(q, x) = "Committed" THEN "absent" ELSE "Value"
    /\ v \in [Contexts -> Seq(Wakes)] /\ WakesOnce(v)
    /\ \A d \in Contexts : d # c => v[d] = wakes[d]
    /\ \A d : d # x => (Coming(v, d) <=> Coming(wakes, d))
    /\ Coming(v, x) <=> PhaseOf(q, x) = "Committed"
    /\ \A d : Exceptional(v, d) <=> Exceptional(wakes, d)

LEMMA Delivery ==
    ASSUME ChannelInv, NEW c \in Contexts, at[c] = "run",
           NEW S, NEW q, Table(q, S), LiveAt(q) # {}, q = waiters \/ q = pending,
           NEW i, i = FirstLive(q), NEW v, Gets(wakes, v, c, WakeOf(q, i))
    PROVE  /\ i \in DOMAIN q /\ q[i] \in S
           /\ Table(Served(q, i), S) /\ Serves(c, q[i].ctx, q, Served(q, i), v)
           /\ v[c] = WakeOf(q, i)
<1> DEFINE x == q[i].ctx
<1>1. /\ i \in DOMAIN q /\ q[i] \in S /\ x \in Contexts /\ q[i].phase = PhaseOf(q, x)
      /\ PhaseOf(q, x) \in LivePhases
  BY FirstIsLive
<1>2. x # c /\ ~Coming(wakes, x)
  <2>1. PhaseOf(q, x) # "absent"
    BY <1>1 DEF LivePhases
  <2> QED
    BY <1>1, <2>1, Caller, EntryNoWake
<1>3. /\ Table(Served(q, i), S)
      /\ \A d : d # x => PhaseOf(Served(q, i), d) = PhaseOf(q, d)
      /\ PhaseOf(Served(q, i), x) =
            IF PhaseOf(q, x) = "Committed" THEN "absent" ELSE "Value"
  <2>1. /\ Table(Served(q, i), S)
        /\ \A d : PhaseOf(Served(q, i), d) =
                     IF d # q[i].ctx THEN PhaseOf(q, d)
                     ELSE IF PhaseOf(q, d) = "Committed" THEN "absent" ELSE "Value"
    BY ServedFirst
  <2> QED
    BY <2>1
<1>4. wakes \in [Contexts -> Seq(Wakes)] /\ WakesOnce(wakes) /\ wakes[c] = <<>>
  BY Facts, Caller
<1>5. CASE PhaseOf(q, x) = "Committed"
  <2>1. Gets(wakes, v, c, <<[to |-> x, exc |-> FALSE]>>)
    BY <1>1, <1>5 DEF WakeOf
  <2>2. /\ v \in [Contexts -> Seq(Wakes)] /\ WakesOnce(v)
        /\ \A d \in Contexts : d # c => v[d] = wakes[d]
        /\ \A d : Coming(v, d) <=> Coming(wakes, d) \/ d = x
        /\ \A d : Exceptional(v, d) <=> Exceptional(wakes, d)
    BY ONLY <1>1, <1>2, <1>4, <2>1, OneWake
  <2>3. v[c] = WakeOf(q, i)
    BY <1>4 DEF Gets
  <2> HIDE DEF x
  <2>4. Serves(c, x, q, Served(q, i), v)
    BY <1>1, <1>2, <1>3, <1>5, <2>2 DEF Serves
  <2> QED
    BY <1>1, <1>3, <2>3, <2>4 DEF x
<1>6. CASE PhaseOf(q, x) # "Committed"
  <2>1. WakeOf(q, i) = <<>>
    BY <1>1, <1>6 DEF WakeOf
  <2>2. v = wakes
    BY <1>4, <2>1 DEF Gets
  <2> HIDE DEF x
  <2>4. Serves(c, x, q, Served(q, i), v)
    BY <1>1, <1>2, <1>3, <1>4, <1>6, <2>2 DEF Serves
  <2> QED
    BY <1>1, <1>3, <1>4, <2>1, <2>2, <2>4 DEF x
<1> QED
  BY <1>5, <1>6

(* What a caller leaves alone besides the slot. *)
CallOnly(c, name) ==
    /\ at[c] = "run" /\ op' = [op EXCEPT ![c] = name]
    /\ UNCHANGED <<capacity, rethrow, state, framesParked, queued>>

(* Everybody's view when a waiting receiver, or a waiting sender, is served. *)
Decided(c, r) ==
    /\ report' = [report EXCEPT ![c] = r]
    /\ at' = [at EXCEPT ![c] = IF wakes'[c] = <<>> THEN "return" ELSE "wake"]

LEMMA CallerServes ==
    ASSUME ChannelInv, NEW c \in Contexts, NEW name \in {"send", "recv"},
           CallOnly(c, name), NEW r \in Reports \ {"none"}, Decided(c, r),
           PhaseOf(waiters', c) = PhaseOf(waiters, c),
           PhaseOf(pending', c) = PhaseOf(pending, c),
           ~Coming(wakes', c)
    PROVE  CallInv(c)' /\ ParkInv(c)'
<1>1. /\ op \in [Contexts -> {"none", "send", "recv", "close"}]
      /\ report \in [Contexts -> Reports]
      /\ at \in [Contexts -> {"run", "wake", "migrate", "recheck", "abort",
                              "unwind", "parked", "return"}]
  BY Facts
<1>2. /\ at[c] = "run" /\ op'[c] = name
      /\ UNCHANGED <<capacity, rethrow, state, framesParked, queued>>
  BY <1>1 DEF CallOnly
<1>3. report'[c] = r
  BY <1>1 DEF Decided
<1>4. at'[c] = IF wakes'[c] = <<>> THEN "return" ELSE "wake"
  BY <1>1 DEF Decided
<1>5. PhaseOf(waiters', c) = "absent" /\ PhaseOf(pending', c) = "absent"
  BY <1>2, Caller
<1>6. name \in {"send", "recv", "close"}
  OBVIOUS
<1> QED
  BY <1>2, <1>3, <1>4, <1>5, <1>6, CallerDecides

LEMMA OthersSee ==
    ASSUME ChannelInv, NEW c \in Contexts, NEW name, CallOnly(c, name),
           NEW r, Decided(c, r), NEW d \in Contexts, d # c
    PROVE  /\ op'[d] = op[d] /\ at'[d] = at[d] /\ report'[d] = report[d]
           /\ state'[d] = state[d] /\ framesParked'[d] = framesParked[d]
           /\ queued'[d] = queued[d] /\ rethrow'[d] = rethrow[d]
BY Facts DEF CallOnly, Decided

LEMMA ReceiverServed ==
    ASSUME ChannelInv, NEW c \in Contexts, CallOnly(c, "send"),
           NEW r \in Reports \ {"none"}, Decided(c, r),
           NEW x, Serves(c, x, waiters, waiters', wakes'), UNCHANGED pending,
           NEW val \in Values, cell' = [cell EXCEPT ![x] = val]
    PROVE  /\ \A d \in Contexts \ {c, x} : SameView(d)
           /\ \A d \in Contexts \cap {c, x} : CallInv(d)' /\ ParkInv(d)'
<1>0. /\ x \in Contexts /\ x # c /\ PhaseOf(waiters, x) \in LivePhases
      /\ \A d : d # x => PhaseOf(waiters', d) = PhaseOf(waiters, d)
      /\ PhaseOf(waiters', x) =
            IF PhaseOf(waiters, x) = "Committed" THEN "absent" ELSE "Value"
      /\ \A d \in Contexts : d # c => wakes'[d] = wakes[d]
      /\ \A d : d # x => (Coming(wakes', d) <=> Coming(wakes, d))
      /\ Coming(wakes', x) <=> PhaseOf(waiters, x) = "Committed"
      /\ \A d : Exceptional(wakes', d) <=> Exceptional(wakes, d)
  BY DEF Serves
<1>1. cell \in [Contexts -> Values \cup {NoValue}] /\ at[c] = "run"
  BY Facts DEF CallOnly
<1>2. \A d : PhaseOf(pending', d) = PhaseOf(pending, d)
  OBVIOUS
<1>3. ASSUME NEW d \in Contexts \ {c, x} PROVE SameView(d)
  <2>1. cell'[d] = cell[d]
    BY <1>1
  <2>2. /\ op'[d] = op[d] /\ at'[d] = at[d] /\ report'[d] = report[d]
        /\ state'[d] = state[d] /\ framesParked'[d] = framesParked[d]
        /\ queued'[d] = queued[d] /\ rethrow'[d] = rethrow[d]
    BY OthersSee
  <2> QED
    BY <1>0, <1>2, <2>1, <2>2 DEF SameView
<1>4. CallInv(c)' /\ ParkInv(c)'
  <2>1. ~Coming(wakes, c)
    BY <1>1, Caller
  <2>2. /\ PhaseOf(waiters', c) = PhaseOf(waiters, c)
        /\ PhaseOf(pending', c) = PhaseOf(pending, c) /\ ~Coming(wakes', c)
    BY <1>0, <1>2, <2>1
  <2> QED
    BY <2>2, CallerServes
<1>5. CallInv(x)' /\ ParkInv(x)'
  <2>1. op[x] = "recv"
    BY <1>0, EntryNoWake DEF LivePhases
  <2>2. /\ op'[x] = op[x] /\ at'[x] = at[x] /\ report'[x] = report[x]
        /\ state'[x] = state[x] /\ framesParked'[x] = framesParked[x]
        /\ queued'[x] = queued[x] /\ rethrow'[x] = rethrow[x]
    BY <1>0, OthersSee
  <2>3. cell'[x] \in Values
    BY <1>0, <1>1
  <2>4. wakes'[x] = wakes[x]
    BY <1>0
  <2> QED
    BY <1>0, <1>2, <2>1, <2>2, <2>3, <2>4, ServedRecv
<1> QED
  BY <1>3, <1>4, <1>5

LEMMA SenderServed ==
    ASSUME ChannelInv, NEW c \in Contexts, CallOnly(c, "recv"),
           NEW r \in Reports \ {"none"}, Decided(c, r),
           NEW x, Serves(c, x, pending, pending', wakes'), UNCHANGED waiters,
           \A d \in Contexts \ {c} : cell'[d] = cell[d]
    PROVE  /\ \A d \in Contexts \ {c, x} : SameView(d)
           /\ \A d \in Contexts \cap {c, x} : CallInv(d)' /\ ParkInv(d)'
<1>0. /\ x \in Contexts /\ x # c /\ PhaseOf(pending, x) \in LivePhases
      /\ \A d : d # x => PhaseOf(pending', d) = PhaseOf(pending, d)
      /\ PhaseOf(pending', x) =
            IF PhaseOf(pending, x) = "Committed" THEN "absent" ELSE "Value"
      /\ \A d \in Contexts : d # c => wakes'[d] = wakes[d]
      /\ \A d : d # x => (Coming(wakes', d) <=> Coming(wakes, d))
      /\ Coming(wakes', x) <=> PhaseOf(pending, x) = "Committed"
      /\ \A d : Exceptional(wakes', d) <=> Exceptional(wakes, d)
  BY DEF Serves
<1>1. at[c] = "run"
  BY DEF CallOnly
<1>2. \A d : PhaseOf(waiters', d) = PhaseOf(waiters, d)
  OBVIOUS
<1>3. ASSUME NEW d \in Contexts \ {c, x} PROVE SameView(d)
  <2>2. /\ op'[d] = op[d] /\ at'[d] = at[d] /\ report'[d] = report[d]
        /\ state'[d] = state[d] /\ framesParked'[d] = framesParked[d]
        /\ queued'[d] = queued[d] /\ rethrow'[d] = rethrow[d]
    BY OthersSee
  <2> QED
    BY <1>0, <1>2, <2>2 DEF SameView
<1>4. CallInv(c)' /\ ParkInv(c)'
  <2>1. ~Coming(wakes, c)
    BY <1>1, Caller
  <2>2. /\ PhaseOf(waiters', c) = PhaseOf(waiters, c)
        /\ PhaseOf(pending', c) = PhaseOf(pending, c) /\ ~Coming(wakes', c)
    BY <1>0, <1>2, <2>1
  <2> QED
    BY <2>2, CallerServes
<1>5. CallInv(x)' /\ ParkInv(x)'
  <2>1. op[x] = "send"
    BY <1>0, EntryNoWake DEF LivePhases
  <2>2. /\ op'[x] = op[x] /\ at'[x] = at[x] /\ report'[x] = report[x]
        /\ state'[x] = state[x] /\ framesParked'[x] = framesParked[x]
        /\ queued'[x] = queued[x] /\ rethrow'[x] = rethrow[x]
    BY <1>0, OthersSee
  <2>4. wakes'[x] = wakes[x]
    BY <1>0
  <2> QED
    BY <1>0, <1>2, <2>1, <2>2, <2>4, ServedSend
<1> QED
  BY <1>3, <1>4, <1>5

(* send, one lemma for each way it may go *)
LEMMA SendRefused ==
    ASSUME ChannelInv, NEW c \in Contexts, at[c] = "run",
           op' = [op EXCEPT ![c] = "send"], Decide(c, "closed", <<>>),
           UNCHANGED slotVars, UNCHANGED <<cell, rethrow, parkVars>>
    PROVE  ChannelInv' /\ \A d \in Contexts \ {c} : SameView(d)
<1>0. /\ wakes \in [Contexts -> Seq(Wakes)] /\ wakes[c] = <<>> /\ ~Coming(wakes, c)
      /\ PhaseOf(waiters, c) = "absent" /\ PhaseOf(pending, c) = "absent"
  BY Facts, Caller
<1>1. /\ UNCHANGED wakes /\ report' = [report EXCEPT ![c] = "closed"]
      /\ at' = [at EXCEPT ![c] = "return"]
  BY <1>0 DEF Decide
<1>2. ChannelTypeOK' /\ "closed" \in Reports \ {"none"}
  BY <1>1 DEF ChannelInv, ChannelTypeOK, slotVars, parkVars, Reports
<1>3. \A d \in Contexts \ {c} : SameView(d)
  BY <1>1, Facts, SlotSeen DEF SameView, parkVars
<1>4. CallInv(c)' /\ ParkInv(c)'
  <2>1. /\ op'[c] = "send" /\ report'[c] = "closed" /\ at'[c] = "return"
        /\ wakes'[c] = <<>> /\ ~Coming(wakes', c)
        /\ PhaseOf(waiters', c) = "absent" /\ PhaseOf(pending', c) = "absent"
    BY <1>0, <1>1, Facts, SlotSeen
  <2> QED
    BY <1>2, <2>1, CallerDecides DEF parkVars
<1> QED
  BY <1>1, <1>2, <1>3, <1>4, OwnStep

LEMMA SendHandsOver ==
    ASSUME ChannelInv, NEW c \in Contexts, NEW val \in Values, CallOnly(c, "send"),
           ~closed, LiveAt(waiters) # {}, NEW i, i = FirstLive(waiters),
           cell' = Deposit(waiters[i].ctx, val), waiters' = Served(waiters, i),
           Decide(c, "sent", WakeOf(waiters, i)), UNCHANGED <<buffered, pending, closed>>
    PROVE  /\ ChannelInv' /\ Serves(c, waiters[i].ctx, waiters, waiters', wakes')
           /\ \A d \in Contexts \ {c, waiters[i].ctx} : SameView(d)
<1> DEFINE x == waiters[i].ctx
<1>0. /\ Table(waiters, Waiter) /\ Table(pending, PendingSend)
      /\ cell \in [Contexts -> Values \cup {NoValue}]
      /\ at[c] = "run" /\ op' = [op EXCEPT ![c] = "send"]
      /\ UNCHANGED <<capacity, rethrow, state, framesParked, queued>>
  BY Facts DEF CallOnly
<1>1. /\ Gets(wakes, wakes', c, WakeOf(waiters, i))
      /\ report' = [report EXCEPT ![c] = "sent"]
      /\ at' = [at EXCEPT ![c] = IF WakeOf(waiters, i) = <<>> THEN "return" ELSE "wake"]
  BY DEF Decide, Gets
<1>2. /\ Table(Served(waiters, i), Waiter)
      /\ Serves(c, waiters[i].ctx, waiters, Served(waiters, i), wakes')
      /\ wakes'[c] = WakeOf(waiters, i)
  BY <1>0, <1>1, Delivery
<1>3. /\ Table(waiters', Waiter) /\ Serves(c, x, waiters, waiters', wakes')
      /\ cell' = [cell EXCEPT ![x] = val] /\ Decided(c, "sent")
  BY <1>1, <1>2 DEF Deposit, Decided
<1> HIDE DEF x
<1>4. /\ x \in Contexts /\ PhaseOf(waiters, x) \in LivePhases
      /\ wakes' \in [Contexts -> Seq(Wakes)] /\ WakesOnce(wakes')
  BY <1>3 DEF Serves
<1>5. ChannelTypeOK'
  <2>1. cell' \in [Contexts -> Values \cup {NoValue}] /\ waiters' \in Seq(Waiter)
    BY <1>0, <1>3 DEF Table
  <2> QED
    BY <1>0, <1>1, <1>4, <2>1 DEF ChannelInv, ChannelTypeOK, Reports
<1>6. WaitersFaceAnEmptyBuffer'
  <2>1. /\ buffered = <<>> /\ ~closed /\ LiveAt(pending) = {}
        /\ capacity > 0 => Len(buffered) <= capacity
    BY DEF ChannelInv, WaitersFaceAnEmptyBuffer
  <2> QED
    BY <1>0, <2>1 DEF WaitersFaceAnEmptyBuffer
<1>7. "sent" \in Reports \ {"none"}
  BY DEF Reports
<1>8. /\ \A d \in Contexts \ {c, x} : SameView(d)
      /\ \A d \in Contexts \cap {c, x} : CallInv(d)' /\ ParkInv(d)'
  BY <1>3, <1>7, ReceiverServed
<1>9. Table(pending', PendingSend)
  BY <1>0
<1>10. ChannelInv'
  BY <1>3, <1>4, <1>5, <1>6, <1>8, <1>9, SlotStep
<1> QED
  BY <1>3, <1>8, <1>10 DEF x

LEMMA SendWaits ==
    ASSUME ChannelInv, NEW c \in Contexts, NEW val \in Values, CallOnly(c, "send"),
           ~closed, LiveAt(waiters) = {}, IsFull,
           pending' = Append(pending, [ctx |-> c, value |-> val, phase |-> "Pending"]),
           GoPark(c), UNCHANGED <<buffered, waiters, closed, cell>>
    PROVE  ChannelInv' /\ \A d \in Contexts \ {c} : SameView(d)
<1> DEFINE e == [ctx |-> c, value |-> val, phase |-> "Pending"]
<1>0. /\ Table(waiters, Waiter) /\ Table(pending, PendingSend)
      /\ at[c] = "run" /\ op' = [op EXCEPT ![c] = "send"]
      /\ at' = [at EXCEPT ![c] = "migrate"]
      /\ UNCHANGED <<capacity, rethrow, state, framesParked, queued, report, wakes>>
  BY Facts DEF CallOnly, GoPark
<1>1. e \in PendingSend /\ e.ctx = c /\ e.phase = "Pending" /\ ~Has(pending, c)
      /\ PhaseOf(waiters, c) = "absent"
  BY <1>0, Caller DEF PendingSend, Phases
<1>2. pending' = Append(pending, e)
  OBVIOUS
<1> HIDE DEF e
<1>3. /\ Table(pending', PendingSend)
      /\ \A d : PhaseOf(pending', d) = IF d = c THEN "Pending" ELSE PhaseOf(pending, d)
  <2>1. /\ Table(Append(pending, e), PendingSend)
        /\ \A d : PhaseOf(Append(pending, e), d) =
                     IF d = e.ctx THEN e.phase ELSE PhaseOf(pending, d)
    BY <1>0, <1>1, Appended
  <2> QED
    BY <1>1, <1>2, <2>1
<1>4. ChannelTypeOK'
  BY <1>0, <1>3 DEF ChannelInv, ChannelTypeOK, Table
<1>5. WaitersFaceAnEmptyBuffer'
  <2>1. LiveAt(waiters') = {} /\ IsFull' /\ ~closed'
    BY <1>0 DEF IsFull
  <2>2. capacity > 0 => Len(buffered) <= capacity
    BY DEF ChannelInv, WaitersFaceAnEmptyBuffer
  <2> QED
    BY <1>0, <2>1, <2>2 DEF WaitersFaceAnEmptyBuffer
<1>6. \A d \in Contexts \ {c} : SameView(d)
  BY <1>0, <1>3, Facts DEF SameView
<1>7. CallInv(c)' /\ ParkInv(c)'
  <2>1. /\ op'[c] = "send" /\ at'[c] = "migrate"
        /\ PhaseOf(waiters', c) = "absent" /\ PhaseOf(pending', c) = "Pending"
    BY <1>0, <1>1, <1>3, Facts
  <2> QED
    BY <1>0, <2>1, CallerParks
<1>8. WakesOnce(wakes') /\ Table(waiters', Waiter)
  BY <1>0, Facts
<1>9. \A d \in Contexts \cap {c} : CallInv(d)' /\ ParkInv(d)'
  BY <1>7
<1> QED
  BY <1>3, <1>4, <1>5, <1>6, <1>8, <1>9, SlotStep

LEMMA SendBuffers ==
    ASSUME ChannelInv, NEW c \in Contexts, NEW val \in Values, CallOnly(c, "send"),
           ~closed, LiveAt(waiters) = {}, ~IsFull, buffered' = Append(buffered, val),
           Decide(c, "sent", <<>>), UNCHANGED <<waiters, pending, closed, cell>>
    PROVE  ChannelInv' /\ \A d \in Contexts \ {c} : SameView(d)
<1>0. /\ Table(waiters, Waiter) /\ Table(pending, PendingSend)
      /\ buffered \in Seq(Values) /\ capacity \in Nat
      /\ wakes \in [Contexts -> Seq(Wakes)] /\ wakes[c] = <<>>
      /\ at[c] = "run" /\ op' = [op EXCEPT ![c] = "send"]
      /\ UNCHANGED <<capacity, rethrow, state, framesParked, queued>>
  BY Facts, Caller DEF CallOnly
<1>1. /\ UNCHANGED wakes /\ report' = [report EXCEPT ![c] = "sent"]
      /\ at' = [at EXCEPT ![c] = "return"]
  BY <1>0 DEF Decide
<1>2. buffered' \in Seq(Values) /\ Len(buffered') = Len(buffered) + 1 /\ Len(buffered) \in Nat
  BY <1>0
<1>3. ChannelTypeOK'
  BY <1>0, <1>1, <1>2 DEF ChannelInv, ChannelTypeOK, Reports
<1>4. WaitersFaceAnEmptyBuffer'
  <2>1. LiveAt(pending) = {}
    BY DEF ChannelInv, WaitersFaceAnEmptyBuffer
  <2>2. capacity' > 0 => Len(buffered') <= capacity'
    BY <1>0, <1>2 DEF IsFull
  <2> QED
    BY <2>1, <2>2 DEF WaitersFaceAnEmptyBuffer
<1>5. \A d \in Contexts \ {c} : SameView(d)
  BY <1>0, <1>1, Facts DEF SameView
<1>6. CallInv(c)' /\ ParkInv(c)'
  <2>1. /\ op'[c] = "send" /\ report'[c] = "sent" /\ at'[c] = "return"
        /\ PhaseOf(waiters', c) = "absent" /\ PhaseOf(pending', c) = "absent"
        /\ ~Coming(wakes', c) /\ wakes'[c] = <<>>
    BY <1>0, <1>1, Facts, Caller
  <2>2. "sent" \in Reports \ {"none"}
    BY DEF Reports
  <2> QED
    BY <1>0, <2>1, <2>2, CallerDecides
<1>7. WakesOnce(wakes') /\ Table(waiters', Waiter) /\ Table(pending', PendingSend)
  BY <1>0, <1>1, Facts
<1>8. \A d \in Contexts \cap {c} : CallInv(d)' /\ ParkInv(d)'
  BY <1>6
<1> QED
  BY <1>3, <1>4, <1>5, <1>7, <1>8, SlotStep


LEMMA SendStep ==
    ASSUME ChannelInv, NEW c \in Contexts, NEW v \in Values, Send(c, v)
    PROVE  ChannelInv'
<1>1. CallOnly(c, "send") /\ at[c] = "run" /\ op' = [op EXCEPT ![c] = "send"]
      /\ UNCHANGED <<capacity, closed, rethrow, parkVars>>
  BY DEF Send, Calls, CallOnly, parkVars
<1>2. CASE closed /\ Decide(c, "closed", <<>>) /\ UNCHANGED <<buffered, waiters, pending, cell>>
  <2>1. UNCHANGED slotVars /\ UNCHANGED <<cell, rethrow, parkVars>>
    BY <1>1, <1>2 DEF slotVars
  <2> QED
    BY <1>1, <1>2, <2>1, SendRefused
<1>3. CASE /\ ~closed /\ LiveAt(waiters) # {}
           /\ cell' = Deposit(waiters[FirstLive(waiters)].ctx, v)
           /\ waiters' = Served(waiters, FirstLive(waiters))
           /\ Decide(c, "sent", WakeOf(waiters, FirstLive(waiters)))
           /\ UNCHANGED <<buffered, pending>>
  <2>1. UNCHANGED <<buffered, pending, closed>>
    BY <1>1, <1>3
  <2> QED
    BY <1>1, <1>3, <2>1, SendHandsOver
<1>4. CASE /\ ~closed /\ LiveAt(waiters) = {} /\ IsFull
           /\ pending' = Append(pending, [ctx |-> c, value |-> v, phase |-> "Pending"])
           /\ GoPark(c) /\ UNCHANGED <<buffered, waiters, cell>>
  <2>1. UNCHANGED <<buffered, waiters, closed, cell>>
    BY <1>1, <1>4
  <2> QED
    BY <1>1, <1>4, <2>1, SendWaits
<1>5. CASE /\ ~closed /\ LiveAt(waiters) = {} /\ ~IsFull
           /\ buffered' = Append(buffered, v) /\ Decide(c, "sent", <<>>)
           /\ UNCHANGED <<waiters, pending, cell>>
  <2>1. UNCHANGED <<waiters, pending, closed, cell>>
    BY <1>1, <1>5
  <2> QED
    BY <1>1, <1>5, <2>1, SendBuffers
<1> QED
  BY <1>2, <1>3, <1>4, <1>5 DEF Send

(* recv, one lemma for each way it may go *)
LEMMA RecvRefused ==
    ASSUME ChannelInv, NEW c \in Contexts, at[c] = "run",
           op' = [op EXCEPT ![c] = "recv"], Decide(c, "closed", <<>>),
           UNCHANGED slotVars, UNCHANGED <<cell, rethrow, parkVars>>
    PROVE  ChannelInv' /\ \A d \in Contexts \ {c} : SameView(d)
<1>0. /\ wakes \in [Contexts -> Seq(Wakes)] /\ wakes[c] = <<>> /\ ~Coming(wakes, c)
      /\ PhaseOf(waiters, c) = "absent" /\ PhaseOf(pending, c) = "absent"
  BY Facts, Caller
<1>1. /\ UNCHANGED wakes /\ report' = [report EXCEPT ![c] = "closed"]
      /\ at' = [at EXCEPT ![c] = "return"]
  BY <1>0 DEF Decide
<1>2. ChannelTypeOK' /\ "closed" \in Reports \ {"none"}
  BY <1>1 DEF ChannelInv, ChannelTypeOK, slotVars, parkVars, Reports
<1>3. \A d \in Contexts \ {c} : SameView(d)
  BY <1>1, Facts, SlotSeen DEF SameView, parkVars
<1>4. CallInv(c)' /\ ParkInv(c)'
  <2>1. /\ op'[c] = "recv" /\ report'[c] = "closed" /\ at'[c] = "return"
        /\ wakes'[c] = <<>> /\ ~Coming(wakes', c)
        /\ PhaseOf(waiters', c) = "absent" /\ PhaseOf(pending', c) = "absent"
    BY <1>0, <1>1, Facts, SlotSeen
  <2> QED
    BY <1>2, <2>1, CallerDecides DEF parkVars
<1> QED
  BY <1>1, <1>2, <1>3, <1>4, OwnStep

LEMMA RecvWaits ==
    ASSUME ChannelInv, NEW c \in Contexts, CallOnly(c, "recv"),
           ~closed, buffered = <<>>,
           waiters' = Append(waiters, [ctx |-> c, phase |-> "Pending"]),
           cell' = [cell EXCEPT ![c] = NoValue],
           GoPark(c), UNCHANGED <<buffered, pending, closed>>
    PROVE  ChannelInv' /\ \A d \in Contexts \ {c} : SameView(d)
<1> DEFINE e == [ctx |-> c, phase |-> "Pending"]
<1>0. /\ Table(waiters, Waiter) /\ Table(pending, PendingSend)
      /\ at[c] = "run" /\ op' = [op EXCEPT ![c] = "recv"]
      /\ at' = [at EXCEPT ![c] = "migrate"]
      /\ UNCHANGED <<capacity, rethrow, state, framesParked, queued, report, wakes>>
      /\ capacity \in Nat
  BY Facts DEF CallOnly, GoPark
<1>1. e \in Waiter /\ e.ctx = c /\ e.phase = "Pending" /\ ~Has(waiters, c)
      /\ PhaseOf(pending, c) = "absent"
  BY <1>0, Caller DEF Waiter, Phases
<1>2. waiters' = Append(waiters, e)
  OBVIOUS
<1> HIDE DEF e
<1>3. /\ Table(waiters', Waiter)
      /\ \A d : PhaseOf(waiters', d) = IF d = c THEN "Pending" ELSE PhaseOf(waiters, d)
  <2>1. /\ Table(Append(waiters, e), Waiter)
        /\ \A d : PhaseOf(Append(waiters, e), d) =
                     IF d = e.ctx THEN e.phase ELSE PhaseOf(waiters, d)
    BY <1>0, <1>1, Appended
  <2> QED
    BY <1>1, <1>2, <2>1
<1>4. ChannelTypeOK'
  <2>1. cell' \in [Contexts -> Values \cup {NoValue}]
    BY Facts
  <2> QED
    BY <1>0, <1>3, <2>1 DEF ChannelInv, ChannelTypeOK, Table
<1>5. WaitersFaceAnEmptyBuffer'
  <2>1. ~IsFull /\ Len(buffered) = 0
    BY <1>0 DEF IsFull
  <2>2. LiveAt(pending) = {}
    BY <2>1 DEF ChannelInv, WaitersFaceAnEmptyBuffer
  <2> QED
    BY <1>0, <2>1, <2>2 DEF WaitersFaceAnEmptyBuffer
<1>6. \A d \in Contexts \ {c} : SameView(d)
  BY <1>0, <1>3, Facts DEF SameView
<1>7. CallInv(c)' /\ ParkInv(c)'
  <2>1. /\ op'[c] = "recv" /\ at'[c] = "migrate"
        /\ PhaseOf(pending', c) = "absent" /\ PhaseOf(waiters', c) = "Pending"
    BY <1>0, <1>1, <1>3, Facts
  <2> QED
    BY <1>0, <2>1, CallerParks
<1>8. WakesOnce(wakes') /\ Table(pending', PendingSend)
  BY <1>0, Facts
<1>9. \A d \in Contexts \cap {c} : CallInv(d)' /\ ParkInv(d)'
  BY <1>7
<1> QED
  BY <1>3, <1>4, <1>5, <1>6, <1>8, <1>9, SlotStep

(* A value is taken, and nobody was waiting to send. *)
LEMMA RecvTakes ==
    ASSUME ChannelInv, NEW c \in Contexts, CallOnly(c, "recv"),
           buffered # <<>>, cell' = [cell EXCEPT ![c] = Head(buffered)],
           LiveAt(pending) = {}, buffered' = Tail(buffered),
           Decide(c, Head(buffered), <<>>), UNCHANGED <<waiters, pending, closed>>
    PROVE  ChannelInv' /\ \A d \in Contexts \ {c} : SameView(d)
<1>0. /\ Table(waiters, Waiter) /\ Table(pending, PendingSend)
      /\ buffered \in Seq(Values) /\ capacity \in Nat
      /\ cell \in [Contexts -> Values \cup {NoValue}]
      /\ wakes \in [Contexts -> Seq(Wakes)] /\ wakes[c] = <<>> /\ WakesOnce(wakes)
      /\ at[c] = "run" /\ op' = [op EXCEPT ![c] = "recv"]
      /\ UNCHANGED <<capacity, rethrow, state, framesParked, queued>>
  BY Facts, Caller DEF CallOnly
<1>1. /\ UNCHANGED wakes /\ report' = [report EXCEPT ![c] = Head(buffered)]
      /\ at' = [at EXCEPT ![c] = "return"]
  BY <1>0 DEF Decide
<1>2. /\ buffered' \in Seq(Values) /\ Head(buffered) \in Values
      /\ Len(buffered') = Len(buffered) - 1 /\ Len(buffered) \in Nat
  BY <1>0
<1>3. Head(buffered) \in Reports \ {"none"}
  BY <1>2, ChannelAssumption DEF Reports
<1>4. ChannelTypeOK'
  <2>1. cell' \in [Contexts -> Values \cup {NoValue}]
    BY <1>0, <1>2
  <2> QED
    BY <1>0, <1>1, <1>2, <1>3, <2>1 DEF ChannelInv, ChannelTypeOK
<1>5. WaitersFaceAnEmptyBuffer'
  <2>1. LiveAt(waiters) = {} /\ (capacity > 0 => Len(buffered) <= capacity)
    BY DEF ChannelInv, WaitersFaceAnEmptyBuffer
  <2>2. capacity' > 0 => Len(buffered') <= capacity'
    BY <1>0, <1>2, <2>1
  <2> QED
    BY <2>1, <2>2 DEF WaitersFaceAnEmptyBuffer
<1>6. ASSUME NEW d \in Contexts \ {c} PROVE SameView(d)
  <2>1. cell'[d] = cell[d]
    BY <1>0
  <2> QED
    BY <1>0, <1>1, <2>1, Facts DEF SameView
<1>7. CallInv(c)' /\ ParkInv(c)'
  <2>1. Decided(c, Head(buffered))
    BY <1>0, <1>1 DEF Decided
  <2>2. /\ PhaseOf(waiters', c) = PhaseOf(waiters, c)
        /\ PhaseOf(pending', c) = PhaseOf(pending, c)
    OBVIOUS
  <2>3. ~Coming(wakes', c)
    BY <1>0, <1>1, Caller
  <2> QED
    BY <1>3, <2>1, <2>2, <2>3, CallerServes
<1>8. WakesOnce(wakes') /\ Table(waiters', Waiter) /\ Table(pending', PendingSend)
  BY <1>0, <1>1
<1>9. \A d \in Contexts \cap {c} : CallInv(d)' /\ ParkInv(d)'
  BY <1>7
<1> QED
  BY <1>4, <1>5, <1>6, <1>8, <1>9, SlotStep

(* A value is taken, and the freed place goes to the first sender. *)
LEMMA RecvStages ==
    ASSUME ChannelInv, NEW c \in Contexts, CallOnly(c, "recv"),
           buffered # <<>>, cell' = [cell EXCEPT ![c] = Head(buffered)],
           LiveAt(pending) # {}, NEW i, i = FirstLive(pending),
           pending' = Served(pending, i),
           buffered' = Append(Tail(buffered), pending[i].value),
           Decide(c, Head(buffered), WakeOf(pending, i)), UNCHANGED <<waiters, closed>>
    PROVE  /\ ChannelInv' /\ Serves(c, pending[i].ctx, pending, pending', wakes')
           /\ \A d \in Contexts \ {c, pending[i].ctx} : SameView(d)
<1> DEFINE x == pending[i].ctx
<1>0. /\ Table(waiters, Waiter) /\ Table(pending, PendingSend)
      /\ buffered \in Seq(Values) /\ capacity \in Nat
      /\ cell \in [Contexts -> Values \cup {NoValue}]
      /\ at[c] = "run" /\ op' = [op EXCEPT ![c] = "recv"]
      /\ UNCHANGED <<capacity, rethrow, state, framesParked, queued>>
  BY Facts DEF CallOnly
<1>1. /\ Gets(wakes, wakes', c, WakeOf(pending, i))
      /\ report' = [report EXCEPT ![c] = Head(buffered)]
      /\ at' = [at EXCEPT ![c] = IF WakeOf(pending, i) = <<>> THEN "return" ELSE "wake"]
  BY DEF Decide, Gets
<1>2. /\ i \in DOMAIN pending /\ pending[i] \in PendingSend
      /\ Table(Served(pending, i), PendingSend)
      /\ Serves(c, pending[i].ctx, pending, Served(pending, i), wakes')
      /\ wakes'[c] = WakeOf(pending, i)
  BY <1>0, <1>1, Delivery, SMTT(30)
<1>3. /\ Table(pending', PendingSend) /\ Serves(c, x, pending, pending', wakes')
      /\ Decided(c, Head(buffered))
  BY <1>1, <1>2 DEF Decided
<1>4. /\ pending[i].value \in Values
  BY <1>2 DEF PendingSend
<1>5. /\ buffered' \in Seq(Values) /\ Head(buffered) \in Values
      /\ Len(buffered') = Len(buffered)
  <2>1. /\ Tail(buffered) \in Seq(Values) /\ Head(buffered) \in Values
        /\ Len(Tail(buffered)) = Len(buffered) - 1 /\ Len(buffered) \in Nat
    BY <1>0
  <2>2. \A s \in Seq(Values), w \in Values :
           Append(s, w) \in Seq(Values) /\ Len(Append(s, w)) = Len(s) + 1
    OBVIOUS
  <2> QED
    BY <1>4, <2>1, <2>2
<1> HIDE DEF x
<1>6. Head(buffered) \in Reports \ {"none"}
  BY <1>5, ChannelAssumption DEF Reports
<1>7. /\ x \in Contexts
      /\ wakes' \in [Contexts -> Seq(Wakes)] /\ WakesOnce(wakes')
  BY <1>3 DEF Serves
<1>8. ChannelTypeOK'
  <2>1. cell' \in [Contexts -> Values \cup {NoValue}] /\ pending' \in Seq(PendingSend)
    BY <1>0, <1>3, <1>5 DEF Table
  <2> QED
    BY <1>0, <1>1, <1>5, <1>6, <1>7, <2>1 DEF ChannelInv, ChannelTypeOK
<1>9. WaitersFaceAnEmptyBuffer'
  <2>1. /\ LiveAt(waiters) = {} /\ IsFull /\ ~closed
        /\ capacity > 0 => Len(buffered) <= capacity
    BY DEF ChannelInv, WaitersFaceAnEmptyBuffer
  <2>2. LiveAt(waiters') = {} /\ IsFull' /\ ~closed'
        /\ (capacity' > 0 => Len(buffered') <= capacity')
    BY <1>0, <1>5, <2>1 DEF IsFull
  <2> QED
    BY <2>2 DEF WaitersFaceAnEmptyBuffer
<1>10. /\ \A d \in Contexts \ {c, x} : SameView(d)
       /\ \A d \in Contexts \cap {c, x} : CallInv(d)' /\ ParkInv(d)'
  <2>1. \A d \in Contexts \ {c} : cell'[d] = cell[d]
    BY <1>0
  <2> QED
    BY <1>3, <1>6, <2>1, SenderServed
<1>11. Table(waiters', Waiter)
  BY <1>0
<1>12. ChannelInv'
  BY <1>3, <1>7, <1>8, <1>9, <1>10, <1>11, SlotStep
<1> QED
  BY <1>3, <1>10, <1>12 DEF x

LEMMA RecvStep ==
    ASSUME ChannelInv, NEW c \in Contexts, Recv(c)
    PROVE  ChannelInv'
<1>1. CallOnly(c, "recv") /\ at[c] = "run" /\ op' = [op EXCEPT ![c] = "recv"]
      /\ UNCHANGED <<capacity, closed, rethrow, parkVars>>
  BY DEF Recv, Calls, CallOnly, parkVars
<1>2. CASE /\ buffered # <<>> /\ cell' = Deposit(c, Head(buffered))
           /\ StagePendingSend(Tail(buffered)) /\ Decide(c, Head(buffered), StagedWake)
           /\ UNCHANGED waiters
  <2>1. cell' = [cell EXCEPT ![c] = Head(buffered)]
    BY <1>2 DEF Deposit
  <2>2. CASE LiveAt(pending) = {}
    <3>1. /\ UNCHANGED <<waiters, pending, closed>> /\ buffered' = Tail(buffered)
          /\ Decide(c, Head(buffered), <<>>)
      BY <1>1, <1>2, <2>2 DEF StagePendingSend, StagedWake
    <3> QED
      BY <1>1, <1>2, <2>1, <2>2, <3>1, RecvTakes
  <2>3. CASE LiveAt(pending) # {}
    <3>1. /\ pending' = Served(pending, FirstLive(pending))
          /\ buffered' = Append(Tail(buffered), pending[FirstLive(pending)].value)
          /\ Decide(c, Head(buffered), WakeOf(pending, FirstLive(pending)))
          /\ UNCHANGED <<waiters, closed>>
      BY <1>1, <1>2, <2>3 DEF StagePendingSend, StagedWake
    <3> QED
      BY <1>1, <1>2, <2>1, <2>3, <3>1, RecvStages
  <2> QED
    BY <2>2, <2>3
<1>3. CASE /\ buffered = <<>> /\ closed /\ Decide(c, "closed", <<>>)
           /\ UNCHANGED <<buffered, waiters, pending, cell>>
  <2>1. UNCHANGED slotVars /\ UNCHANGED <<cell, rethrow, parkVars>>
    BY <1>1, <1>3 DEF slotVars
  <2> QED
    BY <1>1, <1>3, <2>1, RecvRefused
<1>4. CASE /\ buffered = <<>> /\ ~closed
           /\ waiters' = Append(waiters, [ctx |-> c, phase |-> "Pending"])
           /\ cell' = [cell EXCEPT ![c] = NoValue]
           /\ GoPark(c) /\ UNCHANGED <<buffered, pending>>
  <2>1. UNCHANGED <<buffered, pending, closed>>
    BY <1>1, <1>4
  <2> QED
    BY <1>1, <1>4, <2>1, RecvWaits
<1> QED
  BY <1>2, <1>3, <1>4 DEF Recv

(* A context changes its own entry, and who waits stays the same. *)
LEMMA TableStep ==
    ASSUME ChannelInv, NEW c \in Contexts, ChannelTypeOK',
           UNCHANGED <<capacity, buffered, closed, wakes>>,
           Table(waiters', Waiter), Table(pending', PendingSend),
           \A d \in Contexts : PhaseOf(waiters', d) \in LivePhases
                                 <=> PhaseOf(waiters, d) \in LivePhases,
           \A d \in Contexts : PhaseOf(pending', d) \in LivePhases
                                 <=> PhaseOf(pending, d) \in LivePhases,
           \A d \in Contexts \ {c} : SameView(d),
           CallInv(c)', ParkInv(c)'
    PROVE  ChannelInv'
<1>1. Table(waiters, Waiter) /\ Table(pending, PendingSend) /\ WaitersFaceAnEmptyBuffer
      /\ WakesOnce(wakes)
  BY Facts DEF ChannelInv
<1>2. /\ LiveAt(waiters) # {} <=> LiveAt(waiters') # {}
      /\ LiveAt(pending) # {} <=> LiveAt(pending') # {}
  <2>1. /\ LiveAt(waiters) # {} <=> \E d \in Contexts : PhaseOf(waiters, d) \in LivePhases
        /\ LiveAt(pending) # {} <=> \E d \in Contexts : PhaseOf(pending, d) \in LivePhases
    BY <1>1, PhaseType
  <2>2. LiveAt(waiters') # {} <=> \E d \in Contexts : PhaseOf(waiters', d) \in LivePhases
    BY PhaseType
  <2>3. LiveAt(pending') # {} <=> \E d \in Contexts : PhaseOf(pending', d) \in LivePhases
    BY PhaseType
  <2> QED
    BY <2>1, <2>2, <2>3
<1>3. WaitersFaceAnEmptyBuffer'
  BY <1>1, <1>2 DEF WaitersFaceAnEmptyBuffer, IsFull
<1>4. \A d \in Contexts \cap {c} : CallInv(d)' /\ ParkInv(d)'
  OBVIOUS
<1>5. WakesOnce(wakes')
  BY <1>1
<1> QED
  BY <1>3, <1>4, <1>5, SlotStep

LEMMA RecheckRecvStep ==
    ASSUME ChannelInv, NEW c \in Contexts, RecheckRecv(c)
    PROVE  ChannelInv' /\ \A d \in Contexts \ {c} : SameView(d)
<1> DEFINE i == OwnAt(waiters, c)
           r == IF waiters[i].phase = "Closed" THEN "closed" ELSE cell[c]
<1>0. /\ at[c] = "recheck" /\ op[c] = "recv"
      /\ UNCHANGED <<capacity, buffered, closed, pending, cell, rethrow, op, wakes>>
      /\ UNCHANGED <<state, framesParked, queued>>
      /\ Table(waiters, Waiter) /\ Table(pending, PendingSend) /\ CallInv(c) /\ ParkInv(c)
      /\ WakesOnce(wakes)
  BY Facts DEF RecheckRecv, parkVars
<1>1. /\ PhaseOf(waiters, c) \in {"Pending", "Value", "Closed"}
      /\ PhaseOf(waiters, c) = "Value" /\ op[c] = "recv" => cell[c] \in Values
      /\ PhaseOf(pending, c) = "absent"
      /\ ~Coming(wakes, c) /\ state[c] # "Runnable" /\ ~framesParked[c] /\ queued[c] = 0
      /\ ~rethrow[c] /\ wakes[c] = <<>> /\ report[c] = "none"
  <2>1. Entry(c) = PhaseOf(waiters, c)
    BY <1>0 DEF Entry
  <2>2. PhaseOf(waiters, c) \in {"Pending", "Value", "Closed"}
    BY <1>0, <2>1 DEF CallInv
  <2>3. PhaseOf(waiters, c) = "Value" /\ op[c] = "recv" => cell[c] \in Values
    BY <1>0, <2>1 DEF CallInv
  <2>4. PhaseOf(pending, c) = "absent" /\ wakes[c] = <<>> /\ report[c] = "none"
    BY <1>0 DEF CallInv
  <2>5. ~Coming(wakes, c) /\ state[c] # "Runnable" /\ ~framesParked[c] /\ queued[c] = 0
        /\ ~rethrow[c]
    BY <1>0 DEF ParkInv
  <2> QED
    BY <2>2, <2>3, <2>4, <2>5
<1>2. i \in DOMAIN waiters /\ waiters[i].ctx = c /\ waiters[i].phase = PhaseOf(waiters, c)
  BY <1>0, <1>1, Own, PhaseType DEF Table
<1> HIDE DEF i
<1>3. \A d : PhaseOf(pending', d) = PhaseOf(pending, d)
  BY <1>0
<1>4. CASE /\ StillPending(waiters[i]) /\ waiters' = Stamp(waiters, i, "Committed")
           /\ at' = [at EXCEPT ![c] = "unwind"] /\ UNCHANGED report
  <2>1. "Committed" \in Phases
    BY DEF Phases
  <2>2. /\ Table(Stamp(waiters, i, "Committed"), Waiter)
        /\ \A d : PhaseOf(Stamp(waiters, i, "Committed"), d) =
                     IF d = waiters[i].ctx THEN "Committed" ELSE PhaseOf(waiters, d)
    BY <1>0, <1>2, <2>1, Stamped
  <2>3. /\ Table(waiters', Waiter) /\ PhaseOf(waiters', c) = "Committed"
        /\ \A d : d # c => PhaseOf(waiters', d) = PhaseOf(waiters, d)
    BY <1>2, <1>4, <2>2
  <2>4. PhaseOf(waiters, c) = "Pending"
    BY <1>2, <1>4 DEF StillPending
  <2>5. \A d \in Contexts : PhaseOf(waiters', d) \in LivePhases
                               <=> PhaseOf(waiters, d) \in LivePhases
    BY <2>3, <2>4 DEF LivePhases
  <2>6. ChannelTypeOK'
    BY <1>0, <1>4, <2>3 DEF ChannelInv, ChannelTypeOK, Table
  <2>7. CallInv(c)' /\ ParkInv(c)'
    <3>1. Entry(c)' = "Committed" /\ at'[c] = "unwind"
      BY <1>0, <1>4, <2>3, Facts DEF Entry
    <3>2. CallInv(c)'
      BY <1>0, <1>1, <1>3, <1>4, <2>3, <3>1 DEF CallInv
    <3>3. ParkInv(c)'
      BY <1>0, <1>1, <1>4, <3>1 DEF ParkInv
    <3> QED
      BY <3>2, <3>3
  <2>8. \A d \in Contexts \ {c} : SameView(d)
    BY <1>0, <1>3, <1>4, <2>3, Facts DEF SameView
  <2> QED
    BY <1>0, <1>3, <2>3, <2>5, <2>6, <2>7, <2>8, TableStep
<1>5. CASE /\ ~StillPending(waiters[i]) /\ waiters' = Drop(waiters, i)
           /\ report' = [report EXCEPT ![c] = r]
           /\ at' = [at EXCEPT ![c] = "abort"]
  <2>2. /\ Table(Drop(waiters, i), Waiter)
        /\ \A d : PhaseOf(Drop(waiters, i), d) =
                     IF d = waiters[i].ctx THEN "absent" ELSE PhaseOf(waiters, d)
    BY <1>0, <1>2, Dropped
  <2>3. /\ Table(waiters', Waiter) /\ PhaseOf(waiters', c) = "absent"
        /\ \A d : d # c => PhaseOf(waiters', d) = PhaseOf(waiters, d)
    BY <1>2, <1>5, <2>2
  <2>4. PhaseOf(waiters, c) \in {"Value", "Closed"}
    BY <1>1, <1>2, <1>5 DEF StillPending
  <2>5. \A d \in Contexts : PhaseOf(waiters', d) \in LivePhases
                               <=> PhaseOf(waiters, d) \in LivePhases
    BY <2>3, <2>4 DEF LivePhases
  <2>6. r \in Reports \ {"none"}
    <3>1. Values \cup {"closed", "sent"} \subseteq Reports \ {"none"}
      BY ChannelAssumption DEF Reports
    <3> QED
      BY <1>0, <1>1, <1>2, <2>4, <3>1
  <2> HIDE DEF r
  <2>7. ChannelTypeOK'
    BY <1>0, <1>5, <2>3, <2>6 DEF ChannelInv, ChannelTypeOK, Table
  <2>8. CallInv(c)' /\ ParkInv(c)'
    <3>1. Entry(c)' = "absent" /\ at'[c] = "abort" /\ report'[c] # "none"
      BY <1>0, <1>5, <2>3, <2>6, Facts DEF Entry
    <3>2. CallInv(c)'
      BY <1>0, <1>1, <1>3, <2>3, <3>1 DEF CallInv
    <3>3. ParkInv(c)'
      BY <1>0, <1>1, <3>1 DEF ParkInv
    <3> QED
      BY <3>2, <3>3
  <2>9. \A d \in Contexts \ {c} : SameView(d)
    BY <1>0, <1>3, <1>5, <2>3, Facts DEF SameView
  <2> QED
    BY <1>0, <1>3, <2>3, <2>5, <2>7, <2>8, <2>9, TableStep
<1> QED
  BY <1>4, <1>5 DEF RecheckRecv, i

LEMMA RecheckSendStep ==
    ASSUME ChannelInv, NEW c \in Contexts, RecheckSend(c)
    PROVE  ChannelInv' /\ \A d \in Contexts \ {c} : SameView(d)
<1> DEFINE i == OwnAt(pending, c)
           r == IF pending[i].phase = "Closed" THEN "closed" ELSE "sent"
<1>0. /\ at[c] = "recheck" /\ op[c] = "send"
      /\ UNCHANGED <<capacity, buffered, closed, waiters, cell, rethrow, op, wakes>>
      /\ UNCHANGED <<state, framesParked, queued>>
      /\ Table(pending, PendingSend) /\ Table(waiters, Waiter) /\ CallInv(c) /\ ParkInv(c)
      /\ WakesOnce(wakes)
  BY Facts DEF RecheckSend, parkVars
<1>1. /\ PhaseOf(pending, c) \in {"Pending", "Value", "Closed"}
      /\ PhaseOf(pending, c) = "Value" /\ op[c] = "recv" => cell[c] \in Values
      /\ PhaseOf(waiters, c) = "absent"
      /\ ~Coming(wakes, c) /\ state[c] # "Runnable" /\ ~framesParked[c] /\ queued[c] = 0
      /\ ~rethrow[c] /\ wakes[c] = <<>> /\ report[c] = "none"
  <2>1. Entry(c) = PhaseOf(pending, c)
    BY <1>0 DEF Entry
  <2>2. PhaseOf(pending, c) \in {"Pending", "Value", "Closed"}
    BY <1>0, <2>1 DEF CallInv
  <2>3. PhaseOf(pending, c) = "Value" /\ op[c] = "recv" => cell[c] \in Values
    BY <1>0, <2>1 DEF CallInv
  <2>4. PhaseOf(waiters, c) = "absent" /\ wakes[c] = <<>> /\ report[c] = "none"
    BY <1>0 DEF CallInv
  <2>5. ~Coming(wakes, c) /\ state[c] # "Runnable" /\ ~framesParked[c] /\ queued[c] = 0
        /\ ~rethrow[c]
    BY <1>0 DEF ParkInv
  <2> QED
    BY <2>2, <2>3, <2>4, <2>5
<1>2. i \in DOMAIN pending /\ pending[i].ctx = c /\ pending[i].phase = PhaseOf(pending, c)
  BY <1>0, <1>1, Own, PhaseType DEF Table
<1> HIDE DEF i
<1>3. \A d : PhaseOf(waiters', d) = PhaseOf(waiters, d)
  BY <1>0
<1>4. CASE /\ StillPending(pending[i]) /\ pending' = Stamp(pending, i, "Committed")
           /\ at' = [at EXCEPT ![c] = "unwind"] /\ UNCHANGED report
  <2>1. "Committed" \in Phases
    BY DEF Phases
  <2>2. /\ Table(Stamp(pending, i, "Committed"), PendingSend)
        /\ \A d : PhaseOf(Stamp(pending, i, "Committed"), d) =
                     IF d = pending[i].ctx THEN "Committed" ELSE PhaseOf(pending, d)
    BY <1>0, <1>2, <2>1, Stamped
  <2>3. /\ Table(pending', PendingSend) /\ PhaseOf(pending', c) = "Committed"
        /\ \A d : d # c => PhaseOf(pending', d) = PhaseOf(pending, d)
    BY <1>2, <1>4, <2>2
  <2>4. PhaseOf(pending, c) = "Pending"
    BY <1>2, <1>4 DEF StillPending
  <2>5. \A d \in Contexts : PhaseOf(pending', d) \in LivePhases
                               <=> PhaseOf(pending, d) \in LivePhases
    BY <2>3, <2>4 DEF LivePhases
  <2>6. ChannelTypeOK'
    BY <1>0, <1>4, <2>3 DEF ChannelInv, ChannelTypeOK, Table
  <2>7. CallInv(c)' /\ ParkInv(c)'
    <3>1. Entry(c)' = "Committed" /\ at'[c] = "unwind"
      BY <1>0, <1>4, <2>3, Facts DEF Entry
    <3>2. CallInv(c)'
      BY <1>0, <1>1, <1>3, <1>4, <2>3, <3>1 DEF CallInv
    <3>3. ParkInv(c)'
      BY <1>0, <1>1, <1>4, <3>1 DEF ParkInv
    <3> QED
      BY <3>2, <3>3
  <2>8. \A d \in Contexts \ {c} : SameView(d)
    BY <1>0, <1>3, <1>4, <2>3, Facts DEF SameView
  <2> QED
    BY <1>0, <1>3, <2>3, <2>5, <2>6, <2>7, <2>8, TableStep
<1>5. CASE /\ ~StillPending(pending[i]) /\ pending' = Drop(pending, i)
           /\ report' = [report EXCEPT ![c] = r]
           /\ at' = [at EXCEPT ![c] = "abort"]
  <2>2. /\ Table(Drop(pending, i), PendingSend)
        /\ \A d : PhaseOf(Drop(pending, i), d) =
                     IF d = pending[i].ctx THEN "absent" ELSE PhaseOf(pending, d)
    BY <1>0, <1>2, Dropped
  <2>3. /\ Table(pending', PendingSend) /\ PhaseOf(pending', c) = "absent"
        /\ \A d : d # c => PhaseOf(pending', d) = PhaseOf(pending, d)
    BY <1>2, <1>5, <2>2
  <2>4. PhaseOf(pending, c) \in {"Value", "Closed"}
    BY <1>1, <1>2, <1>5 DEF StillPending
  <2>5. \A d \in Contexts : PhaseOf(pending', d) \in LivePhases
                               <=> PhaseOf(pending, d) \in LivePhases
    BY <2>3, <2>4 DEF LivePhases
  <2>6. r \in Reports \ {"none"}
    <3>1. Values \cup {"closed", "sent"} \subseteq Reports \ {"none"}
      BY ChannelAssumption DEF Reports
    <3> QED
      BY <1>0, <1>1, <1>2, <2>4, <3>1
  <2> HIDE DEF r
  <2>7. ChannelTypeOK'
    BY <1>0, <1>5, <2>3, <2>6 DEF ChannelInv, ChannelTypeOK, Table
  <2>8. CallInv(c)' /\ ParkInv(c)'
    <3>1. Entry(c)' = "absent" /\ at'[c] = "abort" /\ report'[c] # "none"
      BY <1>0, <1>5, <2>3, <2>6, Facts DEF Entry
    <3>2. CallInv(c)'
      BY <1>0, <1>1, <1>3, <2>3, <3>1 DEF CallInv
    <3>3. ParkInv(c)'
      BY <1>0, <1>1, <3>1 DEF ParkInv
    <3> QED
      BY <3>2, <3>3
  <2>9. \A d \in Contexts \ {c} : SameView(d)
    BY <1>0, <1>3, <1>5, <2>3, Facts DEF SameView
  <2> QED
    BY <1>0, <1>3, <2>3, <2>5, <2>7, <2>8, <2>9, TableStep
<1> QED
  BY <1>4, <1>5 DEF RecheckSend, i

LEMMA SendWakeStep ==
    ASSUME ChannelInv, NEW c \in Contexts, SendWake(c)
    PROVE  /\ ChannelInv'
           /\ \E x \in Contexts \ {c} :
                 /\ \A d \in Contexts \ {c, x} : SameView(d)
                 /\ Shown(x)' = Shown(x) /\ Shown(c)' = Shown(c)
<1>a. PICK h : h = Head(wakes[c])
  OBVIOUS
<1>b. PICK x : x = h.to
  OBVIOUS
<1>d. PICK exc : exc = h.exc
  OBVIOUS
<1>0. /\ at[c] = "wake" /\ UNCHANGED slotVars /\ UNCHANGED <<cell, op, report>>
      /\ state' = [state EXCEPT ![x] = "Runnable"]
      /\ queued' = [queued EXCEPT ![x] = queued[x] + IF framesParked[x] THEN 1 ELSE 0]
      /\ UNCHANGED framesParked
      /\ rethrow' = [rethrow EXCEPT ![x] = rethrow[x] \/ h.exc]
      /\ Sends(wakes, wakes', c)
      /\ at' = [at EXCEPT ![c] = IF Len(wakes[c]) = 1 THEN "return" ELSE "wake"]
  BY <1>a, <1>b DEF SendWake, WakeUp, Sends
<1>1. /\ wakes \in [Contexts -> Seq(Wakes)] /\ WakesOnce(wakes) /\ CallInv(c) /\ ParkInv(c)
      /\ queued \in [Contexts -> Nat] /\ rethrow \in [Contexts -> BOOLEAN]
      /\ state \in [Contexts -> {"Runnable", "ParkedChanRecv", "ParkedChanSend"}]
      /\ at \in [Contexts -> {"run", "wake", "migrate", "recheck", "abort",
                              "unwind", "parked", "return"}]
      /\ framesParked \in [Contexts -> BOOLEAN]
      /\ Table(waiters, Waiter) /\ Table(pending, PendingSend)
  BY Facts
<1>2. wakes[c] # <<>>
  BY <1>0, <1>1 DEF CallInv
<1>3. /\ h \in Wakes /\ Coming(wakes, x) /\ (Exceptional(wakes, x) <=> h.exc)
      /\ wakes' \in [Contexts -> Seq(Wakes)] /\ WakesOnce(wakes')
      /\ wakes'[c] = <<>> <=> Len(wakes[c]) = 1
      /\ \A d \in Contexts : d # c => wakes'[d] = wakes[d]
      /\ \A d : Coming(wakes', d) <=> Coming(wakes, d) /\ d # x
      /\ \A d : Exceptional(wakes', d) <=> Exceptional(wakes, d) /\ d # x
  <2>1. /\ h \in Wakes /\ Coming(wakes, h.to) /\ (Exceptional(wakes, h.to) <=> h.exc)
        /\ wakes' \in [Contexts -> Seq(Wakes)] /\ WakesOnce(wakes')
        /\ wakes'[c] = <<>> <=> Len(wakes[c]) = 1
        /\ \A d \in Contexts : d # c => wakes'[d] = wakes[d]
        /\ \A d : Coming(wakes', d) <=> Coming(wakes, d) /\ d # h.to
        /\ \A d : Exceptional(wakes', d) <=> Exceptional(wakes, d) /\ d # h.to
    <3>1. Sends(wakes, wakes', c)
      BY <1>0
    <3>2. wakes \in [Contexts -> Seq(Wakes)] /\ WakesOnce(wakes)
      BY <1>1
    <3> QED
      BY ONLY <1>a, <1>2, <3>1, <3>2, WakeSent
  <2> QED
    BY <1>b, <2>1
<1>4. h.exc \in BOOLEAN /\ x \in Contexts
  BY <1>b, <1>3 DEF Wakes
<1>5. /\ rethrow' = [rethrow EXCEPT ![x] = rethrow[x] \/ exc]
      /\ exc \in BOOLEAN /\ (Exceptional(wakes, x) <=> exc)
  BY <1>d, <1>0, <1>3, <1>4
<1>6. CallInv(x) /\ ParkInv(x)
  BY <1>4, Facts
<1>7. at[x] \in {"unwind", "parked"} /\ Entry(x) = "absent" /\ state[x] # "Runnable"
      /\ x # c /\ ~Coming(wakes, c) /\ ~rethrow[x]
  BY <1>0, <1>1, <1>3, <1>6 DEF ParkInv
<1>8. /\ at[x] = "parked" => framesParked[x] /\ queued[x] = 0
      /\ at[x] = "unwind" => ~framesParked[x] /\ queued[x] = 0
  BY <1>6, <1>7 DEF ParkInv
<1>9. /\ at'[x] = at[x] /\ state'[x] = "Runnable" /\ (rethrow'[x] <=> exc)
      /\ at[x] = "parked" => queued'[x] = 1
      /\ at[x] = "unwind" => queued'[x] = 0
  <2>1. at'[x] = at[x]
    BY <1>0, <1>1, <1>4, <1>7
  <2>2. state'[x] = "Runnable"
    BY <1>0, <1>1, <1>4
  <2>3. rethrow'[x] <=> exc
    BY <1>1, <1>4, <1>5, <1>7
  <2>4. queued'[x] = queued[x] + IF framesParked[x] THEN 1 ELSE 0
    BY <1>0, <1>1, <1>4
  <2> QED
    BY <1>8, <2>1, <2>2, <2>3, <2>4
<1>10. \A d : PhaseOf(waiters', d) = PhaseOf(waiters, d)
              /\ PhaseOf(pending', d) = PhaseOf(pending, d)
  BY <1>0 DEF slotVars
<1>11. ChannelTypeOK'
  <2>1. queued' \in [Contexts -> Nat]
    <3>1. queued[x] + (IF framesParked[x] THEN 1 ELSE 0) \in Nat
      BY <1>1, <1>4
    <3> QED
      BY <1>0, <1>1, <3>1
  <2>2. rethrow' \in [Contexts -> BOOLEAN]
    BY <1>1, <1>4, <1>5
  <2>3. state' \in [Contexts -> {"Runnable", "ParkedChanRecv", "ParkedChanSend"}]
    BY <1>0, <1>1
  <2> QED
    BY <1>0, <1>3, <2>1, <2>2, <2>3 DEF ChannelInv, ChannelTypeOK, slotVars
<1>12. WaitersFaceAnEmptyBuffer'
  BY <1>0 DEF ChannelInv, slotVars, WaitersFaceAnEmptyBuffer, IsFull
<1>13. ASSUME NEW d \in Contexts \ {c, x} PROVE SameView(d)
  <2>1. state'[d] = state[d] /\ queued'[d] = queued[d] /\ framesParked'[d] = framesParked[d]
    BY <1>0, <1>1
  <2>2. rethrow'[d] = rethrow[d]
    BY <1>1, <1>5
  <2>3. at'[d] = at[d]
    BY <1>0, <1>1
  <2> QED
    BY <1>0, <1>3, <1>10, <2>1, <2>2, <2>3 DEF SameView
<1>14. CallInv(c)' /\ ParkInv(c)'
  <2>1. at'[c] = IF wakes'[c] = <<>> THEN "return" ELSE "wake"
    BY <1>0, <1>1, <1>3
  <2>2. Entry(c)' = Entry(c)
    BY <1>0, <1>10 DEF Entry
  <2>3. ~Coming(wakes', c)
    BY <1>3, <1>7
  <2>4. CallInv(c)'
    BY <1>0, <1>1, <1>10, <2>1, <2>2 DEF CallInv
  <2>5. state'[c] = state[c] /\ queued'[c] = queued[c] /\ framesParked'[c] = framesParked[c]
    BY <1>0, <1>1, <1>7
  <2>6. rethrow'[c] = rethrow[c]
    BY <1>1, <1>5, <1>7
  <2>7. ParkInv(c)'
    BY <1>0, <1>1, <2>1, <2>2, <2>3, <2>5, <2>6 DEF ParkInv
  <2> QED
    BY <2>4, <2>7
<1>15. CallInv(x)' /\ ParkInv(x)'
  <2>1. Entry(x)' = "absent"
    BY <1>0, <1>7, <1>10 DEF Entry
  <2>2. ~Coming(wakes', x) /\ wakes'[x] = wakes[x]
    BY <1>3, <1>4, <1>7
  <2>3. CallInv(x)'
    BY <1>0, <1>6, <1>7, <1>9, <1>10, <2>1, <2>2 DEF CallInv
  <2>4. framesParked'[x] = framesParked[x]
    BY <1>0
  <2>5. op[x] = "recv" => exc \/ cell[x] \in Values
    BY <1>5, <1>6, <1>7 DEF ParkInv
  <2>6. ParkInv(x)'
    BY <1>0, <1>7, <1>8, <1>9, <2>1, <2>2, <2>4, <2>5 DEF ParkInv
  <2> QED
    BY <2>3, <2>6
<1>16. Table(waiters', Waiter) /\ Table(pending', PendingSend)
  BY <1>0, <1>1 DEF slotVars
<1>17. \A d \in Contexts \cap {c, x} : CallInv(d)' /\ ParkInv(d)'
  BY <1>14, <1>15
<1>18. ChannelInv'
  BY <1>3, <1>11, <1>12, <1>13, <1>16, <1>17, SlotStep
<1>19. Shown(c)' = Shown(c)
  <2>1. report[c] # "none" /\ at'[c] # "run"
    BY <1>0, <1>1 DEF CallInv
  <2> QED
    BY <1>0, <2>1 DEF Shown
<1>20. Shown(x)' = Shown(x)
  <2>1. report[x] = "none" /\ "absent" \notin LivePhases
    BY <1>6, <1>7 DEF CallInv, LivePhases
  <2>2. Entry(x)' = "absent" /\ ~Exceptional(wakes', x)
    BY <1>0, <1>3, <1>7, <1>10 DEF Entry
  <2>3. Shown(x) = IF exc THEN "closed" ELSE IF op[x] = "recv" THEN cell[x] ELSE "sent"
    BY <1>5, <1>7, <2>1 DEF Shown
  <2>4. Shown(x)' = IF exc THEN "closed" ELSE IF op[x] = "recv" THEN cell[x] ELSE "sent"
    BY <1>0, <1>7, <1>9, <2>1, <2>2 DEF Shown
  <2> QED
    BY <2>3, <2>4
<1> QED
  BY <1>4, <1>7, <1>13, <1>18, <1>19, <1>20

(* Two lists of wakes, one after the other. *)
LEMMA WakesJoined ==
    ASSUME NEW a \in Seq(Wakes), NEW b \in Seq(Wakes),
           \A k, l \in DOMAIN a : a[k].to = a[l].to => k = l,
           \A k, l \in DOMAIN b : b[k].to = b[l].to => k = l,
           \A k \in DOMAIN a, l \in DOMAIN b : a[k].to # b[l].to,
           \A k \in DOMAIN a : a[k].exc, \A k \in DOMAIN b : b[k].exc
    PROVE  /\ a \o b \in Seq(Wakes)
           /\ \A k, l \in DOMAIN (a \o b) : (a \o b)[k].to = (a \o b)[l].to => k = l
           /\ \A k \in DOMAIN (a \o b) : (a \o b)[k].exc
           /\ \A d : To(a \o b, d) <=> To(a, d) \/ To(b, d)
<1> DEFINE s == a \o b
           m == Len(a)
           n == Len(b)
<1>1. /\ s \in Seq(Wakes) /\ m \in Nat /\ n \in Nat
      /\ DOMAIN a = 1 .. m /\ DOMAIN b = 1 .. n /\ DOMAIN s = 1 .. m + n
      /\ \A i \in 1 .. m : s[i] = a[i]
      /\ \A i \in 1 .. n : s[m + i] = b[i]
  OBVIOUS
<1> HIDE DEF s, m, n, Wakes
<1>2. ASSUME NEW i \in 1 .. m + n
      PROVE  \/ i \in DOMAIN a /\ s[i] = a[i]
             \/ i - m \in DOMAIN b /\ s[i] = b[i - m]
  <2>1. CASE i \in 1 .. m
    BY <1>1, <2>1
  <2>2. CASE i \notin 1 .. m
    <3>1. i - m \in 1 .. n /\ m + (i - m) = i
      BY <1>1, <2>2
    <3> QED
      BY <1>1, <3>1
  <2> QED
    BY <2>1, <2>2
<1>3. ASSUME NEW i \in 1 .. m + n, NEW j \in 1 .. m + n, s[i].to = s[j].to PROVE i = j
  <2>1. i - m = j - m => i = j
    BY <1>1
  <2> QED
    BY <1>2, <1>3, <2>1
<1>4. \A i \in 1 .. m + n : s[i].exc
  BY <1>2
<1>5. /\ \A i \in 1 .. m : i \in 1 .. m + n
      /\ \A i \in 1 .. n : m + i \in 1 .. m + n
  BY <1>1
<1>6. \A d : To(s, d) <=> To(a, d) \/ To(b, d)
  <2>1. ASSUME NEW d, To(s, d) PROVE To(a, d) \/ To(b, d)
    BY <1>1, <1>2, <2>1 DEF To
  <2>2. ASSUME NEW d, To(a, d) PROVE To(s, d)
    BY <1>1, <1>5, <2>2 DEF To
  <2>3. ASSUME NEW d, To(b, d) PROVE To(s, d)
    <3>1. PICK i \in 1 .. n : b[i].to = d
      BY <1>1, <2>3 DEF To
    <3>2. m + i \in DOMAIN s /\ s[m + i].to = d
      BY <1>1, <1>5, <3>1
    <3> QED
      BY <3>2 DEF To
  <2> QED
    BY <2>1, <2>2, <2>3
<1> QED
  BY <1>1, <1>3, <1>4, <1>6 DEF s

-----------------------------------------------------------------------------
(***************************************************************************)
(* close.  When somebody waits in recv the buffer is empty, so the sweep   *)
(* drains nothing: every waiting caller is told that the channel closed.   *)
(***************************************************************************)
LEMMA NothingDrains ==
    ASSUME ChannelInv
    PROVE  \A i \in DOMAIN waiters : Drains(i) = FALSE
<1> SUFFICES ASSUME NEW i \in DOMAIN waiters, Drains(i)
             PROVE  FALSE
  BY DEF Drains
<1>1. waiters \in Seq(Waiter) /\ buffered \in Seq(Values)
  BY Facts DEF Table
<1>2. LiveAt(waiters) \in SUBSET Nat /\ IsFiniteSet(LiveAt(waiters))
  BY <1>1, Indices
<1>3. i \in LiveAt(waiters) /\ LiveBefore(i) < Len(buffered)
  BY DEF Drains, LiveAt
<1>4. buffered = <<>>
  BY <1>3 DEF ChannelInv, WaitersFaceAnEmptyBuffer
<1>5. LiveBefore(i) \in Nat
  <2> DEFINE B == {j \in LiveAt(waiters) : j < i}
  <2>1. IsFiniteSet(B)
    BY <1>2, FS_Subset
  <2>2. Cardinality(B) \in Nat
    BY <2>1, FS_CardinalityType
  <2> QED
    BY <2>2 DEF LiveBefore
<1> QED
  BY <1>3, <1>4, <1>5

(* What the sweep makes of a phase. *)
SweptPhase(p) == IF p = "Committed" THEN "absent" ELSE IF p = "Pending" THEN "Closed" ELSE p

LEMMA SweptTable ==
    ASSUME NEW S, NEW q, Table(q, S), NEW t \in [DOMAIN q -> S],
           \A i \in DOMAIN q : t[i].ctx = q[i].ctx,
           \A i \in DOMAIN q :
              t[i].phase = IF q[i].phase = "Pending" THEN "Closed" ELSE q[i].phase,
           NEW r, SweepOf(r, t, q)
    PROVE  Table(r, S) /\ \A d : PhaseOf(r, d) = SweptPhase(PhaseOf(q, d))
<1>1. /\ Table(r, S)
      /\ \A d : PhaseOf(q, d) \in {"Committed", "absent"} => PhaseOf(r, d) = "absent"
      /\ \A d : PhaseOf(q, d) \notin {"Committed", "absent"} =>
                   OwnAt(q, d) \in DOMAIN q /\ q[OwnAt(q, d)].ctx = d
                   /\ PhaseOf(q, d) = q[OwnAt(q, d)].phase
                   /\ PhaseOf(r, d) = t[OwnAt(q, d)].phase
  BY Swept
<1>2. ASSUME NEW d PROVE PhaseOf(r, d) = SweptPhase(PhaseOf(q, d))
  <2>1. CASE PhaseOf(q, d) \in {"Committed", "absent"}
    <3>1. PhaseOf(r, d) = "absent"
      BY <1>1, <2>1
    <3>2. SweptPhase("absent") = "absent" /\ SweptPhase("Committed") = "absent"
      BY DEF SweptPhase
    <3> QED
      BY <2>1, <3>1, <3>2
  <2>2. CASE PhaseOf(q, d) \notin {"Committed", "absent"}
    <3>1. /\ OwnAt(q, d) \in DOMAIN q /\ PhaseOf(q, d) = q[OwnAt(q, d)].phase
          /\ PhaseOf(r, d) = t[OwnAt(q, d)].phase
      BY <1>1, <2>2
    <3> QED
      BY <2>2, <3>1 DEF SweptPhase
  <2> QED
    BY <2>1, <2>2
<1> QED
  BY <1>1, <1>2

(* The wakes for the committed entries of a table. *)
WakesOf(s, q) ==
    s = Select([i \in DOMAIN q |-> [to |-> q[i].ctx, exc |-> TRUE]], CommittedAt(q))
LEMMA CommittedWakes ==
    ASSUME NEW S, NEW q, Table(q, S), NEW s, WakesOf(s, q)
    PROVE  /\ s \in Seq(Wakes)
           /\ \A k \in DOMAIN s : s[k].exc /\ PhaseOf(q, s[k].to) = "Committed"
           /\ \A k, l \in DOMAIN s : s[k].to = s[l].to => k = l
           /\ \A d : PhaseOf(q, d) = "Committed" <=> To(s, d)
<1> DEFINE D == DOMAIN q
           I == CommittedAt(q)
           f == [i \in DOMAIN q |-> [to |-> q[i].ctx, exc |-> TRUE]]
           m == Cardinality(I)
<1>1. /\ q \in Seq(S) /\ OnceEach(q) /\ D \in SUBSET Nat /\ IsFiniteSet(D)
      /\ \A i \in D : q[i] \in S
  BY Indices DEF Table
<1>2. I \in SUBSET D /\ \A i \in D : i \in I <=> q[i].phase = "Committed"
  BY DEF CommittedAt
<1>3. /\ \A i \in D : f[i].to = q[i].ctx /\ f[i].exc = TRUE
      /\ f \in [D -> Wakes]
  <2>1. \A i \in D : q[i].ctx \in Contexts
    BY <1>1 DEF Table, AreRows, IsRow
  <2>2. \A x \in Contexts : [to |-> x, exc |-> TRUE] \in Wakes
    BY DEF Wakes
  <2> QED
    BY <2>1, <2>2
<1>4. s = Select(f, I)
  BY DEF WakesOf
<1> HIDE DEF f, D, I
<1>5. /\ I \in SUBSET Nat /\ IsFiniteSet(I) /\ Cardinality(I) \in Nat
      /\ Select(f, I) \in Seq(Wakes)
      /\ DOMAIN Select(f, I) = 1 .. Cardinality(I)
      /\ \A k \in 1 .. Cardinality(I) : Place(I, k) \in I /\ Select(f, I)[k] = f[Place(I, k)]
  <2>1. D \in SUBSET Nat /\ IsFiniteSet(D) /\ I \in SUBSET D /\ f \in [D -> Wakes]
    BY <1>1, <1>2, <1>3
  <2> QED
    BY ONLY <2>1, Selected
<1>6. /\ s \in Seq(Wakes) /\ DOMAIN s = 1 .. m /\ m \in Nat
      /\ \A k \in 1 .. m : Place(I, k) \in I /\ s[k] = f[Place(I, k)]
  BY <1>4, <1>5
<1>7. /\ \A k, l \in 1 .. m : k < l => Place(I, k) < Place(I, l)
      /\ \A i \in I : \E k \in 1 .. m : Place(I, k) = i
  BY <1>5, Places
<1> HIDE DEF m
<1>8. ASSUME NEW k \in 1 .. m
      PROVE  /\ Place(I, k) \in D /\ s[k].exc /\ s[k].to = q[Place(I, k)].ctx
             /\ PhaseOf(q, s[k].to) = "Committed"
  <2>1. Place(I, k) \in D /\ s[k].exc /\ s[k].to = q[Place(I, k)].ctx
        /\ q[Place(I, k)].phase = "Committed"
    BY <1>2, <1>3, <1>6
  <2> QED
    BY <1>1, <2>1, Own DEF D
<1>9. ASSUME NEW k \in 1 .. m, NEW l \in 1 .. m, s[k].to = s[l].to PROVE k = l
  <2>1. Place(I, k) = Place(I, l)
    BY <1>1, <1>8, <1>9 DEF OnceEach, D
  <2>2. Place(I, k) \in Nat /\ Place(I, l) \in Nat
    BY <1>1, <1>8
  <2>3. k < l \/ l < k \/ k = l
    BY <1>6
  <2> QED
    BY <1>7, <2>1, <2>2, <2>3
<1>10. ASSUME NEW d, PhaseOf(q, d) = "Committed" PROVE To(s, d)
  <2>1. OwnAt(q, d) \in D /\ q[OwnAt(q, d)].ctx = d /\ q[OwnAt(q, d)].phase = "Committed"
    BY <1>1, <1>10, Own DEF D
  <2>2. PICK k \in 1 .. m : Place(I, k) = OwnAt(q, d)
    BY <1>2, <1>7, <2>1
  <2>3. k \in DOMAIN s /\ s[k].to = d
    BY <1>6, <1>8, <2>1, <2>2
  <2> QED
    BY <2>3 DEF To
<1>11. ASSUME NEW d, To(s, d) PROVE PhaseOf(q, d) = "Committed"
  BY <1>6, <1>8, <1>11 DEF To
<1> QED
  BY <1>6, <1>8, <1>9, <1>10, <1>11

(* Whom a close wakes: the committed receivers and senders, each once. *)
LEMMA ClosingWakes ==
    ASSUME ChannelInv
    PROVE  /\ CloseWakes \in Seq(Wakes)
           /\ \A k, l \in DOMAIN CloseWakes :
                 CloseWakes[k].to = CloseWakes[l].to => k = l
           /\ \A k \in DOMAIN CloseWakes : CloseWakes[k].exc
           /\ \A d : To(CloseWakes, d) <=> PhaseOf(waiters, d) = "Committed"
                                           \/ PhaseOf(pending, d) = "Committed"
<1> DEFINE f == [i \in DOMAIN waiters |-> [to |-> waiters[i].ctx, exc |-> TRUE]]
           g == [i \in DOMAIN pending |-> [to |-> pending[i].ctx, exc |-> TRUE]]
           a == Select(f, CommittedAt(waiters))
           b == Select(g, CommittedAt(pending))
<1>1. Table(waiters, Waiter) /\ Table(pending, PendingSend)
  BY Facts
<1>2. CommittedAt(waiters) \in SUBSET (DOMAIN waiters)
  BY DEF CommittedAt
<1>3. CommittedRecvs(FALSE) = a
  <2>1. {i \in CommittedAt(waiters) : Drains(i) = FALSE} = CommittedAt(waiters)
    BY <1>2, NothingDrains
  <2>2. [i \in DOMAIN waiters |-> [to |-> waiters[i].ctx, exc |-> ~FALSE]] = f
    OBVIOUS
  <2> QED
    BY <2>1, <2>2 DEF CommittedRecvs
<1>4. CommittedRecvs(TRUE) = <<>>
  <2>1. {i \in CommittedAt(waiters) : Drains(i) = TRUE} = {}
    BY <1>2, NothingDrains
  <2>2. Cardinality({}) = 0
    BY FS_EmptySet
  <2>3. \A u : Select(u, {}) = <<>>
    BY <2>2 DEF Select
  <2> QED
    BY <2>1, <2>3 DEF CommittedRecvs
<1>5. CommittedSends = b
  BY DEF CommittedSends
<1>6. /\ a \in Seq(Wakes)
      /\ \A k \in DOMAIN a : a[k].exc /\ PhaseOf(waiters, a[k].to) = "Committed"
      /\ \A k, l \in DOMAIN a : a[k].to = a[l].to => k = l
      /\ \A d : PhaseOf(waiters, d) = "Committed" <=> To(a, d)
  <2>1. WakesOf(a, waiters)
    BY DEF WakesOf
  <2> HIDE DEF a
  <2> QED
    BY <1>1, <2>1, CommittedWakes
<1>7. /\ b \in Seq(Wakes)
      /\ \A k \in DOMAIN b : b[k].exc /\ PhaseOf(pending, b[k].to) = "Committed"
      /\ \A k, l \in DOMAIN b : b[k].to = b[l].to => k = l
      /\ \A d : PhaseOf(pending, d) = "Committed" <=> To(b, d)
  <2>1. WakesOf(b, pending)
    BY DEF WakesOf
  <2> HIDE DEF b
  <2> QED
    BY <1>1, <2>1, CommittedWakes
<1>8. CloseWakes = (a \o b) \o <<>>
  BY <1>3, <1>4, <1>5 DEF CloseWakes
<1> HIDE DEF a, b
<1>9. CloseWakes = a \o b
  <2>1. a \o b \in Seq(Wakes)
    BY <1>6, <1>7
  <2>2. \A s \in Seq(Wakes) : s \o <<>> = s
    OBVIOUS
  <2> QED
    BY <1>8, <2>1, <2>2
<1>10. \A k \in DOMAIN a, l \in DOMAIN b : a[k].to # b[l].to
  <2> SUFFICES ASSUME NEW k \in DOMAIN a, NEW l \in DOMAIN b, a[k].to = b[l].to
               PROVE  FALSE
    OBVIOUS
  <2>1. a[k].to \in Contexts
    <3>1. a[k] \in Wakes
      BY <1>6
    <3> QED
      BY <3>1 DEF Wakes
  <2>2. PhaseOf(waiters, a[k].to) = "Committed" /\ PhaseOf(pending, a[k].to) = "Committed"
    BY <1>6, <1>7
  <2> QED
    BY <2>1, <2>2, EntryNoWake
<1>11. /\ a \o b \in Seq(Wakes)
       /\ \A k, l \in DOMAIN (a \o b) : (a \o b)[k].to = (a \o b)[l].to => k = l
       /\ \A k \in DOMAIN (a \o b) : (a \o b)[k].exc
       /\ \A d : To(a \o b, d) <=> To(a, d) \/ To(b, d)
  <2>1. /\ \A k \in DOMAIN a : a[k].exc
        /\ \A k \in DOMAIN b : b[k].exc
    BY <1>6, <1>7
  <2> QED
    BY <1>6, <1>7, <1>10, <2>1, WakesJoined
<1> QED
  BY <1>6, <1>7, <1>9, <1>11

(* A context that the sweep finds waiting, or not. *)
LEMMA SweptInv ==
    ASSUME ChannelInv, NEW d \in Contexts, at[d] # "run",
           PhaseOf(waiters', d) = SweptPhase(PhaseOf(waiters, d)),
           PhaseOf(pending', d) = SweptPhase(PhaseOf(pending, d)),
           Coming(wakes', d) <=> Coming(wakes, d) \/ PhaseOf(waiters, d) = "Committed"
                                                  \/ PhaseOf(pending, d) = "Committed",
           Exceptional(wakes', d) <=> Exceptional(wakes, d)
                                      \/ PhaseOf(waiters, d) = "Committed"
                                      \/ PhaseOf(pending, d) = "Committed",
           op'[d] = op[d], at'[d] = at[d], report'[d] = report[d],
           state'[d] = state[d], framesParked'[d] = framesParked[d],
           queued'[d] = queued[d], rethrow'[d] = rethrow[d],
           wakes'[d] = wakes[d], cell'[d] = cell[d]
    PROVE  CallInv(d)' /\ ParkInv(d)'
<1>1. /\ CallInv(d) /\ ParkInv(d)
      /\ at[d] \in {"run", "wake", "migrate", "recheck", "abort", "unwind", "parked", "return"}
  BY Facts
<1>2. SweptPhase("absent") = "absent"
  BY DEF SweptPhase
<1>3. Entry(d)' = SweptPhase(Entry(d))
  BY DEF Entry
<1>4. /\ op[d] # "recv" => PhaseOf(waiters, d) = "absent"
      /\ op[d] # "send" => PhaseOf(pending, d) = "absent"
      /\ Entry(d) # "absent" => op[d] \in {"recv", "send"}
  BY <1>1 DEF CallInv, Entry
<1>5. /\ Coming(wakes', d) <=> Coming(wakes, d) \/ Entry(d) = "Committed"
      /\ Exceptional(wakes', d) <=> Exceptional(wakes, d) \/ Entry(d) = "Committed"
  BY <1>4 DEF Entry
<1>6. /\ Entry(d) = "Committed" => at[d] \in {"unwind", "parked"} /\ Entry(d)' = "absent"
      /\ Entry(d) = "Pending" => at[d] \in {"migrate", "recheck"} /\ Entry(d)' = "Closed"
      /\ Entry(d) \notin {"Committed", "Pending"} => Entry(d)' = Entry(d)
  BY <1>1, <1>3 DEF CallInv, SweptPhase
<1>7. CallInv(d)'
  <2>1. /\ op[d] # "recv" => PhaseOf(waiters', d) = "absent"
        /\ op[d] # "send" => PhaseOf(pending', d) = "absent"
    BY <1>2, <1>4
  <2> QED
    BY <1>1, <1>6, <2>1 DEF CallInv
<1>8. ParkInv(d)'
  BY <1>1, <1>5, <1>6 DEF ParkInv
<1> QED
  BY <1>7, <1>8

(* A context outside any call is not in the tables and not woken. *)
LEMMA IdleSwept ==
    ASSUME ChannelInv, NEW d \in Contexts, at[d] = "run",
           PhaseOf(waiters', d) = SweptPhase(PhaseOf(waiters, d)),
           PhaseOf(pending', d) = SweptPhase(PhaseOf(pending, d)),
           Coming(wakes', d) <=> Coming(wakes, d) \/ PhaseOf(waiters, d) = "Committed"
                                                  \/ PhaseOf(pending, d) = "Committed"
    PROVE  /\ PhaseOf(waiters', d) = "absent" /\ PhaseOf(pending', d) = "absent"
           /\ ~Coming(wakes', d)
<1>1. PhaseOf(waiters, d) = "absent" /\ PhaseOf(pending, d) = "absent" /\ ~Coming(wakes, d)
  BY Caller
<1> QED
  BY <1>1 DEF SweptPhase

(* The tables after the sweep. *)
LEMMA CloseSweeps ==
    ASSUME ChannelInv, SweepWaiters, SweepSenders
    PROVE  /\ UNCHANGED <<cell, buffered>>
           /\ Table(waiters', Waiter) /\ Table(pending', PendingSend)
           /\ \A d : PhaseOf(waiters', d) = SweptPhase(PhaseOf(waiters, d))
           /\ \A d : PhaseOf(pending', d) = SweptPhase(PhaseOf(pending, d))
<1>1. /\ Table(waiters, Waiter) /\ Table(pending, PendingSend)
      /\ waiters \in Seq(Waiter) /\ pending \in Seq(PendingSend)
      /\ cell \in [Contexts -> Values \cup {NoValue}] /\ buffered \in Seq(Values)
  BY Facts DEF Table
<1>2. \A i \in DOMAIN waiters : Drains(i) = FALSE
  BY NothingDrains
<1>3. UNCHANGED buffered
  <2>1. {i \in DOMAIN waiters : Drains(i)} = {}
    BY <1>2
  <2>2. Drained = 0
    BY <2>1, FS_EmptySet DEF Drained
  <2>3. buffered' = SubSeq(buffered, 1, Len(buffered))
    BY <2>2 DEF SweepWaiters
  <2> QED
    BY <1>1, <2>3
<1>4. UNCHANGED cell
  <2>1. cell' = [d \in Contexts |-> cell[d]]
    BY <1>2 DEF SweepWaiters
  <2> QED
    BY <1>1, <2>1
<1>5. Table(waiters', Waiter) /\ \A d : PhaseOf(waiters', d) = SweptPhase(PhaseOf(waiters, d))
  <2> DEFINE t == [i \in DOMAIN waiters |-> SweptWaiter(i)]
  <2>1. SweepOf(waiters', t, waiters)
    BY DEF SweepWaiters, SweepOf
  <2>2. ASSUME NEW i \in DOMAIN waiters
        PROVE  /\ SweptWaiter(i) \in Waiter /\ SweptWaiter(i).ctx = waiters[i].ctx
               /\ SweptWaiter(i).phase =
                     IF waiters[i].phase = "Pending" THEN "Closed" ELSE waiters[i].phase
    <3>1. waiters[i] \in Waiter
      BY <1>1
    <3>2. SweptWaiter(i) = IF waiters[i].phase # "Pending" THEN waiters[i]
                           ELSE [waiters[i] EXCEPT !.phase = "Closed"]
      BY <1>2 DEF SweptWaiter
    <3> QED
      BY <3>1, <3>2 DEF Waiter, Phases
  <2>3. /\ t \in [DOMAIN waiters -> Waiter]
        /\ \A i \in DOMAIN waiters : t[i].ctx = waiters[i].ctx
        /\ \A i \in DOMAIN waiters :
              t[i].phase = IF waiters[i].phase = "Pending" THEN "Closed" ELSE waiters[i].phase
    BY <2>2
  <2> HIDE DEF t
  <2> QED
    BY ONLY <1>1, <2>1, <2>3, SweptTable, SMTT(30)
<1>6. Table(pending', PendingSend)
      /\ \A d : PhaseOf(pending', d) = SweptPhase(PhaseOf(pending, d))
  <2> DEFINE t == [i \in DOMAIN pending |-> SweptSender(pending[i])]
  <2>1. SweepOf(pending', t, pending)
    BY DEF SweepSenders, SweepOf
  <2>2. ASSUME NEW i \in DOMAIN pending
        PROVE  /\ SweptSender(pending[i]) \in PendingSend
               /\ SweptSender(pending[i]).ctx = pending[i].ctx
               /\ SweptSender(pending[i]).phase =
                     IF pending[i].phase = "Pending" THEN "Closed" ELSE pending[i].phase
    <3>1. pending[i] \in PendingSend
      BY <1>1
    <3> QED
      BY <3>1 DEF PendingSend, Phases, SweptSender
  <2>3. /\ t \in [DOMAIN pending -> PendingSend]
        /\ \A i \in DOMAIN pending : t[i].ctx = pending[i].ctx
        /\ \A i \in DOMAIN pending :
              t[i].phase = IF pending[i].phase = "Pending" THEN "Closed" ELSE pending[i].phase
    BY <2>2
  <2> HIDE DEF t
  <2> QED
    BY ONLY <1>1, <2>1, <2>3, SweptTable, SMTT(30)
<1> QED
  BY <1>3, <1>4, <1>5, <1>6

(* The wakes after it. *)
LEMMA CloseSends ==
    ASSUME ChannelInv, NEW c \in Contexts, at[c] = "run", Gets(wakes, wakes', c, CloseWakes)
    PROVE  /\ wakes' \in [Contexts -> Seq(Wakes)] /\ WakesOnce(wakes')
           /\ wakes'[c] = CloseWakes
           /\ \A d \in Contexts : d # c => wakes'[d] = wakes[d]
           /\ \A d : Coming(wakes', d) <=> Coming(wakes, d)
                                           \/ PhaseOf(waiters, d) = "Committed"
                                           \/ PhaseOf(pending, d) = "Committed"
           /\ \A d : Exceptional(wakes', d) <=> Exceptional(wakes, d)
                                           \/ PhaseOf(waiters, d) = "Committed"
                                           \/ PhaseOf(pending, d) = "Committed"
<1>1. wakes \in [Contexts -> Seq(Wakes)] /\ WakesOnce(wakes) /\ wakes[c] = <<>>
      /\ Table(waiters, Waiter) /\ Table(pending, PendingSend)
  BY Facts, Caller
<1>2. PICK s : s = CloseWakes
  OBVIOUS
<1>3. /\ s \in Seq(Wakes)
      /\ \A k, l \in DOMAIN s : s[k].to = s[l].to => k = l
      /\ \A k \in DOMAIN s : s[k].exc
      /\ \A d : To(s, d) <=> PhaseOf(waiters, d) = "Committed"
                             \/ PhaseOf(pending, d) = "Committed"
  BY <1>2, ClosingWakes
<1>4. ASSUME NEW k \in DOMAIN s PROVE ~Coming(wakes, s[k].to)
  <2>1. PhaseOf(waiters, s[k].to) = "Committed" \/ PhaseOf(pending, s[k].to) = "Committed"
    BY <1>3 DEF To
  <2>2. s[k].to \in Contexts
    BY <1>1, <2>1, PhaseType
  <2> QED
    BY <2>1, <2>2, EntryNoWake
<1>5. Gets(wakes, wakes', c, s)
  BY <1>2
<1>6. /\ wakes' \in [Contexts -> Seq(Wakes)] /\ wakes'[c] = s /\ WakesOnce(wakes')
      /\ \A d \in Contexts : d # c => wakes'[d] = wakes[d]
      /\ \A d : Coming(wakes', d) <=> Coming(wakes, d) \/ To(s, d)
      /\ \A d : Exceptional(wakes', d) <=> Exceptional(wakes, d) \/ ToldBy(s, d)
  BY ONLY <1>1, <1>3, <1>4, <1>5, NewWakes
<1>7. \A d : ToldBy(s, d) <=> To(s, d)
  BY <1>3 DEF ToldBy, To
<1> QED
  BY <1>2, <1>3, <1>6, <1>7

LEMMA CloseFirst ==
    ASSUME ChannelInv, NEW c \in Contexts, CallOnly(c, "close"),
           closed' = TRUE, SweepWaiters, SweepSenders, Decide(c, "done", CloseWakes)
    PROVE  ChannelInv'
<1>0. /\ at[c] = "run" /\ op' = [op EXCEPT ![c] = "close"] /\ capacity \in Nat
      /\ UNCHANGED <<capacity, rethrow, state, framesParked, queued>>
  BY Facts DEF CallOnly
<1>1. /\ UNCHANGED <<cell, buffered>>
      /\ Table(waiters', Waiter) /\ Table(pending', PendingSend)
      /\ \A d : PhaseOf(waiters', d) = SweptPhase(PhaseOf(waiters, d))
      /\ \A d : PhaseOf(pending', d) = SweptPhase(PhaseOf(pending, d))
  BY CloseSweeps
<1>2. Gets(wakes, wakes', c, CloseWakes)
  BY DEF Gets, Decide
<1>3. /\ wakes' \in [Contexts -> Seq(Wakes)] /\ WakesOnce(wakes')
      /\ wakes'[c] = CloseWakes
      /\ \A d \in Contexts : d # c => wakes'[d] = wakes[d]
      /\ \A d : Coming(wakes', d) <=> Coming(wakes, d)
                                      \/ PhaseOf(waiters, d) = "Committed"
                                      \/ PhaseOf(pending, d) = "Committed"
      /\ \A d : Exceptional(wakes', d) <=> Exceptional(wakes, d)
                                      \/ PhaseOf(waiters, d) = "Committed"
                                      \/ PhaseOf(pending, d) = "Committed"
  BY ONLY ChannelInv, c \in Contexts, <1>0, <1>2, CloseSends
<1>4. Decided(c, "done") /\ "done" \in Reports \ {"none"}
  BY <1>3 DEF Decide, Decided, Reports
<1>5. ChannelTypeOK'
  <2>1. waiters' \in Seq(Waiter) /\ pending' \in Seq(PendingSend)
    BY <1>1 DEF Table
  <2> QED
    BY <1>0, <1>1, <1>3, <1>4, <2>1 DEF ChannelInv, ChannelTypeOK, Decided
<1>6. WaitersFaceAnEmptyBuffer'
  <2>1. \A p : SweptPhase(p) \notin LivePhases
    BY DEF SweptPhase, LivePhases
  <2>2. LiveAt(waiters') = {} /\ LiveAt(pending') = {}
    BY <1>1, <2>1, PhaseType
  <2>3. capacity > 0 => Len(buffered) <= capacity
    BY DEF ChannelInv, WaitersFaceAnEmptyBuffer
  <2> QED
    BY <1>0, <1>1, <2>2, <2>3 DEF WaitersFaceAnEmptyBuffer
<1>7. ASSUME NEW d \in Contexts, d # c PROVE CallInv(d)' /\ ParkInv(d)'
  <2>1. /\ op'[d] = op[d] /\ at'[d] = at[d] /\ report'[d] = report[d]
        /\ state'[d] = state[d] /\ framesParked'[d] = framesParked[d]
        /\ queued'[d] = queued[d] /\ rethrow'[d] = rethrow[d]
    BY <1>4, <1>7, OthersSee
  <2>2. wakes'[d] = wakes[d] /\ cell'[d] = cell[d]
    BY <1>1, <1>3, <1>7
  <2>3. /\ PhaseOf(waiters', d) = SweptPhase(PhaseOf(waiters, d))
        /\ PhaseOf(pending', d) = SweptPhase(PhaseOf(pending, d))
        /\ Coming(wakes', d) <=> Coming(wakes, d)
                                 \/ PhaseOf(waiters, d) = "Committed"
                                 \/ PhaseOf(pending, d) = "Committed"
        /\ Exceptional(wakes', d) <=> Exceptional(wakes, d)
                                 \/ PhaseOf(waiters, d) = "Committed"
                                 \/ PhaseOf(pending, d) = "Committed"
    BY <1>1, <1>3
  <2>4. CASE at[d] # "run"
    BY <2>1, <2>2, <2>3, <2>4, SweptInv
  <2>5. CASE at[d] = "run"
    <3>1. /\ PhaseOf(waiters', d) = "absent" /\ PhaseOf(pending', d) = "absent"
          /\ ~Coming(wakes', d)
      BY <2>3, <2>5, IdleSwept
    <3>2. /\ PhaseOf(waiters, d) = "absent" /\ PhaseOf(pending, d) = "absent"
          /\ ~Coming(wakes, d)
      BY <2>5, Caller
    <3>3. Exceptional(wakes', d) <=> Exceptional(wakes, d)
      BY <2>3, <3>2
    <3>4. SameView(d)
      BY <2>1, <2>2, <3>1, <3>2, <3>3 DEF SameView
    <3> QED
      BY <3>4, Facts, SameViewSameInv
  <2> QED
    BY <2>4, <2>5
<1>8. CallInv(c)' /\ ParkInv(c)'
  <2>1. /\ PhaseOf(waiters', c) = SweptPhase(PhaseOf(waiters, c))
        /\ PhaseOf(pending', c) = SweptPhase(PhaseOf(pending, c))
        /\ Coming(wakes', c) <=> Coming(wakes, c)
                                 \/ PhaseOf(waiters, c) = "Committed"
                                 \/ PhaseOf(pending, c) = "Committed"
    BY <1>1, <1>3
  <2>2. /\ PhaseOf(waiters', c) = "absent" /\ PhaseOf(pending', c) = "absent"
        /\ ~Coming(wakes', c)
    BY <1>0, <2>1, IdleSwept
  <2>3. /\ op'[c] = "close" /\ report'[c] = "done"
        /\ at'[c] = IF wakes'[c] = <<>> THEN "return" ELSE "wake"
    <3>1. op'[c] = "close"
      BY <1>0, Facts
    <3>2. report'[c] = "done"
      BY <1>4, Facts DEF Decided
    <3>3. at'[c] = IF wakes'[c] = <<>> THEN "return" ELSE "wake"
      BY <1>4, Facts DEF Decided
    <3> QED
      BY <3>1, <3>2, <3>3
  <2> QED
    BY <1>0, <1>4, <2>2, <2>3, CallerDecides
<1>9. /\ \A d \in Contexts \cap Contexts : CallInv(d)' /\ ParkInv(d)'
      /\ \A d \in Contexts \ Contexts : SameView(d)
  BY <1>7, <1>8
<1> QED
  BY <1>1, <1>3, <1>5, <1>6, <1>9, SlotStep

LEMMA CloseStep ==
    ASSUME ChannelInv, NEW c \in Contexts, Close(c)
    PROVE  ChannelInv'
<1>1. CallOnly(c, "close") /\ at[c] = "run" /\ op' = [op EXCEPT ![c] = "close"]
      /\ UNCHANGED <<capacity, rethrow, parkVars>>
  BY DEF Close, Calls, CallOnly, parkVars
<1>2. CASE /\ closed /\ Decide(c, "done", <<>>)
           /\ UNCHANGED <<closed, buffered, waiters, pending, cell>>
  <2>0. /\ wakes \in [Contexts -> Seq(Wakes)] /\ wakes[c] = <<>> /\ ~Coming(wakes, c)
        /\ PhaseOf(waiters, c) = "absent" /\ PhaseOf(pending, c) = "absent"
    BY <1>1, Facts, Caller
  <2>1. /\ UNCHANGED wakes /\ report' = [report EXCEPT ![c] = "done"]
        /\ at' = [at EXCEPT ![c] = "return"] /\ UNCHANGED slotVars
        /\ UNCHANGED <<cell, rethrow, parkVars>>
    BY <1>1, <1>2, <2>0 DEF Decide, slotVars
  <2>2. ChannelTypeOK' /\ "done" \in Reports \ {"none"}
    BY <1>1, <2>1 DEF ChannelInv, ChannelTypeOK, slotVars, parkVars, Reports
  <2>3. \A d \in Contexts \ {c} : SameView(d)
    BY <1>1, <2>1, Facts, SlotSeen DEF SameView, parkVars
  <2>4. CallInv(c)' /\ ParkInv(c)'
    <3>1. /\ op'[c] = "close" /\ report'[c] = "done" /\ at'[c] = "return"
          /\ wakes'[c] = <<>> /\ ~Coming(wakes', c)
          /\ PhaseOf(waiters', c) = "absent" /\ PhaseOf(pending', c) = "absent"
      BY <1>1, <2>0, <2>1, Facts, SlotSeen
    <3> QED
      BY <1>1, <2>1, <2>2, <3>1, CallerDecides DEF parkVars
  <2> QED
    BY <2>1, <2>2, <2>3, <2>4, OwnStep
<1>3. CASE /\ ~closed /\ closed' = TRUE /\ SweepWaiters /\ SweepSenders
           /\ Decide(c, "done", CloseWakes)
  BY <1>1, <1>3, CloseFirst
<1> QED
  BY <1>2, <1>3 DEF Close

-----------------------------------------------------------------------------
LEMMA InitChannelInv == ChannelInit => ChannelInv
<1> SUFFICES ASSUME ChannelInit PROVE ChannelInv
  OBVIOUS
<1>0. /\ state = [c \in Contexts |-> "Runnable"]
      /\ framesParked = [c \in Contexts |-> FALSE] /\ queued = [c \in Contexts |-> 0]
      /\ capacity \in Capacities /\ buffered = <<>> /\ closed = FALSE
      /\ waiters = <<>> /\ pending = <<>>
      /\ cell = [c \in Contexts |-> NoValue] /\ rethrow = [c \in Contexts |-> FALSE]
      /\ op = [c \in Contexts |-> "none"] /\ at = [c \in Contexts |-> "run"]
      /\ wakes = [c \in Contexts |-> <<>>] /\ report = [c \in Contexts |-> "none"]
  BY DEF ChannelInit, ParkInit
<1>1. ChannelTypeOK
  <2>1. wakes \in [Contexts -> Seq(Wakes)]
    BY <1>0
  <2>2. framesParked \in [Contexts -> BOOLEAN] /\ rethrow \in [Contexts -> BOOLEAN]
    BY <1>0
  <2>3. queued \in [Contexts -> Nat]
    BY <1>0
  <2>4. waiters \in Seq(Waiter) /\ pending \in Seq(PendingSend) /\ buffered \in Seq(Values)
    BY <1>0
  <2> QED
    BY <1>0, <2>1, <2>2, <2>3, <2>4 DEF ChannelTypeOK, Reports
<1>2. DOMAIN waiters = {} /\ DOMAIN pending = {}
  BY <1>0
<1>3. LiveAt(waiters) = {} /\ LiveAt(pending) = {} /\ OnceEach(waiters) /\ OnceEach(pending)
  BY <1>2 DEF LiveAt, OnceEach
<1>4. WaitersFaceAnEmptyBuffer
  <2>1. capacity \in Nat /\ Len(buffered) = 0
    BY <1>0, ChannelAssumption
  <2> QED
    BY <1>3, <2>1 DEF WaitersFaceAnEmptyBuffer
<1>5. \A c \in Contexts : DOMAIN wakes[c] = {}
  BY <1>0
<1>6. WakesOnce(wakes) /\ \A c : ~Coming(wakes, c) /\ ~Exceptional(wakes, c)
  BY <1>5 DEF WakesOnce, Coming, Exceptional
<1>7. \A c : PhaseOf(waiters, c) = "absent" /\ PhaseOf(pending, c) = "absent"
  BY <1>2 DEF PhaseOf, Has
<1>8. ASSUME NEW c \in Contexts PROVE CallInv(c) /\ ParkInv(c)
  <2>1. Entry(c) = "absent"
    BY <1>7 DEF Entry
  <2>2. CallInv(c)
    BY <1>0, <1>7, <2>1 DEF CallInv
  <2>3. ParkInv(c)
    BY <1>0, <1>6, <2>1 DEF ParkInv
  <2> QED
    BY <2>2, <2>3
<1> QED
  BY <1>1, <1>3, <1>4, <1>6, <1>8 DEF ChannelInv

LEMMA StutterChannelInv == ChannelInv /\ UNCHANGED vars => ChannelInv'
<1> SUFFICES ASSUME ChannelInv, UNCHANGED vars PROVE ChannelInv'
  OBVIOUS
<1>1. /\ UNCHANGED <<state, framesParked, queued>> /\ UNCHANGED slotVars
      /\ UNCHANGED <<cell, rethrow, op, at, wakes, report>>
      /\ UNCHANGED <<capacity, buffered, closed, waiters, pending>>
  BY DEF vars, parkVars, slotVars, callVars
<1>2. ChannelTypeOK'
  BY <1>1 DEF ChannelInv, ChannelTypeOK
<1>3. \A d \in Contexts : SameView(d)
  BY <1>1, SlotSeen DEF SameView
<1>4. \A d \in Contexts : CallInv(d)' /\ ParkInv(d)'
  BY <1>3, SameViewSameInv DEF ChannelInv
<1>5. WaitersFaceAnEmptyBuffer' /\ OnceEach(waiters)' /\ OnceEach(pending)'
  BY <1>1 DEF ChannelInv, WaitersFaceAnEmptyBuffer, IsFull
<1>6. WakesOnce(wakes)'
  BY <1>1 DEF ChannelInv
<1> QED
  BY <1>2, <1>4, <1>5, <1>6 DEF ChannelInv

LEMMA NextChannelInv == ChannelInv /\ [ChannelNext]_vars => ChannelInv'
<1> SUFFICES ASSUME ChannelInv, ChannelNext PROVE ChannelInv'
  BY StutterChannelInv
<1>1. PICK c \in Contexts : \/ \E v \in Values : Send(c, v)
                            \/ Recv(c) \/ Close(c) \/ CallStep(c)
  BY DEF ChannelNext
<1>2. CASE \E v \in Values : Send(c, v)
  BY <1>2, SendStep
<1>3. CASE Recv(c)
  BY <1>3, RecvStep
<1>4. CASE Close(c)
  BY <1>4, CloseStep
<1>5. CASE SendWake(c)
  BY <1>5, SendWakeStep
<1>6. CASE Migrate(c)
  BY <1>6, MigrateStep
<1>7. CASE RecheckRecv(c)
  BY <1>7, RecheckRecvStep
<1>8. CASE RecheckSend(c)
  BY <1>8, RecheckSendStep
<1>9. CASE Abort(c)
  BY <1>9, AbortStep
<1>10. CASE Land(c)
  BY <1>10, LandStep
<1>11. CASE Resume(c)
  BY <1>11, ResumeStep
<1>12. CASE Return(c)
  BY <1>12, ReturnStep
<1> QED
  BY <1>1, <1>2, <1>3, <1>4, <1>5, <1>6, <1>7, <1>8, <1>9, <1>10, <1>11, <1>12
     DEF CallStep

(***************************************************************************)
(* The invariant, for any contexts, values and capacities: the entries of  *)
(* ChannelSlot::waiters and pending, the place of every call between its   *)
(* sections (IntrinsicChannelSend, Recv and Close, CommitOrAbortChanRecv   *)
(* and Send), the states of the contexts and the wakes not yet sent agree. *)
(***************************************************************************)
THEOREM ChannelInvHolds == ChannelSpec => []ChannelInv
<1>1. ChannelInit => ChannelInv
  BY InitChannelInv
<1>2. ChannelInv /\ [ChannelNext]_vars => ChannelInv'
  BY NextChannelInv
<1> QED
  BY <1>1, <1>2, PTL DEF ChannelSpec

(***************************************************************************)
(* The invariant that IntrinsicChannelSend's hand-off relies on: while a   *)
(* receiver is live in the table the buffer is empty and no sender is,     *)
(* and a sender is only while the buffer is full.                          *)
(***************************************************************************)
THEOREM NobodyWaitsForWhatIsThere == ChannelSpec => []WaitersFaceAnEmptyBuffer
<1>1. ChannelInv => WaitersFaceAnEmptyBuffer
  BY DEF ChannelInv
<1> QED
  BY <1>1, ChannelInvHolds, PTL

(***************************************************************************)
(* WakeForChanRecv and WakeForChanSend: a context whose frames have left   *)
(* its carrier has its entry, or one wake on its way, or is queued once,   *)
(* and no wake meets a context that has gone on.                           *)
(***************************************************************************)
THEOREM NoWakeIsLost == ChannelSpec => []OneWakePerPark
<1>1. ASSUME ChannelInv PROVE OneWakePerPark
  <2>1. ChannelTypeOK /\ Table(waiters, Waiter) /\ Table(pending, PendingSend)
        /\ queued \in [Contexts -> Nat]
    BY <1>1, Facts DEF ChannelInv
  <2>2. ASSUME NEW c \in Contexts
        PROVE  /\ queued[c] <= 1
               /\ queued[c] = 1 => at[c] = "parked" /\ state[c] = "Runnable"
               /\ WakeIsComing(c) => at[c] \in {"unwind", "parked"} /\ ~HasEntry(c)
               /\ at[c] = "parked" => \/ HasEntry(c) /\ state[c] # "Runnable"
                                      \/ WakeIsComing(c) /\ state[c] # "Runnable"
                                      \/ queued[c] = 1
    <3>1. CallInv(c) /\ ParkInv(c)
      BY <1>1, Facts
    <3>2. WakeIsComing(c) <=> Coming(wakes, c)
      BY DEF WakeIsComing, Coming
    <3>3. HasEntry(c) <=> Entry(c) # "absent"
      <4>1. HasEntry(c) <=> Has(waiters, c) \/ Has(pending, c)
        BY DEF HasEntry, Has
      <4>2. HasEntry(c) <=> PhaseOf(waiters, c) # "absent" \/ PhaseOf(pending, c) # "absent"
        BY <2>1, <4>1, PhaseType
      <4> QED
        BY <3>1, <4>2 DEF CallInv, Entry
    <3>4. queued[c] \in {0, 1}
      BY <3>1 DEF ParkInv
    <3>5. queued[c] = 1 => at[c] = "parked" /\ state[c] = "Runnable"
      BY <3>1 DEF ParkInv
    <3>6. Coming(wakes, c) => at[c] \in {"unwind", "parked"} /\ Entry(c) = "absent"
      BY <3>1 DEF ParkInv
    <3>7. at[c] = "parked" => \/ Entry(c) # "absent" /\ state[c] # "Runnable"
                              \/ Coming(wakes, c) /\ state[c] # "Runnable"
                              \/ queued[c] = 1
      BY <3>1 DEF ParkInv
    <3> QED
      BY <3>2, <3>3, <3>4, <3>5, <3>6, <3>7
  <2> QED
    BY <2>1, <2>2 DEF OneWakePerPark
<1> QED
  BY <1>1, ChannelInvHolds, PTL

-----------------------------------------------------------------------------
(***************************************************************************)
(* The refinement.  Shown(c) is what the abstract channel has of c.        *)
(***************************************************************************)
AllShown == \A c \in Contexts : OutcomeOf(c) = Shown(c)

LEMMA InvShows == ChannelInv => AllShown
<1> SUFFICES ASSUME ChannelInv, NEW c \in Contexts PROVE OutcomeOf(c) = Shown(c)
  BY DEF AllShown
<1>1. /\ Table(waiters, Waiter) /\ Table(pending, PendingSend) /\ CallInv(c)
      /\ OnceEach(waiters) /\ OnceEach(pending)
      /\ waiters \in Seq(Waiter) /\ pending \in Seq(PendingSend)
      /\ wakes \in [Contexts -> Seq(Wakes)]
  BY Facts DEF Table
<1>2. IsWaiting(c) <=> Entry(c) \in LivePhases
  <2>1. IsWaiting(c) <=> PhaseOf(waiters, c) \in LivePhases
                         \/ PhaseOf(pending, c) \in LivePhases
    BY <1>1, PhaseType DEF IsWaiting
  <2>2. "absent" \notin LivePhases
    BY DEF LivePhases
  <2> QED
    BY <1>1, <2>1, <2>2 DEF CallInv, Entry
<1>3. (\E i \in DOMAIN waiters : waiters[i] = [ctx |-> c, phase |-> "Closed"])
      <=> PhaseOf(waiters, c) = "Closed"
  <2>1. ASSUME NEW i \in DOMAIN waiters
        PROVE  waiters[i] = [ctx |-> c, phase |-> "Closed"]
               <=> waiters[i].ctx = c /\ waiters[i].phase = "Closed"
    <3>1. waiters[i] \in Waiter
      BY <1>1
    <3> QED
      BY <3>1 DEF Waiter
  <2>2. ASSUME NEW i \in DOMAIN waiters, waiters[i] = [ctx |-> c, phase |-> "Closed"]
        PROVE  PhaseOf(waiters, c) = "Closed"
    BY <1>1, <2>1, <2>2, Own
  <2>3. ASSUME PhaseOf(waiters, c) = "Closed"
        PROVE  \E i \in DOMAIN waiters : waiters[i] = [ctx |-> c, phase |-> "Closed"]
    <3>1. OwnAt(waiters, c) \in DOMAIN waiters /\ waiters[OwnAt(waiters, c)].ctx = c
          /\ waiters[OwnAt(waiters, c)].phase = "Closed"
      BY <1>1, <2>3, Own
    <3> QED
      BY <2>1, <3>1
  <2> QED
    BY <2>2, <2>3
<1>4. (\E i \in DOMAIN pending : pending[i].ctx = c /\ pending[i].phase = "Closed")
      <=> PhaseOf(pending, c) = "Closed"
  <2>1. ASSUME NEW i \in DOMAIN pending, pending[i].ctx = c /\ pending[i].phase = "Closed"
        PROVE  PhaseOf(pending, c) = "Closed"
    BY <1>1, <2>1, Own
  <2>2. ASSUME PhaseOf(pending, c) = "Closed"
        PROVE  \E i \in DOMAIN pending : pending[i].ctx = c /\ pending[i].phase = "Closed"
    <3>1. OwnAt(pending, c) \in DOMAIN pending /\ pending[OwnAt(pending, c)].ctx = c
          /\ pending[OwnAt(pending, c)].phase = "Closed"
      BY <1>1, <2>2, Own
    <3> QED
      BY <3>1
  <2> QED
    BY <2>1, <2>2
<1>5. (\E d \in Contexts : \E i \in DOMAIN wakes[d] : wakes[d][i] = [to |-> c, exc |-> TRUE])
      <=> Exceptional(wakes, c)
  <2>1. ASSUME NEW d \in Contexts, NEW i \in DOMAIN wakes[d]
        PROVE  wakes[d][i] = [to |-> c, exc |-> TRUE]
               <=> wakes[d][i].to = c /\ wakes[d][i].exc
    <3>1. wakes[d] \in Seq(Wakes)
      BY <1>1
    <3>2. wakes[d][i] \in Wakes
      BY <3>1
    <3>3. \A t \in Contexts, e \in BOOLEAN :
             [to |-> t, exc |-> e] = [to |-> c, exc |-> TRUE] <=> t = c /\ e = TRUE
      OBVIOUS
    <3>4. PICK t \in Contexts, e \in BOOLEAN : wakes[d][i] = [to |-> t, exc |-> e]
      BY <3>2 DEF Wakes
    <3>5. wakes[d][i].to = t /\ wakes[d][i].exc = e
      BY <3>4
    <3>6. CASE e = TRUE
      BY <3>3, <3>4, <3>5, <3>6
    <3>7. CASE e = FALSE
      BY <3>3, <3>4, <3>5, <3>7
    <3> QED
      BY <3>6, <3>7
  <2> QED
    BY <2>1 DEF Exceptional
<1>6. ToldClosed(c) <=> rethrow[c] \/ Entry(c) = "Closed" \/ Exceptional(wakes, c)
  <2>1. ToldClosed(c) <=> rethrow[c] \/ PhaseOf(waiters, c) = "Closed"
                          \/ PhaseOf(pending, c) = "Closed" \/ Exceptional(wakes, c)
    BY <1>3, <1>4, <1>5 DEF ToldClosed
  <2> QED
    BY <1>1, <2>1 DEF CallInv, Entry
<1> QED
  BY <1>2, <1>6 DEF OutcomeOf, Shown

LEMMA InvShowsNext == ChannelInv' => AllShown'
BY InvShows, PTL

(* The outcomes as a function, when only c's or also x's changes. *)
Outcomes == [c \in Contexts |-> OutcomeOf(c)]

LEMMA OutcomesSame ==
    ASSUME ChannelInv, ChannelInv', \A d \in Contexts : Shown(d)' = Shown(d)
    PROVE  Outcomes' = Outcomes
<1>1. \A d \in Contexts : OutcomeOf(d) = Shown(d) /\ OutcomeOf(d)' = Shown(d)'
  BY InvShows, InvShowsNext DEF AllShown
<1> QED
  BY <1>1 DEF Outcomes

LEMMA OutcomesOne ==
    ASSUME ChannelInv, ChannelInv', NEW c \in Contexts, NEW r, Shown(c)' = r,
           \A d \in Contexts \ {c} : Shown(d)' = Shown(d)
    PROVE  Outcomes' = [Outcomes EXCEPT ![c] = r]
<1>1. \A d \in Contexts : OutcomeOf(d) = Shown(d) /\ OutcomeOf(d)' = Shown(d)'
  BY InvShows, InvShowsNext DEF AllShown
<1> QED
  BY <1>1 DEF Outcomes

LEMMA OutcomesTwo ==
    ASSUME ChannelInv, ChannelInv', NEW c \in Contexts, NEW r, Shown(c)' = r,
           NEW x \in Contexts, x # c, NEW s, Shown(x)' = s,
           \A d \in Contexts \ {c, x} : Shown(d)' = Shown(d)
    PROVE  Outcomes' = [Outcomes EXCEPT ![c] = r, ![x] = s]
<1>1. \A d \in Contexts : OutcomeOf(d) = Shown(d) /\ OutcomeOf(d)' = Shown(d)'
  BY InvShows, InvShowsNext DEF AllShown
<1> QED
  BY <1>1 DEF Outcomes


(***************************************************************************)
(* The lines.  Who stands in line does not depend on whether its entry is  *)
(* Pending or Committed; Line(q, g) shows each live entry e of q as g[e].  *)
(***************************************************************************)
ShownBy(f, q, g) == f = [i \in DOMAIN q |-> g[q[i]]]
Line(q, g) == Select([i \in DOMAIN q |-> g[q[i]]], LiveAt(q))
Keeps(g, S, X) ==
    /\ g \in [S -> X]
    /\ \A e \in S : \A p \in Phases : g[WithPhase(e, p)] = g[e]

LEMMA SelectAgree ==
    ASSUME NEW q, NEW r, NEW I \in SUBSET Nat, IsFiniteSet(I), \A i \in I : q[i] = r[i]
    PROVE  Select(q, I) = Select(r, I)
<1>1. Cardinality(I) \in Nat /\ \A k \in 1 .. Cardinality(I) : Place(I, k) \in I
  BY Places, FS_CardinalityType
<1> QED
  BY <1>1 DEF Select

(* What is in a line; it is empty when nobody waits. *)
LEMMA LineOf ==
    ASSUME NEW S, NEW q, Table(q, S), NEW X, NEW g, Keeps(g, S, X),
           NEW f, ShownBy(f, q, g)
    PROVE  /\ f \in [DOMAIN q -> X] /\ \A i \in DOMAIN q : f[i] = g[q[i]]
           /\ Line(q, g) = Select(f, LiveAt(q)) /\ Line(q, g) \in Seq(X)
           /\ Line(q, g) = <<>> <=> LiveAt(q) = {}
<1>1. /\ DOMAIN q \in SUBSET Nat /\ IsFiniteSet(DOMAIN q) /\ IsFiniteSet(LiveAt(q))
      /\ \A i \in DOMAIN q : q[i] \in S
      /\ LiveAt(q) \in SUBSET (DOMAIN q)
  BY Indices DEF Table
<1>2. f \in [DOMAIN q -> X] /\ \A i \in DOMAIN q : f[i] = g[q[i]]
  BY <1>1 DEF Keeps, ShownBy
<1>3. Line(q, g) = Select(f, LiveAt(q))
  BY DEF Line, ShownBy
<1>4. Select(f, LiveAt(q)) \in Seq(X) /\ Len(Select(f, LiveAt(q))) = Cardinality(LiveAt(q))
  BY ONLY <1>1, <1>2, Selected, SMTT(30)
<1>5. Cardinality(LiveAt(q)) = 0 <=> LiveAt(q) = {}
  BY <1>1, FS_EmptySet
<1>6. \A s \in Seq(X) : s = <<>> <=> Len(s) = 0
  OBVIOUS
<1> QED
  BY <1>2, <1>3, <1>4, <1>5, <1>6

(* Somebody new stands at the end. *)
LEMMA LineGrows ==
    ASSUME NEW S, NEW q, Table(q, S), NEW X, NEW g, Keeps(g, S, X),
           NEW e \in S, e.phase = "Pending"
    PROVE  Line(Append(q, e), g) = Append(Line(q, g), g[e])
<1> DEFINE r == Append(q, e)
           n == Len(q)
           f == [i \in DOMAIN q |-> g[q[i]]]
           h == [i \in DOMAIN r |-> g[r[i]]]
<1>1. /\ q \in Seq(S) /\ n \in Nat /\ DOMAIN q = 1 .. n
      /\ r \in Seq(S) /\ DOMAIN r = 1 .. n + 1
      /\ r[n + 1] = e /\ \A i \in 1 .. n : r[i] = q[i]
      /\ LiveAt(q) \in SUBSET (1 .. n) /\ LiveAt(q) \in SUBSET Nat /\ IsFiniteSet(LiveAt(q))
  BY Indices DEF Table
<1>2. /\ \A i \in 1 .. n + 1 : i \in 1 .. n \/ i = n + 1
      /\ \A i \in 1 .. n : i \in 1 .. n + 1
      /\ n + 1 \in 1 .. n + 1
  BY <1>1
<1>3. Line(r, g) = Select(h, LiveAt(r)) /\ Line(q, g) = Select(f, LiveAt(q))
  BY DEF Line
<1> HIDE DEF r, n
<1>4. LiveAt(r) = LiveAt(q) \cup {n + 1}
  <2>1. IsLive(e)
    BY DEF IsLive
  <2> QED
    BY <1>1, <1>2, <2>1 DEF LiveAt
<1>5. h \in [1 .. n + 1 -> X] /\ h[n + 1] = g[e] /\ \A i \in 1 .. n : h[i] = f[i]
  <2>1. \A i \in 1 .. n + 1 : r[i] \in S
    BY <1>1
  <2>2. \A i \in 1 .. n + 1 : h[i] = g[r[i]] /\ h[i] \in X
    BY <1>1, <2>1 DEF Keeps
  <2>3. \A i \in 1 .. n : f[i] = g[q[i]]
    BY <1>1
  <2>4. h \in [1 .. n + 1 -> X]
    BY <1>1, <2>2
  <2> HIDE DEF h, f
  <2> QED
    BY <1>1, <1>2, <2>2, <2>3, <2>4
<1> HIDE DEF h, f
<1>6. Select(h, LiveAt(q) \cup {n + 1}) = Append(Select(h, LiveAt(q)), h[n + 1])
  <2>1. ASSUME NEW I \in SUBSET (1 .. n)
        PROVE  Select(h, I \cup {n + 1}) = Append(Select(h, I), h[n + 1])
    BY <1>1, <1>5, SelectLast
  <2> QED
    BY <1>1, <2>1
<1>7. Select(h, LiveAt(q)) = Select(f, LiveAt(q))
  <2>1. \A i \in LiveAt(q) : h[i] = f[i]
    BY <1>1, <1>5
  <2> QED
    BY <1>1, <2>1, SelectAgree
<1> QED
  BY <1>3, <1>4, <1>5, <1>6, <1>7 DEF r

(* Somebody is stamped: it stays in line, or leaves it. *)
LEMMA LineStamped ==
    ASSUME NEW S, NEW q, Table(q, S), NEW X, NEW g, Keeps(g, S, X),
           NEW i \in LiveAt(q), NEW p \in Phases,
           NEW f, ShownBy(f, q, g)
    PROVE  /\ p \in LivePhases => Line(Stamp(q, i, p), g) = Select(f, LiveAt(q))
           /\ p \notin LivePhases =>
                 Line(Stamp(q, i, p), g) = Select(f, LiveAt(q) \ {i})
<1> DEFINE r == Stamp(q, i, p)
           h == [j \in DOMAIN r |-> g[r[j]]]
<1>1. /\ LiveAt(q) \in SUBSET Nat /\ IsFiniteSet(LiveAt(q)) /\ LiveAt(q) \in SUBSET (DOMAIN q)
      /\ \A j \in DOMAIN q : q[j] \in S
  BY Indices DEF Table
<1>2. i \in DOMAIN q
  BY <1>1
<1>3. /\ DOMAIN r = DOMAIN q /\ r[i].phase = p /\ r[i] = WithPhase(q[i], p)
      /\ \A j \in DOMAIN q : j # i => r[j] = q[j]
  BY <1>2, StampedRows
<1>4. Line(r, g) = Select(h, LiveAt(r))
  BY DEF Line
<1> HIDE DEF r
<1>5. \A j \in DOMAIN q : f[j] = h[j]
  <2>1. g[r[i]] = g[q[i]]
    BY <1>1, <1>2, <1>3 DEF Keeps
  <2>2. \A j \in DOMAIN q : g[r[j]] = g[q[j]]
    BY <1>3, <2>1
  <2> QED
    BY <1>3, <2>2 DEF ShownBy
<1>6. LiveAt(r) = IF p \in LivePhases THEN LiveAt(q) ELSE LiveAt(q) \ {i}
  BY <1>3 DEF LiveAt, IsLive, LivePhases
<1>7. LiveAt(r) \in SUBSET Nat /\ IsFiniteSet(LiveAt(r)) /\ LiveAt(r) \in SUBSET (DOMAIN q)
  <2>1. LiveAt(r) \in SUBSET LiveAt(q)
    BY <1>6
  <2> QED
    BY <1>1, <2>1, FS_Subset
<1> HIDE DEF h
<1>8. Select(h, LiveAt(r)) = Select(f, LiveAt(r))
  <2>1. \A j \in LiveAt(r) : h[j] = f[j]
    BY <1>5, <1>7
  <2> QED
    BY <1>7, <2>1, SelectAgree
<1> QED
  BY <1>4, <1>6, <1>8 DEF r

(* Somebody's entry leaves the table. *)
LEMMA LineDropped ==
    ASSUME NEW S, NEW q, Table(q, S), NEW X, NEW g, Keeps(g, S, X), NEW i \in DOMAIN q,
           NEW f, ShownBy(f, q, g)
    PROVE  Line(Drop(q, i), g) = Select(f, LiveAt(q) \ {i})
<1> DEFINE r == Drop(q, i)
           h == [j \in DOMAIN r |-> g[r[j]]]
           o == [j \in LiveAt(r) |-> Old(j, i)]
<1>1. /\ Table(r, S)
      /\ \A j \in DOMAIN r : j \in Nat /\ Old(j, i) \in DOMAIN q \ {i} /\ r[j] = q[Old(j, i)]
      /\ \A k \in DOMAIN q \ {i} : \E j \in DOMAIN r : Old(j, i) = k
  BY Dropped
<1>2. Line(r, g) = Select(h, LiveAt(r))
  BY DEF Line
<1> HIDE DEF r
<1>3. /\ LiveAt(r) \in SUBSET Nat /\ IsFiniteSet(LiveAt(r)) /\ LiveAt(r) \in SUBSET (DOMAIN r)
      /\ LiveAt(q) \ {i} \in SUBSET Nat /\ i \in Nat
  BY <1>1, Indices DEF Table
<1>4. \A j \in DOMAIN r : j \in LiveAt(r) <=> Old(j, i) \in LiveAt(q) \ {i}
  BY <1>1 DEF LiveAt
<1>5. Matches(o, LiveAt(r), LiveAt(q) \ {i})
  <2>1. \A j \in LiveAt(r) : o[j] = Old(j, i) /\ o[j] \in LiveAt(q) \ {i}
    BY <1>3, <1>4
  <2>2. o \in [LiveAt(r) -> LiveAt(q) \ {i}]
    BY <2>1
  <2>3. \A j, k \in LiveAt(r) : j < k => Old(j, i) < Old(k, i)
    BY <1>3 DEF Old
  <2>4. ASSUME NEW k \in LiveAt(q) \ {i} PROVE \E j \in LiveAt(r) : Old(j, i) = k
    <3>1. k \in DOMAIN q \ {i}
      BY DEF LiveAt
    <3>2. PICK j \in DOMAIN r : Old(j, i) = k
      BY <1>1, <3>1
    <3> QED
      BY <1>4, <3>2
  <2> HIDE DEF o
  <2> QED
    BY <2>1, <2>2, <2>3, <2>4 DEF Matches
<1>6. \A j \in LiveAt(r) : h[j] = f[o[j]]
  <2>1. \A j \in LiveAt(r) : h[j] = g[r[j]] /\ o[j] = Old(j, i)
    BY <1>3
  <2>2. \A j \in DOMAIN q : f[j] = g[q[j]]
    BY DEF ShownBy
  <2> HIDE DEF h, o
  <2> QED
    BY <1>1, <1>3, <2>1, <2>2
<1> HIDE DEF h, o
<1>7. Select(h, LiveAt(r)) = Select(f, LiveAt(q) \ {i})
  BY <1>3, <1>5, <1>6, SelectSame
<1> QED
  BY <1>2, <1>7 DEF r

(* The first in line is served and leaves it. *)
LEMMA LineServed ==
    ASSUME NEW S, NEW q, Table(q, S), NEW X, NEW g, Keeps(g, S, X),
           LiveAt(q) # {}, NEW i, i = FirstLive(q)
    PROVE  /\ Line(q, g) # <<>> /\ Head(Line(q, g)) = g[q[i]]
           /\ Line(Served(q, i), g) = Tail(Line(q, g))
<1>1. PICK f : ShownBy(f, q, g)
  BY DEF ShownBy
<1>2. /\ f \in [DOMAIN q -> X] /\ \A j \in DOMAIN q : f[j] = g[q[j]]
      /\ Line(q, g) = Select(f, LiveAt(q))
  BY <1>1, LineOf
<1>3. i \in LiveAt(q) /\ i \in DOMAIN q /\ \A j \in LiveAt(q) : i <= j
  BY FirstIsLive
<1>4. /\ Select(f, LiveAt(q)) # <<>> /\ Head(Select(f, LiveAt(q))) = f[i]
      /\ Select(f, LiveAt(q) \ {i}) = Tail(Select(f, LiveAt(q)))
  <2>1. /\ Len(q) \in Nat /\ DOMAIN q = 1 .. Len(q) /\ LiveAt(q) \in SUBSET (1 .. Len(q))
    BY Indices DEF Table
  <2>2. f \in [1 .. Len(q) -> X]
    BY <1>2, <2>1
  <2> QED
    BY ONLY <1>3, <2>1, <2>2, SelectFirst, ZenonT(40)
<1>5. Line(Served(q, i), g) = Select(f, LiveAt(q) \ {i})
  <2>1. CASE q[i].phase = "Committed"
    <3>1. Served(q, i) = Drop(q, i)
      BY <2>1 DEF Served
    <3>2. Line(Drop(q, i), g) = Select(f, LiveAt(q) \ {i})
      BY <1>1, <1>3, LineDropped
    <3> QED
      BY <3>1, <3>2
  <2>2. CASE q[i].phase # "Committed"
    <3>1. Served(q, i) = Stamp(q, i, "Value")
      BY <2>2 DEF Served
    <3>2. "Value" \in Phases /\ "Value" \notin LivePhases
      BY DEF Phases, LivePhases
    <3>3. ASSUME NEW p \in Phases, p \notin LivePhases
          PROVE  Line(Stamp(q, i, p), g) = Select(f, LiveAt(q) \ {i})
      BY <1>1, <1>3, <3>3, LineStamped
    <3> QED
      BY <3>1, <3>2, <3>3
  <2> QED
    BY <2>1, <2>2
<1> QED
  BY <1>2, <1>3, <1>4, <1>5

(* The two lines: receivers as their contexts, senders with their values. *)
AsReceiver == [e \in Waiter |-> e.ctx]

LEMMA ReceiversInLine ==
    ASSUME NEW q, Table(q, Waiter)
    PROVE  /\ LiveContexts(q) = <<>> <=> LiveAt(q) = {}
           /\ \A e \in Waiter : e.phase = "Pending" /\ ~Has(q, e.ctx) =>
                 LiveContexts(Append(q, e)) = Append(LiveContexts(q), AsReceiver[e])
           /\ \A i \in DOMAIN q : q[i].phase = "Pending" =>
                 LiveContexts(Stamp(q, i, "Committed")) = LiveContexts(q)
           /\ \A i \in DOMAIN q : i \notin LiveAt(q) =>
                 LiveContexts(Drop(q, i)) = LiveContexts(q)
           /\ LiveAt(q) # {} =>
                 /\ LiveContexts(q) # <<>>
                 /\ Head(LiveContexts(q)) = AsReceiver[q[FirstLive(q)]]
                 /\ LiveContexts(Served(q, FirstLive(q))) = Tail(LiveContexts(q))
<1>1. Keeps(AsReceiver, Waiter, Contexts)
  BY DEF Keeps, WithPhase, AsReceiver, Waiter
<1>2. ASSUME NEW r, Table(r, Waiter) PROVE LiveContexts(r) = Line(r, AsReceiver)
  <2>1. \A i \in DOMAIN r : r[i] \in Waiter
    BY <1>2 DEF Table
  <2>2. \A i \in DOMAIN r : AsReceiver[r[i]] = r[i].ctx
    BY <2>1 DEF AsReceiver
  <2>3. [i \in DOMAIN r |-> AsReceiver[r[i]]] = [i \in DOMAIN r |-> r[i].ctx]
    BY <2>2
  <2> QED
    BY <2>3 DEF Line, LiveContexts
<1>3. LiveContexts(q) = Line(q, AsReceiver)
  BY <1>2
<1>4. PICK f : ShownBy(f, q, AsReceiver)
  BY DEF ShownBy
<1>5. Line(q, AsReceiver) = Select(f, LiveAt(q)) /\ (Line(q, AsReceiver) = <<>> <=> LiveAt(q) = {})
  BY <1>1, <1>4, LineOf
<1>6. ASSUME NEW i \in DOMAIN q, q[i].phase = "Pending"
      PROVE  LiveContexts(Stamp(q, i, "Committed")) = LiveContexts(q)
  <2>1. "Committed" \in Phases /\ "Committed" \in LivePhases
    BY DEF Phases, LivePhases
  <2>2. i \in LiveAt(q)
    BY <1>6 DEF LiveAt, IsLive
  <2>3. ASSUME NEW p \in Phases, p \in LivePhases
        PROVE  /\ Line(Stamp(q, i, p), AsReceiver) = Select(f, LiveAt(q))
               /\ Table(Stamp(q, i, p), Waiter)
    <3>1. /\ p \in LivePhases => Line(Stamp(q, i, p), AsReceiver) = Select(f, LiveAt(q))
          /\ p \notin LivePhases =>
                Line(Stamp(q, i, p), AsReceiver) = Select(f, LiveAt(q) \ {i})
      BY <1>1, <1>4, <2>2, LineStamped
    <3>2. Table(Stamp(q, i, p), Waiter)
      BY <1>6, Stamped
    <3> QED
      BY <2>3, <3>1, <3>2
  <2>4. /\ Line(Stamp(q, i, "Committed"), AsReceiver) = Select(f, LiveAt(q))
        /\ Table(Stamp(q, i, "Committed"), Waiter)
    BY <2>1, <2>3
  <2> QED
    BY <1>2, <1>3, <1>5, <2>4
<1>7. ASSUME NEW i \in DOMAIN q, i \notin LiveAt(q)
      PROVE  LiveContexts(Drop(q, i)) = LiveContexts(q)
  <2>1. Line(Drop(q, i), AsReceiver) = Select(f, LiveAt(q) \ {i})
    BY <1>1, <1>4, <1>7, LineDropped
  <2>2. LiveAt(q) \ {i} = LiveAt(q)
    BY <1>7
  <2>3. Table(Drop(q, i), Waiter)
    BY <1>7, Dropped
  <2> QED
    BY <1>2, <1>3, <1>5, <2>1, <2>2, <2>3
<1>8. ASSUME NEW e \in Waiter, e.phase = "Pending", ~Has(q, e.ctx)
      PROVE  LiveContexts(Append(q, e)) = Append(LiveContexts(q), AsReceiver[e])
  <2>1. Line(Append(q, e), AsReceiver) = Append(Line(q, AsReceiver), AsReceiver[e])
    BY <1>1, <1>8, LineGrows
  <2>2. Table(Append(q, e), Waiter)
    BY <1>8, Appended
  <2> QED
    BY <1>2, <1>3, <2>1, <2>2
<1>9. ASSUME LiveAt(q) # {}
      PROVE  /\ LiveContexts(q) # <<>>
             /\ Head(LiveContexts(q)) = AsReceiver[q[FirstLive(q)]]
             /\ LiveContexts(Served(q, FirstLive(q))) = Tail(LiveContexts(q))
  <2>1. PICK i : i = FirstLive(q)
    OBVIOUS
  <2>2. /\ Line(q, AsReceiver) # <<>> /\ Head(Line(q, AsReceiver)) = AsReceiver[q[i]]
        /\ Line(Served(q, i), AsReceiver) = Tail(Line(q, AsReceiver))
    BY <1>1, <1>9, <2>1, LineServed
  <2>3. Table(Served(q, i), Waiter)
    BY <1>9, <2>1, ServedFirst
  <2> QED
    BY <1>2, <1>3, <2>1, <2>2, <2>3
<1> QED
  BY <1>3, <1>5, <1>6, <1>7, <1>8, <1>9

AsSender == [e \in PendingSend |-> [ctx |-> e.ctx, value |-> e.value]]

LEMMA SendersInLine ==
    ASSUME NEW q, Table(q, PendingSend)
    PROVE  /\ LiveSends(q) = <<>> <=> LiveAt(q) = {}
           /\ \A e \in PendingSend : e.phase = "Pending" /\ ~Has(q, e.ctx) =>
                 LiveSends(Append(q, e)) = Append(LiveSends(q), AsSender[e])
           /\ \A i \in DOMAIN q : q[i].phase = "Pending" =>
                 LiveSends(Stamp(q, i, "Committed")) = LiveSends(q)
           /\ \A i \in DOMAIN q : i \notin LiveAt(q) =>
                 LiveSends(Drop(q, i)) = LiveSends(q)
           /\ LiveAt(q) # {} =>
                 /\ LiveSends(q) # <<>>
                 /\ Head(LiveSends(q)) = AsSender[q[FirstLive(q)]]
                 /\ LiveSends(Served(q, FirstLive(q))) = Tail(LiveSends(q))
<1>1. Keeps(AsSender, PendingSend, [ctx : Contexts, value : Values])
  BY DEF Keeps, WithPhase, AsSender, PendingSend
<1>2. ASSUME NEW r, Table(r, PendingSend) PROVE LiveSends(r) = Line(r, AsSender)
  <2>1. \A i \in DOMAIN r : r[i] \in PendingSend
    BY <1>2 DEF Table
  <2>2. \A i \in DOMAIN r : AsSender[r[i]] = [ctx |-> r[i].ctx, value |-> r[i].value]
    BY <2>1 DEF AsSender
  <2>3. [i \in DOMAIN r |-> AsSender[r[i]]] =
        [i \in DOMAIN r |-> [ctx |-> r[i].ctx, value |-> r[i].value]]
    BY <2>2
  <2> QED
    BY <2>3 DEF Line, LiveSends
<1>3. LiveSends(q) = Line(q, AsSender)
  BY <1>2
<1>4. PICK f : ShownBy(f, q, AsSender)
  BY DEF ShownBy
<1>5. Line(q, AsSender) = Select(f, LiveAt(q)) /\ (Line(q, AsSender) = <<>> <=> LiveAt(q) = {})
  BY <1>1, <1>4, LineOf
<1>6. ASSUME NEW i \in DOMAIN q, q[i].phase = "Pending"
      PROVE  LiveSends(Stamp(q, i, "Committed")) = LiveSends(q)
  <2>1. "Committed" \in Phases /\ "Committed" \in LivePhases
    BY DEF Phases, LivePhases
  <2>2. i \in LiveAt(q)
    BY <1>6 DEF LiveAt, IsLive
  <2>3. ASSUME NEW p \in Phases, p \in LivePhases
        PROVE  /\ Line(Stamp(q, i, p), AsSender) = Select(f, LiveAt(q))
               /\ Table(Stamp(q, i, p), PendingSend)
    <3>1. /\ p \in LivePhases => Line(Stamp(q, i, p), AsSender) = Select(f, LiveAt(q))
          /\ p \notin LivePhases =>
                Line(Stamp(q, i, p), AsSender) = Select(f, LiveAt(q) \ {i})
      BY <1>1, <1>4, <2>2, LineStamped
    <3>2. Table(Stamp(q, i, p), PendingSend)
      BY <1>6, Stamped
    <3> QED
      BY <2>3, <3>1, <3>2
  <2>4. /\ Line(Stamp(q, i, "Committed"), AsSender) = Select(f, LiveAt(q))
        /\ Table(Stamp(q, i, "Committed"), PendingSend)
    BY <2>1, <2>3
  <2> QED
    BY <1>2, <1>3, <1>5, <2>4
<1>7. ASSUME NEW i \in DOMAIN q, i \notin LiveAt(q)
      PROVE  LiveSends(Drop(q, i)) = LiveSends(q)
  <2>1. Line(Drop(q, i), AsSender) = Select(f, LiveAt(q) \ {i})
    BY <1>1, <1>4, <1>7, LineDropped
  <2>2. LiveAt(q) \ {i} = LiveAt(q)
    BY <1>7
  <2>3. Table(Drop(q, i), PendingSend)
    BY <1>7, Dropped
  <2> QED
    BY <1>2, <1>3, <1>5, <2>1, <2>2, <2>3
<1>8. ASSUME NEW e \in PendingSend, e.phase = "Pending", ~Has(q, e.ctx)
      PROVE  LiveSends(Append(q, e)) = Append(LiveSends(q), AsSender[e])
  <2>1. Line(Append(q, e), AsSender) = Append(Line(q, AsSender), AsSender[e])
    BY <1>1, <1>8, LineGrows
  <2>2. Table(Append(q, e), PendingSend)
    BY <1>8, Appended
  <2> QED
    BY <1>2, <1>3, <2>1, <2>2
<1>9. ASSUME LiveAt(q) # {}
      PROVE  /\ LiveSends(q) # <<>>
             /\ Head(LiveSends(q)) = AsSender[q[FirstLive(q)]]
             /\ LiveSends(Served(q, FirstLive(q))) = Tail(LiveSends(q))
  <2>1. PICK i : i = FirstLive(q)
    OBVIOUS
  <2>2. /\ Line(q, AsSender) # <<>> /\ Head(Line(q, AsSender)) = AsSender[q[i]]
        /\ Line(Served(q, i), AsSender) = Tail(Line(q, AsSender))
    BY <1>1, <1>9, <2>1, LineServed
  <2>3. Table(Served(q, i), PendingSend)
    BY <1>9, <2>1, ServedFirst
  <2> QED
    BY <1>2, <1>3, <2>1, <2>2, <2>3
<1> QED
  BY <1>3, <1>5, <1>6, <1>7, <1>8, <1>9

(* A step the abstract channel does not see. *)
LEMMA Unseen ==
    ASSUME ChannelInv, ChannelInv', UNCHANGED <<capacity, buffered, closed>>,
           LiveContexts(waiters') = LiveContexts(waiters),
           LiveSends(pending') = LiveSends(pending),
           \A d \in Contexts : Shown(d)' = Shown(d)
    PROVE  UNCHANGED Abstract!chanVars
<1>1. Outcomes' = Outcomes
  BY OutcomesSame
<1> QED
  BY <1>1 DEF Abstract!chanVars, Outcomes

(* The sections between the decision of a call and its return. *)
LEMMA MigrateUnseen ==
    ASSUME ChannelInv, NEW c \in Contexts, Migrate(c)
    PROVE  UNCHANGED Abstract!chanVars
<1>1. ChannelInv' /\ \A d \in Contexts \ {c} : SameView(d)
  BY MigrateStep
<1>2. /\ at[c] = "migrate" /\ at' = [at EXCEPT ![c] = "recheck"]
      /\ UNCHANGED <<cell, rethrow, op, wakes, report>> /\ UNCHANGED slotVars
  BY DEF Migrate
<1>3. Shown(c)' = Shown(c)
  <2>1. at'[c] = "recheck" /\ Entry(c)' = Entry(c)
    BY <1>2, Facts, SlotSeen DEF Entry
  <2> QED
    BY <1>2, <2>1, SlotSeen DEF Shown
<1>4. \A d \in Contexts : Shown(d)' = Shown(d)
  BY <1>1, <1>3, SameViewSameShown
<1> QED
  BY <1>1, <1>2, <1>4, Unseen DEF slotVars

LEMMA AbortUnseen ==
    ASSUME ChannelInv, NEW c \in Contexts, Abort(c)
    PROVE  UNCHANGED Abstract!chanVars
<1>1. ChannelInv' /\ \A d \in Contexts \ {c} : SameView(d)
  BY AbortStep
<1>2. /\ at[c] = "abort" /\ at' = [at EXCEPT ![c] = "return"]
      /\ UNCHANGED <<cell, rethrow, op, wakes, report>> /\ UNCHANGED slotVars
  BY DEF Abort
<1>3. Shown(c)' = Shown(c)
  <2>1. at'[c] = "return" /\ report[c] # "none"
    BY <1>2, Facts DEF CallInv
  <2> QED
    BY <1>2, <2>1 DEF Shown
<1>4. \A d \in Contexts : Shown(d)' = Shown(d)
  BY <1>1, <1>3, SameViewSameShown
<1> QED
  BY <1>1, <1>2, <1>4, Unseen DEF slotVars

LEMMA LandUnseen ==
    ASSUME ChannelInv, NEW c \in Contexts, Land(c)
    PROVE  UNCHANGED Abstract!chanVars
<1>1. ChannelInv' /\ \A d \in Contexts \ {c} : SameView(d)
  BY LandStep
<1>2. /\ at[c] = "unwind" /\ at' = [at EXCEPT ![c] = "parked"]
      /\ UNCHANGED <<cell, rethrow, op, wakes, report>> /\ UNCHANGED slotVars
  BY DEF Land
<1>3. Shown(c)' = Shown(c)
  <2>1. at'[c] = "parked" /\ Entry(c)' = Entry(c)
    BY <1>2, Facts, SlotSeen DEF Entry
  <2> QED
    BY <1>2, <2>1, SlotSeen DEF Shown
<1>4. \A d \in Contexts : Shown(d)' = Shown(d)
  BY <1>1, <1>3, SameViewSameShown
<1> QED
  BY <1>1, <1>2, <1>4, Unseen DEF slotVars

LEMMA ResumeUnseen ==
    ASSUME ChannelInv, NEW c \in Contexts, Resume(c)
    PROVE  UNCHANGED Abstract!chanVars
<1>1. ChannelInv' /\ \A d \in Contexts \ {c} : SameView(d)
  BY ResumeStep
<1>2. /\ at[c] = "parked" /\ Entry(c) = "absent" /\ ~Coming(wakes, c)
      /\ at' = [at EXCEPT ![c] = "return"]
      /\ report' = [report EXCEPT ![c] = Outcome(c)]
      /\ Outcome(c) \in Reports \ {"none"}
      /\ UNCHANGED slotVars
  BY ResumeFacts
<1>3. Shown(c) = Outcome(c)
  <2>1. report[c] = "none" /\ ~Exceptional(wakes, c) /\ "absent" \notin LivePhases
    <3>1. CallInv(c)
      BY Facts
    <3>2. report[c] = "none"
      BY <1>2, <3>1 DEF CallInv
    <3>3. ~Exceptional(wakes, c)
      BY <1>2 DEF Coming, Exceptional
    <3> QED
      BY <3>2, <3>3 DEF LivePhases
  <2> QED
    BY <1>2, <2>1 DEF Shown, Outcome
<1>4. Shown(c)' = Outcome(c)
  <2>1. at'[c] = "return" /\ report'[c] = Outcome(c)
    BY <1>2, Facts
  <2> QED
    BY <1>2, <2>1 DEF Shown
<1>5. \A d \in Contexts : Shown(d)' = Shown(d)
  BY <1>1, <1>3, <1>4, SameViewSameShown
<1> QED
  BY <1>1, <1>2, <1>5, Unseen DEF slotVars

LEMMA SendWakeUnseen ==
    ASSUME ChannelInv, NEW c \in Contexts, SendWake(c)
    PROVE  UNCHANGED Abstract!chanVars
<1>1. ChannelInv' /\ \E x \in Contexts \ {c} :
                        /\ \A d \in Contexts \ {c, x} : SameView(d)
                        /\ Shown(x)' = Shown(x) /\ Shown(c)' = Shown(c)
  BY SendWakeStep
<1>2. \A d \in Contexts : Shown(d)' = Shown(d)
  BY <1>1, SameViewSameShown
<1>3. UNCHANGED slotVars
  BY DEF SendWake
<1> QED
  BY <1>1, <1>2, <1>3, Unseen DEF slotVars

LEMMA RecheckRecvUnseen ==
    ASSUME ChannelInv, NEW c \in Contexts, RecheckRecv(c)
    PROVE  UNCHANGED Abstract!chanVars
<1>1. ChannelInv' /\ \A d \in Contexts \ {c} : SameView(d)
  BY RecheckRecvStep
<1>2. PICK i : i = OwnAt(waiters, c)
  OBVIOUS
<1>3. /\ at[c] = "recheck" /\ op[c] = "recv"
      /\ UNCHANGED <<capacity, buffered, closed, pending, cell, rethrow, op, wakes>>
      /\ Table(waiters, Waiter) /\ CallInv(c) /\ ParkInv(c)
      /\ CallInv(c)' /\ ParkInv(c)' /\ Table(waiters', Waiter)
  <2>1. CallInv(c)' /\ ParkInv(c)' /\ Table(waiters', Waiter)
    BY <1>1, BothAreRows DEF ChannelInv, ChannelTypeOK, Table
  <2> QED
    BY <2>1, Facts DEF RecheckRecv
<1>4. /\ Entry(c) = PhaseOf(waiters, c) /\ Entry(c)' = PhaseOf(waiters', c)
      /\ PhaseOf(waiters, c) \in {"Pending", "Value", "Closed"}
      /\ report[c] = "none" /\ ~rethrow[c] /\ ~Exceptional(wakes, c)
  <2>1. Entry(c) = PhaseOf(waiters, c) /\ Entry(c)' = PhaseOf(waiters', c)
    BY <1>3 DEF Entry
  <2>2. Entry(c) \in {"Pending", "Value", "Closed"} /\ report[c] = "none"
    BY <1>3 DEF CallInv
  <2>3. ~rethrow[c] /\ ~Coming(wakes, c)
    BY <1>3 DEF ParkInv
  <2> QED
    BY <2>1, <2>2, <2>3 DEF Coming, Exceptional
<1>5. i \in DOMAIN waiters /\ waiters[i].phase = PhaseOf(waiters, c)
  BY <1>2, <1>3, <1>4, Own, PhaseType DEF Table
<1>6. CASE /\ StillPending(waiters[i]) /\ waiters' = Stamp(waiters, i, "Committed")
           /\ at' = [at EXCEPT ![c] = "unwind"] /\ UNCHANGED report
  <2>1. waiters[i].phase = "Pending" /\ at'[c] = "unwind"
    BY <1>6, Facts DEF StillPending
  <2>2. LiveContexts(waiters') = LiveContexts(waiters)
    BY <1>3, <1>5, <1>6, <2>1, ReceiversInLine
  <2>3. Entry(c)' \in {"Committed", "absent"}
    BY <1>3, <2>1 DEF CallInv
  <2>4. Entry(c)' = "Committed"
    <3>1. PhaseOf(Stamp(waiters, i, "Committed"), c) = "Committed"
      <4>1. "Committed" \in Phases /\ waiters[i].ctx = c
        BY <1>2, <1>3, <1>4, Own, PhaseType DEF Table, Phases
      <4> QED
        BY <1>3, <1>5, <4>1, Stamped
    <3> QED
      BY <1>4, <1>6, <3>1
  <2>5. Shown(c) = "waiting"
    BY <1>3, <1>4, <1>5, <2>1 DEF Shown, LivePhases
  <2>6. Shown(c)' = "waiting"
    BY <1>4, <1>6, <2>1, <2>4 DEF Shown, LivePhases
  <2>7. \A d \in Contexts : Shown(d)' = Shown(d)
    BY <1>1, <2>5, <2>6, SameViewSameShown
  <2>8. LiveSends(pending') = LiveSends(pending)
    BY <1>3
  <2> QED
    BY <1>1, <1>3, <2>2, <2>7, <2>8, Unseen
<1>7. CASE /\ ~StillPending(waiters[i]) /\ waiters' = Drop(waiters, i)
           /\ report' = [report EXCEPT ![c] =
                            IF waiters[i].phase = "Closed" THEN "closed" ELSE cell[c]]
           /\ at' = [at EXCEPT ![c] = "abort"]
  <2>1. waiters[i].phase \in {"Value", "Closed"} /\ at'[c] = "abort"
    BY <1>4, <1>5, <1>7, Facts DEF StillPending
  <2>2. i \notin LiveAt(waiters)
    BY <2>1 DEF LiveAt, IsLive
  <2>3. LiveContexts(waiters') = LiveContexts(waiters)
    BY <1>3, <1>5, <1>7, <2>2, ReceiversInLine
  <2>4. report'[c] = IF waiters[i].phase = "Closed" THEN "closed" ELSE cell[c]
    BY <1>7, Facts
  <2>5. Shown(c) = IF waiters[i].phase = "Closed" THEN "closed" ELSE cell[c]
    BY <1>3, <1>4, <1>5, <2>1 DEF Shown, LivePhases
  <2>6. Shown(c)' = report'[c]
    <3>1. report'[c] # "none"
      BY <1>3, <2>1 DEF CallInv
    <3> QED
      BY <2>1, <3>1 DEF Shown
  <2>7. \A d \in Contexts : Shown(d)' = Shown(d)
    BY <1>1, <2>4, <2>5, <2>6, SameViewSameShown
  <2>8. LiveSends(pending') = LiveSends(pending)
    BY <1>3
  <2> QED
    BY <1>1, <1>3, <2>3, <2>7, <2>8, Unseen
<1> QED
  BY <1>2, <1>6, <1>7 DEF RecheckRecv

LEMMA RecheckSendUnseen ==
    ASSUME ChannelInv, NEW c \in Contexts, RecheckSend(c)
    PROVE  UNCHANGED Abstract!chanVars
<1>1. ChannelInv' /\ \A d \in Contexts \ {c} : SameView(d)
  BY RecheckSendStep
<1>2. PICK i : i = OwnAt(pending, c)
  OBVIOUS
<1>3. /\ at[c] = "recheck" /\ op[c] = "send"
      /\ UNCHANGED <<capacity, buffered, closed, waiters, cell, rethrow, op, wakes>>
      /\ Table(pending, PendingSend) /\ CallInv(c) /\ ParkInv(c)
      /\ CallInv(c)' /\ ParkInv(c)' /\ Table(pending', PendingSend)
  <2>1. CallInv(c)' /\ ParkInv(c)' /\ Table(pending', PendingSend)
    BY <1>1, BothAreRows DEF ChannelInv, ChannelTypeOK, Table
  <2> QED
    BY <2>1, Facts DEF RecheckSend
<1>4. /\ Entry(c) = PhaseOf(pending, c) /\ Entry(c)' = PhaseOf(pending', c)
      /\ PhaseOf(pending, c) \in {"Pending", "Value", "Closed"}
      /\ report[c] = "none" /\ ~rethrow[c] /\ ~Exceptional(wakes, c)
  <2>1. Entry(c) = PhaseOf(pending, c) /\ Entry(c)' = PhaseOf(pending', c)
    BY <1>3 DEF Entry
  <2>2. Entry(c) \in {"Pending", "Value", "Closed"} /\ report[c] = "none"
    BY <1>3 DEF CallInv
  <2>3. ~rethrow[c] /\ ~Coming(wakes, c)
    BY <1>3 DEF ParkInv
  <2> QED
    BY <2>1, <2>2, <2>3 DEF Coming, Exceptional
<1>5. i \in DOMAIN pending /\ pending[i].phase = PhaseOf(pending, c)
  BY <1>2, <1>3, <1>4, Own, PhaseType DEF Table
<1>6. CASE /\ StillPending(pending[i]) /\ pending' = Stamp(pending, i, "Committed")
           /\ at' = [at EXCEPT ![c] = "unwind"] /\ UNCHANGED report
  <2>1. pending[i].phase = "Pending" /\ at'[c] = "unwind"
    BY <1>6, Facts DEF StillPending
  <2>2. LiveSends(pending') = LiveSends(pending)
    BY <1>3, <1>5, <1>6, <2>1, SendersInLine
  <2>3. Entry(c)' \in {"Committed", "absent"}
    BY <1>3, <2>1 DEF CallInv
  <2>4. Entry(c)' = "Committed"
    <3>1. PhaseOf(Stamp(pending, i, "Committed"), c) = "Committed"
      <4>1. "Committed" \in Phases /\ pending[i].ctx = c
        BY <1>2, <1>3, <1>4, Own, PhaseType DEF Table, Phases
      <4> QED
        BY <1>3, <1>5, <4>1, Stamped
    <3> QED
      BY <1>4, <1>6, <3>1
  <2>5. Shown(c) = "waiting"
    BY <1>3, <1>4, <1>5, <2>1 DEF Shown, LivePhases
  <2>6. Shown(c)' = "waiting"
    BY <1>4, <1>6, <2>1, <2>4 DEF Shown, LivePhases
  <2>7. \A d \in Contexts : Shown(d)' = Shown(d)
    BY <1>1, <2>5, <2>6, SameViewSameShown
  <2>8. LiveContexts(waiters') = LiveContexts(waiters)
    BY <1>3
  <2> QED
    BY <1>1, <1>3, <2>2, <2>7, <2>8, Unseen
<1>7. CASE /\ ~StillPending(pending[i]) /\ pending' = Drop(pending, i)
           /\ report' = [report EXCEPT ![c] =
                            IF pending[i].phase = "Closed" THEN "closed" ELSE "sent"]
           /\ at' = [at EXCEPT ![c] = "abort"]
  <2>1. pending[i].phase \in {"Value", "Closed"} /\ at'[c] = "abort"
    BY <1>4, <1>5, <1>7, Facts DEF StillPending
  <2>2. i \notin LiveAt(pending)
    BY <2>1 DEF LiveAt, IsLive
  <2>3. LiveSends(pending') = LiveSends(pending)
    BY <1>3, <1>5, <1>7, <2>2, SendersInLine
  <2>4. report'[c] = IF pending[i].phase = "Closed" THEN "closed" ELSE "sent"
    BY <1>7, Facts
  <2>5. Shown(c) = IF pending[i].phase = "Closed" THEN "closed" ELSE "sent"
    BY <1>3, <1>4, <1>5, <2>1 DEF Shown, LivePhases
  <2>6. Shown(c)' = report'[c]
    <3>1. report'[c] # "none"
      BY <1>3, <2>1 DEF CallInv
    <3> QED
      BY <2>1, <3>1 DEF Shown
  <2>7. \A d \in Contexts : Shown(d)' = Shown(d)
    BY <1>1, <2>4, <2>5, <2>6, SameViewSameShown
  <2>8. LiveContexts(waiters') = LiveContexts(waiters)
    BY <1>3
  <2> QED
    BY <1>1, <1>3, <2>3, <2>7, <2>8, Unseen
<1> QED
  BY <1>2, <1>6, <1>7 DEF RecheckSend

(* The calls themselves. *)
LEMMA ReturnRefines ==
    ASSUME ChannelInv, ChannelInv', NEW c \in Contexts, Return(c),
           \A d \in Contexts \ {c} : SameView(d)
    PROVE  Abstract!Return(c)
<1>1. \A d \in Contexts : OutcomeOf(d) = Shown(d)
  BY InvShows DEF AllShown
<1>2. /\ at[c] = "return" /\ at' = [at EXCEPT ![c] = "run"]
      /\ UNCHANGED <<capacity, buffered, closed, waiters, pending>>
      /\ CallInv(c) /\ report \in [Contexts -> Reports]
      /\ at \in [Contexts -> {"run", "wake", "migrate", "recheck", "abort",
                              "unwind", "parked", "return"}]
  BY Facts DEF Return, slotVars
<1>3. Shown(c)' = "idle"
  BY <1>2 DEF Shown
<1>4. \A d \in Contexts \ {c} : Shown(d)' = Shown(d)
  BY SameViewSameShown
<1>5. Outcomes' = [Outcomes EXCEPT ![c] = "idle"]
  BY <1>3, <1>4, OutcomesOne
<1>6. Outcomes[c] \in {"sent", "closed", "done"} \cup Values
  <2>1. Shown(c) = report[c] /\ report[c] # "none"
    BY <1>2 DEF Shown, CallInv
  <2> QED
    BY <1>1, <1>2, <2>1 DEF Outcomes, Reports
<1>7. /\ LiveContexts(waiters)' = LiveContexts(waiters)
      /\ LiveSends(pending)' = LiveSends(pending)
  BY <1>2
<1> QED
  BY <1>2, <1>5, <1>6, <1>7 DEF Abstract!Return, Abstract!Decisions, Outcomes

(* What a call that begins shows, before and after. *)
LEMMA Begins ==
    ASSUME ChannelInv, NEW c \in Contexts, at[c] = "run"
    PROVE  Shown(c) = "idle" /\ Outcomes[c] = "idle"
<1>1. OutcomeOf(c) = Shown(c)
  BY InvShows DEF AllShown
<1> QED
  BY <1>1 DEF Shown, Outcomes

LEMMA DecidedShows ==
    ASSUME ChannelInv, NEW c \in Contexts, NEW r, r # "none", NEW w, Decide(c, r, w)
    PROVE  Shown(c)' = r
<1>1. /\ report \in [Contexts -> Reports]
      /\ at \in [Contexts -> {"run", "wake", "migrate", "recheck", "abort",
                              "unwind", "parked", "return"}]
  BY Facts
<1>2. report'[c] = r
  BY <1>1 DEF Decide
<1>3. at'[c] # "run"
  BY <1>1 DEF Decide
<1> QED
  BY <1>2, <1>3 DEF Shown

LEMMA ParkShows ==
    ASSUME ChannelInv, ChannelInv', NEW c \in Contexts, at[c] = "run", GoPark(c)
    PROVE  Entry(c)' \in LivePhases => Shown(c)' = "waiting"
<1>1. at'[c] = "migrate" /\ UNCHANGED report
  BY Facts DEF GoPark
<1>2. report'[c] = "none"
  BY <1>1, Caller
<1> QED
  BY <1>1, <1>2 DEF Shown

(* Who waits has not decided anything, and is not told of a close. *)
LEMMA Waiting ==
    ASSUME ChannelInv, NEW x \in Contexts, Entry(x) \in LivePhases
    PROVE  /\ at[x] # "run" /\ report[x] = "none" /\ ~rethrow[x]
           /\ ~Exceptional(wakes, x) /\ Shown(x) = "waiting"
<1>1. CallInv(x) /\ ParkInv(x) /\ Entry(x) # "absent"
  BY Facts DEF LivePhases
<1>2. at[x] # "run" /\ report[x] = "none"
  <2>1. at[x] \notin {"run", "wake", "abort", "return"}
    BY <1>1 DEF CallInv
  <2> QED
    BY <1>1, <2>1 DEF CallInv
<1>3. ~rethrow[x] /\ ~Coming(wakes, x)
  BY <1>1 DEF ParkInv
<1>4. ~Exceptional(wakes, x)
  BY <1>3 DEF Exceptional, Coming
<1>5. Shown(x) = "waiting"
  BY <1>2 DEF Shown
<1> QED
  BY <1>2, <1>3, <1>4, <1>5

(* And only who waits shows it. *)
LEMMA OnlyWaiting ==
    ASSUME ChannelInv, NEW x \in Contexts, Shown(x) = "waiting"
    PROVE  Entry(x) \in LivePhases
<1>1. CallInv(x) /\ ParkInv(x) /\ report[x] \in Reports /\ cell[x] \in Values \cup {NoValue}
  BY Facts
<1>2. "waiting" \notin Reports
  BY ChannelAssumption DEF Reports
<1>3. at[x] # "run" /\ report[x] = "none"
  BY <1>1, <1>2 DEF Shown
<1>4. SUFFICES ASSUME Entry(x) \notin LivePhases, op[x] = "recv", ~rethrow[x],
                      Entry(x) # "Closed", ~Exceptional(wakes, x), cell[x] = "waiting"
               PROVE  FALSE
  BY <1>3 DEF Shown
<1>5. at[x] \in {"migrate", "recheck", "unwind", "parked"}
  <2>1. at[x] \in {"run", "wake", "migrate", "recheck", "abort",
                   "unwind", "parked", "return"}
    BY Facts
  <2>2. at[x] \notin {"wake", "abort", "return"}
    BY <1>1, <1>3 DEF CallInv
  <2> QED
    BY <1>3, <2>1, <2>2
<1>6. CASE at[x] \in {"migrate", "recheck"}
  <2>1. Entry(x) = "Value"
    BY <1>1, <1>4, <1>6 DEF CallInv, LivePhases
  <2>2. cell[x] \in Values
    BY <1>1, <1>4, <2>1 DEF CallInv
  <2> QED
    BY <1>4, <2>2, ChannelAssumption
<1>7. CASE at[x] \in {"unwind", "parked"}
  <2>1. Entry(x) = "absent"
    BY <1>1, <1>4, <1>7 DEF CallInv, LivePhases
  <2>2. cell[x] \in Values
    BY <1>1, <1>4, <1>7, <2>1 DEF ParkInv
  <2> QED
    BY <1>4, <2>2, ChannelAssumption
<1> QED
  BY <1>5, <1>6, <1>7

(* The one who is served shows its value, or that it has sent. *)
LEMMA ReceiverShows ==
    ASSUME ChannelInv, NEW c \in Contexts, CallOnly(c, "send"), NEW r, Decided(c, r),
           NEW x, Serves(c, x, waiters, waiters', wakes'),
           NEW val, cell' = [cell EXCEPT ![x] = val]
    PROVE  Shown(x)' = val
<1>1. /\ x \in Contexts /\ x # c /\ PhaseOf(waiters, x) \in LivePhases
      /\ PhaseOf(waiters', x) =
            IF PhaseOf(waiters, x) = "Committed" THEN "absent" ELSE "Value"
      /\ Exceptional(wakes', x) <=> Exceptional(wakes, x)
  BY DEF Serves
<1>2. /\ op'[x] = op[x] /\ at'[x] = at[x] /\ report'[x] = report[x]
      /\ rethrow'[x] = rethrow[x]
  BY <1>1, OthersSee
<1>3. op[x] = "recv"
  BY <1>1, EntryNoWake DEF LivePhases
<1>4. Entry(x) = PhaseOf(waiters, x) /\ Entry(x)' = PhaseOf(waiters', x)
  BY <1>2, <1>3 DEF Entry
<1>5. at[x] # "run" /\ report[x] = "none" /\ ~rethrow[x] /\ ~Exceptional(wakes, x)
  BY <1>1, <1>4, Waiting
<1>6. Entry(x)' \notin LivePhases /\ Entry(x)' # "Closed"
  BY <1>1, <1>4 DEF LivePhases
<1>7. cell'[x] = val
  BY <1>1, Facts
<1>8. /\ at'[x] # "run" /\ report'[x] = "none" /\ ~rethrow'[x] /\ ~Exceptional(wakes', x)
      /\ op'[x] = "recv"
  BY <1>1, <1>2, <1>3, <1>5
<1> QED
  BY <1>6, <1>7, <1>8 DEF Shown

LEMMA SenderShows ==
    ASSUME ChannelInv, NEW c \in Contexts, CallOnly(c, "recv"), NEW r, Decided(c, r),
           NEW x, Serves(c, x, pending, pending', wakes')
    PROVE  Shown(x)' = "sent"
<1>1. /\ x \in Contexts /\ x # c /\ PhaseOf(pending, x) \in LivePhases
      /\ PhaseOf(pending', x) =
            IF PhaseOf(pending, x) = "Committed" THEN "absent" ELSE "Value"
      /\ Exceptional(wakes', x) <=> Exceptional(wakes, x)
  BY DEF Serves
<1>2. /\ op'[x] = op[x] /\ at'[x] = at[x] /\ report'[x] = report[x]
      /\ rethrow'[x] = rethrow[x]
  BY <1>1, OthersSee
<1>3. op[x] = "send"
  BY <1>1, EntryNoWake DEF LivePhases
<1>4. Entry(x) = PhaseOf(pending, x) /\ Entry(x)' = PhaseOf(pending', x)
  BY <1>2, <1>3 DEF Entry
<1>5. at[x] # "run" /\ report[x] = "none" /\ ~rethrow[x] /\ ~Exceptional(wakes, x)
  BY <1>1, <1>4, Waiting
<1>6. Entry(x)' \notin LivePhases /\ Entry(x)' # "Closed"
  BY <1>1, <1>4 DEF LivePhases
<1>8. /\ at'[x] # "run" /\ report'[x] = "none" /\ ~rethrow'[x] /\ ~Exceptional(wakes', x)
      /\ op'[x] = "send"
  BY <1>1, <1>2, <1>3, <1>5
<1> QED
  BY <1>6, <1>8 DEF Shown

(* send, one lemma for each way it may go *)
LEMMA SendRefines ==
    ASSUME ChannelInv, NEW c \in Contexts, NEW v \in Values, Send(c, v)
    PROVE  Abstract!Send(c, v)
<1>1. /\ CallOnly(c, "send") /\ at[c] = "run" /\ op' = [op EXCEPT ![c] = "send"]
      /\ UNCHANGED <<capacity, closed>> /\ UNCHANGED <<capacity, closed, rethrow, parkVars>>
  BY DEF Send, Calls, CallOnly, parkVars
<1>2. Outcomes[c] = "idle" /\ (Abstract!IsFull <=> IsFull)
  BY <1>1, Begins DEF Abstract!IsFull, IsFull
<1>3. Table(waiters, Waiter) /\ Table(pending, PendingSend)
  BY Facts
<1>4. LiveContexts(waiters) = <<>> <=> LiveAt(waiters) = {}
  BY <1>3, ReceiversInLine
<1>5. CASE /\ closed /\ Decide(c, "closed", <<>>)
           /\ UNCHANGED <<buffered, waiters, pending, cell>>
  <2>1. UNCHANGED slotVars /\ UNCHANGED <<cell, rethrow, parkVars>>
    BY <1>1, <1>5 DEF slotVars
  <2>2. ChannelInv' /\ \A d \in Contexts \ {c} : SameView(d)
    BY <1>1, <1>5, <2>1, SendRefused
  <2>3. Shown(c)' = "closed"
    BY <1>5, DecidedShows
  <2>4. Outcomes' = [Outcomes EXCEPT ![c] = "closed"]
    BY <2>2, <2>3, SameViewSameShown, OutcomesOne
  <2>5. /\ LiveContexts(waiters)' = LiveContexts(waiters)
        /\ LiveSends(pending)' = LiveSends(pending)
    BY <1>5
  <2> QED
    BY <1>1, <1>2, <1>5, <2>4, <2>5 DEF Abstract!Send, Outcomes
<1>6. CASE /\ ~closed /\ LiveAt(waiters) # {}
           /\ cell' = Deposit(waiters[FirstLive(waiters)].ctx, v)
           /\ waiters' = Served(waiters, FirstLive(waiters))
           /\ Decide(c, "sent", WakeOf(waiters, FirstLive(waiters)))
           /\ UNCHANGED <<buffered, pending>>
  <2>0. PICK i : i = FirstLive(waiters)
    OBVIOUS
  <2>1. UNCHANGED <<buffered, pending, closed>>
    BY <1>1, <1>6
  <2>2. PICK x : x = waiters[i].ctx
    OBVIOUS
  <2>3. /\ ChannelInv' /\ Serves(c, waiters[i].ctx, waiters, waiters', wakes')
        /\ \A d \in Contexts \ {c, waiters[i].ctx} : SameView(d)
    BY <1>1, <1>6, <2>0, <2>1, SendHandsOver
  <2>4. Serves(c, x, waiters, waiters', wakes') /\ \A d \in Contexts \ {c, x} : SameView(d)
    BY <2>2, <2>3
  <2>5. x \in Contexts /\ x # c
    BY <2>4 DEF Serves
  <2>6. Gets(wakes, wakes', c, WakeOf(waiters, i))
    BY <1>6, <2>0 DEF Decide, Gets
  <2>7. /\ i \in DOMAIN waiters /\ waiters[i] \in Waiter
        /\ Table(Served(waiters, i), Waiter)
        /\ Serves(c, waiters[i].ctx, waiters, Served(waiters, i), wakes')
        /\ wakes'[c] = WakeOf(waiters, i)
    BY <1>1, <1>3, <1>6, <2>0, <2>6, Delivery, SMTT(30)
  <2>8. Decided(c, "sent") /\ cell' = [cell EXCEPT ![x] = v]
    BY <1>6, <2>0, <2>2, <2>7 DEF Decide, Decided, Deposit
  <2>9. Shown(c)' = "sent"
    BY <1>6, DecidedShows
  <2>10. Shown(x)' = v
    BY <1>1, <2>4, <2>8, ReceiverShows
  <2>11. Outcomes' = [Outcomes EXCEPT ![c] = "sent", ![x] = v]
    BY <2>3, <2>4, <2>5, <2>9, <2>10, SameViewSameShown, OutcomesTwo
  <2>12. /\ Head(LiveContexts(waiters)) = AsReceiver[waiters[FirstLive(waiters)]]
         /\ LiveContexts(Served(waiters, FirstLive(waiters))) = Tail(LiveContexts(waiters))
    BY <1>3, <1>6, ReceiversInLine
  <2>13. Head(LiveContexts(waiters)) = x /\ LiveContexts(waiters)' = Tail(LiveContexts(waiters))
         /\ LiveSends(pending)' = LiveSends(pending) /\ LiveContexts(waiters) # <<>>
    BY <1>4, <1>6, <2>0, <2>2, <2>7, <2>12 DEF AsReceiver
  <2> QED
    BY <1>1, <1>2, <1>6, <2>11, <2>13 DEF Abstract!Send, Outcomes
<1>7. CASE /\ ~closed /\ LiveAt(waiters) = {} /\ IsFull
           /\ pending' = Append(pending, [ctx |-> c, value |-> v, phase |-> "Pending"])
           /\ GoPark(c) /\ UNCHANGED <<buffered, waiters, cell>>
  <2>1. UNCHANGED <<buffered, waiters, closed, cell>>
    BY <1>1, <1>7
  <2>2. ChannelInv' /\ \A d \in Contexts \ {c} : SameView(d)
    BY <1>1, <1>7, <2>1, SendWaits
  <2>3. PICK e : e = [ctx |-> c, value |-> v, phase |-> "Pending"]
    OBVIOUS
  <2>4. e \in PendingSend /\ e.ctx = c /\ e.phase = "Pending" /\ ~Has(pending, c)
        /\ AsSender[e] = [ctx |-> c, value |-> v] /\ pending' = Append(pending, e)
    BY <1>1, <1>7, <2>3, Caller DEF PendingSend, Phases, AsSender
  <2>5. LiveSends(Append(pending, e)) = Append(LiveSends(pending), AsSender[e])
    BY <1>3, <2>4, SendersInLine
  <2>6. \A d : PhaseOf(Append(pending, e), d) =
                  IF d = e.ctx THEN e.phase ELSE PhaseOf(pending, d)
    BY <1>3, <2>4, Appended
  <2>7. PhaseOf(pending', c) = "Pending" /\ op'[c] = "send"
    BY <1>1, <2>4, <2>6, Facts
  <2>8. Entry(c)' \in LivePhases
    BY <2>7 DEF Entry, LivePhases
  <2>9. Shown(c)' = "waiting"
    BY <1>1, <1>7, <2>2, <2>8, ParkShows
  <2>10. Outcomes' = [Outcomes EXCEPT ![c] = "waiting"]
    BY <2>2, <2>9, SameViewSameShown, OutcomesOne
  <2>11. /\ LiveContexts(waiters)' = LiveContexts(waiters) /\ LiveContexts(waiters) = <<>>
         /\ LiveSends(pending)' = Append(LiveSends(pending), [ctx |-> c, value |-> v])
    BY <1>4, <1>7, <2>4, <2>5
  <2> QED
    BY <1>1, <1>2, <1>7, <2>10, <2>11 DEF Abstract!Send, Outcomes
<1>8. CASE /\ ~closed /\ LiveAt(waiters) = {} /\ ~IsFull
           /\ buffered' = Append(buffered, v) /\ Decide(c, "sent", <<>>)
           /\ UNCHANGED <<waiters, pending, cell>>
  <2>1. UNCHANGED <<waiters, pending, closed, cell>>
    BY <1>1, <1>8
  <2>2. ChannelInv' /\ \A d \in Contexts \ {c} : SameView(d)
    BY <1>1, <1>8, <2>1, SendBuffers
  <2>3. Shown(c)' = "sent"
    BY <1>8, DecidedShows
  <2>4. Outcomes' = [Outcomes EXCEPT ![c] = "sent"]
    BY <2>2, <2>3, SameViewSameShown, OutcomesOne
  <2>5. /\ LiveContexts(waiters)' = LiveContexts(waiters) /\ LiveContexts(waiters) = <<>>
        /\ LiveSends(pending)' = LiveSends(pending)
    BY <1>4, <1>8
  <2> QED
    BY <1>1, <1>2, <1>8, <2>4, <2>5 DEF Abstract!Send, Outcomes
<1> QED
  BY <1>5, <1>6, <1>7, <1>8 DEF Send

(* recv, likewise; a freed place goes to the first sender in line *)
LEMMA RecvRefines ==
    ASSUME ChannelInv, NEW c \in Contexts, Recv(c)
    PROVE  Abstract!Recv(c)
<1>1. /\ CallOnly(c, "recv") /\ at[c] = "run" /\ op' = [op EXCEPT ![c] = "recv"]
      /\ UNCHANGED <<capacity, closed>> /\ UNCHANGED <<capacity, closed, rethrow, parkVars>>
  BY DEF Recv, Calls, CallOnly, parkVars
<1>2. Outcomes[c] = "idle"
  BY <1>1, Begins
<1>3. Table(waiters, Waiter) /\ Table(pending, PendingSend) /\ buffered \in Seq(Values)
  BY Facts
<1>4. LiveSends(pending) = <<>> <=> LiveAt(pending) = {}
  BY <1>3, SendersInLine
<1>5. CASE /\ buffered # <<>> /\ cell' = Deposit(c, Head(buffered))
           /\ StagePendingSend(Tail(buffered)) /\ Decide(c, Head(buffered), StagedWake)
           /\ UNCHANGED waiters
  <2>1. cell' = [cell EXCEPT ![c] = Head(buffered)]
    BY <1>5 DEF Deposit
  <2>2. Head(buffered) # "none"
    BY <1>3, <1>5, ChannelAssumption
  <2>3. Shown(c)' = Head(buffered)
    BY <1>5, <2>2, DecidedShows
  <2>4. LiveContexts(waiters)' = LiveContexts(waiters)
    BY <1>5
  <2>5. CASE LiveAt(pending) = {}
    <3>1. /\ UNCHANGED <<waiters, pending, closed>> /\ buffered' = Tail(buffered)
          /\ Decide(c, Head(buffered), <<>>)
      BY <1>1, <1>5, <2>5 DEF StagePendingSend, StagedWake
    <3>2. ChannelInv' /\ \A d \in Contexts \ {c} : SameView(d)
      BY <1>1, <1>5, <2>1, <2>5, <3>1, RecvTakes
    <3>3. Outcomes' = [Outcomes EXCEPT ![c] = Head(buffered)]
      BY <2>3, <3>2, SameViewSameShown, OutcomesOne
    <3>4. LiveSends(pending)' = LiveSends(pending) /\ LiveSends(pending) = <<>>
      BY <1>4, <2>5, <3>1
    <3> QED
      BY <1>1, <1>2, <1>5, <2>4, <3>1, <3>3, <3>4 DEF Abstract!Recv, Outcomes
  <2>6. CASE LiveAt(pending) # {}
    <3>0. PICK i : i = FirstLive(pending)
      OBVIOUS
    <3>1. /\ pending' = Served(pending, i)
          /\ buffered' = Append(Tail(buffered), pending[i].value)
          /\ Decide(c, Head(buffered), WakeOf(pending, i))
          /\ UNCHANGED <<waiters, closed>>
      BY <1>1, <1>5, <2>6, <3>0 DEF StagePendingSend, StagedWake
    <3>2. PICK x : x = pending[i].ctx
      OBVIOUS
    <3>3. /\ ChannelInv' /\ Serves(c, pending[i].ctx, pending, pending', wakes')
          /\ \A d \in Contexts \ {c, pending[i].ctx} : SameView(d)
      BY <1>1, <1>5, <2>1, <2>6, <3>0, <3>1, RecvStages
    <3>4. Serves(c, x, pending, pending', wakes') /\ \A d \in Contexts \ {c, x} : SameView(d)
      BY <3>2, <3>3
    <3>5. x \in Contexts /\ x # c
      BY <3>4 DEF Serves
    <3>6. Gets(wakes, wakes', c, WakeOf(pending, i))
      BY <3>1 DEF Decide, Gets
    <3>7. /\ i \in DOMAIN pending /\ pending[i] \in PendingSend
          /\ Table(Served(pending, i), PendingSend)
          /\ Serves(c, pending[i].ctx, pending, Served(pending, i), wakes')
          /\ wakes'[c] = WakeOf(pending, i)
      <4>1. Table(pending, PendingSend) /\ at[c] = "run"
            /\ (pending = waiters \/ pending = pending)
        BY <1>1, <1>3
      <4> QED
        BY ONLY ChannelInv, c \in Contexts, <2>6, <3>0, <3>6, <4>1, Delivery
    <3>8. Decided(c, Head(buffered))
      BY <3>1, <3>7 DEF Decide, Decided
    <3>9. Shown(x)' = "sent"
      BY <1>1, <3>4, <3>8, SenderShows
    <3>10. Outcomes' = [Outcomes EXCEPT ![c] = Head(buffered), ![x] = "sent"]
      BY <2>3, <3>3, <3>4, <3>5, <3>9, SameViewSameShown, OutcomesTwo
    <3>11. /\ Head(LiveSends(pending)) = AsSender[pending[FirstLive(pending)]]
           /\ LiveSends(Served(pending, FirstLive(pending))) = Tail(LiveSends(pending))
      BY <1>3, <2>6, SendersInLine
    <3>12. AsSender[pending[i]] = [ctx |-> x, value |-> pending[i].value]
      BY <3>2, <3>7 DEF AsSender
    <3>13. /\ Head(LiveSends(pending)).ctx = x
           /\ Head(LiveSends(pending)).value = pending[i].value
           /\ LiveSends(pending)' = Tail(LiveSends(pending)) /\ LiveSends(pending) # <<>>
      BY <1>4, <2>6, <3>0, <3>1, <3>11, <3>12
    <3> QED
      BY <1>1, <1>2, <1>5, <2>4, <3>1, <3>10, <3>13 DEF Abstract!Recv, Outcomes
  <2> QED
    BY <2>5, <2>6
<1>6. CASE /\ buffered = <<>> /\ closed /\ Decide(c, "closed", <<>>)
           /\ UNCHANGED <<buffered, waiters, pending, cell>>
  <2>1. UNCHANGED slotVars /\ UNCHANGED <<cell, rethrow, parkVars>>
    BY <1>1, <1>6 DEF slotVars
  <2>2. ChannelInv' /\ \A d \in Contexts \ {c} : SameView(d)
    BY <1>1, <1>6, <2>1, RecvRefused
  <2>3. Shown(c)' = "closed"
    BY <1>6, DecidedShows
  <2>4. Outcomes' = [Outcomes EXCEPT ![c] = "closed"]
    BY <2>2, <2>3, SameViewSameShown, OutcomesOne
  <2>5. /\ LiveContexts(waiters)' = LiveContexts(waiters)
        /\ LiveSends(pending)' = LiveSends(pending)
    BY <1>6
  <2> QED
    BY <1>1, <1>2, <1>6, <2>4, <2>5 DEF Abstract!Recv, Outcomes
<1>7. CASE /\ buffered = <<>> /\ ~closed
           /\ waiters' = Append(waiters, [ctx |-> c, phase |-> "Pending"])
           /\ cell' = [cell EXCEPT ![c] = NoValue]
           /\ GoPark(c) /\ UNCHANGED <<buffered, pending>>
  <2>1. UNCHANGED <<buffered, pending, closed>>
    BY <1>1, <1>7
  <2>2. ChannelInv' /\ \A d \in Contexts \ {c} : SameView(d)
    BY <1>1, <1>7, <2>1, RecvWaits
  <2>3. PICK e : e = [ctx |-> c, phase |-> "Pending"]
    OBVIOUS
  <2>4. e \in Waiter /\ e.ctx = c /\ e.phase = "Pending" /\ ~Has(waiters, c)
        /\ AsReceiver[e] = c /\ waiters' = Append(waiters, e)
    BY <1>1, <1>7, <2>3, Caller DEF Waiter, Phases, AsReceiver
  <2>5. LiveContexts(Append(waiters, e)) = Append(LiveContexts(waiters), AsReceiver[e])
    BY <1>3, <2>4, ReceiversInLine
  <2>6. \A d : PhaseOf(Append(waiters, e), d) =
                  IF d = e.ctx THEN e.phase ELSE PhaseOf(waiters, d)
    BY <1>3, <2>4, Appended
  <2>7. PhaseOf(waiters', c) = "Pending" /\ op'[c] = "recv"
    BY <1>1, <2>4, <2>6, Facts
  <2>8. Entry(c)' \in LivePhases
    BY <2>7 DEF Entry, LivePhases
  <2>9. Shown(c)' = "waiting"
    BY <1>1, <1>7, <2>2, <2>8, ParkShows
  <2>10. Outcomes' = [Outcomes EXCEPT ![c] = "waiting"]
    BY <2>2, <2>9, SameViewSameShown, OutcomesOne
  <2>11. /\ LiveSends(pending)' = LiveSends(pending)
         /\ LiveContexts(waiters)' = Append(LiveContexts(waiters), c)
    BY <1>7, <2>4, <2>5
  <2> QED
    BY <1>1, <1>2, <1>7, <2>10, <2>11 DEF Abstract!Recv, Outcomes
<1> QED
  BY <1>5, <1>6, <1>7 DEF Recv

(* What the sweep of a close does to the outcomes. *)
LEMMA SweptShows ==
    ASSUME ChannelInv, NEW d \in Contexts,
           PhaseOf(waiters', d) = SweptPhase(PhaseOf(waiters, d)),
           PhaseOf(pending', d) = SweptPhase(PhaseOf(pending, d)),
           Exceptional(wakes', d) <=> Exceptional(wakes, d)
                                      \/ PhaseOf(waiters, d) = "Committed"
                                      \/ PhaseOf(pending, d) = "Committed",
           op'[d] = op[d], at'[d] = at[d], report'[d] = report[d],
           rethrow'[d] = rethrow[d], cell'[d] = cell[d]
    PROVE  /\ Shown(d) = "waiting" => Shown(d)' = "closed"
           /\ Shown(d) # "waiting" => Shown(d)' = Shown(d)
<1>1. CallInv(d)
  BY Facts
<1>2. Entry(d)' = SweptPhase(Entry(d))
  BY DEF Entry
<1>3. Exceptional(wakes', d) <=> Exceptional(wakes, d) \/ Entry(d) = "Committed"
  BY <1>1 DEF CallInv, Entry
<1>4. CASE Shown(d) = "waiting"
  <2>1. Entry(d) \in LivePhases
    BY <1>4, OnlyWaiting
  <2>2. at[d] # "run" /\ report[d] = "none"
    BY <2>1, Waiting
  <2>3. Entry(d)' \notin LivePhases /\ (Entry(d)' = "Closed" \/ Exceptional(wakes', d))
    BY <1>2, <1>3, <2>1 DEF SweptPhase, LivePhases
  <2>4. Shown(d)' = "closed"
    BY <2>2, <2>3 DEF Shown
  <2> QED
    BY <1>4, <2>4
<1>5. CASE Shown(d) # "waiting"
  <2>1. Entry(d) \notin LivePhases
    BY <1>5, Waiting
  <2>2. Entry(d)' = Entry(d) /\ (Exceptional(wakes', d) <=> Exceptional(wakes, d))
    BY <1>2, <1>3, <2>1 DEF SweptPhase, LivePhases
  <2>3. Shown(d)' = Shown(d)
    BY <2>2 DEF Shown
  <2> QED
    BY <1>5, <2>3
<1> QED
  BY <1>4, <1>5

LEMMA OutcomesClosed ==
    ASSUME ChannelInv, ChannelInv', NEW c \in Contexts, Shown(c)' = "done",
           \A d \in Contexts \ {c} : Shown(d) = "waiting" => Shown(d)' = "closed",
           \A d \in Contexts \ {c} : Shown(d) # "waiting" => Shown(d)' = Shown(d)
    PROVE  Outcomes' = [x \in Contexts |-> IF x = c THEN "done"
                                           ELSE IF Outcomes[x] = "waiting" THEN "closed"
                                           ELSE Outcomes[x]]
<1>1. \A d \in Contexts : OutcomeOf(d) = Shown(d) /\ OutcomeOf(d)' = Shown(d)'
  BY InvShows, InvShowsNext DEF AllShown
<1>2. \A d \in Contexts : Outcomes[d] = Shown(d) /\ Outcomes'[d] = Shown(d)'
  BY <1>1 DEF Outcomes
<1>3. Outcomes' = [x \in Contexts |-> Outcomes'[x]]
  BY DEF Outcomes
<1>4. \A x \in Contexts : Outcomes'[x] = IF x = c THEN "done"
                                         ELSE IF Outcomes[x] = "waiting" THEN "closed"
                                         ELSE Outcomes[x]
  BY <1>2
<1> HIDE DEF Outcomes
<1> QED
  BY <1>3, <1>4

(* close, the first and any later one *)
LEMMA CloseRefines ==
    ASSUME ChannelInv, ChannelInv', NEW c \in Contexts, Close(c)
    PROVE  Abstract!Close(c)
<1>1. /\ CallOnly(c, "close") /\ at[c] = "run" /\ op' = [op EXCEPT ![c] = "close"]
      /\ UNCHANGED capacity /\ UNCHANGED <<capacity, rethrow, parkVars>>
  BY DEF Close, Calls, CallOnly, parkVars
<1>2. Outcomes[c] = "idle"
  BY <1>1, Begins
<1>3. Table(waiters, Waiter) /\ Table(pending, PendingSend)
  BY Facts
<1>4. CASE /\ closed /\ Decide(c, "done", <<>>)
           /\ UNCHANGED <<closed, buffered, waiters, pending, cell>>
  <2>1. LiveAt(waiters) = {} /\ LiveAt(pending) = {}
    BY <1>4 DEF ChannelInv, WaitersFaceAnEmptyBuffer
  <2>2. LiveContexts(waiters) = <<>> /\ LiveSends(pending) = <<>>
    BY <1>3, <2>1, ReceiversInLine, SendersInLine
  <2>3. LiveContexts(waiters)' = <<>> /\ LiveSends(pending)' = <<>>
    BY <1>4, <2>2
  <2>4. wakes \in [Contexts -> Seq(Wakes)] /\ wakes[c] = <<>>
    BY <1>1, Facts, Caller
  <2>5. UNCHANGED wakes /\ Decided(c, "done")
    BY <1>4, <2>4 DEF Decide, Decided
  <2>6. \A d \in Contexts \ {c} : SameView(d)
    BY <1>1, <1>4, <2>5, Facts, OthersSee DEF SameView
  <2>7. \A d \in Contexts \ {c} : Shown(d)' = Shown(d)
    BY <2>6, SameViewSameShown
  <2>8. \A d \in Contexts : Shown(d) # "waiting"
    <3>1. SUFFICES ASSUME NEW d \in Contexts, Entry(d) \in LivePhases PROVE FALSE
      BY OnlyWaiting
    <3>2. PhaseOf(waiters, d) \in LivePhases \/ PhaseOf(pending, d) \in LivePhases
      BY <3>1 DEF Entry
    <3> QED
      BY <1>3, <2>1, <3>2, PhaseType
  <2>9. Shown(c)' = "done"
    BY <1>4, DecidedShows
  <2>10. Outcomes' = [x \in Contexts |-> IF x = c THEN "done"
                                         ELSE IF Outcomes[x] = "waiting" THEN "closed"
                                         ELSE Outcomes[x]]
    BY <2>7, <2>8, <2>9, OutcomesClosed
  <2>11. closed' = TRUE /\ UNCHANGED <<capacity, buffered>>
    BY <1>1, <1>4, Facts
  <2> QED
    BY <1>2, <2>3, <2>10, <2>11 DEF Abstract!Close, Outcomes
<1>5. CASE /\ ~closed /\ closed' = TRUE /\ SweepWaiters /\ SweepSenders
           /\ Decide(c, "done", CloseWakes)
  <2>1. /\ UNCHANGED <<cell, buffered>>
        /\ Table(waiters', Waiter) /\ Table(pending', PendingSend)
        /\ \A d : PhaseOf(waiters', d) = SweptPhase(PhaseOf(waiters, d))
        /\ \A d : PhaseOf(pending', d) = SweptPhase(PhaseOf(pending, d))
    BY <1>5, CloseSweeps
  <2>2. Gets(wakes, wakes', c, CloseWakes)
    BY <1>5 DEF Gets, Decide
  <2>3. /\ wakes' \in [Contexts -> Seq(Wakes)] /\ WakesOnce(wakes')
        /\ wakes'[c] = CloseWakes
        /\ \A d \in Contexts : d # c => wakes'[d] = wakes[d]
        /\ \A d : Coming(wakes', d) <=> Coming(wakes, d)
                                        \/ PhaseOf(waiters, d) = "Committed"
                                        \/ PhaseOf(pending, d) = "Committed"
        /\ \A d : Exceptional(wakes', d) <=> Exceptional(wakes, d)
                                        \/ PhaseOf(waiters, d) = "Committed"
                                        \/ PhaseOf(pending, d) = "Committed"
    BY ONLY ChannelInv, c \in Contexts, <1>1, <2>2, CloseSends
  <2>4. Decided(c, "done")
    BY <1>5, <2>3 DEF Decide, Decided
  <2>5. ASSUME NEW d \in Contexts \ {c}
        PROVE  /\ Shown(d) = "waiting" => Shown(d)' = "closed"
               /\ Shown(d) # "waiting" => Shown(d)' = Shown(d)
    <3>1. /\ op'[d] = op[d] /\ at'[d] = at[d] /\ report'[d] = report[d]
          /\ rethrow'[d] = rethrow[d]
      BY <1>1, <2>4, OthersSee
    <3>2. cell'[d] = cell[d]
      BY <2>1
    <3>3. /\ PhaseOf(waiters', d) = SweptPhase(PhaseOf(waiters, d))
          /\ PhaseOf(pending', d) = SweptPhase(PhaseOf(pending, d))
          /\ Exceptional(wakes', d) <=> Exceptional(wakes, d)
                                        \/ PhaseOf(waiters, d) = "Committed"
                                        \/ PhaseOf(pending, d) = "Committed"
      BY <2>1, <2>3
    <3> QED
      BY <3>1, <3>2, <3>3, SweptShows
  <2>6. \A p : SweptPhase(p) \notin LivePhases
    BY DEF SweptPhase, LivePhases
  <2>7. LiveAt(waiters') = {} /\ LiveAt(pending') = {}
    BY <2>1, <2>6, PhaseType
  <2>8. LiveContexts(waiters') = <<>> /\ LiveSends(pending') = <<>>
    BY <2>1, <2>7, ReceiversInLine, SendersInLine
  <2>9. Shown(c)' = "done"
    BY <1>5, DecidedShows
  <2>10. Outcomes' = [x \in Contexts |-> IF x = c THEN "done"
                                         ELSE IF Outcomes[x] = "waiting" THEN "closed"
                                         ELSE Outcomes[x]]
    BY <2>5, <2>9, OutcomesClosed
  <2> QED
    BY <1>1, <1>2, <1>5, <2>1, <2>8, <2>10 DEF Abstract!Close, Outcomes
<1> QED
  BY <1>4, <1>5 DEF Close

LEMMA InitRefines == ChannelInit => Abstract!Init
<1> SUFFICES ASSUME ChannelInit PROVE Abstract!Init
  OBVIOUS
<1>1. /\ capacity \in Capacities /\ buffered = <<>> /\ closed = FALSE
      /\ waiters = <<>> /\ pending = <<>> /\ at = [c \in Contexts |-> "run"]
  BY DEF ChannelInit
<1>2. ChannelInv
  BY InitChannelInv
<1>3. Table(waiters, Waiter) /\ Table(pending, PendingSend)
  BY <1>2, Facts
<1>4. LiveAt(waiters) = {} /\ LiveAt(pending) = {}
  BY <1>1 DEF LiveAt
<1>5. LiveContexts(waiters) = <<>> /\ LiveSends(pending) = <<>>
  BY <1>3, <1>4, ReceiversInLine, SendersInLine
<1>6. \A c \in Contexts : OutcomeOf(c) = "idle"
  BY <1>1 DEF OutcomeOf
<1> QED
  BY <1>1, <1>5, <1>6 DEF Abstract!Init

LEMMA StepRefines ==
    ChannelInv /\ ChannelInv' /\ [ChannelNext]_vars => [Abstract!Next]_(Abstract!chanVars)
<1> SUFFICES ASSUME ChannelInv, ChannelInv', [ChannelNext]_vars
             PROVE  Abstract!Next \/ UNCHANGED Abstract!chanVars
  OBVIOUS
<1>1. CASE UNCHANGED vars
  <2>1. /\ UNCHANGED <<cell, rethrow, op, at, wakes, report>>
        /\ UNCHANGED <<capacity, buffered, closed, waiters, pending>>
    BY <1>1 DEF vars, slotVars, callVars
  <2>2. \A d \in Contexts : Shown(d)' = Shown(d)
    BY <2>1 DEF Shown, Entry
  <2> QED
    BY <2>1, <2>2, Unseen
<1>2. ASSUME NEW c \in Contexts, NEW v \in Values, Send(c, v) PROVE Abstract!Next
  BY <1>2, SendRefines DEF Abstract!Next
<1>3. ASSUME NEW c \in Contexts, Recv(c) PROVE Abstract!Next
  BY <1>3, RecvRefines DEF Abstract!Next
<1>4. ASSUME NEW c \in Contexts, Close(c) PROVE Abstract!Next
  BY <1>4, CloseRefines DEF Abstract!Next
<1>5. ASSUME NEW c \in Contexts, Return(c) PROVE Abstract!Next
  <2>1. \A d \in Contexts \ {c} : SameView(d)
    BY <1>5, ReturnStep
  <2> QED
    BY <1>5, <2>1, ReturnRefines DEF Abstract!Next
<1>6. ASSUME NEW c \in Contexts, CallStep(c), ~Return(c)
      PROVE  UNCHANGED Abstract!chanVars
  BY <1>6, SendWakeUnseen, MigrateUnseen, RecheckRecvUnseen, RecheckSendUnseen,
     AbortUnseen, LandUnseen, ResumeUnseen DEF CallStep
<1>7. CASE ChannelNext
  <2>1. PICK c \in Contexts : \/ \E v \in Values : Send(c, v)
                              \/ Recv(c) \/ Close(c) \/ CallStep(c)
    BY <1>7 DEF ChannelNext
  <2> QED
    BY <1>2, <1>3, <1>4, <1>5, <1>6, <2>1
<1> QED
  BY <1>1, <1>7

(***************************************************************************)
(* The two-phase protocol of IntrinsicsChannel.cpp, with its windows       *)
(* between the Sync and the scheduler sections, is the channel that        *)
(* decides atomically: every section of send, recv and close, of the       *)
(* commit-or-abort checks and of the wakes is one step of BoundedChannel   *)
(* or changes nothing its callers can see.                                 *)
(***************************************************************************)
THEOREM TwoPhaseIsAtomic == ChannelSpec => Abstract!Spec
<1>1. ChannelInit => Abstract!Init
  BY InitRefines
<1>2. ChannelInv /\ ChannelInv' /\ [ChannelNext]_vars => [Abstract!Next]_(Abstract!chanVars)
  BY StepRefines
<1> QED
  BY <1>1, <1>2, ChannelInvHolds, PTL DEF ChannelSpec, Abstract!Spec
==============================================================================
