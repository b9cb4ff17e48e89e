---------------------------- MODULE NetSocketsProofs ----------------------------
(***************************************************************************)
(* The sockets of the net library, for any number of contexts, descriptors *)
(* and slots and any program: a claim belongs to the call that made it,    *)
(* every open descriptor is in one place, a parked call can be woken, a    *)
(* write goes on where it stopped.                                         *)
(*                                                                         *)
(* The steps are sorted by what they do to the slot table: nothing         *)
(* (CallOnly), a change of the call's own open slot (TouchedStep), a slot  *)
(* flagged closed under its waiters (FlaggedStep), a slot recycled         *)
(* (RecycledStep) or filled (FilledStep), and the wakes, which move many   *)
(* calls and no slot (WakesStep).  One lemma per kind shows what it keeps, *)
(* one lemma per action which kind it is.                                  *)
(***************************************************************************)
EXTENDS NetSockets, SequenceLemmas

(***************************************************************************)
(* No generation comes back while a handle that carries it is around: a    *)
(* generation has kGenMask + 1 = 128 values, and the proofs are about the  *)
(* behaviours that open fewer sockets than that.  Without it the claims go *)
(* wrong: a call that was parked on a closed slot may find, when it comes  *)
(* back, the slot's 128th socket after it under the handle it still holds. *)
(***************************************************************************)
NoWrap == MaxOpens < Generations

Ops == {"read", "write", "accept", "connect"}
Outside == {"script", "mint", "wakefd", "waking"}
Slot == [fd : Fds \cup {NoFd}, used : BOOLEAN, closed : BOOLEAN,
         gen : 0 .. Generations - 1, waiter : [Dirs -> Users \cup {NoWaiter}],
         sent : 0 .. WriteLength]
Record == [at : Sections, op : AllOps \cup {"none"},
           handle : Handles \cup {NoHandle}, fd : Fds \cup {NoFd},
           claimed : BOOLEAN, fresh : BOOLEAN, offset : 0 .. WriteLength,
           toWake : SUBSET Users]

(* In the table T: h is the handle of slot i; h is a handle some call has  *)
(* minted, its generation is in use or over.                               *)
Same(T, h, i) == h.index = i /\ h.gen = T[i].gen
Issued(T, h) ==
    /\ h \in Handles
    /\ h.index \in DOMAIN T
    /\ h.gen <= T[h.index].gen
    /\ h.gen = T[h.index].gen => T[h.index].used

(* What a call carries at each of its sections. *)
Inside(r) == r.at \notin Outside
Placed(T, r) ==
    /\ Inside(r) => r.op \in Ops /\ Issued(T, r.handle)
    /\ Inside(r) /\ r.op = "connect"
          => r.at \in {"park", "parked", "verdict"}
    /\ r.at = "verdict" => r.op = "connect"
    /\ r.at \in {"offset", "store"} => r.op = "write"
    /\ r.at = "accepted" => r.op = "accept"
    /\ r.at \in {"offset", "syscall", "store", "release", "accepted", "parked"}
          => r.claimed
    /\ r.at = "park" /\ r.op # "connect" => r.claimed
    /\ r.at = "mint" /\ r.op = "connect" => ~r.claimed
PlaceInv == \A c \in Users : Placed(slots, call[c])

HandleInv == \A h \in handles : Issued(slots, h)

(* Every generation of a slot, and every descriptor open now, took an      *)
(* opening of its own.                                                     *)
GenInv ==
    /\ IsFiniteSet(openFds)
    /\ Cardinality(openFds) <= opened
    /\ \A i \in DOMAIN slots : slots[i].gen + Cardinality(openFds) <= opened

(* A waiter field names a call on that slot, a call that has claimed its   *)
(* slot is named there, a closed slot in use has a waiter.                 *)
Live(T, h) == h.index \in DOMAIN T /\ T[h.index].used /\ T[h.index].gen = h.gen
Named(T, i, d, c) == T[i].waiter[d] = c
Claims(T, r, i, d) == Inside(r) /\ Same(T, r.handle, i) /\ DirOf[r.op] = d
ClaimInv ==
    /\ \A i \in DOMAIN slots : slots[i].used =>
          /\ \A d \in Dirs, c \in Users :
                Named(slots, i, d, c) => Claims(slots, call[c], i, d)
          /\ slots[i].closed => ~WaiterFree(slots[i])
    /\ \A c \in Users, i \in DOMAIN slots, d \in Dirs :
          /\ slots[i].used /\ call[c].claimed /\ Claims(slots, call[c], i, d)
          => Named(slots, i, d, c)

(* The slot of a connect in flight is open and nobody else's. *)
Private(r) == Inside(r) /\ r.op = "connect"
PrivateInv ==
    \A c \in Users : Private(call[c]) =>
        LET i == call[c].handle.index IN
        /\ Live(slots, call[c].handle) /\ ~slots[i].closed
        /\ At(c, "verdict") => Named(slots, i, "Write", c)
        /\ \A h \in handles : ~Same(slots, h, i)
        /\ \A d \in Users \ {c} : Inside(call[d]) => ~Same(slots, call[d].handle, i)

(* Each open descriptor is in one place: a slot in use, or a call that has *)
(* it from the kernel and has not minted it.                               *)
Bears(r, f) == r.at \in {"mint", "accepted"} /\ r.fd = f
FdInv ==
    /\ \A i \in DOMAIN slots : slots[i].used =>
          /\ slots[i].fd \in openFds
          /\ \A j \in DOMAIN slots : slots[j].used /\ slots[j].fd = slots[i].fd => j = i
          /\ \A c \in Users : ~Bears(call[c], slots[i].fd)
    /\ \A c \in Users, f \in Fds \cup {NoFd} : Bears(call[c], f) =>
          /\ f \in openFds
          /\ \A d \in Users : Bears(call[d], f) => d = c
    /\ \A f \in openFds :
          \/ \E i \in DOMAIN slots : slots[i].used /\ slots[i].fd = f
          \/ \E c \in Users : Bears(call[c], f)

FreeInv ==
    /\ Distinct(freeList)
    /\ \A i : Occurs(i, freeList) <=> i \in DOMAIN slots /\ ~slots[i].used

(* How far a write is, in the call, in the slot and in the kernel. *)
Progress(r, s, n, c) ==
    /\ r.at \in {"syscall", "store", "park"} => r.offset = n
    /\ r.at \in {"syscall", "park", "parked"} => s.sent = n
    /\ r.at = "adopt" => IF s.waiter["Write"] = c THEN s.sent = n ELSE n = 0
    /\ r.at = "offset" => IF r.fresh THEN n = 0 ELSE s.sent = n
Writing(r) == Inside(r) /\ r.op = "write"
WriteInv ==
    \A c \in Users :
        /\ ~Writing(call[c]) => delivered[c] = 0
        /\ \A i \in DOMAIN slots :
              /\ Writing(call[c]) /\ Same(slots, call[c].handle, i)
              /\ slots[i].used /\ ~slots[i].closed
              => Progress(call[c], slots[i], delivered[c], c)

(* The inductive invariant. *)
SocketInv ==
    /\ NetTypeOK /\ PlaceInv /\ HandleInv /\ GenInv /\ ClaimInv /\ PrivateInv
    /\ FdInv /\ FreeInv /\ ParkedHasAWaker /\ WriteInv

-----------------------------------------------------------------------------
(* The record of one call changes, and one slot. *)
CallStep(c, r) ==
    /\ r \in Record
    /\ call' \in [Users -> Record]
    /\ call'[c] = r
    /\ \A d \in Users \ {c} : call'[d] = call[d]
SlotStep(i, t) ==
    /\ t \in Slot
    /\ slots' \in Seq(Slot)
    /\ DOMAIN slots' = DOMAIN slots
    /\ slots'[i] = t
    /\ \A j \in DOMAIN slots \ {i} : slots'[j] = slots[j]

LEMMA OneCall ==
    ASSUME NetTypeOK, NEW c \in Users, NEW r \in Record,
           call' = [call EXCEPT ![c] = r]
    PROVE  CallStep(c, r)
<1>1. call \in [Users -> Record]
  BY DEF NetTypeOK, Record
<1> QED
  BY <1>1 DEF CallStep

LEMMA OneSlot ==
    ASSUME NetTypeOK, NEW i \in DOMAIN slots, NEW t \in Slot,
           slots' = [slots EXCEPT ![i] = t]
    PROVE  SlotStep(i, t)
<1>1. slots \in Seq(Slot)
  BY DEF NetTypeOK, Slot
<1> QED
  BY <1>1 DEF SlotStep

(* The calls and slots one at a time, with the types of their fields. *)
LEMMA SlotType ==
    ASSUME NetTypeOK
    PROVE  /\ slots \in Seq(Slot) /\ Len(slots) \in Nat /\ DOMAIN slots = 1 .. Len(slots)
           /\ \A i \in DOMAIN slots : slots[i] \in Slot
<1>1. slots \in Seq(Slot)
  BY DEF NetTypeOK, Slot
<1> QED
  BY <1>1

LEMMA CallType ==
    ASSUME NetTypeOK
    PROVE  call \in [Users -> Record] /\ \A c \in Users : call[c] \in Record
BY DEF NetTypeOK, Record

LEMMA IdleType ==
    Idle \in Record /\ Idle.at = "script" /\ Idle.op = "none" /\ ~Idle.claimed
BY NetAssumption DEF Idle, Record, Sections

LEMMA DirType ==
    \A op \in Ops : DirOf[op] \in Dirs
BY DEF Ops, DirOf, Dirs

(* A step over the table never takes an issued handle back. *)
TableGrows ==
    \A i \in DOMAIN slots :
        /\ i \in DOMAIN slots'
        /\ slots'[i].gen \in Int
        /\ \/ slots'[i].gen > slots[i].gen
           \/ slots'[i].gen = slots[i].gen /\ (slots[i].used => slots'[i].used)

LEMMA IssuedKept ==
    ASSUME NetTypeOK, TableGrows, NEW h, Issued(slots, h)
    PROVE  Issued(slots', h)
<1>1. slots[h.index] \in Slot /\ h.gen \in Int
  BY SlotType DEF Issued, Handles
<1>2. slots[h.index].gen \in Int
  BY <1>1 DEF Slot
<1> QED
  BY <1>1, <1>2 DEF Issued, TableGrows

LEMMA PlaceStep ==
    ASSUME NetTypeOK, PlaceInv, TableGrows, NEW c \in Users, NEW r,
           CallStep(c, r), Placed(slots', r)
    PROVE  PlaceInv'
<1> SUFFICES ASSUME NEW d \in Users PROVE Placed(slots', call'[d])
  BY DEF PlaceInv
<1>1. CASE d = c
  BY <1>1 DEF CallStep
<1>2. CASE d # c
  <2>1. call'[d] = call[d] /\ Placed(slots, call[d])
    BY <1>2 DEF CallStep, PlaceInv
  <2>2. Issued(slots, call[d].handle) => Issued(slots', call[d].handle)
    BY IssuedKept
  <2> QED
    BY <2>1, <2>2 DEF Placed
<1> QED
  BY <1>1, <1>2

LEMMA HandleStep ==
    ASSUME NetTypeOK, HandleInv, TableGrows,
           \A h \in handles' : h \in handles \/ Issued(slots', h)
    PROVE  HandleInv'
BY IssuedKept DEF HandleInv

-----------------------------------------------------------------------------
(* What a step does to the table: nothing that frees or fills a slot, or   *)
(* the slot i goes to the free list, or the slot i is filled.              *)
Steady ==
    /\ slots' \in Seq(Slot)
    /\ freeList' = freeList
    /\ DOMAIN slots' = DOMAIN slots
    /\ \A i \in DOMAIN slots : /\ slots'[i].used = slots[i].used
                               /\ slots'[i].gen = slots[i].gen
                               /\ slots'[i].fd = slots[i].fd
Recycled(i, t) ==
    /\ i \in DOMAIN slots
    /\ SlotStep(i, t)
    /\ slots[i].used
    /\ ~t.used
    /\ t.gen = slots[i].gen + 1
    /\ freeList' = Append(freeList, i)
    /\ openFds' = openFds \ {slots[i].fd}
Filled(i, t, f) ==
    /\ slots' \in Seq(Slot)
    /\ DOMAIN slots' = DOMAIN slots \cup {i}
    /\ \A j \in DOMAIN slots \ {i} : slots'[j] = slots[j]
    /\ slots'[i] = t
    /\ t \in Slot
    /\ t.used /\ ~t.closed /\ t.fd = f
    /\ \A d \in Dirs : t.waiter[d] = NoWaiter
    /\ t.gen = IF i \in DOMAIN slots THEN slots[i].gen ELSE 0
    /\ i \in DOMAIN slots => ~slots[i].used
    /\ freeList' \in Seq(DOMAIN slots)
    /\ Distinct(freeList')
    /\ \A j : Occurs(j, freeList') <=> Occurs(j, freeList) /\ j # i

LEMMA SteadyGrows ==
    ASSUME NetTypeOK, Steady
    PROVE  TableGrows
<1>1. \A i \in DOMAIN slots : slots[i] \in Slot
  BY SlotType
<1>2. \A i \in DOMAIN slots : slots[i].gen \in Int
  BY <1>1 DEF Slot
<1> QED
  BY <1>2 DEF Steady, TableGrows

LEMMA RecycledGrows ==
    ASSUME NetTypeOK, NEW i, NEW t, Recycled(i, t)
    PROVE  TableGrows
<1>1. \A j \in DOMAIN slots : slots[j] \in Slot
  BY SlotType
<1>2. \A j \in DOMAIN slots : slots[j].gen \in Int
  BY <1>1 DEF Slot
<1> QED
  BY <1>2 DEF Recycled, SlotStep, TableGrows

LEMMA FilledGrows ==
    ASSUME NetTypeOK, NEW i, NEW t, NEW f, Filled(i, t, f)
    PROVE  TableGrows
<1>1. \A j \in DOMAIN slots : slots[j] \in Slot
  BY SlotType
<1>2. \A j \in DOMAIN slots : slots[j].gen \in Int
  BY <1>1 DEF Slot
<1> QED
  BY <1>2 DEF Filled, TableGrows

(* The descriptors are counted. *)
LEMMA Counted ==
    ASSUME NetTypeOK, GenInv
    PROVE  /\ IsFiniteSet(openFds) /\ Cardinality(openFds) \in Nat /\ opened \in Int
           /\ Cardinality(openFds) <= opened /\ opened <= MaxOpens
           /\ \A i \in DOMAIN slots : /\ slots[i].gen \in 0 .. Generations - 1
                                      /\ slots[i].gen + Cardinality(openFds) <= opened
<1>1. \A i \in DOMAIN slots : slots[i] \in Slot
  BY SlotType
<1>2. \A i \in DOMAIN slots : slots[i].gen \in 0 .. Generations - 1
  BY <1>1 DEF Slot
<1>3. opened \in 0 .. MaxOpens
  BY DEF NetTypeOK
<1> QED
  BY <1>2, <1>3, FS_CardinalityType, NetAssumption DEF GenInv

LEMMA GenSteady ==
    ASSUME NetTypeOK, GenInv, Steady, openFds' = openFds, opened' = opened
    PROVE  GenInv'
BY DEF GenInv, Steady

LEMMA GenOpened ==
    ASSUME NetTypeOK, GenInv, UNCHANGED slots, NEW f, f \notin openFds,
           openFds' = openFds \cup {f}, opened' = opened + 1
    PROVE  GenInv'
<1>1. IsFiniteSet(openFds') /\ Cardinality(openFds') = Cardinality(openFds) + 1
  BY Counted, FS_AddElement
<1> DEFINE k == Cardinality(openFds)
<1>2. k \in Nat /\ opened \in Int /\ k <= opened
      /\ \A i \in DOMAIN slots : slots[i].gen \in Int /\ slots[i].gen + k <= opened
  BY Counted
<1> HIDE DEF k
<1>3. k + 1 <= opened' /\ \A i \in DOMAIN slots : slots[i].gen + (k + 1) <= opened'
  BY <1>2
<1> QED
  BY <1>1, <1>3 DEF GenInv, k

LEMMA GenClosed ==
    ASSUME NetTypeOK, GenInv, NEW f \in openFds, DOMAIN slots' = DOMAIN slots,
           openFds' = openFds \ {f}, opened' = opened,
           \A i \in DOMAIN slots : \/ slots'[i].gen = slots[i].gen
                                   \/ slots'[i].gen = slots[i].gen + 1
    PROVE  GenInv'
<1>1. IsFiniteSet(openFds') /\ Cardinality(openFds') = Cardinality(openFds) - 1
  BY Counted, FS_RemoveElement
<1> DEFINE k == Cardinality(openFds)
<1>2. k \in Nat /\ opened \in Int /\ k <= opened
      /\ \A i \in DOMAIN slots : slots[i].gen \in Int /\ slots[i].gen + k <= opened
  BY Counted
<1> HIDE DEF k
<1>3. k - 1 <= opened' /\ \A i \in DOMAIN slots : slots'[i].gen + (k - 1) <= opened'
  BY <1>2
<1> QED
  BY <1>1, <1>3 DEF GenInv, k

LEMMA GenFilled ==
    ASSUME NetTypeOK, GenInv, NEW i, NEW t, NEW f, Filled(i, t, f),
           openFds' = openFds, opened' = opened
    PROVE  GenInv'
<1> DEFINE k == Cardinality(openFds)
<1>2. k \in Nat /\ opened \in Int /\ k <= opened
      /\ \A j \in DOMAIN slots : slots[j].gen \in Int /\ slots[j].gen + k <= opened
  BY Counted
<1> HIDE DEF k
<1>3. \A j \in DOMAIN slots' : slots'[j].gen + k <= opened
  BY <1>2 DEF Filled
<1> QED
  BY <1>2, <1>3, Counted DEF GenInv, k

(* The generation that a recycled slot gets is a new one. *)
LEMMA NextGen ==
    ASSUME NoWrap, NetTypeOK, GenInv, NEW i \in DOMAIN slots, NEW f \in openFds
    PROVE  /\ (slots[i].gen + 1) % Generations = slots[i].gen + 1
           /\ slots[i].gen + 1 \in 0 .. Generations - 1
<1> DEFINE k == Cardinality(openFds)
           g == slots[i].gen
<1>1. k \in Nat /\ opened \in Int /\ opened <= MaxOpens /\ g \in Nat /\ g + k <= opened
  BY Counted
<1>2. k # 0
  BY Counted, FS_EmptySet
<1> HIDE DEF k, g
<1>3. Generations \in Nat /\ MaxOpens \in Nat /\ g + 1 < Generations
  BY <1>1, <1>2, NetAssumption DEF NoWrap
<1>4. (g + 1) % Generations = g + 1
  BY <1>1, <1>3
<1> QED
  BY <1>1, <1>3, <1>4 DEF g

-----------------------------------------------------------------------------
(* The free list. *)
LEMMA FreeSteady ==
    ASSUME FreeInv, Steady
    PROVE  FreeInv'
BY DEF FreeInv, Steady

LEMMA FreeRecycled ==
    ASSUME NetTypeOK, FreeInv, NEW i, NEW t, Recycled(i, t)
    PROVE  FreeInv' /\ freeList' \in Seq(DOMAIN slots')
<1>1. freeList \in Seq(DOMAIN slots) /\ i \in DOMAIN slots /\ ~Occurs(i, freeList)
  BY DEF NetTypeOK, FreeInv, Recycled
<1>2. /\ Append(freeList, i) \in Seq(DOMAIN slots)
      /\ Distinct(Append(freeList, i))
      /\ \A d : Occurs(d, Append(freeList, i)) <=> Occurs(d, freeList) \/ d = i
  BY <1>1, OneMore DEF FreeInv
<1> QED
  BY <1>1, <1>2 DEF FreeInv, Recycled, SlotStep

LEMMA FreeFilled ==
    ASSUME FreeInv, NEW i, NEW t, NEW f, Filled(i, t, f)
    PROVE  FreeInv'
BY DEF FreeInv, Filled

-----------------------------------------------------------------------------
(* The descriptors. *)
LEMMA FdType ==
    ASSUME NetTypeOK
    PROVE  /\ openFds \subseteq Fds
           /\ \A i \in DOMAIN slots : slots[i].fd \in Fds \cup {NoFd}
<1>1. \A i \in DOMAIN slots : slots[i] \in Slot
  BY SlotType
<1> QED
  BY <1>1 DEF Slot, NetTypeOK

LEMMA FdSteady ==
    ASSUME NetTypeOK, FdInv, Steady, openFds' = openFds,
           \A c \in Users, f \in Fds \cup {NoFd} :
               Bears(call'[c], f) <=> Bears(call[c], f)
    PROVE  FdInv'
<1>1. /\ DOMAIN slots' = DOMAIN slots
      /\ \A i \in DOMAIN slots : slots'[i].used = slots[i].used /\ slots'[i].fd = slots[i].fd
  BY DEF Steady
<1>2. \A i \in DOMAIN slots' : slots'[i].used =>
         /\ slots'[i].fd \in openFds'
         /\ \A j \in DOMAIN slots' : slots'[j].used /\ slots'[j].fd = slots'[i].fd => j = i
         /\ \A c \in Users : ~Bears(call'[c], slots'[i].fd)
  BY <1>1, FdType DEF FdInv
<1>3. \A c \in Users, f \in Fds \cup {NoFd} : Bears(call'[c], f) =>
         /\ f \in openFds'
         /\ \A d \in Users : Bears(call'[d], f) => d = c
  BY DEF FdInv
<1>4. \A f \in openFds' :
         \/ \E i \in DOMAIN slots' : slots'[i].used /\ slots'[i].fd = f
         \/ \E c \in Users : Bears(call'[c], f)
  BY <1>1, FdType DEF FdInv
<1> QED
  BY <1>2, <1>3, <1>4 DEF FdInv

LEMMA FdOpened ==
    ASSUME NetTypeOK, FdInv, UNCHANGED slots, NEW f \in Fds, f \notin openFds,
           openFds' = openFds \cup {f}, NEW c \in Users,
           Bears(call'[c], f), \A g \in Fds \cup {NoFd} : ~Bears(call[c], g),
           \A g \in Fds \cup {NoFd} : g # f => ~Bears(call'[c], g),
           \A d \in Users \ {c} : call'[d] = call[d]
    PROVE  FdInv'
<1>1. \A d \in Users : ~Bears(call[d], f)
  BY DEF FdInv
<1>2. \A d \in Users, g \in Fds \cup {NoFd} :
         Bears(call'[d], g) <=> Bears(call[d], g) \/ (d = c /\ g = f)
  OBVIOUS
<1> HIDE DEF Bears
<1>3. \A i \in DOMAIN slots : slots[i].used => slots[i].fd # f
  BY DEF FdInv
<1> QED
  BY <1>1, <1>2, <1>3, FdType DEF FdInv

LEMMA FdDropped ==
    ASSUME NetTypeOK, FdInv, UNCHANGED slots, NEW f \in Fds,
           openFds' = openFds \ {f}, NEW c \in Users,
           Bears(call[c], f), \A g \in Fds \cup {NoFd} : ~Bears(call'[c], g),
           \A d \in Users \ {c} : call'[d] = call[d]
    PROVE  FdInv'
<1>1. \A g \in Fds \cup {NoFd} : Bears(call[c], g) => g = f
  BY DEF Bears
<1>2. \A d \in Users, g \in Fds \cup {NoFd} :
         Bears(call'[d], g) <=> Bears(call[d], g) /\ d # c
  OBVIOUS
<1>3. \A d \in Users : Bears(call[d], f) => d = c
  BY DEF FdInv
<1>4. \A i \in DOMAIN slots : slots[i].used => slots[i].fd # f
  BY DEF FdInv
<1> QED
  BY <1>1, <1>2, <1>3, <1>4, FdType DEF FdInv

LEMMA FdRecycled ==
    ASSUME NetTypeOK, FdInv, NEW i, NEW t, Recycled(i, t),
           \A c \in Users, f \in Fds \cup {NoFd} :
               Bears(call'[c], f) <=> Bears(call[c], f)
    PROVE  FdInv'
<1> DEFINE f == slots[i].fd
<1>1. /\ i \in DOMAIN slots /\ slots[i].used /\ DOMAIN slots' = DOMAIN slots
      /\ ~slots'[i].used /\ openFds' = openFds \ {f}
      /\ \A j \in DOMAIN slots \ {i} : slots'[j] = slots[j]
  BY DEF Recycled, SlotStep
<1>2. \A c \in Users : ~Bears(call[c], f)
  BY <1>1 DEF FdInv
<1>3. \A j \in DOMAIN slots : slots[j].used /\ slots[j].fd = f => j = i
  BY <1>1 DEF FdInv
<1> HIDE DEF f
<1>4. \A j \in DOMAIN slots : slots'[j].used => /\ j # i /\ slots'[j] = slots[j]
                                                /\ slots[j].used /\ slots[j].fd # f
  BY <1>1, <1>3
<1>5. \A g \in openFds' : \/ \E j \in DOMAIN slots : slots'[j].used /\ slots'[j].fd = g
                          \/ \E c \in Users : Bears(call'[c], g)
  <2> SUFFICES ASSUME NEW g \in openFds', \A c \in Users : ~Bears(call'[c], g)
               PROVE  \E j \in DOMAIN slots : slots'[j].used /\ slots'[j].fd = g
    OBVIOUS
  <2>1. g \in openFds /\ g # f /\ g \in Fds
    BY <1>1, FdType
  <2>2. PICK j \in DOMAIN slots : slots[j].used /\ slots[j].fd = g
    BY <2>1 DEF FdInv
  <2>3. j # i
    BY <2>1, <2>2 DEF f
  <2> QED
    BY <1>1, <2>2, <2>3
<1>6. \A c \in Users, g \in Fds \cup {NoFd} : Bears(call'[c], g) => g \in openFds'
  BY <1>1, <1>2 DEF FdInv
<1> QED
  BY <1>1, <1>2, <1>4, <1>5, <1>6, FdType DEF FdInv

LEMMA FdFilled ==
    ASSUME NetTypeOK, FdInv, NEW i, NEW t, NEW f \in Fds \cup {NoFd}, Filled(i, t, f),
           openFds' = openFds, NEW c \in Users,
           Bears(call[c], f), \A g \in Fds \cup {NoFd} : ~Bears(call'[c], g),
           \A d \in Users \ {c} : call'[d] = call[d]
    PROVE  FdInv'
<1>1. \A g \in Fds \cup {NoFd} : Bears(call[c], g) => g = f
  BY DEF Bears
<1>2. \A d \in Users, g \in Fds \cup {NoFd} :
         Bears(call'[d], g) <=> Bears(call[d], g) /\ d # c
  OBVIOUS
<1>3. f \in openFds /\ \A d \in Users : Bears(call[d], f) => d = c
  BY DEF FdInv
<1>4. \A j \in DOMAIN slots : slots[j].used => slots[j].fd # f
  BY DEF FdInv
<1>5. /\ DOMAIN slots' = DOMAIN slots \cup {i} /\ slots'[i].used /\ slots'[i].fd = f
      /\ \A j \in DOMAIN slots \ {i} : slots'[j] = slots[j]
      /\ i \in DOMAIN slots => ~slots[i].used
  BY DEF Filled
<1>6. \A g \in openFds' : \/ \E j \in DOMAIN slots' : slots'[j].used /\ slots'[j].fd = g
                          \/ \E d \in Users : Bears(call'[d], g)
  <2> SUFFICES ASSUME NEW g \in openFds, \A d \in Users : ~Bears(call'[d], g)
               PROVE  \E j \in DOMAIN slots' : slots'[j].used /\ slots'[j].fd = g
    OBVIOUS
  <2>1. CASE g = f
    BY <1>5, <2>1
  <2>2. CASE g # f
    <3>1. \A d \in Users : ~Bears(call[d], g)
      BY <1>1, <1>2, <2>2, FdType
    <3>2. PICK j \in DOMAIN slots : slots[j].used /\ slots[j].fd = g
      BY <3>1 DEF FdInv
    <3> QED
      BY <1>5, <3>2
  <2> QED
    BY <2>1, <2>2
<1>7. \A j \in DOMAIN slots' : slots'[j].used =>
         \/ j = i
         \/ j # i /\ j \in DOMAIN slots /\ slots'[j] = slots[j] /\ slots[j].used
  BY <1>5
<1>8. \A j, l \in DOMAIN slots' :
         slots'[j].used /\ slots'[l].used /\ slots'[l].fd = slots'[j].fd => l = j
  BY <1>4, <1>5, <1>7 DEF FdInv
<1>9. \A j \in DOMAIN slots' : slots'[j].used =>
         slots'[j].fd \in openFds' /\ \A d \in Users : ~Bears(call'[d], slots'[j].fd)
  <2> SUFFICES ASSUME NEW j \in DOMAIN slots', slots'[j].used
               PROVE  slots'[j].fd \in openFds' /\ \A d \in Users : ~Bears(call'[d], slots'[j].fd)
    OBVIOUS
  <2>1. CASE j = i
    BY <1>2, <1>3, <1>5, <2>1
  <2>2. CASE j # i
    BY <1>2, <1>7, <2>2, FdType DEF FdInv
  <2> QED
    BY <2>1, <2>2
<1>10. \A d \in Users, g \in Fds \cup {NoFd} : Bears(call'[d], g) =>
          g \in openFds' /\ \A e \in Users : Bears(call'[e], g) => e = d
  BY <1>2 DEF FdInv
<1> QED
  BY <1>6, <1>8, <1>9, <1>10 DEF FdInv

-----------------------------------------------------------------------------
(* The claims.  Unnamed(c): no waiter field of a slot in use has c. *)
Unnamed(c) == \A i \in DOMAIN slots, d \in Dirs : slots[i].used => ~Named(slots, i, d, c)
NamedIfClaims(c) ==
    \A i \in DOMAIN slots, d \in Dirs :
        slots[i].used /\ Claims(slots, call[c], i, d) => Named(slots, i, d, c)

LEMMA OutsideUnnamed ==
    ASSUME ClaimInv, NEW c \in Users, ~Inside(call[c])
    PROVE  Unnamed(c)
BY DEF ClaimInv, Unnamed, Claims

(* Where a call on h is named, if it is. *)
LEMMA NamedWhere ==
    ASSUME ClaimInv, NEW c \in Users, NEW i \in DOMAIN slots, NEW d \in Dirs,
           slots[i].used, Named(slots, i, d, c)
    PROVE  /\ Inside(call[c]) /\ call[c].handle.index = i
           /\ call[c].handle.gen = slots[i].gen /\ DirOf[call[c].op] = d
BY DEF ClaimInv, Claims, Same

(* The call goes on, on the same handle, and claims no more than it did. *)
LEMMA ClaimMoves ==
    ASSUME NetTypeOK, ClaimInv, UNCHANGED slots, NEW c \in Users, NEW r,
           CallStep(c, r), Inside(r), r.handle = call[c].handle, r.op = call[c].op,
           r.claimed => call[c].claimed \/ NamedIfClaims(c), Inside(call[c])
    PROVE  ClaimInv'
<1>1. \A d \in Users, i \in DOMAIN slots, e \in Dirs :
         Claims(slots, call'[d], i, e) <=> Claims(slots, call[d], i, e)
  BY DEF CallStep, Claims
<1>2. \A d \in Users : call'[d].claimed => call[d].claimed \/ NamedIfClaims(d)
  BY DEF CallStep
<1>3. \A i \in DOMAIN slots : slots[i].used =>
          /\ \A d \in Dirs, k \in Users :
                Named(slots, i, d, k) => Claims(slots, call'[k], i, d)
          /\ slots[i].closed => ~WaiterFree(slots[i])
  BY <1>1 DEF ClaimInv
<1>4. \A k \in Users, i \in DOMAIN slots, d \in Dirs :
          slots[i].used /\ call'[k].claimed /\ Claims(slots, call'[k], i, d)
          => Named(slots, i, d, k)
  BY <1>1, <1>2 DEF ClaimInv, NamedIfClaims
<1> QED
  BY <1>3, <1>4 DEF ClaimInv

(* A call nobody has on record ends, or begins. *)
LEMMA ClaimLeaves ==
    ASSUME NetTypeOK, ClaimInv, UNCHANGED slots, NEW c \in Users, NEW r,
           CallStep(c, r), Unnamed(c), ~(Inside(r) /\ r.claimed)
    PROVE  ClaimInv'
<1>3. \A i \in DOMAIN slots : slots[i].used =>
          /\ \A d \in Dirs, k \in Users :
                Named(slots, i, d, k) => Claims(slots, call'[k], i, d)
          /\ slots[i].closed => ~WaiterFree(slots[i])
  BY DEF ClaimInv, Unnamed, CallStep
<1>4. \A k \in Users, i \in DOMAIN slots, d \in Dirs :
          slots[i].used /\ call'[k].claimed /\ Claims(slots, call'[k], i, d)
          => Named(slots, i, d, k)
  BY DEF ClaimInv, CallStep, Claims
<1> QED
  BY <1>3, <1>4 DEF ClaimInv

(* The call c writes its waiter field, with its own id or with nobody's. *)
Touched(c, i, t) ==
    /\ i \in DOMAIN slots
    /\ SlotStep(i, t)
    /\ Inside(call[c]) /\ Same(slots, call[c].handle, i)
    /\ slots[i].used /\ t.used /\ t.gen = slots[i].gen /\ t.fd = slots[i].fd
    /\ ~t.closed /\ ~slots[i].closed
    /\ \A d \in Dirs : d # DirOf[call[c].op] => t.waiter[d] = slots[i].waiter[d]

LEMMA ClaimTouched ==
    ASSUME NetTypeOK, ClaimInv, NEW c \in Users, NEW r, NEW i, NEW t,
           CallStep(c, r), Touched(c, i, t),
           slots[i].waiter[DirOf[call[c].op]] \in {c, NoWaiter},
           \/ /\ t.waiter[DirOf[call[c].op]] = NoWaiter
              /\ ~(Inside(r) /\ r.claimed)
           \/ /\ t.waiter[DirOf[call[c].op]] = c
              /\ Inside(r) /\ r.handle = call[c].handle /\ r.op = call[c].op
    PROVE  ClaimInv'
<1> DEFINE e == DirOf[call[c].op]
<1>0. /\ i \in DOMAIN slots /\ slots[i].used /\ slots'[i].used /\ ~slots'[i].closed
      /\ DOMAIN slots' = DOMAIN slots /\ slots'[i].gen = slots[i].gen
      /\ slots'[i] = t /\ NoWaiter \notin Users
      /\ Inside(call[c]) /\ call[c].handle.index = i /\ call[c].handle.gen = slots[i].gen
  BY NetAssumption DEF Touched, SlotStep, Same
<1>1. \A k \in Users \ {c} : call'[k] = call[k]
  BY DEF CallStep
<1>2. \A j \in DOMAIN slots \ {i} : slots'[j] = slots[j]
  BY DEF Touched, SlotStep
<1>3. \A k \in Users \ {c}, d \in Dirs : Named(slots', i, d, k) <=> Named(slots, i, d, k)
  BY <1>0 DEF Touched, Named
<1>4. \A d \in Dirs : d # e => ~Named(slots, i, d, c)
  BY <1>0, NamedWhere
<1>5. \A j \in DOMAIN slots \ {i}, d \in Dirs : slots[j].used => ~Named(slots, j, d, c)
  BY <1>0, NamedWhere
<1>6. \A d \in Dirs : Named(slots', i, d, c) =>
          d = e /\ Inside(r) /\ r.handle = call[c].handle /\ r.op = call[c].op
  BY <1>0, <1>4 DEF Touched, Named
<1>7. \A j \in DOMAIN slots : \A h : Same(slots', h, j) <=> Same(slots, h, j)
  BY <1>0, <1>2 DEF Same
<1>8. ASSUME NEW j \in DOMAIN slots, slots'[j].used, NEW d \in Dirs, NEW k \in Users,
             Named(slots', j, d, k)
      PROVE  Claims(slots', call'[k], j, d)
  <2>1. CASE k = c
    <3>1. j = i
      BY <1>2, <1>5, <1>8, <2>1 DEF Named
    <3>2. call'[c] = r
      BY DEF CallStep
    <3> QED
      BY <1>0, <1>6, <1>7, <1>8, <2>1, <3>1, <3>2 DEF Claims, Same
  <2>2. CASE k # c
    <3>1. Named(slots, j, d, k) /\ slots[j].used
      BY <1>0, <1>2, <1>3, <1>8, <2>2 DEF Named
    <3>2. Claims(slots, call[k], j, d)
      BY <3>1 DEF ClaimInv
    <3> QED
      BY <1>1, <1>7, <2>2, <3>2 DEF Claims
  <2> QED
    BY <2>1, <2>2
<1>9. ASSUME NEW k \in Users, NEW j \in DOMAIN slots, NEW d \in Dirs,
             slots'[j].used, call'[k].claimed, Claims(slots', call'[k], j, d)
      PROVE  Named(slots', j, d, k)
  <2>1. CASE k = c
    <3>1. call'[c] = r
      BY DEF CallStep
    <3>2. Inside(r) /\ r.claimed
      BY <1>9, <2>1, <3>1 DEF Claims
    <3>3. t.waiter[e] = c /\ r.handle = call[c].handle /\ r.op = call[c].op
      BY <3>2
    <3>4. j = i /\ d = e
      BY <1>0, <1>9, <2>1, <3>1, <3>3 DEF Claims, Same
    <3> QED
      BY <1>0, <2>1, <3>3, <3>4 DEF Named
  <2>2. CASE k # c
    <3>1. slots[j].used /\ call[k].claimed /\ Claims(slots, call[k], j, d)
      BY <1>0, <1>1, <1>2, <1>7, <1>9, <2>2 DEF Claims
    <3>2. Named(slots, j, d, k)
      BY <3>1 DEF ClaimInv
    <3> QED
      BY <1>2, <1>3, <2>2, <3>2 DEF Named
  <2> QED
    BY <2>1, <2>2
<1>10. ASSUME NEW j \in DOMAIN slots, slots'[j].used, slots'[j].closed
       PROVE  ~WaiterFree(slots'[j])
  BY <1>0, <1>2, <1>10 DEF ClaimInv
<1> QED
  BY <1>0, <1>8, <1>9, <1>10 DEF ClaimInv

(* The slot of the call, or of nobody the call is known to, is recycled.   *)
LEMMA ClaimRecycled ==
    ASSUME NetTypeOK, ClaimInv, NEW c \in Users, NEW r, NEW i, NEW t,
           CallStep(c, r), Recycled(i, t), ~Inside(r),
           Inside(call[c]) => call[c].handle.index = i
    PROVE  ClaimInv'
<1>0. /\ i \in DOMAIN slots /\ ~slots'[i].used /\ DOMAIN slots' = DOMAIN slots
      /\ \A j \in DOMAIN slots \ {i} : slots'[j] = slots[j]
      /\ call'[c] = r /\ \A k \in Users \ {c} : call'[k] = call[k]
  BY DEF Recycled, SlotStep, CallStep
<1>1. ASSUME NEW j \in DOMAIN slots, slots'[j].used
      PROVE  j # i /\ slots'[j] = slots[j] /\ \A d \in Dirs : ~Named(slots, j, d, c)
  BY <1>0, <1>1, NamedWhere
<1>2. ASSUME NEW j \in DOMAIN slots, slots'[j].used, NEW d \in Dirs, NEW k \in Users,
             Named(slots', j, d, k)
      PROVE  Claims(slots', call'[k], j, d)
  <2>1. Named(slots, j, d, k) /\ k # c /\ slots'[j] = slots[j]
    BY <1>1, <1>2 DEF Named
  <2>2. Claims(slots, call[k], j, d)
    BY <1>2, <2>1 DEF ClaimInv
  <2> QED
    BY <1>0, <2>1, <2>2 DEF Claims, Same
<1>3. ASSUME NEW k \in Users, NEW j \in DOMAIN slots, NEW d \in Dirs,
             slots'[j].used, call'[k].claimed, Claims(slots', call'[k], j, d)
      PROVE  Named(slots', j, d, k)
  <2>1. k # c /\ slots'[j] = slots[j]
    BY <1>0, <1>1, <1>3 DEF Claims
  <2>2. Claims(slots, call[k], j, d) /\ call[k].claimed
    BY <1>0, <1>3, <2>1 DEF Claims, Same
  <2>3. Named(slots, j, d, k)
    BY <1>3, <2>1, <2>2 DEF ClaimInv
  <2> QED
    BY <2>1, <2>3 DEF Named
<1>4. ASSUME NEW j \in DOMAIN slots, slots'[j].used, slots'[j].closed
      PROVE  ~WaiterFree(slots'[j])
  BY <1>1, <1>4 DEF ClaimInv
<1> QED
  BY <1>0, <1>2, <1>3, <1>4 DEF ClaimInv

(* The slot is flagged closed, its waiters stay. *)
Flagged(i, t) ==
    /\ i \in DOMAIN slots
    /\ SlotStep(i, t)
    /\ slots[i].used /\ t.used /\ t.gen = slots[i].gen /\ t.fd = slots[i].fd
    /\ t.closed /\ t.waiter = slots[i].waiter /\ ~WaiterFree(t)

LEMMA ClaimFlagged ==
    ASSUME NetTypeOK, ClaimInv, NEW c \in Users, NEW r, NEW i, NEW t,
           CallStep(c, r), Flagged(i, t), ~Inside(call[c]), ~Inside(r)
    PROVE  ClaimInv'
<1>0. /\ i \in DOMAIN slots /\ slots'[i] = t /\ DOMAIN slots' = DOMAIN slots
      /\ \A j \in DOMAIN slots \ {i} : slots'[j] = slots[j]
      /\ slots[i].used /\ t.used /\ t.gen = slots[i].gen /\ t.waiter = slots[i].waiter
      /\ call'[c] = r /\ \A k \in Users \ {c} : call'[k] = call[k]
  BY DEF Flagged, SlotStep, CallStep
<1>1. \A j \in DOMAIN slots : /\ slots'[j].used <=> slots[j].used
                              /\ slots'[j].gen = slots[j].gen
                              /\ slots'[j].waiter = slots[j].waiter
  BY <1>0
<1>2. \A k \in Users, j \in DOMAIN slots, d \in Dirs :
         Claims(slots', call'[k], j, d) <=> Claims(slots, call[k], j, d)
  BY <1>0, <1>1 DEF Claims, Same
<1>3. \A j \in DOMAIN slots, d \in Dirs, k \in Users :
         Named(slots', j, d, k) <=> Named(slots, j, d, k)
  BY <1>1 DEF Named
<1>4. \A k \in Users : Inside(call'[k]) => call'[k] = call[k]
  BY <1>0
<1>5. \A j \in DOMAIN slots : slots'[j].used /\ slots'[j].closed => ~WaiterFree(slots'[j])
  BY <1>0 DEF ClaimInv, Flagged
<1>6. \A k \in Users, j \in DOMAIN slots, d \in Dirs :
         slots'[j].used /\ call'[k].claimed /\ Claims(slots', call'[k], j, d)
         => Named(slots', j, d, k)
  BY <1>1, <1>2, <1>3, <1>4 DEF ClaimInv, Claims
<1>7. \A j \in DOMAIN slots, d \in Dirs, k \in Users :
         slots'[j].used /\ Named(slots', j, d, k) => Claims(slots', call'[k], j, d)
  BY <1>1, <1>2, <1>3 DEF ClaimInv
<1> QED
  BY <1>0, <1>5, <1>6, <1>7 DEF ClaimInv

(* No handle around is the handle of a slot that is being filled. *)
LEMMA FilledIsNew ==
    ASSUME NetTypeOK, NEW i, NEW t, NEW f, Filled(i, t, f), NEW h, Issued(slots, h)
    PROVE  ~Same(slots', h, i)
<1> SUFFICES ASSUME Same(slots', h, i) PROVE FALSE
  OBVIOUS
<1>1. i \in DOMAIN slots /\ h.index = i /\ h.gen = slots'[i].gen /\ slots'[i] = t
  BY DEF Same, Issued, Filled
<1>2. t.gen = slots[i].gen /\ ~slots[i].used
  BY <1>1 DEF Filled
<1> QED
  BY <1>1, <1>2 DEF Issued

LEMMA ClaimFilled ==
    ASSUME NetTypeOK, PlaceInv, ClaimInv, NEW c \in Users, NEW r, NEW i, NEW t, NEW f,
           CallStep(c, r), Filled(i, t, f), ~Inside(call[c]), ~(Inside(r) /\ r.claimed)
    PROVE  ClaimInv'
<1>0. /\ DOMAIN slots' = DOMAIN slots \cup {i} /\ slots'[i] = t
      /\ \A j \in DOMAIN slots \ {i} : slots'[j] = slots[j]
      /\ call'[c] = r /\ \A k \in Users \ {c} : call'[k] = call[k]
      /\ ~t.closed /\ \A d \in Dirs : t.waiter[d] = NoWaiter
      /\ NoWaiter \notin Users
  BY NetAssumption DEF Filled, CallStep
<1>1. \A d \in Dirs, k \in Users : ~Named(slots', i, d, k)
  BY <1>0 DEF Named
<1>2. \A k \in Users \ {c}, d \in Dirs : ~Claims(slots', call'[k], i, d)
  <2> SUFFICES ASSUME NEW k \in Users \ {c}, Inside(call[k])
               PROVE  ~Same(slots', call[k].handle, i)
    BY <1>0 DEF Claims
  <2>1. Issued(slots, call[k].handle)
    BY DEF PlaceInv, Placed
  <2> QED
    BY <2>1, FilledIsNew
<1>3. \A j \in DOMAIN slots \ {i}, d \in Dirs : slots[j].used => ~Named(slots, j, d, c)
  BY NamedWhere
<1>4. ASSUME NEW j \in DOMAIN slots', slots'[j].used, NEW d \in Dirs, NEW k \in Users,
             Named(slots', j, d, k)
      PROVE  Claims(slots', call'[k], j, d)
  <2>1. j \in DOMAIN slots \ {i} /\ slots'[j] = slots[j]
    BY <1>0, <1>1, <1>4
  <2>2. Named(slots, j, d, k) /\ k # c
    BY <1>3, <1>4, <2>1 DEF Named
  <2>3. Claims(slots, call[k], j, d)
    BY <1>4, <2>1, <2>2 DEF ClaimInv
  <2> QED
    BY <1>0, <2>1, <2>2, <2>3 DEF Claims, Same
<1>5. ASSUME NEW k \in Users, NEW j \in DOMAIN slots', NEW d \in Dirs,
             slots'[j].used, call'[k].claimed, Claims(slots', call'[k], j, d)
      PROVE  Named(slots', j, d, k)
  <2>1. k # c
    BY <1>0, <1>5 DEF Claims
  <2>2. j \in DOMAIN slots \ {i} /\ slots'[j] = slots[j] /\ call'[k] = call[k]
    BY <1>0, <1>2, <1>5, <2>1
  <2>3. Named(slots, j, d, k)
    BY <1>5, <2>2 DEF ClaimInv, Claims, Same
  <2> QED
    BY <2>2, <2>3 DEF Named
<1>6. ASSUME NEW j \in DOMAIN slots', slots'[j].used, slots'[j].closed
      PROVE  ~WaiterFree(slots'[j])
  BY <1>0, <1>6 DEF ClaimInv
<1> QED
  BY <1>4, <1>5, <1>6 DEF ClaimInv

-----------------------------------------------------------------------------
(* The connects in flight. *)
Elsewhere(c, i) == \A d \in Users \ {c} : Private(call[d]) => call[d].handle.index # i

LEMMA OthersElsewhere ==
    ASSUME PrivateInv, NEW c \in Users, Inside(call[c])
    PROVE  Elsewhere(c, call[c].handle.index) \/ ~Live(slots, call[c].handle)
BY DEF PrivateInv, Elsewhere, Same, Live

LEMMA SharedElsewhere ==
    ASSUME PrivateInv, NEW c \in Users, NEW h \in handles, Live(slots, h)
    PROVE  Elsewhere(c, h.index)
BY DEF PrivateInv, Elsewhere, Same, Live

(* What is new is not the slot of another connect in flight. *)
LEMMA PrivateStep ==
    ASSUME PrivateInv, NEW c \in Users, NEW r, CallStep(c, r), NEW i,
           DOMAIN slots \subseteq DOMAIN slots',
           \A j \in DOMAIN slots \ {i} : slots'[j] = slots[j],
           slots' = slots \/ Elsewhere(c, i),
           \A d \in Users \ {c} : Private(call[d]) =>
               /\ \A h \in handles' : ~Same(slots, h, call[d].handle.index)
               /\ Inside(r) => ~Same(slots, r.handle, call[d].handle.index),
           Private(r) =>
               LET k == r.handle.index IN
               /\ Live(slots', r.handle) /\ ~slots'[k].closed
               /\ r.at = "verdict" => Named(slots', k, "Write", c)
               /\ \A h \in handles' : ~Same(slots', h, k)
               /\ \A d \in Users \ {c} :
                     Inside(call[d]) => ~Same(slots', call[d].handle, k)
    PROVE  PrivateInv'
<1>0. call'[c] = r /\ \A k \in Users \ {c} : call'[k] = call[k]
  BY DEF CallStep
<1>1. ASSUME NEW d \in Users, Private(call'[d])
      PROVE  LET k == call'[d].handle.index IN
             /\ Live(slots', call'[d].handle) /\ ~slots'[k].closed
             /\ call'[d].at = "verdict" => Named(slots', k, "Write", d)
             /\ \A h \in handles' : ~Same(slots', h, k)
             /\ \A e \in Users \ {d} : Inside(call'[e]) => ~Same(slots', call'[e].handle, k)
  <2>1. CASE d = c
    BY <1>0, <1>1, <2>1
  <2>2. CASE d # c
    <3> DEFINE k == call[d].handle.index
    <3>1. call'[d] = call[d] /\ Private(call[d])
      BY <1>0, <1>1, <2>2
    <3>2. /\ Live(slots, call[d].handle) /\ ~slots[k].closed
          /\ At(d, "verdict") => Named(slots, k, "Write", d)
          /\ \A e \in Users \ {d} : Inside(call[e]) => ~Same(slots, call[e].handle, k)
      BY <3>1 DEF PrivateInv
    <3>3. k \in DOMAIN slots /\ k \in DOMAIN slots' /\ slots'[k] = slots[k]
      BY <2>2, <3>1, <3>2 DEF Live, Elsewhere
    <3>4. \A h : Same(slots', h, k) <=> Same(slots, h, k)
      BY <3>3 DEF Same
    <3>5. /\ \A h \in handles' : ~Same(slots, h, k)
          /\ Inside(r) => ~Same(slots, r.handle, k)
      BY <2>2, <3>1
    <3>6. Live(slots', call[d].handle) /\ ~slots'[k].closed
      BY <3>2, <3>3 DEF Live
    <3>7. At(d, "verdict") => Named(slots', k, "Write", d)
      BY <3>2, <3>3 DEF Named
    <3>8. \A e \in Users \ {d} : Inside(call'[e]) => ~Same(slots', call'[e].handle, k)
      BY <1>0, <3>2, <3>4, <3>5
    <3> QED
      BY <3>1, <3>4, <3>5, <3>6, <3>7, <3>8 DEF At
  <2> QED
    BY <2>1, <2>2
<1> QED
  BY <1>1 DEF PrivateInv, At

-----------------------------------------------------------------------------
(* The wakers.  A step that leaves the interest entries of the parked      *)
(* calls in place and their sockets open, or closes one and says so.       *)
Opened(T, h) == Live(T, h) /\ ~T[h.index].closed

LEMMA LookupIsOpen == \A h : Lookup(h) <=> Opened(slots, h)
BY DEF Lookup, IsSlot, SlotOf, Opened, Live

LEMMA ParkStep ==
    ASSUME NetTypeOK, ParkedHasAWaker, NEW c \in Users, NEW r, CallStep(c, r),
           ioWaits \subseteq ioWaits', call[c].at \notin {"waking", "wakefd"},
           r.at = "parked" => \E e \in ioWaits' :
               e.context = c /\ Opened(slots', r.handle) /\ slots'[r.handle.index].fd = e.fd,
           \A d \in Users \ {c} : call[d].at = "parked" /\ Opened(slots, call[d].handle) =>
               LET i == call[d].handle.index IN
               \/ Opened(slots', call[d].handle) /\ slots'[i].fd = slots[i].fd
               \/ r.at = "wakefd" /\ r.fd = slots[i].fd
    PROVE  ParkedHasAWaker'
<1>0. call'[c] = r /\ \A k \in Users \ {c} : call'[k] = call[k]
  BY DEF CallStep
<1>1. SUFFICES ASSUME NEW d \in Users, call'[d].at = "parked"
               PROVE  \/ \E k \in Users : call'[k].at = "waking" /\ d \in call'[k].toWake
                      \/ \E e \in ioWaits' : /\ e.context = d
                            /\ \/ \E k \in Users : call'[k].at = "wakefd" /\ call'[k].fd = e.fd
                               \/ /\ Opened(slots', call'[d].handle)
                                  /\ slots'[call'[d].handle.index].fd = e.fd
  BY DEF ParkedHasAWaker, Waking, Closing, Lookup, IsSlot, SlotOf, Opened, Live, At, Handle
<1>2. CASE d = c
  BY <1>0, <1>1, <1>2
<1>3. CASE d # c
  <2>1. call'[d] = call[d]
    BY <1>0, <1>3
  <2>2. CASE Waking(d)
    <3>1. PICK k \in Users : call[k].at = "waking" /\ d \in call[k].toWake
      BY <2>2 DEF Waking, At
    <3>2. call'[k] = call[k]
      BY <1>0, <3>1
    <3> QED
      BY <3>1, <3>2
  <2>3. CASE ~Waking(d)
    <3>1. PICK e \in ioWaits : /\ e.context = d
                               /\ \/ Closing(e.fd)
                                  \/ Lookup(call[d].handle) /\ slots[call[d].handle.index].fd = e.fd
      BY <1>1, <2>1, <2>3 DEF ParkedHasAWaker, At, SlotOf, Handle
    <3>2. CASE Closing(e.fd)
      <4>1. PICK k \in Users : call[k].at = "wakefd" /\ call[k].fd = e.fd
        BY <3>2 DEF Closing, At
      <4>2. call'[k] = call[k]
        BY <1>0, <4>1
      <4> QED
        BY <3>1, <4>1, <4>2
    <3>3. CASE ~Closing(e.fd)
      <4>1. Opened(slots, call[d].handle) /\ slots[call[d].handle.index].fd = e.fd
        BY <3>1, <3>3, LookupIsOpen
      <4>2. \/ /\ Opened(slots', call[d].handle)
               /\ slots'[call[d].handle.index].fd = e.fd
            \/ r.at = "wakefd" /\ r.fd = e.fd
        BY <1>1, <1>3, <2>1, <4>1
      <4> QED
        BY <1>0, <2>1, <3>1, <4>2
    <3> QED
      BY <3>2, <3>3
  <2> QED
    BY <2>2, <2>3
<1> QED
  BY <1>2, <1>3

(* The sockets of the parked calls when the slot i changes. *)
LEMMA OpenElsewhere ==
    ASSUME NEW h, NEW i, Opened(slots, h), h.index # i, DOMAIN slots \subseteq DOMAIN slots',
           \A j \in DOMAIN slots \ {i} : slots'[j] = slots[j]
    PROVE  Opened(slots', h) /\ slots'[h.index].fd = slots[h.index].fd
BY DEF Opened, Live

LEMMA OpenTouched ==
    ASSUME NEW c, NEW i, NEW t, Touched(c, i, t), NEW h, Opened(slots, h)
    PROVE  Opened(slots', h) /\ slots'[h.index].fd = slots[h.index].fd
BY DEF Opened, Live, Touched, SlotStep

-----------------------------------------------------------------------------
(* The progress of the writes.  What a step may do to the writes of the    *)
(* others: nothing.                                                        *)
LEMMA WriteStep ==
    ASSUME NetTypeOK, WriteInv, NEW c \in Users, NEW r, CallStep(c, r),
           \A d \in Users \ {c} : delivered'[d] = delivered[d],
           ~Writing(r) => delivered'[c] = 0,
           \A i \in DOMAIN slots' :
               /\ Writing(r) /\ Same(slots', r.handle, i)
               /\ slots'[i].used /\ ~slots'[i].closed
               => Progress(r, slots'[i], delivered'[c], c),
           \A d \in Users \ {c}, i \in DOMAIN slots' :
               /\ Writing(call[d]) /\ Same(slots', call[d].handle, i)
               /\ slots'[i].used /\ ~slots'[i].closed
               => /\ i \in DOMAIN slots /\ Same(slots, call[d].handle, i)
                  /\ slots[i].used /\ ~slots[i].closed
                  /\ Progress(call[d], slots[i], delivered[d], d) =>
                        Progress(call[d], slots'[i], delivered[d], d)
    PROVE  WriteInv'
<1>0. call'[c] = r /\ \A k \in Users \ {c} : call'[k] = call[k]
  BY DEF CallStep
<1>1. ASSUME NEW d \in Users, ~Writing(call'[d]) PROVE delivered'[d] = 0
  BY <1>0, <1>1 DEF WriteInv
<1>2. ASSUME NEW d \in Users, NEW i \in DOMAIN slots', Writing(call'[d]),
             Same(slots', call'[d].handle, i), slots'[i].used, ~slots'[i].closed
      PROVE  Progress(call'[d], slots'[i], delivered'[d], d)
  <2>1. CASE d = c
    BY <1>0, <1>2, <2>1
  <2>2. CASE d # c
    <3>1. call'[d] = call[d] /\ delivered'[d] = delivered[d]
      BY <1>0, <2>2
    <3>2. /\ i \in DOMAIN slots /\ Same(slots, call[d].handle, i)
          /\ slots[i].used /\ ~slots[i].closed
          /\ Progress(call[d], slots[i], delivered[d], d) =>
                Progress(call[d], slots'[i], delivered[d], d)
      BY <1>2, <2>2, <3>1
    <3>3. Progress(call[d], slots[i], delivered[d], d)
      BY <1>2, <3>1, <3>2 DEF WriteInv
    <3> QED
      BY <3>1, <3>2, <3>3
  <2> QED
    BY <2>1, <2>2
<1> QED
  BY <1>1, <1>2 DEF WriteInv

(* The four kinds of steps over the table, seen by the write of another. *)
LEMMA OtherWrite ==
    ASSUME NetTypeOK, PlaceInv, NEW c \in Users, NEW i, NEW t,
           Recycled(i, t) \/ Flagged(i, t) \/ (\E f : Filled(i, t, f)),
           NEW d \in Users, NEW j \in DOMAIN slots', Writing(call[d]),
           Same(slots', call[d].handle, j), slots'[j].used, ~slots'[j].closed
    PROVE  /\ j \in DOMAIN slots /\ Same(slots, call[d].handle, j)
           /\ slots[j].used /\ ~slots[j].closed /\ slots'[j] = slots[j]
<1>1. j # i
  <2>1. CASE Recycled(i, t)
    BY <2>1 DEF Recycled, SlotStep
  <2>2. CASE Flagged(i, t)
    BY <2>2 DEF Flagged, SlotStep
  <2>3. ASSUME NEW f, Filled(i, t, f) PROVE j # i
    <3>1. Issued(slots, call[d].handle)
      BY DEF PlaceInv, Placed, Writing
    <3> QED
      BY <2>3, <3>1, FilledIsNew
  <2> QED
    BY <2>1, <2>2, <2>3
<1>2. j \in DOMAIN slots /\ slots'[j] = slots[j]
  BY <1>1 DEF Recycled, Flagged, Filled, SlotStep
<1> QED
  BY <1>2 DEF Same

LEMMA OtherWriteTouched ==
    ASSUME NetTypeOK, PlaceInv, ClaimInv, NEW c \in Users, NEW i, NEW t, Touched(c, i, t),
           slots[i].waiter[DirOf[call[c].op]] \in {c, NoWaiter},
           t.waiter[DirOf[call[c].op]] \in {c, NoWaiter},
           t.sent = slots[i].sent \/ DirOf[call[c].op] = "Write",
           NEW d \in Users \ {c}, NEW j \in DOMAIN slots', Writing(call[d]),
           Same(slots', call[d].handle, j), slots'[j].used, ~slots'[j].closed
    PROVE  /\ j \in DOMAIN slots /\ Same(slots, call[d].handle, j)
           /\ slots[j].used /\ ~slots[j].closed
           /\ Progress(call[d], slots[j], delivered[d], d) =>
                 Progress(call[d], slots'[j], delivered[d], d)
<1>0. /\ i \in DOMAIN slots /\ DOMAIN slots' = DOMAIN slots /\ slots'[i] = t
      /\ \A k \in DOMAIN slots \ {i} : slots'[k] = slots[k]
      /\ t.gen = slots[i].gen /\ slots[i].used /\ ~slots[i].closed
      /\ NoWaiter \notin Users
  BY NetAssumption DEF Touched, SlotStep
<1>1. /\ j \in DOMAIN slots /\ Same(slots, call[d].handle, j)
      /\ slots[j].used /\ ~slots[j].closed
  BY <1>0 DEF Same
<1>2. CASE j # i
  BY <1>0, <1>1, <1>2
<1>3. CASE j = i /\ DirOf[call[c].op] # "Write"
  <2>1. t.waiter["Write"] = slots[i].waiter["Write"] /\ t.sent = slots[i].sent
    BY <1>3 DEF Touched, Dirs
  <2> QED
    BY <1>0, <1>1, <1>3, <2>1 DEF Progress
<1>4. CASE j = i /\ DirOf[call[c].op] = "Write"
  <2>1. slots[i].waiter["Write"] # d /\ t.waiter["Write"] # d
    BY <1>0, <1>4
  <2>2. DirOf[call[d].op] = "Write"
    BY DEF Writing, DirOf
  <2>3. ~call[d].claimed
    <3>1. Claims(slots, call[d], i, "Write")
      BY <1>1, <1>4, <2>2 DEF Claims, Writing
    <3>2. "Write" \in Dirs
      BY DEF Dirs
    <3> QED
      BY <1>0, <2>1, <3>1, <3>2 DEF ClaimInv, Named
  <2>4. call[d].at \notin {"offset", "syscall", "store", "park", "parked"}
    BY <2>3 DEF PlaceInv, Placed, Writing
  <2> QED
    BY <1>0, <1>1, <1>4, <2>1, <2>4 DEF Progress
<1> QED
  BY <1>2, <1>3, <1>4

-----------------------------------------------------------------------------
(***************************************************************************)
(* The steps by what they do to the table.  CoreInv is the part of the     *)
(* invariant that relates calls, handles and slots.                        *)
(***************************************************************************)
CoreInv ==
    /\ PlaceInv /\ HandleInv /\ ClaimInv /\ PrivateInv /\ FreeInv
    /\ ParkedHasAWaker /\ WriteInv

(* The new record of a call keeps its handle, or is one of a call that     *)
(* nobody has on record.                                                   *)
GoesOn(c, r) ==
    /\ Inside(call[c]) /\ Inside(r)
    /\ r.handle = call[c].handle /\ r.op = call[c].op
    /\ r.claimed => call[c].claimed \/ NamedIfClaims(c)
ComesOrGoes(c, r) ==
    /\ Unnamed(c) /\ ~(Inside(r) /\ r.claimed)
    /\ Inside(r) => r.handle \in handles /\ r.op # "connect"

LEMMA CallOnly ==
    ASSUME SocketInv, NEW c \in Users, NEW r, CallStep(c, r),
           UNCHANGED <<slots, freeList, handles, ioWaits>>,
           call[c].at \notin {"waking", "wakefd"}, r.at \notin {"parked", "verdict"},
           Placed(slots, r), GoesOn(c, r) \/ ComesOrGoes(c, r),
           \A d \in Users \ {c} : delivered'[d] = delivered[d],
           ~Writing(r) => delivered'[c] = 0,
           \A i \in DOMAIN slots :
               /\ Writing(r) /\ Same(slots, r.handle, i)
               /\ slots[i].used /\ ~slots[i].closed
               => Progress(r, slots[i], delivered'[c], c)
    PROVE  CoreInv'
<1>1. Steady /\ TableGrows
  <2>1. Steady
    BY SlotType DEF Steady, SocketInv
  <2> QED
    BY <2>1, SteadyGrows DEF SocketInv
<1>2. PlaceInv'
  BY <1>1, PlaceStep DEF SocketInv
<1>3. HandleInv' /\ FreeInv'
  BY <1>1, HandleStep, FreeSteady DEF SocketInv
<1>4. ClaimInv'
  BY ClaimMoves, ClaimLeaves DEF SocketInv, GoesOn, ComesOrGoes
<1>5. PrivateInv'
  <2>1. \A d \in Users \ {c} : Private(call[d]) =>
               /\ \A h \in handles' : ~Same(slots, h, call[d].handle.index)
               /\ Inside(r) => ~Same(slots, r.handle, call[d].handle.index)
    BY DEF SocketInv, PrivateInv, GoesOn, ComesOrGoes
  <2>2. Private(r) => Private(call[c]) /\ r.handle = call[c].handle
    BY DEF Private, GoesOn, ComesOrGoes
  <2>3. PrivateInv
    BY DEF SocketInv
  <2>4. Private(r) =>
               LET k == r.handle.index IN
               /\ Live(slots', r.handle) /\ ~slots'[k].closed
               /\ r.at = "verdict" => Named(slots', k, "Write", c)
               /\ \A h \in handles' : ~Same(slots', h, k)
               /\ \A d \in Users \ {c} :
                     Inside(call[d]) => ~Same(slots', call[d].handle, k)
    BY <2>2, <2>3 DEF PrivateInv
  <2> QED
    BY <2>1, <2>3, <2>4, PrivateStep
<1>6. ParkedHasAWaker'
  BY ParkStep DEF SocketInv
<1>7. WriteInv'
  BY WriteStep DEF SocketInv
<1> QED
  BY <1>2, <1>3, <1>4, <1>5, <1>6, <1>7 DEF CoreInv

(* The call writes its own slot, which stays open. *)
LEMMA TouchedStep ==
    ASSUME SocketInv, NEW c \in Users, NEW r, CallStep(c, r), NEW i, NEW t,
           Touched(c, i, t), freeList' = freeList, ioWaits \subseteq ioWaits',
           r.at = "parked" => \E e \in ioWaits' :
               e.context = c /\ Opened(slots', r.handle) /\ slots'[r.handle.index].fd = e.fd,
           Placed(slots', r),
           \/ handles' = handles
           \/ ~Inside(r) /\ handles' = handles \cup {call[c].handle},
           slots[i].waiter[DirOf[call[c].op]] \in {c, NoWaiter},
           \/ /\ t.waiter[DirOf[call[c].op]] = NoWaiter
              /\ ~Inside(r)
           \/ /\ t.waiter[DirOf[call[c].op]] = c
              /\ Inside(r) /\ r.handle = call[c].handle /\ r.op = call[c].op,
           t.sent = slots[i].sent \/ DirOf[call[c].op] = "Write",
           \A d \in Users \ {c} : delivered'[d] = delivered[d],
           ~Writing(r) => delivered'[c] = 0,
           Writing(r) => Progress(r, t, delivered'[c], c)
    PROVE  CoreInv' /\ Steady
<1>0. /\ i \in DOMAIN slots /\ DOMAIN slots' = DOMAIN slots /\ slots'[i] = t
      /\ \A j \in DOMAIN slots \ {i} : slots'[j] = slots[j]
      /\ slots' \in Seq(Slot) /\ t \in Slot /\ slots[i] \in Slot
      /\ t.gen = slots[i].gen /\ t.fd = slots[i].fd /\ t.used /\ slots[i].used
      /\ ~t.closed /\ ~slots[i].closed
      /\ Inside(call[c]) /\ call[c].handle.index = i /\ call[c].handle.gen = slots[i].gen
  BY SlotType DEF Touched, SlotStep, SocketInv, Same
<1>1. Steady
  <2>1. t.used = slots[i].used
    BY <1>0 DEF Slot
  <2> QED
    BY <1>0, <2>1 DEF Steady
<1>2. TableGrows
  BY <1>1, SteadyGrows DEF SocketInv
<1>3. PlaceInv'
  BY <1>2, PlaceStep DEF SocketInv
<1>4. HandleInv'
  <2>1. Issued(slots', call[c].handle)
    BY <1>0, <1>2, IssuedKept DEF SocketInv, PlaceInv, Placed
  <2> QED
    BY <1>2, <2>1, HandleStep DEF SocketInv
<1>5. FreeInv'
  BY <1>1, FreeSteady DEF SocketInv
<1>6. ClaimInv'
  BY ClaimTouched DEF SocketInv
<1>7. PrivateInv'
  <2>1. PrivateInv
    BY DEF SocketInv
  <2>2. Elsewhere(c, i)
    BY <1>0, <2>1, OthersElsewhere DEF Live
  <2>3. \A d \in Users \ {c} : Private(call[d]) =>
               /\ \A h \in handles' : ~Same(slots, h, call[d].handle.index)
               /\ Inside(r) => ~Same(slots, r.handle, call[d].handle.index)
    BY <1>0, <2>1 DEF PrivateInv
  <2>4. \A h, j : j \in DOMAIN slots => (Same(slots', h, j) <=> Same(slots, h, j))
    BY <1>0 DEF Same
  <2>5. ASSUME Private(r)
        PROVE  LET k == r.handle.index IN
               /\ Live(slots', r.handle) /\ ~slots'[k].closed
               /\ r.at = "verdict" => Named(slots', k, "Write", c)
               /\ \A h \in handles' : ~Same(slots', h, k)
               /\ \A d \in Users \ {c} :
                     Inside(call[d]) => ~Same(slots', call[d].handle, k)
    <3>1. /\ Private(call[c]) /\ r.handle = call[c].handle /\ handles' = handles
          /\ t.waiter[DirOf[call[c].op]] = c
      BY <1>0, <2>5 DEF Private
    <3>2. /\ \A h \in handles : ~Same(slots, h, i)
          /\ \A d \in Users \ {c} : Inside(call[d]) => ~Same(slots, call[d].handle, i)
      BY <1>0, <2>1, <3>1 DEF PrivateInv
    <3>3. Live(slots', r.handle) /\ ~slots'[i].closed
      BY <1>0, <3>1 DEF Live
    <3>4. Named(slots', i, "Write", c)
      BY <1>0, <3>1 DEF Named, Private, DirOf
    <3> QED
      BY <1>0, <2>4, <3>1, <3>2, <3>3, <3>4
  <2> QED
    BY <1>0, <2>1, <2>2, <2>3, <2>5, PrivateStep
<1>8. ParkedHasAWaker'
  <2>1. call[c].at \notin {"waking", "wakefd"}
    BY <1>0 DEF Inside, Outside
  <2>2. \A d \in Users \ {c} : Opened(slots, call[d].handle) =>
            /\ Opened(slots', call[d].handle)
            /\ slots'[call[d].handle.index].fd = slots[call[d].handle.index].fd
    BY OpenTouched
  <2> QED
    BY <2>1, <2>2, ParkStep DEF SocketInv
<1>9. WriteInv'
  <2>1. \A d \in Users \ {c}, j \in DOMAIN slots' :
               /\ Writing(call[d]) /\ Same(slots', call[d].handle, j)
               /\ slots'[j].used /\ ~slots'[j].closed
               => /\ j \in DOMAIN slots /\ Same(slots, call[d].handle, j)
                  /\ slots[j].used /\ ~slots[j].closed
                  /\ Progress(call[d], slots[j], delivered[d], d) =>
                        Progress(call[d], slots'[j], delivered[d], d)
    BY OtherWriteTouched DEF SocketInv
  <2>2. \A j \in DOMAIN slots' : Writing(r) /\ Same(slots', r.handle, j) => j = i
    BY <1>0 DEF Writing, Same
  <2>3. \A j \in DOMAIN slots' :
               /\ Writing(r) /\ Same(slots', r.handle, j)
               /\ slots'[j].used /\ ~slots'[j].closed
               => Progress(r, slots'[j], delivered'[c], c)
    BY <1>0, <2>2
  <2> QED
    BY <2>1, <2>3, WriteStep DEF SocketInv
<1> QED
  BY <1>1, <1>3, <1>4, <1>5, <1>6, <1>7, <1>8, <1>9 DEF CoreInv

(* A slot goes: the call's own, or one whose handle the script has. *)
Known(c, i) ==
    \/ Inside(call[c]) /\ Same(slots, call[c].handle, i)
    \/ ~Inside(call[c]) /\ \E h \in handles : Same(slots, h, i)

LEMMA KnownElsewhere ==
    ASSUME PrivateInv, NEW c \in Users, NEW i \in DOMAIN slots, slots[i].used, Known(c, i)
    PROVE  Elsewhere(c, i)
<1>1. CASE Inside(call[c]) /\ Same(slots, call[c].handle, i)
  BY <1>1, OthersElsewhere DEF Live, Same
<1>2. ASSUME NEW h \in handles, Same(slots, h, i) PROVE Elsewhere(c, i)
  BY <1>2, SharedElsewhere DEF Live, Same
<1> QED
  BY <1>1, <1>2 DEF Known

LEMMA RecycledStep ==
    ASSUME SocketInv, NEW c \in Users, NEW r, CallStep(c, r), NEW i, NEW t,
           Recycled(i, t), Known(c, i), call[c].at \notin {"waking", "wakefd"},
           ~Inside(r), Placed(slots', r), handles' = handles, ioWaits \subseteq ioWaits',
           slots[i].closed \/ Private(call[c]) \/ (r.at = "wakefd" /\ r.fd = slots[i].fd),
           \A d \in Users \ {c} : delivered'[d] = delivered[d], delivered'[c] = 0
    PROVE  CoreInv' /\ freeList' \in Seq(DOMAIN slots')
<1>0. /\ i \in DOMAIN slots /\ DOMAIN slots' = DOMAIN slots /\ slots'[i] = t
      /\ \A j \in DOMAIN slots \ {i} : slots'[j] = slots[j]
      /\ slots[i].used /\ ~t.used
  BY DEF Recycled, SlotStep
<1>1. TableGrows
  BY RecycledGrows DEF SocketInv
<1>2. PlaceInv'
  BY <1>1, PlaceStep DEF SocketInv
<1>3. HandleInv'
  BY <1>1, HandleStep DEF SocketInv
<1>4. FreeInv' /\ freeList' \in Seq(DOMAIN slots')
  BY FreeRecycled DEF SocketInv
<1>5. ClaimInv'
  BY ClaimRecycled DEF SocketInv, Known, Same
<1>6. PrivateInv'
  <2>1. PrivateInv /\ Elsewhere(c, i)
    BY <1>0, KnownElsewhere DEF SocketInv
  <2>2. \A d \in Users \ {c} : Private(call[d]) =>
               \A h \in handles' : ~Same(slots, h, call[d].handle.index)
    BY <2>1 DEF PrivateInv
  <2>3. ~Private(r)
    BY DEF Private
  <2> QED
    BY <1>0, <2>1, <2>2, <2>3, PrivateStep
<1>7. ParkedHasAWaker'
  <2>1. r.at # "parked"
    BY DEF Inside, Outside
  <2>2. ASSUME NEW d \in Users \ {c}, call[d].at = "parked", Opened(slots, call[d].handle)
        PROVE  LET j == call[d].handle.index IN
               \/ Opened(slots', call[d].handle) /\ slots'[j].fd = slots[j].fd
               \/ r.at = "wakefd" /\ r.fd = slots[j].fd
    <3>1. CASE call[d].handle.index # i
      BY <1>0, <2>2, <3>1, OpenElsewhere
    <3>2. CASE call[d].handle.index = i
      <4>1. Inside(call[d]) /\ Same(slots, call[d].handle, i) /\ ~slots[i].closed
        BY <2>2, <3>2 DEF Inside, Outside, Same, Opened, Live
      <4>2. ~Private(call[c])
        BY <4>1 DEF SocketInv, PrivateInv, Known, Same, Private
      <4> QED
        BY <3>2, <4>1, <4>2
    <3> QED
      BY <3>1, <3>2
  <2> QED
    BY <2>1, <2>2, ParkStep DEF SocketInv
<1>8. WriteInv'
  <2>1. ~Writing(r)
    BY DEF Writing
  <2>2. \A d \in Users, j \in DOMAIN slots' :
           /\ Writing(call[d]) /\ Same(slots', call[d].handle, j)
           /\ slots'[j].used /\ ~slots'[j].closed
           => /\ j \in DOMAIN slots /\ Same(slots, call[d].handle, j)
              /\ slots[j].used /\ ~slots[j].closed /\ slots'[j] = slots[j]
    BY OtherWrite DEF SocketInv
  <2> QED
    BY <2>1, <2>2, WriteStep DEF SocketInv
<1> QED
  BY <1>2, <1>3, <1>4, <1>5, <1>6, <1>7, <1>8 DEF CoreInv

LEMMA FlaggedStep ==
    ASSUME SocketInv, NEW c \in Users, NEW r, CallStep(c, r), NEW i, NEW t,
           Flagged(i, t), Known(c, i), call[c].at = "script", freeList' = freeList,
           r.at = "wakefd", r.fd = slots[i].fd, handles' = handles, ioWaits' = ioWaits,
           delivered' = delivered
    PROVE  CoreInv' /\ Steady
<1>0. /\ i \in DOMAIN slots /\ DOMAIN slots' = DOMAIN slots /\ slots'[i] = t
      /\ \A j \in DOMAIN slots \ {i} : slots'[j] = slots[j]
      /\ slots[i].used /\ t.used /\ t.closed /\ slots' \in Seq(Slot)
      /\ t.gen = slots[i].gen /\ t.fd = slots[i].fd /\ t \in Slot /\ slots[i] \in Slot
      /\ ~Inside(call[c]) /\ ~Inside(r)
  BY SlotType DEF Flagged, SlotStep, Inside, Outside, SocketInv
<1>1. Steady
  <2>1. t.used = slots[i].used
    BY <1>0 DEF Slot
  <2> QED
    BY <1>0, <2>1 DEF Steady
<1>2. TableGrows
  BY <1>1, SteadyGrows DEF SocketInv
<1>3. PlaceInv'
  <2>1. Placed(slots', r)
    BY DEF Placed, Inside, Outside
  <2> QED
    BY <1>2, <2>1, PlaceStep DEF SocketInv
<1>4. HandleInv' /\ FreeInv'
  BY <1>1, <1>2, HandleStep, FreeSteady DEF SocketInv
<1>5. ClaimInv'
  BY <1>0, ClaimFlagged DEF SocketInv
<1>6. PrivateInv'
  <2>1. PrivateInv /\ Elsewhere(c, i)
    BY <1>0, KnownElsewhere DEF SocketInv
  <2>2. \A d \in Users \ {c} : Private(call[d]) =>
               \A h \in handles' : ~Same(slots, h, call[d].handle.index)
    BY <2>1 DEF PrivateInv
  <2>3. ~Private(r)
    BY <1>0 DEF Private
  <2> QED
    BY <1>0, <2>1, <2>2, <2>3, PrivateStep
<1>7. ParkedHasAWaker'
  <2>1. \A d \in Users \ {c} : Opened(slots, call[d].handle) =>
               LET j == call[d].handle.index IN
               \/ Opened(slots', call[d].handle) /\ slots'[j].fd = slots[j].fd
               \/ r.at = "wakefd" /\ r.fd = slots[j].fd
    BY <1>0, OpenElsewhere
  <2> QED
    BY <2>1, ParkStep DEF SocketInv
<1>8. WriteInv'
  <2>1. ~Writing(r) /\ ~Writing(call[c])
    BY <1>0 DEF Writing
  <2>2. \A d \in Users, j \in DOMAIN slots' :
           /\ Writing(call[d]) /\ Same(slots', call[d].handle, j)
           /\ slots'[j].used /\ ~slots'[j].closed
           => /\ j \in DOMAIN slots /\ Same(slots, call[d].handle, j)
              /\ slots[j].used /\ ~slots[j].closed /\ slots'[j] = slots[j]
    BY OtherWrite DEF SocketInv
  <2>3. delivered'[c] = 0
    BY <2>1 DEF SocketInv, WriteInv
  <2> QED
    BY <2>1, <2>2, <2>3, WriteStep DEF SocketInv
<1> QED
  BY <1>1, <1>3, <1>4, <1>5, <1>6, <1>7, <1>8 DEF CoreInv

LEMMA FilledStep ==
    ASSUME SocketInv, NEW c \in Users, NEW r, CallStep(c, r), NEW i, NEW t, NEW f,
           Filled(i, t, f), call[c].at = "mint", NEW h \in Handles,
           h.index = i, h.gen = t.gen, ioWaits' = ioWaits, delivered' = delivered,
           \/ r.at = "script" /\ handles' = handles \cup {h}
           \/ /\ r.at = "park" /\ r.op = "connect" /\ ~r.claimed /\ r.handle = h
              /\ handles' = handles
    PROVE  CoreInv'
<1>0. /\ DOMAIN slots' = DOMAIN slots \cup {i} /\ slots'[i] = t
      /\ \A j \in DOMAIN slots \ {i} : slots'[j] = slots[j]
      /\ t.used /\ ~t.closed /\ t \in Slot
      /\ i \in DOMAIN slots => ~slots[i].used
      /\ ~Inside(call[c]) /\ ~Writing(r) /\ ~Writing(call[c])
  BY DEF Filled, Inside, Outside, Writing
<1>1. TableGrows
  BY FilledGrows DEF SocketInv
<1>2. Issued(slots', h) /\ Same(slots', h, i)
  BY <1>0 DEF Issued, Same, Slot
<1>3. PlaceInv'
  <2>1. Placed(slots', r)
    BY <1>2 DEF Placed, Inside, Outside, Ops
  <2> QED
    BY <1>1, <2>1, PlaceStep DEF SocketInv
<1>4. HandleInv' /\ FreeInv'
  BY <1>1, <1>2, HandleStep, FreeFilled DEF SocketInv
<1>5. ClaimInv'
  <2>1. ~(Inside(r) /\ r.claimed)
    BY DEF Inside, Outside
  <2> QED
    BY <1>0, <2>1, ClaimFilled DEF SocketInv
<1>6. \A g \in handles : ~Same(slots', g, i)
  BY FilledIsNew DEF SocketInv, HandleInv
<1>7. \A d \in Users : Inside(call[d]) => ~Same(slots', call[d].handle, i)
  BY FilledIsNew DEF SocketInv, PlaceInv, Placed
<1>8. PrivateInv'
  <2>1. PrivateInv
    BY DEF SocketInv
  <2>2. \A d \in Users : Private(call[d]) => call[d].handle.index # i
                                             /\ call[d].handle.index \in DOMAIN slots
    BY <1>0, <2>1 DEF PrivateInv, Live
  <2>3. \A d \in Users \ {c} : Private(call[d]) =>
               /\ \A g \in handles' : ~Same(slots, g, call[d].handle.index)
               /\ Inside(r) => ~Same(slots, r.handle, call[d].handle.index)
    BY <2>1, <2>2 DEF PrivateInv, Same, Inside, Outside
  <2>4. ASSUME Private(r)
        PROVE  LET k == r.handle.index IN
               /\ Live(slots', r.handle) /\ ~slots'[k].closed
               /\ r.at = "verdict" => Named(slots', k, "Write", c)
               /\ \A g \in handles' : ~Same(slots', g, k)
               /\ \A d \in Users \ {c} :
                     Inside(call[d]) => ~Same(slots', call[d].handle, k)
    <3>1. r.at = "park" /\ r.handle = h /\ handles' = handles
      BY <2>4 DEF Private, Inside, Outside
    <3> QED
      BY <1>0, <1>6, <1>7, <3>1 DEF Live
  <2>5. Elsewhere(c, i) /\ DOMAIN slots \subseteq DOMAIN slots'
    BY <1>0, <2>2 DEF Elsewhere
  <2> QED
    BY <1>0, <2>1, <2>3, <2>4, <2>5, PrivateStep
<1>9. ParkedHasAWaker'
  <2>1. \A d \in Users \ {c} : Opened(slots, call[d].handle) =>
            /\ Opened(slots', call[d].handle)
            /\ slots'[call[d].handle.index].fd = slots[call[d].handle.index].fd
    BY <1>0, OpenElsewhere DEF Opened, Live
  <2> QED
    BY <2>1, ParkStep DEF SocketInv
<1>10. WriteInv'
  <2>2. \A d \in Users, j \in DOMAIN slots' :
           /\ Writing(call[d]) /\ Same(slots', call[d].handle, j)
           /\ slots'[j].used /\ ~slots'[j].closed
           => /\ j \in DOMAIN slots /\ Same(slots, call[d].handle, j)
              /\ slots[j].used /\ ~slots[j].closed /\ slots'[j] = slots[j]
    BY OtherWrite DEF SocketInv
  <2>3. delivered'[c] = 0
    BY <1>0 DEF SocketInv, WriteInv
  <2> QED
    BY <1>0, <2>2, <2>3, WriteStep DEF SocketInv
<1> QED
  BY <1>3, <1>4, <1>5, <1>8, <1>9, <1>10 DEF CoreInv

-----------------------------------------------------------------------------
(***************************************************************************)
(* The actions, one by one.                                                *)
(***************************************************************************)
Moved(c, x) == [call[c] EXCEPT !.at = x]

LEMMA MovedType ==
    ASSUME NetTypeOK, NEW c \in Users, NEW x \in Sections
    PROVE  /\ Moved(c, x) \in Record /\ Moved(c, x).at = x
           /\ Moved(c, x).op = call[c].op /\ Moved(c, x).handle = call[c].handle
           /\ Moved(c, x).fd = call[c].fd /\ Moved(c, x).claimed = call[c].claimed
           /\ Moved(c, x).fresh = call[c].fresh /\ Moved(c, x).offset = call[c].offset
           /\ To(c, x) => CallStep(c, Moved(c, x))
<1>1. call[c] \in Record
  BY CallType
<1>2. Moved(c, x) \in Record
  BY <1>1 DEF Moved, Record
<1>3. To(c, x) => call' = [call EXCEPT ![c] = Moved(c, x)]
  BY DEF To, Moved
<1>4. To(c, x) => CallStep(c, Moved(c, x))
  BY <1>2, <1>3, OneCall
<1> QED
  BY <1>1, <1>2, <1>4 DEF Moved, Record

LEMMA SectionNames ==
    /\ \A x \in {"script", "mint", "adopt", "offset", "syscall", "store", "release",
                 "accepted", "park", "parked", "verdict", "wakefd", "waking"} : x \in Sections
    /\ \A r : Inside(r) <=> r.at \notin {"script", "mint", "wakefd", "waking"}
BY DEF Sections, Inside, Outside

(* The calls that end: what is left of them. *)
LEMMA Ended ==
    ASSUME NetTypeOK, NEW c \in Users, Return(c)
    PROVE  CallStep(c, Idle)
BY IdleType, OneCall DEF Return

(* A step that leaves the table and the descriptors alone. *)
LEMMA Quiet ==
    ASSUME SocketInv, NEW c \in Users, NEW r, CallStep(c, r),
           UNCHANGED <<program, tableVars, handles, opened, parkVars>>,
           call[c].at \notin {"waking", "wakefd"}, r.at \notin {"parked", "verdict"},
           Placed(slots, r), GoesOn(c, r) \/ ComesOrGoes(c, r),
           delivered' \in [Users -> Nat],
           \A d \in Users \ {c} : delivered'[d] = delivered[d],
           ~Writing(r) => delivered'[c] = 0,
           \A i \in DOMAIN slots :
               /\ Writing(r) /\ Same(slots, r.handle, i)
               /\ slots[i].used /\ ~slots[i].closed
               => Progress(r, slots[i], delivered'[c], c),
           \A f \in Fds \cup {NoFd} : Bears(r, f) <=> Bears(call[c], f)
    PROVE  SocketInv'
<1>1. Steady
  BY SlotType DEF Steady, SocketInv, tableVars
<1>2. CoreInv'
  BY CallOnly DEF tableVars, parkVars
<1>3. GenInv'
  BY <1>1, GenSteady DEF SocketInv, tableVars
<1>4. FdInv'
  <2>1. \A d \in Users, f \in Fds \cup {NoFd} : Bears(call'[d], f) <=> Bears(call[d], f)
    BY DEF CallStep
  <2> QED
    BY <1>1, <2>1, FdSteady DEF SocketInv, tableVars
<1>5. NetTypeOK'
  BY DEF SocketInv, NetTypeOK, tableVars, parkVars, CallStep, Record
<1> QED
  BY <1>2, <1>3, <1>4, <1>5 DEF SocketInv, CoreInv

(* A connect in flight is never refused its park. *)
LEMMA ConnectMayPark ==
    ASSUME SocketInv, NEW c \in Users, Private(call[c])
    PROVE  MayPark(c)
<1> DEFINE i == call[c].handle.index
           w == slots[i].waiter["Write"]
<1>0. /\ NetTypeOK /\ ClaimInv /\ Live(slots, call[c].handle) /\ ~slots[i].closed
      /\ \A d \in Users \ {c} : Inside(call[d]) => ~Same(slots, call[d].handle, i)
  BY DEF SocketInv, PrivateInv
<1>1. i \in DOMAIN slots /\ slots[i].used /\ slots[i] \in Slot
  BY <1>0, SlotType DEF Live
<1>2. w \in Users \cup {NoWaiter} /\ "Write" \in Dirs
  BY <1>1 DEF Slot, Dirs
<1>3. w \in Users => Claims(slots, call[w], i, "Write")
  BY <1>0, <1>1, <1>2 DEF ClaimInv, Named
<1>4. w \in {NoWaiter, c}
  BY <1>0, <1>2, <1>3 DEF Claims
<1>5. Lookup(Handle(c)) /\ SlotOf(Handle(c)) = slots[i] /\ Dir(c) = "Write"
  BY <1>0 DEF Lookup, IsSlot, SlotOf, Handle, Live, Dir, DirOf, Private
<1> QED
  BY <1>4, <1>5 DEF MayPark, Foreign

(* SyscallEnds, WouldBlock and ParkRefused. *)
LEMMA MoveStep ==
    ASSUME SocketInv, NEW c \in Users, NEW x \in {"release", "park"}, To(c, x),
           call[c].at \in {"syscall", "park"}, call[c].op # "connect",
           x = "park" => call[c].at = "syscall",
           UNCHANGED <<program, tableVars, handles, opened, parkVars, delivered>>
    PROVE  SocketInv'
<1> DEFINE r == Moved(c, x)
<1>0. NetTypeOK /\ PlaceInv /\ WriteInv
  BY DEF SocketInv
<1>1. /\ CallStep(c, r) /\ r.at = x /\ r.op = call[c].op /\ r.offset = call[c].offset
      /\ r.handle = call[c].handle /\ r.claimed = call[c].claimed
  BY <1>0, MovedType, SectionNames
<1> HIDE DEF r
<1>2. GoesOn(c, r)
  BY <1>1, SectionNames DEF GoesOn
<1>3. Placed(slots, r)
  BY <1>0, <1>1, SectionNames DEF PlaceInv, Placed
<1>4. Writing(r) <=> Writing(call[c])
  BY <1>1, SectionNames DEF Writing
<1>5. ~Writing(r) => delivered[c] = 0
  BY <1>0, <1>4 DEF WriteInv
<1>6. \A i \in DOMAIN slots :
         /\ Writing(r) /\ Same(slots, r.handle, i) /\ slots[i].used /\ ~slots[i].closed
         => Progress(r, slots[i], delivered[c], c)
  BY <1>0, <1>1, <1>4 DEF WriteInv, Progress
<1>7. \A f : ~Bears(r, f) /\ ~Bears(call[c], f)
  BY <1>1 DEF Bears
<1>8. delivered \in [Users -> Nat]
  BY <1>0 DEF NetTypeOK
<1> QED
  BY <1>1, <1>2, <1>3, <1>5, <1>6, <1>7, <1>8, Quiet

LEMMA SyscallStep ==
    ASSUME SocketInv, NEW c \in Users,
           SyscallEnds(c) \/ WouldBlock(c) \/ ParkRefused(c)
    PROVE  SocketInv'
<1>0. Placed(slots, call[c])
  BY DEF SocketInv, PlaceInv
<1>1. CASE SyscallEnds(c)
  <2>1. call[c].op # "connect"
    BY <1>0, <1>1, SectionNames DEF SyscallEnds, At, Placed
  <2> QED
    BY <1>1, <2>1, MoveStep DEF SyscallEnds, At
<1>2. CASE WouldBlock(c)
  <2>1. call[c].op # "connect"
    BY <1>0, <1>2, SectionNames DEF WouldBlock, At, Placed
  <2> QED
    BY <1>2, <2>1, MoveStep DEF WouldBlock, At
<1>3. CASE ParkRefused(c)
  <2>1. call[c].op # "connect"
    BY <1>3, ConnectMayPark, SectionNames DEF ParkRefused, At, Private
  <2> QED
    BY <1>3, <2>1, MoveStep DEF ParkRefused, At
<1> QED
  BY <1>1, <1>2, <1>3

LEMMA StillConnectingStep ==
    ASSUME SocketInv, NEW c \in Users, StillConnecting(c)
    PROVE  SocketInv'
<1> DEFINE r == [call[c] EXCEPT !.at = "park", !.claimed = TRUE]
<1>0. NetTypeOK /\ PlaceInv /\ WriteInv /\ call[c].at = "verdict" /\ call[c] \in Record
  BY CallType DEF SocketInv, StillConnecting, At
<1>1. r \in Record /\ r.at = "park" /\ r.op = call[c].op /\ r.handle = call[c].handle
  BY <1>0, SectionNames DEF Record
<1>2. CallStep(c, r)
  <2>1. call' = [call EXCEPT ![c] = r]
    BY DEF StillConnecting
  <2> QED
    BY <1>0, <1>1, <2>1, OneCall
<1> HIDE DEF r
<1>3. Private(call[c]) /\ Inside(r) /\ Inside(call[c]) /\ call[c].op = "connect"
  BY <1>0, <1>1, SectionNames DEF PlaceInv, Placed, Private
<1>4. NamedIfClaims(c)
  <2>1. Named(slots, call[c].handle.index, "Write", c)
    BY <1>0, <1>3 DEF SocketInv, PrivateInv, At
  <2> QED
    BY <1>3, <2>1 DEF NamedIfClaims, Claims, Same, DirOf
<1>5. GoesOn(c, r)
  BY <1>1, <1>3, <1>4 DEF GoesOn
<1>6. Placed(slots, r)
  BY <1>0, <1>1, <1>3 DEF PlaceInv, Placed
<1>7. ~Writing(r) /\ ~Writing(call[c]) /\ \A f : ~Bears(r, f) /\ ~Bears(call[c], f)
  BY <1>0, <1>1, <1>3 DEF Writing, Bears
<1>8. delivered[c] = 0 /\ delivered \in [Users -> Nat]
  BY <1>0, <1>7 DEF WriteInv, NetTypeOK
<1>9. UNCHANGED <<program, tableVars, handles, opened, parkVars, delivered>>
  BY DEF StillConnecting
<1> QED
  BY <1>0, <1>1, <1>2, <1>5, <1>6, <1>7, <1>8, <1>9, Quiet

LEMMA BeginStep ==
    ASSUME SocketInv, NEW c \in Users, NEW op \in {"read", "write", "accept"},
           NEW h \in handles, Begin(c, op, h)
    PROVE  SocketInv'
<1> DEFINE r == [Idle EXCEPT !.at = "adopt", !.op = op, !.handle = h]
<1>0. /\ NetTypeOK /\ ClaimInv /\ HandleInv /\ WriteInv /\ call[c].at = "script"
      /\ h \in Handles
  BY DEF SocketInv, Begin, Calls, At, NetTypeOK
<1>1. r \in Record /\ r.at = "adopt" /\ r.op = op /\ r.handle = h /\ ~r.claimed
  BY <1>0, IdleType, SectionNames DEF Record, Idle, AllOps
<1>2. CallStep(c, r)
  <2>1. call' = [call EXCEPT ![c] = r]
    BY DEF Begin
  <2> QED
    BY <1>0, <1>1, <2>1, OneCall
<1> HIDE DEF r
<1>3. ~Inside(call[c]) /\ Inside(r) /\ ~Writing(call[c])
  BY <1>0, <1>1, SectionNames DEF Writing
<1>4. ComesOrGoes(c, r)
  BY <1>0, <1>1, <1>3, OutsideUnnamed DEF ComesOrGoes
<1>5. Placed(slots, r)
  BY <1>0, <1>1 DEF HandleInv, Placed, Ops
<1>6. delivered[c] = 0 /\ delivered \in [Users -> Nat]
  BY <1>0, <1>3 DEF WriteInv, NetTypeOK
<1>7. \A i \in DOMAIN slots : slots[i].used => Progress(r, slots[i], delivered[c], c)
  <2>1. \A i \in DOMAIN slots : slots[i].used => slots[i].waiter["Write"] # c
    BY <1>4 DEF ComesOrGoes, Unnamed, Named, Dirs
  <2> QED
    BY <1>1, <1>6, <2>1 DEF Progress
<1>8. \A f : ~Bears(r, f) /\ ~Bears(call[c], f)
  BY <1>0, <1>1 DEF Bears
<1>9. UNCHANGED <<program, tableVars, handles, opened, parkVars, delivered>>
  BY DEF Begin
<1>10. ~Writing(r) => delivered'[c] = 0
  BY <1>6, <1>9
<1> QED
  BY <1>0, <1>1, <1>2, <1>4, <1>5, <1>6, <1>7, <1>8, <1>9, <1>10, Quiet

(* What every call at "adopt" has. *)
LEMMA AdoptFacts ==
    ASSUME SocketInv, NEW c \in Users, call[c].at = "adopt"
    PROVE  /\ Inside(call[c]) /\ call[c].op \in {"read", "write", "accept"}
           /\ Dir(c) = DirOf[call[c].op] /\ Dir(c) \in Dirs /\ Issued(slots, call[c].handle)
<1>1. Inside(call[c]) /\ call[c].op \in Ops /\ call[c].op # "connect"
      /\ Issued(slots, call[c].handle)
  BY SectionNames DEF SocketInv, PlaceInv, Placed
<1> QED
  BY <1>1, DirType DEF Dir, Ops

(* A call without a claim, on a socket of another: it just returns. *)
LEMMA AdoptConcurrentStep ==
    ASSUME SocketInv, NEW c \in Users, AdoptConcurrent(c)
    PROVE  SocketInv'
<1>0. /\ NetTypeOK /\ ClaimInv /\ call[c].at = "adopt"
      /\ Lookup(Handle(c)) /\ Foreign(c) /\ Return(c)
      /\ delivered' = [delivered EXCEPT ![c] = 0]
      /\ UNCHANGED <<program, tableVars, handles, opened, parkVars>>
  BY DEF SocketInv, AdoptConcurrent, Finish, At
<1>1. CallStep(c, Idle) /\ Idle.at = "script"
  BY <1>0, Ended, IdleType
<1>2. Unnamed(c)
  <2> SUFFICES ASSUME NEW i \in DOMAIN slots, NEW d \in Dirs, slots[i].used,
                      Named(slots, i, d, c)
               PROVE  FALSE
    BY DEF Unnamed
  <2>1. call[c].handle.index = i /\ DirOf[call[c].op] = d
    BY <1>0, NamedWhere
  <2> QED
    BY <1>0, <2>1 DEF Foreign, Named, SlotOf, Handle, Dir
<1>3. ComesOrGoes(c, Idle) /\ Placed(slots, Idle) /\ ~Writing(Idle)
  BY <1>1, <1>2, SectionNames DEF ComesOrGoes, Placed, Writing
<1>4. \A f : ~Bears(Idle, f) /\ ~Bears(call[c], f)
  BY <1>0, <1>1 DEF Bears
<1>5. /\ delivered' \in [Users -> Nat] /\ delivered'[c] = 0
      /\ \A d \in Users \ {c} : delivered'[d] = delivered[d]
  BY <1>0 DEF NetTypeOK
<1> QED
  BY <1>0, <1>1, <1>3, <1>4, <1>5, Quiet

LEMMA SendStep ==
    ASSUME SocketInv, NEW c \in Users, NEW n \in 1 .. WriteLength, Send(c, n)
    PROVE  SocketInv'
<1> DEFINE r == [call[c] EXCEPT !.at = "store", !.offset = @ + n]
<1>0. /\ NetTypeOK /\ PlaceInv /\ WriteInv /\ call[c].at = "syscall" /\ call[c] \in Record
      /\ call[c].op = "write" /\ n <= WriteLength - call[c].offset
      /\ delivered' = [delivered EXCEPT ![c] = @ + n]
      /\ UNCHANGED <<program, tableVars, handles, opened, parkVars>>
  BY CallType DEF SocketInv, Send, At, OfTheRest
<1>1. call[c].offset \in 0 .. WriteLength /\ WriteLength \in Nat
  BY <1>0, NetAssumption DEF Record
<1>2. call[c].offset + n \in 0 .. WriteLength
  BY <1>0, <1>1
<1>3. /\ r \in Record /\ r.at = "store" /\ r.op = call[c].op /\ r.handle = call[c].handle
      /\ r.claimed = call[c].claimed /\ r.offset = call[c].offset + n
  BY <1>0, <1>2, SectionNames DEF Record
<1>4. CallStep(c, r)
  <2>1. call' = [call EXCEPT ![c] = r]
    BY DEF Send
  <2> QED
    BY <1>0, <1>3, <2>1, OneCall
<1> HIDE DEF r
<1>5. GoesOn(c, r) /\ Placed(slots, r) /\ Writing(r) /\ Writing(call[c])
  BY <1>0, <1>3, SectionNames DEF GoesOn, PlaceInv, Placed, Writing
<1>6. delivered \in [Users -> Nat]
  BY <1>0 DEF NetTypeOK
<1>7. /\ delivered' \in [Users -> Nat] /\ delivered'[c] = delivered[c] + n
      /\ \A d \in Users \ {c} : delivered'[d] = delivered[d]
  BY <1>0, <1>6
<1>8. \A i \in DOMAIN slots :
         /\ Writing(r) /\ Same(slots, r.handle, i) /\ slots[i].used /\ ~slots[i].closed
         => Progress(r, slots[i], delivered'[c], c)
  <2> SUFFICES ASSUME NEW i \in DOMAIN slots, Same(slots, call[c].handle, i),
                      slots[i].used, ~slots[i].closed
               PROVE  Progress(r, slots[i], delivered'[c], c)
    BY <1>3
  <2>1. Progress(call[c], slots[i], delivered[c], c)
    BY <1>0, <1>5 DEF WriteInv
  <2> QED
    BY <1>0, <1>3, <1>7, <2>1 DEF Progress
<1>9. \A f : ~Bears(r, f) /\ ~Bears(call[c], f)
  BY <1>0, <1>3 DEF Bears
<1> QED
  BY <1>0, <1>3, <1>4, <1>5, <1>7, <1>8, <1>9, Quiet

(* The descriptors come and go while the table stands still. *)
LEMMA OpenStep ==
    ASSUME SocketInv, NEW c \in Users, NEW op, NEW f \in Fds, Open(c, op, f)
    PROVE  SocketInv'
<1> DEFINE r == [Idle EXCEPT !.at = "mint", !.op = op, !.fd = f]
<1>0. /\ NetTypeOK /\ ClaimInv /\ WriteInv /\ GenInv /\ FdInv /\ call[c].at = "script"
      /\ f \notin openFds /\ openFds' = openFds \cup {f} /\ opened' = opened + 1
      /\ opened < MaxOpens /\ op \in {"bind", "connect"}
      /\ UNCHANGED <<program, slots, freeList, handles, epoll, parkVars, delivered>>
  BY DEF SocketInv, Open, Calls, At
<1>1. r \in Record /\ r.at = "mint" /\ r.fd = f /\ ~r.claimed
  BY <1>0, IdleType, SectionNames DEF Record, Idle, AllOps
<1>2. CallStep(c, r)
  <2>1. call' = [call EXCEPT ![c] = r]
    BY DEF Open
  <2> QED
    BY <1>0, <1>1, <2>1, OneCall
<1> HIDE DEF r
<1>3. ~Inside(call[c]) /\ ~Inside(r) /\ ~Writing(call[c]) /\ ~Writing(r)
  BY <1>0, <1>1, SectionNames DEF Writing
<1>4. ComesOrGoes(c, r) /\ Placed(slots, r)
  BY <1>0, <1>1, <1>3, OutsideUnnamed DEF ComesOrGoes, Placed
<1>5. delivered[c] = 0
  BY <1>0, <1>3 DEF WriteInv
<1>6. CoreInv'
  BY <1>0, <1>1, <1>2, <1>3, <1>4, <1>5, CallOnly DEF parkVars
<1>7. GenInv'
  BY <1>0, GenOpened
<1>8. FdInv'
  <2>1. /\ Bears(call'[c], f) /\ \A g : ~Bears(call[c], g)
        /\ \A g : g # f => ~Bears(call'[c], g)
        /\ \A d \in Users \ {c} : call'[d] = call[d]
    BY <1>0, <1>1, <1>2 DEF CallStep, Bears
  <2> QED
    BY <1>0, <2>1, FdOpened
<1>9. NetTypeOK'
  <2>1. opened' \in 0 .. MaxOpens
    BY <1>0, NetAssumption DEF NetTypeOK
  <2> QED
    BY <1>0, <1>2, <2>1 DEF NetTypeOK, parkVars, CallStep, Record
<1> QED
  BY <1>6, <1>7, <1>8, <1>9 DEF SocketInv, CoreInv

LEMMA AcceptPeerStep ==
    ASSUME SocketInv, NEW c \in Users, NEW f \in Fds, AcceptPeer(c, f)
    PROVE  SocketInv'
<1> DEFINE r == [call[c] EXCEPT !.at = "accepted", !.fd = f]
<1>0. /\ NetTypeOK /\ PlaceInv /\ WriteInv /\ GenInv /\ FdInv /\ call[c].at = "syscall"
      /\ call[c].op = "accept" /\ call[c] \in Record
      /\ f \notin openFds /\ openFds' = openFds \cup {f} /\ opened' = opened + 1
      /\ opened < MaxOpens
      /\ UNCHANGED <<program, slots, freeList, handles, epoll, parkVars, delivered>>
  BY CallType DEF SocketInv, AcceptPeer, At
<1>1. /\ r \in Record /\ r.at = "accepted" /\ r.fd = f /\ r.op = call[c].op
      /\ r.handle = call[c].handle /\ r.claimed = call[c].claimed
  BY <1>0, SectionNames DEF Record
<1>2. CallStep(c, r)
  <2>1. call' = [call EXCEPT ![c] = r]
    BY DEF AcceptPeer
  <2> QED
    BY <1>0, <1>1, <2>1, OneCall
<1> HIDE DEF r
<1>3. ~Writing(call[c]) /\ ~Writing(r)
  BY <1>0, <1>1 DEF Writing
<1>4. GoesOn(c, r) /\ Placed(slots, r)
  BY <1>0, <1>1, SectionNames DEF GoesOn, PlaceInv, Placed
<1>5. delivered[c] = 0
  BY <1>0, <1>3 DEF WriteInv
<1>6. CoreInv'
  BY <1>0, <1>1, <1>2, <1>3, <1>4, <1>5, CallOnly DEF parkVars
<1>7. GenInv'
  BY <1>0, GenOpened
<1>8. FdInv'
  <2>1. /\ Bears(call'[c], f) /\ \A g : ~Bears(call[c], g)
        /\ \A g : g # f => ~Bears(call'[c], g)
        /\ \A d \in Users \ {c} : call'[d] = call[d]
    BY <1>0, <1>1, <1>2 DEF CallStep, Bears
  <2> QED
    BY <1>0, <2>1, FdOpened
<1>9. NetTypeOK'
  <2>1. opened' \in 0 .. MaxOpens
    BY <1>0, NetAssumption DEF NetTypeOK
  <2> QED
    BY <1>0, <1>2, <2>1 DEF NetTypeOK, parkVars, CallStep, Record
<1> QED
  BY <1>6, <1>7, <1>8, <1>9 DEF SocketInv, CoreInv

LEMMA KickFailsStep ==
    ASSUME SocketInv, NEW c \in Users, KickFails(c) \/ BindFails(c)
    PROVE  SocketInv'
<1> DEFINE f == call[c].fd
<1>0. /\ NetTypeOK /\ ClaimInv /\ WriteInv /\ GenInv /\ FdInv /\ call[c].at = "mint"
      /\ openFds' = openFds \ {f} /\ epoll' = [epoll EXCEPT ![f] = {}] /\ Return(c)
      /\ UNCHANGED <<program, slots, freeList, handles, opened, parkVars, delivered>>
      /\ call[c] \in Record
  BY CallType DEF SocketInv, KickFails, BindFails, CloseUnminted, CloseFd, At
<1>1. CallStep(c, Idle) /\ Idle.at = "script"
  BY <1>0, Ended, IdleType
<1>2. Bears(call[c], f) /\ f \in Fds \cup {NoFd}
  BY <1>0 DEF Bears, Record
<1>3. f \in openFds /\ f \in Fds
  BY <1>0, <1>2, FdType DEF FdInv
<1> HIDE DEF f
<1>4. ~Inside(call[c]) /\ ~Inside(Idle) /\ ~Writing(call[c]) /\ ~Writing(Idle)
  BY <1>0, <1>1, SectionNames DEF Writing
<1>5. ComesOrGoes(c, Idle) /\ Placed(slots, Idle)
  BY <1>0, <1>1, <1>4, OutsideUnnamed DEF ComesOrGoes, Placed
<1>6. delivered[c] = 0
  BY <1>0, <1>4 DEF WriteInv
<1>7. CoreInv'
  BY <1>0, <1>1, <1>4, <1>5, <1>6, CallOnly DEF parkVars
<1>8. GenInv'
  BY <1>0, <1>3, GenClosed
<1>9. FdInv'
  <2>1. (\A g : ~Bears(call'[c], g)) /\ \A d \in Users \ {c} : call'[d] = call[d]
    BY <1>1 DEF CallStep, Bears
  <2> QED
    BY <1>0, <1>2, <1>3, <2>1, FdDropped
<1>10. NetTypeOK'
  BY <1>0, <1>1, <1>3 DEF NetTypeOK, parkVars, CallStep, Record
<1> QED
  BY <1>7, <1>8, <1>9, <1>10 DEF SocketInv, CoreInv

-----------------------------------------------------------------------------
(* The actions on the call's own slot, which stays open. *)
LEMMA OwnSlot ==
    ASSUME SocketInv, NEW c \in Users, Inside(call[c])
    PROVE  /\ IsSlot(Handle(c)) <=> Live(slots, call[c].handle)
           /\ Lookup(Handle(c)) <=> Opened(slots, call[c].handle)
           /\ SlotOf(Handle(c)) = slots[call[c].handle.index]
           /\ Dir(c) = DirOf[call[c].op] /\ Dir(c) \in Dirs
           /\ call[c] \in Record /\ Issued(slots, call[c].handle)
           /\ IsSlot(Handle(c)) => /\ call[c].handle.index \in DOMAIN slots
                                   /\ slots[call[c].handle.index] \in Slot
                                   /\ slots[call[c].handle.index].used
                                   /\ Same(slots, call[c].handle, call[c].handle.index)
<1>1. NetTypeOK /\ Placed(slots, call[c])
  BY DEF SocketInv, PlaceInv
<1>2. call[c].op \in Ops /\ Issued(slots, call[c].handle)
  BY <1>1 DEF Placed
<1>3. IsSlot(Handle(c)) <=> Live(slots, call[c].handle)
  BY DEF IsSlot, SlotOf, Handle, Live
<1>4. Lookup(Handle(c)) <=> Opened(slots, call[c].handle)
  BY <1>3 DEF Lookup, SlotOf, Handle, Opened
<1>5. call[c] \in Record /\ \A i \in DOMAIN slots : slots[i] \in Slot
  BY <1>1, CallType, SlotType
<1> QED
  BY <1>2, <1>3, <1>4, <1>5, DirType DEF Dir, SlotOf, Handle, Live, Same

(* A call that holds its claim finds its own name in the slot. *)
LEMMA ClaimIsMine ==
    ASSUME SocketInv, NEW c \in Users, Inside(call[c]), call[c].claimed,
           IsSlot(Handle(c))
    PROVE  slots[call[c].handle.index].waiter[Dir(c)] = c
<1> DEFINE i == call[c].handle.index
<1>1. i \in DOMAIN slots /\ slots[i].used /\ Same(slots, call[c].handle, i)
      /\ Dir(c) = DirOf[call[c].op] /\ Dir(c) \in Dirs
  BY OwnSlot
<1>2. Claims(slots, call[c], i, Dir(c))
  BY <1>1 DEF Claims
<1> QED
  BY <1>1, <1>2 DEF SocketInv, ClaimInv, Named

(* What is left to show when no slot is freed or filled. *)
LEMMA SteadyAll ==
    ASSUME SocketInv, NEW c \in Users, NEW r, CallStep(c, r), CoreInv' /\ Steady,
           UNCHANGED <<program, freeList, openFds, epoll, opened, baseline, poller>>,
           handles' \subseteq Handles,
           armed' \in [Users -> BOOLEAN], delivered' \in [Users -> Nat],
           ioWaits' \subseteq [context : Users, fd : Fds, event : Events],
           \A f \in Fds \cup {NoFd} : Bears(r, f) <=> Bears(call[c], f)
    PROVE  SocketInv'
<1>1. GenInv'
  BY GenSteady DEF SocketInv
<1>2. FdInv'
  <2>1. \A d \in Users, f \in Fds \cup {NoFd} : Bears(call'[d], f) <=> Bears(call[d], f)
    BY DEF CallStep
  <2> QED
    BY <2>1, FdSteady DEF SocketInv
<1>3. NetTypeOK'
  <2>1. freeList' \in Seq(DOMAIN slots') /\ slots' \in Seq(Slot)
    BY DEF SocketInv, NetTypeOK, Steady
  <2> QED
    BY <2>1 DEF SocketInv, NetTypeOK, CallStep, Record, Slot
<1> QED
  BY <1>1, <1>2, <1>3 DEF SocketInv, CoreInv

LEMMA TouchedAll ==
    ASSUME SocketInv, NEW c \in Users, NEW r, CallStep(c, r), NEW i, NEW t,
           Touched(c, i, t), CoreInv' /\ Steady,
           UNCHANGED <<program, freeList, openFds, epoll, opened, baseline, poller>>,
           handles' \subseteq handles \cup {call[c].handle},
           armed' \in [Users -> BOOLEAN], delivered' \in [Users -> Nat],
           ioWaits' \subseteq [context : Users, fd : Fds, event : Events],
           \A f \in Fds \cup {NoFd} : Bears(r, f) <=> Bears(call[c], f)
    PROVE  SocketInv'
<1>1. handles' \subseteq Handles
  BY DEF SocketInv, NetTypeOK, PlaceInv, Placed, Issued, Touched
<1> QED
  BY <1>1, SteadyAll

LEMMA AdoptClaimStep ==
    ASSUME SocketInv, NEW c \in Users, AdoptClaim(c)
    PROVE  SocketInv'
<1> DEFINE i == call[c].handle.index
           s == slots[i]
           e == Dir(c)
           t == [s EXCEPT !.waiter[e] = c]
           r == [call[c] EXCEPT !.at = IF call[c].op = "write" THEN "offset" ELSE "syscall",
                                !.fd = s.fd, !.claimed = TRUE, !.fresh = s.waiter[e] # c]
<1>0. /\ NetTypeOK /\ PlaceInv /\ WriteInv /\ call[c].at = "adopt"
      /\ Lookup(Handle(c)) /\ ~Foreign(c)
      /\ Update(Handle(c).index, ClaimAtEntry(c, SlotOf(Handle(c))))
      /\ UNCHANGED <<program, handles, opened, parkVars, delivered>>
  BY DEF SocketInv, AdoptClaim, At
<1>1. /\ Inside(call[c]) /\ call[c].op \in {"read", "write", "accept"}
      /\ e = DirOf[call[c].op] /\ e \in Dirs /\ call[c] \in Record
      /\ i \in DOMAIN slots /\ s \in Slot /\ s.used /\ ~s.closed
      /\ Same(slots, call[c].handle, i) /\ SlotOf(Handle(c)) = s
  BY <1>0, AdoptFacts, OwnSlot DEF Opened, Lookup
<1>2. s.waiter[e] \in {c, NoWaiter}
  BY <1>0, <1>1 DEF Foreign
<1>3. /\ t \in Slot /\ t.used = s.used /\ t.closed = s.closed /\ t.gen = s.gen /\ t.fd = s.fd
      /\ t.sent = s.sent /\ t.waiter[e] = c /\ \A d \in Dirs : d # e => t.waiter[d] = s.waiter[d]
  BY <1>1 DEF Slot
<1>4. SlotStep(i, t) /\ UNCHANGED <<freeList, openFds, epoll>>
  <2>1. slots' = [slots EXCEPT ![i] = t]
    BY <1>0, <1>1 DEF Update, ClaimAtEntry, SetWaiter, Handle
  <2> QED
    BY <1>0, <1>1, <1>3, <2>1, OneSlot DEF Update
<1>5. /\ r \in Record /\ r.op = call[c].op /\ r.handle = call[c].handle /\ r.claimed
      /\ r.at = (IF call[c].op = "write" THEN "offset" ELSE "syscall")
      /\ r.fresh = (s.waiter[e] # c)
  <2>1. s.fd \in Fds \cup {NoFd}
    BY <1>1 DEF Slot
  <2> QED
    BY <1>1, <2>1, SectionNames DEF Record
<1>6. CallStep(c, r)
  <2>1. call' = [call EXCEPT ![c] = r]
    BY <1>1 DEF AdoptClaim
  <2> QED
    BY <1>0, <1>5, <2>1, OneCall
<1> HIDE DEF i, s, e, t, r
<1>7. Touched(c, i, t)
  BY <1>1, <1>3, <1>4 DEF Touched, s
<1>8. Inside(r) /\ \A f : ~Bears(r, f) /\ ~Bears(call[c], f)
  BY <1>0, <1>1, <1>5, SectionNames DEF Bears
<1>9. Placed(slots', r)
  <2>1. Issued(slots', call[c].handle)
    BY <1>1, <1>3, <1>4, AdoptFacts, <1>0 DEF Issued, SlotStep, s, i
  <2> QED
    BY <1>1, <1>5, <2>1 DEF Placed, Ops
<1>10. ~Writing(r) => delivered[c] = 0
  BY <1>0, <1>1, <1>5, <1>8 DEF Writing, WriteInv
<1>11. ASSUME Writing(r) PROVE Progress(r, t, delivered[c], c)
  <2>1. Writing(call[c]) /\ e = "Write"
    BY <1>1, <1>5, <1>11 DEF Writing, DirOf
  <2>2. Progress(call[c], s, delivered[c], c)
    BY <1>0, <1>1, <2>1 DEF WriteInv, s
  <2> QED
    BY <1>0, <1>3, <1>5, <1>11, <2>1, <2>2 DEF Progress, Writing
<1>12. CoreInv' /\ Steady
  <2>1. freeList' = freeList /\ ioWaits' = ioWaits /\ handles' = handles /\ delivered' = delivered
    BY <1>0, <1>4 DEF parkVars
  <2>2. r.at # "parked"
    BY <1>5
  <2>3. s.waiter[DirOf[call[c].op]] \in {c, NoWaiter} /\ t.waiter[DirOf[call[c].op]] = c
    BY <1>1, <1>2, <1>3
  <2> QED
    BY <1>3, <1>5, <1>6, <1>7, <1>8, <1>9, <1>10, <1>11, <2>1, <2>2, <2>3, TouchedStep DEF s
<1> QED
  BY <1>0, <1>4, <1>6, <1>7, <1>8, <1>12, TouchedAll DEF parkVars, NetTypeOK

(* A write on a slot that is no longer open goes on without it. *)
LEMMA WriteBlind ==
    ASSUME SocketInv, NEW c \in Users, NEW r, CallStep(c, r),
           call[c].at \in {"offset", "store"}, r.at \in {"syscall", "release"},
           r.op = call[c].op, r.handle = call[c].handle, r.claimed = call[c].claimed,
           ~Lookup(Handle(c)),
           UNCHANGED <<program, tableVars, handles, opened, parkVars, delivered>>
    PROVE  SocketInv'
<1>0. NetTypeOK /\ PlaceInv /\ delivered \in [Users -> Nat]
  BY DEF SocketInv, NetTypeOK
<1>1. /\ Inside(call[c]) /\ Inside(r) /\ Placed(slots, call[c]) /\ call[c].op = "write"
      /\ Writing(r)
  BY <1>0, SectionNames DEF PlaceInv, Placed, Writing
<1>2. GoesOn(c, r) /\ Placed(slots, r)
  BY <1>1 DEF GoesOn, Placed
<1>3. \A i \in DOMAIN slots : ~(Same(slots, r.handle, i) /\ slots[i].used /\ ~slots[i].closed)
  BY DEF Same, Lookup, IsSlot, SlotOf, Handle
<1>4. \A f : ~Bears(r, f) /\ ~Bears(call[c], f)
  BY DEF Bears
<1> QED
  BY <1>0, <1>1, <1>2, <1>3, <1>4, Quiet

(* A write keeps its progress in its slot. *)
LEMMA WriteKeeps ==
    ASSUME SocketInv, NEW c \in Users, NEW r, CallStep(c, r),
           call[c].at \in {"offset", "store"}, r.at \in {"syscall", "release"},
           r.op = call[c].op, r.handle = call[c].handle, r.claimed = call[c].claimed,
           Lookup(Handle(c)), NEW n \in 0 .. WriteLength,
           Update(Handle(c).index, [SlotOf(Handle(c)) EXCEPT !.sent = n]),
           r.at = "syscall" => n = delivered[c] /\ r.offset = delivered[c],
           UNCHANGED <<program, handles, opened, parkVars, delivered>>
    PROVE  SocketInv'
<1> DEFINE i == call[c].handle.index
           s == slots[i]
           t == [s EXCEPT !.sent = n]
<1>0. NetTypeOK /\ PlaceInv /\ delivered \in [Users -> Nat]
  BY DEF SocketInv, NetTypeOK
<1>1. /\ Inside(call[c]) /\ Inside(r) /\ Placed(slots, call[c]) /\ call[c].op = "write"
      /\ Writing(r) /\ call[c].claimed
  BY <1>0, SectionNames DEF PlaceInv, Placed, Writing
<1>2. /\ i \in DOMAIN slots /\ s \in Slot /\ s.used /\ ~s.closed
      /\ Same(slots, call[c].handle, i) /\ SlotOf(Handle(c)) = s
      /\ DirOf[call[c].op] = "Write" /\ "Write" \in Dirs /\ Issued(slots, call[c].handle)
      /\ s.waiter["Write"] = c
  BY <1>1, OwnSlot, ClaimIsMine DEF Lookup, DirOf, Dir, Dirs
<1>3. /\ t \in Slot /\ t.used = s.used /\ t.closed = s.closed /\ t.gen = s.gen /\ t.fd = s.fd
      /\ t.sent = n /\ t.waiter = s.waiter
  BY <1>2 DEF Slot
<1>4. SlotStep(i, t) /\ UNCHANGED <<freeList, openFds, epoll>>
  <2>1. slots' = [slots EXCEPT ![i] = t]
    BY <1>2 DEF Update, Handle
  <2> QED
    BY <1>0, <1>2, <1>3, <2>1, OneSlot DEF Update
<1> HIDE DEF i, s, t
<1>5. Touched(c, i, t)
  BY <1>1, <1>2, <1>3, <1>4 DEF Touched, s
<1>6. Placed(slots', r)
  <2>1. Issued(slots', call[c].handle)
    BY <1>2, <1>3, <1>4 DEF Issued, SlotStep, s, i
  <2> QED
    BY <1>1, <2>1 DEF Placed
<1>7. Progress(r, t, delivered[c], c)
  BY <1>3 DEF Progress
<1>8. CoreInv' /\ Steady
  <2>1. freeList' = freeList /\ ioWaits' = ioWaits /\ handles' = handles /\ delivered' = delivered
    BY <1>4 DEF parkVars
  <2> QED
    BY <1>1, <1>2, <1>3, <1>5, <1>6, <1>7, <2>1, TouchedStep DEF s
<1>9. \A f : ~Bears(r, f) /\ ~Bears(call[c], f)
  BY DEF Bears
<1> QED
  BY <1>0, <1>4, <1>5, <1>8, <1>9, TouchedAll DEF parkVars, NetTypeOK

LEMMA WriteOffsetStep ==
    ASSUME SocketInv, NEW c \in Users, WriteOffset(c)
    PROVE  SocketInv'
<1> DEFINE n == IF Lookup(Handle(c)) THEN SentSoFar(c) ELSE 0
           r == [call[c] EXCEPT !.at = "syscall", !.offset = n]
<1>0. NetTypeOK /\ call[c].at = "offset" /\ WriteInv /\ PlaceInv /\ call[c] \in Record
  BY CallType DEF SocketInv, WriteOffset, At
<1>1. Inside(call[c]) /\ call[c].op = "write" /\ Writing(call[c])
  BY <1>0, SectionNames DEF PlaceInv, Placed, Writing
<1>2. n \in 0 .. WriteLength
  <2>1. WriteLength \in Nat
    BY NetAssumption
  <2>2. Lookup(Handle(c)) => SlotOf(Handle(c)) \in Slot
    BY <1>1, OwnSlot DEF Lookup
  <2> QED
    BY <2>1, <2>2 DEF SentSoFar, Slot
<1>3. /\ r \in Record /\ r.at = "syscall" /\ r.offset = n /\ r.op = call[c].op
      /\ r.handle = call[c].handle /\ r.claimed = call[c].claimed
  BY <1>0, <1>2, SectionNames DEF Record
<1>4. CallStep(c, r)
  <2>1. call' = [call EXCEPT ![c] = r]
    BY DEF WriteOffset
  <2> QED
    BY <1>0, <1>3, <2>1, OneCall
<1>5. CASE Lookup(Handle(c))
  <2>1. n = delivered[c]
    <3> DEFINE i == call[c].handle.index
    <3>1. i \in DOMAIN slots /\ slots[i].used /\ ~slots[i].closed
          /\ Same(slots, call[c].handle, i) /\ SlotOf(Handle(c)) = slots[i]
      BY <1>1, <1>5, OwnSlot DEF Lookup
    <3>2. Progress(call[c], slots[i], delivered[c], c)
      BY <1>0, <1>1, <3>1 DEF WriteInv
    <3> QED
      BY <1>0, <1>5, <3>1, <3>2 DEF Progress, SentSoFar
  <2>2. Update(Handle(c).index, [SlotOf(Handle(c)) EXCEPT !.sent = n])
    BY <1>5 DEF WriteOffset
  <2>3. UNCHANGED <<program, handles, opened, parkVars, delivered>>
    BY DEF WriteOffset
  <2> HIDE DEF n, r
  <2> QED
    BY <1>0, <1>2, <1>3, <1>4, <1>5, <2>1, <2>2, <2>3, WriteKeeps
<1>6. CASE ~Lookup(Handle(c))
  <2>1. UNCHANGED <<program, tableVars, handles, opened, parkVars, delivered>>
    BY <1>6 DEF WriteOffset
  <2> HIDE DEF n, r
  <2> QED
    BY <1>0, <1>3, <1>4, <1>6, <2>1, WriteBlind
<1> QED
  BY <1>5, <1>6

LEMMA StoreSentStep ==
    ASSUME SocketInv, NEW c \in Users, StoreSent(c)
    PROVE  SocketInv'
<1> DEFINE x == IF call[c].offset < WriteLength THEN "syscall" ELSE "release"
           n == call[c].offset
           r == Moved(c, x)
<1>0. NetTypeOK /\ call[c].at = "store" /\ WriteInv /\ PlaceInv /\ call[c] \in Record
  BY CallType DEF SocketInv, StoreSent, At
<1>1. Inside(call[c]) /\ call[c].op = "write" /\ Writing(call[c])
  BY <1>0, SectionNames DEF PlaceInv, Placed, Writing
<1>2. n \in 0 .. WriteLength
  BY <1>0 DEF Record
<1>3. /\ CallStep(c, r) /\ r.at = x /\ r.offset = n /\ r.op = call[c].op
      /\ r.handle = call[c].handle /\ r.claimed = call[c].claimed
  BY <1>0, MovedType, SectionNames DEF StoreSent
<1>4. CASE Lookup(Handle(c))
  <2>1. n = delivered[c]
    <3> DEFINE i == call[c].handle.index
    <3>1. i \in DOMAIN slots /\ slots[i].used /\ ~slots[i].closed
          /\ Same(slots, call[c].handle, i) /\ SlotOf(Handle(c)) = slots[i]
      BY <1>1, <1>4, OwnSlot DEF Lookup
    <3>2. Progress(call[c], slots[i], delivered[c], c)
      BY <1>0, <1>1, <3>1 DEF WriteInv
    <3> QED
      BY <1>0, <3>2 DEF Progress
  <2>2. Update(Handle(c).index, [SlotOf(Handle(c)) EXCEPT !.sent = n])
    BY <1>4 DEF StoreSent
  <2>3. UNCHANGED <<program, handles, opened, parkVars, delivered>>
    BY DEF StoreSent
  <2>4. x \in {"syscall", "release"}
    OBVIOUS
  <2> HIDE DEF n, r, x
  <2> QED
    BY <1>0, <1>2, <1>3, <1>4, <2>1, <2>2, <2>3, <2>4, WriteKeeps
<1>5. CASE ~Lookup(Handle(c))
  <2>1. UNCHANGED <<program, tableVars, handles, opened, parkVars, delivered>>
    BY <1>5 DEF StoreSent
  <2>2. x \in {"syscall", "release"}
    OBVIOUS
  <2> HIDE DEF n, r, x
  <2> QED
    BY <1>0, <1>3, <1>5, <2>1, <2>2, WriteBlind
<1> QED
  BY <1>4, <1>5

(* The park: the claim is written again, in the slot as it stands. *)
LEMMA ParkFacts ==
    ASSUME SocketInv, NEW c \in Users, call[c].at = "park", MayPark(c),
           Update(Handle(c).index, SetWaiter(c, SlotOf(Handle(c))))
    PROVE  LET i == call[c].handle.index
               s == slots[i]
               t == [s EXCEPT !.waiter[Dir(c)] = c] IN
           /\ Inside(call[c]) /\ call[c] \in Record
           /\ Touched(c, i, t) /\ UNCHANGED <<freeList, openFds, epoll>>
           /\ s.waiter[DirOf[call[c].op]] \in {c, NoWaiter}
           /\ t.waiter[DirOf[call[c].op]] = c
           /\ t.sent = s.sent /\ Issued(slots', call[c].handle)
           /\ Dir(c) = DirOf[call[c].op] /\ Dir(c) \in Dirs
           /\ SlotOf(Handle(c)) = s /\ s.fd \in Fds
           /\ Opened(slots', call[c].handle) /\ slots'[i].fd = s.fd
           /\ Writing(call[c]) => /\ t.waiter["Write"] = c
                                  /\ t.sent = delivered[c]
<1> DEFINE i == call[c].handle.index
           s == slots[i]
           e == Dir(c)
           t == [s EXCEPT !.waiter[e] = c]
<1>0. NetTypeOK /\ WriteInv /\ FdInv /\ Lookup(Handle(c)) /\ ~Foreign(c) /\ Inside(call[c])
  BY SectionNames DEF SocketInv, MayPark
<1>1. /\ e = DirOf[call[c].op] /\ e \in Dirs /\ call[c] \in Record
      /\ i \in DOMAIN slots /\ s \in Slot /\ s.used /\ ~s.closed
      /\ Same(slots, call[c].handle, i) /\ SlotOf(Handle(c)) = s
      /\ Issued(slots, call[c].handle)
  BY <1>0, OwnSlot DEF Lookup
<1>2. s.waiter[e] \in {c, NoWaiter}
  BY <1>0, <1>1 DEF Foreign
<1>3. /\ t \in Slot /\ t.used = s.used /\ t.closed = s.closed /\ t.gen = s.gen /\ t.fd = s.fd
      /\ t.sent = s.sent /\ t.waiter[e] = c /\ \A d \in Dirs : d # e => t.waiter[d] = s.waiter[d]
  BY <1>1 DEF Slot
<1>4. SlotStep(i, t) /\ UNCHANGED <<freeList, openFds, epoll>>
  <2>1. slots' = [slots EXCEPT ![i] = t]
    BY <1>1 DEF Update, SetWaiter, Handle
  <2> QED
    BY <1>0, <1>1, <1>3, <2>1, OneSlot DEF Update
<1>5. s.fd \in Fds
  BY <1>0, <1>1, FdType DEF FdInv
<1> HIDE DEF i, s, e, t
<1>6. Touched(c, i, t)
  BY <1>0, <1>1, <1>3, <1>4 DEF Touched, s
<1>7. Issued(slots', call[c].handle)
  BY <1>1, <1>3, <1>4 DEF Issued, SlotStep, s, i
<1>8. Opened(slots', call[c].handle) /\ slots'[i].fd = s.fd
  BY <1>1, <1>3, <1>4 DEF Opened, Live, SlotStep, Same, s, i
<1>9. ASSUME Writing(call[c]) PROVE t.waiter["Write"] = c /\ t.sent = delivered[c]
  <2>1. e = "Write"
    BY <1>1, <1>9 DEF Writing, DirOf
  <2>2. Progress(call[c], s, delivered[c], c)
    BY <1>0, <1>1, <1>9 DEF WriteInv, s
  <2> QED
    BY <1>3, <2>1, <2>2 DEF Progress
<1>10. s.waiter[DirOf[call[c].op]] \in {c, NoWaiter} /\ t.waiter[DirOf[call[c].op]] = c
  BY <1>1, <1>2, <1>3
<1> QED
  BY <1>0, <1>1, <1>3, <1>4, <1>5, <1>6, <1>7, <1>8, <1>9, <1>10 DEF i, s, e, t

LEMMA ParkReplaysStep ==
    ASSUME SocketInv, NEW c \in Users, ParkReplays(c)
    PROVE  SocketInv'
<1> DEFINE i == call[c].handle.index
           s == slots[i]
           t == [s EXCEPT !.waiter[Dir(c)] = c]
           r == Moved(c, Reenter(c))
<1>0. /\ NetTypeOK /\ PlaceInv /\ WriteInv /\ call[c].at = "park" /\ MayPark(c)
      /\ Update(Handle(c).index, SetWaiter(c, SlotOf(Handle(c))))
      /\ To(c, Reenter(c)) /\ armed' = [armed EXCEPT ![c] = FALSE]
      /\ UNCHANGED <<program, handles, opened, baseline, ioWaits, poller, delivered>>
  BY DEF SocketInv, ParkReplays, At
<1>1. /\ Inside(call[c]) /\ call[c] \in Record
      /\ Touched(c, i, t) /\ UNCHANGED <<freeList, openFds, epoll>>
      /\ s.waiter[DirOf[call[c].op]] \in {c, NoWaiter}
      /\ t.waiter[DirOf[call[c].op]] = c
      /\ t.sent = s.sent /\ Issued(slots', call[c].handle)
      /\ Writing(call[c]) => t.waiter["Write"] = c /\ t.sent = delivered[c]
  BY <1>0, ParkFacts
<1>2. /\ Reenter(c) \in {"verdict", "adopt"} /\ Reenter(c) \in Sections
      /\ Reenter(c) = "verdict" <=> call[c].op = "connect"
  BY SectionNames DEF Reenter
<1>3. /\ CallStep(c, r) /\ r.at = Reenter(c) /\ r.op = call[c].op
      /\ r.handle = call[c].handle /\ r.claimed = call[c].claimed
  BY <1>0, <1>2, MovedType
<1> HIDE DEF i, s, t, r
<1>4. Inside(r) /\ r.at # "parked" /\ (Writing(r) <=> Writing(call[c]))
      /\ \A f : ~Bears(r, f) /\ ~Bears(call[c], f)
  BY <1>0, <1>1, <1>2, <1>3, SectionNames DEF Bears, Writing
<1>5. Placed(slots', r)
  BY <1>0, <1>1, <1>2, <1>3, <1>4 DEF PlaceInv, Placed
<1>6. ~Writing(r) => delivered[c] = 0
  BY <1>0, <1>4 DEF WriteInv
<1>7. Writing(r) => Progress(r, t, delivered[c], c)
  BY <1>1, <1>2, <1>3, <1>4 DEF Progress
<1>8. CoreInv' /\ Steady
  BY <1>0, <1>1, <1>3, <1>4, <1>5, <1>6, <1>7, TouchedStep DEF s
<1>9. /\ armed' \in [Users -> BOOLEAN] /\ delivered' \in [Users -> Nat]
      /\ ioWaits' \subseteq [context : Users, fd : Fds, event : Events]
  BY <1>0 DEF NetTypeOK
<1> QED
  BY <1>0, <1>1, <1>3, <1>4, <1>8, <1>9, TouchedAll

LEMMA ParkActionStep ==
    ASSUME SocketInv, NEW c \in Users, Park(c)
    PROVE  SocketInv'
<1> DEFINE i == call[c].handle.index
           s == slots[i]
           t == [s EXCEPT !.waiter[Dir(c)] = c]
           w == [context |-> c, fd |-> s.fd, event |-> EventOf[Dir(c)]]
           r == [call[c] EXCEPT !.at = "parked", !.claimed = TRUE,
                                !.fresh = FALSE, !.offset = 0]
<1>0. /\ NetTypeOK /\ PlaceInv /\ WriteInv /\ call[c].at = "park" /\ MayPark(c)
      /\ Update(Handle(c).index, SetWaiter(c, SlotOf(Handle(c))))
      /\ ioWaits' = ioWaits \cup
            {[context |-> c, fd |-> SlotOf(Handle(c)).fd, event |-> EventOf[Dir(c)]]}
      /\ call' = [call EXCEPT ![c] = r]
      /\ UNCHANGED <<program, handles, opened, baseline, poller, armed, delivered>>
  BY DEF SocketInv, Park, At
<1>1. /\ Inside(call[c]) /\ call[c] \in Record
      /\ Touched(c, i, t) /\ UNCHANGED <<freeList, openFds, epoll>>
      /\ s.waiter[DirOf[call[c].op]] \in {c, NoWaiter}
      /\ t.waiter[DirOf[call[c].op]] = c
      /\ t.sent = s.sent /\ Issued(slots', call[c].handle)
      /\ Dir(c) \in Dirs /\ SlotOf(Handle(c)) = s /\ s.fd \in Fds
      /\ Opened(slots', call[c].handle) /\ slots'[i].fd = s.fd
      /\ Writing(call[c]) => t.waiter["Write"] = c /\ t.sent = delivered[c]
  BY <1>0, ParkFacts
<1>2. /\ r \in Record /\ r.at = "parked" /\ r.op = call[c].op /\ r.claimed
      /\ r.handle = call[c].handle
  <2>1. 0 \in 0 .. WriteLength
    BY NetAssumption
  <2>2. "parked" \in Sections /\ call[c] \in Record
    BY <1>1, SectionNames
  <2> QED
    BY <2>1, <2>2 DEF Record
<1>3. CallStep(c, r)
  BY <1>0, <1>2, OneCall
<1>4. /\ ioWaits' = ioWaits \cup {w} /\ w.context = c /\ w.fd = s.fd
      /\ w \in [context : Users, fd : Fds, event : Events]
  <2>1. EventOf[Dir(c)] \in Events
    <3>1. \A d \in Dirs : EventOf[d] \in Events
      BY ONLY DEF EventOf, Dirs, Events
    <3> QED
      BY ONLY <1>1, <3>1
  <2>2. c \in Users /\ s.fd \in Fds /\ ioWaits' = ioWaits \cup {w}
    BY <1>0, <1>1
  <2> HIDE DEF s
  <2> QED
    BY <2>1, <2>2
<1> HIDE DEF s, t, r, w
<1>5. Inside(r) /\ (Writing(r) <=> Writing(call[c]))
      /\ \A f : ~Bears(r, f) /\ ~Bears(call[c], f)
  BY <1>0, <1>1, <1>2, SectionNames DEF Bears, Writing
<1>6. Placed(slots', r)
  BY <1>0, <1>1, <1>2, <1>5 DEF PlaceInv, Placed
<1>7. ~Writing(r) => delivered[c] = 0
  BY <1>0, <1>5 DEF WriteInv
<1>8. Writing(r) => Progress(r, t, delivered[c], c)
  BY <1>1, <1>2, <1>5 DEF Progress
<1>9. \E e \in ioWaits' : /\ e.context = c /\ Opened(slots', r.handle)
                          /\ slots'[r.handle.index].fd = e.fd
  BY <1>1, <1>2, <1>4
<1> HIDE DEF i
<1>10. CoreInv' /\ Steady
  BY <1>0, <1>1, <1>2, <1>3, <1>4, <1>5, <1>6, <1>7, <1>8, <1>9, TouchedStep DEF s
<1>11. /\ armed' \in [Users -> BOOLEAN] /\ delivered' \in [Users -> Nat]
       /\ ioWaits' \subseteq [context : Users, fd : Fds, event : Events]
  BY <1>0, <1>4 DEF NetTypeOK
<1> QED
  BY <1>0, <1>1, <1>3, <1>5, <1>10, <1>11, TouchedAll

LEMMA ConnectedStep ==
    ASSUME SocketInv, NEW c \in Users, Connected(c)
    PROVE  SocketInv'
<1> DEFINE i == call[c].handle.index
           s == slots[i]
           t == [s EXCEPT !.waiter["Write"] = NoWaiter]
<1>0. /\ NetTypeOK /\ PlaceInv /\ WriteInv /\ call[c].at = "verdict"
      /\ ReleaseWaiter(Handle(c), "Write") /\ Return(c)
      /\ handles' = handles \cup {Handle(c)}
      /\ UNCHANGED <<program, opened, parkVars, delivered>>
  BY DEF SocketInv, Connected, At
<1>1. Inside(call[c]) /\ call[c].op = "connect" /\ Private(call[c])
  BY <1>0, SectionNames DEF PlaceInv, Placed, Private
<1>2. Live(slots, call[c].handle) /\ ~s.closed /\ s.waiter["Write"] = c
  BY <1>0, <1>1 DEF SocketInv, PrivateInv, At, Named
<1>3. /\ i \in DOMAIN slots /\ s \in Slot /\ s.used /\ IsSlot(Handle(c))
      /\ Same(slots, call[c].handle, i) /\ SlotOf(Handle(c)) = s
      /\ DirOf[call[c].op] = "Write" /\ "Write" \in Dirs
  BY <1>1, <1>2, OwnSlot DEF Dir, DirOf, Dirs
<1>4. /\ t \in Slot /\ t.used = s.used /\ t.closed = s.closed /\ t.gen = s.gen /\ t.fd = s.fd
      /\ t.sent = s.sent /\ t.waiter["Write"] = NoWaiter
      /\ \A d \in Dirs : d # "Write" => t.waiter[d] = s.waiter[d]
  BY <1>3 DEF Slot
<1>5. SlotStep(i, t) /\ UNCHANGED <<freeList, openFds, epoll>>
  <2>1. Update(i, t)
    BY <1>0, <1>2, <1>3, <1>4 DEF ReleaseWaiter, RecycleIfClosed, Handle
  <2> QED
    BY <1>0, <1>3, <1>4, <2>1, OneSlot DEF Update
<1>6. CallStep(c, Idle) /\ Idle.at = "script"
  BY <1>0, Ended, IdleType
<1> HIDE DEF i, s, t
<1>7. Touched(c, i, t)
  BY <1>1, <1>2, <1>3, <1>4, <1>5 DEF Touched, s
<1>8. /\ ~Inside(Idle) /\ ~Writing(Idle) /\ ~Writing(call[c])
      /\ Placed(slots', Idle) /\ \A f : ~Bears(Idle, f) /\ ~Bears(call[c], f)
  BY <1>0, <1>1, <1>6, SectionNames DEF Bears, Writing, Placed
<1>9. delivered[c] = 0
  BY <1>0, <1>8 DEF WriteInv
<1>10. handles' = handles \cup {call[c].handle}
  BY <1>0 DEF Handle
<1>11. CoreInv' /\ Steady
  <2>1. freeList' = freeList /\ ioWaits' = ioWaits /\ delivered' = delivered
    BY <1>0, <1>5 DEF parkVars
  <2> QED
    BY <1>2, <1>3, <1>4, <1>6, <1>7, <1>8, <1>9, <1>10, <2>1, TouchedStep DEF s
<1> QED
  BY <1>0, <1>5, <1>6, <1>7, <1>8, <1>10, <1>11, TouchedAll DEF parkVars, NetTypeOK

-----------------------------------------------------------------------------
(* The actions that may be the last to know a slot. *)
LEMMA RecycleFacts ==
    ASSUME NoWrap, SocketInv, NEW i \in DOMAIN slots, NEW s \in Slot, slots[i].used,
           s.fd = slots[i].fd, s.gen = slots[i].gen, Recycle(i, s)
    PROVE  /\ Recycled(i, slots'[i]) /\ slots[i].fd \in openFds
           /\ epoll' \in [Fds -> SUBSET Events]
<1> DEFINE t == [s EXCEPT !.used = FALSE, !.fd = NoFd, !.gen = (@ + 1) % Generations]
<1>0. NetTypeOK /\ GenInv /\ FdInv
  BY DEF SocketInv
<1>1. slots[i].fd \in openFds
  BY <1>0 DEF FdInv
<1>2. /\ (slots[i].gen + 1) % Generations = slots[i].gen + 1
      /\ slots[i].gen + 1 \in 0 .. Generations - 1
  BY <1>0, <1>1, NextGen
<1>3. t \in Slot /\ ~t.used /\ t.gen = slots[i].gen + 1
  BY <1>2 DEF Slot
<1>4. slots' = [slots EXCEPT ![i] = t] /\ freeList' = Append(freeList, i)
      /\ openFds' = openFds \ {slots[i].fd} /\ epoll' = [epoll EXCEPT ![slots[i].fd] = {}]
  BY DEF Recycle, CloseFd
<1>5. SlotStep(i, t)
  BY <1>0, <1>3, <1>4, OneSlot
<1> HIDE DEF t
<1>6. slots'[i] = t
  BY <1>5 DEF SlotStep
<1> QED
  BY <1>0, <1>1, <1>3, <1>4, <1>5, <1>6 DEF Recycled, NetTypeOK

LEMMA RecycledAll ==
    ASSUME SocketInv, NEW c \in Users, NEW r, CallStep(c, r), NEW i, NEW t,
           Recycled(i, t), slots[i].fd \in openFds,
           CoreInv' /\ freeList' \in Seq(DOMAIN slots'),
           UNCHANGED <<program, handles, opened, parkVars>>,
           epoll' \in [Fds -> SUBSET Events], delivered' \in [Users -> Nat],
           \A f \in Fds \cup {NoFd} : Bears(r, f) <=> Bears(call[c], f)
    PROVE  SocketInv'
<1>0. /\ DOMAIN slots' = DOMAIN slots /\ slots' \in Seq(Slot) /\ slots'[i].gen = slots[i].gen + 1
      /\ \A j \in DOMAIN slots \ {i} : slots'[j] = slots[j]
      /\ openFds' = openFds \ {slots[i].fd}
  BY DEF Recycled, SlotStep
<1>1. GenInv'
  <2>1. \A j \in DOMAIN slots : \/ slots'[j].gen = slots[j].gen
                                \/ slots'[j].gen = slots[j].gen + 1
    BY <1>0
  <2> QED
    BY <1>0, <2>1, GenClosed DEF SocketInv
<1>2. FdInv'
  <2>1. \A d \in Users, f \in Fds \cup {NoFd} : Bears(call'[d], f) <=> Bears(call[d], f)
    BY DEF CallStep
  <2> QED
    BY <2>1, FdRecycled DEF SocketInv
<1>3. NetTypeOK'
  BY <1>0 DEF SocketInv, NetTypeOK, CallStep, Record, Slot, parkVars
<1> QED
  BY <1>1, <1>2, <1>3 DEF SocketInv, CoreInv

(* The call ends and takes its slot along. *)
LEMMA LastOne ==
    ASSUME NoWrap, SocketInv, NEW c \in Users, NEW r, CallStep(c, r), ~Inside(r),
           Placed(slots', r), Inside(call[c]), IsSlot(Handle(c)), NEW s \in Slot,
           s.fd = SlotOf(Handle(c)).fd, s.gen = SlotOf(Handle(c)).gen,
           Recycle(Handle(c).index, s), SlotOf(Handle(c)).closed \/ Private(call[c]),
           UNCHANGED <<program, handles, opened, parkVars>>,
           delivered' \in [Users -> Nat], delivered'[c] = 0,
           \A d \in Users \ {c} : delivered'[d] = delivered[d],
           \A f \in Fds \cup {NoFd} : Bears(r, f) <=> Bears(call[c], f)
    PROVE  SocketInv'
<1> DEFINE i == call[c].handle.index
<1>1. /\ i \in DOMAIN slots /\ slots[i].used /\ Same(slots, call[c].handle, i)
      /\ SlotOf(Handle(c)) = slots[i] /\ Handle(c).index = i
  BY OwnSlot DEF Handle
<1>2. /\ Recycled(i, slots'[i]) /\ slots[i].fd \in openFds
      /\ epoll' \in [Fds -> SUBSET Events]
  BY <1>1, RecycleFacts
<1>3. Known(c, i) /\ call[c].at \notin {"waking", "wakefd"}
  BY <1>1, SectionNames DEF Known
<1>4. CoreInv' /\ freeList' \in Seq(DOMAIN slots')
  <2>1. handles' = handles /\ ioWaits' = ioWaits
    BY DEF parkVars
  <2> HIDE DEF i
  <2> QED
    BY <1>1, <1>2, <1>3, <2>1, RecycledStep
<1> HIDE DEF i
<1> QED
  BY <1>2, <1>4, RecycledAll

(* The call ends, and its slot is another's already. *)
LEMMA NotMine ==
    ASSUME SocketInv, NEW c \in Users, NEW r, CallStep(c, r), ~Inside(r), Placed(slots, r),
           Inside(call[c]), ~IsSlot(Handle(c)),
           UNCHANGED <<program, tableVars, handles, opened, parkVars>>,
           delivered' \in [Users -> Nat], delivered'[c] = 0,
           \A d \in Users \ {c} : delivered'[d] = delivered[d],
           \A f \in Fds \cup {NoFd} : Bears(r, f) <=> Bears(call[c], f)
    PROVE  SocketInv'
<1>1. Unnamed(c)
  <2> SUFFICES ASSUME NEW i \in DOMAIN slots, NEW d \in Dirs, slots[i].used,
                      Named(slots, i, d, c)
               PROVE  FALSE
    BY DEF Unnamed
  <2>1. call[c].handle.index = i /\ call[c].handle.gen = slots[i].gen
    BY NamedWhere DEF SocketInv
  <2> QED
    BY <2>1 DEF IsSlot, SlotOf, Handle
<1>2. ComesOrGoes(c, r) /\ ~Writing(r)
  BY <1>1 DEF ComesOrGoes, Writing
<1>3. call[c].at \notin {"waking", "wakefd"} /\ r.at \notin {"parked", "verdict"}
  BY SectionNames
<1> QED
  BY <1>2, <1>3, Quiet

LEMMA AdoptGoneStep ==
    ASSUME NoWrap, SocketInv, NEW c \in Users, AdoptGone(c)
    PROVE  SocketInv'
<1> DEFINE h == Handle(c)
           s == [SlotOf(h) EXCEPT !.waiter[Dir(c)] = NoWaiter]
<1>0. /\ NetTypeOK /\ call[c].at = "adopt" /\ ~Lookup(h) /\ ReleaseWaiter(h, Dir(c))
      /\ Return(c) /\ delivered' = [delivered EXCEPT ![c] = 0]
      /\ UNCHANGED <<program, handles, opened, parkVars>>
  BY DEF SocketInv, AdoptGone, Finish, At
<1>1. Inside(call[c]) /\ Dir(c) \in Dirs
  BY <1>0, AdoptFacts
<1>2. CallStep(c, Idle) /\ Idle.at = "script"
  BY <1>0, Ended, IdleType
<1>3. /\ ~Inside(Idle) /\ Placed(slots, Idle) /\ Placed(slots', Idle)
      /\ \A f : ~Bears(Idle, f) /\ ~Bears(call[c], f)
  BY <1>0, <1>2, SectionNames DEF Placed, Bears
<1>4. /\ delivered' \in [Users -> Nat] /\ delivered'[c] = 0
      /\ \A d \in Users \ {c} : delivered'[d] = delivered[d]
  BY <1>0 DEF NetTypeOK
<1>5. CASE IsSlot(h)
  <2>1. SlotOf(h) \in Slot /\ SlotOf(h).closed
    BY <1>0, <1>1, <1>5, OwnSlot DEF Lookup
  <2>2. s \in Slot /\ s.fd = SlotOf(h).fd /\ s.gen = SlotOf(h).gen /\ s.closed
    BY <1>1, <2>1 DEF Slot
  <2>3. Recycle(h.index, s)
    BY <1>0, <1>5, <2>2 DEF ReleaseWaiter, RecycleIfClosed
  <2> HIDE DEF s
  <2> QED
    BY <1>0, <1>1, <1>2, <1>3, <1>4, <1>5, <2>1, <2>2, <2>3, LastOne
<1>6. CASE ~IsSlot(h)
  <2>1. UNCHANGED tableVars
    BY <1>0, <1>6 DEF ReleaseWaiter
  <2> QED
    BY <1>0, <1>1, <1>2, <1>3, <1>4, <1>6, <2>1, NotMine
<1> QED
  BY <1>5, <1>6

LEMMA ReleaseStep ==
    ASSUME NoWrap, SocketInv, NEW c \in Users, Release(c)
    PROVE  SocketInv'
<1> DEFINE h == Handle(c)
           all == call[c].op = "write" /\ call[c].offset = WriteLength
           s == [SlotOf(h) EXCEPT !.waiter[Dir(c)] = NoWaiter,
                                  !.sent = IF all /\ ~SlotOf(h).closed THEN 0 ELSE @]
           r == IF At(c, "accepted") THEN Moved(c, "mint") ELSE Idle
<1>0. /\ NetTypeOK /\ PlaceInv /\ WriteInv /\ call[c].at \in {"release", "accepted"}
      /\ IF IsSlot(h) THEN RecycleIfClosed(h.index, s) ELSE UNCHANGED tableVars
      /\ UNCHANGED <<program, handles, opened, parkVars>>
  BY DEF SocketInv, Release
<1>1. /\ Inside(call[c]) /\ call[c].claimed /\ call[c] \in Record
      /\ call[c].at = "accepted" => call[c].op = "accept"
  BY <1>0, SectionNames, CallType DEF PlaceInv, Placed
<1>2. /\ CallStep(c, r) /\ r.at \in {"mint", "script"}
      /\ r.at = "mint" <=> At(c, "accepted")
      /\ At(c, "accepted") => r.fd = call[c].fd /\ r.op = call[c].op
  BY <1>0, Ended, IdleType, MovedType, SectionNames DEF Release, Finish
<1>3. /\ delivered' \in [Users -> Nat] /\ delivered'[c] = 0
      /\ \A d \in Users \ {c} : delivered'[d] = delivered[d]
  <2>1. delivered \in [Users -> Nat]
    BY <1>0 DEF NetTypeOK
  <2>2. CASE At(c, "accepted")
    <3>1. ~Writing(call[c])
      BY <1>1, <2>2 DEF Writing, At
    <3>2. delivered' = delivered
      BY <2>2 DEF Release
    <3> QED
      BY <1>0, <2>1, <3>1, <3>2 DEF WriteInv
  <2>3. CASE ~At(c, "accepted")
    BY <2>1, <2>3 DEF Release, Finish
  <2> QED
    BY <2>2, <2>3
<1> HIDE DEF r
<1>4. ~Inside(r) /\ ~Writing(r)
      /\ \A f : Bears(r, f) <=> Bears(call[c], f)
  BY <1>0, <1>2, SectionNames DEF Bears, At, Writing
<1>5. \A T : Placed(T, r)
  BY <1>1, <1>2, <1>4 DEF Placed, At
<1>6. CASE ~IsSlot(h)
  BY <1>0, <1>1, <1>2, <1>3, <1>4, <1>5, <1>6, NotMine
<1>7. CASE IsSlot(h)
  <2> DEFINE i == call[c].handle.index
             e == Dir(c)
  <2>1. /\ SlotOf(h) \in Slot /\ SlotOf(h) = slots[i] /\ h.index = i /\ i \in DOMAIN slots
        /\ slots[i].used /\ Same(slots, call[c].handle, i)
        /\ e = DirOf[call[c].op] /\ e \in Dirs
    BY <1>1, <1>7, OwnSlot DEF Handle
  <2>2. slots[i].waiter[e] = c
    BY <1>1, <1>7, ClaimIsMine
  <2>3. /\ s \in Slot /\ s.fd = SlotOf(h).fd /\ s.gen = SlotOf(h).gen
        /\ s.used = SlotOf(h).used /\ s.closed = SlotOf(h).closed
        /\ s.waiter[e] = NoWaiter
        /\ s.sent = SlotOf(h).sent \/ call[c].op = "write"
        /\ \A d \in Dirs : d # e => s.waiter[d] = SlotOf(h).waiter[d]
    <3>1. 0 \in 0 .. WriteLength
      BY NetAssumption
    <3> QED
      BY <2>1, <3>1 DEF Slot
  <2>4. RecycleIfClosed(i, s)
    BY <1>0, <1>7, <2>1
  <2> HIDE DEF s
  <2>5. CASE slots[i].closed
    <3>1. Recycle(h.index, s)
      BY <2>1, <2>3, <2>4, <2>5 DEF RecycleIfClosed
    <3> QED
      BY <1>0, <1>1, <1>2, <1>3, <1>4, <1>5, <1>7, <2>1, <2>3, <2>5, <3>1, LastOne
  <2>6. CASE ~slots[i].closed
    <3>1. slots' = [slots EXCEPT ![i] = s] /\ UNCHANGED <<freeList, openFds, epoll>>
      BY <2>1, <2>3, <2>4, <2>6 DEF RecycleIfClosed, Update
    <3>2. SlotStep(i, s)
      BY <1>0, <2>1, <2>3, <3>1, OneSlot
    <3>3. Touched(c, i, s)
      BY <1>1, <2>1, <2>3, <2>6, <3>2 DEF Touched
    <3>4. s.sent = slots[i].sent \/ DirOf[call[c].op] = "Write"
      BY <2>1, <2>3 DEF DirOf
    <3>5. ioWaits' = ioWaits /\ handles' = handles
      BY <1>0 DEF parkVars
    <3>6. r.at # "parked"
      BY <1>2
    <3> HIDE DEF i, e
    <3>7. CoreInv' /\ Steady
      BY <1>2, <1>3, <1>4, <1>5, <2>1, <2>2, <2>3, <3>1, <3>3, <3>4, <3>5, <3>6, TouchedStep
    <3> QED
      BY <1>0, <1>2, <1>3, <1>4, <3>1, <3>3, <3>7, TouchedAll DEF parkVars, NetTypeOK
  <2> QED
    BY <2>5, <2>6
<1> QED
  BY <1>6, <1>7

LEMMA AbandonConnectStep ==
    ASSUME NoWrap, SocketInv, NEW c \in Users, AbandonConnect(c)
    PROVE  SocketInv'
<1> DEFINE i == call[c].handle.index
           s == [SlotOf(Handle(c)) EXCEPT !.waiter["Write"] = NoWaiter]
           t == [s EXCEPT !.closed = TRUE]
<1>0. /\ NetTypeOK /\ ClaimInv /\ WriteInv /\ call[c].at \in {"verdict", "park"}
      /\ call[c].op = "connect" /\ MarkClosed(Handle(c).index, s) /\ Return(c)
      /\ UNCHANGED <<program, handles, opened, parkVars, delivered>>
  BY DEF SocketInv, AbandonConnect
<1>1. Inside(call[c]) /\ Private(call[c]) /\ ~Writing(call[c])
  BY <1>0, SectionNames DEF Private, Writing
<1>2. /\ Live(slots, call[c].handle)
      /\ \A d \in Users \ {c} : Inside(call[d]) => ~Same(slots, call[d].handle, i)
  BY <1>1 DEF SocketInv, PrivateInv
<1>3. /\ i \in DOMAIN slots /\ slots[i] \in Slot /\ slots[i].used /\ IsSlot(Handle(c))
      /\ SlotOf(Handle(c)) = slots[i] /\ DirOf[call[c].op] = "Write"
  BY <1>0, <1>1, <1>2, OwnSlot DEF Dir, DirOf
<1>4. /\ t \in Slot /\ t.fd = slots[i].fd /\ t.gen = slots[i].gen
      /\ t.waiter["Write"] = NoWaiter
      /\ \A d \in Dirs : d # "Write" => t.waiter[d] = slots[i].waiter[d]
  BY <1>3 DEF Slot, Dirs
<1>5. \A d \in Dirs : slots[i].waiter[d] \in Users => d = "Write"
  <2> SUFFICES ASSUME NEW d \in Dirs, NEW w \in Users, slots[i].waiter[d] = w
               PROVE  d = "Write"
    OBVIOUS
  <2>1. Claims(slots, call[w], i, d)
    BY <1>0, <1>3 DEF ClaimInv, Named
  <2> QED
    BY <1>2, <1>3, <2>1 DEF Claims
<1>6. WaiterFree(t)
  <2>1. \A d \in Dirs : slots[i].waiter[d] \in Users \cup {NoWaiter}
    BY <1>3 DEF Slot
  <2> QED
    BY <1>4, <1>5, <2>1 DEF WaiterFree
<1>7. Recycle(Handle(c).index, t)
  BY <1>0, <1>6 DEF MarkClosed
<1>8. CallStep(c, Idle) /\ Idle.at = "script"
  BY <1>0, Ended, IdleType
<1>9. /\ ~Inside(Idle) /\ Placed(slots', Idle)
      /\ \A f : ~Bears(Idle, f) /\ ~Bears(call[c], f)
  BY <1>0, <1>8, SectionNames DEF Bears, Placed
<1>10. delivered \in [Users -> Nat] /\ delivered[c] = 0
  BY <1>0, <1>1 DEF NetTypeOK, WriteInv
<1> HIDE DEF t
<1> QED
  BY <1>0, <1>1, <1>3, <1>4, <1>7, <1>8, <1>9, <1>10, LastOne

LEMMA CloseStep ==
    ASSUME NoWrap, SocketInv, NEW c \in Users, NEW h \in handles, Close(c, h)
    PROVE  SocketInv'
<1> DEFINE i == h.index
           t == [slots[i] EXCEPT !.closed = TRUE]
           r == [Idle EXCEPT !.at = "wakefd", !.op = "close", !.fd = SlotOf(h).fd]
<1>0. /\ NetTypeOK /\ WriteInv /\ call[c].at = "script" /\ Lookup(h)
      /\ MarkClosed(h.index, SlotOf(h))
      /\ UNCHANGED <<program, handles, opened, parkVars, delivered>>
  BY DEF SocketInv, Close, Calls, At
<1>1. /\ i \in DOMAIN slots /\ slots[i] \in Slot /\ slots[i].used /\ ~slots[i].closed
      /\ SlotOf(h) = slots[i] /\ Same(slots, h, i)
  BY <1>0, SlotType DEF Lookup, IsSlot, SlotOf, Same
<1>2. /\ t \in Slot /\ t.fd = slots[i].fd /\ t.gen = slots[i].gen /\ t.closed
      /\ t.waiter = slots[i].waiter /\ t.used = slots[i].used
  BY <1>1 DEF Slot
<1>3. r \in Record /\ r.at = "wakefd" /\ r.fd = slots[i].fd
  <2>1. slots[i].fd \in Fds \cup {NoFd}
    BY <1>1 DEF Slot
  <2> QED
    BY <1>1, <2>1, IdleType, SectionNames DEF Record, Idle, AllOps
<1>4. CallStep(c, r)
  <2>1. call' = [call EXCEPT ![c] = r]
    BY DEF Close
  <2> QED
    BY <1>0, <1>3, <2>1, OneCall
<1> HIDE DEF r
<1>5. /\ ~Inside(call[c]) /\ ~Inside(r) /\ ~Writing(call[c]) /\ Placed(slots', r)
      /\ \A f : ~Bears(r, f) /\ ~Bears(call[c], f)
  BY <1>0, <1>3, SectionNames DEF Writing, Bears, Placed
<1>6. Known(c, i)
  BY <1>1, <1>5 DEF Known
<1>7. delivered \in [Users -> Nat] /\ delivered[c] = 0
  BY <1>0, <1>5 DEF NetTypeOK, WriteInv
<1>8. CASE WaiterFree(t)
  <2>1. Recycle(i, t)
    BY <1>0, <1>1, <1>8 DEF MarkClosed
  <2> HIDE DEF i, t
  <2>2. /\ Recycled(i, slots'[i]) /\ slots[i].fd \in openFds
        /\ epoll' \in [Fds -> SUBSET Events]
    BY <1>1, <1>2, <2>1, RecycleFacts
  <2>3. ioWaits' = ioWaits /\ handles' = handles /\ delivered' = delivered
    BY <1>0 DEF parkVars
  <2>4. CoreInv' /\ freeList' \in Seq(DOMAIN slots')
    BY <1>0, <1>3, <1>4, <1>5, <1>6, <1>7, <2>2, <2>3, RecycledStep
  <2> QED
    BY <1>0, <1>4, <1>5, <1>7, <2>2, <2>4, RecycledAll
<1>9. CASE ~WaiterFree(t)
  <2>1. slots' = [slots EXCEPT ![i] = t] /\ UNCHANGED <<freeList, openFds, epoll>>
    BY <1>0, <1>1, <1>9 DEF MarkClosed, Update
  <2> HIDE DEF i, t
  <2>2. SlotStep(i, t)
    BY <1>0, <1>1, <1>2, <2>1, OneSlot
  <2>3. Flagged(i, t)
    BY <1>1, <1>2, <1>9, <2>2 DEF Flagged
  <2>4. ioWaits' = ioWaits /\ handles' = handles /\ delivered' = delivered
    BY <1>0 DEF parkVars
  <2>5. CoreInv' /\ Steady
    BY <1>0, <1>3, <1>4, <1>6, <2>1, <2>3, <2>4, FlaggedStep
  <2> QED
    BY <1>0, <1>4, <1>5, <1>7, <2>1, <2>4, <2>5, SteadyAll DEF parkVars, NetTypeOK
<1> QED
  BY <1>8, <1>9

-----------------------------------------------------------------------------
(* The mint: the last entry of the free list, or a slot at the end. *)
LEMMA LastOff ==
    ASSUME NEW S, NEW q \in Seq(S), q # <<>>, Distinct(q)
    PROVE  LET p == SubSeq(q, 1, Len(q) - 1)
               x == q[Len(q)] IN
           /\ x \in S /\ Occurs(x, q) /\ p \in Seq(S) /\ Distinct(p)
           /\ \A y : Occurs(y, p) <=> Occurs(y, q) /\ y # x
<1> DEFINE n == Len(q)
           p == SubSeq(q, 1, n - 1)
<1>1. n \in Nat /\ n # 0 /\ DOMAIN q = 1 .. n
  OBVIOUS
<1>2. p \in Seq(S) /\ DOMAIN p = 1 .. n - 1 /\ \A k \in 1 .. n - 1 : p[k] = q[k]
  BY <1>1
<1> HIDE DEF n, p
<1>3. n \in 1 .. n /\ \A k \in 1 .. n : k = n \/ k \in 1 .. n - 1
  BY <1>1
<1>4. \A k \in 1 .. n - 1 : k \in 1 .. n /\ k # n
  BY <1>1
<1>5. q[n] \in S /\ Occurs(q[n], q)
  BY <1>1, <1>3 DEF Occurs
<1>6. Distinct(p)
  BY <1>1, <1>2, <1>4 DEF Distinct
<1>7. \A y : Occurs(y, p) => Occurs(y, q) /\ y # q[n]
  BY <1>1, <1>2, <1>3, <1>4 DEF Occurs, Distinct
<1>8. \A y : Occurs(y, q) /\ y # q[n] => Occurs(y, p)
  BY <1>1, <1>2, <1>3 DEF Occurs
<1> QED
  BY <1>2, <1>5, <1>6, <1>7, <1>8 DEF n, p

LEMMA FillFacts ==
    ASSUME SocketInv, NEW i, i = FreeIndex, i <= MaxSlots, NEW t, NEW f \in Fds \cup {NoFd},
           t = [fd |-> f, used |-> TRUE, closed |-> FALSE,
                gen |-> IF i \in DOMAIN slots THEN slots[i].gen ELSE 0,
                waiter |-> [d \in Dirs |-> NoWaiter], sent |-> 0],
           slots' = IF i \in DOMAIN slots THEN [slots EXCEPT ![i] = t] ELSE Append(slots, t),
           freeList' = IF freeList = <<>> THEN freeList
                       ELSE SubSeq(freeList, 1, Len(freeList) - 1)
    PROVE  /\ Filled(i, t, f) /\ i \in 1 .. MaxSlots
           /\ freeList' \in Seq(DOMAIN slots')
<1>0. /\ NetTypeOK /\ FreeInv /\ slots \in Seq(Slot) /\ Len(slots) \in Nat
      /\ DOMAIN slots = 1 .. Len(slots) /\ \A j \in DOMAIN slots : slots[j] \in Slot
      /\ freeList \in Seq(DOMAIN slots) /\ MaxSlots \in Nat
  BY SlotType, NetAssumption DEF SocketInv, NetTypeOK
<1>1. t.gen \in 0 .. Generations - 1
  BY <1>0, NetAssumption DEF Slot
<1>2. t \in Slot
  <2>1. 0 \in 0 .. WriteLength
    BY NetAssumption
  <2> QED
    BY <1>1, <2>1 DEF Slot
<1>3. CASE freeList = <<>>
  <2>1. i = Len(slots) + 1 /\ i \notin DOMAIN slots /\ i \in 1 .. MaxSlots
    BY <1>0, <1>3 DEF FreeIndex
  <2>2. slots' = Append(slots, t)
    BY <2>1
  <2>3. /\ slots' \in Seq(Slot) /\ DOMAIN slots' = 1 .. Len(slots) + 1 /\ slots'[i] = t
        /\ \A j \in DOMAIN slots : slots'[j] = slots[j]
    <3>1. \A q \in Seq(Slot) : /\ Append(q, t) \in Seq(Slot)
                              /\ DOMAIN Append(q, t) = 1 .. Len(q) + 1
                              /\ Append(q, t)[Len(q) + 1] = t
                              /\ \A j \in 1 .. Len(q) : Append(q, t)[j] = q[j]
      BY <1>2
    <3>2. /\ Append(slots, t) \in Seq(Slot)
          /\ DOMAIN Append(slots, t) = 1 .. Len(slots) + 1
          /\ Append(slots, t)[Len(slots) + 1] = t
          /\ \A j \in 1 .. Len(slots) : Append(slots, t)[j] = slots[j]
      BY ONLY <1>0, <3>1
    <3> QED
      BY ONLY <1>0, <2>1, <2>2, <3>2
  <2>4. DOMAIN slots' = DOMAIN slots \cup {i}
    BY <1>0, <2>1, <2>3
  <2>5. freeList' = <<>> /\ Distinct(freeList') /\ freeList' \in Seq(DOMAIN slots)
        /\ freeList' \in Seq(DOMAIN slots') /\ \A j : ~Occurs(j, freeList) /\ ~Occurs(j, freeList')
    BY <1>3 DEF Distinct, Occurs
  <2> QED
    BY <1>2, <2>1, <2>3, <2>4, <2>5 DEF Filled
<1>4. CASE freeList # <<>>
  <2>1. /\ i = freeList[Len(freeList)] /\ i \in DOMAIN slots /\ Occurs(i, freeList)
        /\ freeList' \in Seq(DOMAIN slots) /\ Distinct(freeList')
        /\ \A y : Occurs(y, freeList') <=> Occurs(y, freeList) /\ y # i
    BY <1>0, <1>4, LastOff DEF FreeInv, FreeIndex
  <2>2. SlotStep(i, t)
    BY <1>0, <1>2, <2>1, OneSlot
  <2>3. ~slots[i].used /\ i \in 1 .. MaxSlots
    BY <1>0, <2>1 DEF FreeInv
  <2> QED
    BY <2>1, <2>2, <2>3 DEF Filled, SlotStep
<1> QED
  BY <1>3, <1>4

LEMMA MintStep ==
    ASSUME SocketInv, NEW c \in Users, NEW inFlight \in BOOLEAN, Mint(c, inFlight)
    PROVE  SocketInv'
<1> DEFINE i == FreeIndex
           g == IF i \in DOMAIN slots THEN slots[i].gen ELSE 0
           f == call[c].fd
           h == [index |-> i, gen |-> g,
                 kind |-> IF call[c].op = "bind" THEN "listener" ELSE "stream"]
           t == [fd |-> f, used |-> TRUE, closed |-> FALSE, gen |-> g,
                 waiter |-> [d \in Dirs |-> NoWaiter], sent |-> 0]
           r == IF inFlight THEN [call[c] EXCEPT !.at = "park", !.handle = h] ELSE Idle
<1>0. /\ NetTypeOK /\ GenInv /\ FdInv /\ call[c].at = "mint" /\ i <= MaxSlots
      /\ inFlight => call[c].op = "connect"
      /\ slots' = IF i \in DOMAIN slots THEN [slots EXCEPT ![i] = t] ELSE Append(slots, t)
      /\ freeList' = IF freeList = <<>> THEN freeList
                     ELSE SubSeq(freeList, 1, Len(freeList) - 1)
      /\ IF inFlight THEN handles' = handles ELSE handles' = handles \cup {h}
      /\ call' = [call EXCEPT ![c] = r]
      /\ UNCHANGED <<program, openFds, opened, epoll, parkVars, delivered>>
  BY DEF SocketInv, Mint, At, Return
<1>1. call[c] \in Record /\ f \in Fds \cup {NoFd}
  BY <1>0, CallType DEF Record
<1>2. Filled(i, t, f) /\ i \in 1 .. MaxSlots /\ freeList' \in Seq(DOMAIN slots')
  <2> HIDE DEF i
  <2> QED
    BY <1>0, <1>1, FillFacts DEF i
<1> HIDE DEF i
<1>3. t.gen = g /\ g \in 0 .. Generations - 1
  <2>1. t \in Slot /\ t.gen = g
    BY <1>2 DEF Filled
  <2> QED
    BY <2>1 DEF Slot
<1> HIDE DEF g, t
<1>4. h \in Handles /\ h.index = i /\ h.gen = t.gen
  BY <1>2, <1>3 DEF Handles
<1> HIDE DEF h
<1>5. r \in Record
  BY <1>1, <1>4, IdleType, SectionNames DEF Record
<1>6. /\ inFlight => /\ r.at = "park" /\ r.op = "connect" /\ r.handle = h
                  /\ r.claimed = call[c].claimed
      /\ ~inFlight => r.at = "script"
  BY <1>0, <1>1, IdleType DEF Record
<1> HIDE DEF r
<1>7. CallStep(c, r)
  BY <1>0, <1>5, OneCall
<1>8. ~call[c].claimed \/ ~inFlight
  BY <1>0 DEF SocketInv, PlaceInv, Placed
<1>9. CoreInv'
  <2>1. ioWaits' = ioWaits /\ delivered' = delivered
    BY <1>0 DEF parkVars
  <2> QED
    BY <1>0, <1>2, <1>4, <1>6, <1>7, <1>8, <2>1, FilledStep
<1>10. GenInv'
  BY <1>0, <1>2, GenFilled
<1>11. FdInv'
  <2>1. /\ Bears(call[c], f) /\ \A d \in Users \ {c} : call'[d] = call[d]
        /\ \A e : ~Bears(call'[c], e)
    BY <1>0, <1>6, <1>7 DEF Bears, CallStep
  <2> QED
    BY <1>0, <1>1, <1>2, <2>1, FdFilled
<1>12. NetTypeOK'
  <2>1. slots' \in Seq(Slot)
    BY <1>2 DEF Filled
  <2>2. handles' \subseteq Handles
    <3>1. handles \subseteq Handles /\ handles' \subseteq handles \cup {h}
      BY <1>0 DEF NetTypeOK
    <3> QED
      BY <1>4, <3>1
  <2> QED
    BY <1>0, <1>2, <1>7, <2>1, <2>2 DEF NetTypeOK, CallStep, Record, Slot, parkVars
<1> QED
  BY <1>9, <1>10, <1>11, <1>12 DEF SocketInv, CoreInv

-----------------------------------------------------------------------------
(* The wakes.  Some parked calls start again from their first line, and    *)
(* the closer, which is in no call on a socket, goes on.                   *)
Wakes ==
    /\ UNCHANGED <<program, slots, freeList, openFds, handles, opened, delivered>>
    /\ call' \in [Users -> Record]
    /\ \A c \in Users :
          \/ call'[c] = call[c]
          \/ call[c].at = "parked" /\ call'[c] = Woken(c)
          \/ call[c].at \in {"wakefd", "waking"} /\ call'[c].at \in {"waking", "script"}

LEMMA WokenType ==
    ASSUME NetTypeOK, NEW c \in Users
    PROVE  /\ Woken(c) \in Record /\ Woken(c).at = Reenter(c) /\ ~Woken(c).claimed
           /\ Woken(c).op = call[c].op /\ Woken(c).handle = call[c].handle
           /\ Reenter(c) \in {"verdict", "adopt"}
           /\ Reenter(c) = "verdict" <=> call[c].op = "connect"
<1>1. call[c] \in Record /\ Reenter(c) \in Sections
  BY CallType, SectionNames DEF Reenter
<1>2. Woken(c) \in Record
  BY <1>1 DEF Woken, Record
<1> QED
  BY <1>1, <1>2 DEF Woken, Record, Reenter

LEMMA WakesFacts ==
    ASSUME SocketInv, Wakes, NEW c \in Users
    PROVE  /\ Inside(call'[c]) <=> Inside(call[c])
           /\ Inside(call[c]) => /\ call'[c].handle = call[c].handle
                                 /\ call'[c].op = call[c].op
                                 /\ call'[c].claimed => call[c].claimed
                                 /\ \/ call'[c] = call[c]
                                    \/ /\ call[c].at = "parked" /\ call'[c].at = Reenter(c)
                                       /\ ~call'[c].claimed
           /\ \A f : Bears(call'[c], f) <=> Bears(call[c], f)
           /\ Placed(slots, call'[c])
<1>0. NetTypeOK /\ Placed(slots, call[c])
  BY DEF SocketInv, PlaceInv
<1>1. CASE call'[c] = call[c]
  BY <1>0, <1>1
<1>2. CASE call[c].at = "parked" /\ call'[c] = Woken(c)
  <2>1. /\ call'[c].at = Reenter(c) /\ ~call'[c].claimed
        /\ call'[c].op = call[c].op /\ call'[c].handle = call[c].handle
        /\ Reenter(c) \in {"verdict", "adopt"}
        /\ Reenter(c) = "verdict" <=> call[c].op = "connect"
    BY <1>0, <1>2, WokenType
  <2>2. Inside(call[c]) /\ Inside(call'[c])
    BY <1>2, <2>1, SectionNames
  <2>3. Placed(slots, call'[c])
    BY <1>0, <2>1, <2>2 DEF Placed
  <2>4. \A f : ~Bears(call'[c], f) /\ ~Bears(call[c], f)
    BY <1>2, <2>1 DEF Bears
  <2> QED
    BY <1>2, <2>1, <2>2, <2>3, <2>4
<1>3. CASE call[c].at \in {"wakefd", "waking"} /\ call'[c].at \in {"waking", "script"}
  BY <1>3, SectionNames DEF Bears, Placed
<1> QED
  BY <1>1, <1>2, <1>3 DEF Wakes

LEMMA WakesStep ==
    ASSUME SocketInv, Wakes, ParkedHasAWaker',
           epoll' \in [Fds -> SUBSET Events], baseline' \in [Fds -> SUBSET Events],
           ioWaits' \subseteq ioWaits, poller' \in {"wait", "poll"},
           armed' \in [Users -> BOOLEAN]
    PROVE  SocketInv'
<1>0. /\ NetTypeOK /\ PlaceInv /\ HandleInv /\ GenInv /\ ClaimInv /\ PrivateInv /\ FdInv
      /\ FreeInv /\ WriteInv
      /\ slots' = slots /\ freeList' = freeList /\ openFds' = openFds /\ handles' = handles
      /\ opened' = opened /\ delivered' = delivered /\ call' \in [Users -> Record]
  BY DEF SocketInv, Wakes
<1>1. Steady
  BY <1>0, SlotType DEF Steady
<1>2. PlaceInv'
  BY <1>0, WakesFacts DEF PlaceInv
<1>3. HandleInv' /\ FreeInv' /\ GenInv'
  BY <1>0, <1>1, FreeSteady, GenSteady DEF HandleInv
<1>4. FdInv'
  BY <1>0, <1>1, WakesFacts, FdSteady
<1>5. \A c \in Users, i \in DOMAIN slots, d \in Dirs :
         Claims(slots, call'[c], i, d) <=> Claims(slots, call[c], i, d)
  BY WakesFacts DEF Claims
<1>6. ClaimInv'
  <2>1. \A i \in DOMAIN slots : slots[i].used =>
            /\ \A d \in Dirs, k \in Users :
                  Named(slots, i, d, k) => Claims(slots, call'[k], i, d)
            /\ slots[i].closed => ~WaiterFree(slots[i])
    BY <1>0, <1>5 DEF ClaimInv
  <2>2. \A k \in Users, i \in DOMAIN slots, d \in Dirs :
            slots[i].used /\ call'[k].claimed /\ Claims(slots, call'[k], i, d)
            => Named(slots, i, d, k)
    <3> SUFFICES ASSUME NEW k \in Users, NEW i \in DOMAIN slots, NEW d \in Dirs,
                        slots[i].used, call'[k].claimed, Claims(slots, call'[k], i, d)
                 PROVE  Named(slots, i, d, k)
      OBVIOUS
    <3>1. Claims(slots, call[k], i, d) /\ call[k].claimed
      BY <1>5, WakesFacts DEF Claims
    <3> QED
      BY <1>0, <3>1 DEF ClaimInv
  <2> QED
    BY <1>0, <2>1, <2>2 DEF ClaimInv
<1>7. \A c \in Users : Private(call'[c]) <=> Private(call[c])
  BY WakesFacts DEF Private
<1>8. PrivateInv'
  <2> SUFFICES ASSUME NEW c \in Users, Private(call'[c])
               PROVE  LET i == call'[c].handle.index IN
                      /\ Live(slots, call'[c].handle) /\ ~slots[i].closed
                      /\ call'[c].at = "verdict" => Named(slots, i, "Write", c)
                      /\ \A h \in handles : ~Same(slots, h, i)
                      /\ \A d \in Users \ {c} :
                            Inside(call'[d]) => ~Same(slots, call'[d].handle, i)
    BY <1>0 DEF PrivateInv, At
  <2> DEFINE i == call[c].handle.index
  <2>1. Private(call[c]) /\ call'[c].handle = call[c].handle /\ Inside(call[c])
    BY <1>7, WakesFacts DEF Private
  <2>2. /\ Live(slots, call[c].handle) /\ ~slots[i].closed
        /\ call[c].at = "verdict" => Named(slots, i, "Write", c)
        /\ \A h \in handles : ~Same(slots, h, i)
        /\ \A d \in Users \ {c} : Inside(call[d]) => ~Same(slots, call[d].handle, i)
    BY <1>0, <2>1 DEF PrivateInv, At
  <2>3. \A d \in Users \ {c} : Inside(call'[d]) => ~Same(slots, call'[d].handle, i)
    BY <2>2, WakesFacts
  <2>4. call'[c].at = "verdict" => Named(slots, i, "Write", c)
    <3>1. CASE call'[c] = call[c]
      BY <2>2, <3>1
    <3>2. CASE call[c].at = "parked"
      <4>1. call[c].claimed
        BY <1>0, <3>2 DEF PlaceInv, Placed
      <4>2. i \in DOMAIN slots /\ slots[i].used /\ "Write" \in Dirs
            /\ Claims(slots, call[c], i, "Write")
        BY <2>1, <2>2 DEF Claims, Live, Same, Private, DirOf, Dirs
      <4> QED
        BY <1>0, <4>1, <4>2 DEF ClaimInv
    <3> QED
      BY <2>1, <3>1, <3>2, WakesFacts
  <2> QED
    BY <2>1, <2>2, <2>3, <2>4
<1>9. WriteInv'
  <2>1. \A c \in Users : Writing(call'[c]) <=> Writing(call[c])
    BY WakesFacts DEF Writing
  <2>2. ASSUME NEW c \in Users, NEW i \in DOMAIN slots, Writing(call'[c]),
               Same(slots, call'[c].handle, i), slots[i].used, ~slots[i].closed
        PROVE  Progress(call'[c], slots[i], delivered[c], c)
    <3>1. /\ Writing(call[c]) /\ Inside(call[c]) /\ Same(slots, call[c].handle, i)
          /\ call[c].op = "write"
      BY <2>1, <2>2, WakesFacts DEF Writing
    <3>2. Progress(call[c], slots[i], delivered[c], c)
      BY <1>0, <2>2, <3>1 DEF WriteInv
    <3>3. CASE call'[c] = call[c]
      BY <3>2, <3>3
    <3>4. CASE call[c].at = "parked" /\ call'[c].at = Reenter(c)
      <4>1. call[c].claimed
        BY <1>0, <3>4 DEF PlaceInv, Placed
      <4>2. "Write" \in Dirs /\ Claims(slots, call[c], i, "Write")
        BY <3>1 DEF Claims, Writing, DirOf, Dirs
      <4>3. slots[i].waiter["Write"] = c
        BY <1>0, <2>2, <4>1, <4>2 DEF ClaimInv, Named
      <4>4. call'[c].at = "adopt"
        BY <3>1, <3>4 DEF Reenter
      <4> QED
        BY <3>2, <3>4, <4>3, <4>4 DEF Progress
    <3> QED
      BY <3>1, <3>3, <3>4, WakesFacts
  <2> QED
    BY <1>0, <2>1, <2>2 DEF WriteInv
<1>10. NetTypeOK'
  BY <1>0 DEF NetTypeOK, Record, Wakes
<1> QED
  BY <1>2, <1>3, <1>4, <1>6, <1>8, <1>9, <1>10 DEF SocketInv

(* ParkedHasAWaker, read off a table, the calls and the interest entries. *)
HasWaker(T, calls, waits, c) ==
    \/ \E k \in Users : calls[k].at = "waking" /\ c \in calls[k].toWake
    \/ \E e \in waits : /\ e.context = c
                        /\ \/ \E k \in Users : calls[k].at = "wakefd" /\ calls[k].fd = e.fd
                           \/ /\ Opened(T, calls[c].handle)
                              /\ T[calls[c].handle.index].fd = e.fd

LEMMA WakerNow ==
    ParkedHasAWaker <=> \A c \in Users : call[c].at = "parked" =>
                            HasWaker(slots, call, ioWaits, c)
BY DEF ParkedHasAWaker, HasWaker, Waking, Closing, Lookup, IsSlot, SlotOf, Opened,
       Live, At, Handle

LEMMA WakerNext ==
    ParkedHasAWaker' <=> \A c \in Users : call'[c].at = "parked" =>
                             HasWaker(slots', call', ioWaits', c)
BY DEF ParkedHasAWaker, HasWaker, Waking, Closing, Lookup, IsSlot, SlotOf, Opened,
       Live, At, Handle

(* The closer takes the entries of its descriptor along. *)
LEMMA WakeIoWaitersStep ==
    ASSUME SocketInv, NEW c \in Users, WakeIoWaiters(c)
    PROVE  SocketInv'
<1> DEFINE f == call[c].fd
           ids == {e.context : e \in WaitersOf(f)}
           r == IF ids = {} THEN Idle
                ELSE [call[c] EXCEPT !.at = "waking", !.fd = NoFd, !.toWake = ids]
<1>0. /\ NetTypeOK /\ ParkedHasAWaker /\ call[c].at = "wakefd" /\ call[c] \in Record
      /\ ioWaits' = ioWaits \ WaitersOf(f) /\ baseline' = [baseline EXCEPT ![f] = {}]
      /\ call' = [call EXCEPT ![c] = r]
      /\ UNCHANGED <<program, tableVars, handles, opened, poller, armed, delivered>>
  BY CallType DEF SocketInv, WakeIoWaiters, BaselineWithout, At
<1>1. ids \subseteq Users
  BY <1>0 DEF WaitersOf, NetTypeOK
<1>2. \A e \in ioWaits : e.fd = f => e.context \in ids
  BY DEF WaitersOf
<1>3. \A e \in ioWaits : e.fd # f => e \in ioWaits'
  BY <1>0 DEF WaitersOf
<1> HIDE DEF ids
<1>4. /\ r \in Record /\ r.at \in {"waking", "script"}
      /\ ids # {} => r.at = "waking" /\ r.toWake = ids
  BY <1>0, <1>1, IdleType, SectionNames DEF Record
<1> HIDE DEF r
<1>5. CallStep(c, r)
  BY <1>0, <1>4, OneCall
<1>6. Wakes
  BY <1>0, <1>4, <1>5 DEF Wakes, CallStep, tableVars
<1>7. ParkedHasAWaker'
  <2> SUFFICES ASSUME NEW d \in Users, call'[d].at = "parked"
               PROVE  HasWaker(slots', call', ioWaits', d)
    BY WakerNext
  <2>1. /\ d # c /\ call'[d] = call[d] /\ call'[c] = r
        /\ \A k \in Users \ {c} : call'[k] = call[k]
    BY <1>4, <1>5 DEF CallStep
  <2>2. HasWaker(slots, call, ioWaits, d)
    BY <1>0, <2>1, WakerNow
  <2>3. CASE d \in ids
    BY <1>4, <2>1, <2>3 DEF HasWaker
  <2>4. CASE d \notin ids
    <3>1. CASE \E k \in Users : call[k].at = "waking" /\ d \in call[k].toWake
      BY <1>0, <2>1, <3>1 DEF HasWaker
    <3>2. CASE ~ \E k \in Users : call[k].at = "waking" /\ d \in call[k].toWake
      <4>1. PICK e \in ioWaits :
                /\ e.context = d
                /\ \/ \E k \in Users : call[k].at = "wakefd" /\ call[k].fd = e.fd
                   \/ /\ Opened(slots, call[d].handle)
                      /\ slots[call[d].handle.index].fd = e.fd
        BY <2>2, <3>2 DEF HasWaker
      <4>2. e.fd # f /\ e \in ioWaits'
        BY <1>2, <1>3, <2>4, <4>1
      <4>3. \A k \in Users : call[k].at = "wakefd" /\ call[k].fd = e.fd => call'[k] = call[k]
        BY <2>1, <4>2
      <4>4. slots' = slots
        BY <1>0 DEF tableVars
      <4> QED
        BY <2>1, <4>1, <4>2, <4>3, <4>4 DEF HasWaker
    <3> QED
      BY <3>1, <3>2
  <2> QED
    BY <2>3, <2>4
<1>8. /\ epoll' \in [Fds -> SUBSET Events] /\ baseline' \in [Fds -> SUBSET Events]
      /\ ioWaits' \subseteq ioWaits /\ poller' \in {"wait", "poll"}
      /\ armed' \in [Users -> BOOLEAN]
  BY <1>0 DEF NetTypeOK, tableVars
<1> QED
  BY <1>6, <1>7, <1>8, WakesStep

LEMMA WakeNextStep ==
    ASSUME SocketInv, NEW c \in Users, NEW d \in Users, WakeNext(c, d)
    PROVE  SocketInv'
<1> DEFINE rest == call[c].toWake \ {d}
           r == IF rest = {} THEN Idle ELSE [call[c] EXCEPT !.toWake = rest]
           calls == [call EXCEPT ![c] = r]
           woken == {x \in {d} : call[x].at = "parked"}
<1>0. /\ NetTypeOK /\ ParkedHasAWaker /\ call[c].at = "waking" /\ call[c] \in Record
      /\ call \in [Users -> Record]
      /\ call' = [x \in Users |-> IF x \in woken THEN Woken(x) ELSE calls[x]]
      /\ armed' = [x \in Users |-> armed[x] \/ x \in woken]
      /\ UNCHANGED <<program, tableVars, handles, opened, baseline, ioWaits, poller, delivered>>
  BY CallType DEF SocketInv, WakeNext, WakeForIo, At
<1>1. rest \subseteq Users
  BY <1>0 DEF Record
<1> HIDE DEF rest
<1>2. /\ r \in Record /\ r.at \in {"waking", "script"}
      /\ rest # {} => r.at = "waking" /\ r.toWake = rest
  BY <1>0, <1>1, IdleType, SectionNames DEF Record
<1> HIDE DEF r
<1>3. calls[c] = r /\ \A x \in Users \ {c} : calls[x] = call[x]
  BY <1>0
<1> HIDE DEF calls
<1>4. /\ c \notin woken /\ call'[c] = r
      /\ \A x \in Users \ {c} : call'[x] = IF x \in woken THEN Woken(x) ELSE call[x]
      /\ \A x \in Users : call'[x].at = "parked" => x # c /\ x # d /\ call'[x] = call[x]
  <2>1. c \notin woken
    BY <1>0
  <2>2. \A x \in Users : x \in woken => call'[x] = Woken(x) /\ call'[x].at # "parked"
    BY <1>0, WokenType
  <2>3. \A x \in Users : x \notin woken => call'[x] = calls[x]
    BY <1>0
  <2>4. d \in woken \/ call[d].at # "parked"
    OBVIOUS
  <2> HIDE DEF woken
  <2>5. call'[c] = r /\ call'[c].at # "parked"
    BY <1>2, <1>3, <2>1, <2>3
  <2>6. \A x \in Users \ {c} : x \notin woken => call'[x] = call[x]
    BY <1>3, <2>3
  <2> QED
    BY <2>1, <2>2, <2>4, <2>5, <2>6
<1>5. call' \in [Users -> Record]
  <2>1. \A x \in Users : Woken(x) \in Record /\ calls[x] \in Record
    BY <1>0, <1>2, <1>3, WokenType
  <2> QED
    BY <1>0, <2>1
<1>6. \A x \in Users : x \in woken => call[x].at = "parked"
  OBVIOUS
<1> HIDE DEF woken
<1>7. Wakes
  BY <1>0, <1>2, <1>4, <1>5, <1>6 DEF Wakes, tableVars
<1>8. ParkedHasAWaker'
  <2> SUFFICES ASSUME NEW x \in Users, call'[x].at = "parked"
               PROVE  HasWaker(slots', call', ioWaits', x)
    BY WakerNext
  <2>1. x # c /\ x # d /\ call'[x] = call[x] /\ HasWaker(slots, call, ioWaits, x)
    BY <1>0, <1>4, WakerNow
  <2>2. \A k \in Users \ {c} : call[k].at \in {"waking", "wakefd"} => call'[k] = call[k]
    BY <1>4, <1>6
  <2>3. slots' = slots /\ ioWaits' = ioWaits
    BY <1>0 DEF tableVars
  <2>4. CASE \E k \in Users : call[k].at = "waking" /\ x \in call[k].toWake
    <3>1. PICK k \in Users : call[k].at = "waking" /\ x \in call[k].toWake
      BY <2>4
    <3>2. k = c => x \in rest
      BY <2>1, <3>1 DEF rest
    <3>3. call'[k].at = "waking" /\ x \in call'[k].toWake
      BY <1>2, <1>4, <2>2, <3>1, <3>2
    <3> QED
      BY <3>3 DEF HasWaker
  <2>5. CASE ~ \E k \in Users : call[k].at = "waking" /\ x \in call[k].toWake
    <3>1. \A k \in Users : call[k].at = "wakefd" => call'[k] = call[k]
      BY <1>0, <2>2
    <3> QED
      BY <2>1, <2>3, <2>5, <3>1 DEF HasWaker
  <2> QED
    BY <2>4, <2>5
<1>9. /\ epoll' \in [Fds -> SUBSET Events] /\ baseline' \in [Fds -> SUBSET Events]
      /\ ioWaits' \subseteq ioWaits /\ poller' \in {"wait", "poll"}
      /\ armed' \in [Users -> BOOLEAN]
  BY <1>0 DEF NetTypeOK, tableVars
<1> QED
  BY <1>7, <1>8, <1>9, WakesStep

(* The poller thread. *)
LEMMA SyncStep ==
    ASSUME SocketInv, SyncPollerInterest
    PROVE  SocketInv'
<1>0. /\ NetTypeOK /\ ParkedHasAWaker
      /\ UNCHANGED <<program, slots, freeList, openFds, handles, opened, ioWaits,
                     armed, call, delivered>>
      /\ epoll' = [f \in Fds |-> IF baseline[f] = Wanted(f) \/ f \notin openFds
                                 THEN epoll[f] ELSE Wanted(f)]
      /\ baseline' = [f \in Fds |-> Wanted(f)] /\ poller' = "poll"
  BY DEF SocketInv, SyncPollerInterest
<1>1. \A f \in Fds : Wanted(f) \in SUBSET Events
  BY <1>0 DEF Wanted, WaitersOf, NetTypeOK
<1>2. Wakes
  BY <1>0, CallType DEF Wakes
<1>3. ParkedHasAWaker'
  BY <1>0, WakerNow, WakerNext
<1>4. /\ epoll' \in [Fds -> SUBSET Events] /\ baseline' \in [Fds -> SUBSET Events]
      /\ ioWaits' \subseteq ioWaits /\ poller' \in {"wait", "poll"}
      /\ armed' \in [Users -> BOOLEAN]
  BY <1>0, <1>1 DEF NetTypeOK
<1> QED
  BY <1>2, <1>3, <1>4, WakesStep

LEMMA HarvestStep ==
    ASSUME SocketInv, NEW due \in SUBSET ioWaits, HarvestIoEvents(due)
    PROVE  SocketInv'
<1> DEFINE ids == {e.context : e \in due}
           woken == {x \in ids : call[x].at = "parked"}
<1>0. /\ NetTypeOK /\ ParkedHasAWaker /\ call \in [Users -> Record]
      /\ call' = [x \in Users |-> IF x \in woken THEN Woken(x) ELSE call[x]]
      /\ armed' = [x \in Users |-> armed[x] \/ x \in woken]
      /\ ioWaits' = ioWaits \ due /\ poller' = "wait"
      /\ UNCHANGED <<program, slots, freeList, openFds, handles, opened, delivered>>
  BY CallType DEF SocketInv, HarvestIoEvents, WakeForIo, At
<1>1. /\ \A x \in Users : x \in woken => call[x].at = "parked"
      /\ \A e \in due : call[e.context].at = "parked" => e.context \in woken
  OBVIOUS
<1> HIDE DEF woken, ids
<1>2. call' \in [Users -> Record]
  <2>1. \A x \in Users : Woken(x) \in Record /\ call[x] \in Record
    BY <1>0, WokenType
  <2> QED
    BY <1>0, <2>1
<1>3. Wakes
  BY <1>0, <1>1, <1>2 DEF Wakes
<1>4. ParkedHasAWaker'
  <2> SUFFICES ASSUME NEW x \in Users, call'[x].at = "parked"
               PROVE  HasWaker(slots', call', ioWaits', x)
    BY WakerNext
  <2>1. x \notin woken /\ call'[x] = call[x]
    BY <1>0, WokenType
  <2>2. HasWaker(slots, call, ioWaits, x)
    BY <1>0, <2>1, WakerNow
  <2>3. \A k \in Users : call[k].at \in {"waking", "wakefd"} => call'[k] = call[k]
    BY <1>0, <1>1
  <2>4. \A e \in ioWaits : e.context = x => e \in ioWaits'
    BY <1>0, <1>1, <2>1
  <2> QED
    BY <1>0, <2>1, <2>2, <2>3, <2>4 DEF HasWaker
<1>5. /\ epoll' \in [Fds -> SUBSET Events] /\ baseline' \in [Fds -> SUBSET Events]
  BY <1>0 DEF NetTypeOK, HarvestIoEvents
<1>6. /\ ioWaits' \subseteq ioWaits /\ poller' \in {"wait", "poll"}
      /\ armed' \in [Users -> BOOLEAN]
  BY <1>0 DEF NetTypeOK
<1> QED
  BY <1>3, <1>4, <1>5, <1>6, WakesStep

-----------------------------------------------------------------------------
LEMMA SocketInit == Init => SocketInv
<1> SUFFICES ASSUME Init PROVE SocketInv
  OBVIOUS
<1>0. /\ program \in Programs /\ slots = <<>> /\ freeList = <<>> /\ handles = {} /\ openFds = {}
      /\ opened = 0 /\ ioWaits = {} /\ poller = "wait"
      /\ call = [c \in Users |-> Idle] /\ delivered = [c \in Users |-> 0]
      /\ epoll = [f \in Fds |-> {}] /\ baseline = [f \in Fds |-> {}]
      /\ armed = [c \in Users |-> FALSE] /\ Idle \in Record /\ Idle.at = "script"
  BY IdleType DEF Init
<1>1. DOMAIN slots = {} /\ DOMAIN freeList = {}
  BY <1>0
<1>2. \A c \in Users : call[c] = Idle /\ ~Inside(call[c])
  BY <1>0, SectionNames
<1>3. NetTypeOK
  <2>1. opened \in 0 .. MaxOpens
    BY <1>0, NetAssumption
  <2>2. slots \in Seq(Slot) /\ freeList \in Seq(DOMAIN slots)
    BY <1>0
  <2>3. call \in [Users -> Record] /\ delivered \in [Users -> Nat]
        /\ armed \in [Users -> BOOLEAN]
    BY <1>0
  <2> QED
    BY <1>0, <2>1, <2>2, <2>3 DEF NetTypeOK, Slot, Record
<1>4. PlaceInv /\ HandleInv
  BY <1>0, <1>2 DEF PlaceInv, Placed, HandleInv
<1>5. GenInv
  <2>1. IsFiniteSet(openFds) /\ Cardinality(openFds) = 0
    BY <1>0, FS_EmptySet
  <2> QED
    BY <1>0, <1>1, <2>1 DEF GenInv
<1>6. ClaimInv /\ PrivateInv
  BY <1>1, <1>2 DEF ClaimInv, PrivateInv, Private
<1>7. FdInv /\ FreeInv
  BY <1>0, <1>1, <1>2 DEF FdInv, FreeInv, Bears, Distinct, Occurs
<1>8. ParkedHasAWaker /\ WriteInv
  BY <1>0, <1>1, <1>2 DEF ParkedHasAWaker, WriteInv, Writing, At
<1> QED
  BY <1>3, <1>4, <1>5, <1>6, <1>7, <1>8 DEF SocketInv

LEMMA SocketNext ==
    ASSUME NoWrap, SocketInv, [Next]_netVars
    PROVE  SocketInv'
<1>1. CASE UNCHANGED netVars
  <2>1. Wakes /\ UNCHANGED <<epoll, parkVars>>
    BY <1>1, CallType DEF Wakes, netVars, tableVars, SocketInv
  <2>2. ParkedHasAWaker'
    BY <1>1, WakerNow, WakerNext DEF SocketInv, netVars, tableVars, parkVars
  <2> QED
    BY <2>1, <2>2, WakesStep DEF SocketInv, NetTypeOK, parkVars
<1>2. ASSUME NEW c \in Users,
             \/ \E op \in {"bind", "connect"}, f \in Fds : Open(c, op, f)
             \/ \E inFlight \in BOOLEAN : Mint(c, inFlight)
             \/ KickFails(c) \/ BindFails(c)
             \/ \E op \in {"read", "write", "accept"}, h \in handles : Begin(c, op, h)
      PROVE  SocketInv'
  BY <1>2, OpenStep, MintStep, KickFailsStep, BeginStep
<1>3. ASSUME NEW c \in Users, AdoptGone(c) \/ AdoptConcurrent(c) \/ AdoptClaim(c)
      PROVE  SocketInv'
  BY <1>3, AdoptGoneStep, AdoptConcurrentStep, AdoptClaimStep
<1>4. ASSUME NEW c \in Users,
             \/ WriteOffset(c) \/ StoreSent(c)
             \/ \E n \in 1 .. WriteLength : Send(c, n)
             \/ \E f \in Fds : AcceptPeer(c, f)
      PROVE  SocketInv'
  BY <1>4, WriteOffsetStep, StoreSentStep, SendStep, AcceptPeerStep
<1>5. ASSUME NEW c \in Users,
             \/ SyscallEnds(c) \/ WouldBlock(c) \/ Release(c)
             \/ ParkRefused(c) \/ ParkReplays(c) \/ Park(c)
      PROVE  SocketInv'
  BY <1>5, SyscallStep, ReleaseStep, ParkReplaysStep, ParkActionStep
<1>6. ASSUME NEW c \in Users,
             \/ Connected(c) \/ StillConnecting(c) \/ AbandonConnect(c)
             \/ \E h \in handles : Close(c, h)
             \/ WakeIoWaiters(c)
             \/ \E d \in Users : WakeNext(c, d)
      PROVE  SocketInv'
  BY <1>6, ConnectedStep, StillConnectingStep, AbandonConnectStep, CloseStep,
     WakeIoWaitersStep, WakeNextStep
<1>7. ASSUME SyncPollerInterest \/ \E due \in SUBSET ioWaits : HarvestIoEvents(due)
      PROVE  SocketInv'
  BY <1>7, SyncStep, HarvestStep
<1> QED
  BY <1>1, <1>2, <1>3, <1>4, <1>5, <1>6, <1>7 DEF Next

(* Calls, slots, free list, descriptors, interest entries and write        *)
(* offsets agree in every reachable state, as long as no generation comes  *)
(* back (NoWrap): the inductive invariant.                                 *)
THEOREM SocketInvHolds ==
    ASSUME NoWrap
    PROVE  Spec => []SocketInv
<1>1. Init => SocketInv
  BY SocketInit
<1>2. SocketInv /\ [Next]_netVars => SocketInv'
  BY SocketNext
<1> QED
  BY <1>1, <1>2, PTL DEF Spec

(* A claim never outlives its call, and a closed slot is kept only for a   *)
(* call that has claimed it: for any number of contexts, descriptors and   *)
(* slots, and for every program of theirs (ReleaseWaiter and MarkClosed of *)
(* NetSocketTable, NetAdoptClaim).                                         *)
THEOREM ClaimsHaveACallHolds ==
    ASSUME NoWrap
    PROVE  Spec => []ClaimsHaveACall
<1>1. SocketInv => ClaimsHaveACall
  <2> SUFFICES ASSUME SocketInv PROVE ClaimsHaveACall
    OBVIOUS
  <2>1. NetTypeOK /\ ClaimInv /\ \A i \in DOMAIN slots : slots[i] \in Slot
    BY SlotType DEF SocketInv
  <2>2. \A i \in DOMAIN slots, d \in Dirs : slots[i].waiter[d] \in Users \cup {NoWaiter}
    BY <2>1 DEF Slot
  <2>3. ASSUME NEW i \in DOMAIN slots, slots[i].used, NEW d \in Dirs,
               slots[i].waiter[d] # NoWaiter
        PROVE  LET c == slots[i].waiter[d] IN
               InCall(c) /\ Handle(c).index = i /\ Handle(c).gen = slots[i].gen /\ Dir(c) = d
    <3> DEFINE c == slots[i].waiter[d]
    <3>1. c \in Users
      BY <2>2, <2>3
    <3>2. Claims(slots, call[c], i, d)
      BY <2>1, <2>3, <3>1 DEF ClaimInv, Named
    <3> HIDE DEF c
    <3>3. InCall(c) /\ Handle(c).index = i /\ Handle(c).gen = slots[i].gen /\ Dir(c) = d
      BY <3>2, SectionNames DEF Claims, Same, InCall, Handle, Dir
    <3> QED
      BY <3>3 DEF c
  <2> QED
    BY <2>1, <2>3 DEF ClaimsHaveACall, ClaimInv
<1> QED
  BY <1>1, SocketInvHolds, PTL

(* "A socket allows one operation per direction at a time": the claim is   *)
(* exclusive from NetAdoptClaim to the release, through parks and wakes.   *)
THEOREM OneCallPerDirectionHolds ==
    ASSUME NoWrap
    PROVE  Spec => []OneCallPerDirection
<1>1. SocketInv => OneCallPerDirection
  <2> SUFFICES ASSUME SocketInv, NEW c \in Users, NEW d \in Users, c # d, Holds(c), Holds(d),
                      Handle(c) = Handle(d)
               PROVE  Dir(c) # Dir(d)
    BY DEF OneCallPerDirection
  <2>1. Inside(call[c]) /\ Inside(call[d])
    BY SectionNames DEF Holds, InCall
  <2>2. /\ slots[call[c].handle.index].waiter[Dir(c)] = c
        /\ slots[call[d].handle.index].waiter[Dir(d)] = d
    BY <2>1, ClaimIsMine DEF Holds
  <2> QED
    BY <2>2 DEF Handle
<1> QED
  BY <1>1, SocketInvHolds, PTL

(* No descriptor is lost or owned twice, and the free list holds exactly   *)
(* the slots that are free, each once.                                     *)
THEOREM NoDescriptorLeakHolds ==
    ASSUME NoWrap
    PROVE  Spec => []NoDescriptorLeak
<1>1. SocketInv => NoDescriptorLeak
  <2> SUFFICES ASSUME SocketInv PROVE NoDescriptorLeak
    OBVIOUS
  <2>0. NetTypeOK /\ FdInv /\ FreeInv
    BY DEF SocketInv
  <2>1. Cardinality({}) = 0 /\ \A x : Cardinality({x}) = 1
    BY FS_EmptySet, FS_Singleton
  <2>2. ASSUME NEW f \in Fds
        PROVE  Cardinality(FdOwners(f)) + Cardinality(FdCarriers(f))
                   = IF f \in openFds THEN 1 ELSE 0
    <3>1. /\ \A i : i \in FdOwners(f) <=> i \in DOMAIN slots /\ slots[i].used /\ slots[i].fd = f
          /\ \A c : c \in FdCarriers(f) <=> c \in Users /\ Bears(call[c], f)
      BY DEF FdOwners, FdCarriers, Bears
    <3>2. CASE f \notin openFds
      <4>1. FdOwners(f) = {} /\ FdCarriers(f) = {}
        BY <2>0, <3>1, <3>2 DEF FdInv
      <4> QED
        BY <2>1, <3>2, <4>1
    <3>3. ASSUME NEW i \in FdOwners(f)
          PROVE  FdOwners(f) = {i} /\ FdCarriers(f) = {} /\ f \in openFds
      BY <2>0, <3>1, <3>3 DEF FdInv
    <3>4. ASSUME NEW c \in FdCarriers(f) PROVE FdOwners(f) = {} /\ FdCarriers(f) = {c}
      <4>1. c \in Users /\ Bears(call[c], f)
        BY <3>1, <3>4
      <4>2. \A d \in Users : Bears(call[d], f) => d = c
        BY <2>0, <4>1 DEF FdInv
      <4>3. \A i \in DOMAIN slots : slots[i].used => slots[i].fd # f
        BY <2>0, <4>1 DEF FdInv
      <4> QED
        BY <3>1, <4>1, <4>2, <4>3
    <3>5. CASE f \in openFds
      <4>1. (\E i : i \in FdOwners(f)) \/ (\E c : c \in FdCarriers(f))
        BY <2>0, <3>1, <3>5 DEF FdInv
      <4>2. \/ Cardinality(FdOwners(f)) = 1 /\ Cardinality(FdCarriers(f)) = 0
            \/ Cardinality(FdOwners(f)) = 0 /\ Cardinality(FdCarriers(f)) = 1
        BY <2>1, <3>3, <3>4, <4>1
      <4> QED
        BY <3>5, <4>2
    <3> QED
      BY <3>2, <3>5
  <2>3. ASSUME NEW i \in DOMAIN slots
        PROVE  Cardinality({k \in DOMAIN freeList : freeList[k] = i})
                   = IF slots[i].used THEN 0 ELSE 1
    <3> DEFINE K == {k \in DOMAIN freeList : freeList[k] = i}
    <3>1. CASE slots[i].used
      <4>1. K = {}
        BY <2>0, <3>1 DEF FreeInv, Occurs
      <4> QED
        BY <2>1, <3>1, <4>1
    <3>2. CASE ~slots[i].used
      <4>1. PICK k \in DOMAIN freeList : freeList[k] = i
        BY <2>0, <3>2 DEF FreeInv, Occurs
      <4>2. K = {k}
        BY <2>0, <4>1 DEF FreeInv, Distinct
      <4> QED
        BY <2>1, <3>2, <4>2
    <3> QED
      BY <3>1, <3>2
  <2> QED
    BY <2>2, <2>3 DEF NoDescriptorLeak
<1> QED
  BY <1>1, SocketInvHolds, PTL

(* A parked call has an interest entry on its open socket, or a closer on  *)
(* its way: no wake is lost between WakeIoWaitersForFd and the park.       *)
THEOREM ParkedHasAWakerHolds ==
    ASSUME NoWrap
    PROVE  Spec => []ParkedHasAWaker
<1>1. SocketInv => ParkedHasAWaker
  BY DEF SocketInv
<1> QED
  BY <1>1, SocketInvHolds, PTL

(* A write on an open socket goes on exactly where its own bytes end, for  *)
(* every length of the write and every other call on the socket.           *)
THEOREM WriteResumesWhereItStoppedHolds ==
    ASSUME NoWrap
    PROVE  Spec => []WriteResumesWhereItStopped
<1>1. SocketInv => WriteResumesWhereItStopped
  <2> SUFFICES ASSUME SocketInv, NEW c \in Users, call[c].op = "write",
                      call[c].at \in {"syscall", "store", "park"}, Lookup(Handle(c))
               PROVE  call[c].offset = delivered[c]
    BY DEF WriteResumesWhereItStopped
  <2> DEFINE i == call[c].handle.index
  <2>1. Inside(call[c]) /\ Writing(call[c])
    BY SectionNames DEF Writing
  <2>2. i \in DOMAIN slots /\ slots[i].used /\ ~slots[i].closed
        /\ Same(slots, call[c].handle, i)
    BY <2>1, OwnSlot DEF Lookup
  <2>3. Progress(call[c], slots[i], delivered[c], c)
    BY <2>1, <2>2 DEF SocketInv, WriteInv
  <2> QED
    BY <2>3 DEF Progress
<1> QED
  BY <1>1, SocketInvHolds, PTL
==============================================================================
