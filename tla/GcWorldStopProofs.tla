-------------------------- MODULE GcWorldStopProofs --------------------------
(***************************************************************************)
(* The safety of the rendezvous for any number of threads, registrations,  *)
(* stops and resets, provided that no carrier is abandoned inside the wait *)
(* of BeginExecuting, between its safepoint poll and InitiateAndArrive, or *)
(* while it collects (DetachedAt \subseteq SafeDetach).                    *)
(***************************************************************************)
EXTENDS GcWorldStop, SequenceTheorems, FiniteSetTheorems, TLAPS

\* Thread locals point into the registry, at a generation issued before, and
\* no two registered threads carry the same generation.
LocalsInv ==
    \A t \in Threads : /\ self[t].index \in 0..Len(threads)
                       /\ self[t].generation < nextGeneration
                       /\ pc[t] = "outside" => self[t].index = 0

UniqueInv ==
    \A t, u \in Threads :
        (t # u /\ self[t].index # 0 /\ self[u].index # 0)
            => self[t].generation # self[u].generation

RegistryInv ==
    /\ LocalsInv
    /\ UniqueInv
    /\ \A i \in 1..Len(threads) : threads[i].generation < nextGeneration

FreeInv ==
    /\ \A k \in 1..Len(freeIndices) : freeIndices[k] \in 1..Len(threads)
    /\ FreeListExact

\* The executing bit of a thread of the run says where the thread is.
BitInv ==
    \A t \in Threads :
        EntryIsCurrent(t) => (SelfExecuting(t) <=> pc[t] \in ExecutingAt)

\* These threads act on the registry without checking their generation.
OwnedInv ==
    \A t \in Threads :
        pc[t] \in CollectingAt \cup {"begin", "initiate"} => EntryIsCurrent(t)

\* Under a stop every member of the snapshot has arrived or still executes.
StopInv == stopActive => arrived + executingCount = expected

IndInv ==
    /\ TypeOK
    /\ RegistryInv
    /\ FreeInv
    /\ BitInv
    /\ OwnedInv
    /\ CountMatchesBits
    /\ StopInv
    /\ OneCollectorPerStop
    /\ NoTripwire

-----------------------------------------------------------------------------
(* Lemmas about the registry. *)

\* Only finitely many entries exist, so their count is a number.
LEMMA EntriesFinite ==
    ASSUME TypeOK
    PROVE  IsFiniteSet(ExecutingEntries) /\ Cardinality(ExecutingEntries) \in Nat
<1>1. IsFiniteSet(1..Len(threads))
  BY FS_Interval DEF TypeOK
<1>2. ExecutingEntries \in SUBSET (1..Len(threads))
  BY DEF ExecutingEntries
<1>3. IsFiniteSet(ExecutingEntries)
  BY <1>1, <1>2, FS_Subset
<1> QED
  BY <1>3, FS_CardinalityType

\* Two threads of the run own different entries.
LEMMA DistinctEntries ==
    ASSUME RegistryInv, NEW t \in Threads, NEW u \in Threads, t # u,
           EntryIsCurrent(t), EntryIsCurrent(u)
    PROVE  self[t].index # self[u].index
BY DEF RegistryInv, LocalsInv, UniqueInv, EntryIsCurrent

\* Setting the executing bit of one entry changes nothing else.
LEMMA SetExecuting ==
    ASSUME TypeOK, NEW i \in 1..Len(threads), NEW b \in BOOLEAN,
           threads' = [threads EXCEPT ![i].executing = b]
    PROVE  /\ threads' \in Seq(Entry)
           /\ Len(threads') = Len(threads)
           /\ \A j \in 1..Len(threads) :
                 /\ threads'[j].live = threads[j].live
                 /\ threads'[j].generation = threads[j].generation
                 /\ threads'[j].executing = IF j = i THEN b
                                                     ELSE threads[j].executing
<1> DEFINE e == [threads[i] EXCEPT !.executing = b]
<1>1. threads \in Seq(Entry) /\ threads[i] \in Entry
  BY DEF TypeOK
<1>2. /\ e \in Entry
      /\ e.live = threads[i].live
      /\ e.generation = threads[i].generation
      /\ e.executing = b
  BY <1>1 DEF Entry
<1>3. threads' = [threads EXCEPT ![i] = e]
  OBVIOUS
<1> HIDE DEF e
<1> QED
  BY <1>1, <1>2, <1>3, ExceptSeq

\* The count follows the bit that goes on ...
LEMMA CountOn ==
    ASSUME TypeOK, CountMatchesBits, NEW i \in 1..Len(threads),
           threads[i].live, ~threads[i].executing,
           threads' = [threads EXCEPT ![i].executing = TRUE],
           executingCount' = executingCount + 1
    PROVE  CountMatchesBits'
<1>1. ExecutingEntries' = ExecutingEntries \cup {i}
  BY SetExecuting DEF ExecutingEntries
<1>2. i \notin ExecutingEntries
  BY DEF ExecutingEntries
<1>3. Cardinality(ExecutingEntries \cup {i}) = Cardinality(ExecutingEntries) + 1
  BY <1>2, EntriesFinite, FS_AddElement
<1> QED
  BY <1>1, <1>3 DEF CountMatchesBits

\* ... and the bit that goes off, which was counted.
LEMMA CountOff ==
    ASSUME TypeOK, CountMatchesBits, NEW i \in 1..Len(threads),
           threads[i].live, threads[i].executing,
           threads' = [threads EXCEPT ![i].executing = FALSE],
           executingCount' = executingCount - 1
    PROVE  CountMatchesBits' /\ executingCount >= 1
<1>1. ExecutingEntries' = ExecutingEntries \ {i}
  BY SetExecuting DEF ExecutingEntries
<1>2. i \in ExecutingEntries
  BY DEF ExecutingEntries
<1>3. Cardinality(ExecutingEntries \ {i}) = Cardinality(ExecutingEntries) - 1
  BY <1>2, EntriesFinite, FS_RemoveElement
<1>4. Cardinality(ExecutingEntries) # 0
  BY <1>2, EntriesFinite, FS_EmptySet
<1> QED
  BY <1>1, <1>3, <1>4, EntriesFinite DEF CountMatchesBits, TypeOK

-----------------------------------------------------------------------------
(* Steps that leave the registry and the accounting alone. *)

\* What such a step has to show: the typing of what it writes, and where the
\* moved thread ends up.
LEMMA QuietStep ==
    ASSUME IndInv, TypeOK', NEW t \in Threads, NEW l \in Locations,
           pc' = [pc EXCEPT ![t] = l],
           UNCHANGED <<registry, arrivals, executingCount, stopActive, self,
                       tripped>>,
           EntryIsCurrent(t) => (pc[t] \in ExecutingAt <=> l \in ExecutingAt),
           l \in CollectingAt <=> pc[t] \in CollectingAt,
           l \in {"begin", "initiate"} => EntryIsCurrent(t),
           l = "outside" => pc[t] = "outside"
    PROVE  IndInv'
<1> USE DEF IndInv, registry, arrivals
<1>1. RegistryInv'
  BY DEF RegistryInv, LocalsInv, UniqueInv, TypeOK
<1>2. FreeInv'
  BY DEF FreeInv, FreeListExact
<1>3. BitInv'
  BY DEF BitInv, EntryIsCurrent, SelfExecuting, TypeOK
<1>4. OwnedInv'
  BY DEF OwnedInv, EntryIsCurrent, TypeOK, CollectingAt
<1>5. CountMatchesBits' /\ StopInv' /\ NoTripwire'
  BY DEF CountMatchesBits, ExecutingEntries, StopInv, NoTripwire
<1>6. OneCollectorPerStop'
  <2>1. Collectors' = Collectors
    BY DEF Collectors, TypeOK
  <2> QED
    BY <2>1 DEF OneCollectorPerStop
<1> QED
  BY <1>1, <1>2, <1>3, <1>4, <1>5, <1>6

\* A step that moves no thread either.
LEMMA StillStep ==
    ASSUME IndInv, TypeOK',
           UNCHANGED <<registry, arrivals, executingCount, stopActive, self,
                       pc, tripped>>
    PROVE  IndInv'
<1> USE DEF IndInv, registry, arrivals
<1>1. RegistryInv' /\ FreeInv' /\ StopInv' /\ NoTripwire'
  BY DEF RegistryInv, LocalsInv, UniqueInv, FreeInv, FreeListExact, StopInv, NoTripwire
<1>2. BitInv' /\ OwnedInv'
  BY DEF BitInv, OwnedInv, EntryIsCurrent, SelfExecuting
<1>3. CountMatchesBits' /\ OneCollectorPerStop'
  BY DEF CountMatchesBits, ExecutingEntries, OneCollectorPerStop, Collectors
<1> QED
  BY <1>1, <1>2, <1>3

-----------------------------------------------------------------------------
(* Steps that flip an executing bit. *)

\* A flip leaves the owners of the entries and the free list as they were.
LEMMA SameOwners ==
    ASSUME RegistryInv, FreeInv, pc \in [Threads -> Locations],
           NEW t \in Threads, NEW l, l # "outside", pc' = [pc EXCEPT ![t] = l],
           UNCHANGED <<self, freeIndices, nextGeneration>>,
           Len(threads') = Len(threads),
           \A j \in 1..Len(threads) :
               /\ threads'[j].live = threads[j].live
               /\ threads'[j].generation = threads[j].generation
    PROVE  RegistryInv' /\ FreeInv'
<1>1. RegistryInv'
  BY DEF RegistryInv, LocalsInv, UniqueInv
<1>2. (\A k \in 1..Len(freeIndices) : freeIndices[k] \in 1..Len(threads))'
  BY DEF FreeInv
<1>3. FreeListExact'
  BY DEF FreeInv, FreeListExact
<1> QED
  BY <1>1, <1>2, <1>3 DEF FreeInv

\* A thread of the run starts executing while no stop is in flight.
LEMMA FlipOnStep ==
    ASSUME IndInv, NEW t \in Threads, EntryIsCurrent(t), ~stopActive,
           pc[t] \in {"idle", "reenter", "begin"}, FlipOn(t),
           UNCHANGED <<freeIndices, nextGeneration, epochs, arrivals,
                       stopActive, locals, shared, resets, tripped>>
    PROVE  IndInv'
<1>0. executingCount \in Nat
  BY DEF IndInv, TypeOK
<1> USE DEF IndInv
<1> DEFINE i == self[t].index
<1> DEFINE l == Resumed(t)
<1>1. /\ i \in 1..Len(threads)
      /\ threads[i].live
      /\ ~threads[i].executing
      /\ threads' = [threads EXCEPT ![i].executing = TRUE]
      /\ executingCount' = executingCount + 1
  BY DEF EntryIsCurrent, BitInv, SelfExecuting, ExecutingAt, FlipOn, CountedOn
<1>2. /\ l \in {"running", "regil"}
      /\ pc' = [pc EXCEPT ![t] = l]
      /\ UNCHANGED <<self, freeIndices, nextGeneration, expected, arrived,
                     stopActive, tripped, requestEpoch, completedEpoch,
                     stopCount, sleeping, resume, handoff, waitEpoch, gil,
                     pressure, resets>>
  BY DEF Resumed, FlipOn, Goto, locals, arrivals, epochs, shared
<1> HIDE DEF i, l
<1>3. /\ threads' \in Seq(Entry)
      /\ Len(threads') = Len(threads)
      /\ \A j \in 1..Len(threads) :
            /\ threads'[j].live = threads[j].live
            /\ threads'[j].generation = threads[j].generation
            /\ threads'[j].executing = IF j = i THEN TRUE
                                                ELSE threads[j].executing
  BY <1>1, SetExecuting
<1>4. TypeOK'
  <2>1. executingCount' \in Nat
    BY <1>0, <1>1
  <2>2. pc' \in [Threads -> Locations]
    BY <1>2 DEF TypeOK, Locations
  <2> QED
    BY <2>1, <2>2, <1>2, <1>3 DEF TypeOK
<1>5. \A u \in Threads : EntryIsCurrent(u)' <=> EntryIsCurrent(u)
  BY <1>2, <1>3 DEF EntryIsCurrent
<1>6. RegistryInv' /\ FreeInv'
  BY <1>2, <1>3, SameOwners DEF TypeOK
<1>7. BitInv'
  <2> SUFFICES ASSUME NEW u \in Threads, EntryIsCurrent(u)
               PROVE  SelfExecuting(u)' <=> pc'[u] \in ExecutingAt
    BY <1>5 DEF BitInv
  <2>1. CASE u = t
    BY <2>1, <1>1, <1>2, <1>3 DEF SelfExecuting, ExecutingAt, TypeOK, i
  <2>2. CASE u # t
    <3>1. self[u].index # i /\ self[u].index \in 1..Len(threads)
      BY <2>2, DistinctEntries DEF i, EntryIsCurrent
    <3> QED
      BY <2>2, <3>1, <1>2, <1>3 DEF SelfExecuting, BitInv, TypeOK
  <2> QED
    BY <2>1, <2>2
<1>8. OwnedInv'
  BY <1>2, <1>5 DEF OwnedInv, TypeOK, CollectingAt
<1>9. CountMatchesBits'
  BY <1>1, CountOn
<1>10. StopInv' /\ NoTripwire'
  BY <1>2 DEF StopInv, NoTripwire
<1>11. OneCollectorPerStop'
  <2>1. Collectors' = Collectors
    BY <1>2 DEF Collectors, CollectingAt, TypeOK
  <2> QED
    BY <2>1, <1>2 DEF OneCollectorPerStop
<1> QED
  BY <1>4, <1>6, <1>7, <1>8, <1>9, <1>10, <1>11

\* A thread of the run stops executing: with a stop in flight it arrives, and
\* only the arrival that leaves nobody executing elects a collector.
LEMMA FlipOffStep ==
    ASSUME IndInv, NEW t \in Threads, EntryIsCurrent(t), pc[t] \in ExecutingAt,
           NEW active \in BOOLEAN, NEW expect \in Nat, NEW soFar \in Nat,
           NEW otherwise \in {"leave", "await"},
           NEW continue \in {"leave", "reenter"},
           active => soFar + executingCount = expect,
           FlipOffAndArrive(t, active, expect, soFar, otherwise, continue),
           stopActive' = active, requestEpoch' \in Nat, tripped' = FALSE,
           UNCHANGED <<completedEpoch, stopCount, freeIndices, nextGeneration,
                       sleeping, self, handoff, waitEpoch, gil, pressure,
                       resets>>
    PROVE  IndInv'
<1>0. executingCount \in Nat
  BY DEF IndInv, TypeOK
<1> USE DEF IndInv
<1> DEFINE i == self[t].index
<1> DEFINE l == IF active /\ soFar + 1 = expect THEN "collect" ELSE otherwise
<1>1. /\ i \in 1..Len(threads)
      /\ threads[i].live
      /\ threads[i].executing
      /\ threads' = [threads EXCEPT ![i].executing = FALSE]
      /\ executingCount' = executingCount - 1
  BY DEF EntryIsCurrent, BitInv, SelfExecuting, FlipOffAndArrive
<1>2. /\ l \in {"leave", "await", "collect"}
      /\ l = "collect" <=> active /\ soFar + 1 = expect
      /\ pc' = [pc EXCEPT ![t] = l]
      /\ resume' = [resume EXCEPT ![t] = continue]
      /\ expected' = expect
      /\ arrived' = IF active THEN soFar + 1 ELSE soFar
  BY DEF FlipOffAndArrive, Goto
<1> HIDE DEF i, l
<1>3. /\ threads' \in Seq(Entry)
      /\ Len(threads') = Len(threads)
      /\ \A j \in 1..Len(threads) :
            /\ threads'[j].live = threads[j].live
            /\ threads'[j].generation = threads[j].generation
            /\ threads'[j].executing = IF j = i THEN FALSE
                                                ELSE threads[j].executing
  BY <1>1, SetExecuting
<1>4. CountMatchesBits' /\ executingCount >= 1
  BY <1>1, CountOff
<1>5. TypeOK'
  <2>1. executingCount' \in Nat
    BY <1>0, <1>1, <1>4
  <2>2. expected' \in Nat /\ arrived' \in Nat
    BY <1>2
  <2>3. pc' \in [Threads -> Locations]
    BY <1>2 DEF TypeOK, Locations
  <2>4. resume' \in [Threads -> {"leave", "reenter"}]
    BY <1>2 DEF TypeOK
  <2> QED
    BY <2>1, <2>2, <2>3, <2>4, <1>3 DEF TypeOK
<1>6. \A u \in Threads : EntryIsCurrent(u)' <=> EntryIsCurrent(u)
  BY <1>3 DEF EntryIsCurrent
<1>7. RegistryInv' /\ FreeInv'
  BY <1>2, <1>3, SameOwners DEF TypeOK
<1>8. BitInv'
  <2> SUFFICES ASSUME NEW u \in Threads, EntryIsCurrent(u)
               PROVE  SelfExecuting(u)' <=> pc'[u] \in ExecutingAt
    BY <1>6 DEF BitInv
  <2>1. CASE u = t
    BY <2>1, <1>1, <1>2, <1>3 DEF SelfExecuting, ExecutingAt, TypeOK, i
  <2>2. CASE u # t
    <3>1. self[u].index # i /\ self[u].index \in 1..Len(threads)
      BY <2>2, DistinctEntries DEF i, EntryIsCurrent
    <3> QED
      BY <2>2, <3>1, <1>2, <1>3 DEF SelfExecuting, BitInv, TypeOK
  <2> QED
    BY <2>1, <2>2
<1>9. OwnedInv'
  BY <1>2, <1>6 DEF OwnedInv, TypeOK, CollectingAt
<1>10. StopInv'
  BY <1>1, <1>2 DEF StopInv, TypeOK
<1>11. NoTripwire'
  BY DEF NoTripwire
<1>12. OneCollectorPerStop'
  <2>1. Collectors = {}
    BY <1>4 DEF OneCollectorPerStop, StopInv, TypeOK
  <2>2. CASE active /\ soFar + 1 = expect
    <3>1. Collectors' = {t}
      BY <2>1, <2>2, <1>2 DEF Collectors, CollectingAt, TypeOK
    <3> QED
      BY <2>2, <3>1, <1>2 DEF OneCollectorPerStop
  <2>3. CASE ~(active /\ soFar + 1 = expect)
    <3>1. Collectors' = {}
      BY <2>1, <2>3, <1>2 DEF Collectors, CollectingAt, TypeOK
    <3> QED
      BY <2>3, <3>1, <1>2 DEF OneCollectorPerStop
  <2> QED
    BY <2>2, <2>3
<1> QED
  BY <1>4, <1>5, <1>7, <1>8, <1>9, <1>10, <1>11, <1>12

\* EndExecuting, called by a thread that executes bytecode.
LEMMA EndExecutingStep ==
    ASSUME IndInv, NEW t \in Threads, pc[t] \in {"running", "arrive"},
           NEW otherwise \in {"leave", "await"},
           NEW continue \in {"leave", "reenter"},
           EndExecuting(t, otherwise, continue),
           UNCHANGED <<freeIndices, nextGeneration, epochs, stopActive,
                       sleeping, self, handoff, waitEpoch, shared, resets>>
    PROVE  IndInv'
<1>1. CASE EntryIsCurrent(t)
  <2>1. /\ tripped' = ~SelfExecuting(t)
        /\ FlipOffAndArrive(t, stopActive, expected, arrived, otherwise, continue)
    BY <1>1 DEF EndExecuting, EndsAsZombie, IsArrival
  <2>2. tripped' = FALSE /\ pc[t] \in ExecutingAt
    BY <1>1, <2>1 DEF IndInv, BitInv, ExecutingAt, SelfExecuting
  <2>3. /\ stopActive \in BOOLEAN /\ expected \in Nat /\ arrived \in Nat
        /\ stopActive => arrived + executingCount = expected
        /\ stopActive' = stopActive /\ requestEpoch' \in Nat
        /\ UNCHANGED <<completedEpoch, stopCount, freeIndices, nextGeneration,
                       sleeping, self, handoff, waitEpoch, gil, pressure,
                       resets>>
    BY DEF IndInv, TypeOK, StopInv, epochs, shared
  <2> QED
    BY <1>1, <2>1, <2>2, <2>3, FlipOffStep
<1>2. CASE ~EntryIsCurrent(t)
  <2>1. /\ pc' = [pc EXCEPT ![t] = otherwise]
        /\ UNCHANGED <<threads, executingCount, arrivals, resume, tripped>>
    BY <1>2 DEF EndExecuting, EndsAsZombie, Goto
  <2>2. TypeOK'
    BY <2>1 DEF IndInv, TypeOK, epochs, shared, arrivals, Locations
  <2> QED
    BY <1>2, <2>1, <2>2, QuietStep
       DEF CollectingAt, Locations, registry
<1> QED
  BY <1>1, <1>2

-----------------------------------------------------------------------------
(* Registration, retirement and reset. *)

\* A registration takes a retired or a new entry; nobody else becomes or
\* ceases to be current.
LEMMA RegisterStep ==
    ASSUME IndInv, NEW t \in Threads, RegisterThread(t)
    PROVE  IndInv'
<1> USE DEF IndInv
<1> DEFINE n == Len(freeIndices)
<1> DEFINE reuse == freeIndices # <<>>
<1> DEFINE i == IF reuse THEN freeIndices[n] ELSE Len(threads) + 1
<1> DEFINE entry == [live |-> TRUE, executing |-> FALSE,
                     generation |-> nextGeneration]
<1>1. /\ pc[t] = "outside"
      /\ threads' = IF reuse THEN [threads EXCEPT ![i] = entry]
                             ELSE Append(threads, entry)
      /\ freeIndices' = IF reuse THEN SubSeq(freeIndices, 1, n - 1)
                                 ELSE freeIndices
      /\ self' = [self EXCEPT ![t] = [index |-> i,
                                      generation |-> nextGeneration]]
      /\ nextGeneration' = nextGeneration + 1
      /\ tripped' = (self[t].index # 0 /\ threads[self[t].index].live)
      /\ pc' = [pc EXCEPT ![t] = "idle"]
      /\ UNCHANGED <<requestEpoch, completedEpoch, stopCount, expected,
                     arrived, executingCount, stopActive, sleeping, resume,
                     handoff, waitEpoch, gil, pressure, resets>>
  BY DEF RegisterThread, Goto, epochs, arrivals, shared
<1>2. entry \in Entry /\ entry.live /\ ~entry.executing
      /\ entry.generation = nextGeneration
  BY DEF Entry, TypeOK
<1>3. n \in Nat /\ (reuse <=> n # 0) /\ threads \in Seq(Entry)
      /\ Len(threads) \in Nat /\ freeIndices \in Seq(Nat)
  BY EmptySeq, LenProperties DEF TypeOK
<1>4. reuse => /\ i \in 1..Len(threads)
               /\ ~threads[i].live
               /\ n \in 1..n
  BY <1>3 DEF FreeInv, FreeListExact
<1> HIDE DEF entry
<1>5. /\ threads' \in Seq(Entry)
      /\ Len(threads') \in Nat
      /\ i \in 1..Len(threads')
      /\ threads'[i] = entry
      /\ \A j \in 1..Len(threads) : j # i => threads'[j] = threads[j]
      /\ \A j \in 1..Len(threads') : j # i => j \in 1..Len(threads)
      /\ \A j \in 1..Len(threads) : j \in 1..Len(threads')
  <2>1. CASE reuse
    BY <2>1, <1>1, <1>2, <1>3, <1>4, ExceptSeq
  <2>2. CASE ~reuse
    BY <2>2, <1>1, <1>2, <1>3, AppendProperties
  <2> QED
    BY <2>1, <2>2
<1>5a. i \in 1..Len(threads) => ~threads[i].live
  BY <1>3, <1>4
<1> HIDE DEF n, reuse, i
<1>6. /\ reuse => /\ freeIndices' \in Seq(Nat)
                  /\ Len(freeIndices') = n - 1
                  /\ \A k \in 1..(n - 1) : freeIndices'[k] = freeIndices[k]
      /\ ~reuse => freeIndices' = freeIndices /\ n = 0
  <2>1. \A k \in 1..(n - 1) : freeIndices[k] \in Nat
    BY <1>3 DEF n
  <2>2. CASE reuse
    <3>1. /\ SubSeq(freeIndices, 1, n - 1) \in Seq(Nat)
          /\ Len(SubSeq(freeIndices, 1, n - 1)) = IF 1 <= n - 1 THEN n - 1 ELSE 0
          /\ \A k \in 1..(n - 1) : SubSeq(freeIndices, 1, n - 1)[k] = freeIndices[k]
      BY <2>1, <1>3, SubSeqProperties
    <3>2. (IF 1 <= n - 1 THEN n - 1 ELSE 0) = n - 1
      BY <2>2, <1>3
    <3>3. freeIndices' = SubSeq(freeIndices, 1, n - 1)
      BY <2>2, <1>1
    <3> QED
      BY <2>2, <3>1, <3>2, <3>3
  <2>3. CASE ~reuse
    BY <2>3, <1>1, <1>3
  <2> QED
    BY <2>2, <2>3
<1>7. i \in Nat /\ i # 0
  BY <1>5
<1>8. TypeOK'
  <2>1. self' \in [Threads -> [index : Nat, generation : Nat]]
    BY <1>1, <1>7 DEF TypeOK
  <2>2. pc' \in [Threads -> Locations]
    BY <1>1 DEF TypeOK, Locations
  <2>3. freeIndices' \in Seq(Nat)
    BY <1>3, <1>6
  <2>4. tripped' \in BOOLEAN /\ nextGeneration' \in Nat \ {0}
    BY <1>1 DEF TypeOK
  <2> QED
    BY <2>1, <2>2, <2>3, <2>4, <1>1, <1>5 DEF TypeOK
<1>9. self'[t].index = i /\ self'[t].generation = nextGeneration
      /\ \A u \in Threads : u # t => self'[u] = self[u]
  BY <1>1 DEF TypeOK
<1>10. RegistryInv'
  <2>1. LocalsInv'
    BY <1>1, <1>5, <1>9 DEF RegistryInv, LocalsInv, TypeOK
  <2>2. \A j \in 1..Len(threads') : threads'[j].generation < nextGeneration'
    <3>1. \A j \in 1..Len(threads) : threads[j].generation < nextGeneration'
      <4>1. \A j \in 1..Len(threads) : threads[j].generation \in Nat
        <5>1. \A j \in 1..Len(threads) : threads[j] \in Entry
          BY <1>3, ElementOfSeq
        <5> QED
          BY <5>1 DEF Entry
      <4> QED
        BY <4>1, <1>1 DEF RegistryInv, LocalsInv, UniqueInv, TypeOK
    <3> QED
      BY <3>1, <1>1, <1>2, <1>5 DEF TypeOK
  <2>3. UniqueInv'
    <3>1. \A u \in Threads : u # t => self'[u].generation # nextGeneration
      BY <1>9 DEF RegistryInv, LocalsInv, TypeOK
    <3> QED
      BY <3>1, <1>9 DEF RegistryInv, UniqueInv
  <2> QED
    BY <2>1, <2>2, <2>3 DEF RegistryInv
<1>11. \A u \in Threads : u # t => (EntryIsCurrent(u)' <=> EntryIsCurrent(u))
  <2> SUFFICES ASSUME NEW u \in Threads, u # t
               PROVE  EntryIsCurrent(u)' <=> EntryIsCurrent(u)
    OBVIOUS
  <2>1. self'[u] = self[u] /\ self[u].generation < nextGeneration
        /\ self[u].generation \in Nat /\ nextGeneration \in Nat
    BY <1>9 DEF RegistryInv, LocalsInv, UniqueInv, TypeOK
  <2>2. CASE self[u].index = i
    <3>1. ~EntryIsCurrent(u)
      BY <2>2, <1>5a DEF EntryIsCurrent
    <3>2. ~EntryIsCurrent(u)'
      BY <2>1, <2>2, <1>2, <1>5 DEF EntryIsCurrent
    <3> QED
      BY <3>1, <3>2
  <2>3. CASE self[u].index # i
    BY <2>1, <2>3, <1>5 DEF EntryIsCurrent
  <2> QED
    BY <2>2, <2>3
<1>12. EntryIsCurrent(t)' /\ ~SelfExecuting(t)'
  BY <1>2, <1>5, <1>9 DEF EntryIsCurrent, SelfExecuting
<1>13. BitInv'
  <2> SUFFICES ASSUME NEW u \in Threads, EntryIsCurrent(u)'
               PROVE  SelfExecuting(u)' <=> pc'[u] \in ExecutingAt
    BY DEF BitInv
  <2>1. CASE u = t
    BY <2>1, <1>1, <1>12 DEF ExecutingAt, TypeOK
  <2>2. CASE u # t
    <3>1. EntryIsCurrent(u) /\ self'[u] = self[u] /\ pc'[u] = pc[u]
      BY <2>2, <1>1, <1>9, <1>11 DEF TypeOK
    <3>2. self[u].index # i /\ self[u].index \in 1..Len(threads)
      BY <3>1, <1>5a DEF EntryIsCurrent
    <3> QED
      BY <3>1, <3>2, <1>5 DEF SelfExecuting, BitInv
  <2> QED
    BY <2>1, <2>2
<1>14. OwnedInv'
  BY <1>1, <1>11 DEF OwnedInv, TypeOK, CollectingAt
<1>15. CountMatchesBits'
  <2>1. ExecutingEntries' = ExecutingEntries
    BY <1>2, <1>5, <1>5a DEF ExecutingEntries
  <2> QED
    BY <2>1, <1>1 DEF CountMatchesBits
<1>16. FreeInv'
  <2>1. CASE reuse
    <3>1. \A k \in 1..(n - 1) : freeIndices[k] # i /\ k \in 1..n
      BY <2>1, <1>3, <1>4 DEF FreeInv, FreeListExact, n, i, reuse
    <3>2. \A k \in 1..Len(freeIndices') : freeIndices'[k] \in 1..Len(threads')
      BY <2>1, <1>5, <1>6, <3>1 DEF FreeInv, n
    <3>3. \A k, m \in 1..Len(freeIndices') :
              freeIndices'[k] = freeIndices'[m] => k = m
      BY <2>1, <1>6, <3>1 DEF FreeInv, FreeListExact, n
    <3>4. ASSUME NEW j \in 1..Len(threads')
          PROVE  ~threads'[j].live <=>
                   \E k \in 1..Len(freeIndices') : freeIndices'[k] = j
      <4>1. CASE j = i
        BY <4>1, <2>1, <1>2, <1>5, <1>6, <3>1
      <4>2. CASE j # i
        <5>1. j \in 1..Len(threads) /\ threads'[j] = threads[j]
          BY <4>2, <1>5
        <5>2. ~threads[j].live <=> \E k \in 1..n : freeIndices[k] = j
          BY <5>1 DEF FreeInv, FreeListExact, n
        <5>3. (\E k \in 1..n : freeIndices[k] = j)
                <=> (\E k \in 1..(n - 1) : freeIndices[k] = j)
          BY <4>2, <2>1, <1>3 DEF i
        <5> QED
          BY <5>1, <5>2, <5>3, <2>1, <1>6
      <4> QED
        BY <4>1, <4>2
    <3> QED
      BY <3>2, <3>3, <3>4 DEF FreeInv, FreeListExact
  <2>2. CASE ~reuse
    <3>1. freeIndices' = freeIndices /\ Len(freeIndices) = 0
      BY <2>2, <1>6 DEF n
    <3>2. \A j \in 1..Len(threads) : threads[j].live
      BY <3>1 DEF FreeInv, FreeListExact
    <3>3. \A j \in 1..Len(threads') : threads'[j].live
      BY <3>2, <1>2, <1>5
    <3> QED
      BY <3>1, <3>3 DEF FreeInv, FreeListExact
  <2> QED
    BY <2>1, <2>2
<1>17. StopInv' /\ NoTripwire'
  BY <1>1 DEF StopInv, NoTripwire, RegistryInv, LocalsInv
<1>18. OneCollectorPerStop'
  <2>1. Collectors' = Collectors
    BY <1>1 DEF Collectors, CollectingAt, TypeOK
  <2> QED
    BY <2>1, <1>1 DEF OneCollectorPerStop
<1> QED
  BY <1>8, <1>10, <1>13, <1>14, <1>15, <1>16, <1>17, <1>18

\* A thread that leaves retires its own entry, or nothing.
LEMMA UnregisterStep ==
    ASSUME IndInv, NEW t \in Threads, UnregisterThread(t)
    PROVE  IndInv'
<1> USE DEF IndInv
<1>1. CASE ~EntryIsCurrent(t)
  <2>1. /\ pc[t] = "idle"
        /\ pc' = [pc EXCEPT ![t] = "gone"]
        /\ UNCHANGED <<registry, arrivals, executingCount, stopActive, self,
                       tripped>>
    BY <1>1 DEF UnregisterThread, TokenIsStale, Goto, registry, arrivals
  <2>2. TypeOK'
    BY <1>1, <2>1
       DEF UnregisterThread, TypeOK, Locations, registry, arrivals, epochs, shared
  <2> QED
    BY <1>1, <2>1, <2>2, QuietStep DEF CollectingAt, Locations
<1>2. CASE EntryIsCurrent(t)
  <2> DEFINE i == self[t].index
  <2> DEFINE e == [threads[i] EXCEPT !.live = FALSE]
  <2> DEFINE n == Len(freeIndices)
  <2>1. /\ pc[t] = "idle"
        /\ pc' = [pc EXCEPT ![t] = "outside"]
        /\ tripped' = threads[i].executing
        /\ threads' = [threads EXCEPT ![i] = e]
        /\ freeIndices' = Append(freeIndices, i)
        /\ self' = [self EXCEPT ![t].index = 0]
        /\ UNCHANGED <<nextGeneration, requestEpoch, completedEpoch, stopCount,
                       expected, arrived, executingCount, stopActive, sleeping,
                       resume, handoff, waitEpoch, gil, pressure, resets>>
    BY <1>2 DEF UnregisterThread, TokenIsStale, SelfExecuting, Goto, epochs,
                arrivals, shared
  <2>2. i \in 1..Len(threads) /\ threads[i].live /\ ~threads[i].executing
        /\ i \in Nat /\ i # 0
    <3>1. i \in 1..Len(threads) /\ threads[i].live /\ i \in Nat
      BY <1>2 DEF EntryIsCurrent, TypeOK
    <3>2. ~threads[i].executing
      BY <1>2, <2>1 DEF BitInv, SelfExecuting, ExecutingAt
    <3> QED
      BY <3>1, <3>2
  <2>3. threads \in Seq(Entry) /\ threads[i] \in Entry /\ n \in Nat
        /\ freeIndices \in Seq(Nat) /\ Len(threads) \in Nat
    BY <2>2, ElementOfSeq, LenProperties DEF TypeOK
  <2>4. /\ e \in Entry /\ ~e.live
        /\ e.executing = threads[i].executing
        /\ e.generation = threads[i].generation
    BY <2>3 DEF Entry
  <2> HIDE DEF e
  <2>5. /\ threads' \in Seq(Entry)
        /\ Len(threads') = Len(threads)
        /\ threads'[i] = e
        /\ \A j \in 1..Len(threads) : j # i => threads'[j] = threads[j]
    BY <2>1, <2>2, <2>3, <2>4, ExceptSeq
  <2>6. /\ freeIndices' \in Seq(Nat)
        /\ Len(freeIndices') = n + 1
        /\ freeIndices'[n + 1] = i
        /\ \A k \in 1..n : freeIndices'[k] = freeIndices[k]
    BY <2>1, <2>2, <2>3, AppendProperties
  <2>7. /\ self' \in [Threads -> [index : Nat, generation : Nat]]
        /\ self'[t].index = 0
        /\ self'[t].generation = self[t].generation
        /\ \A u \in Threads : u # t => self'[u] = self[u]
    BY <2>1 DEF TypeOK
  <2>8. \A u \in Threads : u # t => /\ EntryIsCurrent(u)' <=> EntryIsCurrent(u)
                                    /\ EntryIsCurrent(u) => self[u].index # i
    <3> SUFFICES ASSUME NEW u \in Threads, u # t
                 PROVE  /\ EntryIsCurrent(u)' <=> EntryIsCurrent(u)
                        /\ EntryIsCurrent(u) => self[u].index # i
      OBVIOUS
    <3>1. EntryIsCurrent(u) => self[u].index # i
      BY <1>2, DistinctEntries
    <3>2. CASE self[u].index = i
      <4>1. ~EntryIsCurrent(u)'
        BY <3>2, <2>4, <2>5, <2>7 DEF EntryIsCurrent
      <4> QED
        BY <3>1, <3>2, <4>1
    <3>3. CASE self[u].index # i
      BY <3>3, <2>5, <2>7 DEF EntryIsCurrent
    <3> QED
      BY <3>1, <3>2, <3>3
  <2>9. ~EntryIsCurrent(t)'
    BY <2>7 DEF EntryIsCurrent
  <2> HIDE DEF i, n
  <2>10. TypeOK'
    <3>1. pc' \in [Threads -> Locations]
      BY <2>1 DEF TypeOK, Locations
    <3>2. tripped' \in BOOLEAN
      BY <2>1, <2>3 DEF Entry
    <3> QED
      BY <3>1, <3>2, <2>1, <2>5, <2>6, <2>7 DEF TypeOK
  <2>11. RegistryInv'
    <3>1. LocalsInv'
      BY <2>1, <2>3, <2>5, <2>7 DEF RegistryInv, LocalsInv, TypeOK
    <3>2. UniqueInv'
      BY <2>7 DEF RegistryInv, UniqueInv
    <3>3. \A j \in 1..Len(threads') : threads'[j].generation < nextGeneration'
      BY <2>1, <2>2, <2>4, <2>5 DEF RegistryInv
    <3> QED
      BY <3>1, <3>2, <3>3 DEF RegistryInv
  <2>12. BitInv'
    <3> SUFFICES ASSUME NEW u \in Threads, EntryIsCurrent(u)'
                 PROVE  SelfExecuting(u)' <=> pc'[u] \in ExecutingAt
      BY DEF BitInv
    <3>1. /\ u # t /\ EntryIsCurrent(u) /\ self[u].index # i
          /\ self'[u] = self[u] /\ pc'[u] = pc[u]
          /\ self[u].index \in 1..Len(threads)
      BY <2>1, <2>7, <2>8, <2>9 DEF TypeOK, EntryIsCurrent
    <3> QED
      BY <3>1, <2>5 DEF SelfExecuting, BitInv
  <2>13. OwnedInv'
    BY <2>1, <2>8 DEF OwnedInv, TypeOK, CollectingAt
  <2>14. CountMatchesBits'
    <3>1. ExecutingEntries' = ExecutingEntries
      BY <2>2, <2>4, <2>5 DEF ExecutingEntries
    <3> QED
      BY <3>1, <2>1 DEF CountMatchesBits
  <2>15. FreeInv'
    <3>1. \A k \in 1..n : freeIndices[k] # i
      BY <2>2 DEF FreeInv, FreeListExact, n
    <3>2. /\ \A k \in 1..n : freeIndices[k] \in 1..Len(threads)
          /\ \A k, m \in 1..n : freeIndices[k] = freeIndices[m] => k = m
      BY DEF FreeInv, FreeListExact, n
    <3>3. 1..Len(freeIndices') = (1..n) \cup {n + 1}
      BY <2>3, <2>6
    <3>4. \A k \in 1..Len(freeIndices') : freeIndices'[k] \in 1..Len(threads')
      BY <3>2, <3>3, <2>2, <2>5, <2>6
    <3>5. \A k, m \in 1..Len(freeIndices') :
              freeIndices'[k] = freeIndices'[m] => k = m
      BY <3>1, <3>2, <3>3, <2>6
    <3>6. ASSUME NEW j \in 1..Len(threads')
          PROVE  ~threads'[j].live <=>
                   \E k \in 1..Len(freeIndices') : freeIndices'[k] = j
      <4>1. CASE j = i
        BY <4>1, <3>3, <2>4, <2>5, <2>6
      <4>2. CASE j # i
        <5>1. j \in 1..Len(threads) /\ threads'[j] = threads[j]
          BY <4>2, <2>5
        <5>2. ~threads[j].live <=> \E k \in 1..n : freeIndices[k] = j
          BY <5>1 DEF FreeInv, FreeListExact, n
        <5>3. (\E k \in 1..Len(freeIndices') : freeIndices'[k] = j)
                <=> (\E k \in 1..n : freeIndices[k] = j)
          BY <4>2, <3>3, <2>6
        <5> QED
          BY <5>1, <5>2, <5>3
      <4> QED
        BY <4>1, <4>2
    <3> QED
      BY <3>4, <3>5, <3>6 DEF FreeInv, FreeListExact
  <2>16. StopInv' /\ NoTripwire'
    BY <2>1, <2>2, <2>10 DEF StopInv, NoTripwire, TypeOK
  <2>17. OneCollectorPerStop'
    <3>1. Collectors' = Collectors
      BY <2>1 DEF Collectors, CollectingAt, TypeOK
    <3> QED
      BY <3>1, <2>1 DEF OneCollectorPerStop
  <2> QED
    BY <2>10, <2>11, <2>12, <2>13, <2>14, <2>15, <2>16, <2>17
<1> QED
  BY <1>1, <1>2

\* A reset retires every entry; by SafeDetach nobody it leaves behind acts on
\* the registry unchecked.
LEMMA ResetStep ==
    ASSUME IndInv, DetachedAt \subseteq SafeDetach, Reset
    PROVE  IndInv'
<1> USE DEF IndInv
<1> DEFINE n == Len(threads)
<1>1. /\ \A t \in Threads : pc[t] \in {"outside", "gone"} \cup SafeDetach
      /\ threads' = [i \in 1..n |-> [threads[i] EXCEPT !.live = FALSE]]
      /\ freeIndices' = [i \in 1..n |-> n + 1 - i]
      /\ resets' = resets + 1
      /\ requestEpoch' = 0 /\ completedEpoch' = 0 /\ stopCount' = 0
      /\ expected' = 0 /\ arrived' = 0 /\ executingCount' = 0
      /\ stopActive' = FALSE
      /\ UNCHANGED <<nextGeneration, sleeping, self, resume, handoff,
                     waitEpoch, pc, gil, pressure, tripped>>
  BY DEF Reset, CountAfterReset, locals, shared
<1>2. n \in Nat /\ \A i \in 1..n : threads[i] \in Entry
  BY ElementOfSeq, LenProperties DEF TypeOK
<1>3. \A i \in 1..n : /\ [threads[i] EXCEPT !.live = FALSE] \in Entry
                      /\ ~[threads[i] EXCEPT !.live = FALSE].live
                      /\ [threads[i] EXCEPT !.live = FALSE].generation
                            = threads[i].generation
  BY <1>2 DEF Entry
<1>4. /\ threads' \in Seq(Entry)
      /\ Len(threads') = n
      /\ \A i \in 1..n : /\ ~threads'[i].live
                          /\ threads'[i].generation = threads[i].generation
  <2>1. threads' \in [1..n -> Entry]
    BY <1>1, <1>3
  <2>2. threads' \in Seq(Entry)
    BY <2>1, <1>2, IsASeq
  <2>3. Len(threads') = n
    BY <2>1, <2>2, <1>2, LenProperties
  <2> QED
    BY <2>2, <2>3, <1>1, <1>3
<1>5. /\ freeIndices' \in Seq(Nat)
      /\ Len(freeIndices') = n
      /\ \A k \in 1..n : freeIndices'[k] = n + 1 - k
  <2>1. freeIndices' \in [1..n -> Nat]
    BY <1>1, <1>2
  <2>2. freeIndices' \in Seq(Nat)
    BY <2>1, <1>2, IsASeq
  <2>3. Len(freeIndices') = n
    BY <2>1, <2>2, <1>2, LenProperties
  <2> QED
    BY <2>2, <2>3, <1>1
<1> HIDE DEF n
<1>6. TypeOK'
  <2>1. /\ resets' \in Nat /\ requestEpoch' \in Nat /\ completedEpoch' \in Nat
        /\ stopCount' \in Nat /\ expected' \in Nat /\ arrived' \in Nat
        /\ executingCount' \in Nat
    BY <1>1 DEF TypeOK
  <2>2. stopActive' \in BOOLEAN
    BY <1>1
  <2> QED
    BY <2>1, <2>2, <1>1, <1>4, <1>5 DEF TypeOK
<1>7. \A t \in Threads : ~EntryIsCurrent(t)'
  BY <1>4 DEF EntryIsCurrent
<1>8. RegistryInv'
  <2>1. LocalsInv' /\ UniqueInv'
    BY <1>1, <1>4 DEF RegistryInv, LocalsInv, UniqueInv, n
  <2>2. \A j \in 1..Len(threads') : threads'[j].generation < nextGeneration'
    BY <1>1, <1>4 DEF RegistryInv, n
  <2> QED
    BY <2>1, <2>2 DEF RegistryInv
<1>9. FreeInv'
  <2>1. \A k \in 1..Len(freeIndices') : freeIndices'[k] \in 1..Len(threads')
    BY <1>2, <1>4, <1>5
  <2>2. \A k, m \in 1..Len(freeIndices') :
            freeIndices'[k] = freeIndices'[m] => k = m
    BY <1>2, <1>5
  <2>3. ASSUME NEW i \in 1..Len(threads')
        PROVE  \E k \in 1..Len(freeIndices') : freeIndices'[k] = i
    <3>1. n + 1 - i \in 1..n /\ n + 1 - (n + 1 - i) = i
      BY <1>2, <1>4
    <3> QED
      BY <3>1, <1>5
  <2> QED
    BY <2>1, <2>2, <2>3, <1>4 DEF FreeInv, FreeListExact
<1>10. Collectors' = {} /\ BitInv' /\ OwnedInv'
  BY <1>1, <1>7 DEF Collectors, CollectingAt, SafeDetach, BitInv, OwnedInv
<1>11. CountMatchesBits'
  <2>1. ExecutingEntries' = {}
    BY <1>4 DEF ExecutingEntries
  <2> QED
    BY <2>1, <1>1, FS_EmptySet DEF CountMatchesBits
<1>12. StopInv' /\ NoTripwire' /\ OneCollectorPerStop'
  BY <1>1, <1>10 DEF StopInv, NoTripwire, OneCollectorPerStop
<1> QED
  BY <1>6, <1>8, <1>9, <1>10, <1>11, <1>12

-----------------------------------------------------------------------------
(* Opening and completing an epoch. *)

\* The initiator executes and is current, so neither check of
\* InitiateAndArrive fires and its snapshot counts itself.
LEMMA InitiateStep ==
    ASSUME IndInv, NEW t \in Threads, InitiateAndArrive(t)
    PROVE  IndInv'
<1>1. /\ pc[t] = "initiate" /\ EntryIsCurrent(t) /\ pc[t] \in ExecutingAt
      /\ tripped' = FALSE /\ stopActive' = TRUE /\ requestEpoch' \in Nat
  <2>1. pc[t] = "initiate" /\ stopActive' = TRUE
    BY DEF InitiateAndArrive
  <2>2. EntryIsCurrent(t) /\ pc[t] \in ExecutingAt
    BY <2>1 DEF IndInv, OwnedInv, ExecutingAt
  <2>3. SelfExecuting(t)
    BY <2>2 DEF IndInv, BitInv
  <2>4. tripped' = FALSE
    BY <2>2, <2>3 DEF InitiateAndArrive
  <2>5. requestEpoch' \in {requestEpoch, requestEpoch + 1}
    BY DEF InitiateAndArrive
  <2>6. requestEpoch' \in Nat
    BY <2>5 DEF IndInv, TypeOK
  <2> QED
    BY <2>1, <2>2, <2>4, <2>6
<1>2. UNCHANGED <<completedEpoch, stopCount, freeIndices, nextGeneration,
                  sleeping, self, handoff, waitEpoch, gil, pressure, resets>>
  BY DEF InitiateAndArrive, shared
<1>3. executingCount \in Nat /\ expected \in Nat /\ arrived \in Nat
  BY DEF IndInv, TypeOK
<1>4. CASE stopActive
  <2>1. FlipOffAndArrive(t, TRUE, expected, arrived, "await", "reenter")
    BY <1>4 DEF InitiateAndArrive
  <2>2. arrived + executingCount = expected
    BY <1>4 DEF IndInv, StopInv
  <2> QED
    BY <1>1, <1>2, <1>3, <2>1, <2>2, FlipOffStep
<1>5. CASE ~stopActive
  <2>1. FlipOffAndArrive(t, TRUE, executingCount, 0, "await", "reenter")
    BY <1>5 DEF InitiateAndArrive, Snapshot
  <2>2. 0 + executingCount = executingCount
    BY <1>3
  <2> QED
    BY <1>1, <1>2, <1>3, <2>1, <2>2, FlipOffStep
<1> QED
  BY <1>4, <1>5

\* The one collector ends the stop it was elected for.
LEMMA CompleteStep ==
    ASSUME IndInv, NEW t \in Threads, Complete(t)
    PROVE  IndInv'
<1> USE DEF IndInv
<1>1. /\ pc[t] = "complete"
      /\ pc' = [pc EXCEPT ![t] = "notify"]
      /\ stopActive' = FALSE
      /\ stopCount' = stopCount + 1
      /\ completedEpoch' \in {requestEpoch, completedEpoch}
      /\ UNCHANGED <<registry, requestEpoch, expected, arrived,
                     executingCount, sleeping, self, resume, handoff,
                     waitEpoch, gil, pressure, resets, tripped>>
  BY DEF Complete, Goto, locals, shared, arrivals
<1>2. TypeOK'
  <2>1. completedEpoch' \in Nat /\ stopCount' \in Nat
    BY <1>1 DEF TypeOK
  <2>2. pc' \in [Threads -> Locations]
    BY <1>1 DEF TypeOK, Locations
  <2>3. stopActive' \in BOOLEAN
    BY <1>1
  <2> QED
    BY <2>1, <2>2, <2>3, <1>1 DEF TypeOK, registry
<1>3. RegistryInv'
  <2>1. LocalsInv' /\ UniqueInv'
    BY <1>1 DEF RegistryInv, LocalsInv, UniqueInv, TypeOK, registry
  <2> QED
    BY <2>1, <1>1 DEF RegistryInv, registry
<1>4. FreeInv'
  BY <1>1 DEF FreeInv, FreeListExact, registry
<1>5. BitInv' /\ OwnedInv'
  BY <1>1 DEF BitInv, OwnedInv, EntryIsCurrent, SelfExecuting, ExecutingAt,
              CollectingAt, TypeOK, registry
<1>6. CountMatchesBits' /\ StopInv' /\ NoTripwire'
  BY <1>1 DEF CountMatchesBits, ExecutingEntries, StopInv, NoTripwire, registry
<1>7. OneCollectorPerStop'
  <2>1. Collectors' = {}
    BY <1>1 DEF OneCollectorPerStop, Collectors, CollectingAt, TypeOK
  <2> QED
    BY <2>1, <1>1 DEF OneCollectorPerStop
<1> QED
  BY <1>2, <1>3, <1>4, <1>5, <1>6, <1>7

-----------------------------------------------------------------------------
(* The invariant. *)

\* No thread is registered and nothing is counted before the first run.
LEMMA InitIndInv == Init => IndInv
<1> SUFFICES ASSUME Init PROVE IndInv
  OBVIOUS
<1> USE DEF Init
<1>1. TypeOK
  <2>1. threads \in Seq(Entry) /\ freeIndices \in Seq(Nat)
    OBVIOUS
  <2>2. self \in [Threads -> [index : Nat, generation : Nat]]
    OBVIOUS
  <2>3. /\ pc \in [Threads -> Locations]
        /\ resume \in [Threads -> {"leave", "reenter"}]
    BY DEF Locations
  <2>4. handoff \in [Threads -> BOOLEAN]
    OBVIOUS
  <2>5. waitEpoch \in [Threads -> Nat]
    OBVIOUS
  <2>6. /\ nextGeneration \in Nat \ {0}
        /\ requestEpoch \in Nat /\ completedEpoch \in Nat
        /\ expected \in Nat /\ arrived \in Nat
        /\ executingCount \in Nat /\ stopCount \in Nat /\ resets \in Nat
        /\ gil \in Threads \cup {NoThread} /\ sleeping \subseteq Threads
    OBVIOUS
  <2>7. stopActive \in BOOLEAN /\ pressure \in BOOLEAN /\ tripped \in BOOLEAN
    OBVIOUS
  <2> QED
    BY <2>1, <2>2, <2>3, <2>4, <2>5, <2>6, <2>7 DEF TypeOK
<1>2. RegistryInv
  BY DEF RegistryInv, LocalsInv, UniqueInv
<1>3. FreeInv
  BY DEF FreeInv, FreeListExact
<1>4. BitInv /\ OwnedInv
  BY DEF BitInv, OwnedInv, EntryIsCurrent, CollectingAt
<1>5. CountMatchesBits
  <2>1. ExecutingEntries = {}
    BY DEF ExecutingEntries
  <2> QED
    BY <2>1, FS_EmptySet DEF CountMatchesBits
<1>6. StopInv /\ NoTripwire /\ OneCollectorPerStop
  BY DEF StopInv, NoTripwire, OneCollectorPerStop, Collectors, CollectingAt
<1> QED
  BY <1>1, <1>2, <1>3, <1>4, <1>5, <1>6 DEF IndInv

\* Every step of a thread preserves the invariant, one case per action.
LEMMA StepIndInv ==
    ASSUME IndInv, NEW t \in Threads, Step(t)
    PROVE  IndInv'
<1> USE DEF epochs, arrivals, locals, shared, Goto
<1>1. CASE RegisterThread(t)
  BY <1>1, RegisterStep
<1>2. CASE UnregisterThread(t)
  BY <1>2, UnregisterStep
<1>3. CASE BeginExecuting(t)
  <2> USE <1>3
  <2>1. CASE EntryIsCurrent(t) /\ ~stopActive
    BY <2>1, FlipOnStep DEF BeginExecuting, BeginsAsZombie, WaitOut
  <2>2. CASE EntryIsCurrent(t) /\ stopActive
    <3>1. /\ pc[t] \in {"idle", "reenter"} /\ pc' = [pc EXCEPT ![t] = "begin"]
          /\ sleeping' = sleeping \cup {t}
          /\ UNCHANGED <<registry, arrivals, executingCount, stopActive, self,
                         tripped, epochs, locals, shared, resets>>
      BY <2>2 DEF BeginExecuting, BeginsAsZombie, WaitOut, SleepOnCv, registry
    <3>2. TypeOK'
      BY <3>1 DEF IndInv, TypeOK, Locations, registry
    <3> QED
      BY <2>2, <3>1, <3>2, QuietStep DEF ExecutingAt, CollectingAt, Locations
  <2>3. CASE ~EntryIsCurrent(t)
    <3>1. /\ pc[t] \in {"idle", "reenter"} /\ pc' = [pc EXCEPT ![t] = Resumed(t)]
          /\ UNCHANGED <<registry, arrivals, executingCount, stopActive, self,
                         tripped, epochs, locals, shared, resets, sleeping>>
      BY <2>3 DEF BeginExecuting, BeginsAsZombie, registry
    <3>2. Resumed(t) \in {"running", "regil"}
      BY DEF Resumed
    <3>3. TypeOK'
      BY <3>1, <3>2 DEF IndInv, TypeOK, Locations, registry
    <3> QED
      BY <2>3, <3>1, <3>2, <3>3, QuietStep DEF CollectingAt, Locations
  <2> QED
    BY <2>1, <2>2, <2>3
<1>4. CASE BeginExecutingWake(t)
  <2> USE <1>4
  <2>1. EntryIsCurrent(t) /\ pc[t] = "begin"
    BY DEF BeginExecutingWake, IndInv, OwnedInv
  <2>2. CASE ~stopActive
    BY <2>1, <2>2, FlipOnStep DEF BeginExecutingWake, WaitOut
  <2>3. CASE stopActive
    <3>1. TypeOK' /\ UNCHANGED <<registry, arrivals, executingCount, stopActive,
                                 self, pc, tripped>>
      BY <2>3 DEF BeginExecutingWake, WaitOut, SleepOnCv, IndInv, TypeOK, registry
    <3> QED
      BY <3>1, StillStep
  <2> QED
    BY <2>2, <2>3
<1>5. CASE StopExecuting(t)
  BY <1>5, EndExecutingStep DEF StopExecuting
<1>6. CASE Leave(t)
  <2>1. TypeOK'
    BY <1>6 DEF Leave, IndInv, TypeOK, Locations, registry
  <2> QED
    BY <1>6, <2>1, QuietStep DEF Leave, ExecutingAt, CollectingAt, Locations
<1>7. CASE CheckGCSafepoint(t)
  <2> USE <1>7
  <2>1. /\ pc[t] = "running"
        /\ UNCHANGED <<registry, arrivals, executingCount, stopActive, self,
                       tripped, epochs, sleeping, resume, waitEpoch, pressure,
                       resets>>
        /\ \/ /\ ~EntryIsCurrent(t) /\ pc' = [pc EXCEPT ![t] = "leave"]
              /\ UNCHANGED <<handoff, gil>>
           \/ /\ EntryIsCurrent(t) /\ HandOffGil(t)
              /\ \E l \in {"arrive", "initiate"} : pc' = [pc EXCEPT ![t] = l]
    BY DEF CheckGCSafepoint
  <2>2. TypeOK'
    BY <2>1 DEF HandOffGil, IndInv, TypeOK, Locations, registry
  <2> QED
    BY <2>1, <2>2, QuietStep DEF ExecutingAt, CollectingAt, Locations
<1>8. CASE SafepointArrive(t)
  BY <1>8, EndExecutingStep DEF SafepointArrive
<1>9. CASE InitiateAndArrive(t)
  BY <1>9, InitiateStep
<1>10. CASE WaitForCompletion(t)
  <2> USE <1>10
  <2>1. PICK l \in {"reenter", "wait"} : pc' = [pc EXCEPT ![t] = l]
    BY DEF WaitForCompletion
  <2>2. TypeOK'
    BY <2>1 DEF WaitForCompletion, IndInv, TypeOK, Locations, registry
  <2> QED
    BY <2>1, <2>2, QuietStep
       DEF WaitForCompletion, ExecutingAt, CollectingAt, Locations
<1>11. CASE WaitForCompletionWake(t)
  <2> USE <1>11
  <2>1. CASE Released(waitEpoch[t])
    <3>1. TypeOK'
      BY <2>1 DEF WaitForCompletionWake, IndInv, TypeOK, Locations, registry
    <3> QED
      BY <2>1, <3>1, QuietStep
         DEF WaitForCompletionWake, ExecutingAt, CollectingAt, Locations
  <2>2. CASE ~Released(waitEpoch[t])
    <3>1. TypeOK'
      BY <2>2 DEF WaitForCompletionWake, IndInv, TypeOK, registry
    <3> QED
      BY <2>2, <3>1, StillStep DEF WaitForCompletionWake
  <2> QED
    BY <2>1, <2>2
<1>12. CASE AssertAllArrived(t)
  <2> USE <1>12
  <2>1. t \in Collectors
    BY DEF AssertAllArrived, Collectors, CollectingAt
  <2>2. stopActive /\ arrived = expected
    BY <2>1 DEF IndInv, OneCollectorPerStop
  <2>3. tripped' = FALSE /\ tripped = FALSE
    BY <2>2 DEF AssertAllArrived, IndInv, NoTripwire, TypeOK
  <2>4. TypeOK'
    BY <2>3 DEF AssertAllArrived, IndInv, TypeOK, Locations, registry
  <2> QED
    BY <2>3, <2>4, QuietStep
       DEF AssertAllArrived, ExecutingAt, CollectingAt, Locations
<1>13. CASE CollectGarbage(t)
  <2>1. TypeOK'
    BY <1>13 DEF CollectGarbage, IndInv, TypeOK, Locations, registry
  <2> QED
    BY <1>13, <2>1, QuietStep
       DEF CollectGarbage, ExecutingAt, CollectingAt, Locations
<1>14. CASE Complete(t)
  BY <1>14, CompleteStep
<1>15. CASE NotifyAll(t)
  <2> USE <1>15
  <2>1. /\ pc[t] = "notify" /\ resume[t] \in {"leave", "reenter"}
        /\ pc' = [pc EXCEPT ![t] = resume[t]]
    BY DEF NotifyAll, IndInv, TypeOK
  <2>2. TypeOK'
    BY <2>1 DEF NotifyAll, IndInv, TypeOK, Locations, registry
  <2> QED
    BY <2>1, <2>2, QuietStep DEF NotifyAll, ExecutingAt, CollectingAt, Locations
<1>16. CASE SpuriousWake(t)
  <2>1. TypeOK'
    BY <1>16 DEF SpuriousWake, IndInv, TypeOK, registry
  <2> QED
    BY <1>16, <2>1, StillStep DEF SpuriousWake
<1>17. CASE AcquireGil(t)
  <2> USE <1>17
  <2>1. CASE pc[t] = "running"
    <3>1. TypeOK' /\ UNCHANGED <<registry, arrivals, executingCount, stopActive,
                                 self, pc, tripped>>
      BY <2>1 DEF AcquireGil, IndInv, TypeOK, registry
    <3> QED
      BY <3>1, StillStep
  <2>2. CASE pc[t] # "running"
    <3>1. TypeOK'
      BY <2>2 DEF AcquireGil, IndInv, TypeOK, Locations, registry
    <3> QED
      BY <2>2, <3>1, QuietStep
         DEF AcquireGil, ExecutingAt, CollectingAt, Locations
  <2> QED
    BY <2>1, <2>2
<1>18. CASE ReleaseGil(t)
  <2>1. TypeOK'
    BY <1>18 DEF ReleaseGil, IndInv, TypeOK, registry
  <2> QED
    BY <1>18, <2>1, StillStep DEF ReleaseGil
<1>19. CASE NoteGcPressure(t)
  <2>1. TypeOK'
    BY <1>19 DEF NoteGcPressure, IndInv, TypeOK, registry
  <2> QED
    BY <1>19, <2>1, StillStep DEF NoteGcPressure
<1> QED
  BY <1>1, <1>2, <1>3, <1>4, <1>5, <1>6, <1>7, <1>8, <1>9, <1>10, <1>11, <1>12,
     <1>13, <1>14, <1>15, <1>16, <1>17, <1>18, <1>19 DEF Step

\* Every step of the system does: Reset is the only one that needs the
\* assumption on where a carrier may have been abandoned.
LEMMA NextIndInv ==
    ASSUME IndInv, DetachedAt \subseteq SafeDetach, [Next]_vars
    PROVE  IndInv'
<1>1. CASE UNCHANGED vars
  <2>1. UNCHANGED <<registry, arrivals, executingCount, stopActive, self, pc,
                    tripped>>
    BY <1>1 DEF vars, locals
  <2>2. TypeOK'
    BY <1>1 DEF IndInv, TypeOK, vars, registry, epochs, arrivals, locals, shared
  <2> QED
    BY <2>1, <2>2, StillStep
<1>2. CASE Next
  <2>1. CASE \E t \in Threads : Step(t)
    BY <2>1, StepIndInv
  <2>2. CASE Reset
    BY <2>2, ResetStep
  <2>3. CASE Finished
    BY <2>3, <1>1 DEF Finished
  <2> QED
    BY <1>2, <2>1, <2>2, <2>3 DEF Next
<1> QED
  BY <1>1, <1>2

\* For any number of threads, stops and runs: as long as no carrier is
\* abandoned in the middle of a transition, IndInv holds in every state.
THEOREM Invariance ==
    ASSUME DetachedAt \subseteq SafeDetach
    PROVE  Spec => []IndInv
<1>1. IndInv /\ [Next]_vars => IndInv'
  BY NextIndInv
<1> QED
  BY <1>1, InitIndInv, PTL DEF Spec
-----------------------------------------------------------------------------
(* What the invariant means. *)

\* While somebody collects, the executing count is zero: the collector exists
\* only when all members of the snapshot have arrived.
LEMMA CollectorAlone ==
    ASSUME IndInv, Collectors # {}
    PROVE  executingCount = 0
BY DEF IndInv, OneCollectorPerStop, StopInv, TypeOK

\* A zero count means that no entry of the run has its bit set, so no thread
\* of the run is where bytecode executes.
LEMMA NobodyExecutes ==
    ASSUME IndInv, executingCount = 0, NEW u \in Threads, EntryIsCurrent(u)
    PROVE  pc[u] \notin ExecutingAt
<1>1. ExecutingEntries = {}
  BY EntriesFinite, FS_EmptySet DEF IndInv, CountMatchesBits
<1>2. self[u].index \notin ExecutingEntries
  BY <1>1
<1>3. ~SelfExecuting(u)
  BY <1>2 DEF ExecutingEntries, EntryIsCurrent, SelfExecuting
<1> QED
  BY <1>3 DEF IndInv, BitInv

\* The registry, the accounting and the per-thread state keep their types.
THEOREM TypeCorrect ==
    ASSUME DetachedAt \subseteq SafeDetach
    PROVE  Spec => []TypeOK
<1>1. IndInv => TypeOK
  BY DEF IndInv
<1> QED
  BY <1>1, Invariance, PTL

\* The rendezvous denominator is exact in every reachable state: EndExecuting,
\* BeginExecuting and Reset keep the count and the bits together.
THEOREM CountExact ==
    ASSUME DetachedAt \subseteq SafeDetach
    PROVE  Spec => []CountMatchesBits
<1>1. IndInv => CountMatchesBits
  BY DEF IndInv
<1> QED
  BY <1>1, Invariance, PTL

\* Stop-the-world: no registered thread of the run executes bytecode while the
\* elected last arriver collects.
THEOREM WorldIsStopped ==
    ASSUME DetachedAt \subseteq SafeDetach
    PROVE  Spec => []NoBytecodeDuringCollection
<1>1. IndInv => NoBytecodeDuringCollection
  <2> SUFFICES ASSUME IndInv, NEW t \in Collectors, NEW u \in Threads,
                      EntryIsCurrent(u)
               PROVE  pc[u] \notin ExecutingAt
    BY DEF NoBytecodeDuringCollection
  <2> QED
    BY CollectorAlone, NobodyExecutes
<1> QED
  BY <1>1, Invariance, PTL

\* Every stop whose members have all arrived has exactly one collector.
THEOREM ElectedOnce ==
    ASSUME DetachedAt \subseteq SafeDetach
    PROVE  Spec => []OneCollectorPerStop
<1>1. IndInv => OneCollectorPerStop
  BY DEF IndInv
<1> QED
  BY <1>1, Invariance, PTL

\* The free list of the registry holds each retired index exactly once.
THEOREM FreeListIsExact ==
    ASSUME DetachedAt \subseteq SafeDetach
    PROVE  Spec => []FreeListExact
<1>1. IndInv => FreeListExact
  BY DEF IndInv, FreeInv
<1> QED
  BY <1>1, Invariance, PTL

\* None of the fail-loud checks of the class terminates the process.
THEOREM NoTripwireFires ==
    ASSUME DetachedAt \subseteq SafeDetach
    PROVE  Spec => []NoTripwire
<1>1. IndInv => NoTripwire
  BY DEF IndInv
<1> QED
  BY <1>1, Invariance, PTL

\* A step moves one thread only.
LEMMA OneThreadMoves ==
    ASSUME IndInv, NEW u \in Threads, Step(u), NEW t \in Threads, t # u
    PROVE  pc'[t] = pc[t]
<1> USE DEF IndInv, TypeOK, Goto
<1>1. CASE RegisterThread(u) \/ UnregisterThread(u)
  BY <1>1 DEF RegisterThread, UnregisterThread
<1>2. CASE BeginExecuting(u) \/ BeginExecutingWake(u)
  BY <1>2 DEF BeginExecuting, BeginExecutingWake, FlipOn
<1>3. CASE StopExecuting(u) \/ SafepointArrive(u) \/ InitiateAndArrive(u)
  BY <1>3 DEF StopExecuting, SafepointArrive, InitiateAndArrive, EndExecuting,
              FlipOffAndArrive
<1>4. CASE Leave(u) \/ CheckGCSafepoint(u)
  BY <1>4 DEF Leave, CheckGCSafepoint
<1>5. CASE WaitForCompletion(u) \/ WaitForCompletionWake(u)
  BY <1>5 DEF WaitForCompletion, WaitForCompletionWake
<1>6. CASE AssertAllArrived(u) \/ CollectGarbage(u) \/ Complete(u) \/ NotifyAll(u)
  BY <1>6 DEF AssertAllArrived, CollectGarbage, Complete, NotifyAll
<1>7. CASE SpuriousWake(u) \/ AcquireGil(u) \/ ReleaseGil(u) \/ NoteGcPressure(u)
  BY <1>7 DEF SpuriousWake, AcquireGil, ReleaseGil, NoteGcPressure
<1> QED
  BY <1>1, <1>2, <1>3, <1>4, <1>5, <1>6, <1>7 DEF Step

\* What a thread does once its entry is not its own any more.
LEMMA ZombieStep ==
    ASSUME IndInv, NEW t \in Threads, Step(t),
           self[t].index # 0, ~EntryIsCurrent(t)
    PROVE  UNCHANGED <<threads, executingCount, expected, arrived>>
<1> USE DEF arrivals, registry
<1>1. pc[t] # "outside"
  BY DEF IndInv, RegistryInv, LocalsInv
<1>2. pc[t] \notin CollectingAt \cup {"begin", "initiate"}
  BY DEF IndInv, OwnedInv
<1>3. CASE UnregisterThread(t)
  BY <1>3 DEF UnregisterThread, TokenIsStale
<1>4. CASE BeginExecuting(t)
  BY <1>4 DEF BeginExecuting, BeginsAsZombie
<1>5. CASE StopExecuting(t) \/ SafepointArrive(t)
  BY <1>5 DEF StopExecuting, SafepointArrive, EndExecuting, EndsAsZombie
<1>6. CASE RegisterThread(t) \/ BeginExecutingWake(t) \/ InitiateAndArrive(t)
  BY <1>6, <1>1, <1>2 DEF RegisterThread, BeginExecutingWake, InitiateAndArrive
<1>7. CASE Leave(t) \/ CheckGCSafepoint(t)
  BY <1>7 DEF Leave, CheckGCSafepoint
<1>8. CASE WaitForCompletion(t) \/ WaitForCompletionWake(t)
  BY <1>8 DEF WaitForCompletion, WaitForCompletionWake
<1>9. CASE AssertAllArrived(t) \/ CollectGarbage(t) \/ Complete(t) \/ NotifyAll(t)
  BY <1>9 DEF AssertAllArrived, CollectGarbage, Complete, NotifyAll
<1>10. CASE SpuriousWake(t) \/ AcquireGil(t) \/ ReleaseGil(t) \/ NoteGcPressure(t)
  BY <1>10 DEF SpuriousWake, AcquireGil, ReleaseGil, NoteGcPressure
<1> QED
  BY <1>3, <1>4, <1>5, <1>6, <1>7, <1>8, <1>9, <1>10 DEF Step

\* The thread of a torn-down run leaves the next run's accounting alone, also
\* after its registry entry went to another thread.
THEOREM ZombiesAreHarmless ==
    ASSUME DetachedAt \subseteq SafeDetach
    PROVE  Spec => ZombieTouchesNothing
<1> DEFINE Harmless ==
      \A t \in Threads :
         (pc'[t] # pc[t] /\ self[t].index # 0 /\ ~EntryIsCurrent(t))
             => UNCHANGED <<threads, executingCount, expected, arrived>>
<1>1. IndInv /\ [Next]_vars => [Harmless]_vars
  <2> SUFFICES ASSUME IndInv, Next, NEW t \in Threads, pc'[t] # pc[t],
                      self[t].index # 0, ~EntryIsCurrent(t)
               PROVE  UNCHANGED <<threads, executingCount, expected, arrived>>
    OBVIOUS
  <2>1. PICK u \in Threads : Step(u)
    BY DEF Next, Reset, Finished, vars
  <2>2. u = t
    BY <2>1, OneThreadMoves
  <2> QED
    BY <2>1, <2>2, ZombieStep
<1> QED
  BY <1>1, Invariance, PTL DEF Spec, ZombieTouchesNothing
=============================================================================
