----------------------------- MODULE GcWorldStop -----------------------------
(***************************************************************************)
(* The stop-the-world rendezvous of the garbage collector                  *)
(* (src/vm/GcWorldStop.{h,cpp}) together with the protocol its callers     *)
(* follow: the safepoint (CheckGCSafepoint), the dispatch scope            *)
(* (ExecutingScope), the blocking native call, the debugger freeze, and    *)
(* the collection of the elected last arriver (CollectAndComplete).        *)
(*                                                                         *)
(* Every method of GcWorldStop is one critical section of its leaf mutex,  *)
(* hence one action.  The condition variable is the set of sleeping        *)
(* threads.  The global lock (GIL) is modelled too, because the rendezvous *)
(* only completes when nobody waits for it while holding that lock.        *)
(***************************************************************************)
EXTENDS Integers, Sequences, FiniteSets

CONSTANTS
    Threads,           \* OS threads that may evaluate bytecode
    NoThread,          \* value of gil when nobody holds the GIL
    MaxRegistrations,  \* bound on m_nextGeneration
    MaxStops,          \* bound on the epochs one run initiates
    MaxResets,         \* bound on VmScheduler::Reset calls (further runs)
    DetachedAt         \* where JoinAndCollect may abandon a carrier

Locations ==
    {"outside", "idle", "begin", "running", "arrive", "initiate", "await",
     "wait", "collect", "scan", "complete", "notify", "reenter", "regil",
     "leave", "gone"}

\* A carrier abandoned here holds no promise about the next run's rendezvous.
SafeDetach ==
    {"idle", "running", "arrive", "await", "wait", "notify", "reenter",
     "regil", "leave"}

ASSUME ConstantsAssumption ==
    /\ NoThread \notin Threads
    /\ MaxRegistrations \in Nat
    /\ MaxStops \in Nat
    /\ MaxResets \in Nat
    /\ DetachedAt \subseteq Locations \ {"outside", "gone"}

VARIABLES
    threads,         \* m_threads: the registry entries, never shrinks
    freeIndices,     \* m_freeIndices: retired entries, reused LIFO
    nextGeneration,  \* m_nextGeneration
    requestEpoch,    \* m_requestEpoch
    completedEpoch,  \* m_completedEpoch
    expected,        \* m_expected: executing threads when the stop began
    arrived,         \* m_arrived
    executingCount,  \* m_executingCount
    stopActive,      \* m_stopActive
    stopCount,       \* m_stopCount
    sleeping,        \* threads asleep on m_cv
    self,            \* thread locals t_selfEntry (0 = null), t_selfGeneration
    pc,              \* where each thread is in the protocol
    resume,          \* where the elected collector continues
    handoff,         \* thread gave up the GIL and takes it back on resuming
    waitEpoch,       \* the epoch WaitForCompletion captured at entry
    gil,             \* holder of the GIL
    pressure,        \* VmExecutor::m_gcPressure
    resets,          \* number of Reset calls so far
    tripped          \* a Tripwire terminated the process

registry == <<threads, freeIndices, nextGeneration>>
epochs == <<requestEpoch, completedEpoch, stopCount>>
arrivals == <<expected, arrived>>
locals == <<self, resume, handoff, waitEpoch>>
shared == <<gil, pressure>>
vars == <<registry, epochs, arrivals, executingCount, stopActive, sleeping,
          locals, pc, shared, resets, tripped>>

-----------------------------------------------------------------------------
(* The state before the first run. *)

Init ==
    /\ threads = <<>>
    /\ freeIndices = <<>>
    /\ nextGeneration = 1
    /\ requestEpoch = 0
    /\ completedEpoch = 0
    /\ expected = 0
    /\ arrived = 0
    /\ executingCount = 0
    /\ stopActive = FALSE
    /\ stopCount = 0
    /\ sleeping = {}
    /\ self = [t \in Threads |-> [index |-> 0, generation |-> 0]]
    /\ pc = [t \in Threads |-> "outside"]
    /\ resume = [t \in Threads |-> "leave"]
    /\ handoff = [t \in Threads |-> FALSE]
    /\ waitEpoch = [t \in Threads |-> 0]
    /\ gil = NoThread
    /\ pressure = FALSE
    /\ resets = 0
    /\ tripped = FALSE

Goto(t, l) == pc' = [pc EXCEPT ![t] = l]

\* The zombie discriminator: t's entry still carries t's own generation.
EntryIsCurrent(t) ==
    /\ self[t].index \in 1..Len(threads)
    /\ threads[self[t].index].live
    /\ threads[self[t].index].generation = self[t].generation

SelfExecuting(t) == threads[self[t].index].executing

\* BeginExecuting returns to a caller that may have to take the GIL back.
Resumed(t) == IF handoff[t] THEN "regil" ELSE "running"

-----------------------------------------------------------------------------
(* Registration. *)

RegisterThread(t) ==
    /\ pc[t] = "outside"
    /\ nextGeneration <= MaxRegistrations
    /\ LET reuse == freeIndices # <<>>
           i     == IF reuse THEN freeIndices[Len(freeIndices)]
                             ELSE Len(threads) + 1
           entry == [live |-> TRUE, executing |-> FALSE,
                     generation |-> nextGeneration]
       IN /\ threads' = IF reuse THEN [threads EXCEPT ![i] = entry]
                                 ELSE Append(threads, entry)
          /\ freeIndices' = IF reuse
                            THEN SubSeq(freeIndices, 1, Len(freeIndices) - 1)
                            ELSE freeIndices
          /\ self' = [self EXCEPT ![t] = [index |-> i,
                                          generation |-> nextGeneration]]
    /\ nextGeneration' = nextGeneration + 1
    /\ tripped' = (self[t].index # 0 /\ threads[self[t].index].live)
    /\ Goto(t, "idle")
    /\ UNCHANGED <<epochs, arrivals, executingCount, stopActive, sleeping,
                   resume, handoff, waitEpoch, shared, resets>>

\* Mutant: a stale token retires whatever entry now has its index.
TokenNeverStale(t) == FALSE

TokenIsStale(t) == ~EntryIsCurrent(t)

\* The owner's outermost exit.  A stale token identifies nothing: the thread
\* of a torn-down run simply ends.
UnregisterThread(t) ==
    /\ pc[t] = "idle" /\ ~handoff[t]
    /\ \/ /\ TokenIsStale(t)
          /\ Goto(t, "gone")
          /\ UNCHANGED <<threads, freeIndices, self, tripped>>
       \/ /\ ~TokenIsStale(t)
          /\ tripped' = SelfExecuting(t)
          /\ threads' = [threads EXCEPT ![self[t].index].live = FALSE]
          /\ freeIndices' = Append(freeIndices, self[t].index)
          /\ self' = [self EXCEPT ![t].index = 0]
          /\ Goto(t, "outside")
    /\ UNCHANGED <<nextGeneration, epochs, arrivals, executingCount,
                   stopActive, sleeping, resume, handoff, waitEpoch, shared,
                   resets>>

-----------------------------------------------------------------------------
(* Rule A: start executing. *)

\* Mutant: the bit goes on without the count.
NotCounted == executingCount

CountedOn == executingCount + 1

FlipOn(t) ==
    /\ threads' = [threads EXCEPT ![self[t].index].executing = TRUE]
    /\ executingCount' = CountedOn
    /\ Goto(t, Resumed(t))
    /\ UNCHANGED sleeping

SleepOnCv(t) ==
    /\ sleeping' = sleeping \cup {t}
    /\ UNCHANGED <<threads, executingCount>>

\* Mutants: Rule A without its wait, without its zombie check.
NeverWait == FALSE
NeverZombie(t) == FALSE

WaitOut == stopActive
BeginsAsZombie(t) == ~EntryIsCurrent(t)

\* Dispatch entry, return from a blocking native, end of a freeze, re-entry
\* after a stop.  The generation is checked once, before the wait.
BeginExecuting(t) ==
    /\ pc[t] \in {"idle", "reenter"}
    /\ \/ /\ BeginsAsZombie(t)
          /\ Goto(t, Resumed(t))
          /\ UNCHANGED <<threads, executingCount, sleeping>>
       \/ ~BeginsAsZombie(t) /\ WaitOut /\ SleepOnCv(t) /\ Goto(t, "begin")
       \/ ~BeginsAsZombie(t) /\ ~WaitOut /\ FlipOn(t)
    /\ UNCHANGED <<freeIndices, nextGeneration, epochs, arrivals, stopActive,
                   locals, shared, resets, tripped>>

\* The wait of BeginExecuting is over: re-test its predicate, nothing else.
BeginExecutingWake(t) ==
    /\ pc[t] = "begin" /\ t \notin sleeping
    /\ \/ WaitOut /\ SleepOnCv(t) /\ UNCHANGED pc
       \/ ~WaitOut /\ FlipOn(t)
    /\ UNCHANGED <<freeIndices, nextGeneration, epochs, arrivals, stopActive,
                   locals, shared, resets, tripped>>

-----------------------------------------------------------------------------
(* Rule B: stop executing, and the safepoint. *)

\* The bit goes off; under a stop that is the arrival, and the arrival that
\* completes the expected set elects its thread.
FlipOffAndArrive(t, active, expect, soFar, otherwise, continue) ==
    /\ threads' = [threads EXCEPT ![self[t].index].executing = FALSE]
    /\ executingCount' = executingCount - 1
    /\ expected' = expect
    /\ arrived' = IF active THEN soFar + 1 ELSE soFar
    /\ Goto(t, IF active /\ soFar + 1 = expect THEN "collect" ELSE otherwise)
    /\ resume' = [resume EXCEPT ![t] = continue]

\* Mutants: Rule B without its zombie check; parking is not an arrival.
EndsRegardless(t) == FALSE
NoArrival == FALSE

EndsAsZombie(t) == ~EntryIsCurrent(t)
IsArrival == stopActive

EndExecuting(t, otherwise, continue) ==
    \/ /\ EndsAsZombie(t)
       /\ Goto(t, otherwise)
       /\ UNCHANGED <<threads, executingCount, arrivals, resume, tripped>>
    \/ /\ ~EndsAsZombie(t)
       /\ tripped' = ~SelfExecuting(t)
       /\ FlipOffAndArrive(t, IsArrival, expected, arrived, otherwise,
                           continue)

\* ~ExecutingScope, ParkFramesForBlockingNative and EnterFreezePark: the
\* thread stops executing for good or for the length of a blocking section.
StopExecuting(t) ==
    /\ pc[t] = "running"
    /\ EndExecuting(t, "leave", "leave")
    /\ UNCHANGED <<freeIndices, nextGeneration, epochs, stopActive, sleeping,
                   self, handoff, waitEpoch, shared, resets>>

\* owner->Release() after the blocking native or the freeze has parked.
Leave(t) ==
    /\ pc[t] = "leave"
    /\ handoff' = [handoff EXCEPT ![t] = (gil = t)]
    /\ gil' = IF gil = t THEN NoThread ELSE gil
    /\ Goto(t, "idle")
    /\ UNCHANGED <<registry, epochs, arrivals, executingCount, stopActive,
                   sleeping, self, resume, waitEpoch, pressure, resets,
                   tripped>>

\* GilHandoffScope: a holder gives the GIL up for the whole sequence.
HandOffGil(t) ==
    /\ handoff' = [handoff EXCEPT ![t] = (gil = t)]
    /\ gil' = IF gil = t THEN NoThread ELSE gil

\* The poll of CheckGCSafepoint: a stop in flight is joined, memory pressure
\* initiates one, and a carrier of a torn-down run is ejected.  Inside a nested
\* evaluation the code suppresses the first two (NestDepth() > GcPollRootDepth()).
\* A thread of the model need not poll, which covers the suppressed polls; the
\* gate matters to fairness only (see Fairness).
CheckGCSafepoint(t) ==
    /\ pc[t] = "running"
    /\ \/ /\ ~EntryIsCurrent(t)
          /\ Goto(t, "leave")
          /\ UNCHANGED <<handoff, gil>>
       \/ EntryIsCurrent(t) /\ stopActive /\ HandOffGil(t) /\ Goto(t, "arrive")
       \/ /\ EntryIsCurrent(t) /\ ~stopActive
          /\ pressure /\ requestEpoch < MaxStops
          /\ HandOffGil(t) /\ Goto(t, "initiate")
    /\ UNCHANGED <<registry, epochs, arrivals, executingCount, stopActive,
                   sleeping, self, resume, waitEpoch, pressure, resets,
                   tripped>>

SafepointArrive(t) ==
    /\ pc[t] = "arrive"
    /\ EndExecuting(t, "await", "reenter")
    /\ UNCHANGED <<freeIndices, nextGeneration, epochs, stopActive, sleeping,
                   self, handoff, waitEpoch, shared, resets>>

\* Mutant: the snapshot is taken after the initiator flipped itself off.
SnapshotWithoutSelf == executingCount - 1

Snapshot == executingCount

\* The sole initiator opens the epoch and snapshots the executing count; a
\* second initiator joins the stop in flight.  Both arrive at once.
InitiateAndArrive(t) ==
    /\ pc[t] = "initiate"
    /\ tripped' = (~EntryIsCurrent(t) \/ ~SelfExecuting(t))
    /\ stopActive' = TRUE
    /\ requestEpoch' = IF stopActive THEN requestEpoch ELSE requestEpoch + 1
    /\ IF stopActive
       THEN FlipOffAndArrive(t, TRUE, expected, arrived, "await", "reenter")
       ELSE FlipOffAndArrive(t, TRUE, Snapshot, 0, "await", "reenter")
    /\ UNCHANGED <<freeIndices, nextGeneration, completedEpoch, stopCount,
                   sleeping, self, handoff, waitEpoch, shared, resets>>

Released(epoch) == completedEpoch >= epoch

WaitForCompletion(t) ==
    /\ pc[t] = "await"
    /\ waitEpoch' = [waitEpoch EXCEPT ![t] = requestEpoch]
    /\ IF Released(requestEpoch)
       THEN Goto(t, "reenter") /\ UNCHANGED sleeping
       ELSE Goto(t, "wait") /\ sleeping' = sleeping \cup {t}
    /\ UNCHANGED <<registry, epochs, arrivals, executingCount, stopActive,
                   self, resume, handoff, shared, resets, tripped>>

WaitForCompletionWake(t) ==
    /\ pc[t] = "wait" /\ t \notin sleeping
    /\ IF Released(waitEpoch[t])
       THEN Goto(t, "reenter") /\ UNCHANGED sleeping
       ELSE sleeping' = sleeping \cup {t} /\ UNCHANGED pc
    /\ UNCHANGED <<registry, epochs, arrivals, executingCount, stopActive,
                   locals, shared, resets, tripped>>

-----------------------------------------------------------------------------
(* The elected last arriver collects and completes the epoch. *)

AssertAllArrived(t) ==
    /\ pc[t] = "collect"
    /\ tripped' = ~(stopActive /\ arrived = expected)
    /\ Goto(t, "scan")
    /\ UNCHANGED <<registry, epochs, arrivals, executingCount, stopActive,
                   sleeping, locals, shared, resets>>

\* CollectGarbage: the root scan brackets itself with the GIL (a collector
\* that already holds it nests).  A collection that throws keeps pressure.
CollectGarbage(t) ==
    /\ pc[t] = "scan"
    /\ gil \in {NoThread, t}
    /\ pressure' \in {FALSE, pressure}
    /\ Goto(t, "complete")
    /\ UNCHANGED <<registry, epochs, arrivals, executingCount, stopActive,
                   sleeping, locals, gil, resets, tripped>>

Complete(t) ==
    /\ pc[t] = "complete"
    /\ completedEpoch' = IF requestEpoch > completedEpoch THEN requestEpoch
                                                          ELSE completedEpoch
    /\ stopActive' = FALSE
    /\ stopCount' = stopCount + 1
    /\ Goto(t, "notify")
    /\ UNCHANGED <<registry, requestEpoch, arrivals, executingCount, sleeping,
                   locals, shared, resets, tripped>>

\* Mutant: Complete does not notify.
NotifyNobody == {}

Notified == sleeping

\* m_cv.notify_all() runs after the leaf mutex was released.
NotifyAll(t) ==
    /\ pc[t] = "notify"
    /\ sleeping' = sleeping \ Notified
    /\ Goto(t, resume[t])
    /\ UNCHANGED <<registry, epochs, arrivals, executingCount, stopActive,
                   locals, shared, resets, tripped>>

SpuriousWake(t) ==
    /\ t \in sleeping
    /\ sleeping' = sleeping \ {t}
    /\ UNCHANGED <<registry, epochs, arrivals, executingCount, stopActive,
                   locals, pc, shared, resets, tripped>>

-----------------------------------------------------------------------------
(* Bytecode: store operations under the GIL, allocation raising pressure. *)

AcquireGil(t) ==
    /\ gil = NoThread
    /\ gil' = t
    /\ \/ pc[t] = "running" /\ UNCHANGED <<pc, handoff>>
       \/ /\ pc[t] = "regil"
          /\ Goto(t, "running")
          /\ handoff' = [handoff EXCEPT ![t] = FALSE]
    /\ UNCHANGED <<registry, epochs, arrivals, executingCount, stopActive,
                   sleeping, self, resume, waitEpoch, pressure, resets,
                   tripped>>

ReleaseGil(t) ==
    /\ pc[t] = "running" /\ gil = t
    /\ gil' = NoThread
    /\ UNCHANGED <<registry, epochs, arrivals, executingCount, stopActive,
                   sleeping, locals, pc, pressure, resets, tripped>>

NoteGcPressure(t) ==
    /\ pc[t] = "running" /\ gil = t
    /\ pressure' = TRUE
    /\ UNCHANGED <<registry, epochs, arrivals, executingCount, stopActive,
                   sleeping, locals, pc, gil, resets, tripped>>

-----------------------------------------------------------------------------
(* VmScheduler::Reset between two runs: every carrier has exited, or was   *)
(* detached by JoinAndCollect when its grace period ran out.               *)

\* Mutant: the executing count survives into the next run.
CountSurvives == executingCount

CountAfterReset == 0

Reset ==
    /\ resets < MaxResets
    /\ gil = NoThread
    /\ \A t \in Threads : pc[t] \in {"outside", "gone"} \cup DetachedAt
    /\ resets' = resets + 1
    /\ requestEpoch' = 0
    /\ completedEpoch' = 0
    /\ expected' = 0
    /\ arrived' = 0
    /\ executingCount' = CountAfterReset
    /\ stopActive' = FALSE
    /\ stopCount' = 0
    /\ threads' = [i \in 1..Len(threads) |-> [threads[i] EXCEPT !.live = FALSE]]
    /\ freeIndices' = [i \in 1..Len(threads) |-> Len(threads) + 1 - i]
    /\ UNCHANGED <<nextGeneration, sleeping, locals, pc, shared, tripped>>

\* Everyone has left: the process has nothing more to do in this instance.
Finished ==
    /\ \A t \in Threads : pc[t] \in {"outside", "gone"}
    /\ UNCHANGED vars

Step(t) ==
    \/ RegisterThread(t) \/ UnregisterThread(t)
    \/ BeginExecuting(t) \/ BeginExecutingWake(t)
    \/ StopExecuting(t) \/ Leave(t)
    \/ CheckGCSafepoint(t) \/ SafepointArrive(t) \/ InitiateAndArrive(t)
    \/ WaitForCompletion(t) \/ WaitForCompletionWake(t)
    \/ AssertAllArrived(t) \/ CollectGarbage(t) \/ Complete(t) \/ NotifyAll(t)
    \/ SpuriousWake(t)
    \/ AcquireGil(t) \/ ReleaseGil(t) \/ NoteGcPressure(t)

Next == ~tripped /\ ((\E t \in Threads : Step(t)) \/ Reset \/ Finished)

Spec == Init /\ [][Next]_vars

\* A carrier executing bytecode reaches its next effective safepoint, the
\* sections of the leaf mutex and the collection terminate, and a thread that
\* keeps asking for the GIL gets it.  Nothing obliges a thread to start
\* executing again.  The first is an assumption about programs too: polls
\* inside a nested evaluation (a toString override, a host callback) are
\* suppressed until it returns or parks, so one that loops for ever keeps a
\* stop waiting for ever.
Fairness ==
    \A t \in Threads :
        /\ WF_vars(CheckGCSafepoint(t))
        /\ WF_vars(SafepointArrive(t)) /\ WF_vars(InitiateAndArrive(t))
        /\ WF_vars(WaitForCompletion(t)) /\ WF_vars(WaitForCompletionWake(t))
        /\ WF_vars(BeginExecutingWake(t))
        /\ WF_vars(AssertAllArrived(t)) /\ SF_vars(CollectGarbage(t))
        /\ WF_vars(Complete(t)) /\ WF_vars(NotifyAll(t))
        /\ SF_vars(pc[t] = "regil" /\ AcquireGil(t))
        /\ WF_vars(ReleaseGil(t)) /\ WF_vars(Leave(t))

FairSpec == Spec /\ Fairness

-----------------------------------------------------------------------------
(* Properties. *)

Entry == [live : BOOLEAN, executing : BOOLEAN, generation : Nat]

\* Type invariant of the registry, the accounting and the per-thread state.
TypeOK ==
    /\ threads \in Seq(Entry)
    /\ freeIndices \in Seq(Nat)
    /\ nextGeneration \in Nat \ {0}
    /\ requestEpoch \in Nat /\ completedEpoch \in Nat
    /\ expected \in Nat /\ arrived \in Nat
    /\ executingCount \in Nat
    /\ stopActive \in BOOLEAN
    /\ stopCount \in Nat
    /\ sleeping \subseteq Threads
    /\ self \in [Threads -> [index : Nat, generation : Nat]]
    /\ pc \in [Threads -> Locations]
    /\ resume \in [Threads -> {"leave", "reenter"}]
    /\ handoff \in [Threads -> BOOLEAN]
    /\ waitEpoch \in [Threads -> Nat]
    /\ gil \in Threads \cup {NoThread}
    /\ pressure \in BOOLEAN
    /\ resets \in Nat
    /\ tripped \in BOOLEAN

\* Where a thread's executing bit is set, and where it is the collector.
ExecutingAt == {"running", "arrive", "initiate", "regil"}
CollectingAt == {"collect", "scan", "complete"}
Collectors == {t \in Threads : pc[t] \in CollectingAt}
ExecutingEntries ==
    {i \in 1..Len(threads) : threads[i].live /\ threads[i].executing}

\* The rendezvous denominator counts exactly the live entries whose executing
\* bit is set, across parks, native calls, zombies and resets: one unit too
\* many and no stop of the run ever completes, one too few and the collector
\* runs beside bytecode (BeginExecuting, EndExecuting, Reset).
CountMatchesBits == executingCount = Cardinality(ExecutingEntries)

\* While the elected thread collects, no registered thread of the run
\* executes bytecode, whatever mix of safepoints, blocking natives and
\* initiations brought the threads there (CollectAndComplete is lock-free).
NoBytecodeDuringCollection ==
    \A t \in Collectors, u \in Threads :
        EntryIsCurrent(u) => pc[u] \notin ExecutingAt

\* The last arrival elects one collector and a stop with all arrivals in is
\* never left without one (the result of EndExecuting/InitiateAndArrive).
OneCollectorPerStop ==
    /\ \A t, u \in Collectors : t = u
    /\ (stopActive /\ arrived = expected) <=> (Collectors # {})

\* No fail-loud check of the class fires (GcWorldStop::Tripwire).
NoTripwire == ~tripped

\* The free list holds each retired index once and no live one, so that two
\* registrations never share an entry (RegisterThread, UnregisterThread,
\* Reset).
FreeListExact ==
    /\ \A i \in 1..Len(threads) :
          ~threads[i].live <=> \E k \in 1..Len(freeIndices) : freeIndices[k] = i
    /\ \A k, l \in 1..Len(freeIndices) :
          freeIndices[k] = freeIndices[l] => k = l

\* The thread of a torn-down run is in no denominator: whatever it still calls
\* leaves the registry and the accounting of the next run alone, also when
\* its entry's index was handed to another thread (GcWorldStop.h, "Zombie
\* tolerance").
ZombieTouchesNothing ==
    [][\A t \in Threads :
          (pc'[t] # pc[t] /\ self[t].index # 0 /\ ~EntryIsCurrent(t))
              => UNCHANGED <<threads, executingCount, expected, arrived>>]_vars

\* Liveness: every stop in flight completes, although its members may hold
\* the GIL, wait for it, or sit in a blocking native when it begins.
StopCompletes == stopActive ~> ~stopActive

\* Liveness: a thread of the run that waits for a stop, to resume or to start
\* executing, does not wait forever, even when the next stop is initiated
\* before it got to re-test its predicate.
WaitersReleased ==
    \A t \in Threads :
        (EntryIsCurrent(t) /\ pc[t] \in {"wait", "begin"})
            ~> (~EntryIsCurrent(t) \/ pc[t] \notin {"wait", "begin"})
=============================================================================
