# Verification of the NLang virtual machine's concurrency core

NLang is a compiled language with a bytecode virtual machine.  Programs spawn
lightweight *contexts* that the VM multiplexes over a pool of *carrier* threads,
with a stop-the-world garbage collector, timers, futures and promises, mutexes,
semaphores, channels, lazy static initialization, nested evaluation, sockets over an
I/O poller, and a debugger.  This directory holds TLA+ models of the protocols that
make this work, the TLC instances that check them and TLAPS proofs.  Paths below are
relative to the repository; `V/` stands for `src/vm/` and `N/` for `src/native/net/`.

## 1. Inventory

| Component | State it keeps | Operations | What must hold |
|---|---|---|---|
| GC world stop (`V/GcWorldStop.*`) | registry of threads with generation and executing bit, free list, stop epochs, arrivals, executing count, condition variable | RegisterThread, UnregisterThread, BeginExecuting, EndExecuting, InitiateAndArrive, WaitForCompletion, AssertAllArrived, Complete, Reset | nobody executes while one collects; one collector per stop; every stop ends; threads of an earlier run disturb nothing |
| GC driver (`V/VmExecutorGC.cpp`) | pressure flag | safepoint poll, collection, re-entry | a safepoint never waits with the lock the collector needs |
| Context scheduler (`V/VmScheduler*.cpp`) | context table, run queue, timers, held mirror, idle/active/blocked counts, stop flag | register, pop, park, wake, expire, stop, deadlock report | one dispatch per context, no lost wake, true deadlock reports |
| Carrier pool and loop (`V/VmCarrierPool.cpp`, `V/VmExecutor.cpp`, `V/VmExecutorFailure.cpp`) | auxiliary error slot, exit flags | launch, loop, record error, join with grace period | the host learns how the run ended |
| thread / Future / Promise (`V/Intrinsics{Thread,Future,Promise}.cpp`) | fields of the context | spawn, yield, sleep, join, get, selectAny, complete | first completion wins; result before resumption |
| Blocking natives (`V/VmExecutorBlockingNative.cpp`) | stolen frames, blocked count | enter, return, shutdown exit | carrier and context stay together |
| Mutex, ReentrantMutex, Semaphore (`V/IntrinsicsMutex.cpp`, `V/IntrinsicsSemaphore.cpp`) | owner, count, FIFO of waiters with a phase | lock, tryLock, unlock, acquire, release | no grant lost, none taken twice |
| Channel (`V/IntrinsicsChannel.cpp`) | buffer, senders, receivers, closed | send, recv, close | FIFO, nothing lost or duplicated |
| Lazy static initialization (`V/VmExecutorOpsStaticInit.cpp`) | phase, owner and waiters per class and slot | gate, done, fail, release claims | one initializer at a time, no waiter stranded |
| Nested pump (`V/VmExecutorPump.cpp`) | pump token, pinned contexts | pump, serve | a pinned context runs on its pump only |
| I/O waits (`V/VmSchedulerIo.cpp`, `V/IoPoller*`) | interest table, registrations | park, poll, wake, close | no lost readiness, no stale registration |
| Debugger (`V/DebugSessionController.*`, `V/VmExecutorFreeze.cpp`) | freeze depth, focus context, session state | freeze, step, resume | no dispatch under a freeze, no starvation by a stale focus |
| Sockets (`N/net_slots.cpp`, `N/net_tcp.cpp`, `N/net_tcp_connect.cpp`) | slots with generation, closed flag, a waiter per direction and a write offset; free list; connects in flight | bind, connect, accept, read, write, close | one call per direction; no claim, descriptor or byte lost; the descriptor outlives its calls |
| Work pool (`V/VmWorkPool.cpp`) | two queues, threads, shutdown flag | submit, run, shutdown | what was submitted before shutdown runs |
| Linker, loader, package format (`V/Ncu*`) | none beyond the call | merge, remap, load | index remapping is consistent |
| Compiler, runtime nodes, language service, tools, IDE, other native libraries, embedding API, standard library | syntax trees, files, sockets | sequential | not protocol code |

**How they interact.**  The scheduler lock (the "GIL" of the sources) guards the
scheduler; `GcWorldStop` has a leaf mutex; the Sync domain lock guards the mutex,
semaphore and channel tables and is never held together with the scheduler lock; the
socket table and the debug controller have mutexes of their own, the former held
around the scheduler lock when a call parks.  A
carrier pops a context, declares itself executing to `GcWorldStop`, and runs
bytecode with no lock held; each intrinsic takes the locks it needs.  Parking is an
exception (`ParkSignal`) that unwinds to the carrier loop after the intrinsic has
already published the parked state.  The timer thread, the poller thread, other
carriers and natives change the same tables in the meantime.  A nested window cannot
unwind to the carrier loop (C++ frames are below it), so its carrier pumps the queue
itself until the window is done.

**What is hard.**  The window between "state says parked" and "frames have
landed"; ends of contexts that take three critical sections; the arithmetic of the
deadlock report; threads that a finished run leaves behind; the two-lock handshake
of the synchronization primitives and channels; stops that meet threads in natives, in
waits and at the lock; three gates in front of one queue and four ways to be told
about it; natives that are abandoned at a park and start again from their first line.  `PROJECT.json` lists each hazard at its line, with the properties
that would catch it.

## 2. Modules

| Module | Models |
|---|---|
| `GcWorldStop` | rendezvous, safepoint protocol, lock handoff, per-run reset |
| `GcWorldStopProofs` | inductive invariant and the theorems about `GcWorldStop` |
| `VmDispatchProofs`, `VmOutcomeProofs`, `VmGateProofs` | the same for `VmRuntime`: where every context is; how contexts end; the gates before the queue |
| `VmStaticInitProofs`, `NetSocketsProofs`, `VmChannelProofs` | the same for `VmStaticInit`, `NetSockets` and `VmChannel`, with the refinement of `BoundedChannel` |
| `SequenceLemmas` | lemmas about queues and counts that these proofs share |
| `VmScheduler` | scheduler with its three gates, carrier loop and pool, thread/Future/Promise, natives, timers |
| `VmSync` | mutexes and semaphores; parks and wakes act on the scheduler's own state |
| `VmPump` | nested windows, pump tokens and pins |
| `VmIo` | natives parked for I/O, the poller thread, the wakes of a close |
| `VmDebug` | checkpoints, freeze windows, step focus |
| `VmRuntime` | the composition: EXTENDS the four above, one next-state relation over one scheduler |
| `VmPark` | the park and wake sections alone, without carriers: what a primitive sees of the scheduler |
| `VmChannel` | channels, on `VmPark` |
| `BoundedChannel` | the abstract specification `VmChannel` implements |
| `VmStaticInit` | class and static-local gates, on `VmPark` |
| `NetSockets` | TCP sockets over the poller: slot table, claims, parks, close, registrations |
| `MCGcWorldStop`, `MCVmScheduler`, `MCVmRuntime`, `MCVmChannel`, `MCVmStaticInit`, `MCNetSockets` | TLC instances |

### GcWorldStop

One action per method of the class, since each is one section of its mutex.
`pc[t]` says where a thread is in the protocol of its caller (safepoint, dispatch
scope, native call, freeze).  `sleeping` is the condition variable, with spurious
wakes (`SpuriousWake`).  `gil` is the scheduler lock, because a rendezvous can only
complete if nobody waits in it while holding that lock (`HandOffGil`,
`AcquireGil`).  Marking and sweeping are one step.  `Reset` starts another run;
threads of the previous one that `JoinAndCollect` detached keep their tokens and
their place, and go on taking steps.  The constant `DetachedAt` says at which points
of the protocol a thread may have been detached.

### VmScheduler

One action per critical section of the scheduler lock; a handler that takes the
lock several times is several actions, and `pc[k]` of the carrier says which section
comes next.  The end of a context is `Finish`, `DeliverJoinResults`,
`WakeAfterFinish`; a park is `ParkForJoin` (or timer, selectAny) and then
`ParkContextFrames`; the timer thread is `TimerExpire` and then `TimerNotify`,
because it notifies after releasing the lock.  A promise's completion is one
action, because its dispatch arm holds the lock across check, decision, delivery and
wake.  `frames[c]` says where a context's frames are, `running[k]` is the carrier's
own variable and `held[k]` the scheduler's mirror of it.  Natural-number counters
are the code's counters, not derived from the state: `CountersExact` is a property.

Abstractions: values and exception objects are Booleans (a result destination is
filled or not, an exception object exists or not); the clock is left out, any
sleeper may be due at any time and due ones are queued in any order; the quota is
left out, a running context may meet its quota point at any time; `Orders` covers
the deadline order, `InIdOrder` the table order of the wake loops.  The affinity hit
and miss counters, contention statistics and the run-end report are left out.  An
unchecked error (`FailContextFatal`) may happen at any point of a running context.

The dispatch of `PopNextRunnable` is `TakeNext`, `StopAtPop`, `ReportDeadlock` and the
three waits (`WaitAtFreezeGate`, `WaitForHeldFocus`, `Sleep`); a sleeper that is
notified evaluates the predicate of its own wait (`MayProceed`) and either goes on with
the whole section or sleeps again.  What the gates read (pins, tokens, focus, freeze
depth, interest table) is declared here and changed by the modules on top.  A
*program* is a set of operations and of carriers, chosen in the initial state, so that
one run of TLC covers several kinds of programs without paying for their product.

### VmSync

The three sections of a blocking call are `WaitForLock`/`WaitForPermit` (register,
Sync lock), `Migrate` (mark parked, scheduler lock) and `Recheck` (Sync lock), the
last followed by `AbortPark` when the grant came in between.  `Unlock` and `Release`
decide under the Sync lock and `WakeNewOwner` wakes under the scheduler lock.
`tryLock` and `tryAcquire` are the immediate arms; their refusals change nothing.
The owner's handle, an uninitialized instance and an unlock by a non-owner raise
errors before any state changes; a context that dies of them is `Fatal` in
`VmScheduler`.  Reuse of a collected primitive's slot is left out.

### VmPump, VmIo, VmDebug

`VmPump`: `OpenWindow` begins a nested evaluation on the carrier's own stack; if it
parks, `StartPump` mints a token, pins the context to it and puts it in the carrier's
slot, and the slice and every dispatch of the pump are the scheduler's own actions.
`LeaveWindow` is the destructor that undoes the three, on the normal way out
(`CloseWindow`) and while an error or a stop unwinds (`UnwindWindow`, `Perish`).  The
history variable `wrecked` marks contexts whose suspended window was torn down.  The
assumption `WindowsDoNotFail` is there for one path: main's exception, served by the pump
of another context, unwinds through that context's window (`V/VmExecutorPump.cpp:41`).  It
keeps out more than that path: no program has both windows and contexts that fail with an
exception, because the model does not choose which context fails.  Fatal errors, inside and
outside of windows, are modelled.

`VmIo`: a native in its system call may ask to park (`ParkForIo`); the carrier then
unwinds instead of resuming the frames, the poller or a close wakes the context and
arms it, and the native starts again (`RetryIo`).  Descriptors, events and deadlines
are one choice here; `NetSockets` tells them apart.  The assumption `NoIoParkInWindows` of
`VmRuntime` keeps windows and I/O parks in different programs (section 4).

`VmDebug`: a checkpoint either goes straight to `ReadFocus`/`SetDebugFocusContext` or
first through the freeze bracket; the controller's mutex and the scheduler's lock are
different sections, so what is read under one can be stale under the other.  Which
statement stops is a free choice, so are the front end's commands.

### VmPark, VmChannel, VmStaticInit

`VmPark` has the scheduler's park and wake sections with a carrier for every context:
`VmSync` in `VmRuntime` shows the handshake with the real queue, these modules spend
their states on the primitive.  `VmChannel` has one action per section of the Sync
lock or the scheduler lock: register, mark parked, recheck, and a list of wakes still
to be sent.  `BoundedChannel` decides every call atomically; the mapping reads the
abstract line of waiters from the live entries and the abstract outcome from the
stamps, cells and reports of the calls (`ImplementsBoundedChannel`).  Values are
distinguishable, so order, loss and duplication are visible.  `VmStaticInit` has one
action per atomic load, swap or store of a gate walk, the waiters' mutex sections, the
initializer's store and its end by Done, by Fail and by the death of its context.

### NetSockets

One action per section of the table's mutex, per section of the scheduler lock and per
system call outside both; `call[c]` holds what the native has on its stack.  A parked
call loses that stack and is started over when it is woken, with the claim and the
write offset it left in the slot.  Bytes are counted, not distinguished; the kernel
takes any number of them; readiness, errors and deadlines are free choices; a closed
descriptor's number may be handed out at once.  The users are spawned contexts (see the
remark on main in section 4).

## 3. Runs

| Run | Instance | Shows |
|---|---|---|
| `gc_runs` | 3 threads, 2 runs with a stop each, symmetric threads, detached anywhere but in BeginExecuting's wait, an initiation or a collection | types; no bytecode during a collection; one collector per stop and none missing; the executing count, the free list and the tripwires survive the threads of the first run; these touch nothing |
| `gc_live` | 2 threads, 2 stops, fair | every stop completes; every waiter is released, also when the next stop catches it asleep |
| `gc_zombie_flip` | 2 threads, 2 runs, detached in BeginExecuting's wait too | **violated**: finding 1 |
| `sched_safety` | `VmRuntime`, 2 carriers.  3 contexts: promises, failures and get or selectAny; sleep, natives and fatal errors; natives, joins and fatal errors; windows with joins and fatal errors; windows with natives; a mutex; a semaphore; a reentrant mutex (3 carriers).  2 contexts: get with selectAny; sleep with joins; the debugger; natives that park for I/O; a mutex with a semaphore | one dispatch per context; no lost wake; joiners of decided targets have a waker; results before resumption; counters exact; work, gates and stop announced; no silent hang and deadlock reports true; a parked native has exactly one waker; the host's outcome true; windows come home; freeze windows one at a time and no dispatch before the last has closed; no grant lost, taken twice or returned without, so wakes land on the right park; nobody waits for what is free |
| `sched_live` | 3 contexts, 2 carriers; sleep or get; fair | queued contexts are dispatched; sleepers and waiters for decided contexts resume |
| `sched_end` | 2 contexts that compute, 2 carriers; fair | **violated**: finding 2 |
| `pump_deadlock` | 2 contexts that join from windows, 2 carriers | **violated**: finding 3 |
| `pump_nested` | 2 contexts that yield in windows, 2 windows per carrier | **violated**: finding 4 |
| `channel` | 3 contexts, 2 values, unbounded and one place | refinement of `BoundedChannel`; waiters only face an empty buffer; one wake per park, to its addressee |
| `static_init` | 3 contexts, a class and a static local, one failure; fair | one initializer; nobody passes without a value or being the owner; waiters resume |
| `sockets` | 3 users in six sets of roles, 2 descriptors, 3 sockets per behaviour | one call per direction; claims, descriptors and waiters accounted for; writes resume where they stopped; interests registered, where no connect fails |
| `sockets_close` | a writer, a reader and a closer of one stream | **violated**: finding 5 |

**Why the bounds are enough.**  Every protocol here is between few parties: a parker,
a waker and a third that acts in the window between them.  Three contexts on two
carriers give all three, with one context always off the carriers, so that queueing,
preemption and idle waits all occur.  The programs of `sched_safety` with two contexts only
(a field of the program bounds them) are those where the third party is not a context, the
poller or the front end of the debugger, and the larger mixtures of operations; all
invariants of that run are also proved for any number of contexts and carriers, under the
hypotheses section 5 lists.  The auxiliary carriers are interchangeable and
symmetric (so are threads, users and descriptors in the other instances; the liveness
runs use no symmetry).  `sched_safety` has one window per carrier, enough for a pump that
serves others and is stopped; what pumps that nest do is finding 4 and a remark below it,
and `WindowsComeHome` is claimed for the smaller case only.  The late-wake defect that the
comment on `IntrinsicMutexUnlock` reports "at >= 3 carriers" needs three; the program with
the reentrant mutex has three, and reintroducing the wake of a stamped entry makes TLC reproduce that defect.  The GC
instance needs an initiator, an arriver and a thread that begins or leaves in
between, and `gc_live` two stops, so that a waiter of the first can meet the second; the
proofs of section 5 extend the safety part to any number of each.
`AFFINITY_SCAN_WINDOW` is 8 where fairness is the question, so the whole queue is
scanned as in any program with few contexts, and 2 in the safety runs, so entries
beyond the window occur.  A channel with one place is full after one send and its
buffer, line of senders and line of receivers are all reached with three contexts; the
unbounded one never makes senders wait.  Three sockets on two descriptors and slots: a
number is handed out again while another context waits on the other one; two bytes make a
partial write.  Named bounds: `MaxContexts` (and `contexts` of a program), `MaxWindows`,
`MaxRegistrations`, `MaxStops`, `MaxResets`, `MaxPermits`, `MaxHold`, `MaxBuffered`,
`MaxFailures`, `MaxSlots`, `MaxOpens`.  Deadlock is not checked where a program may
rightly end up waiting for itself (channel, static initialization, sockets) or where a
suspended window hides the report (finding 3).

**Fairness.**  `GcWorldStop`: a thread executing bytecode reaches its next safepoint
(back edges and calls poll).  The code suppresses these polls inside a nested evaluation
(`NestDepth() > GcPollRootDepth()`, `V/VmExecutorGC.cpp:37-39`), so this assumes that
nested evaluations return or park: a `toString` override that loops for ever keeps a stop
waiting for ever, and `StopCompletes` and `WaitersReleased` do not speak of it.  Sections of the mutex and the collection terminate; a
thread that keeps asking for the scheduler lock gets it (strong fairness, the lock is
contended).  Nothing makes a thread start executing.  `VmScheduler`: carriers go on
inside the loop (weak fairness per carrier); a running context meets its quota point
infinitely often (strong fairness of `Preempt`, which needs queued work); the timer
thread serves each sleeper (strong fairness per sleeper).  Nothing makes a context
return, a native come back or a promise be completed.  `VmChannel`: a call that need
not wait goes on, a wake that is to be sent is sent.  `VmStaticInit`: the same, and an
initializer ends (by return, failure or death); two that wait for each other in a
cycle are exempt.  The liveness instances therefore
have no natives, and the conclusions are released by the stop, after which the code
drops what is parked.  Idle carriers are not woken spuriously: `m_runQueueCv` is waited
on with a predicate, and a spurious wake is `SleepAgain` without a notification.

## 4. Findings

1. **A detached thread can corrupt the next run's executing count**
   (`gc_zombie_flip`, `V/GcWorldStop.cpp:98`).  `BeginExecuting` checks its
   generation, waits out an active stop, and flips the bit without checking again.
   `GcWorldStop.h:24-28` promises the opposite.  After the flip the count is one too
   high and no later stop of that run completes.
2. **A run need not end when main returns** (`sched_end`): main finishes on an
   auxiliary carrier while the primary runs a context that loops; the quota point
   never looks at the stop (`V/VmExecutorOpsControl.cpp:158`), and with an empty queue
   it does not preempt either.
3. **A deadlock inside a window can go unreported** (`pump_deadlock`,
   `V/VmScheduler.cpp:244`).  The pump's carrier sleeps first, while the other carrier
   is not idle; the other one then sees a foreign pump, suppresses its report and
   sleeps.  The test is made only on the way into the wait.  The manual says such a
   deadlock is reported (`specification/10-concurrency/suspension.md:93`).
4. **The end of a nested pump strands the window below it** (`pump_nested`,
   `V/VmScheduler.cpp:319`).  A context served by a pump may itself open a window and
   suspend it; when that inner pump ends, `ReleasePumpToken` sets the slot's token to 0
   instead of the token of the pump below.  The outer window's context stays pinned to a
   token nobody has: no carrier ever pops it, and since its pump is still counted no
   deadlock is reported.  `VmScheduler.h:584` calls the field the token of the pump
   running on this thread, and the manual says that a window resumes when its wait
   completes (`specification/10-concurrency/suspension.md:77`).
5. **A socket's descriptor can be closed under a call that uses it** (`sockets_close`,
   `N/net_slots.cpp:93`).  `ReleaseWaiter` recycles a closed slot without looking at the
   other directions (and trips the assertion at line 113 in builds that have it);
   `NetAdoptClaim` calls it even for a call that never had a claim.  `net_slots.h:70-73`
   says the close waits until no waiter remains.

Remarks without a run of their own.

* *Queued contexts run after main has returned.*  `PopNextRunnable` looks at the stop
  only when it has nothing to dispatch (`V/VmScheduler.cpp:208`); the manual says queued
  contexts are dropped (`specification/10-concurrency/index.md:92`).  The model
  follows the code.
* *The affinity scan can starve.*  While the carrier that ran the head of the queue last
  sits in a blocking native, the other may rotate contexts of its own for ever
  (`V/VmScheduler.cpp:148`); the comment at lines 128-129 says no starvation.
  `QueuedIsDispatched` is therefore checked without natives.
* *Nested windows of one context.*  If both windows of finding 4 are of one context, the
  inner one's end also clears the pin the outer one still needs, and with `MaxWindows = 2`
  TLC finds `WindowsComeHome` violated.
* *I/O inside a window.*  A blocking native takes the whole evaluation stack of its
  carrier into the context (`V/VmExecutorBlockingNative.cpp:63-68`).  If it then parks for
  I/O, which `NativeParkForIo` does not refuse inside a window
  (`V/VmExecutorNativeCallbacks.cpp:387-424`), `RunNestedWindow` slices an empty stack at
  its base depth, and the frames below the window are in the context instead of on the
  carrier.  The models leave this out (`NoIoParkInWindows`).
* *Windows torn down.*  After a stop or an error the pin is cleared while the slice may
  still be parked in the context; nothing keeps another carrier from resuming it.  The
  properties exempt these contexts (`wrecked`).
* *Focus and pins.*  `TryStealFocusedRunnable` (`V/VmScheduler.cpp:97`) does not look
  at pins: with "window" and "debug" in one program TLC finds `WindowsComeHome`
  violated.  A focus that enters a native opens the gate without telling those who wait
  at it (`MarkBlockedNative`, line 468); `WorkIsAnnounced` exempts this state.
* *Wakes of a close.*  `WakeForIo` queues without a notification; the poller gives one
  afterwards, a socket's close does not, so an idle carrier may sleep beside the woken
  context until something else happens.  `WorkIsAnnounced` exempts it.
* *Failed connects.*  A connect that fails or times out closes its descriptor without
  `wakeIoWaiters` (`N/net_tcp_connect.cpp:114`, `:128`), so the poller's record
  survives until its next synchronisation.  If the number is handed out again before
  that, the new interest passes for registered and its context waits for an event the
  kernel does not watch.  The comment at `N/net_state.cpp:50-53` says that only the
  teardown closes descriptors the poller still watches, "the normal close arms deregister
  through wakeIoWaiters first".  `WaitedIsRegistered` is therefore stated for programs
  whose connects do not fail; without this restriction TLC violates it on the instance of
  `sockets`, in the program with two users whose connects fail.
* *Main and sockets.*  Main's context id is 0, the value of a free waiter field.  Its
  claims do not keep others out, and its fresh writes pass for re-entries
  (`N/net_tcp.cpp:144-146`); the manual promises one operation per direction
  (`library/20-network/index.md:68`).
* *A close between two sections of a write* makes `NetWriteOffset` answer 0
  (`N/net_tcp.cpp:266`): the re-entered write offers its first bytes again on a
  descriptor that is only kept for it.  `WriteResumesWhereItStopped` is about open sockets.
* *Reset* (`V/VmScheduler.cpp:24`) leaves interest table, pump count and freeze depth
  as the previous run left them.
* *Main's carrier.*  The comment at `V/VmExecutor.cpp:252` says that only the primary
  carrier starts the fresh main context; the pool is launched after main is queued, and
  an auxiliary carrier may pop it first (finding 2 uses this).  The comment at
  `V/VmScheduler.cpp:56-58` calls RegisterContext the primary carrier's exclusive step,
  but thread.spawn calls it on whatever carrier spawns, which overwrites
  `m_primaryThreadId`; only the auxiliary-dispatch statistic depends on it.

## 5. Proofs

Seven modules hold theorems about the system, an eighth (`SequenceLemmas`) the facts about
queues (append, remove, distinct entries), permutations of a finite set and counting
members of a finite set that they share.  The theorems hold for every value of the
constants that satisfies the modules' assumptions, so for any number of threads,
carriers, contexts, locks, owners, sockets, descriptors, channel values and capacities.

### GcWorldStopProofs

Assumption: `DetachedAt \subseteq SafeDetach` (no thread is detached inside
BeginExecuting's wait, between its poll and its initiation, or while it collects;
finding 1 shows that the first exclusion is needed).

| Theorem | States |
|---|---|
| `Invariance` | `Spec => []IndInv` |
| `TypeCorrect` | `TypeOK` |
| `CountExact` | `CountMatchesBits` |
| `WorldIsStopped` | `NoBytecodeDuringCollection` |
| `ElectedOnce` | `OneCollectorPerStop` |
| `FreeListIsExact` | `FreeListExact` |
| `NoTripwireFires` | `NoTripwire` |
| `ZombiesAreHarmless` | the action property `ZombieTouchesNothing` |

None of these is inductive alone.  `IndInv` adds: `RegistryInv` (a
thread's token points into the registry, generations are issued once, so two threads
never own one entry), `BitInv` (a current thread's bit is set exactly at the points
where it executes), `OwnedInv` (threads that act without checking their generation
are current), and `StopInv`, the heart: during a stop, arrivals plus executing threads
equal the snapshot.  A collector exists exactly when all expected have arrived, so
`StopInv` makes the executing count zero; the count equals the number of set bits
(cardinality lemmas `CountOn`, `CountOff`), so no bit is set, and `BitInv` says nobody
executes.  Registration, unregistration and reset are lemmas of their own, because
they change the registry's length, the free list and everybody's currency.

### The runtime: VmDispatchProofs, VmOutcomeProofs, VmGateProofs

All theorems are about `RuntimeSpec`, the scheduler with locks, nested windows, I/O and
debugger.  Nested windows may open, park, serve other contexts, open further windows and
return on every carrier.  The theorems marked T have the hypothesis `[]NoTeardown`: no
error and no stop unwinds a window before it has returned (`FatalInWindow`,
`UnwindWindow`, `Perish`).  The invariant speaks of whole windows: a torn-down
window leaves its slice parked without a pin (section 4), and nothing keeps another carrier
from resuming it.  The properties exempt these contexts (`wrecked`); what holds of the
others after a teardown stays with TLC.
`NothingToTearDown` shows that the hypothesis holds in every behaviour of programs that
open no window, so for these the theorems are unconditional.  The assumptions used are
`ConstantsAssumption` and `SyncAssumption`.

| Theorem | States | Under | Module |
|---|---|---|---|
| `IndInvHolds` | `[]IndInv` | T | `VmDispatchProofs` |
| `DispatchedOnceHolds` | `DispatchedOnce` | T | |
| `NoRunnableLostHolds` | `NoRunnableLost` | T | |
| `CountersExactHolds` | `CountersExact`, with the types | T | |
| `ParkedIoHasOneWakerHolds` | `ParkedIoHasOneWaker` | T | |
| `NoGrantLostHolds` | `NoGrantLost` | T | |
| `NoReturnWithoutGrantHolds` | `NoReturnWithoutGrant` | T | |
| `NoStalePin` | `[]StackInv`: tokens and pins are those of suspended windows | | |
| `PinnedIsServedHolds` | `PinnedIsServed` | `[]OneSuspendedEach` | |
| `NothingToTearDown` | `[]NoTeardown` | `NoWindows` | |
| `OutcomeInvHolds` | `[]OutcomeInv` | T | `VmOutcomeProofs` |
| `JoinersHaveAWakerHolds` | `JoinersHaveAWaker` | T | |
| `ResultBeforeResumeHolds` | `ResultBeforeResume` | T | |
| `HostOutcomeIsTrueHolds` | `HostOutcomeIsTrue` | T | |
| `WindowsComeHomeHolds` | `WindowsComeHome` | T, `[]OneWindowPerContext`, `[]StepsOutside` | |
| `GateInvHolds` | `[]GateInv` | T | `VmGateProofs` |
| `WorkIsAnnouncedHolds` | `WorkIsAnnounced` | T | |
| `NoSilentHangHolds` | `NoSilentHang` | T | |
| `NobodyWaitsForAFreeOneHolds` | `NobodyWaitsForAFreeOne` | T | |
| `OneFreezeWindowHolds` | `OneFreezeWindow` | T | |
| `DeadlockReportIsTrueHolds` | the action property `DeadlockReportIsTrue` | T | |
| `DispatchWaitsForWindowsHolds` | the action property `DispatchWaitsForWindows` | T | |

`IndInv` says of every carrier which states its context can have at each location
(`CarrierInv`), and of every context who moves it next: the queue or a carrier
(`QueueInv`, `RestInv`), the timer heap (`TimerInv`), the poller or a close (`IoInv`),
or the side table of a lock (`SyncInv`).  `CarriedOnce` keeps carriers apart.  The
window "state says parked, frames have not landed" is where `DispatchedOnce` and
`NoRunnableLost` could break: a waker queues a context only when its frames have
landed, and `RestInv` says that otherwise it is still on the carrier that will land
them.  `PumpInv` is about the stacks of windows: the fast path of a window is on the
carrier that runs its context, below it the windows of one context are together, and
`m_activePumpCount` is the number of suspended ones.  The counters are numbers of carriers at sets of locations (`CountInv`).
`SyncInv` follows a lock call through its sections: an entry that is Pending or stamped
belongs to a carrier in the call, a Committed one to a parked context, a context has
one entry in all tables together, and a context that is being handed a grant has none.
The step lemmas do not repeat this for 60 actions: what an action does to the contexts
is one of a few patterns (wake, own change, dispatch, splice, landing, birth), each
proved once, and what is no lock call stands apart from the side tables.

`OutcomeInv` adds the joins (a decided target has a carrier on its way to
`WakeJoiners`; a result is undelivered only while the joiner is parked; a rethrow names
a target that failed with an exception) and the host (the run stops because main has
finished or because an error is known).  All but ten actions are `Calm`: they decide
nothing and move carriers between places that promise nothing.

`GateInv` adds that a sleeper has no reason to be awake unless a helper thread is about
to notify (`WorkInv`), that not all carriers are idle with an empty queue and nothing to
wait for (`HangInv`), the turns of the freeze windows (`DebugInv`) and the locks
(`FreeInv`).  A sleeper may leave a queued context alone that is pinned to somebody
else's pump; `HangInv` speaks of states without a suspended window, where by `StackInv`
nothing is pinned.  The deadlock report is true because the counters are exact: when idle
carriers account for all active ones, no carrier has a context, so `RestInv`, `TimerInv`
and `IoInv` leave no context that could go on; no queued context is hidden by a pin,
because the only pump there can be is the reporter's own.

`StackInv` needs no hypothesis.  That a new pump finds a fresh token is a pigeonhole
argument (`OneIsUnused`): there are more numbers than tokens, pins and slots.
`PinnedIsServed` also needs that the slot still has the token of its window, which the
end of an inner pump on the same carrier destroys (finding 4).  The theorem therefore has
the hypothesis `OneSuspendedEach`; it is one on programs, the code does not enforce it.

`WindowsComeHome` rests on `HomeInv`: a suspended window keeps its context pinned to its
own token, no two windows have one token, a slot has the token of its innermost suspended
window, and a context with a suspended window that runs does so on the window's carrier,
in a window of its own whose predecessors reach down to the suspended one.  A dispatched
context is visible, so its pin is the slot's token and its window the innermost one, and
since a carrier that dispatches is in no fast path, this window is on top: the context
comes home.  It cannot finish or fail there, because it is inside its window.  Everything
beside the windows is `Steady`: it lets contexts go or takes them home.  The two
hypotheses exclude what section 4 describes, a second suspended window of one context
(`OneWindowPerContext`) and a stepped context with a suspended window (`StepsOutside`).
The code prevents neither.

### VmStaticInitProofs

No hypothesis beyond the modules' assumptions.  `IndInvInvariant` (`[]IndInv`),
`OneInitializerHolds`, `PassesAreEarnedHolds` (an action property) and
`NoWaiterForgotten`, the safety half of `GateWaitersResume`: whoever is parked at a gate
is registered with an owner that is still being initialized or about to give up its
list, or is in a list that is being woken.  The invariant ties the phase of an owner to
the context that holds it through the separate stores of phase, owner and value.

### NetSocketsProofs

| Theorem | States |
|---|---|
| `SocketInvHolds` | `[]SocketInv`, with the type invariant |
| `ClaimsHaveACallHolds` | `[]ClaimsHaveACall` |
| `OneCallPerDirectionHolds` | `[]OneCallPerDirection` |
| `NoDescriptorLeakHolds` | `[]NoDescriptorLeak` |
| `ParkedHasAWakerHolds` | `[]ParkedHasAWaker` |
| `WriteResumesWhereItStoppedHolds` | `[]WriteResumesWhereItStopped` |

One hypothesis, `NoWrap`: a behaviour opens fewer sockets than a generation has values
(`kGenMask + 1` = 128, `N/net_slots.cpp:17`, where the comment speaks of an ABA window of
128 reuses).  It cannot be dropped: with one generation and two openings TLC violates
`OneCallPerDirection`.  A call whose claim went away with its closed slot comes back,
finds the slot's next socket under the handle it still holds, and goes on as if it had
claimed that one.

None of the properties is inductive.  A handle outlives its socket, so what a call
carries means something only while the slot's generation is the handle's: `HandleInv`
and `PlaceInv` say that no handle is ahead of its slot and that a handle of the current
generation belongs to a slot in use, `GenInv` counts generations and open descriptors
against the openings, which with `NoWrap` keeps a generation from coming back.
`ClaimInv` ties waiter fields and calls both ways (a field names a call on that slot and
in that direction; a call that has claimed a slot still in use is named there), and says
that a closed slot in use has a waiter, so that `Release` and `AdoptGone` are what
recycles it.  `PrivateInv` keeps the slot of a connect in flight from everybody else,
which is why its failure may recycle the slot at once.  `FdInv` puts every open
descriptor in exactly one slot or in exactly one call between the kernel and the table;
`FreeInv` makes the free list the slots not in use, each once.  `WriteInv` says at each
section of a write which of the call's offset, the slot's `sent` and the bytes delivered
agree.  The proof sorts the steps by what they do to the table, shows once per kind what
it keeps and once per action which kind it is.  TLC checks `SocketInv` on the instance
of `sockets` as well.

### VmChannelProofs

| Theorem | States |
|---|---|
| `ChannelInvHolds` | `[]ChannelInv`, with the type invariant |
| `NobodyWaitsForWhatIsThere` | `[]WaitersFaceAnEmptyBuffer` |
| `NoWakeIsLost` | `[]OneWakePerPark` |
| `TwoPhaseIsAtomic` | `ChannelSpec => Abstract!Spec`: the safety part of `ImplementsBoundedChannel` |

No hypothesis beyond `ChannelAssumption`.

Neither invariant is inductive alone: a served entry, an aborted park or a late wake is
harmless only because of where its owner is.  `ChannelInv` says that a context has at
most one entry per table and at most one wake under way, and ties four things together
for every context: the phase of its entry, the section its call is in (`CallInv`), the
state of the context and the wakes under way to it (`ParkInv`).  Between register and
recheck the entry is Pending or stamped and nobody wakes; from the commit on it is
Committed and the context parked, or it is gone and one wake is coming, or the context
is Runnable.  `WaitersFaceAnEmptyBuffer` is part of the invariant because the sweep of
a close needs it: nothing is drained while somebody waits, so every live entry ends
with the exception.

The refinement reads the line of waiters from the tables.  `Select` enumerates the live
places by rank, which first-order provers can reason about: appending a Pending entry
lengthens the line at its end, committing it changes nothing, serving the first live
entry takes the head away whether the entry is stamped or dropped, and dropping a
stamped one is not seen.  What a caller is told (`Shown`) is fixed in the section that
serves it: commit, abort, landing, wake and resume are stutters, and only send, recv,
close and the return of a call are steps of `BoundedChannel`.

### Only model-checked

 - liveness (`StopCompletes`, `WaitersReleased`, `QueuedIsDispatched`, `WaitersResume`,
   `GateWaitersResume`, and the fairness part of `ImplementsBoundedChannel`), which is
   out of the prover's reach;
 - what holds of the other contexts after a window has been torn down (the programs of
   `sched_safety` with windows and fatal errors);
 - `WaitedIsRegistered` of `NetSockets`, for programs whose connects do not fail
   (section 4).

`DeferredClose` is violated (finding 5), and `PinnedIsServed` without its hypothesis
(finding 4).

## 6. Not modelled, and the plan

Left out of the existing modules: callbacks from natives into bytecode other than
parkForIo; a park for I/O inside a nested window; exceptions in programs with windows (main's
would unwind through another context's window); suppressed safepoint polls, which only
fairness sees; GC inside the scheduler's
steps (the two meet at `BeginExecuting`/`EndExecuting` only, which `GcWorldStop` models
with the lock); breakpoint tables and step depths; a second run over the same scheduler.

Next:

1. `VmWorkPool` with the resolver jobs of `N/net_jobs.cpp`; the UDP and ICMP calls (the
   claim and park of the TCP read).
2. Two runs over one scheduler (`Reset`) with detached carriers.
3. Linker index remapping as pure operators against a reference definition.

Left out for good: the compiler, the interpreter's data operations, object marking and
sweeping, the other native libraries, language service, tools and IDE, which make up
most of the repository's lines.  They are sequential or pure I/O; their correctness is
a matter of data, not of protocol.
