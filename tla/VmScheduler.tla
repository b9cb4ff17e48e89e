----------------------------- MODULE VmScheduler -----------------------------
(***************************************************************************)
(* The context scheduler of the NLang VM (src/src/vm/VmScheduler*.cpp) and *)
(* the carrier pool that drives it (VmCarrierPool.cpp, CarrierLoop in      *)
(* VmExecutor.cpp).  Execution contexts (main, spawned tasks, promises)    *)
(* are multiplexed over carrier threads.  Every scheduler call is one      *)
(* critical section of the scheduler lock, so every action below is one    *)
(* critical section; a handler that takes the lock several times is one    *)
(* action per section, and the program counter pc of its carrier says      *)
(* which section comes next.                                               *)
(*                                                                         *)
(* A running context's frames are the evaluation stack of its carrier.     *)
(* Parking is a two-step affair: the intrinsic registers the parked state  *)
(* in one section and the carrier moves the frames into the context in a   *)
(* later one, after the ParkSignal has unwound.  A waker may come between  *)
(* the two; the flag framesParked decides which of them queues the context.*)
(***************************************************************************)
EXTENDS Integers, Sequences, FiniteSets

CONSTANTS
    MaxContexts,        \* bound on m_nextId: contexts one run registers
    Carriers,           \* the carrier threads
    Primary,            \* the carrier that is the Execute thread
    NoCarrier,          \* lastCarrier of a context never dispatched (255)
    AffinityScanWindow, \* AFFINITY_SCAN_WINDOW
    MaxWindows,         \* bound on the nested windows open on one carrier
    Programs            \* what may run: operations, carriers, a bound on contexts

(***************************************************************************)
(* The operations a program chooses from while it runs.                    *)
(***************************************************************************)
AllOps == {"spawn", "promise", "yield", "sleep", "join", "get", "select",
           "observe", "native", "fail", "fatal", "io", "window", "debug"}

ASSUME ConstantsAssumption ==
    /\ MaxContexts \in Nat \ {0}
    /\ Primary \in Carriers
    /\ {NoCarrier, "none", "context"} \cap Carriers = {}
    /\ IsFiniteSet(Carriers)
    /\ AffinityScanWindow \in Nat \ {0}
    /\ MaxWindows \in Nat
    /\ \A p \in Programs : /\ p.ops \subseteq AllOps
                           /\ p.contexts \in 1 .. MaxContexts
                           /\ Primary \in p.carriers
                           /\ p.carriers \subseteq Carriers

Contexts == 0 .. MaxContexts - 1
Main == 0                           \* kMainThreadId
NoContext == -1                     \* currentContextId of a free carrier
SelectAnyNoTarget == -1             \* kSelectAnyNoTarget

(***************************************************************************)
(* ContextState.  Module VmSync parks contexts on mutexes and semaphores,  *)
(* module VmIo on descriptors.                                             *)
(***************************************************************************)
Parked == {"ParkedTimer", "ParkedJoin", "ParkedMutex", "ParkedSemaphore",
           "ParkedIo"}
States == Parked \cup {"Unborn", "Runnable", "ParkedPromise", "BlockedNative",
                       "Finished", "Failed"}
Decided == {"Finished", "Failed"}

(***************************************************************************)
(* Where a carrier is.  "pop" .. "failwake" are points of CarrierLoop and  *)
(* RunContextWindow between two critical sections, "idle", "focuswait" and *)
(* "freezewait" the three waits of PopNextRunnable; "leave", "raise" and   *)
(* "deadlock" are its three ways out (stop, an error of a context, the     *)
(* deadlock report of PopNextRunnable); "join" is JoinAndCollect.  The     *)
(* others belong to the modules on top: "sync" to VmSync, "abandon",       *)
(* "shutdown" and "perish" to VmPump, "ioparked" and "ioclose" to VmIo,    *)
(* "debug" to VmDebug.                                                     *)
(***************************************************************************)
Waits == {"idle", "focuswait", "freezewait"}
Locations == {"off", "pop", "splice", "run", "unwind", "native",
              "finish", "wake", "failwake",
              "leave", "raise", "deadlock", "join", "exited",
              "sync", "abandon", "shutdown", "perish", "ioparked", "ioclose",
              "debug"} \cup Waits

VARIABLES
    state,          \* ExecutionContext::state
    frames,         \* where the frames are: "none", "context" or a carrier
    framesParked,   \* ExecutionContext::framesParked
    lastCarrier,    \* ExecutionContext::lastCarrier
    parkHandle,     \* ExecutionContext::parkHandle
    selectSet,      \* the targets in ExecutionContext::selectAnyTargets
    joinResultDst,  \* ExecutionContext::joinResultDst is set
    rethrow,        \* ExecutionContext::rethrowOnResume
    failExc,        \* ExecutionContext::failExcHeapIdx > 0
    failObserved,   \* ExecutionContext::failObserved
    nextId,         \* m_nextId
    runQueue,       \* m_runQueue
    timers,         \* the contexts in m_timers
    timerNotify,    \* the timer thread is between Release and notify_all
    held,           \* m_heldByCarrier, currentContextId of each carrier
    running,        \* CarrierLoop's local ctx
    asleep,         \* carriers blocked in m_runQueueCv
    idleCount,      \* m_idleCarrierCount
    activeCount,    \* m_activeCarrierCount
    blockedCount,   \* m_blockedNativeCount
    stopRequested,  \* m_stopRequested
    auxError,       \* m_auxError is set
    outcome,        \* what the host gets: "running", "returned" or "error"
    detached,       \* carriers JoinAndCollect gave up on
    pc

(* What PopNextRunnable reads and the modules on top of this one change. *)
VARIABLES
    program,        \* the program that runs, its carriers and its bound
    windows,        \* the nested windows open on each carrier, innermost last
    token,          \* CarrierSlot::pumpToken of each carrier, 0 = none
    pinned,         \* ExecutionContext::pinnedToken
    pumpCount,      \* m_activePumpCount
    wrecked,        \* contexts whose suspended window was abandoned (history)
    focus,          \* m_debugFocusContext
    freezeDepth,    \* m_debugFreezeDepth
    ioWaits,        \* the contexts in m_ioWaits
    ioArmed,        \* ExecutionContext::ioParkArmed
    poller          \* the poller thread: "wait", "poll" or "notify"

contextVars == <<state, frames, framesParked, lastCarrier, parkHandle,
                 selectSet, joinResultDst, rethrow, failExc, failObserved>>
queueVars == <<nextId, runQueue, timers, timerNotify>>
carrierVars == <<held, running, asleep>>
countVars == <<idleCount, activeCount, blockedCount>>
hostVars == <<auxError, outcome, detached>>
pumpVars == <<windows, token, pinned, pumpCount, wrecked>>
ioVars == <<ioWaits, ioArmed, poller>>
gateVars == <<program, pumpVars, focus, freezeDepth, ioVars>>
vars == <<contextVars, queueVars, carrierVars, countVars, stopRequested,
          hostVars, gateVars, pc>>

-----------------------------------------------------------------------------
(***************************************************************************)
(* Small operators.                                                        *)
(***************************************************************************)
Go(k, l) == pc' = [pc EXCEPT ![k] = l]
At(k, l) == pc[k] = l
Registered == {c \in Contexts : c < nextId}
IsQueued(c) == \E i \in DOMAIN runQueue : runQueue[i] = c
Without(q, i) == [j \in 1 .. Len(q) - 1 |-> IF j < i THEN q[j] ELSE q[j + 1]]

(* ReleaseHeldIfCurrent *)
Released(k, c) == IF held[k] = c THEN [held EXCEPT ![k] = NoContext] ELSE held

(* The orders in which the members of S can be appended to the queue. *)
Orders(S) == {q \in [1 .. Cardinality(S) -> S] :
                 \A c \in S : \E i \in DOMAIN q : q[i] = c}
InIdOrder(S) == {q \in Orders(S) : \A i, j \in DOMAIN q : i < j => q[i] < q[j]}

(* Two wrong wakes: one ignores the handshake, one leaves the queue to others. *)
QueueUnlanded(S) == S
QueueNobody(S) == {}

(* A wake only queues a context whose frames have landed. *)
Queueable(S) == {c \in S : framesParked[c]}

(***************************************************************************)
(* A window is the nested evaluation of a toString override or of a host   *)
(* callback by the context ctx, in the middle of an operation of ctx.      *)
(* Its token is 0 until it parks, and its pump's token from then on.       *)
(***************************************************************************)
Top(k) == windows[k][Len(windows[k])]
InOwnWindow(k) == windows[k] # <<>> /\ Top(k).ctx = running[k]
NestDepth(k) == Cardinality({i \in DOMAIN windows[k] : windows[k][i].token = 0})

(* NotifyGateWaiters *)
GateWaitersTold == IF focus # NoContext THEN {} ELSE asleep
WithState(S, s) == [c \in Contexts |-> IF c \in S THEN s ELSE state[c]]

-----------------------------------------------------------------------------
(***************************************************************************)
(* Reset, RegisterContext for main and the start of the primary carrier.   *)
(***************************************************************************)
Init ==
    /\ state = [c \in Contexts |-> IF c = Main THEN "Runnable" ELSE "Unborn"]
    /\ frames = [c \in Contexts |-> "none"]
    /\ framesParked = [c \in Contexts |-> FALSE]
    /\ lastCarrier = [c \in Contexts |-> NoCarrier]
    /\ parkHandle = [c \in Contexts |-> 0]
    /\ selectSet = [c \in Contexts |-> {}]
    /\ joinResultDst = [c \in Contexts |-> FALSE]
    /\ rethrow = [c \in Contexts |-> FALSE]
    /\ failExc = [c \in Contexts |-> FALSE]
    /\ failObserved = [c \in Contexts |-> FALSE]
    /\ nextId = 1
    /\ runQueue = <<Main>>
    /\ timers = {}
    /\ timerNotify = FALSE
    /\ held = [k \in Carriers |-> NoContext]
    /\ running = [k \in Carriers |-> NoContext]
    /\ asleep = {}
    /\ idleCount = 0
    /\ activeCount = 1
    /\ blockedCount = 0
    /\ stopRequested = FALSE
    /\ auxError = FALSE
    /\ outcome = "running"
    /\ detached = {}
    /\ pc = [k \in Carriers |-> IF k = Primary THEN "pop" ELSE "off"]
    /\ program \in Programs
    /\ windows = [k \in Carriers |-> <<>>]
    /\ token = [k \in Carriers |-> 0]
    /\ pinned = [c \in Contexts |-> 0]
    /\ pumpCount = 0
    /\ wrecked = {}
    /\ focus = NoContext
    /\ freezeDepth = 0
    /\ ioWaits = {}
    /\ ioArmed = [c \in Contexts |-> FALSE]
    /\ poller = "wait"

(* An auxiliary thread starts: its CarrierActiveGuard counts it. *)
Launch(k) ==
    /\ At(k, "off")
    /\ k \in program.carriers
    /\ activeCount' = activeCount + 1
    /\ Go(k, "pop")
    /\ UNCHANGED <<contextVars, queueVars, carrierVars, idleCount,
                   blockedCount, stopRequested, hostVars, gateVars>>

-----------------------------------------------------------------------------
(***************************************************************************)
(* PopNextRunnable: the freeze gate, the focus gate, PopAffinity and the   *)
(* wait for work, in this order, in one critical section that only the     *)
(* waits interrupt.  A context pinned to a pump token is visible to the    *)
(* carrier whose slot has this token and to nobody else.                   *)
(***************************************************************************)
PinsIgnored(k, c) == TRUE
Visible(k, c) == pinned[c] \in {0, token[k]}

(* HasPopableEntry *)
Popable(k) == {i \in DOMAIN runQueue : Visible(k, runQueue[i])}

(* The focused context is the only one to dispatch while it is Runnable. *)
FocusRules == focus # NoContext /\ state[focus] = "Runnable"
FocusGateOpen == FocusRules => IsQueued(focus)

(* The predicates of the three waits, evaluated by a notified sleeper. *)
MayProceed(k) ==
    \/ At(k, "idle") /\ (stopRequested \/ Popable(k) # {})
    \/ At(k, "focuswait") /\ (stopRequested \/ FocusGateOpen)
    \/ At(k, "freezewait") /\ (stopRequested \/ freezeDepth = 0)
InPop(k) == At(k, "pop") \/ (pc[k] \in Waits /\ k \notin asleep /\ MayProceed(k))
PassesFreeze(k) == InPop(k) /\ (stopRequested \/ freezeDepth = 0)

(* The wait at the freeze gate is not counted as idle. *)
CountsAsIdle == {"idle", "focuswait"}
IdleAfterWake(k) == IF pc[k] \in CountsAsIdle THEN idleCount - 1 ELSE idleCount

WaitAs(k, wait) ==
    /\ idleCount' = IdleAfterWake(k) + IF wait \in CountsAsIdle THEN 1 ELSE 0
    /\ asleep' = asleep \cup {k}
    /\ Go(k, wait)
    /\ UNCHANGED <<contextVars, queueVars, held, running, activeCount,
                   blockedCount, stopRequested, hostVars, gateVars>>

WaitAtFreezeGate(k) ==
    /\ InPop(k)
    /\ ~PassesFreeze(k)
    /\ WaitAs(k, "freezewait")

(* WaitForHeldFocus: no deadlock test, a Runnable focus is work. *)
WaitForHeldFocus(k) ==
    /\ PassesFreeze(k)
    /\ ~FocusGateOpen
    /\ ~stopRequested
    /\ WaitAs(k, "focuswait")

(***************************************************************************)
(* PopAffinity: the first visible entry of the scan window this carrier    *)
(* ran last or nobody ever ran, else the first visible one.  A queued      *)
(* focus comes before them all, pinned or not (TryStealFocusedRunnable).   *)
(***************************************************************************)
Affine(k) == {i \in Popable(k) :
                 /\ i <= AffinityScanWindow
                 /\ lastCarrier[runQueue[i]] \in {NoCarrier, k}}
NewestFirst(k) == Popable(k) \cap {Len(runQueue)}
Choices(k) == IF FocusRules THEN {i \in DOMAIN runQueue : runQueue[i] = focus}
              ELSE IF Affine(k) # {} THEN Affine(k)
              ELSE Popable(k)

(* The wait for a held focus looks at the stop first, the queue does not. *)
TakeNext(k) ==
    /\ PassesFreeze(k)
    /\ ~(At(k, "focuswait") /\ stopRequested)
    /\ Choices(k) # {}
    /\ LET i == CHOOSE j \in Choices(k) : \A l \in Choices(k) : j <= l
           c == runQueue[i] IN
         /\ runQueue' = Without(runQueue, i)
         /\ held' = [held EXCEPT ![k] = c]
         /\ running' = [running EXCEPT ![k] = c]
         /\ lastCarrier' = [lastCarrier EXCEPT ![c] = k]
    /\ idleCount' = IdleAfterWake(k)
    /\ Go(k, "splice")
    /\ UNCHANGED <<state, frames, framesParked, parkHandle, selectSet,
                   joinResultDst, rethrow, failExc, failObserved, nextId,
                   timers, timerNotify, asleep, activeCount, blockedCount,
                   stopRequested, hostVars, gateVars>>

(***************************************************************************)
(* The stop is only looked at once there is nothing to dispatch.  The      *)
(* carrier loop ends; a pump throws, its window cannot complete any more.  *)
(***************************************************************************)
Unwinds(k, way) == Go(k, IF windows[k] = <<>> THEN way ELSE "abandon")

StopAtPop(k) ==
    /\ PassesFreeze(k)
    /\ stopRequested
    /\ At(k, "focuswait") \/ Choices(k) = {}
    /\ idleCount' = IdleAfterWake(k)
    /\ Unwinds(k, "leave")
    /\ UNCHANGED <<contextVars, queueVars, carrierVars, activeCount,
                   blockedCount, stopRequested, hostVars, gateVars>>

(* The pumps on other threads may still serve work; the own one does not. *)
OtherPumps(k) == pumpCount - IF token[k] # 0 THEN 1 ELSE 0

(* Two wrong deadlock tests: one forgets the parked I/O, one is off by one. *)
NoIoExclusion(k) == /\ OtherPumps(k) = 0
                    /\ timers = {}
                    /\ blockedCount = 0
                    /\ IdleAfterWake(k) + 1 >= activeCount
SelfNotCounted(k) == /\ OtherPumps(k) = 0
                     /\ timers = {}
                     /\ ioWaits = {}
                     /\ blockedCount = 0
                     /\ IdleAfterWake(k) >= activeCount

(* The deadlock test of WaitForWorkOrStop: nothing is left to wake anybody. *)
NoWakeSource(k) == /\ OtherPumps(k) = 0
                   /\ timers = {}
                   /\ ioWaits = {}
                   /\ blockedCount = 0
                   /\ IdleAfterWake(k) + 1 >= activeCount

NothingToDispatch(k) ==
    /\ PassesFreeze(k)
    /\ FocusGateOpen
    /\ Choices(k) = {}
    /\ ~stopRequested

ReportDeadlock(k) ==
    /\ NothingToDispatch(k)
    /\ NoWakeSource(k)
    /\ idleCount' = IdleAfterWake(k)
    /\ Unwinds(k, "deadlock")
    /\ UNCHANGED <<contextVars, queueVars, carrierVars, activeCount,
                   blockedCount, stopRequested, hostVars, gateVars>>

Sleep(k) ==
    /\ NothingToDispatch(k)
    /\ ~NoWakeSource(k)
    /\ WaitAs(k, "idle")

(* Notified, but the predicate does not hold (any more): wait again. *)
SleepAgain(k) ==
    /\ pc[k] \in Waits
    /\ k \notin asleep
    /\ ~MayProceed(k)
    /\ asleep' = asleep \cup {k}
    /\ UNCHANGED <<contextVars, queueVars, held, running, countVars,
                   stopRequested, hostVars, gateVars, pc>>

(***************************************************************************)
(* SpliceResumedFrames and ArmResumeRethrow; a context without frames gets *)
(* a fresh root frame (RunRootWindow).                                     *)
(***************************************************************************)
Splice(k) ==
    /\ At(k, "splice")
    /\ LET c == running[k]
           resumed == frames[c] # "none" IN
         /\ frames' = [frames EXCEPT ![c] = k]
         /\ framesParked' = [framesParked EXCEPT ![c] = @ /\ ~resumed]
         /\ rethrow' = [rethrow EXCEPT ![c] = @ /\ ~resumed]
         /\ parkHandle' = [parkHandle EXCEPT ![c] =
                               IF resumed /\ rethrow[c] THEN 0 ELSE @]
    /\ Go(k, "run")
    /\ UNCHANGED <<state, lastCarrier, selectSet, joinResultDst, failExc,
                   failObserved, queueVars, carrierVars, countVars,
                   stopRequested, hostVars, gateVars>>

(***************************************************************************)
(* ParkContextFrames, the critical section that ends every park and every  *)
(* preemption: the frames land in the context and, if a waker has been     *)
(* there already (or the context was only preempted), it is queued.        *)
(***************************************************************************)
NeverStillRunnable(c) == FALSE
StillRunnable(c) == state[c] = "Runnable"

ParkContextFrames(k) ==
    /\ At(k, "unwind")
    /\ ~(InOwnWindow(k) /\ Top(k).token = 0)
    /\ LET c == running[k] IN
         /\ frames' = [frames EXCEPT ![c] = "context"]
         /\ held' = Released(k, c)
         /\ \/ /\ StillRunnable(c)
               /\ runQueue' = Append(runQueue, c)
               /\ asleep' = {}
               /\ UNCHANGED framesParked
            \/ /\ ~StillRunnable(c)
               /\ framesParked' = [framesParked EXCEPT ![c] = TRUE]
               /\ UNCHANGED <<runQueue, asleep>>
    /\ running' = [running EXCEPT ![k] = NoContext]
    /\ Go(k, "pop")
    /\ UNCHANGED <<state, lastCarrier, parkHandle, selectSet, joinResultDst,
                   rethrow, failExc, failObserved, nextId, timers,
                   timerNotify, countVars, stopRequested, hostVars, gateVars>>

-----------------------------------------------------------------------------
(***************************************************************************)
(* What a running context does.                                            *)
(***************************************************************************)
Runs(k, op) == At(k, "run") /\ op \in program.ops

(* thread.yield *)
Yield(k) ==
    /\ Runs(k, "yield")
    /\ Go(k, "unwind")
    /\ UNCHANGED <<contextVars, queueVars, carrierVars, countVars,
                   stopRequested, hostVars, gateVars>>

(* CheckSchedulerQuota at a back edge: only queued work preempts, and not  *)
(* inside the fast path of a nested window.                                *)
Preempt(k) ==
    /\ At(k, "run")
    /\ NestDepth(k) = 0
    /\ runQueue # <<>>
    /\ Go(k, "unwind")
    /\ UNCHANGED <<contextVars, queueVars, carrierVars, countVars,
                   stopRequested, hostVars, gateVars>>

(* thread.spawn: RegisterContext and the root frame, in one section. *)
Spawn(k) ==
    /\ Runs(k, "spawn")
    /\ nextId \in Contexts
    /\ nextId < program.contexts
    /\ state' = [state EXCEPT ![nextId] = "Runnable"]
    /\ frames' = [frames EXCEPT ![nextId] = "context"]
    /\ runQueue' = Append(runQueue, nextId)
    /\ nextId' = nextId + 1
    /\ asleep' = {}
    /\ UNCHANGED <<framesParked, lastCarrier, parkHandle, selectSet,
                   joinResultDst, rethrow, failExc, failObserved, timers,
                   timerNotify, held, running, countVars, stopRequested,
                   hostVars, gateVars, pc>>

(* Promise(): RegisterParkedPromiseContext, no frames and no queue entry. *)
NewPromise(k) ==
    /\ Runs(k, "promise")
    /\ nextId \in Contexts
    /\ nextId < program.contexts
    /\ state' = [state EXCEPT ![nextId] = "ParkedPromise"]
    /\ nextId' = nextId + 1
    /\ UNCHANGED <<frames, framesParked, lastCarrier, parkHandle, selectSet,
                   joinResultDst, rethrow, failExc, failObserved, runQueue,
                   timers, timerNotify, carrierVars, countVars,
                   stopRequested, hostVars, gateVars, pc>>

(* thread.sleep: ParkForTimer. *)
ParkForTimer(k) ==
    /\ Runs(k, "sleep")
    /\ state' = [state EXCEPT ![running[k]] = "ParkedTimer"]
    /\ timers' = timers \cup {running[k]}
    /\ held' = Released(k, running[k])
    /\ asleep' = GateWaitersTold
    /\ Go(k, "unwind")
    /\ UNCHANGED <<frames, framesParked, lastCarrier, parkHandle, selectSet,
                   joinResultDst, rethrow, failExc, failObserved, nextId,
                   runQueue, timerNotify, running, countVars,
                   stopRequested, hostVars, gateVars>>

(* The targets running[k] can name: every registered context but itself. *)
Others(k) == Registered \ {running[k]}
FinishedOnly(t) == state[t] = "Finished"
IsDecided(t) == state[t] \in Decided

(* thread.join and future.get of an undecided target: ParkForJoin. *)
ParkForJoin(k, t, takesResult) ==
    /\ IF takesResult THEN Runs(k, "get") ELSE Runs(k, "join")
    /\ t \in Others(k)
    /\ ~IsDecided(t)
    /\ LET c == running[k] IN
         /\ state' = [state EXCEPT ![c] = "ParkedJoin"]
         /\ parkHandle' = [parkHandle EXCEPT ![c] = t]
         /\ joinResultDst' = [joinResultDst EXCEPT ![c] = @ \/ takesResult]
         /\ held' = Released(k, c)
    /\ asleep' = GateWaitersTold
    /\ Go(k, "unwind")
    /\ UNCHANGED <<frames, framesParked, lastCarrier, selectSet, rethrow,
                   failExc, failObserved, queueVars, running, countVars,
                   stopRequested, hostVars, gateVars>>

(* Future.selectAny over undecided targets: ParkForJoinAny. *)
ParkForJoinAny(k, targets) ==
    /\ Runs(k, "select")
    /\ targets # {}
    /\ \A t \in targets : ~IsDecided(t)
    /\ LET c == running[k] IN
         /\ state' = [state EXCEPT ![c] = "ParkedJoin"]
         /\ parkHandle' = [parkHandle EXCEPT ![c] = SelectAnyNoTarget]
         /\ selectSet' = [selectSet EXCEPT ![c] = targets]
         /\ joinResultDst' = [joinResultDst EXCEPT ![c] = TRUE]
         /\ held' = Released(k, c)
    /\ asleep' = GateWaitersTold
    /\ Go(k, "unwind")
    /\ UNCHANGED <<frames, framesParked, lastCarrier, rethrow, failExc,
                   failObserved, queueVars, running, countVars,
                   stopRequested, hostVars, gateVars>>

(***************************************************************************)
(* join, get or thread.failure of a failed target takes the failure at     *)
(* once: MarkFailureObserved.  What the context does with the exception    *)
(* (catch it, or Fail, or Fatal when there is none) is its next step.      *)
(***************************************************************************)
ObserveFailure(k, t) ==
    /\ Runs(k, "observe")
    /\ t \in Others(k)
    /\ state[t] = "Failed"
    /\ failObserved' = [failObserved EXCEPT ![t] = TRUE]
    /\ UNCHANGED <<state, frames, framesParked, lastCarrier, parkHandle,
                   selectSet, joinResultDst, rethrow, failExc, queueVars,
                   carrierVars, countVars, stopRequested, hostVars, gateVars, pc>>

-----------------------------------------------------------------------------
(***************************************************************************)
(* The end of a context: MarkFinished, DeliverJoinResults, WakeJoiners,    *)
(* three critical sections of its own carrier.                             *)
(***************************************************************************)
JoinersOf(t) == {c \in Contexts : state[c] = "ParkedJoin" /\ parkHandle[c] = t}
SelectorsOf(t) == {c \in Contexts : /\ state[c] = "ParkedJoin"
                                    /\ t \in selectSet[c]}

DeliverNothing(t) == joinResultDst

(* DeliverJoinResults clears the destinations it has filled. *)
Delivered(t) == [c \in Contexts |->
                    IF c \in JoinersOf(t) THEN FALSE ELSE joinResultDst[c]]

(***************************************************************************)
(* WakeJoiners and WakeSelectAnyWaiters for a decided target t, from the   *)
(* destinations dst: single-target joiners first, each family in id order. *)
(* decidedState is the table with t's own decision applied.                *)
(***************************************************************************)
WakeJoiners(t, failed, decidedState, dst) ==
    LET J == JoinersOf(t)
        S == SelectorsOf(t) \ J
    IN
    /\ state' = [c \in Contexts |->
                    IF c \in J \cup S THEN "Runnable" ELSE decidedState[c]]
    /\ \E first \in InIdOrder(Queueable(J)), second \in InIdOrder(Queueable(S)) :
           runQueue' = runQueue \o first \o second
    /\ rethrow' = [c \in Contexts |-> rethrow[c] \/ (failed /\ c \in J)]
    /\ joinResultDst' = [c \in Contexts |->
                            IF c \in S \/ (failed /\ c \in J) THEN FALSE
                            ELSE dst[c]]
    /\ selectSet' = [c \in Contexts |->
                        IF c \in S THEN {} ELSE selectSet[c]]
    /\ failObserved' = [failObserved EXCEPT ![t] = @ \/ (failed /\ J # {})]
    /\ asleep' = {}

(* A stop that nobody is told about. *)
StopQuietly(b) == /\ stopRequested' = (stopRequested \/ b)
                  /\ UNCHANGED asleep

(* RequestStop; MarkFinished and MarkFailed stop the run for main and tell *)
(* the waiters at the focus gate.                                          *)
StopIf(b) == /\ stopRequested' = (stopRequested \/ b)
             /\ asleep' = IF b THEN {} ELSE asleep
StopFor(c) == /\ stopRequested' = (stopRequested \/ c = Main)
              /\ asleep' = IF c = Main THEN {} ELSE GateWaitersTold

(* MarkFinished: the root frame has returned, the stack is empty. *)
Finish(k) ==
    /\ At(k, "run")
    /\ ~InOwnWindow(k)
    /\ LET c == running[k] IN
         /\ state' = [state EXCEPT ![c] = "Finished"]
         /\ frames' = [frames EXCEPT ![c] = "none"]
         /\ held' = Released(k, c)
         /\ StopFor(c)
    /\ Go(k, "finish")
    /\ UNCHANGED <<framesParked, lastCarrier, parkHandle, selectSet,
                   joinResultDst, rethrow, failExc, failObserved, queueVars,
                   running, countVars, hostVars, gateVars>>

DeliverJoinResults(k) ==
    /\ At(k, "finish")
    /\ joinResultDst' = Delivered(running[k])
    /\ Go(k, "wake")
    /\ UNCHANGED <<state, frames, framesParked, lastCarrier, parkHandle,
                   selectSet, rethrow, failExc, failObserved, queueVars,
                   carrierVars, countVars, stopRequested, hostVars, gateVars>>

(* WakeJoiners after a normal return; main's return ends the carrier loop  *)
(* but not a pump that served it.                                          *)
AfterReturn(k) == IF running[k] = Main /\ windows[k] = <<>> THEN "leave"
                  ELSE "pop"

WakeAfterFinish(k) ==
    /\ At(k, "wake")
    /\ WakeJoiners(running[k], FALSE, state, joinResultDst)
    /\ running' = [running EXCEPT ![k] = NoContext]
    /\ Go(k, AfterReturn(k))
    /\ UNCHANGED <<frames, framesParked, lastCarrier, parkHandle, failExc,
                   nextId, timers, timerNotify, held, countVars,
                   stopRequested, hostVars, gateVars>>

(***************************************************************************)
(* An uncaught NLang exception: FailContextContained, first MarkFailed.    *)
(* Inside a window the exception first ends the window (CloseWindow).      *)
(***************************************************************************)
Fail(k) ==
    /\ Runs(k, "fail")
    /\ ~InOwnWindow(k)
    /\ LET c == running[k] IN
         /\ state' = [state EXCEPT ![c] = "Failed"]
         /\ frames' = [frames EXCEPT ![c] = "none"]
         /\ failExc' = [failExc EXCEPT ![c] = TRUE]
         /\ held' = Released(k, c)
         /\ StopFor(c)
         /\ Go(k, IF c = Main THEN "raise" ELSE "failwake")
    /\ UNCHANGED <<framesParked, lastCarrier, parkHandle, selectSet,
                   joinResultDst, rethrow, failObserved, queueVars, running,
                   countVars, hostVars, gateVars>>

(* FailContextContained, then WakeJoiners with the failure. *)
WakeAfterFailure(k) ==
    /\ At(k, "failwake")
    /\ WakeJoiners(running[k], TRUE, state, joinResultDst)
    /\ running' = [running EXCEPT ![k] = NoContext]
    /\ Go(k, "pop")
    /\ UNCHANGED <<frames, framesParked, lastCarrier, parkHandle, failExc,
                   nextId, timers, timerNotify, held, countVars,
                   stopRequested, hostVars, gateVars>>

(* FailContextFatal: an error of the VM itself, fatal for the whole run. *)
Fatal(k) ==
    /\ Runs(k, "fatal")
    /\ ~InOwnWindow(k)
    /\ LET c == running[k] IN
         /\ state' = [state EXCEPT ![c] = "Failed"]
         /\ frames' = [frames EXCEPT ![c] = "none"]
         /\ failExc' = [failExc EXCEPT ![c] = FALSE]
         /\ held' = Released(k, c)
         /\ StopFor(c)
    /\ Unwinds(k, "raise")
    /\ UNCHANGED <<framesParked, lastCarrier, parkHandle, selectSet,
                   joinResultDst, rethrow, failObserved, queueVars, running,
                   countVars, hostVars, gateVars>>

(* First wins: only the born-parked state can be completed. *)
Undecided(p) == state[p] = "ParkedPromise"

(***************************************************************************)
(* promise.complete and promise.completeExceptionally: check, decision,    *)
(* delivery and wake are one critical section.  The loser of two completes *)
(* changes nothing.                                                        *)
(***************************************************************************)
Complete(k, p, failed) ==
    /\ Runs(k, "promise")
    /\ Undecided(p)
    /\ LET s == IF failed THEN "Failed" ELSE "Finished"
           dst == IF failed THEN joinResultDst ELSE Delivered(p) IN
           WakeJoiners(p, failed, [state EXCEPT ![p] = s], dst)
    /\ failExc' = [failExc EXCEPT ![p] = @ \/ failed]
    /\ UNCHANGED <<frames, framesParked, lastCarrier, parkHandle, nextId,
                   timers, timerNotify, held, running, countVars,
                   stopRequested, hostVars, gateVars, pc>>

-----------------------------------------------------------------------------
(***************************************************************************)
(* Blocking natives (RunBlockingNative, FinishBlockingNative): the carrier *)
(* keeps the context, the frames wait in the context.                      *)
(***************************************************************************)
EnterNative(k) ==
    /\ Runs(k, "native")
    /\ state' = [state EXCEPT ![running[k]] = "BlockedNative"]
    /\ frames' = [frames EXCEPT ![running[k]] = "context"]
    /\ blockedCount' = blockedCount + 1
    /\ Go(k, "native")
    /\ UNCHANGED <<framesParked, lastCarrier, parkHandle, selectSet,
                   joinResultDst, rethrow, failExc, failObserved, queueVars,
                   carrierVars, idleCount, activeCount, stopRequested,
                   hostVars, gateVars>>

ReturnFromNative(k) ==
    /\ At(k, "native")
    /\ ~stopRequested
    /\ state' = [state EXCEPT ![running[k]] = "Runnable"]
    /\ frames' = [frames EXCEPT ![running[k]] = k]
    /\ blockedCount' = blockedCount - 1
    /\ Go(k, "run")
    /\ UNCHANGED <<framesParked, lastCarrier, parkHandle, selectSet,
                   joinResultDst, rethrow, failExc, failObserved, queueVars,
                   carrierVars, idleCount, activeCount, stopRequested,
                   hostVars, gateVars>>

(* ShutdownSignal: the frames stay parked, the carrier leaves its loop. *)
ShutdownInNative(k) ==
    /\ At(k, "native")
    /\ stopRequested
    /\ Go(k, IF windows[k] = <<>> THEN "leave"
             ELSE IF InOwnWindow(k) THEN "shutdown" ELSE "abandon")
    /\ UNCHANGED <<contextVars, queueVars, carrierVars, countVars,
                   stopRequested, hostVars, gateVars>>

-----------------------------------------------------------------------------
(***************************************************************************)
(* Timers.  The clock is not modelled: any registered sleepers may be due, *)
(* in any order of their deadlines.                                        *)
(***************************************************************************)

ExpireDueTimers(due) ==
    /\ due # {}
    /\ state' = WithState(due, "Runnable")
    /\ \E q \in Orders(Queueable(due)) : runQueue' = runQueue \o q
    /\ timers' = timers \ due

(* TimerThreadMain: expire under the lock, notify after its release. *)
TimerExpire ==
    /\ ~timerNotify
    /\ \E due \in SUBSET timers : ExpireDueTimers(due)
    /\ timerNotify' = TRUE
    /\ UNCHANGED <<frames, framesParked, lastCarrier, parkHandle, selectSet,
                   joinResultDst, rethrow, failExc, failObserved, nextId,
                   carrierVars, countVars, stopRequested, hostVars, gateVars, pc>>

TimerNotify ==
    /\ timerNotify
    /\ timerNotify' = FALSE
    /\ asleep' = {}
    /\ UNCHANGED <<contextVars, nextId, runQueue, timers, held, running,
                   countVars, stopRequested, hostVars, gateVars, pc>>

(* The quota point serves due timers itself: ServiceDueTimers. *)
ServiceDueTimers(k) ==
    /\ At(k, "run")
    /\ \E due \in SUBSET timers : ExpireDueTimers(due)
    /\ asleep' = {}
    /\ UNCHANGED <<frames, framesParked, lastCarrier, parkHandle, selectSet,
                   joinResultDst, rethrow, failExc, failObserved, nextId,
                   timerNotify, held, running, countVars, stopRequested,
                   hostVars, gateVars, pc>>

-----------------------------------------------------------------------------
(***************************************************************************)
(* The end of a carrier (RunAuxiliaryCarrier, RunPrimaryCarrier).          *)
(***************************************************************************)
Escapes(k) == pc[k] \in {"raise", "deadlock"}

ErrorForgotten(k) == auxError

(* RecordAuxiliaryError *)
ErrorAfter(k) == auxError \/ Escapes(k)

(* RecordAuxiliaryError and RequestStop, then the CarrierActiveGuard. *)
LeaveAuxiliary(k) ==
    /\ k # Primary
    /\ At(k, "leave") \/ Escapes(k)
    /\ auxError' = ErrorAfter(k)
    /\ StopIf(Escapes(k))
    /\ activeCount' = activeCount - 1
    /\ Go(k, "exited")
    /\ UNCHANGED <<contextVars, queueVars, held, running, idleCount,
                   blockedCount, outcome, detached, gateVars>>

LeavePrimary ==
    /\ At(Primary, "leave") \/ Escapes(Primary)
    /\ outcome' = IF Escapes(Primary) THEN "error" ELSE outcome
    /\ StopIf(TRUE)
    /\ Go(Primary, "join")
    /\ UNCHANGED <<contextVars, queueVars, held, running, countVars,
                   auxError, detached, gateVars>>

(***************************************************************************)
(* JoinAndCollect and RethrowAuxiliaryError.  The wait ends when all       *)
(* auxiliaries have exited or the grace period is over, whatever they do.  *)
(***************************************************************************)
JoinAndCollect ==
    /\ At(Primary, "join")
    /\ detached' = {k \in program.carriers \ {Primary} : pc[k] # "exited"}
    /\ outcome' = IF auxError THEN "error"
                  ELSE IF outcome = "running" THEN "returned" ELSE outcome
    /\ activeCount' = activeCount - 1
    /\ Go(Primary, "exited")
    /\ UNCHANGED <<contextVars, queueVars, carrierVars, idleCount,
                   blockedCount, stopRequested, auxError, gateVars>>

(* The run is over once the primary carrier has returned to the host. *)
RunIsOver == At(Primary, "exited")
Terminated == RunIsOver /\ UNCHANGED vars

-----------------------------------------------------------------------------
CarrierStep(k) ==
    \/ Launch(k)
    \/ TakeNext(k) \/ StopAtPop(k) \/ ReportDeadlock(k)
    \/ Sleep(k) \/ SleepAgain(k)
    \/ WaitAtFreezeGate(k) \/ WaitForHeldFocus(k)
    \/ Splice(k) \/ ParkContextFrames(k)
    \/ DeliverJoinResults(k) \/ WakeAfterFinish(k) \/ WakeAfterFailure(k)
    \/ ShutdownInNative(k)
    \/ LeaveAuxiliary(k)

ProgramStep(k) ==
    \/ Yield(k) \/ Preempt(k) \/ Spawn(k) \/ NewPromise(k) \/ ParkForTimer(k)
    \/ \E t \in Contexts, takesResult \in BOOLEAN : ParkForJoin(k, t, takesResult)
    \/ \E targets \in SUBSET Others(k) : ParkForJoinAny(k, targets)
    \/ \E t \in Contexts : ObserveFailure(k, t)
    \/ \E p \in Contexts, failed \in BOOLEAN : Complete(k, p, failed)
    \/ Finish(k) \/ Fail(k) \/ Fatal(k)
    \/ EnterNative(k) \/ ReturnFromNative(k)
    \/ ServiceDueTimers(k)

Next ==
    \/ /\ ~RunIsOver
       /\ \/ \E k \in Carriers : CarrierStep(k) \/ ProgramStep(k)
          \/ TimerExpire \/ TimerNotify
          \/ LeavePrimary \/ JoinAndCollect
    \/ Terminated

Spec == Init /\ [][Next]_vars

(***************************************************************************)
(* Fairness.  Threads get the scheduler lock they wait for and go on; a    *)
(* running context that loops meets its quota point; deadlines pass and    *)
(* the timer thread serves every one of them.  Nothing makes a context     *)
(* return or a native call come back.                                      *)
(***************************************************************************)
BeforeEnd(A) == ~RunIsOver /\ A
Fairness ==
    /\ \A k \in Carriers : WF_vars(BeforeEnd(CarrierStep(k)))
    /\ \A k \in Carriers : SF_vars(BeforeEnd(Preempt(k)))
    /\ \A c \in Contexts : SF_vars(BeforeEnd(TimerExpire /\ c \in timers \ timers'))
    /\ WF_vars(BeforeEnd(TimerNotify))
    /\ WF_vars(BeforeEnd(LeavePrimary))
    /\ WF_vars(BeforeEnd(JoinAndCollect))

FairSpec == Spec /\ Fairness

-----------------------------------------------------------------------------
(***************************************************************************)
(* Properties.                                                             *)
(***************************************************************************)

(* The types of the scheduler's tables, the queue and the carriers' slots. *)
TypeOK ==
    /\ state \in [Contexts -> States]
    /\ frames \in [Contexts -> {"none", "context"} \cup Carriers]
    /\ framesParked \in [Contexts -> BOOLEAN]
    /\ lastCarrier \in [Contexts -> Carriers \cup {NoCarrier}]
    /\ parkHandle \in [Contexts -> Contexts \cup {SelectAnyNoTarget}]
    /\ selectSet \in [Contexts -> SUBSET Contexts]
    /\ joinResultDst \in [Contexts -> BOOLEAN]
    /\ rethrow \in [Contexts -> BOOLEAN]
    /\ failExc \in [Contexts -> BOOLEAN]
    /\ failObserved \in [Contexts -> BOOLEAN]
    /\ nextId \in 1 .. MaxContexts
    /\ runQueue \in Seq(Contexts)
    /\ timers \subseteq Contexts
    /\ timerNotify \in BOOLEAN
    /\ held \in [Carriers -> Contexts \cup {NoContext}]
    /\ running \in [Carriers -> Contexts \cup {NoContext}]
    /\ asleep \subseteq Carriers
    /\ idleCount \in Nat
    /\ activeCount \in Nat
    /\ blockedCount \in Nat
    /\ stopRequested \in BOOLEAN
    /\ auxError \in BOOLEAN
    /\ outcome \in {"running", "returned", "error"}
    /\ detached \subseteq Carriers
    /\ pc \in [Carriers -> Locations]
    /\ program \in Programs
    /\ windows \in [Carriers -> Seq([ctx : Contexts, token : Nat])]
    /\ \A k \in Carriers : Len(windows[k]) <= MaxWindows
    /\ token \in [Carriers -> Nat]
    /\ pinned \in [Contexts -> Nat]
    /\ pumpCount \in Nat
    /\ wrecked \subseteq Contexts
    /\ focus \in Contexts \cup {NoContext}
    /\ freezeDepth \in Nat
    /\ ioWaits \subseteq Contexts
    /\ ioArmed \in [Contexts -> BOOLEAN]
    /\ poller \in {"wait", "poll", "notify"}

(***************************************************************************)
(* A context is never dispatched twice: it has at most one queue entry, it *)
(* is not queued while a carrier has it, no two carriers have it, and a    *)
(* queued context has its frames in place (only a fresh main has none).    *)
(* This is what the framesParked handshake between ParkContextFrames and   *)
(* the wake paths is for.  The context of a suspended window that a stop   *)
(* or an error tore down is exempt, here and below (see WindowsComeHome).  *)
(***************************************************************************)
DispatchedOnce ==
    /\ \A i, j \in DOMAIN runQueue : runQueue[i] = runQueue[j] => i = j
    /\ \A i \in DOMAIN runQueue : runQueue[i] \notin wrecked =>
          /\ state[runQueue[i]] = "Runnable"
          /\ frames[runQueue[i]] = "context" \/ runQueue[i] = Main
          /\ \A k \in Carriers : running[k] # runQueue[i]
    /\ \A k, l \in Carriers :
          running[k] = running[l] /\ running[k] \notin {NoContext} \cup wrecked
              => k = l

(***************************************************************************)
(* No wake is lost: a Runnable context is queued or a carrier has it, and  *)
(* a parked one whose frames have not landed has a carrier about to land   *)
(* them.  (A stop lets a carrier drop the context it has in a native.)     *)
(***************************************************************************)
HoldsContext == {"splice", "run", "unwind", "sync", "debug", "ioclose",
                 "ioparked", "abandon", "perish"}
NoRunnableLost ==
    \A c \in Contexts \ wrecked :
        /\ state[c] = "Runnable" =>
              \/ IsQueued(c)
              \/ \E k \in Carriers : /\ running[k] = c
                                     /\ pc[k] \in HoldsContext \/ stopRequested
        /\ state[c] \in Parked /\ ~framesParked[c] =>
              \E k \in Carriers : /\ running[k] = c
                                  /\ \/ pc[k] \in {"unwind", "sync", "ioparked"}
                                     \/ stopRequested

(***************************************************************************)
(* The counters the deadlock report is computed from count what they say:  *)
(* m_idleCarrierCount the carriers in the wait, m_activeCarrierCount those *)
(* in flight, until the stop m_blockedNativeCount those in a native, and   *)
(* m_activePumpCount the suspended windows.  All tables keep their types.  *)
(***************************************************************************)
CountersExact ==
    /\ TypeOK
    /\ idleCount = Cardinality({k \in Carriers : pc[k] \in CountsAsIdle})
    /\ pumpCount = Cardinality({w \in Carriers \X (1 .. MaxWindows) :
                        /\ w[2] \in DOMAIN windows[w[1]]
                        /\ windows[w[1]][w[2]].token # 0})
    /\ activeCount =
          Cardinality({k \in Carriers : pc[k] \notin {"off", "exited"}})
    /\ ~stopRequested =>
          blockedCount = Cardinality({k \in Carriers : At(k, "native")})

(***************************************************************************)
(* No carrier sleeps through work, an opened gate or the stop: when the    *)
(* predicate of its wait holds, a sleeper has been notified, or the timer  *)
(* thread or the poller is on its way to do it.  Two wakes are announced   *)
(* by nobody: that of a socket's close (WakeForIo, the context is armed),  *)
(* and the focus gate's when its context enters a native.                  *)
(***************************************************************************)
WorkIsAnnounced ==
    \A k \in asleep : MayProceed(k) =>
        \/ timerNotify
        \/ poller = "notify"
        \/ At(k, "idle") /\ ~stopRequested
              /\ \A i \in Popable(k) : ioArmed[runQueue[i]]
        \/ At(k, "focuswait") /\ ~stopRequested
              /\ state[focus] = "BlockedNative"

(***************************************************************************)
(* PopNextRunnable reports a deadlock only when nothing can run any more:  *)
(* no context is Runnable (on a carrier, in the queue or stopped in the    *)
(* debugger), sleeping, inside a native or waiting for a descriptor.       *)
(***************************************************************************)
DeadlockReportIsTrue ==
    [][(\E k \in Carriers : ReportDeadlock(k)) =>
          \A c \in Contexts : state[c] \notin
              {"Runnable", "ParkedTimer", "BlockedNative", "ParkedIo"}]_vars

(* Every configured carrier sleeps and no helper thread has work for them. *)
EverybodySleeps ==
    /\ \A k \in program.carriers : pc[k] \in Waits /\ k \in asleep
    /\ ~timerNotify /\ timers = {}
    /\ poller # "notify" /\ ioWaits = {}

(***************************************************************************)
(* A deadlock is never slept through: carriers that all sleep are waiting  *)
(* for a timer or a descriptor.  (With a suspended window they may sleep   *)
(* for ever: DeadlockIsReported in module VmPump.)                         *)
(***************************************************************************)
NoSilentHang == EverybodySleeps => pumpCount > 0

(***************************************************************************)
(* join, get and selectAny never wait for a target that is already decided *)
(* unless the carrier that decided it is still on its way to WakeJoiners,  *)
(* or the run is ending (a fatal error wakes nobody).                      *)
(***************************************************************************)
WakerOnItsWay(t) ==
    \E k \in Carriers : running[k] = t /\ pc[k] \in {"finish", "wake", "failwake"}

JoinersHaveAWaker ==
    \A c, t \in Contexts :
        /\ state[c] = "ParkedJoin"
        /\ parkHandle[c] = t \/ t \in selectSet[c]
        /\ state[t] \in Decided
        => \/ WakerOnItsWay(t)
           \/ stopRequested
           \/ \E k \in Carriers : Escapes(k) \/ pc[k] \in {"abandon", "perish"}

(***************************************************************************)
(* A resumed get() or selectAny() finds its result in place (the call is   *)
(* not executed again), and a context that must rethrow on resume names a  *)
(* failed target that left an exception object.                            *)
(***************************************************************************)
ResultBeforeResume ==
    \A c \in Contexts :
        /\ joinResultDst[c] => state[c] = "ParkedJoin"
        /\ rethrow[c] => /\ ~joinResultDst[c]
                         /\ state[parkHandle[c]] = "Failed"
                         /\ failExc[parkHandle[c]]

(***************************************************************************)
(* The host learns how the run ended: if it gets a normal return and no    *)
(* carrier had to be detached, main has finished and no carrier failed.    *)
(***************************************************************************)
HostOutcomeIsTrue ==
    outcome = "returned" /\ detached = {} =>
        /\ state[Main] = "Finished"
        /\ \A k \in Carriers : ~Escapes(k)
        /\ \A c \in Contexts : state[c] = "Failed" => failExc[c]

(***************************************************************************)
(* Rotation: until the stop a queued context is dispatched in the end,     *)
(* whatever the other contexts and the affinity scan of PopAffinity do.    *)
(***************************************************************************)
QueuedIsDispatched ==
    \A c \in Contexts : IsQueued(c) ~> (~IsQueued(c) \/ stopRequested)

Resumed(c) == \E k \in Carriers : running[k] = c /\ At(k, "run")

(* Sleeping, or waiting for a context or promise that is already decided. *)
WaitEnds(c) == \/ state[c] = "ParkedTimer"
               \/ /\ state[c] = "ParkedJoin"
                  /\ parkHandle[c] \in Contexts
                  /\ state[parkHandle[c]] \in Decided

(***************************************************************************)
(* thread.sleep, join and get end: the timer thread, a quota point or the  *)
(* carrier of the decided target wakes the waiter, also when it had not    *)
(* finished parking yet, a carrier learns of it and resumes it.            *)
(***************************************************************************)
WaitersResume ==
    \A c \in Contexts : WaitEnds(c) ~> (Resumed(c) \/ stopRequested)

(* What the manual says of the end of a run: when the entry context        *)
(* returns, the program ends, whatever the other contexts are doing.       *)
ProgramEnds == state[Main] = "Finished" ~> RunIsOver
==============================================================================
