---------------------------- MODULE VmGateProofs -----------------------------
(***************************************************************************)
(* Proofs about the gates of PopNextRunnable: who sleeps, who is told, when*)
(* a deadlock is reported, what the debugger's windows hold back and what  *)
(* the locks let through (VmScheduler, VmDebug and VmSync, in the runtime).*)
(*                                                                         *)
(* GateInv adds to the inductive invariant of VmDispatchProofs that a      *)
(* sleeper has no reason to be awake (WorkInv), that the last carrier to go*)
(* idle reports the deadlock unless a window is suspended (HangInv), that  *)
(* the turns of the freeze windows are kept (DebugInv) and that nobody     *)
(* waits for a free lock                                                   *)
(* (FreeInv).  A carrier's step is Lively (it stays awake, and either tells*)
(* everybody or has no news for the sleepers), or falls asleep under the   *)
(* scheduler's lock, or is a dispatch; the timer thread and the poller     *)
(* queue first and notify later.                                           *)
(*                                                                         *)
(* As in VmDispatchProofs nested windows may open, park and return, and    *)
(* none is torn down (NoTeardown).                                         *)
(***************************************************************************)
EXTENDS VmDispatchProofs

\* A helper thread has queued something and is about to notify everybody.
Told == timerNotify \/ poller = "notify"

\* A queue entry whose queueing notified the sleepers (a retried I/O is
\* queued without).
Fresh(c) == Occurs(c, runQueue) /\ ~ioArmed[c]

\* The focus gate is closed, or was when its context went into a native.
FocusShut ==
    /\ focus \in Contexts
    /\ \/ state[focus] = "BlockedNative"
       \/ state[focus] = "Runnable" /\ ~Occurs(focus, runQueue)

\* Whoever sleeps has no reason to be awake, or is about to be told; a stop
\* wakes everybody.
WorkInv ==
    /\ stopRequested => asleep = {}
    /\ \A k \in asleep : ~Told =>
          /\ pc[k] = "idle" => \A c \in Contexts : Fresh(c) => ~Visible(k, c)
          /\ pc[k] = "focuswait" => FocusShut
          /\ pc[k] = "freezewait" => freezeDepth # 0

\* Every configured carrier counts as idle ...
AllIdle == \A k \in program.carriers : pc[k] \in CountsAsIdle

\* ... or sleeps in one of the three waits.
AllAsleep == \A k \in program.carriers : pc[k] \in Waits /\ k \in asleep

\* The last carrier to go idle with nothing to wait for would have reported
\* the deadlock, and carriers that all sleep have left nothing in the queue,
\* unless a suspended window keeps a carrier from reporting it.
HangInv ==
    pumpCount = 0 =>
        /\ AllIdle /\ timers = {} /\ ioWaits = {} => runQueue # <<>>
        /\ AllAsleep => runQueue = <<>> \/ Told

\* The controller's turn: the open window and the queue hold the stopped
\* contexts, each once, and each of them is on a carrier that waits for it.
DebugInv ==
    /\ Distinct(freezeQueue)
    /\ \A c \in Contexts : Occurs(c, freezeQueue) =>
          /\ c # frozen
          /\ \E k \in Carriers : stage[k] = "await" /\ running[k] = c
    /\ frozen = NoContext => freezeQueue = <<>>
    /\ frozen # NoContext =>
          \E k \in Carriers : stage[k] \in {"await", "window", "close"} /\ running[k] = frozen
    /\ \A k \in Carriers :
          /\ stage[k] \in {"window", "close"} => running[k] = frozen
          /\ stage[k] = "await" => running[k] = frozen \/ Occurs(running[k], freezeQueue)

-----------------------------------------------------------------------------
USE DEF contextVars, queueVars, carrierVars, countVars, hostVars, pumpVars,
        ioVars, gateVars

\* One configured carrier that is awake moves, and a stopped one keeps its
\* context.
Turn(k) ==
    /\ k \in program.carriers /\ k \notin asleep /\ program' = program
    /\ \A j \in Carriers \ {k} : pc'[j] = pc[j] /\ running'[j] = running[j]
    /\ pc[k] = "debug" => running'[k] = running[k]

\* A step that tells the sleepers nothing they would have to know.
NoNews ==
    /\ asleep' = asleep /\ stopRequested' = stopRequested
    /\ Told => Told'
    /\ \A c \in Contexts : Fresh(c)' => Fresh(c)
    /\ \A c \in Contexts : \A j \in asleep : Fresh(c)' /\ Visible(j, c)' => Visible(j, c)
    /\ FocusShut => FocusShut'
    /\ freezeDepth # 0 => freezeDepth' # 0

\* Carrier k moves to a place that is neither a wait nor a dispatch, and the
\* sleepers are told if there is anything to tell.
Lively(k) ==
    /\ Turn(k)
    /\ pc'[k] \notin Waits \cup {"splice"}
    /\ asleep' = {} \/ NoNews

\* A step that touches nothing a sleeper waits for ...
Still == UNCHANGED <<asleep, stopRequested, timerNotify, poller, runQueue, ioArmed, state, focus,
                     freezeDepth, token, pinned>>

\* ... or only states, while there is no focus.
Calmed == /\ UNCHANGED <<stopRequested, timerNotify, poller, runQueue, ioArmed, focus, freezeDepth,
                         token, pinned>>
          /\ asleep' = asleep /\ focus = NoContext

\* Both tell no news.
LEMMA StillNoNews == ASSUME Still PROVE NoNews
BY DEF Still, NoNews, Told, Fresh, FocusShut, Occurs, Visible

\* Without a focus no gate can open.
LEMMA CalmedNoNews == ASSUME Calmed PROVE NoNews
BY DEF Calmed, NoNews, Told, Fresh, FocusShut, Occurs, Visible, NoContext, Contexts
-----------------------------------------------------------------------------
\* A lock or semaphore with a waiter that has not been stamped.
Waited(p) == \E i \in DOMAIN waiters[p] : IsLive(waiters[p][i])

\* A lock that is waited for has an owner, a semaphore no permit.
FreeInv ==
    /\ \A l \in Locks : Waited(l) => owner[l] # NoContext
    /\ \A s \in Semaphores : Waited(s) => count[s] = 0

\* A step on one lock or semaphore keeps FreeInv if it keeps it there.
LEMMA FreeKept ==
    ASSUME IndInv, FreeInv, NEW p \in Primitives,
           \A q \in Primitives \ {p} :
              /\ waiters'[q] = waiters[q]
              /\ q \in Locks => owner'[q] = owner[q]
              /\ q \in Semaphores => count'[q] = count[q],
           \/ ~Waited(p)'
           \/ Waited(p) /\ (p \in Locks => owner'[p] # NoContext)
                        /\ (p \in Semaphores => count'[p] = count[p])
           \/ p \in Locks /\ owner'[p] # NoContext
           \/ p \in Semaphores /\ count'[p] = 0
    PROVE  FreeInv'
<1>0. Locks \cap Semaphores = {} /\ Primitives = Locks \cup Semaphores
  BY SyncAssumption DEF Primitives
<1>1. \A q \in Primitives \ {p} : Waited(q)' <=> Waited(q)
  BY DEF Waited
<1> QED
  BY <1>0, <1>1 DEF FreeInv

\* Every section of lock, unlock, acquire and release keeps FreeInv.
LEMMA FreeSteps ==
    ASSUME IndInv, FreeInv, NEW k \in Carriers, SyncStep(k)
    PROVE  FreeInv'
<1>0. /\ Locks \cap Semaphores = {} /\ Locks \subseteq Primitives /\ Semaphores \subseteq Primitives
      /\ waiters \in [Primitives -> Seq(Entries)] /\ owner \in [Locks -> Contexts \cup {NoContext}]
      /\ count \in [Primitives -> Nat] /\ NoContext \notin Contexts
      /\ call \in [Carriers -> Calls]
  BY SyncAssumption, SyncFacts, Base DEF Primitives, SyncTypeOK
<1>1. ASSUME NEW p \in Primitives
      PROVE  LiveIndices(p) # {} <=> Waited(p)
  BY DEF LiveIndices, Waited
<1>2. ASSUME UNCHANGED <<owner, count, waiters>> PROVE FreeInv'
  BY <1>2 DEF FreeInv, Waited
<1>3. ASSUME NEW l \in Locks, TakeLock(k, l) PROVE FreeInv'
  <2>1. pc[k] = "run" /\ owner' = [owner EXCEPT ![l] = running[k]]
        /\ waiters' = waiters /\ \A q \in Primitives \ {l} : count'[q] = count[q]
    BY <1>0, <1>3 DEF TakeLock, At
  <2>2. running[k] \in Contexts
    BY <2>1, Caller
  <2> QED
    BY <1>0, <2>1, <2>2, FreeKept
<1>4. ASSUME NEW l \in Locks, ReenterLock(k, l) PROVE FreeInv'
  <2>1. /\ UNCHANGED <<owner, waiters>> /\ \A q \in Primitives \ {l} : count'[q] = count[q]
        /\ pc[k] = "run" /\ owner[l] = running[k]
    BY <1>0, <1>4 DEF ReenterLock, At
  <2>2. running[k] \in Contexts
    BY <2>1, Caller
  <2> QED
    BY <1>0, <2>1, <2>2, FreeKept
<1>5. ASSUME NEW l \in Locks, WaitForLock(k, l) PROVE FreeInv'
  <2>1. /\ UNCHANGED <<owner, count>> /\ \A q \in Primitives \ {l} : waiters'[q] = waiters[q]
        /\ owner[l] # NoContext
    BY <1>0, <1>5 DEF WaitForLock, Register, IsFree
  <2> QED
    BY <1>0, <2>1, FreeKept
<1>6. ASSUME NEW l \in Locks, Unlock(k, l) PROVE FreeInv'
  <2>1. CASE l \in ReentrantMutexes /\ count[l] > 1
    <3>1. /\ UNCHANGED <<owner, waiters>> /\ \A q \in Primitives \ {l} : count'[q] = count[q]
          /\ pc[k] = "run" /\ owner[l] = running[k]
      BY <1>0, <1>6, <2>1 DEF Unlock, At, MayUnlock
    <3>2. running[k] \in Contexts
      BY <3>1, Caller
    <3> QED
      BY <1>0, <3>1, <3>2, FreeKept
  <2>2. CASE ~(l \in ReentrantMutexes /\ count[l] > 1) /\ LiveIndices(l) = {}
    <3>1. /\ UNCHANGED waiters
          /\ \A q \in Primitives \ {l} : /\ count'[q] = count[q]
                                         /\ q \in Locks => owner'[q] = owner[q]
      BY <1>0, <1>6, <2>2 DEF Unlock
    <3>2. ~Waited(l)'
      BY <1>0, <1>1, <2>2, <3>1 DEF Waited
    <3> QED
      BY <1>0, <3>1, <3>2, FreeKept
  <2>3. CASE ~(l \in ReentrantMutexes /\ count[l] > 1) /\ LiveIndices(l) # {}
    <3>1. /\ UNCHANGED count
          /\ owner' = [owner EXCEPT ![l] = waiters[l][FirstLive(l)].ctx]
          /\ \A q \in Primitives \ {l} : waiters'[q] = waiters[q]
      BY <1>0, <1>6, <2>3 DEF Unlock, HandOff
    <3>2. waiters[l][FirstLive(l)].ctx \in Contexts
      BY <1>0, <2>3, FirstIsLive
    <3> QED
      BY <1>0, <3>1, <3>2, FreeKept
  <2> QED
    BY <2>1, <2>2, <2>3
<1>7. ASSUME NEW s \in Semaphores, TakePermit(k, s) PROVE FreeInv'
  <2>1. /\ UNCHANGED <<owner, waiters>> /\ \A q \in Primitives \ {s} : count'[q] = count[q]
        /\ count[s] > 0
    BY <1>0, <1>7 DEF TakePermit, HasPermit
  <2>2. ~Waited(s)
    BY <1>0, <2>1 DEF FreeInv
  <2>3. ~Waited(s)'
    BY <2>1, <2>2 DEF Waited
  <2> QED
    BY <1>0, <2>1, <2>3, FreeKept
<1>8. ASSUME NEW s \in Semaphores, WaitForPermit(k, s) PROVE FreeInv'
  <2>1. /\ UNCHANGED <<owner, count>> /\ \A q \in Primitives \ {s} : waiters'[q] = waiters[q]
        /\ count[s] = 0
    BY <1>0, <1>8 DEF WaitForPermit, Register, HasPermit
  <2> QED
    BY <1>0, <2>1, FreeKept
<1>9. ASSUME NEW s \in Semaphores, Release(k, s) PROVE FreeInv'
  <2>1. CASE LiveIndices(s) = {}
    <3>1. /\ UNCHANGED <<owner, waiters>> /\ \A q \in Primitives \ {s} : count'[q] = count[q]
      BY <1>0, <1>9, <2>1 DEF Release
    <3>2. ~Waited(s)'
      BY <1>0, <1>1, <2>1, <3>1 DEF Waited
    <3> QED
      BY <1>0, <3>1, <3>2, FreeKept
  <2>2. CASE LiveIndices(s) # {}
    <3>1. /\ UNCHANGED <<owner, count>> /\ \A q \in Primitives \ {s} : waiters'[q] = waiters[q]
      BY <1>0, <1>9, <2>2 DEF Release, HandOff
    <3>2. count[s] = 0
      BY <1>0, <1>1, <2>2 DEF FreeInv
    <3> QED
      BY <1>0, <3>1, <3>2, FreeKept
  <2> QED
    BY <2>1, <2>2
<1>10. ASSUME Migrate(k) \/ AbortPark(k) \/ WakeNewOwner(k) PROVE FreeInv'
  BY <1>2, <1>10 DEF Migrate, AbortPark, WakeNewOwner
<1>11. ASSUME Recheck(k) PROVE FreeInv'
  <2>0. PICK p \in Primitives : /\ p = call[k].on /\ call[k].stage = "recheck"
                                /\ UNCHANGED <<owner, count>>
    BY <1>11, EntryAlone, SyncFacts DEF Recheck, InCall, At
  <2>9. PICK i : i = OwnIndex(k, p)
    OBVIOUS
  <2> DEFINE e == waiters[p][i]
  <2>1. i \in DOMAIN waiters[p] /\ waiters[p] \in Seq(Entries)
    <3>1. PICK j \in DOMAIN waiters[p] : waiters[p][j].ctx = running[k]
      BY <2>0, SyncFacts DEF CallInv, CallAt, Entry
    <3>2. \A l \in DOMAIN waiters[p] : waiters[p][l].ctx = running[k] => l = j
      BY <2>0, <3>1, SyncFacts DEF OneEntry
    <3>3. j \in Nat /\ j <= j /\ waiters[p] \in Seq(Entries)
      BY <1>0, <2>0, <3>1
    <3>4. i = j
      BY <2>9, <3>1, <3>2, <3>3 DEF OwnIndex
    <3> QED
      BY <3>1, <3>3, <3>4
  <2>2. \/ /\ StillPending(e)
           /\ waiters' = [waiters EXCEPT ![p] =
                   [@ EXCEPT ![i] = [ctx |-> e.ctx, phase |-> "Committed"]]]
        \/ waiters' = [waiters EXCEPT ![p] = Without(@, i)]
    BY <1>11, <2>0, <2>9 DEF Recheck
  <2>3. \A q \in Primitives \ {p} : waiters'[q] = waiters[q]
    BY <1>0, <2>0, <2>2
  <2>4. Waited(p)' => Waited(p)
    <3>1. CASE StillPending(e)
      BY <2>1, <3>1 DEF Waited, IsLive, StillPending
    <3>2. CASE ~StillPending(e)
      <4>1. waiters'[p] = Skipping(waiters[p], i)
        BY <1>0, <2>0, <2>2, <3>2 DEF Without, Skipping
      <4>2. \A d : Occurs(d, waiters'[p]) => Occurs(d, waiters[p])
        BY <2>1, <4>1, OneLess
      <4>3. \A j \in DOMAIN waiters'[p] : Occurs(waiters'[p][j], waiters[p])
        BY <4>2 DEF Occurs
      <4>4. SUFFICES ASSUME NEW j \in DOMAIN waiters'[p], IsLive(waiters'[p][j]) PROVE Waited(p)
        BY DEF Waited, IsLive
      <4>5. PICK n \in DOMAIN waiters[p] : waiters[p][n] = waiters'[p][j]
        BY <4>3 DEF Occurs
      <4> QED
        BY <4>4, <4>5 DEF Waited, IsLive
    <3> QED
      BY <3>1, <3>2
  <2>5. CASE Waited(p)
    <3>1. /\ p \in Locks => owner'[p] # NoContext
          /\ p \in Semaphores => count'[p] = count[p]
      BY <2>0, <2>5 DEF FreeInv
    <3>2. \A q \in Primitives \ {p} : /\ waiters'[q] = waiters[q]
                                      /\ q \in Locks => owner'[q] = owner[q]
                                      /\ q \in Semaphores => count'[q] = count[q]
      BY <2>0, <2>3
    <3> QED
      BY <2>0, <2>5, <3>1, <3>2, FreeKept
  <2>6. CASE ~Waited(p)
    BY <2>0, <2>3, <2>4, <2>6, FreeKept
  <2> QED
    BY <2>5, <2>6
<1> QED
  BY <1>3, <1>4, <1>5, <1>6, <1>7, <1>8, <1>9, <1>10, <1>11 DEF SyncStep
-----------------------------------------------------------------------------
\* What the invariant says of one carrier and of the gates.
LEMMA AtHand ==
    ASSUME IndInv, NEW k \in Carriers
    PROVE  /\ CarrierAt(k, pc[k])
           /\ k \in asleep => pc[k] \in Waits
           /\ pc[k] # "off" => k \in program.carriers
           /\ pc \in [Carriers -> Locations] /\ running \in [Carriers -> Contexts \cup {NoContext}]
           /\ state \in [Contexts -> States] /\ freezeDepth \in Nat /\ stopRequested \in BOOLEAN
           /\ NoContext \notin Contexts
<1>1. PlaceInv /\ TypeOK
  BY Base
<1> QED
  BY <1>1, Here DEF PlaceInv, TypeOK

\* The lively steps of the carrier loop,
LEMMA LivelyCarrier ==
    ASSUME IndInv, NEW k \in Carriers,
           \/ Launch(k)
           \/ StopAtPop(k)
           \/ ReportDeadlock(k)
           \/ Splice(k)
           \/ ParkContextFrames(k)
           \/ DeliverJoinResults(k)
           \/ WakeAfterFinish(k)
           \/ WakeAfterFailure(k)
           \/ ShutdownInNative(k)
           \/ LeaveAuxiliary(k)
    PROVE  Lively(k)
<1>0. /\ CarrierAt(k, pc[k])
      /\ k \in asleep => pc[k] \in Waits
      /\ pc[k] # "off" => k \in program.carriers
      /\ pc \in [Carriers -> Locations] /\ running \in [Carriers -> Contexts \cup {NoContext}]
      /\ state \in [Contexts -> States] /\ freezeDepth \in Nat /\ stopRequested \in BOOLEAN
      /\ NoContext \notin Contexts
  BY AtHand
<1>1. CASE Launch(k)
  <2>1. Turn(k) /\ pc'[k] \notin Waits \cup {"splice"}
    BY <1>0, <1>1 DEF Turn, Waits, At, Go, Launch
  <2>2. Still
    BY <1>1 DEF Still, Launch
  <2> QED
    BY <2>1, <2>2, StillNoNews DEF Lively
<1>2. CASE StopAtPop(k)
  <2>1. Turn(k) /\ pc'[k] \notin Waits \cup {"splice"}
    BY <1>0, <1>2 DEF Turn, Waits, At, Go, StopAtPop, Unwinds, PassesFreeze, InPop
  <2>2. Still
    BY <1>2 DEF Still, StopAtPop
  <2> QED
    BY <2>1, <2>2, StillNoNews DEF Lively
<1>3. CASE ReportDeadlock(k)
  <2>1. Turn(k) /\ pc'[k] \notin Waits \cup {"splice"}
    BY <1>0, <1>3 DEF Turn, Waits, At, Go, ReportDeadlock, NothingToDispatch, Unwinds, PassesFreeze, InPop
  <2>2. Still
    BY <1>3 DEF Still, ReportDeadlock
  <2> QED
    BY <2>1, <2>2, StillNoNews DEF Lively
<1>4. CASE Splice(k)
  <2>1. Turn(k) /\ pc'[k] \notin Waits \cup {"splice"}
    BY <1>0, <1>4 DEF Turn, Waits, At, Go, Splice
  <2>2. Still
    BY <1>4 DEF Still, Splice
  <2> QED
    BY <2>1, <2>2, StillNoNews DEF Lively
<1>5. CASE ParkContextFrames(k)
  <2>1. Turn(k) /\ pc'[k] \notin Waits \cup {"splice"}
    BY <1>0, <1>5 DEF Turn, Waits, At, Go, ParkContextFrames
  <2>2. asleep' = {} \/ Still
    BY <1>5 DEF Still, ParkContextFrames
  <2> QED
    BY <2>1, <2>2, StillNoNews DEF Lively
<1>6. CASE DeliverJoinResults(k)
  <2>1. Turn(k) /\ pc'[k] \notin Waits \cup {"splice"}
    BY <1>0, <1>6 DEF Turn, Waits, At, Go, DeliverJoinResults
  <2>2. Still
    BY <1>6 DEF Still, DeliverJoinResults
  <2> QED
    BY <2>1, <2>2, StillNoNews DEF Lively
<1>7. CASE WakeAfterFinish(k)
  <2>1. Turn(k) /\ pc'[k] \notin Waits \cup {"splice"}
    BY <1>0, <1>7 DEF Turn, Waits, At, Go, WakeAfterFinish, AfterReturn, WakeJoiners
  <2>2. asleep' = {}
    BY <1>7 DEF WakeAfterFinish, WakeJoiners
  <2> QED
    BY <2>1, <2>2 DEF Lively
<1>8. CASE WakeAfterFailure(k)
  <2>1. Turn(k) /\ pc'[k] \notin Waits \cup {"splice"}
    BY <1>0, <1>8 DEF Turn, Waits, At, Go, WakeAfterFailure, WakeJoiners
  <2>2. asleep' = {}
    BY <1>8 DEF WakeAfterFailure, WakeJoiners
  <2> QED
    BY <2>1, <2>2 DEF Lively
<1>9. CASE ShutdownInNative(k)
  <2>1. Turn(k) /\ pc'[k] \notin Waits \cup {"splice"}
    BY <1>0, <1>9 DEF Turn, Waits, At, Go, ShutdownInNative
  <2>2. Still
    BY <1>9 DEF Still, ShutdownInNative
  <2> QED
    BY <2>1, <2>2, StillNoNews DEF Lively
<1>10. CASE LeaveAuxiliary(k)
  <2>1. Turn(k) /\ pc'[k] \notin Waits \cup {"splice"}
    BY <1>0, <1>10 DEF Turn, Waits, At, Go, LeaveAuxiliary, Escapes, StopIf
  <2>2. asleep' = {} \/ NoNews
    <3>1. Escapes(k) => asleep' = {}
      BY <1>10 DEF LeaveAuxiliary, StopIf
    <3>2. ~Escapes(k) => Still
      <4>1. stopRequested \in BOOLEAN
        BY Base DEF TypeOK
      <4> QED
        BY <1>10, <4>1 DEF LeaveAuxiliary, StopIf, Still
    <3> QED
      BY <3>1, <3>2, StillNoNews
  <2> QED
    BY <2>1, <2>2 DEF Lively
<1> QED
  BY <1>1, <1>2, <1>3, <1>4, <1>5, <1>6, <1>7, <1>8, <1>9, <1>10

\* of the intrinsics,
LEMMA LivelyProgram ==
    ASSUME IndInv, NEW k \in Carriers, NEW t \in Contexts, NEW b, NEW S,
           \/ Yield(k)
           \/ Preempt(k)
           \/ Spawn(k)
           \/ NewPromise(k)
           \/ ParkForTimer(k)
           \/ ParkForJoin(k, t, b)
           \/ ParkForJoinAny(k, S)
           \/ ObserveFailure(k, t)
           \/ Complete(k, t, b)
           \/ Finish(k)
           \/ Fail(k)
           \/ Fatal(k)
           \/ EnterNative(k)
           \/ ReturnFromNative(k)
           \/ ServiceDueTimers(k)
    PROVE  Lively(k)
<1>0. /\ CarrierAt(k, pc[k])
      /\ k \in asleep => pc[k] \in Waits
      /\ pc[k] # "off" => k \in program.carriers
      /\ pc \in [Carriers -> Locations] /\ running \in [Carriers -> Contexts \cup {NoContext}]
      /\ state \in [Contexts -> States] /\ freezeDepth \in Nat /\ stopRequested \in BOOLEAN
      /\ NoContext \notin Contexts
  BY AtHand
<1>1. CASE Yield(k)
  <2>1. Turn(k) /\ pc'[k] \notin Waits \cup {"splice"}
    BY <1>0, <1>1 DEF Turn, Waits, At, Go, Yield, Runs
  <2>2. Still
    BY <1>1 DEF Still, Yield
  <2> QED
    BY <2>1, <2>2, StillNoNews DEF Lively
<1>2. CASE Preempt(k)
  <2>1. Turn(k) /\ pc'[k] \notin Waits \cup {"splice"}
    BY <1>0, <1>2 DEF Turn, Waits, At, Go, Preempt
  <2>2. Still
    BY <1>2 DEF Still, Preempt
  <2> QED
    BY <2>1, <2>2, StillNoNews DEF Lively
<1>3. CASE Spawn(k)
  <2>1. Turn(k) /\ pc'[k] \notin Waits \cup {"splice"}
    BY <1>0, <1>3 DEF Turn, Waits, At, Go, Spawn, Runs
  <2>2. asleep' = {}
    BY <1>3 DEF Spawn
  <2> QED
    BY <2>1, <2>2 DEF Lively
<1>4. CASE NewPromise(k)
  <2>1. Turn(k) /\ pc'[k] \notin Waits \cup {"splice"}
    BY <1>0, <1>4 DEF Turn, Waits, At, Go, NewPromise, Runs
  <2>2. NoNews
    <3>1. nextId \in Contexts /\ state[nextId] = "Unborn"
      BY <1>4 DEF NewPromise, IndInv, RestInv, Contexts
    <3> QED
      BY <1>0, <1>4, <3>1 DEF NoNews, Told, Fresh, FocusShut, Visible, NewPromise
  <2> QED
    BY <2>1, <2>2 DEF Lively
<1>5. CASE ParkForTimer(k)
  <2>1. Turn(k) /\ pc'[k] \notin Waits \cup {"splice"}
    BY <1>0, <1>5 DEF Turn, Waits, At, Go, ParkForTimer, Runs
  <2>2. asleep' = {} \/ Calmed
    BY <1>0, <1>5 DEF Calmed, GateWaitersTold, ParkForTimer
  <2> QED
    BY <2>1, <2>2, CalmedNoNews DEF Lively
<1>6. CASE ParkForJoin(k, t, b)
  <2>1. Turn(k) /\ pc'[k] \notin Waits \cup {"splice"}
    BY <1>0, <1>6 DEF Turn, Waits, At, Go, ParkForJoin, Runs
  <2>2. asleep' = {} \/ Calmed
    BY <1>0, <1>6 DEF Calmed, GateWaitersTold, ParkForJoin
  <2> QED
    BY <2>1, <2>2, CalmedNoNews DEF Lively
<1>7. CASE ParkForJoinAny(k, S)
  <2>1. Turn(k) /\ pc'[k] \notin Waits \cup {"splice"}
    BY <1>0, <1>7 DEF Turn, Waits, At, Go, ParkForJoinAny, Runs
  <2>2. asleep' = {} \/ Calmed
    BY <1>0, <1>7 DEF Calmed, GateWaitersTold, ParkForJoinAny
  <2> QED
    BY <2>1, <2>2, CalmedNoNews DEF Lively
<1>8. CASE ObserveFailure(k, t)
  <2>1. Turn(k) /\ pc'[k] \notin Waits \cup {"splice"}
    BY <1>0, <1>8 DEF Turn, Waits, At, Go, ObserveFailure, Runs
  <2>2. Still
    BY <1>8 DEF Still, ObserveFailure
  <2> QED
    BY <2>1, <2>2, StillNoNews DEF Lively
<1>9. CASE Complete(k, t, b)
  <2>1. Turn(k) /\ pc'[k] \notin Waits \cup {"splice"}
    BY <1>0, <1>9 DEF Turn, Waits, At, Go, Complete, Runs, WakeJoiners
  <2>2. asleep' = {}
    BY <1>9 DEF Complete, WakeJoiners
  <2> QED
    BY <2>1, <2>2 DEF Lively
<1>10. CASE Finish(k)
  <2>1. Turn(k) /\ pc'[k] \notin Waits \cup {"splice"}
    BY <1>0, <1>10 DEF Turn, Waits, At, Go, Finish, StopFor
  <2>2. asleep' = {} \/ Calmed
    BY <1>0, <1>10 DEF Calmed, GateWaitersTold, Finish, StopFor
  <2> QED
    BY <2>1, <2>2, CalmedNoNews DEF Lively
<1>11. CASE Fail(k)
  <2>1. Turn(k) /\ pc'[k] \notin Waits \cup {"splice"}
    BY <1>0, <1>11 DEF Turn, Waits, At, Go, Fail, Runs, StopFor
  <2>2. asleep' = {} \/ Calmed
    BY <1>0, <1>11 DEF Calmed, GateWaitersTold, Fail, StopFor
  <2> QED
    BY <2>1, <2>2, CalmedNoNews DEF Lively
<1>12. CASE Fatal(k)
  <2>1. Turn(k) /\ pc'[k] \notin Waits \cup {"splice"}
    BY <1>0, <1>12 DEF Turn, Waits, At, Go, Fatal, Runs, StopFor, Unwinds
  <2>2. asleep' = {} \/ Calmed
    BY <1>0, <1>12 DEF Calmed, GateWaitersTold, Fatal, StopFor
  <2> QED
    BY <2>1, <2>2, CalmedNoNews DEF Lively
<1>13. CASE EnterNative(k)
  <2>1. Turn(k) /\ pc'[k] \notin Waits \cup {"splice"}
    BY <1>0, <1>13 DEF Turn, Waits, At, Go, EnterNative, Runs
  <2>2. NoNews
    <3>1. running[k] \in Contexts
      BY <1>0, <1>13 DEF EnterNative, Runs, At, CarrierAt, Busy
    <3> QED
      BY <1>0, <1>13, <3>1 DEF NoNews, Told, Fresh, FocusShut, Visible, EnterNative
  <2> QED
    BY <2>1, <2>2 DEF Lively
<1>14. CASE ReturnFromNative(k)
  <2>1. Turn(k) /\ pc'[k] \notin Waits \cup {"splice"}
    BY <1>0, <1>14 DEF Turn, Waits, At, Go, ReturnFromNative
  <2>2. NoNews
    <3>1. running[k] \in Contexts /\ ~Occurs(running[k], runQueue)
      BY <1>0, <1>14 DEF ReturnFromNative, At, CarrierAt, Busy, IndInv, QueueInv, Carried
    <3> QED
      BY <1>0, <1>14, <3>1 DEF NoNews, Told, Fresh, FocusShut, Visible, ReturnFromNative
  <2> QED
    BY <2>1, <2>2 DEF Lively
<1>15. CASE ServiceDueTimers(k)
  <2>1. Turn(k) /\ pc'[k] \notin Waits \cup {"splice"}
    BY <1>0, <1>15 DEF Turn, Waits, At, Go, ServiceDueTimers
  <2>2. asleep' = {}
    BY <1>15 DEF ServiceDueTimers
  <2> QED
    BY <2>1, <2>2 DEF Lively
<1> QED
  BY <1>1, <1>2, <1>3, <1>4, <1>5, <1>6, <1>7, <1>8, <1>9, <1>10, <1>11, <1>12, <1>13, <1>14, <1>15

\* of the I/O waits,
LEMMA LivelyIo ==
    ASSUME IndInv, NEW k \in Carriers, NEW c \in Contexts, NEW S,
           \/ RetryIo(k)
           \/ ParkForIo(k)
           \/ FinishParkedNative(k)
           \/ CloseFd(k, S)
           \/ WakeClosed(k, c)
    PROVE  Lively(k)
<1>0. /\ CarrierAt(k, pc[k])
      /\ k \in asleep => pc[k] \in Waits
      /\ pc[k] # "off" => k \in program.carriers
      /\ pc \in [Carriers -> Locations] /\ running \in [Carriers -> Contexts \cup {NoContext}]
      /\ state \in [Contexts -> States] /\ freezeDepth \in Nat /\ stopRequested \in BOOLEAN
      /\ NoContext \notin Contexts
  BY AtHand
<1>1. CASE RetryIo(k)
  <2>1. Turn(k) /\ pc'[k] \notin Waits \cup {"splice"}
    BY <1>0, <1>1 DEF Turn, Waits, At, Go, RetryIo
  <2>2. NoNews
    <3>1. ioArmed \in [Contexts -> BOOLEAN] /\ ~Occurs(running[k], runQueue) /\ running[k] \in Contexts
      BY <1>0, <1>1, Base DEF TypeOK, RetryIo, At, CarrierAt, Busy, IndInv, QueueInv, Carried
    <3> QED
      BY <1>0, <1>1, <3>1 DEF NoNews, Told, Fresh, FocusShut, Visible, RetryIo
  <2> QED
    BY <2>1, <2>2 DEF Lively
<1>2. CASE ParkForIo(k)
  <2>1. Turn(k) /\ pc'[k] \notin Waits \cup {"splice"}
    BY <1>0, <1>2 DEF Turn, Waits, At, Go, ParkForIo
  <2>2. asleep' = {} \/ Calmed
    BY <1>0, <1>2 DEF Calmed, GateWaitersTold, ParkForIo
  <2> QED
    BY <2>1, <2>2, CalmedNoNews DEF Lively
<1>3. CASE FinishParkedNative(k)
  <2>1. Turn(k) /\ pc'[k] \notin Waits \cup {"splice"}
    BY <1>0, <1>3 DEF Turn, Waits, At, Go, FinishParkedNative
  <2>2. Still
    BY <1>3 DEF Still, FinishParkedNative
  <2> QED
    BY <2>1, <2>2, StillNoNews DEF Lively
<1>4. CASE CloseFd(k, S)
  <2>1. Turn(k) /\ pc'[k] \notin Waits \cup {"splice"}
    BY <1>0, <1>4 DEF Turn, Waits, At, Go, CloseFd, Runs
  <2>2. Still
    BY <1>4 DEF Still, CloseFd
  <2> QED
    BY <2>1, <2>2, StillNoNews DEF Lively
<1>5. CASE WakeClosed(k, c)
  <2>1. Turn(k) /\ pc'[k] \notin Waits \cup {"splice"}
    BY <1>0, <1>5 DEF Turn, Waits, At, Go, WakeClosed
  <2>2. NoNews
    <3>1. PICK q \in Orders(Queueable(StillParkedIo({c}))) : runQueue' = runQueue \o q
      BY <1>5 DEF WakeClosed, WakeForIo
    <3>2. /\ \A d \in Contexts : Occurs(d, q) => d = c /\ state[c] = "ParkedIo"
          /\ runQueue \in Seq(Contexts) /\ q \in Seq(Contexts)
      <4>1. Queueable(StillParkedIo({c})) \subseteq Contexts
        BY DEF Queueable, StillParkedIo
      <4>2. IsFiniteSet(Queueable(StillParkedIo({c})))
        BY <4>1, ContextsFinite, FS_Subset
      <4>3. q \in [1 .. Cardinality(Queueable(StillParkedIo({c}))) -> Queueable(StillParkedIo({c}))]
            /\ \A d \in Queueable(StillParkedIo({c})) : \E i \in DOMAIN q : q[i] = d
        BY DEF Orders
      <4>4. q \in Seq(Contexts) /\ \A d : Occurs(d, q) <=> d \in Queueable(StillParkedIo({c}))
        BY <4>1, <4>2, <4>3, AllInOrder
      <4> QED
        BY <4>4, Base DEF Queueable, StillParkedIo, TypeOK
    <3>3. \A d \in Contexts : Occurs(d, runQueue') <=> Occurs(d, runQueue) \/ Occurs(d, q)
      BY <3>1, <3>2, ManyMore
    <3>4. /\ \A d \in Contexts : ioArmed'[d] = (ioArmed[d] \/ (d = c /\ state[c] = "ParkedIo"))
          /\ \A d \in Contexts : state[d] # "ParkedIo" => state'[d] = state[d]
          /\ UNCHANGED <<asleep, stopRequested, timerNotify, poller, focus, freezeDepth>>
      BY <1>0, <1>5 DEF WakeClosed, WakeForIo, StillParkedIo, WithState
    <3>5. \A d \in Contexts : Fresh(d)' => Fresh(d)
      BY <3>2, <3>3, <3>4 DEF Fresh
    <3>6. FocusShut => FocusShut'
      BY <3>2, <3>3, <3>4 DEF FocusShut
    <3> QED
      <4>1. UNCHANGED <<token, pinned>>
        BY <1>5 DEF WakeClosed
      <4> QED
        BY <3>4, <3>5, <3>6, <4>1 DEF NoNews, Told, Visible
  <2> QED
    BY <2>1, <2>2 DEF Lively
<1> QED
  BY <1>1, <1>2, <1>3, <1>4, <1>5

\* of the debugger (a thaw and a change of the focus tell everybody),
LEMMA LivelyDebug ==
    ASSUME IndInv, NEW k \in Carriers, NEW target,
           \/ Checkpoint(k)
           \/ EnterFreezePark(k)
           \/ EnqueueFreeze(k)
           \/ OpenFreezeWindow(k)
           \/ Resume(k, target)
           \/ CloseFreezeWindow(k)
           \/ ExitFreezePark(k)
           \/ ReadFocus(k)
           \/ SetDebugFocusContext(k)
    PROVE  Lively(k)
<1>0. /\ CarrierAt(k, pc[k])
      /\ k \in asleep => pc[k] \in Waits
      /\ pc[k] # "off" => k \in program.carriers
      /\ pc \in [Carriers -> Locations] /\ running \in [Carriers -> Contexts \cup {NoContext}]
      /\ state \in [Contexts -> States] /\ freezeDepth \in Nat /\ stopRequested \in BOOLEAN
      /\ NoContext \notin Contexts
  BY AtHand
<1>1. CASE Checkpoint(k)
  <2>1. Turn(k) /\ pc'[k] \notin Waits \cup {"splice"}
    BY <1>0, <1>1 DEF Turn, Waits, At, Go, Checkpoint, Runs, VmUnchanged
  <2>2. Still
    BY <1>1 DEF Still, Checkpoint, VmUnchanged
  <2> QED
    BY <2>1, <2>2, StillNoNews DEF Lively
<1>2. CASE EnterFreezePark(k)
  <2>1. Turn(k) /\ pc'[k] \notin Waits \cup {"splice"}
    BY <1>0, <1>2 DEF Turn, Waits, At, Go, EnterFreezePark, Runs
  <2>2. NoNews
    BY <1>0, <1>2 DEF NoNews, Told, Fresh, FocusShut, Visible, EnterFreezePark
  <2> QED
    BY <2>1, <2>2 DEF Lively
<1>3. CASE EnqueueFreeze(k)
  <2>1. Turn(k) /\ pc'[k] \notin Waits \cup {"splice"}
    BY <1>0, <1>3 DEF Turn, Waits, At, Go, EnqueueFreeze, InStage, VmUnchanged
  <2>2. Still
    BY <1>3 DEF Still, EnqueueFreeze, VmUnchanged
  <2> QED
    BY <2>1, <2>2, StillNoNews DEF Lively
<1>4. CASE OpenFreezeWindow(k)
  <2>1. Turn(k) /\ pc'[k] \notin Waits \cup {"splice"}
    BY <1>0, <1>4 DEF Turn, Waits, At, Go, OpenFreezeWindow, InStage, VmUnchanged
  <2>2. Still
    BY <1>4 DEF Still, OpenFreezeWindow, VmUnchanged
  <2> QED
    BY <2>1, <2>2, StillNoNews DEF Lively
<1>5. CASE Resume(k, target)
  <2>1. Turn(k) /\ pc'[k] \notin Waits \cup {"splice"}
    BY <1>0, <1>5 DEF Turn, Waits, At, Go, Resume, InStage, VmUnchanged
  <2>2. Still
    BY <1>5 DEF Still, Resume, VmUnchanged
  <2> QED
    BY <2>1, <2>2, StillNoNews DEF Lively
<1>6. CASE CloseFreezeWindow(k)
  <2>1. Turn(k) /\ pc'[k] \notin Waits \cup {"splice"}
    BY <1>0, <1>6 DEF Turn, Waits, At, Go, CloseFreezeWindow, InStage, VmUnchanged
  <2>2. Still
    BY <1>6 DEF Still, CloseFreezeWindow, VmUnchanged
  <2> QED
    BY <2>1, <2>2, StillNoNews DEF Lively
<1>7. CASE ExitFreezePark(k)
  <2>1. Turn(k) /\ pc'[k] \notin Waits \cup {"splice"}
    BY <1>0, <1>7 DEF Turn, Waits, At, Go, ExitFreezePark, InStage
  <2>2. asleep' = {} \/ NoNews
    BY <1>0, <1>7 DEF NoNews, Told, Fresh, FocusShut, Visible, ExitFreezePark, ThawTold, OneThaws
  <2> QED
    BY <2>1, <2>2 DEF Lively
<1>8. CASE ReadFocus(k)
  <2>1. Turn(k) /\ pc'[k] \notin Waits \cup {"splice"}
    BY <1>0, <1>8 DEF Turn, Waits, At, Go, ReadFocus, InStage, VmUnchanged
  <2>2. Still
    BY <1>8 DEF Still, ReadFocus, VmUnchanged
  <2> QED
    BY <2>1, <2>2, StillNoNews DEF Lively
<1>9. CASE SetDebugFocusContext(k)
  <2>1. Turn(k) /\ pc'[k] \notin Waits \cup {"splice"}
    BY <1>0, <1>9 DEF Turn, Waits, At, Go, SetDebugFocusContext, InStage
  <2>2. asleep' = {} \/ NoNews
    BY <1>0, <1>9 DEF NoNews, Told, Fresh, FocusShut, Visible, SetDebugFocusContext, FocusChangeTold
  <2> QED
    BY <2>1, <2>2 DEF Lively
<1> QED
  BY <1>1, <1>2, <1>3, <1>4, <1>5, <1>6, <1>7, <1>8, <1>9

\* and of the locks.
LEMMA LivelySync ==
    ASSUME IndInv, NEW k \in Carriers, NEW p,
           \/ TakeLock(k, p)
           \/ ReenterLock(k, p)
           \/ WaitForLock(k, p)
           \/ Unlock(k, p)
           \/ TakePermit(k, p)
           \/ WaitForPermit(k, p)
           \/ Release(k, p)
           \/ Migrate(k)
           \/ Recheck(k)
           \/ AbortPark(k)
           \/ WakeNewOwner(k)
    PROVE  Lively(k)
<1>0. /\ CarrierAt(k, pc[k])
      /\ k \in asleep => pc[k] \in Waits
      /\ pc[k] # "off" => k \in program.carriers
      /\ pc \in [Carriers -> Locations] /\ running \in [Carriers -> Contexts \cup {NoContext}]
      /\ state \in [Contexts -> States] /\ freezeDepth \in Nat /\ stopRequested \in BOOLEAN
      /\ NoContext \notin Contexts
  BY AtHand
<1>1. CASE TakeLock(k, p)
  <2>1. Turn(k) /\ pc'[k] \notin Waits \cup {"splice"}
    BY <1>0, <1>1 DEF Turn, Waits, At, Go, TakeLock, SchedulerUnchanged
  <2>2. Still
    BY <1>1 DEF Still, TakeLock, SchedulerUnchanged
  <2> QED
    BY <2>1, <2>2, StillNoNews DEF Lively
<1>2. CASE ReenterLock(k, p)
  <2>1. Turn(k) /\ pc'[k] \notin Waits \cup {"splice"}
    BY <1>0, <1>2 DEF Turn, Waits, At, Go, ReenterLock, SchedulerUnchanged
  <2>2. Still
    BY <1>2 DEF Still, ReenterLock, SchedulerUnchanged
  <2> QED
    BY <2>1, <2>2, StillNoNews DEF Lively
<1>3. CASE WaitForLock(k, p)
  <2>1. Turn(k) /\ pc'[k] \notin Waits \cup {"splice"}
    BY <1>0, <1>3 DEF Turn, Waits, At, Go, WaitForLock, Register, SchedulerUnchanged
  <2>2. Still
    BY <1>3 DEF Still, WaitForLock, Register, SchedulerUnchanged
  <2> QED
    BY <2>1, <2>2, StillNoNews DEF Lively
<1>4. CASE Unlock(k, p)
  <2>1. Turn(k) /\ pc'[k] \notin Waits \cup {"splice"}
    BY <1>0, <1>4 DEF Turn, Waits, At, Go, Unlock, HandOff, SchedulerUnchanged
  <2>2. Still
    BY <1>4 DEF Still, Unlock, HandOff, SchedulerUnchanged
  <2> QED
    BY <2>1, <2>2, StillNoNews DEF Lively
<1>5. CASE TakePermit(k, p)
  <2>1. Turn(k) /\ pc'[k] \notin Waits \cup {"splice"}
    BY <1>0, <1>5 DEF Turn, Waits, At, Go, TakePermit, SchedulerUnchanged
  <2>2. Still
    BY <1>5 DEF Still, TakePermit, SchedulerUnchanged
  <2> QED
    BY <2>1, <2>2, StillNoNews DEF Lively
<1>6. CASE WaitForPermit(k, p)
  <2>1. Turn(k) /\ pc'[k] \notin Waits \cup {"splice"}
    BY <1>0, <1>6 DEF Turn, Waits, At, Go, WaitForPermit, Register, SchedulerUnchanged
  <2>2. Still
    BY <1>6 DEF Still, WaitForPermit, Register, SchedulerUnchanged
  <2> QED
    BY <2>1, <2>2, StillNoNews DEF Lively
<1>7. CASE Release(k, p)
  <2>1. Turn(k) /\ pc'[k] \notin Waits \cup {"splice"}
    BY <1>0, <1>7 DEF Turn, Waits, At, Go, Release, HandOff, SchedulerUnchanged
  <2>2. Still
    BY <1>7 DEF Still, Release, HandOff, SchedulerUnchanged
  <2> QED
    BY <2>1, <2>2, StillNoNews DEF Lively
<1>8. CASE Migrate(k)
  <2>1. Turn(k) /\ pc'[k] \notin Waits \cup {"splice"}
    BY <1>0, <1>8 DEF Turn, Waits, At, Go, Migrate, InCall
  <2>2. asleep' = {} \/ Calmed
    BY <1>0, <1>8 DEF Calmed, GateWaitersTold, Migrate
  <2> QED
    BY <2>1, <2>2, CalmedNoNews DEF Lively
<1>9. CASE Recheck(k)
  <2>1. Turn(k) /\ pc'[k] \notin Waits \cup {"splice"}
    BY <1>0, <1>9 DEF Turn, Waits, At, Go, Recheck, InCall, SchedulerUnchanged
  <2>2. Still
    BY <1>9 DEF Still, Recheck, SchedulerUnchanged
  <2> QED
    BY <2>1, <2>2, StillNoNews DEF Lively
<1>10. CASE AbortPark(k)
  <2>1. Turn(k) /\ pc'[k] \notin Waits \cup {"splice"}
    BY <1>0, <1>10 DEF Turn, Waits, At, Go, AbortPark, InCall, Return
  <2>2. NoNews
    <3>1. call[k].stage = "abort" /\ pc[k] = "sync"
      BY <1>10 DEF AbortPark, InCall, At
    <3>2. state[running[k]] \in {"ParkedMutex", "ParkedSemaphore"} /\ running[k] \in Contexts
      BY <3>1, SyncFacts DEF CallInv, CallAt
    <3> QED
      BY <1>0, <1>10, <3>2 DEF NoNews, Told, Fresh, FocusShut, Visible, AbortPark
  <2> QED
    BY <2>1, <2>2 DEF Lively
<1>11. CASE WakeNewOwner(k)
  <2>1. Turn(k) /\ pc'[k] \notin Waits \cup {"splice"}
    BY <1>0, <1>11 DEF Turn, Waits, At, Go, WakeNewOwner, InCall, Return
  <2>2. asleep' = {}
    BY <1>11 DEF WakeNewOwner
  <2> QED
    BY <2>1, <2>2 DEF Lively
<1> QED
  BY <1>1, <1>2, <1>3, <1>4, <1>5, <1>6, <1>7, <1>8, <1>9, <1>10, <1>11

\* A nested window opens, starts its pump and returns: the pump only pins a
\* context that is not queued, and its end tells everybody.
LEMMA LivelyPump ==
    ASSUME IndInv, NoTeardown', NEW k \in Carriers, PumpStep(k)
    PROVE  Lively(k)
<1>0. /\ CarrierAt(k, pc[k])
      /\ k \in asleep => pc[k] \in Waits
      /\ pc[k] # "off" => k \in program.carriers
      /\ pc \in [Carriers -> Locations] /\ running \in [Carriers -> Contexts \cup {NoContext}]
      /\ state \in [Contexts -> States] /\ freezeDepth \in Nat /\ stopRequested \in BOOLEAN
      /\ NoContext \notin Contexts
  BY AtHand
<1>1. CASE OpenWindow(k)
  <2>1. Turn(k) /\ pc'[k] \notin Waits \cup {"splice"}
    BY <1>0, <1>1 DEF Turn, Waits, At, OpenWindow, Runs
  <2>2. Still
    BY <1>1 DEF Still, OpenWindow
  <2> QED
    BY <2>1, <2>2, StillNoNews DEF Lively
<1>2. CASE StartPump(k)
  <2>1. Turn(k) /\ pc'[k] \notin Waits \cup {"splice"} /\ k \notin asleep
    BY <1>0, <1>2 DEF Turn, Waits, At, StartPump
  <2>2. running[k] \in Contexts /\ ~Occurs(running[k], runQueue)
    BY <1>0, <1>2 DEF StartPump, At, CarrierAt, Busy, IndInv, QueueInv, Carried
  <2>3. /\ asleep \subseteq Carriers /\ token \in [Carriers -> Nat] /\ pinned \in [Contexts -> Nat]
    BY Base DEF TypeOK
  <2>4. PICK t : /\ token' = [token EXCEPT ![k] = t]
                 /\ pinned' = [pinned EXCEPT ![running[k]] = t]
    BY <1>2 DEF StartPump
  <2>5. UNCHANGED <<asleep, stopRequested, timerNotify, poller, runQueue, ioArmed, state, focus, freezeDepth>>
    BY <1>2 DEF StartPump
  <2>6. \A c \in Contexts : \A j \in asleep :
           c # running[k] => token'[j] = token[j] /\ pinned'[c] = pinned[c]
    BY <2>1, <2>2, <2>3, <2>4
  <2>7. \A c \in Contexts : Fresh(c)' => Fresh(c) /\ c # running[k]
    BY <2>2, <2>5 DEF Fresh, Occurs
  <2>8. NoNews
    BY <2>5, <2>6, <2>7 DEF NoNews, Told, FocusShut, Visible, Occurs
  <2> QED
    BY <2>1, <2>8 DEF Lively
<1>3. CASE CloseWindow(k)
  <2>1. Turn(k) /\ pc'[k] \notin Waits \cup {"splice"}
    BY <1>0, <1>3 DEF Turn, Waits, At, CloseWindow
  <2>2. asleep' = {} \/ Still
    BY <1>3 DEF Still, CloseWindow, LeaveWindow
  <2> QED
    BY <2>1, <2>2, StillNoNews DEF Lively
<1>4. ~FatalInWindow(k)
  BY <1>0 DEF FatalInWindow, Go, NoTeardown, Torn
<1>5. ~UnwindWindow(k) /\ ~Perish(k)
  BY Here DEF UnwindWindow, Perish, At, Torn
<1> QED
  BY <1>1, <1>2, <1>3, <1>4, <1>5 DEF PumpStep
-----------------------------------------------------------------------------
\* Where a carrier is that looks for a context.
LEMMA AtThePop ==
    ASSUME NEW k, InPop(k)
    PROVE  /\ pc[k] = "pop" \/ pc[k] \in Waits
           /\ pc[k] \in {"pop", "idle", "focuswait", "freezewait"}
           /\ pc[k] \in Waits => k \notin asleep
BY DEF InPop, At, Waits

\* The pins are those of suspended windows, and these are counted.
LEMMA PinsCounted ==
    ASSUME StackInv, IndInv
    PROVE  /\ IsFiniteSet(Suspensions) /\ pumpCount = Cardinality(Suspensions) /\ pumpCount \in Nat
           /\ \A k \in Carriers : token[k] # 0 =>
                 \E w \in Suspensions : windows[w[1]][w[2]].token = token[k]
           /\ \A c \in Contexts : pinned[c] # 0 =>
                 \E w \in Suspensions : windows[w[1]][w[2]].token = pinned[c]
<1>1. PICK S : windows \in [Carriers -> Seq([ctx : S, token : Nat])]
  BY DEF StackInv, StacksTyped
<1>2. \A k \in Carriers : Len(windows[k]) <= MaxWindows
  BY DEF StackInv, StacksTyped
<1>3. ASSUME NEW k \in Carriers, NEW i \in DOMAIN windows[k], windows[k][i].token # 0
      PROVE  /\ <<k, i>> \in Suspensions
             /\ windows[<<k, i>>[1]][<<k, i>>[2]].token = windows[k][i].token
  <2>1. i \in 1 .. Len(windows[k]) /\ Len(windows[k]) \in Nat /\ MaxWindows \in Nat
    BY <1>1, ConstantsAssumption
  <2>2. i \in 1 .. MaxWindows
    BY <1>2, <2>1
  <2> QED
    BY <1>3, <2>2 DEF Suspensions
<1>4. IsFiniteSet(Suspensions)
  <2>1. IsFiniteSet(Carriers) /\ IsFiniteSet(1 .. MaxWindows)
    BY ConstantsAssumption, FS_Interval
  <2>2. IsFiniteSet(Carriers \X (1 .. MaxWindows))
    BY <2>1, FS_Product
  <2> QED
    BY <2>2, FS_Subset DEF Suspensions
<1>5. pumpCount = Cardinality(Suspensions) /\ pumpCount \in Nat
  BY <1>4, FS_CardinalityType DEF IndInv, PumpInv, PumpsCounted
<1>6. ASSUME NEW k \in Carriers, token[k] # 0
      PROVE  \E w \in Suspensions : windows[w[1]][w[2]].token = token[k]
  BY <1>3, <1>6 DEF StackInv, TokensInUse
<1>7. ASSUME NEW c \in Contexts, pinned[c] # 0
      PROVE  \E w \in Suspensions : windows[w[1]][w[2]].token = pinned[c]
  BY <1>3, <1>7 DEF StackInv, TokensInUse
<1> QED
  BY <1>4, <1>5, <1>6, <1>7

\* A carrier that no other pump concerns can take every queue entry.
LEMMA Everything ==
    ASSUME StackInv, IndInv, NEW k \in Carriers, OtherPumps(k) = 0
    PROVE  Popable(k) = DOMAIN runQueue
<1>1. runQueue \in Seq(Contexts)
  BY Base DEF TypeOK
<1>2. \A i \in DOMAIN runQueue : runQueue[i] \in Contexts
  BY <1>1
<1>3. ASSUME NEW c \in Contexts PROVE pinned[c] \in {0, token[k]}
  <2> SUFFICES ASSUME pinned[c] # 0 PROVE pinned[c] = token[k]
    OBVIOUS
  <2>1. PICK w \in Suspensions : windows[w[1]][w[2]].token = pinned[c]
    BY PinsCounted
  <2>2. pumpCount # 0
    BY <2>1, PinsCounted, FS_EmptySet
  <2>3. token[k] # 0 /\ pumpCount = 1
    BY <2>2, PinsCounted DEF OtherPumps
  <2>4. PICK v \in Suspensions : windows[v[1]][v[2]].token = token[k]
    BY <2>3, PinsCounted
  <2>5. Cardinality(Suspensions) = 1 /\ IsFiniteSet(Suspensions)
    BY <2>3, PinsCounted
  <2>6. PICK u : Suspensions = {u}
    BY <2>5, FS_Singleton
  <2> QED
    BY <2>1, <2>4, <2>6
<1> QED
  BY <1>2, <1>3 DEF Popable, Visible

\* Without a suspended window no pump concerns anybody.
LEMMA NoOtherPumps ==
    ASSUME StackInv, IndInv, pumpCount = 0, NEW k \in Carriers
    PROVE  OtherPumps(k) = 0
<1>1. Suspensions = {}
  BY PinsCounted, FS_EmptySet
<1>2. token[k] = 0
  BY <1>1, PinsCounted
<1> QED
  BY <1>2 DEF OtherPumps

\* A carrier that passed both gates and found nothing can take nothing,
LEMMA NothingPopable ==
    ASSUME NEW k \in Carriers, NothingToDispatch(k)
    PROVE  Popable(k) = {}
<1>1. FocusGateOpen /\ Choices(k) = {}
  BY DEF NothingToDispatch
<1>2. ~FocusRules
  BY <1>1 DEF FocusGateOpen, IsQueued, Choices
<1> QED
  BY <1>1, <1>2 DEF Choices

\* and if no other pump concerns it, it saw an empty queue.
LEMMA QueueEmpty ==
    ASSUME StackInv, IndInv, NEW k \in Carriers, Popable(k) = {}, OtherPumps(k) = 0
    PROVE  runQueue = <<>>
<1>1. runQueue \in Seq(Contexts) /\ DOMAIN runQueue = {}
  BY Everything, Base DEF TypeOK
<1>2. Len(runQueue) = 0
  BY <1>1
<1> QED
  BY <1>1, <1>2

\* The counters tell the truth at the deadlock check: all others are idle.
LEMMA Crew ==
    ASSUME IndInv, NEW k \in Carriers, pc[k] \in {"pop", "idle", "focuswait", "freezewait"}
    PROVE  IdleAfterWake(k) + 1 >= activeCount <=>
              \A j \in Carriers \ {k} : pc[j] \in InFlight => pc[j] \in CountsAsIdle
<1> DEFINE A == {j \in Carriers : pc[j] \in CountsAsIdle}
           B == A \cup {k}
           F == {j \in Carriers : pc[j] \in InFlight}
<1>1. IsFiniteSet(A) /\ IsFiniteSet(F) /\ IsFiniteSet(B)
  BY ConstantsAssumption, FS_Subset, FS_AddElement
<1>2. idleCount = Cardinality(A) /\ activeCount = Cardinality(F)
  BY DEF IndInv, CountInv, Number
<1>3. CountsAsIdle \subseteq InFlight /\ pc[k] \in InFlight
  BY DEF CountsAsIdle, InFlight, Locations, Waits
<1>4. B \subseteq F
  BY <1>3
<1>5. Cardinality(B) = IdleAfterWake(k) + 1
  <2>1. Cardinality(A) \in Nat
    BY <1>1, FS_CardinalityType
  <2>2. CASE k \in A
    <3>1. B = A
      BY <2>2
    <3>2. IdleAfterWake(k) = idleCount - 1
      BY <2>2 DEF IdleAfterWake
    <3> HIDE DEF A, B
    <3> QED
      BY <1>2, <2>1, <3>1, <3>2
  <2>3. CASE k \notin A
    <3>1. Cardinality(B) = Cardinality(A) + 1
      BY <1>1, <2>3, FS_AddElement
    <3>2. IdleAfterWake(k) = idleCount
      BY <2>3 DEF IdleAfterWake
    <3> HIDE DEF A, B
    <3> QED
      BY <1>2, <2>1, <3>1, <3>2
  <2> QED
    BY <2>2, <2>3
<1>6. Cardinality(B) <= Cardinality(F) /\ (Cardinality(B) = Cardinality(F) => B = F)
  BY <1>1, <1>4, FS_Subset
<1>7. Cardinality(B) \in Nat /\ Cardinality(F) \in Nat
  BY <1>1, FS_CardinalityType
<1>8. Cardinality(B) >= Cardinality(F) <=> B = F
  <2> HIDE DEF A, B, F
  <2> QED
    BY <1>6, <1>7
<1>9. B = F <=> \A j \in Carriers \ {k} : pc[j] \in InFlight => pc[j] \in CountsAsIdle
  BY <1>3
<1> HIDE DEF A, B, F
<1> QED
  BY <1>2, <1>5, <1>8, <1>9

\* If so, no carrier has a context.
LEMMA NobodyRuns ==
    ASSUME IndInv, ~stopRequested, NEW k \in Carriers, pc[k] \in Free,
           \A j \in Carriers \ {k} : pc[j] \in InFlight => pc[j] \in Waits
    PROVE  /\ \A c \in Contexts : ~Carried(c)
           /\ \A j \in Carriers : pc[j] \in Free
<1>1. \A j \in Carriers : pc[j] \in Locations /\ (pc[j] = "exited" => stopRequested)
  BY Here, Base DEF PlaceInv
<1>2. \A j \in Carriers : pc[j] \in Free
  BY <1>1 DEF InFlight, Free, Waits
<1> QED
  BY <1>2, Here DEF Carried

\* So nobody could go on when a deadlock is reported: every context is
\* queued, carried, in the timer heap, in the poller or rightly parked.
LEMMA ReportIsTrue ==
    ASSUME StackInv, IndInv, NEW k \in Carriers, ReportDeadlock(k), NEW c \in Contexts
    PROVE  state[c] \notin {"Runnable", "ParkedTimer", "BlockedNative", "ParkedIo"}
<1>1. /\ NothingToDispatch(k) /\ timers = {} /\ ioWaits = {} /\ ~stopRequested
      /\ IdleAfterWake(k) + 1 >= activeCount /\ InPop(k) /\ OtherPumps(k) = 0
  BY DEF ReportDeadlock, NoWakeSource, NothingToDispatch, PassesFreeze
<1>2. pc[k] \in {"pop", "idle", "focuswait", "freezewait"}
  BY <1>1, AtThePop
<1>3. \A j \in Carriers \ {k} : pc[j] \in InFlight => pc[j] \in CountsAsIdle
  BY <1>1, <1>2, Crew
<1>4. (\A d \in Contexts : ~Carried(d)) /\ \A j \in Carriers : pc[j] \in Free
  BY <1>1, <1>2, <1>3, NobodyRuns DEF Free, CountsAsIdle, Waits
<1>5. runQueue = <<>>
  BY <1>1, NothingPopable, QueueEmpty
<1>6. ~Occurs(c, runQueue)
  BY <1>5 DEF Occurs
<1>7. \A j \in Carriers : closing[j] = {}
  BY <1>4, Base DEF IoPlaces, Free
<1> QED
  BY <1>1, <1>4, <1>6, <1>7 DEF IndInv, RestInv, TimerInv, IoInv
-----------------------------------------------------------------------------
\* The four ways into a wait.
Sleeps(k) == Sleep(k) \/ SleepAgain(k) \/ WaitAtFreezeGate(k) \/ WaitForHeldFocus(k)

\* The freeze gate is closed exactly while a carrier is stopped.
LEMMA FreezeHolder ==
    ASSUME IndInv
    PROVE  freezeDepth # 0 <=> \E j \in Carriers : pc[j] = "debug" /\ stage[j] \in FreezeAt
<1> DEFINE D == {j \in Carriers : stage[j] \in FreezeAt}
<1>1. freezeDepth = Cardinality(D) /\ IsFiniteSet(D)
  BY ConstantsAssumption, FS_Subset DEF IndInv, CountInv, Number
<1>2. freezeDepth # 0 <=> D # {}
  BY <1>1, FS_EmptySet
<1>3. \A j \in Carriers : stage[j] \in FreezeAt => pc[j] = "debug"
  BY Base DEF PlaceInv, FreezeAt
<1> QED
  BY <1>2, <1>3

\* What a carrier knows when it goes to sleep: the queue has nothing for it,
\* the focus gate is closed or the freeze gate is, under the lock it sleeps with.
LEMMA SleepFacts ==
    ASSUME IndInv, NEW k \in Carriers, Sleeps(k)
    PROVE  /\ Turn(k) /\ pc'[k] \in Waits /\ pc'[k] # "splice" /\ pc[k] \in Free
           /\ asleep' = asleep \cup {k} /\ ~stopRequested
           /\ UNCHANGED <<stopRequested, timerNotify, poller, runQueue, ioArmed, state, focus,
                          freezeDepth, timers, ioWaits, running, token, pinned, pumpCount>>
           /\ pc'[k] = "idle" => Popable(k) = {}
           /\ pc'[k] = "focuswait" =>
                 focus \in Contexts /\ state[focus] = "Runnable" /\ ~Occurs(focus, runQueue)
           /\ pc'[k] = "freezewait" => freezeDepth # 0
           /\ pc' = pc \/ Sleep(k) \/ pc'[k] \in {"focuswait", "freezewait"}
<1>0. /\ k \in asleep => pc[k] \in Waits
      /\ pc[k] # "off" => k \in program.carriers
      /\ pc \in [Carriers -> Locations] /\ stopRequested \in BOOLEAN
      /\ focus \in Contexts \cup {NoContext} /\ NoContext \notin Contexts
      /\ runQueue \in Seq(Contexts)
  BY AtHand, Base DEF TypeOK
<1>1. pc[k] \in {"pop", "idle", "focuswait", "freezewait"} /\ k \notin asleep
  <2>1. SleepAgain(k) \/ InPop(k)
    BY DEF Sleeps, Sleep, WaitAtFreezeGate, WaitForHeldFocus, NothingToDispatch, PassesFreeze
  <2>2. SleepAgain(k) => pc[k] \in Waits /\ k \notin asleep
    BY DEF SleepAgain
  <2>3. InPop(k) => pc[k] \in {"pop", "idle", "focuswait", "freezewait"} /\ k \notin asleep
    BY <1>0, AtThePop DEF Waits
  <2> QED
    BY <2>1, <2>2, <2>3 DEF Waits
<1>2. /\ asleep' = asleep \cup {k}
      /\ UNCHANGED <<stopRequested, timerNotify, poller, runQueue, ioArmed, state, focus,
                     freezeDepth, timers, ioWaits, running, program, token, pinned, pumpCount>>
  BY DEF Sleeps, Sleep, SleepAgain, WaitAtFreezeGate, WaitForHeldFocus, WaitAs
<1>3. /\ \/ SleepAgain(k) /\ pc' = pc /\ pc[k] \in Waits
         \/ Sleep(k) /\ pc' = [pc EXCEPT ![k] = "idle"]
         \/ WaitAtFreezeGate(k) /\ pc' = [pc EXCEPT ![k] = "freezewait"]
         \/ WaitForHeldFocus(k) /\ pc' = [pc EXCEPT ![k] = "focuswait"]
  BY DEF Sleeps, Sleep, SleepAgain, WaitAtFreezeGate, WaitForHeldFocus, WaitAs, Go
<1>4. pc'[k] \in Waits /\ \A j \in Carriers \ {k} : pc'[j] = pc[j]
  BY <1>0, <1>3 DEF Waits
<1>5. Turn(k)
  BY <1>0, <1>1, <1>2, <1>4 DEF Turn
<1>6. ~stopRequested
  BY <1>3, <1>0 DEF Sleep, SleepAgain, WaitAtFreezeGate, WaitForHeldFocus, NothingToDispatch,
                    PassesFreeze, MayProceed, At, Waits
<1>7. pc'[k] = "idle" => Popable(k) = {}
  <2>1. CASE Sleep(k)
    BY <2>1, NothingPopable DEF Sleep
  <2>2. CASE SleepAgain(k) /\ pc[k] = "idle"
    BY <2>2 DEF SleepAgain, MayProceed, At
  <2> QED
    BY <1>0, <1>3, <2>1, <2>2
<1>8. pc'[k] = "focuswait" =>
                 focus \in Contexts /\ state[focus] = "Runnable" /\ ~Occurs(focus, runQueue)
  <2>1. pc'[k] = "focuswait" => ~FocusGateOpen
    BY <1>0, <1>3 DEF SleepAgain, MayProceed, At, WaitForHeldFocus
  <2> QED
    BY <1>0, <2>1 DEF FocusGateOpen, FocusRules, IsQueued, Occurs
<1>9. pc'[k] = "freezewait" => freezeDepth # 0
  BY <1>0, <1>3 DEF SleepAgain, MayProceed, At, WaitAtFreezeGate, PassesFreeze
<1>10. pc' = pc \/ Sleep(k) \/ pc'[k] \in {"focuswait", "freezewait"}
  BY <1>0, <1>3
<1>11. pc[k] \in Free /\ pc'[k] # "splice"
  BY <1>1, <1>4 DEF Free, Waits
<1> QED
  BY <1>2, <1>4, <1>5, <1>6, <1>7, <1>8, <1>9, <1>10, <1>11

\* TakeNext is the only dispatch, and comes after the freeze gate.
LEMMA TakeFacts ==
    ASSUME IndInv, NEW k \in Carriers, TakeNext(k)
    PROVE  Turn(k) /\ NoNews /\ pc'[k] = "splice" /\ PassesFreeze(k)
<1>0. /\ k \in asleep => pc[k] \in Waits
      /\ pc[k] # "off" => k \in program.carriers
      /\ pc \in [Carriers -> Locations] /\ running \in [Carriers -> Contexts \cup {NoContext}]
      /\ runQueue \in Seq(Contexts) /\ PassesFreeze(k)
  BY AtHand, Base DEF TypeOK, TakeNext
<1>1. pc[k] \in {"pop", "idle", "focuswait", "freezewait"} /\ k \notin asleep
  BY <1>0, AtThePop DEF PassesFreeze, Waits
<1>2. Turn(k) /\ pc'[k] = "splice"
  BY <1>0, <1>1 DEF Turn, TakeNext, Go
<1>3. \A c \in Contexts : Occurs(c, runQueue') => Occurs(c, runQueue)
  <2> DEFINE i == CHOOSE j \in Choices(k) : \A l \in Choices(k) : j <= l
  <2>1. Choices(k) \subseteq DOMAIN runQueue /\ Choices(k) # {} /\ DOMAIN runQueue \subseteq Nat
    BY <1>0 DEF Choices, Affine, Popable, TakeNext
  <2>2. Choices(k) \in SUBSET Nat
    BY <2>1
  <2>3. i \in Choices(k)
    BY <2>1, <2>2, Least
  <2>4. runQueue' = Skipping(runQueue, i)
    BY DEF TakeNext, Without, Skipping
  <2>5. i \in DOMAIN runQueue
    BY <2>1, <2>3
  <2> HIDE DEF i
  <2> QED
    BY <1>0, <2>4, <2>5, OneLess
<1>4. NoNews
  BY <1>3 DEF NoNews, Told, Fresh, FocusShut, Visible, TakeNext
<1> QED
  BY <1>0, <1>2, <1>4
-----------------------------------------------------------------------------
\* A step that tells everybody, or has nothing to tell, keeps WorkInv.
LEMMA HushKeepsWork ==
    ASSUME IndInv, WorkInv, NEW k \in Carriers, Turn(k), asleep' = {} \/ NoNews
    PROVE  WorkInv'
<1>1. CASE asleep' = {}
  BY <1>1 DEF WorkInv
<1>2. CASE NoNews
  <2>1. \A j \in asleep : j \in Carriers /\ pc'[j] = pc[j]
    BY Base DEF TypeOK, Turn
  <2> QED
    BY <1>2, <2>1 DEF NoNews, WorkInv
<1> QED
  BY <1>1, <1>2

\* So does falling asleep.
LEMMA SleepersKeepWork ==
    ASSUME IndInv, WorkInv, NEW k \in Carriers, Sleeps(k)
    PROVE  WorkInv'
<1>0. /\ Turn(k) /\ asleep' = asleep \cup {k} /\ ~stopRequested
      /\ UNCHANGED <<stopRequested, timerNotify, poller, runQueue, ioArmed, state, focus, freezeDepth,
                     token, pinned>>
      /\ pc'[k] = "idle" => Popable(k) = {}
      /\ pc'[k] = "focuswait" =>
            focus \in Contexts /\ state[focus] = "Runnable" /\ ~Occurs(focus, runQueue)
      /\ pc'[k] = "freezewait" => freezeDepth # 0
  BY SleepFacts
<1>1. /\ Told' = Told /\ FocusShut' = FocusShut
      /\ \A c : Fresh(c)' = Fresh(c) /\ \A j : Visible(j, c)' = Visible(j, c)
  BY <1>0 DEF Told, FocusShut, Fresh, Occurs, Visible
<1>2. \A j \in asleep \ {k} : j \in Carriers /\ pc'[j] = pc[j]
  BY <1>0, Base DEF TypeOK, Turn
<1>3. pc'[k] = "idle" => \A c \in Contexts : Fresh(c) => ~Visible(k, c)
  BY <1>0 DEF Fresh, Occurs, Popable
<1>4. pc'[k] = "focuswait" => FocusShut
  BY <1>0 DEF FocusShut
<1>5. ASSUME NEW j \in asleep', ~Told
      PROVE  /\ pc'[j] = "idle" => \A c \in Contexts : Fresh(c) => ~Visible(j, c)
             /\ pc'[j] = "focuswait" => FocusShut
             /\ pc'[j] = "freezewait" => freezeDepth # 0
  <2>1. CASE j = k
    BY <1>0, <1>3, <1>4, <2>1
  <2>2. CASE j # k
    BY <1>0, <1>2, <1>5, <2>2 DEF WorkInv
  <2> QED
    BY <2>1, <2>2
<1> QED
  BY <1>0, <1>1, <1>5 DEF WorkInv

\* A carrier that stays awake keeps HangInv.
LEMMA LivelyKeepsHang ==
    ASSUME NEW k, Turn(k), pc'[k] \notin Waits
    PROVE  HangInv'
<1>1. k \in program'.carriers
  BY DEF Turn
<1>2. ~AllIdle' /\ ~AllAsleep'
  BY <1>1 DEF AllIdle, AllAsleep, CountsAsIdle, Waits
<1> QED
  BY <1>2 DEF HangInv

\* A closed gate has somebody behind it who is awake.
LEMMA SomebodyIsUp ==
    ASSUME IndInv, NEW k \in Carriers, Turn(k), pc[k] \in Free, UNCHANGED <<runQueue, state, focus, freezeDepth>>,
           \/ focus \in Contexts /\ state[focus] = "Runnable" /\ ~Occurs(focus, runQueue)
           \/ freezeDepth # 0
    PROVE  ~AllIdle' /\ ~AllAsleep'
<1>1. PICK j \in Carriers : pc[j] \notin Free
  <2>1. CASE focus \in Contexts /\ state[focus] = "Runnable" /\ ~Occurs(focus, runQueue)
    <3>1. Carried(focus)
      BY <2>1 DEF IndInv, RestInv
    <3> QED
      BY <2>1, <3>1, Here DEF Carried
  <2>2. CASE freezeDepth # 0
    BY <2>2, FreezeHolder DEF Free
  <2> QED
    BY <2>1, <2>2
<1>2. j # k /\ pc'[j] = pc[j] /\ pc[j] \notin Waits /\ pc[j] # "off"
  BY <1>1 DEF Turn, Free, Waits
<1>3. j \in program'.carriers
  BY <1>2, AtHand DEF Turn
<1> QED
  BY <1>2, <1>3 DEF AllIdle, AllAsleep, CountsAsIdle, Waits

\* Falling asleep: the last one would have reported the deadlock.
LEMMA SleepersKeepHang ==
    ASSUME StackInv, IndInv, HangInv, NEW k \in Carriers, Sleeps(k)
    PROVE  HangInv'
<1>0. /\ Turn(k) /\ pc'[k] \in Waits /\ asleep' = asleep \cup {k} /\ ~stopRequested /\ pc[k] \in Free
      /\ UNCHANGED <<stopRequested, timerNotify, poller, runQueue, ioArmed, state, focus, freezeDepth,
                     timers, ioWaits, running, pumpCount>>
      /\ pc'[k] = "idle" => Popable(k) = {}
      /\ pc'[k] = "focuswait" =>
            focus \in Contexts /\ state[focus] = "Runnable" /\ ~Occurs(focus, runQueue)
      /\ pc'[k] = "freezewait" => freezeDepth # 0
      /\ pc' = pc \/ Sleep(k) \/ pc'[k] \in {"focuswait", "freezewait"}
  BY SleepFacts
<1>1. CASE pc'[k] \in {"focuswait", "freezewait"}
  BY <1>0, <1>1, SomebodyIsUp DEF HangInv
<1>2. CASE pc'[k] = "idle"
  <2> SUFFICES ASSUME pumpCount = 0 PROVE HangInv'
    BY <1>0 DEF HangInv
  <2>0. OtherPumps(k) = 0
    BY NoOtherPumps
  <2>1. runQueue' = <<>>
    BY <1>0, <1>2, <2>0, QueueEmpty
  <2>2. ~(AllIdle' /\ timers = {} /\ ioWaits = {})
    <3> SUFFICES ASSUME AllIdle', timers = {}, ioWaits = {} PROVE FALSE
      OBVIOUS
    <3>1. CASE pc' = pc
      <4>1. AllIdle
        BY <1>0, <3>1 DEF AllIdle, Turn
      <4> QED
        BY <1>0, <2>1, <4>1 DEF HangInv
    <3>2. CASE Sleep(k)
      <4>1. /\ ~NoWakeSource(k) /\ NothingToDispatch(k) /\ InPop(k)
        BY <3>2 DEF Sleep, NothingToDispatch, PassesFreeze
      <4>2. \A j \in Carriers : pc[j] \in InFlight /\ j # k => pc[j] \in CountsAsIdle
        <5>1. \A j \in Carriers : pc[j] \in InFlight => j \in program.carriers
          BY AtHand DEF InFlight
        <5> QED
          BY <1>0, <5>1 DEF AllIdle, Turn
      <4>3. IdleAfterWake(k) + 1 >= activeCount
        BY <4>1, <4>2, Crew, AtThePop
      <4>5. blockedCount = 0
        <5>1. \A j \in Carriers : pc[j] \notin {"native"}
          BY <4>1, <4>2, AtThePop DEF InFlight, Locations, CountsAsIdle
        <5>2. Number(Carriers, pc, {"native"}) = 0
          BY <5>1, NobodyThere
        <5> QED
          BY <1>0, <5>2 DEF IndInv, CountInv
      <4> QED
        BY <2>0, <4>1, <4>3, <4>5 DEF NoWakeSource
    <3> QED
      BY <1>0, <1>2, <3>1, <3>2
  <2> QED
    BY <1>0, <2>1, <2>2 DEF HangInv
<1> QED
  BY <1>0, <1>1, <1>2 DEF Waits

\* The steps of the timer thread and of the poller.
Helpers == \/ TimerExpire \/ TimerNotify \/ PollerStarts \/ PollerNotifies
           \/ \E hit \in SUBSET ioWaits : HarvestIoEvents(hit)

\* They queue first and notify later.
LEMMA HelpersKeepWork ==
    ASSUME IndInv, WorkInv, Helpers
    PROVE  WorkInv'
<1>0. UNCHANGED <<pc, stopRequested>>
  BY DEF Helpers, TimerExpire, TimerNotify, PollerStarts, PollerNotifies, HarvestIoEvents
<1>1. CASE TimerExpire \/ \E hit \in SUBSET ioWaits : HarvestIoEvents(hit)
  <2>1. Told' /\ asleep' = asleep
    BY <1>1 DEF TimerExpire, HarvestIoEvents, Told
  <2> QED
    BY <1>0, <2>1 DEF WorkInv
<1>2. CASE TimerNotify \/ PollerNotifies
  <2>1. asleep' = {}
    BY <1>2 DEF TimerNotify, PollerNotifies
  <2> QED
    BY <2>1 DEF WorkInv
<1>3. CASE PollerStarts
  <2>1. Told' = Told /\ asleep' = asleep /\ FocusShut' = FocusShut /\ freezeDepth' = freezeDepth
        /\ \A c : Fresh(c)' = Fresh(c) /\ \A j : Visible(j, c)' = Visible(j, c)
    BY <1>3 DEF PollerStarts, Told, FocusShut, Fresh, Occurs, Visible
  <2> QED
    BY <1>0, <2>1 DEF WorkInv
<1> QED
  BY <1>1, <1>2, <1>3 DEF Helpers

\* When every carrier is idle, every parked context has landed.
LEMMA Landed ==
    ASSUME IndInv, AllIdle
    PROVE  \A c \in Contexts : state[c] \in Parked => framesParked[c]
<1>1. \A j \in Carriers : running[j] \notin Contexts
  <2>1. \A j \in Carriers : pc[j] \in Free
    <3>1. \A j \in Carriers : pc[j] # "off" => pc[j] \in CountsAsIdle
      BY AtHand DEF AllIdle
    <3> QED
      BY <3>1 DEF Free, CountsAsIdle
  <2> QED
    BY <2>1, Here
<1> QED
  BY <1>1 DEF IndInv, RestInv, Carried

\* Waking a landed context fills the queue.
LEMMA QueueFills ==
    ASSUME IndInv, NEW S \in SUBSET Contexts, S # {}, NEW q \in Orders(S), runQueue' = runQueue \o q
    PROVE  runQueue' # <<>>
<1>1. PICK c \in S : TRUE
  OBVIOUS
<1>2. IsFiniteSet(S)
  BY ContextsFinite, FS_Subset
<1>3. q \in [1 .. Cardinality(S) -> S] /\ \A d \in S : \E i \in DOMAIN q : q[i] = d
  BY DEF Orders
<1>4. q \in Seq(Contexts) /\ Occurs(c, q)
  BY <1>1, <1>2, <1>3, AllInOrder
<1>5. Occurs(c, runQueue')
  BY <1>4, ManyMore, Base DEF TypeOK
<1> QED
  BY <1>5 DEF Occurs

\* A helper that takes away the last reason to wait fills the queue.
LEMMA HelpersKeepHang ==
    ASSUME IndInv, HangInv, Helpers
    PROVE  HangInv'
<1>0. /\ UNCHANGED <<pc, program, pumpCount>> /\ Primary \in program.carriers /\ timers \subseteq Contexts
      /\ ioWaits \subseteq Contexts
  BY ConstantsAssumption, Base
     DEF Helpers, TimerExpire, TimerNotify, PollerStarts, PollerNotifies, HarvestIoEvents, TypeOK
<1>1. AllIdle' = AllIdle
  BY <1>0 DEF AllIdle
<1>2. CASE TimerNotify \/ PollerNotifies
  <2>1. asleep' = {} /\ UNCHANGED <<timers, ioWaits, runQueue>>
    BY <1>2 DEF TimerNotify, PollerNotifies
  <2>2. ~AllAsleep'
    BY <1>0, <2>1 DEF AllAsleep
  <2> QED
    BY <1>0, <1>1, <2>1, <2>2 DEF HangInv
<1>3. CASE PollerStarts
  <2>1. /\ UNCHANGED <<timers, ioWaits, runQueue, asleep, timerNotify>>
        /\ poller = "wait" /\ poller' = "poll"
    BY <1>3 DEF PollerStarts
  <2> QED
    BY <1>0, <1>1, <2>1 DEF HangInv, AllAsleep, Told
<1>4. CASE TimerExpire
  <2>1. PICK due \in SUBSET timers : ExpireDueTimers(due)
    BY <1>4 DEF TimerExpire
  <2>2. PICK q \in Orders(Queueable(due)) : runQueue' = runQueue \o q
    BY <2>1 DEF ExpireDueTimers
  <2>3. due # {} /\ \A c \in due : c \in Contexts /\ state[c] \in Parked
    BY <1>0, <2>1 DEF ExpireDueTimers, IndInv, TimerInv, Parked
  <2>4. AllIdle => runQueue' # <<>>
    <3>1. AllIdle => Queueable(due) # {} /\ Queueable(due) \in SUBSET Contexts
      BY <2>3, Landed DEF Queueable
    <3> QED
      BY <2>2, <3>1, QueueFills
  <2>5. Told'
    BY <1>4 DEF TimerExpire, Told
  <2> QED
    BY <1>1, <2>4, <2>5 DEF HangInv
<1>5. CASE \E hit \in SUBSET ioWaits : HarvestIoEvents(hit)
  <2>1. PICK hit \in SUBSET ioWaits : HarvestIoEvents(hit)
    BY <1>5
  <2>2. PICK q \in Orders(Queueable(StillParkedIo(hit))) : runQueue' = runQueue \o q
    BY <2>1 DEF HarvestIoEvents, WakeForIo
  <2>3. /\ ioWaits' = ioWaits \ hit /\ timers' = timers /\ Told'
        /\ \A c \in hit : c \in Contexts /\ state[c] = "ParkedIo"
    BY <1>0, <2>1 DEF HarvestIoEvents, Told, IndInv, IoInv
  <2>4. AllIdle /\ hit # {} => runQueue' # <<>>
    <3>1. AllIdle /\ hit # {} => /\ Queueable(StillParkedIo(hit)) # {}
                                 /\ Queueable(StillParkedIo(hit)) \in SUBSET Contexts
      BY <2>3, Landed DEF Queueable, StillParkedIo, Parked
    <3> QED
      BY <2>2, <3>1, QueueFills
  <2>5. hit = {} => (ioWaits' = ioWaits /\ (runQueue # <<>> => runQueue' # <<>>))
    <3> SUFFICES ASSUME hit = {} PROVE ioWaits' = ioWaits /\ (runQueue # <<>> => runQueue' # <<>>)
      OBVIOUS
    <3>1. ioWaits' = ioWaits
      BY <2>3
    <3>2. q \in Seq(Contexts) /\ runQueue \in Seq(Contexts)
      <4>1. Queueable(StillParkedIo(hit)) = {}
        BY DEF Queueable, StillParkedIo
      <4>2. q \in [1 .. 0 -> {}]
        BY <4>1, FS_EmptySet DEF Orders
      <4> QED
        BY <4>2, Base DEF TypeOK
    <3>3. Len(runQueue) > 0 => Len(runQueue') > 0
      BY <2>2, <3>2
    <3> QED
      BY <2>2, <3>1, <3>2, <3>3
  <2> QED
    BY <1>0, <1>1, <2>3, <2>4, <2>5 DEF HangInv
<1> QED
  BY <1>2, <1>3, <1>4, <1>5 DEF Helpers
-----------------------------------------------------------------------------
\* The first of a queue and the rest.
LEMMA HeadAndTail ==
    ASSUME NEW S, NEW q \in Seq(S), q # <<>>
    PROVE  /\ Tail(q) \in Seq(S) /\ Head(q) \in S
           /\ \A d : Occurs(d, q) <=> d = Head(q) \/ Occurs(d, Tail(q))
           /\ Distinct(q) => Distinct(Tail(q)) /\ ~Occurs(Head(q), Tail(q))
<1> DEFINE n == Len(q)
           t == Tail(q)
<1>1. /\ n \in Nat /\ n > 0 /\ DOMAIN q = 1 .. n
      /\ t \in Seq(S) /\ DOMAIN t = 1 .. n - 1 /\ Head(q) = q[1] /\ Head(q) \in S
      /\ \A i \in 1 .. n - 1 : t[i] = q[i + 1]
  OBVIOUS
<1>2. \A i \in 1 .. n - 1 : i + 1 \in 1 .. n /\ i + 1 # 1
  BY <1>1
<1>3. \A i \in 1 .. n : i = 1 \/ (i - 1 \in 1 .. n - 1 /\ (i - 1) + 1 = i)
  BY <1>1
<1>4. 1 \in 1 .. n
  BY <1>1
<1> HIDE DEF n, t
<1>5. \A d : Occurs(d, t) => Occurs(d, q)
  BY <1>1, <1>2 DEF Occurs
<1>6. \A d : Occurs(d, q) => d = q[1] \/ Occurs(d, t)
  <2> SUFFICES ASSUME NEW i \in 1 .. n, i # 1 PROVE Occurs(q[i], t)
    BY <1>1 DEF Occurs
  <2>1. i - 1 \in 1 .. n - 1 /\ (i - 1) + 1 = i
    BY <1>3
  <2>2. t[i - 1] = q[i]
    BY <1>1, <2>1
  <2> QED
    BY <1>1, <2>1, <2>2 DEF Occurs
<1>7. Occurs(q[1], q)
  BY <1>1, <1>4 DEF Occurs
<1>8. ASSUME Distinct(q) PROVE Distinct(t) /\ ~Occurs(q[1], t)
  <2>1. ASSUME NEW i \in 1 .. n - 1, NEW j \in 1 .. n - 1, t[i] = t[j] PROVE i = j
    <3>1. q[i + 1] = q[j + 1]
      BY <1>1, <2>1
    <3>2. i + 1 = j + 1
      BY <1>1, <1>2, <1>8, <3>1 DEF Distinct
    <3> QED
      BY <3>2
  <2>2. ~Occurs(q[1], t)
    <3> SUFFICES ASSUME NEW i \in 1 .. n - 1, t[i] = q[1] PROVE FALSE
      BY <1>1 DEF Occurs
    <3>1. q[i + 1] = q[1]
      BY <1>1
    <3>2. i + 1 = 1
      BY <1>1, <1>2, <1>4, <1>8, <3>1 DEF Distinct
    <3> QED
      BY <1>2, <3>2
  <2> QED
    BY <1>1, <2>1, <2>2 DEF Distinct
<1> QED
  BY <1>1, <1>5, <1>6, <1>7, <1>8 DEF t

\* A step outside the debugger leaves the turns alone,
LEMMA QuietDebug ==
    ASSUME IndInv, DebugInv, UNCHANGED debugVars,
           \A j \in Carriers : pc[j] = "debug" => running'[j] = running[j]
    PROVE  DebugInv'
<1>1. UNCHANGED <<frozen, freezeQueue, stage>>
  BY DEF debugVars
<1>2. \A j \in Carriers : stage[j] # "none" => running'[j] = running[j]
  BY Base DEF PlaceInv
<1> QED
  BY <1>1, <1>2 DEF DebugInv, Distinct, Occurs

\* and so does a checkpoint that is not in a window.
LEMMA PassingBy ==
    ASSUME IndInv, DebugInv, NEW k \in Carriers, NEW s,
           stage[k] \notin {"await", "window", "close"}, s \notin {"await", "window", "close"},
           stage' = [stage EXCEPT ![k] = s], UNCHANGED <<running, frozen, freezeQueue>>
    PROVE  DebugInv'
<1>1. stage \in [Carriers -> Sections]
  BY Base DEF DebugTypeOK
<1>2. stage'[k] = s /\ \A j \in Carriers \ {k} : stage'[j] = stage[j]
  BY <1>1
<1>3. \A j \in Carriers : stage[j] \in {"await", "window", "close"} => j # k
  OBVIOUS
<1>4. \A j \in Carriers : stage'[j] \in {"await", "window", "close"} => j # k
  BY <1>2
<1> QED
  BY <1>2, <1>3, <1>4 DEF DebugInv, Distinct, Occurs

\* The sections of a freeze window keep the turns.
LEMMA DebugSteps ==
    ASSUME IndInv, DebugInv, NEW k \in Carriers, DebugStep(k)
    PROVE  DebugInv'
<1>0. /\ stage \in [Carriers -> Sections] /\ frozen \in Contexts \cup {NoContext}
      /\ freezeQueue \in Seq(Contexts) /\ NoContext \notin Contexts
      /\ pc[k] # "debug" => stage[k] = "none"
      /\ \A j \in Carriers : stage[j] # "none" => running[j] \in Contexts
      /\ \A j, l \in Carriers : running[j] = running[l] /\ running[j] \in Contexts => j = l
  <2>1. \A j \in Carriers : stage[j] # "none" => running[j] \in Contexts
    BY Here, Base DEF PlaceInv, Busy
  <2> QED
    BY <2>1, Here, Base DEF DebugTypeOK, PlaceInv, CarriedOnce
<1>1. CASE \/ Checkpoint(k) \/ EnterFreezePark(k) \/ ExitFreezePark(k) \/ ReadFocus(k)
           \/ SetDebugFocusContext(k)
  <2>1. Checkpoint(k) \/ EnterFreezePark(k) => stage[k] = "none"
    BY <1>0 DEF Checkpoint, EnterFreezePark, Runs, At
  <2>2. /\ UNCHANGED <<running, frozen, freezeQueue>>
        /\ stage[k] \in {"none", "exit", "read", "publish"}
        /\ \E s \in {"none", "enqueue", "read", "publish"} : stage' = [stage EXCEPT ![k] = s]
    BY <1>1, <2>1 DEF Checkpoint, EnterFreezePark, ExitFreezePark, ReadFocus, SetDebugFocusContext,
                      ToStage, InStage, VmUnchanged
  <2>3. PICK s \in {"none", "enqueue", "read", "publish"} : stage' = [stage EXCEPT ![k] = s]
    BY <2>2
  <2> QED
    BY <2>2, <2>3, PassingBy
<1>2. CASE OpenFreezeWindow(k) \/ \E target \in Contexts \cup {NoContext} : Resume(k, target)
  <2>1. /\ UNCHANGED <<running, frozen, freezeQueue>> /\ stage[k] \in {"await", "window"}
        /\ running[k] = frozen
        /\ \E s \in {"window", "close"} : stage' = [stage EXCEPT ![k] = s]
    BY <1>2 DEF OpenFreezeWindow, OwnTurn, Resume, ToStage, InStage, VmUnchanged, DebugInv
  <2>2. stage'[k] \in {"window", "close"} /\ \A j \in Carriers \ {k} : stage'[j] = stage[j]
    BY <1>0, <2>1
  <2>3. \A c \in Contexts : Occurs(c, freezeQueue) =>
           c # frozen /\ \E j \in Carriers : stage'[j] = "await" /\ running[j] = c
    BY <2>1, <2>2 DEF DebugInv
  <2> QED
    BY <2>1, <2>2, <2>3 DEF DebugInv, Distinct, Occurs
<1>3. CASE EnqueueFreeze(k)
  <2>1. /\ stage[k] = "enqueue" /\ running' = running /\ stage' = [stage EXCEPT ![k] = "await"]
        /\ \/ frozen = NoContext /\ frozen' = running[k] /\ freezeQueue' = freezeQueue
           \/ frozen # NoContext /\ freezeQueue' = Append(freezeQueue, running[k]) /\ frozen' = frozen
    BY <1>3 DEF EnqueueFreeze, InStage, ToStage, VmUnchanged
  <2>2. stage'[k] = "await" /\ \A j \in Carriers \ {k} : stage'[j] = stage[j]
    BY <1>0, <2>1
  <2>3. running[k] \in Contexts
    BY <1>0, <2>1
  <2>4. CASE frozen = NoContext
    <3>1. freezeQueue' = <<>> /\ frozen' = running[k]
      BY <2>1, <2>4 DEF DebugInv
    <3>2. \A c : ~Occurs(c, freezeQueue) /\ ~Occurs(c, freezeQueue)'
      BY <2>4, <3>1 DEF DebugInv, Occurs
    <3>3. \A j \in Carriers \ {k} : stage[j] \notin {"await", "window", "close"}
      BY <1>0, <2>4, <3>2 DEF DebugInv
    <3>4. Distinct(freezeQueue)'
      BY <3>1 DEF Distinct
    <3> QED
      BY <1>0, <2>1, <2>2, <2>3, <3>1, <3>2, <3>3, <3>4 DEF DebugInv
  <2>5. CASE frozen # NoContext
    <3>1. freezeQueue' = Append(freezeQueue, running[k]) /\ frozen' = frozen
      BY <2>1, <2>5
    <3>2. ~Occurs(running[k], freezeQueue) /\ running[k] # frozen
      BY <1>0, <2>1, <2>3, <2>5 DEF DebugInv
    <3>3. /\ Distinct(freezeQueue')
          /\ \A d : Occurs(d, freezeQueue') <=> Occurs(d, freezeQueue) \/ d = running[k]
      BY <1>0, <2>3, <3>1, <3>2, OneMore DEF DebugInv
    <3>4. \A c \in Contexts : Occurs(c, freezeQueue') =>
             c # frozen /\ \E j \in Carriers : stage'[j] = "await" /\ running[j] = c
      BY <2>1, <2>2, <3>2, <3>3 DEF DebugInv
    <3>5. \E j \in Carriers : stage'[j] \in {"await", "window", "close"} /\ running[j] = frozen
      BY <2>1, <2>2, <2>5 DEF DebugInv
    <3>6. \A j \in Carriers :
             /\ stage'[j] \in {"window", "close"} => running[j] = frozen
             /\ stage'[j] = "await" => running[j] = frozen \/ Occurs(running[j], freezeQueue')
      BY <2>2, <3>3 DEF DebugInv
    <3>7. Distinct(freezeQueue)' /\ \A d : Occurs(d, freezeQueue)' = Occurs(d, freezeQueue')
      BY <3>3 DEF Distinct, Occurs
    <3> QED
      BY <2>1, <2>5, <3>1, <3>4, <3>5, <3>6, <3>7 DEF DebugInv
  <2> QED
    BY <2>4, <2>5
<1>4. CASE CloseFreezeWindow(k)
  <2>1. /\ stage[k] = "close" /\ running' = running /\ stage' = [stage EXCEPT ![k] = "exit"]
        /\ freezeQueue = <<>> => frozen' = NoContext /\ freezeQueue' = <<>>
        /\ freezeQueue # <<>> => frozen' = Head(freezeQueue) /\ freezeQueue' = Tail(freezeQueue)
    BY <1>4 DEF CloseFreezeWindow, NextFreezer, InStage, ToStage, VmUnchanged
  <2>2. stage'[k] = "exit" /\ \A j \in Carriers \ {k} : stage'[j] = stage[j]
    BY <1>0, <2>1
  <2>3. running[k] = frozen /\ frozen \in Contexts
    BY <1>0, <2>1 DEF DebugInv
  <2>4. \A j \in Carriers : /\ stage'[j] \notin {"window", "close"}
                            /\ stage'[j] = "await" => Occurs(running[j], freezeQueue)
    BY <1>0, <2>1, <2>2, <2>3 DEF DebugInv
  <2>5. CASE freezeQueue = <<>>
    <3>1. \A c : ~Occurs(c, freezeQueue) /\ ~Occurs(c, freezeQueue)'
      BY <2>1, <2>5 DEF Occurs
    <3>2. Distinct(freezeQueue)'
      BY <2>1, <2>5 DEF Distinct
    <3> QED
      BY <2>1, <2>4, <2>5, <3>1, <3>2 DEF DebugInv
  <2>6. CASE freezeQueue # <<>>
    <3>1. frozen' = Head(freezeQueue) /\ freezeQueue' = Tail(freezeQueue)
      BY <2>1, <2>6
    <3>2. /\ Distinct(freezeQueue') /\ ~Occurs(frozen', freezeQueue') /\ frozen' \in Contexts
          /\ \A d : Occurs(d, freezeQueue) <=> d = frozen' \/ Occurs(d, freezeQueue')
      BY <1>0, <2>6, <3>1, HeadAndTail DEF DebugInv
    <3>3. \A c \in Contexts : Occurs(c, freezeQueue) =>
             \E j \in Carriers : stage'[j] = "await" /\ running[j] = c
      BY <2>1, <2>2 DEF DebugInv
    <3>4. Distinct(freezeQueue)' /\ \A d : Occurs(d, freezeQueue)' = Occurs(d, freezeQueue')
      BY <3>2 DEF Distinct, Occurs
    <3>5. \A c \in Contexts : Occurs(c, freezeQueue') =>
             c # frozen' /\ \E j \in Carriers : stage'[j] = "await" /\ running[j] = c
      BY <3>2, <3>3
    <3>6. \E j \in Carriers : stage'[j] \in {"await", "window", "close"} /\ running[j] = frozen'
      BY <3>2, <3>3
    <3>7. \A j \in Carriers :
             /\ stage'[j] \in {"window", "close"} => running[j] = frozen'
             /\ stage'[j] = "await" => running[j] = frozen' \/ Occurs(running[j], freezeQueue')
      BY <2>4, <3>2
    <3>8. frozen' # NoContext
      BY <1>0, <3>2
    <3> QED
      BY <2>1, <3>4, <3>5, <3>6, <3>7, <3>8 DEF DebugInv
  <2> QED
    BY <2>5, <2>6
<1> QED
  BY <1>1, <1>2, <1>3, <1>4 DEF DebugStep

\* The turns, as the property states them.
LEMMA TurnsAreServed ==
    ASSUME IndInv, DebugInv
    PROVE  OneFreezeWindow
<1>0. /\ DebugTypeOK /\ NoContext \notin Contexts
      /\ \A j \in Carriers : stage[j] # "none" => running[j] \in Contexts
      /\ \A j, l \in Carriers : running[j] = running[l] /\ running[j] \in Contexts => j = l
  <2>1. \A j \in Carriers : stage[j] # "none" => running[j] \in Contexts
    BY Here, Base DEF PlaceInv, Busy
  <2>2. NoContext \notin Contexts
    BY DEF NoContext, Contexts
  <2> QED
    BY <2>1, <2>2, Base DEF CarriedOnce
<1>1. \A k, l \in Carriers : (/\ Freezing(k) /\ stage[k] # "await"
                              /\ Freezing(l) /\ stage[l] # "await") => k = l
  BY <1>0 DEF DebugInv, Freezing
<1>2. ASSUME NEW k \in Carriers, Freezing(k)
      PROVE  \/ frozen = running[k] /\ \A i \in DOMAIN freezeQueue : freezeQueue[i] # running[k]
             \/ frozen # running[k] /\ Cardinality({i \in DOMAIN freezeQueue :
                                                       freezeQueue[i] = running[k]}) = 1
  <2>0. running[k] \in Contexts
    BY <1>0, <1>2 DEF Freezing
  <2>1. CASE frozen = running[k]
    BY <2>0, <2>1 DEF DebugInv, Occurs
  <2>2. CASE frozen # running[k]
    <3>1. Occurs(running[k], freezeQueue)
      BY <1>2, <2>2 DEF DebugInv, Freezing
    <3>2. PICK i \in DOMAIN freezeQueue : freezeQueue[i] = running[k]
      BY <3>1 DEF Occurs
    <3>3. {j \in DOMAIN freezeQueue : freezeQueue[j] = running[k]} = {i}
      BY <3>2 DEF DebugInv, Distinct
    <3> QED
      BY <2>2, <3>3, FS_Singleton
  <2> QED
    BY <2>1, <2>2
<1> QED
  BY <1>0, <1>1, <1>2 DEF OneFreezeWindow
-----------------------------------------------------------------------------
\* The inductive invariant.
GateInv == StackInv /\ IndInv /\ FreeInv /\ WorkInv /\ HangInv /\ DebugInv

\* The end of the primary carrier.
LEMMA LivelyLeaves ==
    ASSUME IndInv, LeavePrimary \/ JoinAndCollect
    PROVE  Lively(Primary)
<1>0. /\ Primary \in Carriers
      /\ Primary \in asleep => pc[Primary] \in Waits
      /\ pc[Primary] # "off" => Primary \in program.carriers
      /\ pc \in [Carriers -> Locations]
  BY AtHand, ConstantsAssumption
<1>1. pc[Primary] \notin Waits \cup {"off", "debug"} /\ program' = program /\ running' = running
  BY DEF LeavePrimary, JoinAndCollect, Escapes, At, Waits
<1>2. \E l \in {"join", "exited"} : pc' = [pc EXCEPT ![Primary] = l]
  BY DEF LeavePrimary, JoinAndCollect, Go
<1>3. Turn(Primary) /\ pc'[Primary] \notin Waits \cup {"splice"}
  BY <1>0, <1>1, <1>2 DEF Turn, Waits
<1>4. LeavePrimary => asleep' = {}
  BY DEF LeavePrimary, StopIf
<1>5. JoinAndCollect => Still
  BY DEF JoinAndCollect, Still
<1> QED
  BY <1>3, <1>4, <1>5, StillNoNews DEF Lively

\* Every step of a carrier is one of three.
Steady(k) == \/ Lively(k)
             \/ Sleeps(k)
             \/ TakeNext(k)

\* The carrier loop,
LEMMA CarrierSteady ==
    ASSUME IndInv, NEW k \in Carriers, CarrierStep(k)
    PROVE  Steady(k)
<1>1. Sleep(k) \/ SleepAgain(k) \/ WaitAtFreezeGate(k) \/ WaitForHeldFocus(k) => Sleeps(k)
  BY DEF Sleeps
<1>2. CASE \/ Launch(k) \/ StopAtPop(k) \/ ReportDeadlock(k) \/ Splice(k) \/ ParkContextFrames(k)
           \/ DeliverJoinResults(k) \/ WakeAfterFinish(k) \/ WakeAfterFailure(k)
           \/ ShutdownInNative(k) \/ LeaveAuxiliary(k)
  BY <1>2, LivelyCarrier DEF Steady
<1> QED
  BY <1>1, <1>2 DEF Steady, CarrierStep

\* the intrinsics,
LEMMA ProgramLively ==
    ASSUME IndInv, NEW k \in Carriers, ProgramStep(k)
    PROVE  Lively(k)
<1>0. Main \in Contexts
  BY ConstantsAssumption DEF Main, Contexts
<1>1. CASE \E t \in Contexts, takesResult \in BOOLEAN : ParkForJoin(k, t, takesResult)
  BY <1>1, LivelyProgram
<1>2. CASE \E targets \in SUBSET Others(k) : ParkForJoinAny(k, targets)
  BY <1>0, <1>2, LivelyProgram
<1>3. CASE \E t \in Contexts : ObserveFailure(k, t)
  BY <1>3, LivelyProgram
<1>4. CASE \E p \in Contexts, failed \in BOOLEAN : Complete(k, p, failed)
  BY <1>4, LivelyProgram
<1>5. CASE \/ Yield(k) \/ Preempt(k) \/ Spawn(k) \/ NewPromise(k) \/ ParkForTimer(k)
           \/ Finish(k) \/ Fail(k) \/ Fatal(k) \/ EnterNative(k) \/ ReturnFromNative(k)
           \/ ServiceDueTimers(k)
  BY <1>0, <1>5, LivelyProgram
<1> QED
  BY <1>1, <1>2, <1>3, <1>4, <1>5 DEF ProgramStep

\* the locks, the I/O and the debugger.
LEMMA ModulesLively ==
    ASSUME IndInv, NEW k \in Carriers, SyncStep(k) \/ IoStep(k) \/ DebugStep(k)
    PROVE  Lively(k)
<1>0. Main \in Contexts
  BY ConstantsAssumption DEF Main, Contexts
<1>1. CASE SyncStep(k)
  BY <1>1, LivelySync DEF SyncStep
<1>2. CASE IoStep(k)
  BY <1>0, <1>2, LivelyIo DEF IoStep
<1>3. CASE DebugStep(k)
  BY <1>3, LivelyDebug DEF DebugStep
<1> QED
  BY <1>1, <1>2, <1>3

\* What they share.
LEMMA SteadyTurns ==
    ASSUME IndInv, NEW k \in Carriers, Steady(k)
    PROVE  /\ Turn(k)
           /\ pc'[k] = "splice" => PassesFreeze(k)
<1>1. CASE Lively(k)
  BY <1>1 DEF Lively
<1>2. CASE Sleeps(k)
  BY <1>2, SleepFacts
<1>3. CASE TakeNext(k)
  BY <1>3, TakeFacts
<1> QED
  BY <1>1, <1>2, <1>3 DEF Steady

\* They keep the sleepers informed.
LEMMA SteadyKeepsWork ==
    ASSUME StackInv, IndInv, WorkInv, HangInv, NEW k \in Carriers, Steady(k)
    PROVE  WorkInv' /\ HangInv'
<1>1. CASE Lively(k)
  BY <1>1, HushKeepsWork, LivelyKeepsHang DEF Lively
<1>2. CASE Sleeps(k)
  BY <1>2, SleepersKeepWork, SleepersKeepHang
<1>3. CASE TakeNext(k)
  <2>1. Turn(k) /\ NoNews /\ pc'[k] \notin Waits
    BY <1>3, TakeFacts DEF Waits
  <2> QED
    BY <2>1, HushKeepsWork, LivelyKeepsHang
<1> QED
  BY <1>1, <1>2, <1>3 DEF Steady

\* Outside the debugger they keep the turns.
LEMMA TurnKeepsDebug ==
    ASSUME IndInv, DebugInv, NEW k \in Carriers, Turn(k), UNCHANGED debugVars
    PROVE  DebugInv'
<1>1. \A j \in Carriers : pc[j] = "debug" => running'[j] = running[j]
  BY DEF Turn
<1> QED
  BY <1>1, QuietDebug

\* Outside a lock call the locks stay as they are.
LEMMA SyncIdle ==
    ASSUME FreeInv, UNCHANGED syncVars
    PROVE  FreeInv'
BY DEF FreeInv, Waited, syncVars

\* Every step of the runtime is a stutter, a helper's or a carrier's.
LEMMA RuntimeCases ==
    ASSUME IndInv, NoTeardown', [RuntimeNext]_runtimeVars
    PROVE  \/ UNCHANGED runtimeVars
           \/ Helpers /\ UNCHANGED <<syncVars, debugVars, pc, running>>
           \/ \E k \in Carriers :
                 /\ Steady(k)
                 /\ SyncStep(k) \/ UNCHANGED syncVars
                 /\ DebugStep(k) \/ UNCHANGED debugVars
<1>0. Primary \in Carriers
  BY ConstantsAssumption
<1>1. CASE (LeavePrimary \/ JoinAndCollect) /\ UNCHANGED <<syncVars, closing, debugVars>>
  BY <1>0, <1>1, LivelyLeaves DEF Steady
<1>2. CASE (TimerExpire \/ TimerNotify) /\ UNCHANGED <<syncVars, closing, debugVars>>
  <2>1. UNCHANGED <<pc, running>>
    BY <1>2 DEF TimerExpire, ExpireDueTimers, TimerNotify
  <2> QED
    BY <1>2, <2>1 DEF Helpers
<1>3. CASE PollerStep /\ UNCHANGED <<syncVars, debugVars>>
  <2>1. UNCHANGED <<pc, running>>
    BY <1>3 DEF PollerStep, PollerStarts, PollerNotifies, HarvestIoEvents, WakeForIo
  <2>2. Helpers
    BY <1>3 DEF Helpers, PollerStep
  <2> QED
    BY <1>3, <2>1, <2>2
<1>4. CASE \E k \in Carriers : (CarrierStep(k) \/ ProgramStep(k)) /\ UNCHANGED <<syncVars, closing, debugVars>>
  <2>1. PICK k \in Carriers : (CarrierStep(k) \/ ProgramStep(k)) /\ UNCHANGED <<syncVars, closing, debugVars>>
    BY <1>4
  <2>2. Steady(k)
    BY <2>1, CarrierSteady, ProgramLively DEF Steady
  <2> QED
    BY <2>1, <2>2
<1>5. CASE \E k \in Carriers : \/ SyncStep(k) /\ UNCHANGED <<closing, debugVars>>
                               \/ IoStep(k) /\ UNCHANGED <<syncVars, debugVars>>
                               \/ DebugStep(k) /\ UNCHANGED <<syncVars, closing>>
                               \/ PumpStep(k) /\ UNCHANGED <<syncVars, closing, debugVars>>
  <2>1. PICK k \in Carriers : \/ SyncStep(k) /\ UNCHANGED <<closing, debugVars>>
                              \/ IoStep(k) /\ UNCHANGED <<syncVars, debugVars>>
                              \/ DebugStep(k) /\ UNCHANGED <<syncVars, closing>>
                              \/ PumpStep(k) /\ UNCHANGED <<syncVars, closing, debugVars>>
    BY <1>5
  <2>2. Steady(k)
    BY <2>1, ModulesLively, LivelyPump DEF Steady
  <2> QED
    BY <2>1, <2>2
<1>6. Terminated /\ UNCHANGED <<syncVars, closing, debugVars>> => UNCHANGED runtimeVars
  BY DEF Terminated, runtimeVars
<1>7. RuntimeNext =>
         \/ Terminated /\ UNCHANGED <<syncVars, closing, debugVars>>
         \/ (LeavePrimary \/ JoinAndCollect) /\ UNCHANGED <<syncVars, closing, debugVars>>
         \/ (TimerExpire \/ TimerNotify) /\ UNCHANGED <<syncVars, closing, debugVars>>
         \/ PollerStep /\ UNCHANGED <<syncVars, debugVars>>
         \/ \E k \in Carriers : (CarrierStep(k) \/ ProgramStep(k)) /\ UNCHANGED <<syncVars, closing, debugVars>>
         \/ \E k \in Carriers : \/ SyncStep(k) /\ UNCHANGED <<closing, debugVars>>
                                \/ IoStep(k) /\ UNCHANGED <<syncVars, debugVars>>
                                \/ DebugStep(k) /\ UNCHANGED <<syncVars, closing>>
                                \/ PumpStep(k) /\ UNCHANGED <<syncVars, closing, debugVars>>
  BY DEF RuntimeNext, Next
<1> QED
  BY <1>1, <1>2, <1>3, <1>4, <1>5, <1>6, <1>7

\* Every step of the runtime keeps the invariant.
LEMMA GateKept ==
    GateInv /\ NoTeardown' /\ [RuntimeNext]_runtimeVars => FreeInv' /\ WorkInv' /\ HangInv' /\ DebugInv'
<1> SUFFICES ASSUME StackInv, IndInv, NoTeardown', FreeInv, WorkInv, HangInv, DebugInv, [RuntimeNext]_runtimeVars
             PROVE  FreeInv' /\ WorkInv' /\ HangInv' /\ DebugInv'
  BY DEF GateInv
<1>1. CASE UNCHANGED runtimeVars
  <2>1. UNCHANGED <<vars, syncVars, debugVars>>
    BY <1>1 DEF runtimeVars
  <2>2. FreeInv' /\ DebugInv'
    BY <2>1, SyncIdle, QuietDebug DEF vars
  <2>3. WorkInv' /\ HangInv'
    BY <2>1 DEF vars, WorkInv, HangInv, Told, Fresh, FocusShut, AllIdle, AllAsleep, Occurs, Visible
  <2> QED
    BY <2>2, <2>3
<1>2. CASE Helpers /\ UNCHANGED <<syncVars, debugVars, pc, running>>
  BY <1>2, SyncIdle, QuietDebug, HelpersKeepWork, HelpersKeepHang
<1>3. ASSUME NEW k \in Carriers, Steady(k), SyncStep(k) \/ UNCHANGED syncVars,
             DebugStep(k) \/ UNCHANGED debugVars
      PROVE  FreeInv' /\ WorkInv' /\ HangInv' /\ DebugInv'
  <2>1. FreeInv'
    BY <1>3, FreeSteps, SyncIdle
  <2>2. DebugInv'
    BY <1>3, DebugSteps, TurnKeepsDebug, SteadyTurns
  <2>3. WorkInv' /\ HangInv'
    BY <1>3, SteadyKeepsWork
  <2> QED
    BY <2>1, <2>2, <2>3
<1> QED
  BY <1>1, <1>2, <1>3, RuntimeCases

\* It holds when main has been registered.
LEMMA GateInit == RuntimeInit => FreeInv /\ WorkInv /\ HangInv /\ DebugInv
<1> SUFFICES ASSUME RuntimeInit PROVE FreeInv /\ WorkInv /\ HangInv /\ DebugInv
  OBVIOUS
<1>0. Primary \in Carriers
  BY ConstantsAssumption
<1>1. FreeInv
  <2>1. \A p \in Primitives : waiters[p] = <<>>
    BY DEF RuntimeInit, SyncInit
  <2>2. Locks \subseteq Primitives /\ Semaphores \subseteq Primitives
    BY DEF Primitives
  <2> QED
    BY <2>1, <2>2 DEF FreeInv, Waited
<1>2. asleep = {} /\ runQueue # <<>>
  BY DEF RuntimeInit, Init
<1>3. WorkInv
  BY <1>2 DEF WorkInv
<1>4. Primary \in program.carriers
  BY InitHolds, Base, ConstantsAssumption DEF TypeOK
<1>5. HangInv
  BY <1>2, <1>4 DEF HangInv, AllAsleep
<1>6. DebugInv
  <2>1. /\ frozen = NoContext /\ freezeQueue = <<>> /\ \A k \in Carriers : stage[k] = "none"
    BY DEF RuntimeInit, DebugInit
  <2>2. (\A c : ~Occurs(c, freezeQueue)) /\ Distinct(freezeQueue)
    BY <2>1 DEF Occurs, Distinct
  <2> QED
    BY <2>1, <2>2 DEF DebugInv
<1> QED
  BY <1>1, <1>3, <1>5, <1>6

\* GateInv is an invariant of the runtime, whatever the number of carriers,
\* contexts, locks and nested windows.
THEOREM GateInvHolds == RuntimeSpec /\ []NoTeardown => []GateInv
<1>1. FreeInv /\ WorkInv /\ HangInv /\ DebugInv /\ StackInv /\ IndInv /\ NoTeardown' /\ [RuntimeNext]_runtimeVars
         => FreeInv' /\ WorkInv' /\ HangInv' /\ DebugInv'
  BY GateKept DEF GateInv
<1>2. FreeInv /\ WorkInv /\ HangInv /\ DebugInv /\ StackInv /\ IndInv => GateInv
  BY DEF GateInv
<1> QED
  BY <1>1, <1>2, GateInit, NoStalePin, IndInvHolds, PTL DEF RuntimeSpec

\* No context waits for a mutex nobody owns or for a semaphore with permits:
\* unlock and release hand over whenever there is a live waiter.
THEOREM NobodyWaitsForAFreeOneHolds == RuntimeSpec /\ []NoTeardown => []NobodyWaitsForAFreeOne
<1>1. GateInv => NobodyWaitsForAFreeOne
  <2>1. \A p \in Primitives : LiveIndices(p) # {} => Waited(p)
    BY DEF LiveIndices, Waited
  <2>2. \A p \in Primitives : p \in Locks \/ p \in Semaphores
    BY DEF Primitives
  <2> QED
    BY <2>1, <2>2 DEF GateInv, FreeInv, NobodyWaitsForAFreeOne, IsFree
<1> QED
  BY <1>1, GateInvHolds, PTL

\* At most one carrier is in the debugger's front end, and every stopped
\* context has the turn or is queued for it exactly once.
THEOREM OneFreezeWindowHolds == RuntimeSpec /\ []NoTeardown => []OneFreezeWindow
<1>1. GateInv => OneFreezeWindow
  BY TurnsAreServed DEF GateInv
<1> QED
  BY <1>1, GateInvHolds, PTL

\* No carrier of PopNextRunnable sleeps through work: whenever its wait
\* predicate has become true it is about to be notified, except for the two
\* silent changes the property names.
THEOREM WorkIsAnnouncedHolds == RuntimeSpec /\ []NoTeardown => []WorkIsAnnounced
<1>1. GateInv => WorkIsAnnounced
  <2> SUFFICES ASSUME GateInv, NEW k \in asleep, MayProceed(k), ~timerNotify, poller # "notify"
               PROVE  \/ At(k, "idle") /\ ~stopRequested
                            /\ \A i \in Popable(k) : ioArmed[runQueue[i]]
                      \/ At(k, "focuswait") /\ ~stopRequested
                            /\ state[focus] = "BlockedNative"
    BY DEF WorkIsAnnounced
  <2>1. IndInv /\ WorkInv /\ k \in Carriers /\ ~stopRequested /\ ~Told
    BY Base DEF GateInv, TypeOK, WorkInv, Told
  <2>2. CASE pc[k] = "idle"
    <3>1. \A i \in Popable(k) : /\ runQueue[i] \in Contexts /\ Occurs(runQueue[i], runQueue)
                               /\ Visible(k, runQueue[i])
      BY <2>1, Base DEF TypeOK, Occurs, Popable
    <3>2. \A i \in Popable(k) : ioArmed[runQueue[i]]
      BY <2>1, <2>2, <3>1 DEF WorkInv, Fresh
    <3> QED
      BY <2>1, <2>2, <3>2 DEF At
  <2>3. CASE pc[k] = "focuswait"
    <3>1. FocusShut /\ FocusGateOpen
      BY <2>1, <2>3 DEF WorkInv, MayProceed, At
    <3>2. state[focus] = "BlockedNative"
      BY <3>1, Base, <2>1 DEF FocusShut, FocusGateOpen, FocusRules, IsQueued, Occurs, NoContext, Contexts
    <3> QED
      BY <2>1, <2>3, <3>2 DEF At
  <2>4. CASE pc[k] = "freezewait"
    BY <2>1, <2>4 DEF WorkInv, MayProceed, At
  <2> QED
    BY <2>2, <2>3, <2>4 DEF MayProceed, At
<1> QED
  BY <1>1, GateInvHolds, PTL

\* The carriers never all sleep without a timer, a descriptor or a suspended
\* window to wait for: the last one reports the deadlock instead.
THEOREM NoSilentHangHolds == RuntimeSpec /\ []NoTeardown => []NoSilentHang
<1>1. GateInv => NoSilentHang
  <2> SUFFICES ASSUME GateInv, EverybodySleeps, pumpCount = 0 PROVE FALSE
    BY PinsCounted DEF NoSilentHang, GateInv
  <2>1. IndInv /\ WorkInv /\ HangInv /\ AllAsleep /\ ~Told /\ timers = {} /\ ioWaits = {}
    BY DEF GateInv, EverybodySleeps, AllAsleep, Told
  <2>2. runQueue = <<>>
    BY <2>1 DEF HangInv
  <2>3. PICK k \in program.carriers : pc[k] = "freezewait"
    BY <2>1, <2>2 DEF HangInv, AllIdle, AllAsleep, Waits, CountsAsIdle
  <2>4. freezeDepth # 0
    BY <2>1, <2>3 DEF WorkInv, AllAsleep
  <2>5. PICK j \in Carriers : pc[j] = "debug"
    BY <2>1, <2>4, FreezeHolder
  <2>6. j \in program.carriers
    BY <2>1, <2>5, AtHand
  <2> QED
    BY <2>1, <2>5, <2>6 DEF AllAsleep, Waits
<1> QED
  BY <1>1, GateInvHolds, PTL

\* A reported deadlock is one: no context could go on, wake up or return.
THEOREM DeadlockReportIsTrueHolds == RuntimeSpec /\ []NoTeardown => DeadlockReportIsTrue
<1>1. StackInv /\ IndInv => ((\E k \in Carriers : ReportDeadlock(k)) =>
          \A c \in Contexts : state[c] \notin {"Runnable", "ParkedTimer", "BlockedNative", "ParkedIo"})
  BY ReportIsTrue
<1> QED
  BY <1>1, NoStalePin, IndInvHolds, PTL DEF DeadlockReportIsTrue

\* No context is dispatched while another one is stopped in the debugger,
\* until the stop.
THEOREM DispatchWaitsForWindowsHolds == RuntimeSpec /\ []NoTeardown => DispatchWaitsForWindows
<1>1. IndInv /\ NoTeardown' /\ [RuntimeNext]_runtimeVars =>
         [\A k, l \in Carriers :
             Freezing(l) /\ ~stopRequested /\ pc'[k] = "splice" => At(k, "splice")]_vars
  <2> SUFFICES ASSUME IndInv, NoTeardown', [RuntimeNext]_runtimeVars, NEW k \in Carriers, NEW l \in Carriers,
                      Freezing(l), ~stopRequested, pc'[k] = "splice"
               PROVE  pc[k] = "splice"
    BY DEF At
  <2>1. freezeDepth # 0
    BY FreezeHolder DEF Freezing, FreezeAt, At
  <2>2. CASE UNCHANGED runtimeVars
    BY <2>2 DEF runtimeVars, vars
  <2>3. CASE UNCHANGED pc
    BY <2>3
  <2>4. ASSUME NEW j \in Carriers, Steady(j) PROVE pc[k] = "splice"
    <3>1. Turn(j) /\ (pc'[j] = "splice" => PassesFreeze(j))
      BY <2>4, SteadyTurns
    <3>2. ~PassesFreeze(j)
      BY <2>1 DEF PassesFreeze
    <3>3. j # k
      BY <3>1, <3>2
    <3> QED
      BY <3>1, <3>3 DEF Turn
  <2> QED
    BY <2>2, <2>3, <2>4, RuntimeCases
<1> QED
  BY <1>1, IndInvHolds, PTL DEF DispatchWaitsForWindows, RuntimeSpec
==============================================================================
