------------------------------- MODULE VmSync -------------------------------
(***************************************************************************)
(* Mutex, ReentrantMutex and Semaphore (IntrinsicsMutex.cpp,               *)
(* IntrinsicsSemaphore.cpp, VmSchedulerSync.cpp) on top of the scheduler.  *)
(*                                                                         *)
(* The side tables of the three families are guarded by the Sync domain    *)
(* lock, the contexts by the scheduler lock, and the two are never held    *)
(* together.  A blocking call therefore goes through three sections: it    *)
(* registers a Pending entry (Sync), marks the context parked (scheduler), *)
(* and looks at its entry again (Sync).  Still Pending: the entry is       *)
(* Committed and the ParkSignal unwinds.  Acquired: an unlock or release   *)
(* came in between and the park is undone in place.  Unlock and release    *)
(* hand the lock or the permit to the first live entry; only a Committed   *)
(* one is woken, in a scheduler section after the Sync section.            *)
(***************************************************************************)
EXTENDS VmScheduler

CONSTANTS
    Mutexes, ReentrantMutexes, Semaphores,
    InitialPermits,     \* the Semaphore constructor's argument
    MaxPermits,         \* bound on the permits released
    MaxHold             \* bound on the hold count of a ReentrantMutex

Locks == Mutexes \cup ReentrantMutexes
Primitives == Locks \cup Semaphores

ASSUME SyncAssumption ==
    /\ Locks \cap Semaphores = {}
    /\ Mutexes \cap ReentrantMutexes = {}
    /\ InitialPermits \in Nat
    /\ MaxPermits \in Nat
    /\ MaxHold \in Nat \ {0}
    /\ \A p \in Programs : p.uses \subseteq Primitives

VARIABLES
    owner,      \* MutexSlot::ownerId, RMutexSlot::ownerId
    count,      \* RMutexSlot::count, SemaphoreSlot::count
    waiters,    \* the FIFO of SyncWaiter entries
    call        \* the call in progress on a carrier in "sync"

syncVars == <<owner, count, waiters, call>>

Phases == {"Pending", "Acquired", "Committed"}
Entries == [ctx : Contexts, phase : Phases]

(* The next section of a call, the primitive and, in a handoff, the new owner. *)
Stages == {"none", "migrate", "recheck", "abort", "handoff"}
NoCall == [stage |-> "none", on |-> "none", to |-> NoContext]
Calls == [stage : Stages \ {"none"}, on : Primitives,
          to : Contexts \cup {NoContext}] \cup {NoCall}

SyncInit ==
    /\ owner = [l \in Locks |-> NoContext]
    /\ count = [p \in Primitives |-> IF p \in Semaphores THEN InitialPermits ELSE 0]
    /\ waiters = [p \in Primitives |-> <<>>]
    /\ call = [k \in Carriers |-> NoCall]

-----------------------------------------------------------------------------
(* Entries an unlock or release may hand over to; the others are mailboxes. *)
PendingSkipped(e) == e.phase = "Committed"
IsLive(e) == e.phase \in {"Pending", "Committed"}
LiveIndices(p) == {i \in DOMAIN waiters[p] : IsLive(waiters[p][i])}
FirstLive(p) == CHOOSE i \in LiveIndices(p) : \A j \in LiveIndices(p) : i <= j

InNext(k, stage, p, c) == call' = [call EXCEPT ![k] =
                                     [stage |-> stage, on |-> p, to |-> c]]
InCall(k, stage) == At(k, "sync") /\ call[k].stage = stage

(* Leave the call and go on running. *)
Return(k) == /\ call' = [call EXCEPT ![k] = NoCall]
             /\ Go(k, "run")

(* What every section under the Sync domain leaves alone. *)
SchedulerUnchanged == UNCHANGED <<contextVars, queueVars, carrierVars, countVars,
                                  stopRequested, hostVars, gateVars>>

(* The slow half of lock and acquire: register and go to the migration. *)
Register(k, p) ==
    /\ waiters' = [waiters EXCEPT ![p] =
                      Append(@, [ctx |-> running[k], phase |-> "Pending"])]
    /\ InNext(k, "migrate", p, NoContext)
    /\ Go(k, "sync")
    /\ UNCHANGED <<owner, count>>

-----------------------------------------------------------------------------
(***************************************************************************)
(* lock and tryLock.  tryLock is the first two arms; when neither applies  *)
(* it returns false and changes nothing.                                   *)
(***************************************************************************)
IsFree(l) == owner[l] = NoContext

TakeLock(k, l) ==
    /\ At(k, "run")
    /\ IsFree(l)
    /\ owner' = [owner EXCEPT ![l] = running[k]]
    /\ count' = [count EXCEPT ![l] = IF l \in ReentrantMutexes THEN 1 ELSE @]
    /\ UNCHANGED <<waiters, call, pc>>
    /\ SchedulerUnchanged

ReenterLock(k, l) ==
    /\ At(k, "run")
    /\ l \in ReentrantMutexes
    /\ owner[l] = running[k]
    /\ count[l] < MaxHold
    /\ count' = [count EXCEPT ![l] = @ + 1]
    /\ UNCHANGED <<owner, waiters, call, pc>>
    /\ SchedulerUnchanged

(* A Mutex held by the caller itself parks too: it is not reentrant. *)
WaitForLock(k, l) ==
    /\ At(k, "run")
    /\ ~IsFree(l)
    /\ l \in ReentrantMutexes => owner[l] # running[k]
    /\ Register(k, l)
    /\ SchedulerUnchanged

(***************************************************************************)
(* The handoff shared by unlock and release: a Committed entry leaves the  *)
(* table and is woken next, a Pending one is stamped and not woken.        *)
(***************************************************************************)
AlwaysWakes(e) == TRUE
NeverWakes(e) == FALSE
WakesNow(e) == e.phase = "Committed"

HandOff(k, p) ==
    LET i == FirstLive(p)
        e == waiters[p][i]
    IN
    /\ waiters' = [waiters EXCEPT ![p] =
                      IF e.phase = "Committed" THEN Without(@, i)
                      ELSE [@ EXCEPT ![i] = [ctx |-> e.ctx, phase |-> "Acquired"]]]
    /\ IF WakesNow(e)
       THEN InNext(k, "handoff", p, e.ctx) /\ Go(k, "sync")
       ELSE UNCHANGED <<call, pc>>

MayUnlock(k, l) == owner[l] = running[k]

(* unlock by the owner; the last hold of a ReentrantMutex hands over. *)
Unlock(k, l) ==
    /\ At(k, "run")
    /\ MayUnlock(k, l)
    /\ \/ /\ l \in ReentrantMutexes /\ count[l] > 1
          /\ count' = [count EXCEPT ![l] = @ - 1]
          /\ UNCHANGED <<owner, waiters, call, pc>>
       \/ /\ ~(l \in ReentrantMutexes /\ count[l] > 1)
          /\ LiveIndices(l) = {}
          /\ owner' = [owner EXCEPT ![l] = NoContext]
          /\ count' = [count EXCEPT ![l] = 0]
          /\ UNCHANGED <<waiters, call, pc>>
       \/ /\ ~(l \in ReentrantMutexes /\ count[l] > 1)
          /\ LiveIndices(l) # {}
          /\ owner' = [owner EXCEPT ![l] = waiters[l][FirstLive(l)].ctx]
          /\ HandOff(k, l)
          /\ UNCHANGED count
    /\ SchedulerUnchanged

-----------------------------------------------------------------------------
HasPermit(s) == count[s] > 0

(* acquire and tryAcquire with a permit at hand *)
TakePermit(k, s) ==
    /\ At(k, "run")
    /\ HasPermit(s)
    /\ count' = [count EXCEPT ![s] = @ - 1]
    /\ UNCHANGED <<owner, waiters, call, pc>>
    /\ SchedulerUnchanged

WaitForPermit(k, s) ==
    /\ At(k, "run")
    /\ ~HasPermit(s)
    /\ Register(k, s)
    /\ SchedulerUnchanged

(* release: to the first live waiter, or into the counter. *)
Release(k, s) ==
    /\ At(k, "run")
    /\ \/ /\ LiveIndices(s) = {}
          /\ count[s] < MaxPermits
          /\ count' = [count EXCEPT ![s] = @ + 1]
          /\ UNCHANGED <<owner, waiters, call, pc>>
       \/ /\ LiveIndices(s) # {}
          /\ HandOff(k, s)
          /\ UNCHANGED <<owner, count>>
    /\ SchedulerUnchanged

-----------------------------------------------------------------------------
(***************************************************************************)
(* The later sections of a call.                                           *)
(***************************************************************************)

(* ParkForMutex, ParkForSemaphore *)
ParkedOn(p) == IF p \in Semaphores THEN "ParkedSemaphore" ELSE "ParkedMutex"

Migrate(k) ==
    /\ InCall(k, "migrate")
    /\ state' = [state EXCEPT ![running[k]] = ParkedOn(call[k].on)]
    /\ held' = Released(k, running[k])
    /\ asleep' = GateWaitersTold
    /\ InNext(k, "recheck", call[k].on, NoContext)
    /\ UNCHANGED <<frames, framesParked, lastCarrier, parkHandle, selectSet,
                   joinResultDst, rethrow, failExc, failObserved, queueVars,
                   running, countVars, stopRequested, hostVars, gateVars, pc,
                   owner, count, waiters>>

(* ConsumeSyncWaiterStamp on the caller's own entry *)
OwnIndex(k, p) == CHOOSE i \in DOMAIN waiters[p] :
                     /\ waiters[p][i].ctx = running[k]
                     /\ \A j \in DOMAIN waiters[p] :
                           waiters[p][j].ctx = running[k] => i <= j
StillPending(e) == e.phase = "Pending"

Recheck(k) ==
    /\ InCall(k, "recheck")
    /\ LET p == call[k].on
           i == OwnIndex(k, p)
           e == waiters[p][i]
       IN \/ /\ StillPending(e)
             /\ waiters' = [waiters EXCEPT ![p] =
                   [@ EXCEPT ![i] = [ctx |-> e.ctx, phase |-> "Committed"]]]
             /\ call' = [call EXCEPT ![k] = NoCall]
             /\ Go(k, "unwind")
          \/ /\ ~StillPending(e)
             /\ waiters' = [waiters EXCEPT ![p] = Without(@, i)]
             /\ InNext(k, "abort", p, NoContext)
             /\ UNCHANGED pc
    /\ UNCHANGED <<owner, count>>
    /\ SchedulerUnchanged

(* AbortPark: the frames never left this carrier. *)
AbortPark(k) ==
    /\ InCall(k, "abort")
    /\ state' = [state EXCEPT ![running[k]] = "Runnable"]
    /\ held' = [held EXCEPT ![k] = running[k]]
    /\ Return(k)
    /\ UNCHANGED <<frames, framesParked, lastCarrier, parkHandle, selectSet,
                   joinResultDst, rethrow, failExc, failObserved, queueVars,
                   running, asleep, countVars, stopRequested, hostVars, gateVars,
                   owner, count, waiters>>

(* WakeForMutex, WakeForSemaphore: unconditional, whatever the state is. *)
WakeNewOwner(k) ==
    /\ InCall(k, "handoff")
    /\ LET c == call[k].to IN
         /\ state' = [state EXCEPT ![c] = "Runnable"]
         /\ runQueue' = IF Queueable({c}) = {} THEN runQueue ELSE Append(runQueue, c)
    /\ asleep' = {}
    /\ Return(k)
    /\ UNCHANGED <<frames, framesParked, lastCarrier, parkHandle, selectSet,
                   joinResultDst, rethrow, failExc, failObserved, nextId, timers,
                   timerNotify, held, running, countVars, stopRequested,
                   hostVars, gateVars, owner, count, waiters>>

SyncStep(k) ==
    \/ \E l \in Locks \cap program.uses :
          \/ TakeLock(k, l) \/ ReenterLock(k, l)
          \/ WaitForLock(k, l) \/ Unlock(k, l)
    \/ \E s \in Semaphores \cap program.uses :
          \/ TakePermit(k, s) \/ WaitForPermit(k, s) \/ Release(k, s)
    \/ Migrate(k) \/ Recheck(k) \/ AbortPark(k) \/ WakeNewOwner(k)

-----------------------------------------------------------------------------
(***************************************************************************)
(* Properties.                                                             *)
(***************************************************************************)

(* The types of the side tables and of the calls in progress. *)
SyncTypeOK ==
    /\ owner \in [Locks -> Contexts \cup {NoContext}]
    /\ count \in [Primitives -> Nat]
    /\ waiters \in [Primitives -> Seq(Entries)]
    /\ call \in [Carriers -> Calls]

EntryOf(p, c) == {waiters[p][i] : i \in {j \in DOMAIN waiters[p] :
                                            waiters[p][j].ctx = c}}

(***************************************************************************)
(* No call returns without its grant: a context that executes bytecode, or *)
(* is queued to, waits in no side table.  A wake that lands on the wrong   *)
(* park (the hazard IntrinsicMutexUnlock's comment describes) breaks this. *)
(***************************************************************************)
NoReturnWithoutGrant ==
    \A p \in Primitives : \A i \in DOMAIN waiters[p] :
        LET c == waiters[p][i].ctx IN
        /\ ~IsQueued(c)
        /\ \A k \in Carriers : running[k] = c => ~At(k, "run")

(***************************************************************************)
(* No grant is lost: a context parked on a mutex or semaphore is in a side *)
(* table, or about to undo its park, or about to be woken by the carrier   *)
(* that handed it the lock or the permit.  The tables keep their types.    *)
(***************************************************************************)
NoGrantLost ==
    /\ SyncTypeOK
    /\ \A c \in Contexts :
          state[c] \in {"ParkedMutex", "ParkedSemaphore"} =>
              \/ \E p \in Primitives : EntryOf(p, c) # {}
              \/ \E k \in Carriers : InCall(k, "abort") /\ running[k] = c
              \/ \E k \in Carriers : InCall(k, "handoff") /\ call[k].to = c

(***************************************************************************)
(* Nobody waits for what is available: a lock with a live waiter has an    *)
(* owner, a semaphore with a live waiter has no permit in its counter.     *)
(***************************************************************************)
NobodyWaitsForAFreeOne ==
    \A p \in Primitives : LiveIndices(p) # {} =>
        IF p \in Semaphores THEN count[p] = 0 ELSE ~IsFree(p)
==============================================================================
