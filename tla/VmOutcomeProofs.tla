--------------------------- MODULE VmOutcomeProofs ---------------------------
(***************************************************************************)
(* Proofs about how contexts end: the joins, gets and selects that wait for*)
(* it, what the host is told (VmScheduler, in the runtime), and where the  *)
(* contexts of suspended windows may be resumed (VmPump).                  *)
(*                                                                         *)
(* OutcomeInv adds to the inductive invariant of VmDispatchProofs what a   *)
(* joiner may rely on (JoinInv) and what the host may rely on (HostInv).   *)
(* Almost every step is Calm: it decides no context, touches no join and   *)
(* moves carriers only between places that promise nothing.  What is left  *)
(* is the end of a context, the two wakes that follow it, the completion of*)
(* a promise, the parks of join and selectAny, and the end of the carriers.*)
(*                                                                         *)
(* As in VmDispatchProofs nested windows may open, park and return, and    *)
(* none is torn down (NoTeardown).                                         *)
(*                                                                         *)
(* The second half is about the windows that park: HomeInv says where the  *)
(* context of a suspended window, its frames and its pin can be, and every *)
(* step beside the windows is Steady, it takes contexts only where these   *)
(* are at home.                                                            *)
(***************************************************************************)
EXTENDS VmDispatchProofs

\* What a join waits for, or has waited for.
Settled == {"ParkedJoin", "Finished", "Failed"}

\* Where a carrier has the frames of its context on its own stack.
Framed == {"run", "unwind", "native", "sync", "ioparked", "ioclose", "debug"}

\* A carrier in the middle of its context holds its frames.
FrameInv == \A k \in Carriers : pc[k] \in Framed => frames[running[k]] # "none"

\* JoinersHaveAWaker: whoever waits for a decided target will be woken.
WaitInv ==
    \A c, t \in Contexts :
        /\ state[c] = "ParkedJoin"
        /\ parkHandle[c] = t \/ t \in selectSet[c]
        /\ state[t] \in Decided
        => \/ WakerOnItsWay(t)
           \/ stopRequested
           \/ \E k \in Carriers : Escapes(k)

\* Only a selectAny that is parked has targets, and it has no handle.
SelectInv ==
    \A c \in Contexts : selectSet[c] # {} =>
        state[c] = "ParkedJoin" /\ parkHandle[c] = SelectAnyNoTarget

\* A result is still to be delivered only to a parked joiner, and none is
\* left once the carrier of the target has delivered them and goes on to wake.
ResultInv ==
    /\ \A c \in Contexts : joinResultDst[c] => state[c] = "ParkedJoin"
    /\ \A k \in Carriers : pc[k] = "wake" =>
          \A c \in JoinersOf(running[k]) : ~joinResultDst[c]

\* A context that is to rethrow waited for a context that failed with an
\* exception, and has not been resumed yet: it is queued, unwinds or is
\* spliced.
RethrowInv ==
    /\ \A c \in Contexts : rethrow[c] =>
          /\ state[c] = "Runnable"
          /\ frames[c] # "none"
          /\ parkHandle[c] \in Contexts
          /\ state[parkHandle[c]] = "Failed"
          /\ failExc[parkHandle[c]]
          /\ \A k \in Carriers : running[k] = c => pc[k] \in {"unwind", "splice"}
    /\ \A k \in Carriers : pc[k] = "failwake" => failExc[running[k]]

\* The part of the inductive invariant about joins.
JoinInv == FrameInv /\ WaitInv /\ SelectInv /\ ResultInv /\ RethrowInv

\* An error is on its way to the host: recorded, reported, or about to
\* escape from a carrier.
ErrorKnown == auxError \/ outcome = "error" \/ \E k \in Carriers : Escapes(k)

\* The part about the host: the run stops because main has finished or an
\* error is known, and no failure without an exception goes unreported.
HostInv ==
    /\ stopRequested => state[Main] = "Finished" \/ ErrorKnown
    /\ \A c \in Contexts : state[c] = "Failed" /\ ~failExc[c] => ErrorKnown
    /\ outcome = "returned" => RunIsOver
    /\ RunIsOver => outcome # "running"
    /\ HostOutcomeIsTrue
-----------------------------------------------------------------------------
USE DEF contextVars, queueVars, carrierVars, countVars, hostVars, pumpVars,
        ioVars, gateVars

\* Where a carrier stands for a context that has been decided, or for the
\* end of the run.
Marked == {"finish", "wake", "failwake", "raise", "exited"}

\* A step that decides nothing: it touches no join, no failure and nothing
\* the host sees, and what it does to a state is none of the joins' business.
Unsettled ==
    /\ UNCHANGED <<parkHandle, selectSet, joinResultDst, rethrow, failExc>>
    /\ UNCHANGED <<auxError, outcome, detached, stopRequested>>
    /\ \A c \in Contexts :
          /\ state'[c] # state[c] => state[c] \notin Settled /\ state'[c] \notin Settled
          /\ state[c] = "Runnable" /\ state'[c] # "Runnable" =>
                \E j \in Carriers : running[j] = c /\ pc[j] \notin {"unwind", "splice"}
          /\ frames[c] # "none" => frames'[c] # "none"

\* Carriers move between places that promise nothing to a joiner.
Placed ==
    \A j \in Carriers :
       \/ pc'[j] = pc[j] /\ running'[j] = running[j]
       \/ /\ pc[j] \notin Marked \cup {"deadlock"}
          /\ pc'[j] \notin Marked
          /\ \/ running'[j] = running[j] /\ pc[j] \notin {"unwind", "splice"}
             \/ running'[j] = NoContext
             \/ pc'[j] = "splice"
          /\ pc'[j] \in Framed => pc[j] \in Framed /\ running'[j] = running[j]

\* Most steps of the runtime are calm.
Calm == Unsettled /\ Placed

\* The calm steps of the carrier loop and of the timer thread,
LEMMA CalmCarrier ==
    ASSUME IndInv, NEW k \in Carriers,
           \/ Launch(k)
           \/ StopAtPop(k)
           \/ ReportDeadlock(k)
           \/ Sleep(k)
           \/ SleepAgain(k)
           \/ WaitAtFreezeGate(k)
           \/ WaitForHeldFocus(k)
           \/ TakeNext(k)
           \/ ParkContextFrames(k)
           \/ ShutdownInNative(k)
           \/ TimerNotify
           \/ TimerExpire \/ ServiceDueTimers(k)
    PROVE  Calm
<1>0. /\ TypeOK /\ CarrierAt(k, pc[k])
      /\ running[k] \in Contexts \cup {NoContext} /\ NoContext \notin Contexts
      /\ pc \in [Carriers -> Locations] /\ running \in [Carriers -> Contexts \cup {NoContext}]
      /\ state \in [Contexts -> States] /\ frames \in [Contexts -> {"none", "context"} \cup Carriers]
  BY Here DEF TypeOK
<1>1. CASE Launch(k)
  <2>1. Unsettled
    BY <1>0, <1>1 DEF Unsettled, Launch, At, Go
  <2>2. Placed
    BY <1>0, <1>1 DEF Placed, Marked, Framed, Launch, At, Go
  <2> QED
    BY <2>1, <2>2 DEF Calm
<1>2. CASE StopAtPop(k)
  <2>1. Unsettled
    BY <1>0, <1>2 DEF Unsettled, StopAtPop, Unwinds, PassesFreeze, InPop, At, Go, Waits
  <2>2. Placed
    BY <1>0, <1>2 DEF Placed, Marked, Framed, StopAtPop, Unwinds, PassesFreeze, InPop, At, Go, Waits
  <2> QED
    BY <2>1, <2>2 DEF Calm
<1>3. CASE ReportDeadlock(k)
  <2>1. Unsettled
    BY <1>0, <1>3 DEF Unsettled, ReportDeadlock, NothingToDispatch, Unwinds, PassesFreeze, InPop, At, Go, Waits
  <2>2. Placed
    BY <1>0, <1>3 DEF Placed, Marked, Framed, ReportDeadlock, NothingToDispatch, Unwinds, PassesFreeze, InPop, At, Go, Waits
  <2> QED
    BY <2>1, <2>2 DEF Calm
<1>4. CASE Sleep(k)
  <2>1. Unsettled
    BY <1>0, <1>4 DEF Unsettled, Sleep, NothingToDispatch, WaitAs, PassesFreeze, InPop, At, Go, Waits
  <2>2. Placed
    BY <1>0, <1>4 DEF Placed, Marked, Framed, Sleep, NothingToDispatch, WaitAs, PassesFreeze, InPop, At, Go, Waits
  <2> QED
    BY <2>1, <2>2 DEF Calm
<1>5. CASE SleepAgain(k)
  <2>1. Unsettled
    BY <1>0, <1>5 DEF Unsettled, SleepAgain
  <2>2. Placed
    BY <1>0, <1>5 DEF Placed, Marked, Framed, SleepAgain
  <2> QED
    BY <2>1, <2>2 DEF Calm
<1>6. CASE WaitAtFreezeGate(k)
  <2>1. Unsettled
    BY <1>0, <1>6 DEF Unsettled, WaitAtFreezeGate, WaitAs, PassesFreeze, InPop, At, Go, Waits
  <2>2. Placed
    BY <1>0, <1>6 DEF Placed, Marked, Framed, WaitAtFreezeGate, WaitAs, PassesFreeze, InPop, At, Go, Waits
  <2> QED
    BY <2>1, <2>2 DEF Calm
<1>7. CASE WaitForHeldFocus(k)
  <2>1. Unsettled
    BY <1>0, <1>7 DEF Unsettled, WaitForHeldFocus, WaitAs, PassesFreeze, InPop, At, Go, Waits
  <2>2. Placed
    BY <1>0, <1>7 DEF Placed, Marked, Framed, WaitForHeldFocus, WaitAs, PassesFreeze, InPop, At, Go, Waits
  <2> QED
    BY <2>1, <2>2 DEF Calm
<1>8. CASE TakeNext(k)
  <2>1. Unsettled
    BY <1>0, <1>8 DEF Unsettled, TakeNext, PassesFreeze, InPop, At, Go, Waits
  <2>2. Placed
    BY <1>0, <1>8 DEF Placed, Marked, Framed, TakeNext, PassesFreeze, InPop, At, Go, Waits
  <2> QED
    BY <2>1, <2>2 DEF Calm
<1>9. CASE ParkContextFrames(k)
  <2>1. Unsettled
    BY <1>0, <1>9 DEF Unsettled, ParkContextFrames, At, Go
  <2>2. Placed
    BY <1>0, <1>9 DEF Placed, Marked, Framed, ParkContextFrames, At, Go
  <2> QED
    BY <2>1, <2>2 DEF Calm
<1>10. CASE ShutdownInNative(k)
  <2>1. Unsettled
    BY <1>0, <1>10 DEF Unsettled, ShutdownInNative, At, Go
  <2>2. Placed
    BY <1>0, <1>10 DEF Placed, Marked, Framed, ShutdownInNative, At, Go
  <2> QED
    BY <2>1, <2>2 DEF Calm
<1>11. CASE TimerNotify
  <2>1. Unsettled
    BY <1>0, <1>11 DEF Unsettled, TimerNotify
  <2>2. Placed
    BY <1>0, <1>11 DEF Placed, Marked, Framed, TimerNotify
  <2> QED
    BY <2>1, <2>2 DEF Calm
<1>12. CASE TimerExpire \/ ServiceDueTimers(k)
  <2>1. Unsettled
    <3>1. PICK due \in SUBSET timers : state' = WithState(due, "Runnable")
      BY <1>12 DEF TimerExpire, ServiceDueTimers, ExpireDueTimers
    <3>2. \A c \in due : state[c] = "ParkedTimer" /\ c \in Contexts
      BY <1>0, <3>1 DEF IndInv, TimerInv, TypeOK
    <3> QED
      BY <1>0, <1>12, <3>1, <3>2 DEF Unsettled, Settled, WithState, TimerExpire, ServiceDueTimers
  <2>2. Placed
    BY <1>0, <1>12 DEF Placed, TimerExpire, ServiceDueTimers
  <2> QED
    BY <2>1, <2>2 DEF Calm
<1> QED
  BY <1>1, <1>2, <1>3, <1>4, <1>5, <1>6, <1>7, <1>8, <1>9, <1>10, <1>11, <1>12

\* of the intrinsics,
LEMMA CalmProgram ==
    ASSUME IndInv, NEW k \in Carriers, NEW t \in Contexts,
           \/ Yield(k)
           \/ Preempt(k)
           \/ Spawn(k)
           \/ NewPromise(k)
           \/ ParkForTimer(k)
           \/ ObserveFailure(k, t)
           \/ EnterNative(k)
           \/ ReturnFromNative(k)
    PROVE  Calm
<1>0. /\ TypeOK /\ CarrierAt(k, pc[k])
      /\ running[k] \in Contexts \cup {NoContext} /\ NoContext \notin Contexts
      /\ pc \in [Carriers -> Locations] /\ running \in [Carriers -> Contexts \cup {NoContext}]
      /\ state \in [Contexts -> States] /\ frames \in [Contexts -> {"none", "context"} \cup Carriers]
  BY Here DEF TypeOK
<1>1. CASE Yield(k)
  <2>1. Unsettled
    BY <1>0, <1>1 DEF Unsettled, Yield, Runs, At, Go
  <2>2. Placed
    BY <1>0, <1>1 DEF Placed, Marked, Framed, Yield, Runs, At, Go
  <2> QED
    BY <2>1, <2>2 DEF Calm
<1>2. CASE Preempt(k)
  <2>1. Unsettled
    BY <1>0, <1>2 DEF Unsettled, Preempt, At, Go
  <2>2. Placed
    BY <1>0, <1>2 DEF Placed, Marked, Framed, Preempt, At, Go
  <2> QED
    BY <2>1, <2>2 DEF Calm
<1>3. CASE Spawn(k)
  <2>1. Unsettled
    <3>1. nextId \in Contexts /\ state[nextId] = "Unborn"
      BY <1>3 DEF Spawn, IndInv, RestInv, Contexts
    <3> QED
      BY <1>0, <1>3, <3>1 DEF Unsettled, Settled, Spawn
  <2>2. Placed
    BY <1>0, <1>3 DEF Placed, Spawn
  <2> QED
    BY <2>1, <2>2 DEF Calm
<1>4. CASE NewPromise(k)
  <2>1. Unsettled
    <3>1. nextId \in Contexts /\ state[nextId] = "Unborn"
      BY <1>4 DEF NewPromise, IndInv, RestInv, Contexts
    <3> QED
      BY <1>0, <1>4, <3>1 DEF Unsettled, Settled, NewPromise
  <2>2. Placed
    BY <1>0, <1>4 DEF Placed, NewPromise
  <2> QED
    BY <2>1, <2>2 DEF Calm
<1>5. CASE ParkForTimer(k)
  <2>1. Unsettled
    BY <1>0, <1>5 DEF Unsettled, Settled, CarrierAt, Busy, ParkForTimer, Runs, At, Go
  <2>2. Placed
    BY <1>0, <1>5 DEF Placed, Marked, Framed, ParkForTimer, Runs, At, Go
  <2> QED
    BY <2>1, <2>2 DEF Calm
<1>6. CASE ObserveFailure(k, t)
  <2>1. Unsettled
    BY <1>0, <1>6 DEF Unsettled, ObserveFailure
  <2>2. Placed
    BY <1>0, <1>6 DEF Placed, Marked, Framed, ObserveFailure
  <2> QED
    BY <2>1, <2>2 DEF Calm
<1>7. CASE EnterNative(k)
  <2>1. Unsettled
    BY <1>0, <1>7 DEF Unsettled, Settled, CarrierAt, Busy, EnterNative, Runs, At, Go
  <2>2. Placed
    BY <1>0, <1>7 DEF Placed, Marked, Framed, EnterNative, Runs, At, Go
  <2> QED
    BY <2>1, <2>2 DEF Calm
<1>8. CASE ReturnFromNative(k)
  <2>1. Unsettled
    BY <1>0, <1>8, ConstantsAssumption DEF Unsettled, Settled, CarrierAt, Busy, ReturnFromNative, At, Go
  <2>2. Placed
    BY <1>0, <1>8 DEF Placed, Marked, Framed, ReturnFromNative, At, Go
  <2> QED
    BY <2>1, <2>2 DEF Calm
<1> QED
  BY <1>1, <1>2, <1>3, <1>4, <1>5, <1>6, <1>7, <1>8

\* of the I/O waits,
LEMMA CalmIo ==
    ASSUME IndInv, NEW k \in Carriers, NEW c \in Contexts, NEW S \in SUBSET ioWaits,
           \/ RetryIo(k)
           \/ ParkForIo(k)
           \/ FinishParkedNative(k)
           \/ CloseFd(k, S)
           \/ PollerStarts
           \/ PollerNotifies
           \/ WakeClosed(k, c)
           \/ HarvestIoEvents(S)
    PROVE  Calm
<1>0. /\ TypeOK /\ CarrierAt(k, pc[k])
      /\ running[k] \in Contexts \cup {NoContext} /\ NoContext \notin Contexts
      /\ pc \in [Carriers -> Locations] /\ running \in [Carriers -> Contexts \cup {NoContext}]
      /\ state \in [Contexts -> States] /\ frames \in [Contexts -> {"none", "context"} \cup Carriers]
  BY Here DEF TypeOK
<1>1. CASE RetryIo(k)
  <2>1. Unsettled
    BY <1>0, <1>1 DEF Unsettled, RetryIo
  <2>2. Placed
    BY <1>0, <1>1 DEF Placed, Marked, Framed, RetryIo
  <2> QED
    BY <2>1, <2>2 DEF Calm
<1>2. CASE ParkForIo(k)
  <2>1. Unsettled
    BY <1>0, <1>2 DEF Unsettled, Settled, CarrierAt, Busy, ParkForIo, At, Go
  <2>2. Placed
    BY <1>0, <1>2 DEF Placed, Marked, Framed, ParkForIo, At, Go
  <2> QED
    BY <2>1, <2>2 DEF Calm
<1>3. CASE FinishParkedNative(k)
  <2>1. Unsettled
    BY <1>0, <1>3 DEF Unsettled, FinishParkedNative, At, Go
  <2>2. Placed
    BY <1>0, <1>3 DEF Placed, Marked, Framed, FinishParkedNative, At, Go
  <2> QED
    BY <2>1, <2>2 DEF Calm
<1>4. CASE CloseFd(k, S)
  <2>1. Unsettled
    BY <1>0, <1>4 DEF Unsettled, CloseFd, Runs, At, Go
  <2>2. Placed
    BY <1>0, <1>4 DEF Placed, Marked, Framed, CloseFd, Runs, At, Go
  <2> QED
    BY <2>1, <2>2 DEF Calm
<1>5. CASE PollerStarts
  <2>1. Unsettled
    BY <1>0, <1>5 DEF Unsettled, PollerStarts
  <2>2. Placed
    BY <1>0, <1>5 DEF Placed, Marked, Framed, PollerStarts
  <2> QED
    BY <2>1, <2>2 DEF Calm
<1>6. CASE PollerNotifies
  <2>1. Unsettled
    BY <1>0, <1>6 DEF Unsettled, PollerNotifies
  <2>2. Placed
    BY <1>0, <1>6 DEF Placed, Marked, Framed, PollerNotifies
  <2> QED
    BY <2>1, <2>2 DEF Calm
<1>7. CASE WakeClosed(k, c)
  <2>1. Unsettled
    BY <1>0, <1>7 DEF Unsettled, Settled, WakeClosed, WakeForIo, StillParkedIo, WithState
  <2>2. Placed
    BY <1>0, <1>7 DEF Placed, Marked, Framed, WakeClosed, At, Go
  <2> QED
    BY <2>1, <2>2 DEF Calm
<1>8. CASE HarvestIoEvents(S)
  <2>1. Unsettled
    BY <1>0, <1>8 DEF Unsettled, Settled, HarvestIoEvents, WakeForIo, StillParkedIo, WithState
  <2>2. Placed
    BY <1>0, <1>8 DEF Placed, HarvestIoEvents
  <2> QED
    BY <2>1, <2>2 DEF Calm
<1> QED
  BY <1>1, <1>2, <1>3, <1>4, <1>5, <1>6, <1>7, <1>8

\* of the debugger,
LEMMA CalmDebug ==
    ASSUME IndInv, NEW k \in Carriers, NEW target,
           \/ Checkpoint(k)
           \/ EnterFreezePark(k)
           \/ EnqueueFreeze(k)
           \/ OpenFreezeWindow(k)
           \/ Resume(k, target)
           \/ CloseFreezeWindow(k)
           \/ ExitFreezePark(k)
           \/ ReadFocus(k)
           \/ SetDebugFocusContext(k)
    PROVE  Calm
<1>0. /\ TypeOK /\ CarrierAt(k, pc[k])
      /\ running[k] \in Contexts \cup {NoContext} /\ NoContext \notin Contexts
      /\ pc \in [Carriers -> Locations] /\ running \in [Carriers -> Contexts \cup {NoContext}]
      /\ state \in [Contexts -> States] /\ frames \in [Contexts -> {"none", "context"} \cup Carriers]
  BY Here DEF TypeOK
<1>1. CASE Checkpoint(k)
  <2>1. Unsettled
    BY <1>0, <1>1 DEF Unsettled, Checkpoint, Runs, At, Go, VmUnchanged
  <2>2. Placed
    BY <1>0, <1>1 DEF Placed, Marked, Framed, Checkpoint, Runs, At, Go, VmUnchanged
  <2> QED
    BY <2>1, <2>2 DEF Calm
<1>2. CASE EnterFreezePark(k)
  <2>1. Unsettled
    BY <1>0, <1>2 DEF Unsettled, EnterFreezePark, Runs, At, Go
  <2>2. Placed
    BY <1>0, <1>2 DEF Placed, Marked, Framed, EnterFreezePark, Runs, At, Go
  <2> QED
    BY <2>1, <2>2 DEF Calm
<1>3. CASE EnqueueFreeze(k)
  <2>1. Unsettled
    BY <1>0, <1>3 DEF Unsettled, EnqueueFreeze, VmUnchanged
  <2>2. Placed
    BY <1>0, <1>3 DEF Placed, Marked, Framed, EnqueueFreeze, VmUnchanged
  <2> QED
    BY <2>1, <2>2 DEF Calm
<1>4. CASE OpenFreezeWindow(k)
  <2>1. Unsettled
    BY <1>0, <1>4 DEF Unsettled, OpenFreezeWindow, VmUnchanged
  <2>2. Placed
    BY <1>0, <1>4 DEF Placed, Marked, Framed, OpenFreezeWindow, VmUnchanged
  <2> QED
    BY <2>1, <2>2 DEF Calm
<1>5. CASE Resume(k, target)
  <2>1. Unsettled
    BY <1>0, <1>5 DEF Unsettled, Resume, VmUnchanged
  <2>2. Placed
    BY <1>0, <1>5 DEF Placed, Marked, Framed, Resume, VmUnchanged
  <2> QED
    BY <2>1, <2>2 DEF Calm
<1>6. CASE CloseFreezeWindow(k)
  <2>1. Unsettled
    BY <1>0, <1>6 DEF Unsettled, CloseFreezeWindow, VmUnchanged
  <2>2. Placed
    BY <1>0, <1>6 DEF Placed, Marked, Framed, CloseFreezeWindow, VmUnchanged
  <2> QED
    BY <2>1, <2>2 DEF Calm
<1>7. CASE ExitFreezePark(k)
  <2>1. Unsettled
    BY <1>0, <1>7 DEF Unsettled, ExitFreezePark
  <2>2. Placed
    BY <1>0, <1>7 DEF Placed, Marked, Framed, ExitFreezePark
  <2> QED
    BY <2>1, <2>2 DEF Calm
<1>8. CASE ReadFocus(k)
  <2>1. Unsettled
    BY <1>0, <1>8 DEF Unsettled, ReadFocus, VmUnchanged
  <2>2. Placed
    BY <1>0, <1>8 DEF Placed, Marked, Framed, ReadFocus, VmUnchanged
  <2> QED
    BY <2>1, <2>2 DEF Calm
<1>9. CASE SetDebugFocusContext(k)
  <2>1. Unsettled
    BY <1>0, <1>9 DEF Unsettled, SetDebugFocusContext, InStage, At, Go
  <2>2. Placed
    BY <1>0, <1>9 DEF Placed, Marked, Framed, SetDebugFocusContext, InStage, At, Go
  <2> QED
    BY <2>1, <2>2 DEF Calm
<1> QED
  BY <1>1, <1>2, <1>3, <1>4, <1>5, <1>6, <1>7, <1>8, <1>9

\* and of the locks.
LEMMA CalmSync ==
    ASSUME IndInv, NEW k \in Carriers, NEW p,
           \/ TakeLock(k, p)
           \/ ReenterLock(k, p)
           \/ WaitForLock(k, p)
           \/ Unlock(k, p)
           \/ TakePermit(k, p)
           \/ WaitForPermit(k, p)
           \/ Release(k, p)
           \/ Migrate(k)
           \/ Recheck(k)
           \/ AbortPark(k)
           \/ WakeNewOwner(k)
    PROVE  Calm
<1>0. /\ TypeOK /\ CarrierAt(k, pc[k])
      /\ running[k] \in Contexts \cup {NoContext} /\ NoContext \notin Contexts
      /\ pc \in [Carriers -> Locations] /\ running \in [Carriers -> Contexts \cup {NoContext}]
      /\ state \in [Contexts -> States] /\ frames \in [Contexts -> {"none", "context"} \cup Carriers]
  BY Here DEF TypeOK
<1>1. CASE TakeLock(k, p)
  <2>1. Unsettled
    BY <1>0, <1>1 DEF Unsettled, TakeLock, SchedulerUnchanged
  <2>2. Placed
    BY <1>0, <1>1 DEF Placed, Marked, Framed, TakeLock, SchedulerUnchanged
  <2> QED
    BY <2>1, <2>2 DEF Calm
<1>2. CASE ReenterLock(k, p)
  <2>1. Unsettled
    BY <1>0, <1>2 DEF Unsettled, ReenterLock, SchedulerUnchanged
  <2>2. Placed
    BY <1>0, <1>2 DEF Placed, Marked, Framed, ReenterLock, SchedulerUnchanged
  <2> QED
    BY <2>1, <2>2 DEF Calm
<1>3. CASE WaitForLock(k, p)
  <2>1. Unsettled
    BY <1>0, <1>3 DEF Unsettled, WaitForLock, Register, At, Go, SchedulerUnchanged
  <2>2. Placed
    BY <1>0, <1>3 DEF Placed, Marked, Framed, WaitForLock, Register, At, Go, SchedulerUnchanged
  <2> QED
    BY <2>1, <2>2 DEF Calm
<1>4. CASE Unlock(k, p)
  <2>1. Unsettled
    BY <1>0, <1>4 DEF Unsettled, Unlock, SchedulerUnchanged
  <2>2. Placed
    BY <1>0, <1>4 DEF Placed, Marked, Framed, Unlock, HandOff, InNext, At, Go, SchedulerUnchanged
  <2> QED
    BY <2>1, <2>2 DEF Calm
<1>5. CASE TakePermit(k, p)
  <2>1. Unsettled
    BY <1>0, <1>5 DEF Unsettled, TakePermit, SchedulerUnchanged
  <2>2. Placed
    BY <1>0, <1>5 DEF Placed, Marked, Framed, TakePermit, SchedulerUnchanged
  <2> QED
    BY <2>1, <2>2 DEF Calm
<1>6. CASE WaitForPermit(k, p)
  <2>1. Unsettled
    BY <1>0, <1>6 DEF Unsettled, WaitForPermit, Register, At, Go, SchedulerUnchanged
  <2>2. Placed
    BY <1>0, <1>6 DEF Placed, Marked, Framed, WaitForPermit, Register, At, Go, SchedulerUnchanged
  <2> QED
    BY <2>1, <2>2 DEF Calm
<1>7. CASE Release(k, p)
  <2>1. Unsettled
    BY <1>0, <1>7 DEF Unsettled, Release, SchedulerUnchanged
  <2>2. Placed
    BY <1>0, <1>7 DEF Placed, Marked, Framed, Release, HandOff, InNext, At, Go, SchedulerUnchanged
  <2> QED
    BY <2>1, <2>2 DEF Calm
<1>8. CASE Migrate(k)
  <2>1. Unsettled
    BY <1>0, <1>8 DEF Unsettled, Settled, CarrierAt, Busy, Migrate, InCall, At, ParkedOn
  <2>2. Placed
    BY <1>0, <1>8 DEF Placed, Marked, Framed, Migrate, InCall, At, ParkedOn
  <2> QED
    BY <2>1, <2>2 DEF Calm
<1>9. CASE Recheck(k)
  <2>1. Unsettled
    BY <1>0, <1>9 DEF Unsettled, Recheck, InCall, At, Go, SchedulerUnchanged
  <2>2. Placed
    BY <1>0, <1>9 DEF Placed, Marked, Framed, Recheck, InCall, At, Go, SchedulerUnchanged
  <2> QED
    BY <2>1, <2>2 DEF Calm
<1>10. CASE AbortPark(k)
  <2>1. Unsettled
    <3>1. call[k].stage = "abort" /\ pc[k] = "sync"
      BY <1>10 DEF AbortPark, InCall, At
    <3>2. state[running[k]] \in {"ParkedMutex", "ParkedSemaphore"} /\ running[k] \in Contexts
      BY <3>1, SyncFacts DEF CallInv, CallAt
    <3> QED
      BY <1>0, <1>10, <3>2 DEF Unsettled, Settled, AbortPark
  <2>2. Placed
    BY <1>0, <1>10 DEF Placed, Marked, Framed, AbortPark, InCall, Return, At, Go
  <2> QED
    BY <2>1, <2>2 DEF Calm
<1>11. CASE WakeNewOwner(k)
  <2>1. Unsettled
    <3>1. call[k].stage = "handoff"
      BY <1>11 DEF WakeNewOwner, InCall
    <3>2. /\ call[k].to \in Contexts
          /\ state[call[k].to] \in {"ParkedMutex", "ParkedSemaphore"}
      BY <3>1, SyncFacts DEF CallInv, CallAt
    <3> QED
      BY <1>0, <1>11, <3>2 DEF Unsettled, Settled, WakeNewOwner
  <2>2. Placed
    BY <1>0, <1>11 DEF Placed, Marked, Framed, WakeNewOwner, InCall, Return, At, Go
  <2> QED
    BY <2>1, <2>2 DEF Calm
<1> QED
  BY <1>1, <1>2, <1>3, <1>4, <1>5, <1>6, <1>7, <1>8, <1>9, <1>10, <1>11
-----------------------------------------------------------------------------
\* What the invariant says of the tables the joins use.
LEMMA Known ==
    ASSUME IndInv, JoinInv
    PROVE  /\ FrameInv /\ WaitInv /\ SelectInv /\ ResultInv /\ RethrowInv
           /\ CarrierInv /\ CarriedOnce /\ RestInv /\ PlaceInv
           /\ pc \in [Carriers -> Locations] /\ running \in [Carriers -> Contexts \cup {NoContext}]
           /\ state \in [Contexts -> States] /\ frames \in [Contexts -> {"none", "context"} \cup Carriers]
           /\ parkHandle \in [Contexts -> Contexts \cup {SelectAnyNoTarget}]
           /\ selectSet \in [Contexts -> SUBSET Contexts]
           /\ joinResultDst \in [Contexts -> BOOLEAN] /\ rethrow \in [Contexts -> BOOLEAN]
           /\ failExc \in [Contexts -> BOOLEAN] /\ stopRequested \in BOOLEAN
           /\ NoContext \notin Contexts /\ SelectAnyNoTarget \notin Contexts
           /\ \A j \in Carriers : pc[j] \in Framed => running[j] \in Contexts
           /\ \A j \in Carriers : pc[j] \in {"finish", "wake", "failwake"} =>
                 running[j] \in Contexts /\ state[running[j]] \in Decided
<1>1. /\ FrameInv /\ WaitInv /\ SelectInv /\ ResultInv /\ RethrowInv
      /\ CarrierInv /\ CarriedOnce /\ RestInv /\ PlaceInv /\ TypeOK
  BY DEF JoinInv, IndInv, Types
<1>2. NoContext \notin Contexts /\ SelectAnyNoTarget \notin Contexts
  BY DEF NoContext, SelectAnyNoTarget, Contexts
<1>3. ASSUME NEW j \in Carriers
      PROVE  /\ pc[j] \in Framed => running[j] \in Contexts
             /\ pc[j] \in {"finish", "wake", "failwake"} =>
                   running[j] \in Contexts /\ state[running[j]] \in Decided
  BY Here DEF CarrierAt, Busy, Framed, Decided
<1> QED
  BY <1>1, <1>2, <1>3 DEF TypeOK

\* A calm step keeps the joins.
LEMMA CalmKeepsJoin ==
    ASSUME IndInv, JoinInv, Calm
    PROVE  JoinInv'
<1>1. Unsettled /\ Placed
  BY DEF Calm
<1>2. \A c \in Contexts : \A s \in Settled : state'[c] = s <=> state[c] = s
  BY <1>1 DEF Unsettled
<1>3. /\ \A c \in Contexts : state'[c] = "ParkedJoin" <=> state[c] = "ParkedJoin"
      /\ \A c \in Contexts : state'[c] \in Decided <=> state[c] \in Decided
      /\ \A c \in Contexts : state'[c] = "Failed" <=> state[c] = "Failed"
  BY <1>2 DEF Settled, Decided
<1>4. \A t : JoinersOf(t)' = JoinersOf(t)
  BY <1>1, <1>3 DEF JoinersOf, Unsettled
<1>5. \A j \in Carriers : pc[j] \in Marked \cup {"deadlock"} \/ pc'[j] \in Marked =>
         pc'[j] = pc[j] /\ running'[j] = running[j]
  BY <1>1 DEF Placed
<1>6. FrameInv'
  <2> SUFFICES ASSUME NEW j \in Carriers, pc'[j] \in Framed
               PROVE  frames'[running'[j]] # "none"
    BY DEF FrameInv
  <2>1. pc[j] \in Framed /\ running'[j] = running[j]
    BY <1>1 DEF Placed
  <2>2. running[j] \in Contexts /\ frames[running[j]] # "none"
    BY <2>1, Known DEF FrameInv
  <2> QED
    BY <1>1, <2>1, <2>2 DEF Unsettled
<1>7. WaitInv'
  <2> SUFFICES ASSUME NEW c \in Contexts, NEW t \in Contexts,
                      state'[c] = "ParkedJoin", parkHandle[c] = t \/ t \in selectSet[c],
                      state'[t] \in Decided
               PROVE  \/ WakerOnItsWay(t)'
                      \/ stopRequested
                      \/ \E k \in Carriers : Escapes(k)'
    BY <1>1 DEF WaitInv, Unsettled
  <2>1. WakerOnItsWay(t) \/ stopRequested \/ \E k \in Carriers : Escapes(k)
    BY <1>3, Known DEF WaitInv
  <2>2. WakerOnItsWay(t) => WakerOnItsWay(t)'
    BY <1>5 DEF WakerOnItsWay, Marked
  <2>3. \A k \in Carriers : Escapes(k) => Escapes(k)'
    BY <1>5 DEF Escapes, Marked
  <2> QED
    BY <2>1, <2>2, <2>3
<1>8. SelectInv'
  BY <1>1, <1>3, Known DEF SelectInv, Unsettled
<1>9. ResultInv'
  BY <1>1, <1>3, <1>4, <1>5, Known DEF ResultInv, Unsettled, Marked
<1>10. RethrowInv'
  <2>1. ASSUME NEW c \in Contexts, rethrow[c]
        PROVE  /\ state'[c] = "Runnable" /\ frames'[c] # "none" /\ parkHandle[c] \in Contexts
               /\ state'[parkHandle[c]] = "Failed" /\ failExc[parkHandle[c]]
               /\ \A k \in Carriers : running'[k] = c => pc'[k] \in {"unwind", "splice"}
    <3>1. /\ state[c] = "Runnable" /\ frames[c] # "none" /\ parkHandle[c] \in Contexts
          /\ state[parkHandle[c]] = "Failed" /\ failExc[parkHandle[c]]
          /\ \A k \in Carriers : running[k] = c => pc[k] \in {"unwind", "splice"}
      BY <2>1, Known DEF RethrowInv
    <3>2. state'[c] = "Runnable" /\ frames'[c] # "none"
      BY <1>1, <3>1 DEF Unsettled
    <3>3. state'[parkHandle[c]] = "Failed"
      BY <1>3, <3>1
    <3>4. NoContext \notin Contexts
      BY Known
    <3>5. \A k \in Carriers : running'[k] = c => pc'[k] \in {"unwind", "splice"}
      BY <1>1, <3>1, <3>4 DEF Placed
    <3> QED
      BY <3>1, <3>2, <3>3, <3>5
  <2>2. \A k \in Carriers : pc'[k] = "failwake" => failExc[running'[k]]
    BY <1>5, Known DEF RethrowInv, Marked
  <2>3. rethrow' = rethrow /\ parkHandle' = parkHandle /\ failExc' = failExc
    BY <1>1 DEF Unsettled
  <2> QED
    BY <2>1, <2>2, <2>3 DEF RethrowInv
<1> QED
  BY <1>6, <1>7, <1>8, <1>9, <1>10 DEF JoinInv

\* A context ends while others wait for it: its carrier is on its way to
\* wake them.
LEMMA EndKeepsJoin ==
    ASSUME IndInv, JoinInv, NEW k \in Carriers, pc[k] = "run",
           NEW s \in Decided, NEW l \in {"finish", "failwake", "raise"},
           state' = [state EXCEPT ![running[k]] = s],
           frames' = [frames EXCEPT ![running[k]] = "none"],
           pc' = [pc EXCEPT ![k] = l],
           UNCHANGED <<parkHandle, selectSet, joinResultDst, rethrow, running>>,
           stopRequested => stopRequested',
           \A c \in Contexts \ {running[k]} : failExc'[c] = failExc[c],
           l = "failwake" => failExc'[running[k]]
    PROVE  JoinInv'
<1> DEFINE r == running[k]
<1>1. /\ r \in Contexts /\ state[r] = "Runnable" /\ ~rethrow[r]
      /\ \A j \in Carriers \ {k} : running[j] # r /\ running[j] \in Contexts \cup {NoContext}
  <2>1. r \in Contexts /\ state[r] = "Runnable"
    BY Known DEF Framed, CarrierInv, CarrierAt
  <2>2. ~rethrow[r]
    BY <2>1, Known DEF RethrowInv
  <2>3. \A j \in Carriers \ {k} : running[j] # r /\ running[j] \in Contexts \cup {NoContext}
    BY <2>1, Known DEF CarriedOnce
  <2> QED
    BY <2>1, <2>2, <2>3
<1>2. /\ \A c \in Contexts \ {r} : state'[c] = state[c] /\ frames'[c] = frames[c]
      /\ state'[r] = s /\ pc'[k] = l
      /\ \A j \in Carriers \ {k} : pc'[j] = pc[j]
  BY <1>1, Known
<1>3. s \notin {"ParkedJoin", "Runnable"}
  BY DEF Decided
<1> HIDE DEF r
<1>4. FrameInv'
  BY <1>1, <1>2, Known DEF FrameInv, Framed, r
<1>5. WaitInv'
  <2> SUFFICES ASSUME NEW c \in Contexts, NEW t \in Contexts,
                      state'[c] = "ParkedJoin", parkHandle[c] = t \/ t \in selectSet[c],
                      state'[t] \in Decided
               PROVE  \/ WakerOnItsWay(t)'
                      \/ stopRequested'
                      \/ \E j \in Carriers : Escapes(j)'
    BY DEF WaitInv
  <2>1. CASE t = r
    BY <1>2, <2>1 DEF WakerOnItsWay, Escapes, r
  <2>2. CASE t # r
    <3>1. WakerOnItsWay(t) \/ stopRequested \/ \E j \in Carriers : Escapes(j)
      BY <1>2, <1>3, <2>2, Known DEF WaitInv
    <3>2. WakerOnItsWay(t) => WakerOnItsWay(t)'
      BY <1>2 DEF WakerOnItsWay
    <3>3. \A j \in Carriers : Escapes(j) => Escapes(j)'
      BY <1>2 DEF Escapes
    <3> QED
      BY <3>1, <3>2, <3>3
  <2> QED
    BY <2>1, <2>2
<1>6. SelectInv'
  BY <1>1, <1>2, Known DEF SelectInv
<1>7. ResultInv'
  <2>1. \A t : JoinersOf(t)' = JoinersOf(t)
    BY <1>1, <1>2, <1>3 DEF JoinersOf
  <2> QED
    BY <1>1, <1>2, <2>1, Known DEF ResultInv
<1>8. RethrowInv'
  BY <1>1, <1>2, Known DEF RethrowInv, r
<1> QED
  BY <1>4, <1>5, <1>6, <1>7, <1>8 DEF JoinInv

\* A carrier leaves: the run has stopped, nobody is owed a wake.
LEMMA StopKeepsJoin ==
    ASSUME IndInv, JoinInv, NEW k \in Carriers,
           pc[k] \in {"leave", "raise", "deadlock", "join"}, NEW l \in {"join", "exited"},
           pc' = [pc EXCEPT ![k] = l], stopRequested',
           UNCHANGED <<state, frames, parkHandle, selectSet, joinResultDst, rethrow, failExc, running>>
    PROVE  JoinInv'
<1>1. /\ pc'[k] = l /\ \A j \in Carriers \ {k} : pc'[j] = pc[j]
      /\ \A t : JoinersOf(t)' = JoinersOf(t)
  BY Known DEF JoinersOf
<1>2. FrameInv' /\ WaitInv' /\ SelectInv'
  BY <1>1, Known DEF FrameInv, WaitInv, SelectInv, Framed
<1>3. ResultInv' /\ RethrowInv'
  BY <1>1, Known DEF ResultInv, RethrowInv
<1> QED
  BY <1>2, <1>3 DEF JoinInv
-----------------------------------------------------------------------------
\* A parked joiner has frames, on its carrier or landed.
LEMMA ParkedJoiner ==
    ASSUME IndInv, JoinInv, NEW c \in Contexts, state[c] = "ParkedJoin"
    PROVE  /\ frames[c] # "none"
           /\ \A j \in Carriers : running[j] = c => pc[j] = "unwind"
<1>1. ASSUME NEW j \in Carriers, running[j] = c PROVE pc[j] = "unwind"
  <2>1. /\ CarrierAt(j, pc[j]) /\ NoContext \notin Contexts
        /\ pc[j] \in Locations \ {"abandon", "shutdown", "perish"}
    BY Here DEF Torn
  <2> QED
    BY <1>1, <2>1 DEF CarrierAt, Locations, Waits, Free
<1>2. framesParked[c] => frames[c] # "none"
  BY Known DEF RestInv
<1>3. Carried(c) => frames[c] # "none"
  BY <1>1, Known DEF Carried, FrameInv, Framed
<1>4. framesParked[c] \/ Carried(c)
  BY Known DEF RestInv, Parked
<1> QED
  BY <1>1, <1>2, <1>3, <1>4

\* WakeJoiners: every joiner of t is woken, with its result delivered or
\* its exception to rethrow, and nobody else is.
LEMMA JoinersKeepJoin ==
    ASSUME IndInv, JoinInv, NEW t \in Contexts, NEW failed \in BOOLEAN, NEW ds, NEW dst,
           WakeJoiners(t, failed, ds, dst),
           \A c \in Contexts \ {t} : ds[c] = state[c],
           ds[t] = IF failed THEN "Failed" ELSE "Finished",
           state[t] \in {"ParkedPromise", ds[t]},
           \A c \in Contexts : dst[c] \in BOOLEAN /\ (dst[c] => joinResultDst[c]),
           ~failed => \A c \in JoinersOf(t) : ~dst[c],
           \A c \in Contexts : failExc[c] => failExc'[c],
           failed => failExc'[t],
           UNCHANGED <<frames, parkHandle, stopRequested>>,
           \A j \in Carriers :
              \/ pc'[j] = pc[j] /\ running'[j] = running[j]
              \/ /\ pc[j] \in {"wake", "failwake"} /\ running[j] = t
                 /\ pc'[j] \in {"pop", "leave"} /\ running'[j] = NoContext
    PROVE  JoinInv'
<1> DEFINE J == JoinersOf(t)
           S == SelectorsOf(t) \ J
<1>1. /\ \A c \in Contexts : c \in J <=> state[c] = "ParkedJoin" /\ parkHandle[c] = t
      /\ \A c \in Contexts : c \in S <=> state[c] = "ParkedJoin" /\ parkHandle[c] # t /\ t \in selectSet[c]
  BY DEF JoinersOf, SelectorsOf
<1>2. /\ \A c \in Contexts : state'[c] = IF c \in J \cup S THEN "Runnable" ELSE ds[c]
      /\ \A c \in Contexts : rethrow'[c] = (rethrow[c] \/ (failed /\ c \in J))
      /\ \A c \in Contexts : joinResultDst'[c] = IF c \in S \/ (failed /\ c \in J) THEN FALSE ELSE dst[c]
      /\ \A c \in Contexts : selectSet'[c] = IF c \in S THEN {} ELSE selectSet[c]
  BY DEF WakeJoiners
<1>3. /\ \A c \in Contexts \ {t} : c \notin J \cup S => state'[c] = state[c]
      /\ \A c \in Contexts : c \in J \cup S => state[c] = "ParkedJoin" /\ state'[c] = "Runnable"
      /\ t \notin J \cup S /\ state'[t] = (IF failed THEN "Failed" ELSE "Finished")
      /\ \A c \in J : ~joinResultDst'[c] /\ selectSet'[c] = {}
  <2>1. t \notin J \cup S
    BY <1>1
  <2>2. \A c \in J : c \in Contexts /\ selectSet[c] = {}
    BY <1>1, Known DEF SelectInv, JoinersOf
  <2>3. /\ \A c \in Contexts \ {t} : c \notin J \cup S => state'[c] = state[c]
        /\ \A c \in Contexts : c \in J \cup S => state[c] = "ParkedJoin" /\ state'[c] = "Runnable"
        /\ state'[t] = (IF failed THEN "Failed" ELSE "Finished")
    BY <1>1, <1>2, <2>1
  <2>4. ASSUME NEW c \in J PROVE ~joinResultDst'[c] /\ selectSet'[c] = {}
    <3>1. c \in Contexts /\ c \notin S /\ (failed \/ ~dst[c]) /\ selectSet[c] = {}
      BY <2>2
    <3> HIDE DEF J, S
    <3> QED
      BY <1>2, <3>1
  <2> QED
    BY <2>1, <2>3, <2>4
<1>4. /\ \A c \in Contexts : selectSet'[c] # {} => c \notin S /\ selectSet'[c] = selectSet[c]
      /\ \A c \in Contexts : joinResultDst'[c] => c \notin J \cup S /\ joinResultDst[c]
      /\ \A c \in Contexts : rethrow'[c] => rethrow[c] \/ (failed /\ c \in J)
  BY <1>2, <1>3
<1> HIDE DEF J, S
<1>5. FrameInv'
  BY Known DEF FrameInv, Framed
<1>6. WaitInv'
  <2> SUFFICES ASSUME NEW c \in Contexts, NEW u \in Contexts,
                      state'[c] = "ParkedJoin", parkHandle[c] = u \/ u \in selectSet'[c],
                      state'[u] \in Decided
               PROVE  \/ WakerOnItsWay(u)'
                      \/ stopRequested
                      \/ \E j \in Carriers : Escapes(j)'
    BY DEF WaitInv
  <2>1. c # t /\ c \notin J \cup S /\ state[c] = "ParkedJoin" /\ (parkHandle[c] = u \/ u \in selectSet[c])
    BY <1>3, <1>4
  <2>2. u # t
    BY <1>1, <2>1
  <2>3. state[u] \in Decided
    BY <1>3, <2>2 DEF Decided
  <2>4. WakerOnItsWay(u) \/ stopRequested \/ \E j \in Carriers : Escapes(j)
    BY <2>1, <2>3, Known DEF WaitInv
  <2>5. WakerOnItsWay(u) => WakerOnItsWay(u)'
    BY <2>2 DEF WakerOnItsWay
  <2>6. \A j \in Carriers : Escapes(j) => Escapes(j)'
    BY DEF Escapes
  <2> QED
    BY <2>4, <2>5, <2>6
<1>7. SelectInv'
  <2> SUFFICES ASSUME NEW c \in Contexts, selectSet'[c] # {}
               PROVE  state'[c] = "ParkedJoin" /\ parkHandle[c] = SelectAnyNoTarget
    BY DEF SelectInv
  <2>1. c \notin S /\ selectSet[c] # {}
    BY <1>4
  <2>2. state[c] = "ParkedJoin" /\ parkHandle[c] = SelectAnyNoTarget
    BY <2>1, Known DEF SelectInv
  <2>3. c \notin J /\ c # t
    BY <1>1, <2>2, Known
  <2> QED
    BY <1>3, <2>1, <2>2, <2>3
<1>8. ResultInv'
  <2>1. ASSUME NEW c \in Contexts, joinResultDst'[c] PROVE state'[c] = "ParkedJoin"
    <3>1. c \notin J \cup S /\ state[c] = "ParkedJoin"
      BY <1>4, <2>1, Known DEF ResultInv
    <3> QED
      BY <1>3, <3>1
  <2>2. ASSUME NEW j \in Carriers, pc'[j] = "wake", NEW c \in JoinersOf(running[j])'
        PROVE  ~joinResultDst'[c]
    <3>1. /\ pc[j] = "wake" /\ running'[j] = running[j] /\ c \in Contexts
          /\ state'[c] = "ParkedJoin" /\ parkHandle[c] = running[j]
      BY <2>2 DEF JoinersOf
    <3>2. state[c] = "ParkedJoin"
      BY <1>3, <3>1
    <3>3. c \in JoinersOf(running[j])
      BY <3>1, <3>2 DEF JoinersOf
    <3> QED
      BY <1>4, <3>1, <3>3, Known DEF ResultInv
  <2> QED
    BY <2>1, <2>2 DEF ResultInv
<1>9. RethrowInv'
  <2>1. ASSUME NEW c \in Contexts, rethrow[c]
        PROVE  /\ state'[c] = "Runnable" /\ frames[c] # "none" /\ parkHandle[c] \in Contexts
               /\ state'[parkHandle[c]] = "Failed" /\ failExc'[parkHandle[c]]
               /\ \A j \in Carriers : running'[j] = c => pc'[j] \in {"unwind", "splice"}
    <3>1. /\ state[c] = "Runnable" /\ frames[c] # "none" /\ parkHandle[c] \in Contexts
          /\ state[parkHandle[c]] = "Failed" /\ failExc[parkHandle[c]]
          /\ \A k \in Carriers : running[k] = c => pc[k] \in {"unwind", "splice"}
      BY <2>1, Known DEF RethrowInv
    <3>2. c # t /\ c \notin J \cup S
      BY <1>3, <3>1
    <3>3. state'[parkHandle[c]] = "Failed"
      <4>1. CASE parkHandle[c] = t
        BY <1>3, <3>1, <4>1
      <4>2. CASE parkHandle[c] # t
        BY <1>3, <3>1, <4>2
      <4> QED
        BY <4>1, <4>2
    <3>4. \A j \in Carriers : running'[j] = c => pc'[j] \in {"unwind", "splice"}
      BY <3>1, Known
    <3> QED
      BY <1>3, <3>1, <3>2, <3>3, <3>4
  <2>2. ASSUME NEW c \in Contexts, failed, c \in J
        PROVE  /\ state'[c] = "Runnable" /\ frames[c] # "none" /\ parkHandle[c] \in Contexts
               /\ state'[parkHandle[c]] = "Failed" /\ failExc'[parkHandle[c]]
               /\ \A j \in Carriers : running'[j] = c => pc'[j] \in {"unwind", "splice"}
    <3>1. state[c] = "ParkedJoin" /\ parkHandle[c] = t /\ state'[c] = "Runnable"
      BY <1>1, <1>3, <2>2
    <3>2. frames[c] # "none" /\ \A j \in Carriers : running[j] = c => pc[j] = "unwind"
      BY <3>1, ParkedJoiner
    <3>3. \A j \in Carriers : running'[j] = c => pc'[j] \in {"unwind", "splice"}
      BY <3>2, Known
    <3> QED
      BY <1>3, <2>2, <3>1, <3>2, <3>3
  <2>3. \A j \in Carriers : pc'[j] = "failwake" => failExc'[running'[j]]
    BY Known DEF RethrowInv
  <2> QED
    BY <1>4, <2>1, <2>2, <2>3 DEF RethrowInv
<1> QED
  BY <1>5, <1>6, <1>7, <1>8, <1>9 DEF JoinInv
-----------------------------------------------------------------------------
\* What holds of the context of a running carrier.
LEMMA AtRun ==
    ASSUME IndInv, JoinInv, NEW k \in Carriers, pc[k] = "run"
    PROVE  /\ running[k] \in Contexts /\ state[running[k]] = "Runnable"
           /\ ~rethrow[running[k]] /\ ~joinResultDst[running[k]] /\ selectSet[running[k]] = {}
           /\ frames[running[k]] # "none"
           /\ \A j \in Carriers \ {k} : running[j] # running[k]
<1>1. running[k] \in Contexts /\ state[running[k]] = "Runnable"
  BY Known DEF Framed, CarrierInv, CarrierAt
<1>2. ~rethrow[running[k]]
  BY <1>1, Known DEF RethrowInv
<1>3. ~joinResultDst[running[k]] /\ selectSet[running[k]] = {}
  BY <1>1, Known DEF ResultInv, SelectInv
<1>4. frames[running[k]] # "none"
  BY Known DEF FrameInv, Framed
<1>5. \A j \in Carriers \ {k} : running[j] # running[k]
  BY <1>1, Known DEF CarriedOnce
<1> QED
  BY <1>1, <1>2, <1>3, <1>4, <1>5

\* A context parks for targets that are not decided.
LEMMA WaitKeepsJoin ==
    ASSUME IndInv, JoinInv, NEW k \in Carriers, pc[k] = "run",
           NEW t, NEW S \in SUBSET Contexts,
           t = SelectAnyNoTarget \/ S = {},
           \A u \in Contexts : u = t \/ u \in S => state[u] \notin Decided /\ u # running[k],
           state' = [state EXCEPT ![running[k]] = "ParkedJoin"],
           parkHandle' = [parkHandle EXCEPT ![running[k]] = t],
           selectSet' = [selectSet EXCEPT ![running[k]] = S],
           NEW b \in BOOLEAN, joinResultDst' = [joinResultDst EXCEPT ![running[k]] = b],
           pc' = [pc EXCEPT ![k] = "unwind"],
           UNCHANGED <<frames, rethrow, failExc, running, stopRequested>>
    PROVE  JoinInv'
<1> DEFINE r == running[k]
<1>1. /\ r \in Contexts /\ state[r] = "Runnable" /\ ~rethrow[r]
      /\ frames[r] # "none" /\ \A j \in Carriers \ {k} : running[j] # r
  BY AtRun
<1>2. /\ \A c \in Contexts \ {r} : /\ state'[c] = state[c] /\ parkHandle'[c] = parkHandle[c]
                                  /\ selectSet'[c] = selectSet[c]
                                  /\ joinResultDst'[c] = joinResultDst[c]
      /\ state'[r] = "ParkedJoin" /\ parkHandle'[r] = t /\ selectSet'[r] = S
      /\ pc'[k] = "unwind" /\ running[k] = r /\ \A j \in Carriers \ {k} : pc'[j] = pc[j]
  BY <1>1, Known
<1> HIDE DEF r
<1>3. FrameInv'
  BY <1>2, Known DEF FrameInv, Framed
<1>4. /\ \A c \in Contexts : state'[c] \in Decided => c # r /\ state[c] \in Decided
      /\ \A u : WakerOnItsWay(u) => WakerOnItsWay(u)'
      /\ \A j \in Carriers : Escapes(j) => Escapes(j)'
  BY <1>2 DEF Decided, WakerOnItsWay, Escapes
<1>5. WaitInv'
  <2> SUFFICES ASSUME NEW c \in Contexts, NEW u \in Contexts,
                      state'[c] = "ParkedJoin", parkHandle'[c] = u \/ u \in selectSet'[c],
                      state'[u] \in Decided
               PROVE  \/ WakerOnItsWay(u)'
                      \/ stopRequested
                      \/ \E j \in Carriers : Escapes(j)'
    BY DEF WaitInv
  <2>1. c # r
    BY <1>2, <1>4
  <2>2. state[c] = "ParkedJoin" /\ (parkHandle[c] = u \/ u \in selectSet[c]) /\ state[u] \in Decided
    BY <1>2, <1>4, <2>1
  <2> QED
    BY <1>4, <2>2, Known DEF WaitInv
<1>6. SelectInv'
  BY <1>2, Known DEF SelectInv
<1>7. ResultInv'
  <2>1. ASSUME NEW j \in Carriers, pc'[j] = "wake", NEW c \in JoinersOf(running[j])'
        PROVE  ~joinResultDst'[c]
    <3>1. /\ pc[j] = "wake" /\ running[j] \in Contexts /\ state[running[j]] \in Decided
          /\ c \in Contexts /\ state'[c] = "ParkedJoin" /\ parkHandle'[c] = running[j]
      BY <1>2, <2>1, Known DEF JoinersOf
    <3>2. c # r
      BY <1>2, <3>1
    <3>3. c \in JoinersOf(running[j])
      BY <1>2, <3>1, <3>2 DEF JoinersOf
    <3> QED
      BY <1>2, <3>1, <3>2, <3>3, Known DEF ResultInv
  <2>2. \A c \in Contexts : joinResultDst'[c] => state'[c] = "ParkedJoin"
    BY <1>2, Known DEF ResultInv
  <2> QED
    BY <2>1, <2>2 DEF ResultInv
<1>8. RethrowInv'
  BY <1>1, <1>2, Known DEF RethrowInv
<1> QED
  BY <1>3, <1>5, <1>6, <1>7, <1>8 DEF JoinInv

\* Splice: the rethrow is taken by the context that owes it.
LEMMA SpliceKeepsJoin ==
    ASSUME IndInv, JoinInv, NEW k \in Carriers, Splice(k)
    PROVE  JoinInv'
<1> DEFINE r == running[k]
<1>1. /\ pc[k] = "splice" /\ r \in Contexts /\ state[r] = "Runnable"
      /\ \A j \in Carriers \ {k} : running[j] # r
  <2>1. pc[k] = "splice"
    BY DEF Splice, At
  <2>2. CarrierAt(k, pc[k]) /\ r \in Contexts
    BY <2>1, Here DEF Busy
  <2> QED
    BY <2>1, <2>2, Known DEF CarrierAt, CarriedOnce
<1>2. /\ rethrow[r] => frames[r] # "none"
      /\ \A c \in Contexts : parkHandle[c] = r \/ r \in selectSet[c] => TRUE
  BY <1>1, Known DEF RethrowInv
<1>3. /\ \A c \in Contexts \ {r} : frames'[c] = frames[c] /\ rethrow'[c] = rethrow[c]
                                  /\ parkHandle'[c] = parkHandle[c]
      /\ frames'[r] = k /\ ~rethrow'[r] /\ frames'[r] # "none"
      /\ pc'[k] = "run" /\ \A j \in Carriers \ {k} : pc'[j] = pc[j]
      /\ UNCHANGED <<state, selectSet, joinResultDst, failExc, running, stopRequested>>
  BY <1>1, <1>2, Known, ConstantsAssumption DEF Splice, Go
<1>4. r = running[k]
  OBVIOUS
<1> HIDE DEF r
<1>5. \A u : JoinersOf(u)' = JoinersOf(u)
  BY <1>1, <1>3 DEF JoinersOf
<1>6. FrameInv'
  BY <1>1, <1>3, <1>4, Known DEF FrameInv, Framed
<1>7. WaitInv' /\ SelectInv'
  <2>1. /\ \A u : WakerOnItsWay(u) => WakerOnItsWay(u)'
        /\ \A j \in Carriers : Escapes(j) => Escapes(j)'
    BY <1>1, <1>3 DEF WakerOnItsWay, Escapes
  <2>2. WaitInv'
    BY <1>1, <1>3, <2>1, Known DEF WaitInv
  <2>3. SelectInv'
    BY <1>1, <1>3, Known DEF SelectInv
  <2> QED
    BY <2>2, <2>3
<1>8. ResultInv'
  BY <1>1, <1>3, <1>4, <1>5, Known DEF ResultInv
<1>9. RethrowInv'
  BY <1>1, <1>3, <1>4, Known DEF RethrowInv
<1> QED
  BY <1>6, <1>7, <1>8, <1>9 DEF JoinInv

\* A fatal error that tears no window down meets none.
LEMMA FatalOutside ==
    ASSUME IndInv, NoTeardown', NEW k \in Carriers, Fatal(k)
    PROVE  windows[k] = <<>>
<1>1. pc \in [Carriers -> Locations]
  BY Here DEF TypeOK
<1> QED
  BY <1>1 DEF Fatal, Unwinds, Go, NoTeardown, Torn

\* DeliverJoinResults comes before the wake.
LEMMA DeliverKeepsJoin ==
    ASSUME IndInv, JoinInv, NEW k \in Carriers, DeliverJoinResults(k)
    PROVE  JoinInv'
<1>1. /\ pc[k] = "finish" /\ pc'[k] = "wake" /\ \A j \in Carriers \ {k} : pc'[j] = pc[j]
      /\ UNCHANGED <<state, frames, parkHandle, selectSet, rethrow, failExc, running, stopRequested>>
      /\ \A c \in Contexts : joinResultDst'[c] = IF c \in JoinersOf(running[k]) THEN FALSE ELSE joinResultDst[c]
      /\ \A u : JoinersOf(u)' = JoinersOf(u)
      /\ \A u : JoinersOf(u) \subseteq Contexts
  BY Known DEF DeliverJoinResults, Delivered, At, Go, JoinersOf
<1>2. FrameInv' /\ SelectInv'
  BY <1>1, Known DEF FrameInv, SelectInv, Framed
<1>3. WaitInv'
  <2>1. /\ \A u : WakerOnItsWay(u) => WakerOnItsWay(u)'
        /\ \A j \in Carriers : Escapes(j) => Escapes(j)'
    BY <1>1 DEF WakerOnItsWay, Escapes
  <2> QED
    BY <1>1, <2>1, Known DEF WaitInv
<1>4. ResultInv'
  BY <1>1, Known DEF ResultInv
<1>5. RethrowInv'
  BY <1>1, Known DEF RethrowInv
<1> QED
  BY <1>2, <1>3, <1>4, <1>5 DEF JoinInv
-----------------------------------------------------------------------------
\* Finish, Fail and Fatal.
LEMMA EndSteps ==
    ASSUME IndInv, JoinInv, NoTeardown', NEW k \in Carriers, Finish(k) \/ Fail(k) \/ Fatal(k)
    PROVE  JoinInv'
<1>0. /\ running[k] \in Contexts \cup {NoContext}
      /\ failExc \in [Contexts -> BOOLEAN] /\ stopRequested \in BOOLEAN
      /\ "Finished" \in Decided /\ "Failed" \in Decided
  BY Here, Known DEF Decided
<1>1. CASE Finish(k)
  <2>1. /\ pc[k] = "run" /\ state' = [state EXCEPT ![running[k]] = "Finished"]
        /\ frames' = [frames EXCEPT ![running[k]] = "none"]
        /\ pc' = [pc EXCEPT ![k] = "finish"]
        /\ UNCHANGED <<parkHandle, selectSet, joinResultDst, rethrow, running>>
        /\ failExc' = failExc
        /\ stopRequested => stopRequested'
    BY <1>1 DEF Finish, At, Go, StopFor
  <2> QED
    BY <1>0, <2>1, EndKeepsJoin
<1>2. CASE Fail(k)
  <2>1. /\ pc[k] = "run" /\ state' = [state EXCEPT ![running[k]] = "Failed"]
        /\ frames' = [frames EXCEPT ![running[k]] = "none"]
        /\ pc' = [pc EXCEPT ![k] = IF running[k] = Main THEN "raise" ELSE "failwake"]
        /\ UNCHANGED <<parkHandle, selectSet, joinResultDst, rethrow, running>>
        /\ failExc' = [failExc EXCEPT ![running[k]] = TRUE]
        /\ stopRequested => stopRequested'
    BY <1>2 DEF Fail, Runs, At, Go, StopFor
  <2>2. running[k] \in Contexts
    BY <2>1, AtRun
  <2>3. failExc'[running[k]] /\ \A c \in Contexts \ {running[k]} : failExc'[c] = failExc[c]
    BY <1>0, <2>1, <2>2
  <2>4. CASE running[k] = Main
    <3>1. pc' = [pc EXCEPT ![k] = "raise"]
      BY <2>1, <2>4
    <3> QED
      BY <1>0, <2>1, <2>3, <3>1, EndKeepsJoin
  <2>5. CASE running[k] # Main
    <3>1. pc' = [pc EXCEPT ![k] = "failwake"]
      BY <2>1, <2>5
    <3> QED
      BY <1>0, <2>1, <2>3, <3>1, EndKeepsJoin
  <2> QED
    BY <2>4, <2>5
<1>3. CASE Fatal(k)
  <2>1. /\ pc[k] = "run" /\ state' = [state EXCEPT ![running[k]] = "Failed"]
        /\ frames' = [frames EXCEPT ![running[k]] = "none"]
        /\ pc' = [pc EXCEPT ![k] = "raise"]
        /\ UNCHANGED <<parkHandle, selectSet, joinResultDst, rethrow, running>>
        /\ failExc' = [failExc EXCEPT ![running[k]] = FALSE]
        /\ stopRequested => stopRequested'
    BY <1>0, <1>3, FatalOutside DEF Fatal, Runs, At, Go, StopFor, Unwinds
  <2>2. running[k] \in Contexts
    BY <2>1, AtRun
  <2>3. \A c \in Contexts \ {running[k]} : failExc'[c] = failExc[c]
    BY <1>0, <2>1, <2>2
  <2> QED
    BY <1>0, <2>1, <2>3, EndKeepsJoin
<1> QED
  BY <1>1, <1>2, <1>3

\* join, get and selectAny.
LEMMA WaitSteps ==
    ASSUME IndInv, JoinInv, NEW k \in Carriers, NEW t \in Contexts, NEW b \in BOOLEAN,
           NEW S \in SUBSET Others(k), ParkForJoin(k, t, b) \/ ParkForJoinAny(k, S)
    PROVE  JoinInv'
<1>0. /\ Others(k) \subseteq Contexts \ {running[k]} /\ S \in SUBSET Contexts
      /\ joinResultDst \in [Contexts -> BOOLEAN] /\ selectSet \in [Contexts -> SUBSET Contexts]
      /\ SelectAnyNoTarget \notin Contexts
  BY Known DEF Others, Registered
<1>1. CASE ParkForJoin(k, t, b)
  <2>1. pc[k] = "run" /\ t \in Others(k) /\ state[t] \notin Decided
    BY <1>1 DEF ParkForJoin, Runs, At, IsDecided
  <2>2. /\ running[k] \in Contexts /\ ~joinResultDst[running[k]] /\ selectSet[running[k]] = {}
    BY <2>1, AtRun
  <2>3. selectSet' = selectSet /\ selectSet = [selectSet EXCEPT ![running[k]] = {}]
    BY <1>0, <1>1, <2>2 DEF ParkForJoin
  <2>4. /\ state' = [state EXCEPT ![running[k]] = "ParkedJoin"]
        /\ parkHandle' = [parkHandle EXCEPT ![running[k]] = t]
        /\ selectSet' = [selectSet EXCEPT ![running[k]] = {}]
        /\ joinResultDst' = [joinResultDst EXCEPT ![running[k]] = b]
        /\ pc' = [pc EXCEPT ![k] = "unwind"]
        /\ UNCHANGED <<frames, rethrow, failExc, running, stopRequested>>
    BY <1>0, <1>1, <2>2, <2>3 DEF ParkForJoin, Go
  <2>5. /\ {} \in SUBSET Contexts
        /\ \A u \in Contexts : u = t \/ u \in {} => state[u] \notin Decided /\ u # running[k]
    BY <1>0, <2>1
  <2> QED
    BY ZenonT(60), <2>1, <2>4, <2>5, WaitKeepsJoin
<1>2. CASE ParkForJoinAny(k, S)
  <2>1. pc[k] = "run" /\ \A u \in S : state[u] \notin Decided
    BY <1>2 DEF ParkForJoinAny, Runs, At, IsDecided
  <2>2. /\ state' = [state EXCEPT ![running[k]] = "ParkedJoin"]
        /\ parkHandle' = [parkHandle EXCEPT ![running[k]] = SelectAnyNoTarget]
        /\ selectSet' = [selectSet EXCEPT ![running[k]] = S]
        /\ joinResultDst' = [joinResultDst EXCEPT ![running[k]] = TRUE]
        /\ pc' = [pc EXCEPT ![k] = "unwind"]
        /\ UNCHANGED <<frames, rethrow, failExc, running, stopRequested>>
    BY <1>2 DEF ParkForJoinAny, Go
  <2>3. \A u \in Contexts : u = SelectAnyNoTarget \/ u \in S =>
           state[u] \notin Decided /\ u # running[k]
    BY <1>0, <2>1
  <2> QED
    BY <1>0, <2>1, <2>2, <2>3, WaitKeepsJoin
<1> QED
  BY <1>1, <1>2

\* The two wakes after a context's end, and the completion of a promise.
LEMMA JoinerSteps ==
    ASSUME IndInv, JoinInv, NEW k \in Carriers, NEW p \in Contexts, NEW b \in BOOLEAN,
           WakeAfterFinish(k) \/ WakeAfterFailure(k) \/ Complete(k, p, b)
    PROVE  JoinInv'
<1>0. /\ CarrierAt(k, pc[k])
      /\ failExc \in [Contexts -> BOOLEAN] /\ joinResultDst \in [Contexts -> BOOLEAN]
      /\ state \in [Contexts -> States] /\ JoinInv
      /\ pc \in [Carriers -> Locations] /\ running \in [Carriers -> Contexts \cup {NoContext}]
  BY Here, Known
<1>1. CASE WakeAfterFinish(k)
  <2>1. /\ pc[k] = "wake" /\ running[k] \in Contexts
        /\ state[running[k]] = "Finished"
        /\ \A c \in JoinersOf(running[k]) : ~joinResultDst[c]
    <3>1. pc[k] = "wake"
      BY <1>1 DEF WakeAfterFinish, At
    <3> QED
      BY <1>0, <3>1, Known, Here DEF CarrierAt, Busy, ResultInv
  <2>2. /\ WakeJoiners(running[k], FALSE, state, joinResultDst)
        /\ UNCHANGED <<frames, parkHandle, stopRequested, failExc>>
    BY <1>1 DEF WakeAfterFinish
  <2>3. \A j \in Carriers :
              \/ pc'[j] = pc[j] /\ running'[j] = running[j]
              \/ /\ pc[j] \in {"wake", "failwake"} /\ running[j] = running[k]
                 /\ pc'[j] \in {"pop", "leave"} /\ running'[j] = NoContext
    BY <1>0, <1>1, <2>1 DEF WakeAfterFinish, Go, AfterReturn
  <2> QED
    BY <1>0, <2>1, <2>2, <2>3, JoinersKeepJoin
<1>2. CASE WakeAfterFailure(k)
  <2>1. /\ pc[k] = "failwake" /\ running[k] \in Contexts
        /\ state[running[k]] = "Failed" /\ failExc[running[k]]
    <3>1. pc[k] = "failwake"
      BY <1>2 DEF WakeAfterFailure, At
    <3> QED
      BY <1>0, <3>1, Known, Here DEF CarrierAt, Busy, RethrowInv
  <2>2. /\ WakeJoiners(running[k], TRUE, state, joinResultDst)
        /\ UNCHANGED <<frames, parkHandle, stopRequested, failExc>>
    BY <1>2 DEF WakeAfterFailure
  <2>3. \A j \in Carriers :
              \/ pc'[j] = pc[j] /\ running'[j] = running[j]
              \/ /\ pc[j] \in {"wake", "failwake"} /\ running[j] = running[k]
                 /\ pc'[j] \in {"pop", "leave"} /\ running'[j] = NoContext
    BY <1>0, <1>2, <2>1 DEF WakeAfterFailure, Go
  <2> QED
    BY <1>0, <2>1, <2>2, <2>3, JoinersKeepJoin
<1>3. CASE Complete(k, p, b)
  <2> DEFINE s == IF b THEN "Failed" ELSE "Finished"
             ds == [state EXCEPT ![p] = s]
             dst == IF b THEN joinResultDst ELSE Delivered(p)
  <2>1. /\ state[p] = "ParkedPromise" /\ WakeJoiners(p, b, ds, dst)
        /\ UNCHANGED <<frames, parkHandle, stopRequested, pc, running>>
        /\ failExc' = [failExc EXCEPT ![p] = @ \/ b]
    BY <1>3 DEF Complete, Undecided
  <2>2. /\ \A c \in Contexts \ {p} : ds[c] = state[c]
        /\ ds[p] = s
        /\ \A c \in Contexts : failExc[c] => failExc'[c]
        /\ b => failExc'[p]
    BY <1>0, <2>1
  <2>3. /\ \A c \in Contexts : dst[c] \in BOOLEAN /\ (dst[c] => joinResultDst[c])
        /\ ~b => \A c \in JoinersOf(p) : ~dst[c]
    BY <1>0 DEF Delivered, JoinersOf
  <2>4. ds[p] = IF b THEN "Failed" ELSE "Finished"
    BY <2>2
  <2> HIDE DEF ds, dst, s
  <2> QED
    BY <1>0, <2>1, <2>2, <2>3, <2>4, JoinersKeepJoin
<1> QED
  BY <1>1, <1>2, <1>3

\* The end of the carriers.
LEMMA LeaveSteps ==
    ASSUME IndInv, JoinInv, NEW k \in Carriers, LeaveAuxiliary(k) \/ LeavePrimary \/ JoinAndCollect
    PROVE  JoinInv'
<1>0. Primary \in Carriers /\ PlaceInv /\ stopRequested \in BOOLEAN
  BY ConstantsAssumption, Known
<1>1. CASE LeaveAuxiliary(k)
  <2>1. /\ pc[k] \in {"leave", "raise", "deadlock", "join"} /\ stopRequested'
        /\ pc' = [pc EXCEPT ![k] = "exited"]
    BY <1>0, <1>1 DEF LeaveAuxiliary, At, Escapes, StopIf, Go, PlaceInv
  <2>2. UNCHANGED <<state, frames, parkHandle, selectSet, joinResultDst, rethrow, failExc, running>>
    BY <1>1 DEF LeaveAuxiliary
  <2> QED
    BY <2>1, <2>2, StopKeepsJoin
<1>2. CASE LeavePrimary
  <2>1. /\ pc[Primary] \in {"leave", "raise", "deadlock", "join"} /\ stopRequested'
        /\ pc' = [pc EXCEPT ![Primary] = "join"]
    BY <1>0, <1>2 DEF LeavePrimary, At, Escapes, StopIf, Go, PlaceInv
  <2>2. UNCHANGED <<state, frames, parkHandle, selectSet, joinResultDst, rethrow, failExc, running>>
    BY <1>2 DEF LeavePrimary
  <2> QED
    BY <1>0, <2>1, <2>2, StopKeepsJoin
<1>3. CASE JoinAndCollect
  <2>1. /\ pc[Primary] \in {"leave", "raise", "deadlock", "join"} /\ stopRequested'
        /\ pc' = [pc EXCEPT ![Primary] = "exited"]
    BY <1>0, <1>3 DEF JoinAndCollect, At, Go, PlaceInv
  <2>2. UNCHANGED <<state, frames, parkHandle, selectSet, joinResultDst, rethrow, failExc, running>>
    BY <1>3 DEF JoinAndCollect
  <2> QED
    BY <1>0, <2>1, <2>2, StopKeepsJoin
<1> QED
  BY <1>1, <1>2, <1>3
-----------------------------------------------------------------------------
\* What a step has to do to keep HostInv.
LEMMA HostKeeps ==
    ASSUME HostInv, ~RunIsOver, pc'[Primary] # "exited",
           outcome' \in {outcome, "error"},
           state[Main] = "Finished" => state'[Main] = "Finished",
           ErrorKnown => ErrorKnown',
           stopRequested' => stopRequested \/ state'[Main] = "Finished" \/ ErrorKnown',
           \A c \in Contexts : state'[c] = "Failed" /\ ~failExc'[c] =>
              (state[c] = "Failed" /\ ~failExc[c]) \/ ErrorKnown'
    PROVE  HostInv'
<1>1. outcome # "returned" /\ outcome' # "returned" /\ ~RunIsOver'
  BY DEF HostInv, RunIsOver, At
<1>2. HostOutcomeIsTrue'
  BY <1>1 DEF HostOutcomeIsTrue
<1> QED
  BY <1>1, <1>2 DEF HostInv

\* What the invariant says of the tables the host's outcome depends on.
LEMMA HostFacts ==
    ASSUME IndInv, NEW k \in Carriers
    PROVE  /\ Primary \in Carriers /\ Main \in Contexts
           /\ state \in [Contexts -> States] /\ failExc \in [Contexts -> BOOLEAN]
           /\ pc \in [Carriers -> Locations]
<1>1. TypeOK
  BY Here
<1>2. Primary \in Carriers /\ Main \in Contexts
  BY ConstantsAssumption DEF Main, Contexts
<1> QED
  BY <1>1, <1>2 DEF TypeOK

\* A calm step keeps the host's outcome.
LEMMA CalmKeepsHost ==
    ASSUME IndInv, HostInv, ~RunIsOver, Calm
    PROVE  HostInv'
<1>0. Unsettled /\ Placed /\ Primary \in Carriers /\ Main \in Contexts
  BY ConstantsAssumption DEF Calm, Main, Contexts
<1>1. pc'[Primary] # "exited"
  BY <1>0 DEF Placed, Marked, RunIsOver, At
<1>2. ErrorKnown => ErrorKnown'
  <2>1. \A j \in Carriers : Escapes(j) => Escapes(j)'
    BY <1>0 DEF Placed, Marked, Escapes
  <2> QED
    BY <1>0, <2>1 DEF ErrorKnown, Unsettled
<1>3. /\ state[Main] = "Finished" => state'[Main] = "Finished"
      /\ \A c \in Contexts : state'[c] = "Failed" => state[c] = "Failed"
      /\ UNCHANGED <<failExc, outcome, stopRequested>>
  BY <1>0 DEF Unsettled, Settled
<1> QED
  BY <1>1, <1>2, <1>3, HostKeeps

\* The end of a context: main's stops the run, a fatal error escapes.
LEMMA EndsKeepHost ==
    ASSUME IndInv, HostInv, NoTeardown', ~RunIsOver, NEW k \in Carriers, Finish(k) \/ Fail(k) \/ Fatal(k)
    PROVE  HostInv'
<1>0. /\ Primary \in Carriers /\ Main \in Contexts
      /\ state \in [Contexts -> States] /\ failExc \in [Contexts -> BOOLEAN]
      /\ pc \in [Carriers -> Locations]
  BY HostFacts
<1>1. /\ pc[k] = "run" /\ UNCHANGED <<auxError, outcome, detached>>
      /\ pc' = [pc EXCEPT ![k] = pc'[k]]
      /\ pc'[k] \in {"finish", "failwake", "raise"}
  BY <1>0, FatalOutside DEF Finish, Fail, Fatal, Runs, At, Go, Unwinds
<1>2. running[k] \in Contexts /\ state[running[k]] = "Runnable"
  BY <1>1, Here DEF CarrierAt, Busy
<1>3. pc'[Primary] # "exited"
  BY <1>0, <1>1 DEF RunIsOver, At
<1>4. ErrorKnown => ErrorKnown'
  <2>1. \A j \in Carriers : Escapes(j) => Escapes(j)'
    BY <1>0, <1>1 DEF Escapes
  <2> QED
    BY <1>1, <2>1 DEF ErrorKnown
<1>5. pc'[k] = "raise" => ErrorKnown'
  BY DEF ErrorKnown, Escapes
<1>6. state[Main] = "Finished" => state'[Main] = "Finished"
  BY <1>0, <1>2 DEF Finish, Fail, Fatal
<1>7. stopRequested' => stopRequested \/ state'[Main] = "Finished" \/ ErrorKnown'
  BY <1>0, <1>1, <1>2, <1>5 DEF Finish, Fail, Fatal, StopFor, Go, Unwinds
<1>8. \A c \in Contexts : state'[c] = "Failed" /\ ~failExc'[c] =>
              (state[c] = "Failed" /\ ~failExc[c]) \/ ErrorKnown'
  BY <1>0, <1>1, <1>2, <1>5 DEF Finish, Fail, Fatal, Go, Unwinds
<1> QED
  BY <1>1, <1>3, <1>4, <1>6, <1>7, <1>8, HostKeeps

\* Waiting and resuming say nothing to the host.
LEMMA WaitsKeepHost ==
    ASSUME IndInv, HostInv, ~RunIsOver, NEW k \in Carriers, NEW t, NEW b, NEW S,
           \/ ParkForJoin(k, t, b)
           \/ ParkForJoinAny(k, S)
           \/ Splice(k)
           \/ DeliverJoinResults(k)
    PROVE  HostInv'
<1>0. /\ Primary \in Carriers /\ Main \in Contexts
      /\ state \in [Contexts -> States] /\ pc \in [Carriers -> Locations]
  BY HostFacts
<1>1. /\ pc[k] \in {"run", "splice", "finish"}
      /\ UNCHANGED <<auxError, outcome, stopRequested, failExc>>
      /\ pc' = [pc EXCEPT ![k] = pc'[k]] /\ pc'[k] # "exited"
      /\ \/ state' = state
         \/ state' = [state EXCEPT ![running[k]] = "ParkedJoin"] /\ pc[k] = "run"
  BY <1>0 DEF ParkForJoin, ParkForJoinAny, Splice, DeliverJoinResults, Runs, At, Go
<1>2. pc[k] = "run" => running[k] \in Contexts /\ state[running[k]] = "Runnable"
  BY Here DEF CarrierAt, Busy
<1>3. pc'[Primary] # "exited"
  BY <1>0, <1>1 DEF RunIsOver, At
<1>4. ErrorKnown => ErrorKnown'
  <2>1. \A j \in Carriers : Escapes(j) => Escapes(j)'
    BY <1>0, <1>1 DEF Escapes
  <2> QED
    BY <1>1, <2>1 DEF ErrorKnown
<1>5. /\ state[Main] = "Finished" => state'[Main] = "Finished"
      /\ \A c \in Contexts : state'[c] = "Failed" => state[c] = "Failed"
  BY <1>0, <1>1, <1>2
<1> QED
  BY <1>1, <1>3, <1>4, <1>5, HostKeeps

\* Nor do the wakes.
LEMMA JoinersKeepHost ==
    ASSUME IndInv, HostInv, ~RunIsOver, NEW k \in Carriers, NEW p \in Contexts, NEW b \in BOOLEAN,
           WakeAfterFinish(k) \/ WakeAfterFailure(k) \/ Complete(k, p, b)
    PROVE  HostInv'
<1>0. /\ Primary \in Carriers /\ Main \in Contexts
      /\ state \in [Contexts -> States] /\ failExc \in [Contexts -> BOOLEAN]
      /\ pc \in [Carriers -> Locations]
  BY HostFacts
<1>1. /\ UNCHANGED <<auxError, outcome, stopRequested>>
      /\ \/ pc[k] \in {"wake", "failwake"} /\ pc' = [pc EXCEPT ![k] = pc'[k]] /\ pc'[k] # "exited"
         \/ pc' = pc
  BY <1>0 DEF WakeAfterFinish, WakeAfterFailure, Complete, At, Go, AfterReturn
<1>2. pc'[Primary] # "exited"
  BY <1>0, <1>1 DEF RunIsOver, At
<1>3. ErrorKnown => ErrorKnown'
  <2>1. \A j \in Carriers : Escapes(j) => Escapes(j)'
    BY <1>0, <1>1 DEF Escapes
  <2> QED
    BY <1>1, <2>1 DEF ErrorKnown
<1>4. \A c \in Contexts : /\ state[c] = "Finished" => state'[c] = "Finished"
                          /\ state'[c] = "Failed" /\ ~failExc'[c] => state[c] = "Failed" /\ ~failExc[c]
  <2>1. \A t : JoinersOf(t) \cup SelectorsOf(t) \subseteq {c \in Contexts : state[c] = "ParkedJoin"}
    BY DEF JoinersOf, SelectorsOf
  <2>2. CASE WakeAfterFinish(k) \/ WakeAfterFailure(k)
    <3>1. /\ failExc' = failExc
          /\ \A c \in Contexts :
                \/ state'[c] = state[c]
                \/ state[c] = "ParkedJoin" /\ state'[c] = "Runnable"
      BY ZenonT(60), <2>1, <2>2 DEF WakeAfterFinish, WakeAfterFailure, WakeJoiners
    <3> QED
      BY <3>1
  <2>3. CASE Complete(k, p, b)
    <3>1. /\ failExc' = [failExc EXCEPT ![p] = @ \/ b] /\ state[p] = "ParkedPromise"
          /\ \A c \in Contexts :
                \/ state'[c] = state[c]
                \/ state[c] = "ParkedJoin" /\ state'[c] = "Runnable"
                \/ c = p /\ state'[c] = IF b THEN "Failed" ELSE "Finished"
      BY <1>0, <2>1, <2>3 DEF Complete, WakeJoiners, Undecided
    <3> QED
      BY <1>0, <3>1
  <2> QED
    BY <2>2, <2>3
<1> QED
  BY <1>0, <1>1, <1>2, <1>3, <1>4, HostKeeps

\* Leaving the loop hands the error over, and JoinAndCollect collects it.
LEMMA LeavesKeepHost ==
    ASSUME IndInv, HostInv, ~RunIsOver, NEW k \in Carriers,
           LeaveAuxiliary(k) \/ LeavePrimary \/ JoinAndCollect
    PROVE  HostInv'
<1>0. /\ PlaceInv /\ Primary \in Carriers /\ Main \in Contexts
      /\ pc \in [Carriers -> Locations] /\ auxError \in BOOLEAN
      /\ stopRequested \in BOOLEAN /\ outcome \in {"running", "returned", "error"}
  <2>1. TypeOK /\ PlaceInv
    BY Base
  <2> QED
    BY <2>1, HostFacts DEF TypeOK
<1>1. UNCHANGED <<state, failExc>>
  BY DEF LeaveAuxiliary, LeavePrimary, JoinAndCollect
<1>2. CASE LeaveAuxiliary(k)
  <2>1. /\ k # Primary /\ pc' = [pc EXCEPT ![k] = "exited"] /\ outcome' = outcome
        /\ auxError' = (auxError \/ Escapes(k))
        /\ stopRequested' = (stopRequested \/ Escapes(k))
    BY <1>2 DEF LeaveAuxiliary, ErrorAfter, StopIf, Go
  <2>2. pc'[Primary] # "exited"
    BY <1>0, <2>1 DEF RunIsOver, At
  <2>3. \A j \in Carriers : Escapes(j) => Escapes(j)' \/ j = k
    BY <1>0, <2>1 DEF Escapes
  <2>4. /\ ErrorKnown => ErrorKnown'
        /\ Escapes(k) => ErrorKnown'
    BY <2>1, <2>3 DEF ErrorKnown
  <2> QED
    BY <1>0, <1>1, <2>1, <2>2, <2>4, HostKeeps
<1>3. CASE LeavePrimary
  <2>1. /\ pc' = [pc EXCEPT ![Primary] = "join"] /\ auxError' = auxError
        /\ outcome' = IF Escapes(Primary) THEN "error" ELSE outcome
        /\ pc[Primary] = "leave" \/ Escapes(Primary)
    BY <1>3 DEF LeavePrimary, Go, At
  <2>2. pc'[Primary] # "exited" /\ (pc[Primary] = "leave" => stopRequested)
    BY <1>0, <2>1 DEF PlaceInv
  <2>3. \A j \in Carriers : Escapes(j) => Escapes(j)' \/ j = Primary
    BY <1>0, <2>1 DEF Escapes
  <2>4. /\ ErrorKnown => ErrorKnown'
        /\ Escapes(Primary) => ErrorKnown'
    BY <2>1, <2>3 DEF ErrorKnown
  <2>5. outcome' \in {outcome, "error"}
    BY <2>1
  <2> QED
    BY <1>0, <1>1, <2>1, <2>2, <2>4, <2>5, HostKeeps
<1>4. CASE JoinAndCollect
  <2>1. /\ pc[Primary] = "join" /\ pc' = [pc EXCEPT ![Primary] = "exited"]
        /\ auxError' = auxError /\ stopRequested' = stopRequested
        /\ outcome' = IF auxError THEN "error"
                      ELSE IF outcome = "running" THEN "returned" ELSE outcome
        /\ detached' = {j \in program.carriers \ {Primary} : pc[j] # "exited"}
    BY <1>4 DEF JoinAndCollect, Go, At
  <2>2. \A j \in Carriers : Escapes(j) <=> Escapes(j)'
    BY <1>0, <2>1 DEF Escapes
  <2>3. ErrorKnown => ErrorKnown'
    BY <2>1, <2>2 DEF ErrorKnown
  <2>4. stopRequested /\ RunIsOver' /\ outcome # "returned"
    BY <1>0, <2>1 DEF PlaceInv, RunIsOver, At, HostInv
  <2>5. outcome' # "running"
    BY <1>0, <2>1
  <2>6. HostOutcomeIsTrue'
    <3> SUFFICES ASSUME outcome' = "returned", detached' = {}
                 PROVE  /\ state[Main] = "Finished"
                        /\ \A j \in Carriers : ~Escapes(j)'
                        /\ \A c \in Contexts : state[c] = "Failed" => failExc[c]
      BY <1>1 DEF HostOutcomeIsTrue
    <3>1. outcome = "running" /\ ~auxError
      BY <2>1, <2>4
    <3>2. ASSUME NEW j \in Carriers PROVE ~Escapes(j)
      BY <1>0, <2>1 DEF PlaceInv, Escapes
    <3>3. ~ErrorKnown
      BY <3>1, <3>2 DEF ErrorKnown
    <3> QED
      BY <2>2, <2>4, <3>2, <3>3 DEF HostInv
  <2> QED
    BY <1>1, <2>1, <2>3, <2>4, <2>5, <2>6 DEF HostInv
<1> QED
  BY <1>2, <1>3, <1>4
-----------------------------------------------------------------------------
\* The inductive invariant.
OutcomeInv == IndInv /\ JoinInv /\ HostInv

\* Both parts after a calm step.
LEMMA FromCalm ==
    ASSUME IndInv, JoinInv, HostInv, ~RunIsOver, Calm
    PROVE  JoinInv' /\ HostInv'
BY CalmKeepsJoin, CalmKeepsHost

\* Every step of the carrier loop,
LEMMA CarrierOutcomes ==
    ASSUME IndInv, JoinInv, HostInv, ~RunIsOver, NEW k \in Carriers, CarrierStep(k)
    PROVE  JoinInv' /\ HostInv'
<1>0. Main \in Contexts /\ TRUE \in BOOLEAN
  BY HostFacts
<1>1. CASE Splice(k) \/ DeliverJoinResults(k)
  BY <1>1, SpliceKeepsJoin, DeliverKeepsJoin, WaitsKeepHost
<1>2. CASE WakeAfterFinish(k) \/ WakeAfterFailure(k)
  BY <1>0, <1>2, JoinerSteps, JoinersKeepHost
<1>3. CASE LeaveAuxiliary(k)
  BY <1>3, LeaveSteps, LeavesKeepHost
<1>4. CASE \/ Launch(k) \/ StopAtPop(k) \/ ReportDeadlock(k) \/ Sleep(k) \/ SleepAgain(k)
           \/ WaitAtFreezeGate(k) \/ WaitForHeldFocus(k) \/ TakeNext(k)
           \/ ParkContextFrames(k) \/ ShutdownInNative(k)
  BY <1>4, CalmCarrier, FromCalm
<1> QED
  BY <1>1, <1>2, <1>3, <1>4 DEF CarrierStep

\* every intrinsic,
LEMMA ProgramOutcomes ==
    ASSUME IndInv, JoinInv, HostInv, NoTeardown', ~RunIsOver, NEW k \in Carriers, ProgramStep(k)
    PROVE  JoinInv' /\ HostInv'
<1>0. Main \in Contexts /\ TRUE \in BOOLEAN /\ {} \in SUBSET Others(k)
  BY HostFacts
<1>1. CASE Finish(k) \/ Fail(k) \/ Fatal(k)
  BY <1>1, EndSteps, EndsKeepHost
<1>2. CASE \E t \in Contexts, takesResult \in BOOLEAN : ParkForJoin(k, t, takesResult)
  BY <1>0, <1>2, WaitSteps, WaitsKeepHost
<1>3. CASE \E targets \in SUBSET Others(k) : ParkForJoinAny(k, targets)
  BY <1>0, <1>3, WaitSteps, WaitsKeepHost
<1>4. CASE \E p \in Contexts, failed \in BOOLEAN : Complete(k, p, failed)
  BY <1>4, JoinerSteps, JoinersKeepHost
<1>5. CASE \E t \in Contexts : ObserveFailure(k, t)
  BY <1>5, CalmProgram, FromCalm
<1>6. CASE \/ Yield(k) \/ Preempt(k) \/ Spawn(k) \/ NewPromise(k) \/ ParkForTimer(k)
           \/ EnterNative(k) \/ ReturnFromNative(k)
  BY <1>0, <1>6, CalmProgram, FromCalm
<1>7. CASE ServiceDueTimers(k)
  BY <1>7, CalmCarrier, FromCalm
<1> QED
  BY <1>1, <1>2, <1>3, <1>4, <1>5, <1>6, <1>7 DEF ProgramStep

\* every step of the locks, of the I/O and of the debugger
LEMMA ModuleOutcomes ==
    ASSUME IndInv, JoinInv, HostInv, ~RunIsOver, NEW k \in Carriers,
           SyncStep(k) \/ IoStep(k) \/ PollerStep \/ DebugStep(k)
    PROVE  JoinInv' /\ HostInv'
<1>0. Main \in Contexts /\ {} \in SUBSET ioWaits
  BY HostFacts
<1>1. CASE SyncStep(k)
  BY <1>1, CalmSync, FromCalm DEF SyncStep
<1>2. CASE IoStep(k)
  BY <1>0, <1>2, CalmIo, FromCalm DEF IoStep
<1>3. CASE PollerStep
  BY <1>0, <1>3, CalmIo, FromCalm DEF PollerStep
<1>4. CASE DebugStep(k)
  BY <1>4, CalmDebug, FromCalm DEF DebugStep
<1> QED
  BY <1>1, <1>2, <1>3, <1>4

\* every step of a nested window
LEMMA PumpOutcomes ==
    ASSUME IndInv, JoinInv, HostInv, NoTeardown', ~RunIsOver, NEW k \in Carriers, PumpStep(k)
    PROVE  JoinInv' /\ HostInv'
<1>1. ~FatalInWindow(k)
  <2>1. pc \in [Carriers -> Locations]
    BY HostFacts
  <2> QED
    BY <2>1 DEF FatalInWindow, Go, NoTeardown, Torn
<1>2. ~UnwindWindow(k) /\ ~Perish(k)
  BY Here DEF UnwindWindow, Perish, At, Torn
<1>3. OpenWindow(k) \/ StartPump(k) \/ CloseWindow(k)
  BY <1>1, <1>2 DEF PumpStep
<1>4. UNCHANGED <<contextVars, stopRequested, hostVars, running, pc>>
  BY <1>3 DEF OpenWindow, StartPump, CloseWindow
<1>5. Calm
  BY <1>4 DEF Calm, Unsettled, Placed
<1> QED
  BY <1>5, FromCalm

\* and every stuttering step
LEMMA StillOutcomes ==
    ASSUME JoinInv, HostInv, UNCHANGED vars
    PROVE  JoinInv' /\ HostInv'
<1>1. FrameInv' /\ WaitInv' /\ SelectInv' /\ ResultInv' /\ RethrowInv'
  BY DEF vars, JoinInv, FrameInv, WaitInv, SelectInv, ResultInv, RethrowInv,
         JoinersOf, WakerOnItsWay, Escapes
<1>2. HostInv'
  BY DEF vars, HostInv, HostOutcomeIsTrue, ErrorKnown, Escapes, RunIsOver, At
<1> QED
  BY <1>1, <1>2 DEF JoinInv

\* keep the invariant.
LEMMA OutcomesKept ==
    IndInv /\ JoinInv /\ HostInv /\ NoTeardown' /\ [RuntimeNext]_runtimeVars => JoinInv' /\ HostInv'
<1> SUFFICES ASSUME IndInv, JoinInv, HostInv, NoTeardown', [RuntimeNext]_runtimeVars
             PROVE  JoinInv' /\ HostInv'
  OBVIOUS
<1>0. Primary \in Carriers
  BY ConstantsAssumption
<1>1. CASE UNCHANGED vars
  BY <1>1, StillOutcomes
<1>2. CASE ~RunIsOver /\ (LeavePrimary \/ JoinAndCollect)
  BY <1>0, <1>2, LeaveSteps, LeavesKeepHost
<1>3. CASE ~RunIsOver /\ (TimerExpire \/ TimerNotify)
  BY <1>0, <1>3, CalmCarrier, FromCalm
<1>4. CASE ~RunIsOver /\ \E k \in Carriers : CarrierStep(k) \/ ProgramStep(k)
  BY <1>4, CarrierOutcomes, ProgramOutcomes
<1>5. CASE ~RunIsOver /\ \E k \in Carriers : SyncStep(k) \/ IoStep(k) \/ PollerStep \/ DebugStep(k)
  BY <1>5, ModuleOutcomes
<1>6. CASE ~RunIsOver /\ \E k \in Carriers : PumpStep(k)
  BY <1>6, PumpOutcomes
<1>7. UNCHANGED runtimeVars => UNCHANGED vars
  BY DEF runtimeVars
<1>8. RuntimeNext =>
         \/ UNCHANGED vars
         \/ ~RunIsOver /\ (LeavePrimary \/ JoinAndCollect)
         \/ ~RunIsOver /\ (TimerExpire \/ TimerNotify)
         \/ ~RunIsOver /\ \E k \in Carriers : CarrierStep(k) \/ ProgramStep(k)
         \/ ~RunIsOver /\ \E k \in Carriers : SyncStep(k) \/ IoStep(k) \/ PollerStep \/ DebugStep(k)
         \/ ~RunIsOver /\ \E k \in Carriers : PumpStep(k)
  BY <1>0 DEF RuntimeNext, Next, Terminated
<1>9. RuntimeNext \/ UNCHANGED vars
  BY <1>7
<1> QED
  BY <1>1, <1>2, <1>3, <1>4, <1>5, <1>6, <1>8, <1>9

\* It holds when main has been registered.
LEMMA OutcomesInit == RuntimeInit => JoinInv /\ HostInv
<1> SUFFICES ASSUME Init PROVE JoinInv /\ HostInv
  BY DEF RuntimeInit
<1>0. Primary \in Carriers /\ Main \in Contexts
  BY ConstantsAssumption DEF Main, Contexts
<1>1. \A k \in Carriers : pc[k] \in {"off", "pop"}
  BY DEF Init
<1>2. \A c \in Contexts : /\ state[c] \in {"Runnable", "Unborn"}
                          /\ selectSet[c] = {} /\ ~joinResultDst[c] /\ ~rethrow[c]
  BY DEF Init
<1>3. FrameInv /\ ResultInv /\ RethrowInv
  BY <1>1, <1>2 DEF FrameInv, ResultInv, RethrowInv, Framed
<1>4. WaitInv /\ SelectInv
  BY <1>2 DEF WaitInv, SelectInv
<1>5. HostInv
  <2>1. ~RunIsOver /\ outcome = "running" /\ ~stopRequested
    BY <1>0, <1>1 DEF RunIsOver, At, Init
  <2> QED
    BY <1>2, <2>1 DEF HostInv, HostOutcomeIsTrue
<1> QED
  BY <1>3, <1>4, <1>5 DEF JoinInv

\* OutcomeInv is an invariant of the runtime, whatever the number of
\* carriers, contexts, locks and nested windows.
THEOREM OutcomeInvHolds == RuntimeSpec /\ []NoTeardown => []OutcomeInv
<1>1. IndInv /\ JoinInv /\ HostInv /\ NoTeardown' /\ [RuntimeNext]_runtimeVars => JoinInv' /\ HostInv'
  BY OutcomesKept
<1>2. IndInv /\ JoinInv /\ HostInv => OutcomeInv
  BY DEF OutcomeInv
<1> QED
  BY <1>1, <1>2, OutcomesInit, IndInvHolds, PTL DEF RuntimeSpec

\* No join, get or selectAny waits for a target that is decided already: the
\* carrier that decided it is on its way to WakeJoiners, or the run is ending.
THEOREM JoinersHaveAWakerHolds == RuntimeSpec /\ []NoTeardown => []JoinersHaveAWaker
<1>1. OutcomeInv => JoinersHaveAWaker
  BY DEF OutcomeInv, JoinInv, WaitInv, JoinersHaveAWaker
<1> QED
  BY <1>1, OutcomeInvHolds, PTL

\* No joiner is resumed before its result is in its slot, and a rethrow
\* always has the exception of a failed target to throw.
THEOREM ResultBeforeResumeHolds == RuntimeSpec /\ []NoTeardown => []ResultBeforeResume
<1>1. OutcomeInv => ResultBeforeResume
  BY DEF OutcomeInv, JoinInv, ResultInv, RethrowInv, ResultBeforeResume
<1> QED
  BY <1>1, OutcomeInvHolds, PTL

\* When the host gets a normal return and no carrier had to be detached, main
\* has finished, no error is left on a carrier and every context that failed
\* left an exception object: no fatal error is swallowed.
THEOREM HostOutcomeIsTrueHolds == RuntimeSpec /\ []NoTeardown => []HostOutcomeIsTrue
<1>1. OutcomeInv => HostOutcomeIsTrue
  BY DEF OutcomeInv, HostInv
<1> QED
  BY <1>1, OutcomeInvHolds, PTL
-----------------------------------------------------------------------------
\* A context has at most one suspended window on a carrier: one that parked
\* inside a window parks inside no other before it has returned.
OneWindowPerContext ==
    \A k \in Carriers : \A i, j \in Suspended(k) :
        windows[k][i].ctx = windows[k][j].ctx => i = j

\* The debugger steps no context with a suspended window: the dispatch of the
\* focused context does not look at pins (TryStealFocusedRunnable).
StepsOutside == \A k \in Carriers : \A i \in Suspended(k) : windows[k][i].ctx # focus

\* A suspended window keeps its context pinned to its own token.
PinsHeld == \A k \in Carriers : \A i \in Suspended(k) :
               pinned[windows[k][i].ctx] = windows[k][i].token

\* Its frames wait in the context or are back on the carrier of the window.
FramesHome == \A k \in Carriers : \A i \in Suspended(k) :
                 frames[windows[k][i].ctx] \in {"context", k}

\* No other carrier has its context, and where its context runs it runs in a
\* window of its own on top of this one.
RunsHome == \A k \in Carriers : \A i \in Suspended(k) : \A l \in Carriers :
               running[l] = windows[k][i].ctx => l = k /\ Top(k).ctx = running[k]

\* The windows its context opens on top of it stand directly on it.
Contiguous == \A k \in Carriers : \A i \in Suspended(k) : \A j \in DOMAIN windows[k] :
                 i < j /\ windows[k][j].ctx = windows[k][i].ctx =>
                     windows[k][j - 1].ctx = windows[k][i].ctx

\* No two windows have the same token.
OwnTokens == \A k, l \in Carriers : \A i \in Suspended(k), j \in Suspended(l) :
                windows[k][i].token = windows[l][j].token => k = l /\ i = j

\* The slot of a carrier has the token of the innermost suspended window.
InnermostServed == \A k \in Carriers : token[k] # 0 =>
    \E i \in Suspended(k) : windows[k][i].token = token[k] /\ \A j \in Suspended(k) : j <= i

\* A carrier in the middle of its context has its frames or gave them to it.
FramesAtHand == \A k \in Carriers : pc[k] \in Framed => frames[running[k]] \in {"context", k}

HomeInv == /\ PinsHeld /\ FramesHome /\ RunsHome /\ Contiguous
           /\ OwnTokens /\ InnermostServed /\ FramesAtHand

\* Whoever takes context c takes it home: its suspended windows are on this
\* carrier, under a window of c.
TakesHome(k, c) == \A l \in Carriers : \A i \in Suspended(l) :
                      windows[l][i].ctx = c => l = k /\ Top(k).ctx = c

\* A step beside the windows: carriers take contexts home or let them go, and
\* frames move between a context and its carrier or end outside its windows.
Steady ==
    /\ UNCHANGED pinVars
    /\ \A j \in Carriers : \/ running'[j] \in {running[j], NoContext}
                           \/ TakesHome(j, running'[j])
    /\ \A c \in Contexts :
          \/ frames'[c] \in {frames[c], "context"}
          \/ \E j \in Carriers : /\ running[j] = c
                                 /\ \/ frames'[c] = j
                                    \/ ~InOwnWindow(j) /\ pc'[j] \notin Framed
    /\ \A j \in Carriers : pc'[j] \in Framed =>
          /\ running'[j] = running[j]
          /\ pc[j] \in Framed \/ (running[j] \in Contexts /\ frames'[running[j]] = j)

\* What the invariant says of the windows of a carrier.
LEMMA WindowsTyped ==
    ASSUME IndInv, NEW k \in Carriers
    PROVE  /\ Len(windows[k]) \in Nat /\ DOMAIN windows[k] = 1 .. Len(windows[k])
           /\ \A i \in DOMAIN windows[k] : /\ windows[k][i].ctx \in Contexts
                                           /\ windows[k][i].token \in Nat
           /\ \A i \in Suspended(k) : /\ i \in 1 .. Len(windows[k]) /\ i \in Nat
                                      /\ windows[k] # <<>>
                                      /\ windows[k][i].ctx \in Contexts
                                      /\ windows[k][i].ctx # NoContext
                                      /\ windows[k][i].token \in Nat \ {0}
           /\ Top(k) = windows[k][Len(windows[k])]
           /\ windows[k] # <<>> => Len(windows[k]) \in DOMAIN windows[k]
<1> DEFINE W == [ctx : Contexts, token : Nat]
<1>1. windows[k] \in Seq(W) /\ NoContext \notin Contexts
  BY Stacked, Here
<1>2. /\ Len(windows[k]) \in Nat /\ DOMAIN windows[k] = 1 .. Len(windows[k])
      /\ windows[k] # <<>> => Len(windows[k]) \in 1 .. Len(windows[k])
  BY Stacked
<1>3. \A i \in DOMAIN windows[k] : windows[k][i] \in W
  <2> HIDE DEF W
  <2> QED
    BY <1>1, <1>2
<1>4. windows[k] = <<>> => DOMAIN windows[k] = {}
  BY <1>2
<1> QED
  BY <1>1, <1>2, <1>3, <1>4 DEF Suspended, Top

\* A steady step keeps every window's home.
LEMMA SteadyKeepsHome ==
    ASSUME IndInv, HomeInv, Steady
    PROVE  HomeInv'
<1>0. /\ PinsHeld /\ FramesHome /\ RunsHome /\ Contiguous /\ OwnTokens /\ InnermostServed
      /\ FramesAtHand /\ UNCHANGED pinVars /\ CarriedOnce
  BY DEF HomeInv, Steady, IndInv
<1>1. /\ windows' = windows /\ token' = token /\ pinned' = pinned
      /\ \A k \in Carriers : Suspended(k)' = Suspended(k) /\ Top(k)' = Top(k)
  BY <1>0 DEF pinVars, Suspended, Top
<1>2. PinsHeld' /\ Contiguous' /\ OwnTokens' /\ InnermostServed'
  BY <1>0, <1>1 DEF PinsHeld, Contiguous, OwnTokens, InnermostServed
<1>3. FramesHome'
  <2> SUFFICES ASSUME NEW k \in Carriers, NEW i \in Suspended(k)
               PROVE  frames'[windows[k][i].ctx] \in {"context", k}
    BY <1>1 DEF FramesHome
  <2> DEFINE c == windows[k][i].ctx
  <2>1. /\ c \in Contexts /\ windows[k] # <<>> /\ frames[c] \in {"context", k}
        /\ \A l \in Carriers : running[l] = c => l = k /\ Top(k).ctx = running[k]
    BY <1>0, WindowsTyped DEF FramesHome, RunsHome
  <2>2. \A j \in Carriers : running[j] = c => j = k /\ InOwnWindow(j)
    BY <2>1 DEF InOwnWindow
  <2> QED
    BY <2>1, <2>2 DEF Steady
<1>4. RunsHome'
  <2> SUFFICES ASSUME NEW k \in Carriers, NEW i \in Suspended(k), NEW l \in Carriers,
                      running'[l] = windows[k][i].ctx
               PROVE  l = k /\ Top(k).ctx = running'[k]
    BY <1>1 DEF RunsHome
  <2>1. windows[k][i].ctx # NoContext
    BY WindowsTyped
  <2>2. CASE running'[l] = running[l]
    BY <1>0, <2>2 DEF RunsHome
  <2>3. CASE TakesHome(l, running'[l])
    BY <2>3 DEF TakesHome
  <2> QED
    BY <2>1, <2>2, <2>3 DEF Steady
<1>5. FramesAtHand'
  <2> SUFFICES ASSUME NEW k \in Carriers, pc'[k] \in Framed
               PROVE  frames'[running'[k]] \in {"context", k}
    BY DEF FramesAtHand
  <2>1. /\ running'[k] = running[k]
        /\ pc[k] \in Framed \/ (running[k] \in Contexts /\ frames'[running[k]] = k)
    BY DEF Steady
  <2>2. CASE pc[k] \in Framed
    <3>1. /\ running[k] \in Contexts /\ running[k] # NoContext
          /\ frames[running[k]] \in {"context", k}
      BY <1>0, <2>2, Here DEF FramesAtHand, Framed, Busy
    <3>2. \A j \in Carriers : running[j] = running[k] => j = k
      BY <1>0, <3>1 DEF CarriedOnce
    <3> QED
      BY <2>1, <3>1, <3>2 DEF Steady
  <2> QED
    BY <2>1, <2>2
<1> QED
  BY <1>2, <1>3, <1>4, <1>5 DEF HomeInv

\* A step that leaves the frames and the carriers' contexts alone is steady.
LEMMA StillSteady ==
    ASSUME UNCHANGED pinVars, UNCHANGED <<frames, running>>,
           \A j \in Carriers : pc'[j] \in Framed => pc[j] \in Framed
    PROVE  Steady
BY DEF Steady

LEMMA PlacedFramed ==
    ASSUME Calm
    PROVE  \A j \in Carriers : pc'[j] \in Framed => pc[j] \in Framed
BY DEF Calm, Placed

\* The dispatch takes a context home: it is visible to the carrier, so its pin
\* is the token of this carrier's innermost window, and this window is on top.
LEMMA TakenHome ==
    ASSUME IndInv, HomeInv, StepsOutside, NEW k \in Carriers, TakeNext(k)
    PROVE  TakesHome(k, running'[k])
<1> DEFINE i0 == CHOOSE j \in Choices(k) : \A l \in Choices(k) : j <= l
           c == runQueue[i0]
<1>1. /\ TypeOK /\ pc[k] \notin InHand /\ (Nested(k) => pc[k] \in InHand)
      /\ PinsHeld /\ OwnTokens /\ InnermostServed
  BY Here DEF TakeNext, PassesFreeze, InPop, At, Waits, InHand, HomeInv
<1>2. Choices(k) \in SUBSET DOMAIN runQueue /\ DOMAIN runQueue \in SUBSET Nat
  BY <1>1 DEF TypeOK, Choices, Affine, Popable
<1>3. i0 \in Choices(k)
  BY <1>2, Least DEF TakeNext
<1>4. running'[k] = c
  BY <1>1 DEF TakeNext, TypeOK
<1>5. c = focus \/ pinned[c] \in {0, token[k]}
  BY <1>3 DEF Choices, Affine, Popable, Visible
<1> HIDE DEF c
<1> SUFFICES ASSUME NEW l \in Carriers, NEW i \in Suspended(l), windows[l][i].ctx = c
             PROVE  l = k /\ Top(k).ctx = c
  BY <1>4 DEF TakesHome
<1>6. windows[l][i].token # 0 /\ windows[l][i].token = token[k]
  BY <1>1, <1>5, WindowsTyped DEF PinsHeld, StepsOutside
<1>7. PICK m \in Suspended(k) : windows[k][m].token = token[k] /\ \A j \in Suspended(k) : j <= m
  BY <1>1, <1>6 DEF InnermostServed
<1>8. l = k /\ m = i
  BY <1>1, <1>6, <1>7 DEF OwnTokens
<1>9. /\ m \in 1 .. Len(windows[k]) /\ Len(windows[k]) \in Nat /\ windows[k] # <<>>
      /\ Top(k) = windows[k][Len(windows[k])] /\ Len(windows[k]) \in DOMAIN windows[k]
  BY <1>7, WindowsTyped
<1>10. Len(windows[k]) \in Suspended(k)
  BY <1>1, <1>9 DEF Nested, Suspended
<1>11. Len(windows[k]) <= m
  BY <1>7, <1>10
<1>12. m = Len(windows[k])
  BY <1>9, <1>11
<1> QED
  BY <1>8, <1>9, <1>12

\* The steps that move a context or its frames,
LEMMA MovesSteady ==
    ASSUME IndInv, HomeInv, StepsOutside, NEW k \in Carriers,
           \/ TakeNext(k) \/ Splice(k) \/ ParkContextFrames(k) \/ Spawn(k)
           \/ Finish(k) \/ Fail(k) \/ Fatal(k)
           \/ WakeAfterFinish(k) \/ WakeAfterFailure(k)
           \/ EnterNative(k) \/ ReturnFromNative(k)
    PROVE  Steady
<1>0. /\ pc \in [Carriers -> Locations] /\ running \in [Carriers -> Contexts \cup {NoContext}]
      /\ frames \in [Contexts -> {"none", "context"} \cup Carriers]
      /\ pc[k] \in Busy => running[k] \in Contexts
  BY Here DEF TypeOK
<1>1. CASE TakeNext(k)
  <2>1. UNCHANGED <<pinVars, frames>> /\ pc' = [pc EXCEPT ![k] = "splice"]
    BY <1>1 DEF TakeNext, Go, pinVars
  <2>2. \A j \in Carriers : j # k => running'[j] = running[j]
    BY <1>0, <1>1 DEF TakeNext
  <2> QED
    BY <1>0, <1>1, <2>1, <2>2, TakenHome DEF Steady, Framed
<1>2. CASE Splice(k)
  <2>1. UNCHANGED <<pinVars, running>> /\ pc' = [pc EXCEPT ![k] = "run"] /\ pc[k] = "splice"
        /\ frames' = [frames EXCEPT ![running[k]] = k]
    BY <1>2 DEF Splice, Go, At, pinVars
  <2> QED
    BY <1>0, <2>1 DEF Steady, Framed, Busy
<1>3. CASE ParkContextFrames(k)
  <2>1. UNCHANGED pinVars /\ pc' = [pc EXCEPT ![k] = "pop"]
        /\ running' = [running EXCEPT ![k] = NoContext]
        /\ frames' = [frames EXCEPT ![running[k]] = "context"]
    BY <1>3 DEF ParkContextFrames, Go, At, pinVars
  <2> QED
    BY <1>0, <2>1 DEF Steady, Framed
<1>4. CASE Spawn(k)
  <2>1. UNCHANGED <<pinVars, running, pc>> /\ frames' = [frames EXCEPT ![nextId] = "context"]
    BY <1>4 DEF Spawn, pinVars
  <2> QED
    BY <1>0, <2>1 DEF Steady
<1>5. CASE Finish(k) \/ Fail(k) \/ Fatal(k)
  <2>1. /\ UNCHANGED <<pinVars, running>> /\ ~InOwnWindow(k) /\ pc[k] = "run"
        /\ frames' = [frames EXCEPT ![running[k]] = "none"]
    BY <1>5 DEF Finish, Fail, Fatal, Runs, At, pinVars
  <2>2. \E l \in {"finish", "raise", "failwake", "abandon"} : pc' = [pc EXCEPT ![k] = l]
    BY <1>5 DEF Finish, Fail, Fatal, Unwinds, Go
  <2>3. pc'[k] \notin Framed /\ \A j \in Carriers : j # k => pc'[j] = pc[j]
    BY <1>0, <2>2 DEF Framed
  <2>4. running[k] \in Contexts
    BY <1>0, <2>1 DEF Busy
  <2> QED
    BY <1>0, <2>1, <2>3, <2>4 DEF Steady
<1>6. CASE WakeAfterFinish(k) \/ WakeAfterFailure(k)
  <2>1. /\ UNCHANGED <<pinVars, frames>>
        /\ running' = [running EXCEPT ![k] = NoContext]
    BY <1>6 DEF WakeAfterFinish, WakeAfterFailure, pinVars
  <2>2. \E l \in {"pop", "leave"} : pc' = [pc EXCEPT ![k] = l]
    BY <1>6 DEF WakeAfterFinish, WakeAfterFailure, AfterReturn, Go
  <2>3. pc'[k] \notin Framed /\ \A j \in Carriers : j # k => pc'[j] = pc[j]
    BY <1>0, <2>2 DEF Framed
  <2> QED
    BY <1>0, <2>1, <2>3 DEF Steady
<1>7. CASE EnterNative(k)
  <2>1. UNCHANGED <<pinVars, running>> /\ pc' = [pc EXCEPT ![k] = "native"] /\ pc[k] = "run"
        /\ frames' = [frames EXCEPT ![running[k]] = "context"]
    BY <1>7 DEF EnterNative, Runs, Go, At, pinVars
  <2> QED
    BY <1>0, <2>1 DEF Steady, Framed
<1>8. CASE ReturnFromNative(k)
  <2>1. UNCHANGED <<pinVars, running>> /\ pc' = [pc EXCEPT ![k] = "run"] /\ pc[k] = "native"
        /\ frames' = [frames EXCEPT ![running[k]] = k]
    BY <1>8 DEF ReturnFromNative, Go, At, pinVars
  <2> QED
    BY <1>0, <2>1 DEF Steady, Framed
<1> QED
  BY <1>1, <1>2, <1>3, <1>4, <1>5, <1>6, <1>7, <1>8

\* all other steps of the carrier loop,
LEMMA CarrierSteady ==
    ASSUME IndInv, HomeInv, StepsOutside, NEW k \in Carriers, CarrierStep(k)
    PROVE  Steady
<1>0. UNCHANGED pinVars /\ pc \in [Carriers -> Locations]
  BY CarrierKeepsPins, Here DEF TypeOK
<1>1. CASE TakeNext(k) \/ Splice(k) \/ ParkContextFrames(k) \/ WakeAfterFinish(k) \/ WakeAfterFailure(k)
  BY <1>1, MovesSteady
<1>2. CASE DeliverJoinResults(k) \/ LeaveAuxiliary(k)
  <2>1. UNCHANGED <<frames, running>>
    BY <1>2 DEF DeliverJoinResults, LeaveAuxiliary
  <2>2. \E l \in {"wake", "exited"} : pc' = [pc EXCEPT ![k] = l]
    BY <1>2 DEF DeliverJoinResults, LeaveAuxiliary, Go
  <2>3. \A j \in Carriers : pc'[j] \in Framed => pc[j] \in Framed
    BY <1>0, <2>2 DEF Framed
  <2> QED
    BY <1>0, <2>1, <2>3, StillSteady
<1>3. CASE \/ Launch(k) \/ StopAtPop(k) \/ ReportDeadlock(k) \/ SleepAgain(k) \/ ShutdownInNative(k)
           \/ Sleep(k) \/ WaitAtFreezeGate(k) \/ WaitForHeldFocus(k)
  <2>1. UNCHANGED <<frames, running>>
    BY <1>3 DEF Launch, StopAtPop, ReportDeadlock, SleepAgain, ShutdownInNative,
                Sleep, WaitAtFreezeGate, WaitForHeldFocus, WaitAs
  <2>2. Calm
    BY <1>3, CalmCarrier
  <2> QED
    BY <1>0, <2>1, <2>2, PlacedFramed, StillSteady
<1> QED
  BY <1>1, <1>2, <1>3 DEF CarrierStep

\* of the intrinsics,
LEMMA ProgramSteady ==
    ASSUME IndInv, HomeInv, StepsOutside, NEW k \in Carriers, ProgramStep(k)
    PROVE  Steady
<1>0. UNCHANGED pinVars /\ pc \in [Carriers -> Locations]
  BY ProgramKeepsPins, Here DEF TypeOK
<1>1. CASE Spawn(k) \/ Finish(k) \/ Fail(k) \/ Fatal(k) \/ EnterNative(k) \/ ReturnFromNative(k)
  BY <1>1, MovesSteady
<1>2. ASSUME UNCHANGED <<frames, running>>, pc[k] = "run",
             pc' = pc \/ \E l \in {"unwind"} : pc' = [pc EXCEPT ![k] = l]
      PROVE  Steady
  <2>1. \A j \in Carriers : pc'[j] \in Framed => pc[j] \in Framed
    BY <1>0, <1>2 DEF Framed
  <2> QED
    BY <1>0, <1>2, <2>1, StillSteady
<1>3. CASE Yield(k) \/ Preempt(k) \/ NewPromise(k) \/ ParkForTimer(k)
  BY <1>2, <1>3 DEF Yield, Preempt, NewPromise, ParkForTimer, Runs, At, Go
<1>4. ASSUME NEW t \in Contexts, NEW b \in BOOLEAN, ParkForJoin(k, t, b) PROVE Steady
  BY <1>2, <1>4 DEF ParkForJoin, Runs, At, Go
<1>5. ASSUME NEW T, ParkForJoinAny(k, T) PROVE Steady
  BY <1>2, <1>5 DEF ParkForJoinAny, Runs, At, Go
<1>6. ASSUME NEW t \in Contexts, ObserveFailure(k, t) PROVE Steady
  BY <1>2, <1>6 DEF ObserveFailure, Runs, At
<1>7. ASSUME NEW p \in Contexts, NEW b \in BOOLEAN, Complete(k, p, b) PROVE Steady
  BY <1>2, <1>7 DEF Complete, Runs, At
<1>8. CASE ServiceDueTimers(k)
  BY <1>2, <1>8 DEF ServiceDueTimers, At
<1> QED
  BY <1>1, <1>3, <1>4, <1>5, <1>6, <1>7, <1>8 DEF ProgramStep

\* of the locks, parked I/O and the debugger,
LEMMA ModuleSteady ==
    ASSUME IndInv, NEW k \in Carriers, SyncStep(k) \/ IoStep(k) \/ DebugStep(k) \/ PollerStep
    PROVE  Steady
<1>1. UNCHANGED <<frames, running>>
  <2>1. ASSUME SyncStep(k) PROVE UNCHANGED <<frames, running>>
    <3> USE DEF SchedulerUnchanged
    <3>1. ASSUME NEW l, TakeLock(k, l) \/ ReenterLock(k, l) \/ WaitForLock(k, l) \/ Unlock(k, l)
          PROVE  UNCHANGED <<frames, running>>
      BY <3>1 DEF TakeLock, ReenterLock, WaitForLock, Unlock
    <3>2. ASSUME NEW s, TakePermit(k, s) \/ WaitForPermit(k, s) \/ Release(k, s)
          PROVE  UNCHANGED <<frames, running>>
      BY <3>2 DEF TakePermit, WaitForPermit, Release
    <3>3. CASE Migrate(k) \/ Recheck(k) \/ AbortPark(k) \/ WakeNewOwner(k)
      BY <3>3 DEF Migrate, Recheck, AbortPark, WakeNewOwner
    <3> QED
      BY <2>1, <3>1, <3>2, <3>3 DEF SyncStep
  <2>2. ASSUME IoStep(k) PROVE UNCHANGED <<frames, running>>
    <3>1. CASE RetryIo(k) \/ ParkForIo(k) \/ FinishParkedNative(k)
      BY <3>1 DEF RetryIo, ParkForIo, FinishParkedNative
    <3>2. ASSUME NEW ids, CloseFd(k, ids) PROVE UNCHANGED <<frames, running>>
      BY <3>2 DEF CloseFd
    <3>3. ASSUME NEW c, WakeClosed(k, c) PROVE UNCHANGED <<frames, running>>
      BY <3>3 DEF WakeClosed
    <3> QED
      BY <2>2, <3>1, <3>2, <3>3 DEF IoStep
  <2>3. ASSUME DebugStep(k) PROVE UNCHANGED <<frames, running>>
    <3> USE DEF VmUnchanged
    <3>1. CASE Checkpoint(k) \/ EnterFreezePark(k) \/ EnqueueFreeze(k) \/ OpenFreezeWindow(k)
      BY <3>1 DEF Checkpoint, EnterFreezePark, EnqueueFreeze, OpenFreezeWindow
    <3>2. ASSUME NEW target, Resume(k, target) PROVE UNCHANGED <<frames, running>>
      BY <3>2 DEF Resume
    <3>3. CASE CloseFreezeWindow(k) \/ ExitFreezePark(k) \/ ReadFocus(k) \/ SetDebugFocusContext(k)
      BY <3>3 DEF CloseFreezeWindow, ExitFreezePark, ReadFocus, SetDebugFocusContext
    <3> QED
      BY <2>3, <3>1, <3>2, <3>3 DEF DebugStep
  <2>4. ASSUME PollerStep PROVE UNCHANGED <<frames, running>>
    <3>1. ASSUME NEW hit, HarvestIoEvents(hit) PROVE UNCHANGED <<frames, running>>
      BY <3>1 DEF HarvestIoEvents
    <3>2. CASE PollerStarts \/ PollerNotifies
      BY <3>2 DEF PollerStarts, PollerNotifies
    <3> QED
      BY <2>4, <3>1, <3>2 DEF PollerStep
  <2> QED
    BY <2>1, <2>2, <2>3, <2>4
<1>2. Calm
  <2>0. Main \in Contexts /\ {} \in SUBSET ioWaits
    BY ConstantsAssumption DEF Main, Contexts
  <2>1. CASE SyncStep(k)
    BY <2>1, CalmSync DEF SyncStep
  <2>2. CASE IoStep(k)
    BY <2>0, <2>2, CalmIo DEF IoStep
  <2>3. CASE PollerStep
    BY <2>0, <2>3, CalmIo DEF PollerStep
  <2>4. CASE DebugStep(k)
    BY <2>4, CalmDebug DEF DebugStep
  <2> QED
    BY <2>1, <2>2, <2>3, <2>4
<1> QED
  BY <1>1, <1>2, OthersKeepPins, PlacedFramed, StillSteady

\* and of the helper threads and the end of the run are steady.
LEMMA HelperSteady ==
    ASSUME IndInv, TimerExpire \/ TimerNotify \/ LeavePrimary \/ JoinAndCollect
    PROVE  Steady
<1>0. UNCHANGED pinVars /\ pc \in [Carriers -> Locations]
  BY OthersKeepPins, ConstantsAssumption, Here DEF TypeOK
<1>1. UNCHANGED <<frames, running>>
  BY DEF TimerExpire, TimerNotify, LeavePrimary, JoinAndCollect
<1>2. pc' = pc \/ \E l \in {"join", "exited"} : pc' = [pc EXCEPT ![Primary] = l]
  BY DEF TimerExpire, TimerNotify, LeavePrimary, JoinAndCollect, Go
<1>3. \A j \in Carriers : pc'[j] \in Framed => pc[j] \in Framed
  BY <1>0, <1>2 DEF Framed
<1> QED
  BY <1>0, <1>1, <1>3, StillSteady
-----------------------------------------------------------------------------
\* A window that opens lies on top of those of its context.
LEMMA OpenKeepsHome ==
    ASSUME IndInv, HomeInv, NEW k \in Carriers, OpenWindow(k)
    PROVE  HomeInv'
<1> DEFINE n == Len(windows[k])
           w == [ctx |-> running[k], token |-> 0]
           q == Append(windows[k], w)
           W == [ctx : Contexts, token : Nat]
<1>0. /\ PinsHeld /\ FramesHome /\ RunsHome /\ Contiguous /\ OwnTokens /\ InnermostServed
      /\ FramesAtHand
  BY DEF HomeInv
<1>1. /\ windows' = [windows EXCEPT ![k] = q] /\ pc[k] = "run"
      /\ UNCHANGED <<token, pinned, frames, running, pc>>
  BY DEF OpenWindow, Runs, At
<1>2. /\ running[k] \in Contexts /\ windows \in [Carriers -> Seq(W)] /\ w \in W
      /\ w.token = 0 /\ w.ctx = running[k] /\ n \in Nat /\ DOMAIN windows[k] = 1 .. n
  BY <1>1, Here, Stacked DEF Busy
<1> HIDE DEF W, w
<1>3. /\ Len(q) = n + 1 /\ DOMAIN q = 1 .. n + 1 /\ q[n + 1] = w
      /\ \A i \in 1 .. n : q[i] = windows[k][i]
  BY <1>2
<1> HIDE DEF q
<1>4. windows'[k] = q /\ \A l \in Carriers \ {k} : windows'[l] = windows[l]
  BY <1>1, <1>2
<1>5. /\ \A l \in Carriers : Suspended(l)' = Suspended(l)
      /\ \A l \in Carriers : \A i \in Suspended(l) : windows'[l][i] = windows[l][i]
      /\ Suspended(k) \in SUBSET (1 .. n)
  <2>1. ASSUME NEW l \in Carriers
        PROVE  /\ Suspended(l)' = Suspended(l)
               /\ \A i \in Suspended(l) : windows'[l][i] = windows[l][i]
    <3>1. CASE l # k
      BY <1>4, <3>1 DEF Suspended
    <3>2. CASE l = k
      <4>1. \A i : i \in 1 .. n + 1 <=> i \in 1 .. n \/ i = n + 1
        BY <1>2
      <4> QED
        BY <1>2, <1>3, <1>4, <3>2, <4>1 DEF Suspended
    <3> QED
      BY <3>1, <3>2
  <2> QED
    BY <1>2, <2>1 DEF Suspended
<1>6. PinsHeld' /\ FramesHome' /\ OwnTokens' /\ InnermostServed' /\ FramesAtHand'
  BY <1>0, <1>1, <1>5 DEF PinsHeld, FramesHome, OwnTokens, InnermostServed, FramesAtHand
<1>7. RunsHome'
  <2>1. Top(k)'.ctx = running[k] /\ \A l \in Carriers \ {k} : Top(l)' = Top(l)
    BY <1>2, <1>3, <1>4 DEF Top
  <2> QED
    BY <1>0, <1>1, <1>5, <2>1 DEF RunsHome
<1>8. Contiguous'
  <2> SUFFICES ASSUME NEW l \in Carriers, NEW i \in Suspended(l), NEW j \in DOMAIN windows'[l],
                      i < j, windows'[l][j].ctx = windows[l][i].ctx
               PROVE  windows'[l][j - 1].ctx = windows[l][i].ctx
    BY <1>5 DEF Contiguous
  <2>1. CASE l # k
    BY <1>0, <1>4, <2>1 DEF Contiguous
  <2>2. CASE l = k /\ j = n + 1
    <3>1. /\ i \in 1 .. n /\ j - 1 = n /\ n \in 1 .. n
      BY <1>2, <1>5, <2>2
    <3>2. windows'[k][j - 1] = Top(k) /\ windows[k][i].ctx = running[k]
      BY <1>2, <1>3, <1>4, <2>2, <3>1 DEF Top
    <3> QED
      BY <1>0, <2>2, <3>2 DEF RunsHome
  <2>3. CASE l = k /\ j # n + 1
    <3>1. j \in 1 .. n /\ i \in 1 .. n /\ j - 1 \in 1 .. n
      BY <1>2, <1>3, <1>4, <1>5, <2>3
    <3> QED
      BY <1>0, <1>2, <1>3, <1>4, <2>3, <3>1 DEF Contiguous
  <2> QED
    BY <2>1, <2>2, <2>3
<1> QED
  BY <1>6, <1>7, <1>8 DEF HomeInv

\* A window that parks has its context and the frames on its own carrier, and
\* a token nobody else has.
LEMMA StartKeepsHome ==
    ASSUME IndInv, StackInv, HomeInv, OneWindowPerContext', NEW k \in Carriers, StartPump(k)
    PROVE  HomeInv'
<1> DEFINE n == Len(windows[k])
           t == token'[k]
<1>0. /\ PinsHeld /\ FramesHome /\ RunsHome /\ Contiguous /\ OwnTokens /\ InnermostServed
      /\ FramesAtHand /\ CarriedOnce
  BY DEF HomeInv, IndInv
<1>1. /\ UNCHANGED <<frames, running, pc>> /\ pc[k] = "unwind" /\ Top(k).ctx = running[k]
      /\ Top(k).token = 0
  BY DEF StartPump, InOwnWindow, At
<1>2. /\ running[k] \in Contexts /\ running[k] # NoContext
      /\ frames[running[k]] \in {"context", k}
  BY <1>0, <1>1, Here DEF Busy, Framed, FramesAtHand
<1>3. /\ n \in Nat /\ DOMAIN windows[k] = 1 .. n /\ windows[k] # <<>> /\ n \in 1 .. n
      /\ DOMAIN windows'[k] = 1 .. n /\ windows[k][n] = Top(k)
  BY Started, WindowsTyped
<1>4. /\ \A l \in Carriers \ {k} : windows'[l] = windows[l] /\ token'[l] = token[l]
      /\ \A i \in 1 .. n : i # n => windows'[k][i] = windows[k][i]
      /\ windows'[k][n].token = t /\ windows'[k][n].ctx = running[k]
      /\ t \in FreshTokens /\ t \in Nat \ {0}
      /\ pinned' = [pinned EXCEPT ![running[k]] = t] /\ pinned \in [Contexts -> Nat]
  BY <1>3, Started DEF StackInv, StacksTyped
<1> HIDE DEF t
<1>5. \A l \in Carriers : /\ DOMAIN windows'[l] = DOMAIN windows[l]
                          /\ \A i \in DOMAIN windows[l] : windows'[l][i].ctx = windows[l][i].ctx
  BY <1>1, <1>3, <1>4
<1>6. /\ \A l \in Carriers : \A i \in Suspended(l) :
            i \in Suspended(l)' /\ windows'[l][i] = windows[l][i] /\ windows[l][i].token # t
      /\ \A l \in Carriers : \A i \in Suspended(l)' : i \in Suspended(l) \/ (l = k /\ i = n)
      /\ n \in Suspended(k)' /\ n \notin Suspended(k)
  BY <1>1, <1>3, <1>4 DEF Suspended, FreshTokens
<1>7. \A l \in Carriers : Top(l)'.ctx = Top(l).ctx
  <2>1. ASSUME NEW l \in Carriers PROVE Top(l)'.ctx = Top(l).ctx
    <3>1. CASE l # k
      BY <1>4, <3>1 DEF Top
    <3>2. Len(windows'[k]) = n
      <4>1. windows' = [windows EXCEPT ![k] = [windows[k] EXCEPT ![n] =
                           [ctx |-> running[k], token |-> token'[k]]]]
        BY Started
      <4> DEFINE W == [ctx : Contexts, token : Nat]
                 e == [ctx |-> running[k], token |-> token'[k]]
      <4>2. windows \in [Carriers -> Seq(W)] /\ e \in W
        BY <1>2, <1>4, Stacked DEF t
      <4> HIDE DEF W, e
      <4>3. windows'[k] = [windows[k] EXCEPT ![n] = e]
        BY <4>1, <4>2 DEF e
      <4> QED
        BY <4>2, <4>3
    <3> QED
      BY <1>1, <1>4, <3>1, <3>2 DEF Top
  <2> QED
    BY <2>1
<1>8. \A l \in Carriers : \A i \in Suspended(l) : windows[l][i].ctx # running[k]
  <2> SUFFICES ASSUME NEW l \in Carriers, NEW i \in Suspended(l), windows[l][i].ctx = running[k]
               PROVE  FALSE
    OBVIOUS
  <2>1. l = k
    BY <1>0 DEF RunsHome
  <2>2. windows'[k][i].ctx = windows'[k][n].ctx
    BY <1>4, <1>6, <2>1
  <2> QED
    BY <1>6, <2>1, <2>2 DEF OneWindowPerContext
<1>9. PinsHeld'
  BY <1>0, <1>2, <1>4, <1>6, <1>8, WindowsTyped DEF PinsHeld
<1>10. FramesHome'
  BY <1>0, <1>1, <1>2, <1>4, <1>6 DEF FramesHome
<1>11. RunsHome'
  <2> SUFFICES ASSUME NEW l \in Carriers, NEW i \in Suspended(l)', NEW m \in Carriers,
                      running[m] = windows'[l][i].ctx
               PROVE  m = l /\ Top(l)'.ctx = running[l]
    BY <1>1 DEF RunsHome
  <2>1. CASE i \in Suspended(l)
    BY <1>0, <1>6, <1>7, <2>1 DEF RunsHome
  <2>2. CASE l = k /\ i = n
    BY <1>0, <1>1, <1>2, <1>4, <1>7, <2>2 DEF CarriedOnce
  <2> QED
    BY <1>6, <2>1, <2>2
<1>12. Contiguous'
  <2> SUFFICES ASSUME NEW l \in Carriers, NEW i \in Suspended(l)', NEW j \in DOMAIN windows[l],
                      i < j, windows[l][j].ctx = windows'[l][i].ctx
               PROVE  windows'[l][j - 1].ctx = windows'[l][i].ctx
    BY <1>5 DEF Contiguous
  <2>1. /\ i \in 1 .. Len(windows[l]) /\ Len(windows[l]) \in Nat
        /\ DOMAIN windows[l] = 1 .. Len(windows[l])
    BY <1>5, WindowsTyped DEF Suspended
  <2>2. j - 1 \in DOMAIN windows[l] /\ ~(l = k /\ i = n)
    BY <2>1
  <2>3. i \in Suspended(l) /\ windows'[l][i] = windows[l][i]
    BY <1>6, <2>2
  <2> QED
    BY <1>0, <1>5, <2>2, <2>3 DEF Contiguous
<1>13. OwnTokens'
  <2> SUFFICES ASSUME NEW l \in Carriers, NEW m \in Carriers,
                      NEW i \in Suspended(l)', NEW j \in Suspended(m)',
                      windows'[l][i].token = windows'[m][j].token
               PROVE  l = m /\ i = j
    BY DEF OwnTokens
  <2>1. CASE i \in Suspended(l) /\ j \in Suspended(m)
    BY <1>0, <1>6, <2>1 DEF OwnTokens
  <2>2. CASE ~(i \in Suspended(l) /\ j \in Suspended(m))
    BY <1>4, <1>6, <2>2
  <2> QED
    BY <2>1, <2>2
<1>14. InnermostServed'
  <2>1. \A j \in Suspended(k)' : j <= n
    <3>1. \A j \in 1 .. n : j <= n
      BY <1>3
    <3> QED
      BY <1>3, <3>1 DEF Suspended
  <2>2. ASSUME NEW l \in Carriers \ {k} PROVE Suspended(l)' = Suspended(l)
    BY <1>4 DEF Suspended
  <2> QED
    BY <1>0, <1>4, <1>6, <2>1, <2>2 DEF InnermostServed, t
<1>15. FramesAtHand'
  BY <1>0, <1>1 DEF FramesAtHand
<1> QED
  BY <1>9, <1>10, <1>11, <1>12, <1>13, <1>14, <1>15 DEF HomeInv

\* A window that returns uncovers the next one of its context, and unpins no
\* context but its own.
LEMMA CloseKeepsHome ==
    ASSUME IndInv, StackInv, HomeInv, OneWindowPerContext, NEW k \in Carriers, CloseWindow(k)
    PROVE  HomeInv'
<1> DEFINE n == Len(windows[k])
<1>0. /\ PinsHeld /\ FramesHome /\ RunsHome /\ Contiguous /\ OwnTokens /\ InnermostServed
      /\ FramesAtHand
  BY DEF HomeInv
<1>1. /\ UNCHANGED <<frames, running, pc>> /\ pc[k] = "run" /\ InOwnWindow(k)
      /\ Top(k).ctx = running[k] /\ LeaveWindow(k) /\ windows[k] # <<>>
  BY DEF CloseWindow, InOwnWindow, At
<1>2. /\ n \in Nat /\ DOMAIN windows[k] = 1 .. n /\ n \in 1 .. n /\ windows[k][n] = Top(k)
      /\ running[k] \in Contexts
  BY <1>1, WindowsTyped, Here DEF Busy
<1>3. /\ DOMAIN windows'[k] = 1 .. n - 1
      /\ \A i \in 1 .. n - 1 : windows'[k][i] = windows[k][i]
      /\ \A l \in Carriers \ {k} : windows'[l] = windows[l] /\ token'[l] = token[l]
  BY <1>1, Left
<1>4. /\ pinned \in [Contexts -> Nat] /\ token \in [Carriers -> Nat]
      /\ Top(k).token = 0 => pinned' = pinned /\ token' = token
      /\ Top(k).token # 0 => /\ pinned' = [pinned EXCEPT ![running[k]] = 0]
                             /\ token' = [token EXCEPT ![k] = 0]
  BY <1>1 DEF LeaveWindow, StackInv, StacksTyped
<1>5. \A i : i \in 1 .. n - 1 <=> i \in 1 .. n /\ i # n
  BY <1>2
<1>6. /\ \A l \in Carriers : \A i : i \in Suspended(l)' <=> i \in Suspended(l) /\ ~(l = k /\ i = n)
      /\ \A l \in Carriers : \A i \in DOMAIN windows'[l] :
            i \in DOMAIN windows[l] /\ windows'[l][i] = windows[l][i]
      /\ n \in Suspended(k) <=> Top(k).token # 0
      /\ \A l \in Carriers : Suspended(l)' \in SUBSET DOMAIN windows'[l]
  BY <1>2, <1>3, <1>5 DEF Suspended
<1>7. ASSUME Top(k).token # 0, NEW l \in Carriers, NEW i \in Suspended(l)'
      PROVE  windows[l][i].ctx # running[k]
  <2>1. CASE l = k
    BY <1>1, <1>2, <1>6, <1>7, <2>1 DEF OneWindowPerContext
  <2>2. CASE l # k
    BY <1>0, <1>6, <2>2 DEF RunsHome
  <2> QED
    BY <2>1, <2>2
<1>8. \A l \in Carriers : \A i \in Suspended(l)' : pinned'[windows[l][i].ctx] = pinned[windows[l][i].ctx]
  <2>1. \A l \in Carriers : \A i \in Suspended(l)' : windows[l][i].ctx \in Contexts
    BY <1>6, WindowsTyped
  <2> QED
    BY <1>2, <1>4, <1>7, <2>1
<1>9. PinsHeld' /\ FramesHome' /\ OwnTokens' /\ FramesAtHand'
  <2>1. \A l \in Carriers : \A i \in Suspended(l)' : i \in Suspended(l) /\ windows'[l][i] = windows[l][i]
    BY <1>6
  <2> QED
    BY <1>0, <1>1, <1>8, <2>1 DEF PinsHeld, FramesHome, OwnTokens, FramesAtHand
<1>10. RunsHome'
  <2> SUFFICES ASSUME NEW l \in Carriers, NEW i \in Suspended(l)', NEW m \in Carriers,
                      running[m] = windows[l][i].ctx
               PROVE  m = l /\ Top(l)'.ctx = running[l]
    BY <1>1, <1>6 DEF RunsHome
  <2>1. m = l /\ Top(l).ctx = running[l]
    BY <1>0, <1>6 DEF RunsHome
  <2>2. CASE l # k
    BY <1>3, <2>1, <2>2 DEF Top
  <2>3. CASE l = k
    <3>1. i \in 1 .. n - 1 /\ i \in Suspended(k) /\ i < n /\ n - 1 \in 1 .. n - 1
      BY <1>2, <1>3, <1>6, <2>3
    <3>2. windows[k][n - 1].ctx = windows[k][i].ctx
      BY <1>0, <1>2, <2>1, <2>3, <3>1 DEF Contiguous
    <3>3. Len(windows'[k]) = n - 1
      <4> DEFINE W == [ctx : Contexts, token : Nat]
      <4>1. /\ windows \in [Carriers -> Seq(W)]
            /\ windows' = [windows EXCEPT ![k] = SubSeq(windows[k], 1, n - 1)]
        BY <1>1, Stacked DEF LeaveWindow, WithoutTop
      <4> HIDE DEF W
      <4> QED
        BY <1>2, <4>1
    <3>4. Top(k)' = windows[k][n - 1]
      BY <1>3, <3>1, <3>3 DEF Top
    <3> QED
      BY <2>1, <2>3, <3>2, <3>4
  <2> QED
    BY <2>2, <2>3
<1>11. Contiguous'
  <2> SUFFICES ASSUME NEW l \in Carriers, NEW i \in Suspended(l)', NEW j \in DOMAIN windows'[l],
                      i < j, windows'[l][j].ctx = windows'[l][i].ctx
               PROVE  windows'[l][j - 1].ctx = windows'[l][i].ctx
    BY DEF Contiguous
  <2>1. /\ i \in Suspended(l) /\ j \in DOMAIN windows[l]
        /\ windows'[l][i] = windows[l][i] /\ windows'[l][j] = windows[l][j]
    BY <1>6
  <2>2. windows[l][j - 1].ctx = windows[l][i].ctx
    BY <1>0, <2>1 DEF Contiguous
  <2>3. CASE l # k
    BY <1>3, <2>1, <2>2, <2>3
  <2>4. CASE l = k
    <3>1. i \in 1 .. n - 1 /\ j \in 1 .. n - 1
      BY <1>3, <1>6, <2>4
    <3>2. j - 1 \in 1 .. n - 1
      BY <1>2, <3>1
    <3> QED
      BY <1>3, <2>1, <2>2, <2>4, <3>2
  <2> QED
    BY <2>3, <2>4
<1>12. InnermostServed'
  <2> SUFFICES ASSUME NEW l \in Carriers, token'[l] # 0
               PROVE  \E i \in Suspended(l)' : /\ windows'[l][i].token = token'[l]
                                               /\ \A j \in Suspended(l)' : j <= i
    BY DEF InnermostServed
  <2>1. token'[l] = token[l] /\ (l = k => Top(k).token = 0)
    BY <1>3, <1>4
  <2>2. PICK i \in Suspended(l) : windows[l][i].token = token[l] /\ \A j \in Suspended(l) : j <= i
    BY <1>0, <2>1 DEF InnermostServed
  <2>3. i \in Suspended(l)' /\ windows'[l][i] = windows[l][i]
    BY <1>6, <2>1
  <2> QED
    BY <1>6, <2>1, <2>2, <2>3
<1> QED
  BY <1>9, <1>10, <1>11, <1>12 DEF HomeInv

\* Every step that tears no window down keeps every window's home.
LEMMA HomeKept ==
    StackInv /\ IndInv /\ HomeInv /\ NoTeardown' /\ OneWindowPerContext /\ OneWindowPerContext'
        /\ StepsOutside /\ [RuntimeNext]_runtimeVars => HomeInv'
<1> SUFFICES ASSUME StackInv, IndInv, HomeInv, NoTeardown', OneWindowPerContext,
                    OneWindowPerContext', StepsOutside, [RuntimeNext]_runtimeVars
             PROVE  HomeInv'
  OBVIOUS
<1>1. CASE UNCHANGED runtimeVars \/ Terminated
  <2>1. UNCHANGED <<pinVars, frames, running, pc>>
    BY <1>1 DEF runtimeVars, Terminated, vars, pinVars
  <2> QED
    BY <2>1, StillSteady, SteadyKeepsHome
<1>2. ASSUME NEW k \in Carriers, PumpStep(k) PROVE HomeInv'
  <2>0. pc[k] \notin Torn /\ pc \in [Carriers -> Locations]
    BY Here DEF TypeOK
  <2>1. ~FatalInWindow(k) /\ ~UnwindWindow(k) /\ ~Perish(k)
    BY <2>0 DEF FatalInWindow, UnwindWindow, Perish, At, Go, NoTeardown, Torn
  <2> QED
    BY <1>2, <2>1, OpenKeepsHome, StartKeepsHome, CloseKeepsHome DEF PumpStep
<1>3. ASSUME NEW k \in Carriers, CarrierStep(k) \/ ProgramStep(k) PROVE HomeInv'
  BY <1>3, CarrierSteady, ProgramSteady, SteadyKeepsHome
<1>4. ASSUME NEW k \in Carriers, SyncStep(k) \/ IoStep(k) \/ DebugStep(k) \/ PollerStep
      PROVE  HomeInv'
  BY <1>4, ModuleSteady, SteadyKeepsHome
<1>5. CASE TimerExpire \/ TimerNotify \/ LeavePrimary \/ JoinAndCollect
  BY <1>5, HelperSteady, SteadyKeepsHome
<1>6. Primary \in Carriers
  BY ConstantsAssumption
<1> QED
  BY <1>1, <1>2, <1>3, <1>4, <1>5, <1>6 DEF RuntimeNext, Next

(***************************************************************************)
(* WindowsComeHome, for every number of carriers, contexts and windows:    *)
(* a context with a suspended window is dispatched by the carrier that has *)
(* the frames below the window and by no other, and its frames are there   *)
(* or wait in the context (PumpPinScope, PopAffinity).  The behaviours are *)
(* those in which no window is torn down, no context has two suspended     *)
(* windows on a carrier, and the debugger steps no context that has one.   *)
(***************************************************************************)
THEOREM WindowsComeHomeHolds ==
    RuntimeSpec /\ []NoTeardown /\ []OneWindowPerContext /\ []StepsOutside => []WindowsComeHome
<1>1. RuntimeInit => HomeInv
  BY DEF RuntimeInit, Init, HomeInv, PinsHeld, FramesHome, RunsHome, Contiguous, OwnTokens,
         InnermostServed, FramesAtHand, Suspended, Framed
<1>2. HomeInv => WindowsComeHome
  BY DEF HomeInv, FramesHome, RunsHome, WindowsComeHome
<1>3. StackInv /\ IndInv /\ HomeInv /\ NoTeardown' /\ OneWindowPerContext /\ OneWindowPerContext'
         /\ StepsOutside /\ [RuntimeNext]_runtimeVars => HomeInv'
  BY HomeKept
<1> QED
  BY <1>1, <1>2, <1>3, IndInvHolds, NoStalePin, PTL DEF RuntimeSpec
==============================================================================
