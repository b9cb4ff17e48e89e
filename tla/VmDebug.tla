------------------------------- MODULE VmDebug -------------------------------
(***************************************************************************)
(* The debugger's checkpoints (OpDebugInfo, SyncDebugFocus), its freeze    *)
(* windows (DebugSessionController, VmExecutorFreeze.cpp) and the two      *)
(* gates they put before PopNextRunnable.                                  *)
(*                                                                         *)
(* A carrier that stops at a statement arms the freeze gate, waits for its *)
(* turn in the controller's queue and blocks in the front end until a      *)
(* resume command; the command chooses the focus, the context that has     *)
(* dispatch for itself while it is stepped.  The controller's state is     *)
(* under a mutex of its own: the focus is read there and published in the  *)
(* scheduler in a later section.  Which statements have breakpoints is     *)
(* not modelled: any statement of any context may stop.                    *)
(***************************************************************************)
EXTENDS VmScheduler

VARIABLES
    frozen,         \* m_frozenContextId, the context whose window is open
    freezeQueue,    \* m_freezeQueue
    stepFocus,      \* m_stepFocusContext
    stage,          \* the next section of a checkpoint on each carrier
    focusRead       \* the focus a carrier's SyncDebugFocus has read

debugVars == <<frozen, freezeQueue, stepFocus, stage, focusRead>>

Sections == {"none", "enqueue", "await", "window", "close", "exit", "read",
             "publish"}

DebugInit ==
    /\ frozen = NoContext
    /\ freezeQueue = <<>>
    /\ stepFocus = NoContext
    /\ stage = [k \in Carriers |-> "none"]
    /\ focusRead = [k \in Carriers |-> NoContext]

InStage(k, s) == At(k, "debug") /\ stage[k] = s
ToStage(k, s) == stage' = [stage EXCEPT ![k] = s]

(* What the sections under the controller's mutex leave alone. *)
VmUnchanged == UNCHANGED <<contextVars, queueVars, carrierVars, countVars,
                           stopRequested, hostVars, gateVars>>

(* A checkpoint that does not stop goes straight to SyncDebugFocus. *)
Checkpoint(k) ==
    /\ Runs(k, "debug")
    /\ ToStage(k, "read")
    /\ Go(k, "debug")
    /\ UNCHANGED <<frozen, freezeQueue, stepFocus, focusRead>>
    /\ VmUnchanged

(* EnterFreezePark: ArmDebugFreezeGate *)
EnterFreezePark(k) ==
    /\ Runs(k, "debug")
    /\ freezeDepth' = freezeDepth + 1
    /\ ToStage(k, "enqueue")
    /\ Go(k, "debug")
    /\ UNCHANGED <<contextVars, queueVars, carrierVars, countVars,
                   stopRequested, hostVars, program, pumpVars, focus, ioVars,
                   frozen, freezeQueue, stepFocus, focusRead>>

(* Freeze: the first hitter's window is active, later ones queue. *)
EnqueueFreeze(k) ==
    /\ InStage(k, "enqueue")
    /\ IF frozen = NoContext
       THEN frozen' = running[k] /\ UNCHANGED freezeQueue
       ELSE freezeQueue' = Append(freezeQueue, running[k]) /\ UNCHANGED frozen
    /\ ToStage(k, "await")
    /\ UNCHANGED <<stepFocus, focusRead, pc>>
    /\ VmUnchanged

OwnTurn(k) == frozen = running[k]
OpenFreezeWindow(k) ==
    /\ InStage(k, "await")
    /\ OwnTurn(k)
    /\ ToStage(k, "window")
    /\ UNCHANGED <<frozen, freezeQueue, stepFocus, focusRead, pc>>
    /\ VmUnchanged

(* Continue clears the focus, StepInto, StepOver and StepOut set it to the *)
(* selected context, the stopped one or another one the front end chose.   *)
Resume(k, target) ==
    /\ InStage(k, "window")
    /\ target \in Registered \cup {NoContext}
    /\ stepFocus' = target
    /\ ToStage(k, "close")
    /\ UNCHANGED <<frozen, freezeQueue, focusRead, pc>>
    /\ VmUnchanged

(* The window's turn passes to the next queued freezer. *)
NobodyNext == NoContext
NextFreezer == IF freezeQueue = <<>> THEN NoContext ELSE Head(freezeQueue)
CloseFreezeWindow(k) ==
    /\ InStage(k, "close")
    /\ frozen' = NextFreezer
    /\ freezeQueue' = IF freezeQueue = <<>> THEN <<>> ELSE Tail(freezeQueue)
    /\ ToStage(k, "exit")
    /\ UNCHANGED <<stepFocus, focusRead, pc>>
    /\ VmUnchanged

(* ExitFreezePark: DisarmDebugFreezeGate *)
AllThaw == 0
OneThaws == freezeDepth - 1
ThawTold == IF freezeDepth = 1 THEN {} ELSE asleep
ExitFreezePark(k) ==
    /\ InStage(k, "exit")
    /\ freezeDepth' = OneThaws
    /\ asleep' = ThawTold
    /\ ToStage(k, "read")
    /\ UNCHANGED <<contextVars, queueVars, held, running, countVars,
                   stopRequested, hostVars, program, pumpVars, focus, ioVars,
                   frozen, freezeQueue, stepFocus, focusRead, pc>>

(* SyncDebugFocus: DebugFocusContext under the controller's mutex ... *)
ReadFocus(k) ==
    /\ InStage(k, "read")
    /\ focusRead' = [focusRead EXCEPT ![k] = stepFocus]
    /\ ToStage(k, "publish")
    /\ UNCHANGED <<frozen, freezeQueue, stepFocus, pc>>
    /\ VmUnchanged

(* ... and SetDebugFocusContext under the scheduler's lock. *)
FocusChangeTold(k) == IF focusRead[k] # focus THEN {} ELSE asleep
SetDebugFocusContext(k) ==
    /\ InStage(k, "publish")
    /\ focus' = focusRead[k]
    /\ asleep' = FocusChangeTold(k)
    /\ focusRead' = [focusRead EXCEPT ![k] = NoContext]
    /\ ToStage(k, "none")
    /\ Go(k, "run")
    /\ UNCHANGED <<contextVars, queueVars, held, running, countVars,
                   stopRequested, hostVars, program, pumpVars, freezeDepth,
                   ioVars, frozen, freezeQueue, stepFocus>>

DebugStep(k) ==
    \/ Checkpoint(k) \/ EnterFreezePark(k) \/ EnqueueFreeze(k)
    \/ OpenFreezeWindow(k)
    \/ \E target \in Contexts \cup {NoContext} : Resume(k, target)
    \/ CloseFreezeWindow(k) \/ ExitFreezePark(k)
    \/ ReadFocus(k) \/ SetDebugFocusContext(k)

-----------------------------------------------------------------------------
(***************************************************************************)
(* Properties.                                                             *)
(***************************************************************************)
Freezing(k) == At(k, "debug") /\ stage[k] \in {"await", "window", "close"}

(* The types of the controller's queue and of the carriers' sections. *)
DebugTypeOK ==
    /\ frozen \in Contexts \cup {NoContext}
    /\ freezeQueue \in Seq(Contexts)
    /\ stepFocus \in Contexts \cup {NoContext}
    /\ stage \in [Carriers -> Sections]
    /\ focusRead \in [Carriers -> Contexts \cup {NoContext}]

(***************************************************************************)
(* Freeze windows are served one after the other and nobody is forgotten:  *)
(* at most one carrier is in the front end, and every context that stopped *)
(* has the turn or is queued for it, once.  The front end's state (the     *)
(* view, the selected context) is only safe because of the first half, a   *)
(* carrier only ever leaves Freeze's wait because of the second.  The      *)
(* controller's tables keep their types.                                   *)
(***************************************************************************)
OneFreezeWindow ==
    /\ DebugTypeOK
    /\ \A k, l \in Carriers :
          /\ Freezing(k) /\ stage[k] # "await"
          /\ Freezing(l) /\ stage[l] # "await"
          => k = l
    /\ \A k \in Carriers : Freezing(k) =>
          \/ frozen = running[k] /\ \A i \in DOMAIN freezeQueue :
                                       freezeQueue[i] # running[k]
          \/ frozen # running[k] /\ Cardinality({i \in DOMAIN freezeQueue :
                                       freezeQueue[i] = running[k]}) = 1

(***************************************************************************)
(* The world stays frozen until the last window has closed: until the stop *)
(* no context is dispatched while another one is stopped in the debugger,  *)
(* also when several stopped and one of them has been resumed already.     *)
(***************************************************************************)
DispatchWaitsForWindows ==
    [][\A k, l \in Carriers :
          Freezing(l) /\ ~stopRequested /\ pc'[k] = "splice" => At(k, "splice")]_vars
==============================================================================
