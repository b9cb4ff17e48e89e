------------------------------- MODULE VmPump -------------------------------
(***************************************************************************)
(* Nested evaluation windows and the nested pump (VmExecutorPump.cpp).     *)
(*                                                                         *)
(* Formatting a collection or serving a host callback runs NLang code on   *)
(* top of live C++ frames.  When such a window parks, its frames are       *)
(* sliced off into the context but the frames below must stay on this      *)
(* thread, so the carrier starts a pump: it goes on dispatching from the   *)
(* queue, other contexts as well as the window itself, until the window is *)
(* complete.  The window's context is pinned to the pump by a token, so    *)
(* that no other carrier resumes the window on a stack without its frames. *)
(*                                                                         *)
(* Pushing a served context and popping it again are the actions of module *)
(* VmScheduler: TakeNext, Splice, ParkContextFrames (the slice), Finish.   *)
(***************************************************************************)
EXTENDS VmScheduler

(***************************************************************************)
(* What an exception does to a pump that serves another context: if main   *)
(* fails there, PumpServeOne rethrows main's exception into the frames of  *)
(* the window's own context.  That unwinding is not modelled.  The         *)
(* assumption is wider than this one path: it keeps every failure with an  *)
(* exception ("fail") out of the programs with windows, the contained ones *)
(* of other contexts too, because the model does not choose who may fail.  *)
(* Fatal errors inside and outside of windows are modelled.                *)
(***************************************************************************)
ASSUME WindowsDoNotFail ==
    \A p \in Programs : ~({"window", "fail"} \subseteq p.ops)

WithoutTop(k) == [windows EXCEPT ![k] = SubSeq(@, 1, Len(@) - 1)]

(* RunNestedWindow: the fast path begins. *)
OpenWindow(k) ==
    /\ Runs(k, "window")
    /\ Len(windows[k]) < MaxWindows
    /\ windows' = [windows EXCEPT ![k] =
                      Append(@, [ctx |-> running[k], token |-> 0])]
    /\ UNCHANGED <<contextVars, queueVars, carrierVars, countVars,
                   stopRequested, hostVars, program, token, pinned, pumpCount,
                   wrecked, focus, freezeDepth, ioVars, pc>>

(* A number no carrier, window or context has: tokens are minted once. *)
FreshTokens == {t \in 1 .. 2 * MaxWindows * Cardinality(Carriers) + 1 :
                   /\ \A c \in Contexts : pinned[c] # t
                   /\ \A k \in Carriers :
                         /\ token[k] # t
                         /\ \A i \in DOMAIN windows[k] : windows[k][i].token # t}

(***************************************************************************)
(* PumpPinScope's constructor: AcquirePumpToken and PinContext.  They are  *)
(* two steps in the code; the first changes the token of this carrier's    *)
(* own slot and the pump count and no context is pinned to the new token   *)
(* yet, so they are one here.  The slice (ParkContextFrames) is the next   *)
(* critical section of this carrier.                                       *)
(***************************************************************************)
StartPump(k) ==
    /\ At(k, "unwind")
    /\ InOwnWindow(k)
    /\ Top(k).token = 0
    /\ LET t == CHOOSE u \in FreshTokens : \A v \in FreshTokens : u <= v IN
         /\ windows' = [windows EXCEPT ![k] = [@ EXCEPT ![Len(@)].token = t]]
         /\ token' = [token EXCEPT ![k] = t]
         /\ pinned' = [pinned EXCEPT ![running[k]] = t]
    /\ pumpCount' = pumpCount + 1
    /\ UNCHANGED <<contextVars, queueVars, carrierVars, countVars,
                   stopRequested, hostVars, program, wrecked, focus,
                   freezeDepth, ioVars, pc>>

(***************************************************************************)
(* PumpPinScope's destructor, for a window that has started a pump: the    *)
(* pin and the slot's token are cleared, whatever pump is below this one.  *)
(***************************************************************************)
PumpStillCounted == pumpCount
OnePumpLess == pumpCount - 1
LeaveWindow(k) ==
    /\ windows' = WithoutTop(k)
    /\ IF Top(k).token = 0
       THEN UNCHANGED <<token, pinned, pumpCount, asleep>>
       ELSE /\ pinned' = [pinned EXCEPT ![Top(k).ctx] = 0]
            /\ token' = [token EXCEPT ![k] = 0]
            /\ pumpCount' = OnePumpLess
            /\ asleep' = {}

(* The window's frames are done, by return or by an exception for ctx. *)
CloseWindow(k) ==
    /\ At(k, "run")
    /\ InOwnWindow(k)
    /\ LeaveWindow(k)
    /\ UNCHANGED <<contextVars, queueVars, held, running, countVars,
                   stopRequested, hostVars, program, wrecked, focus,
                   freezeDepth, ioVars, pc>>

(* A fatal error inside a window: it unwinds through the window first. *)
FatalInWindow(k) ==
    /\ Runs(k, "fatal")
    /\ InOwnWindow(k)
    /\ Go(k, "abandon")
    /\ UNCHANGED <<contextVars, queueVars, carrierVars, countVars,
                   stopRequested, hostVars, gateVars>>

(***************************************************************************)
(* An error ("abandon") or a ShutdownSignal ("shutdown") unwinds the       *)
(* innermost window into the frames of its context below.  There it meets  *)
(* the next window of the same context, or the end of what the pump below  *)
(* or the carrier loop dispatched: FailContextFatal for an error, and for  *)
(* the signal the end of the carrier loop, or an error of the pump below.  *)
(***************************************************************************)
UnwindWindow(k) ==
    /\ pc[k] \in {"abandon", "shutdown"}
    /\ LeaveWindow(k)
    /\ wrecked' = IF Top(k).token = 0 THEN wrecked ELSE wrecked \cup {Top(k).ctx}
    /\ running' = [running EXCEPT ![k] = Top(k).ctx]
    /\ LET below == SubSeq(windows[k], 1, Len(windows[k]) - 1)
           sameContext == /\ below # <<>>
                          /\ below[Len(below)].ctx = Top(k).ctx IN
         Go(k, IF sameContext THEN pc[k]
               ELSE IF pc[k] = "abandon" THEN "perish"
               ELSE IF below = <<>> THEN "leave" ELSE "abandon")
    /\ UNCHANGED <<contextVars, queueVars, held, countVars, stopRequested,
                   hostVars, program, focus, freezeDepth, ioVars>>

(* FailContextFatal for the context whose window was abandoned; it clears  *)
(* this carrier's stack, a parked slice stays where it is.                 *)
Perish(k) ==
    /\ At(k, "perish")
    /\ LET c == running[k] IN
         /\ state' = [state EXCEPT ![c] = "Failed"]
         /\ frames' = [frames EXCEPT ![c] = IF @ = k THEN "none" ELSE @]
         /\ failExc' = [failExc EXCEPT ![c] = FALSE]
         /\ held' = Released(k, c)
         /\ StopFor(c)
    /\ Unwinds(k, "raise")
    /\ UNCHANGED <<framesParked, lastCarrier, parkHandle, selectSet,
                   joinResultDst, rethrow, failObserved, queueVars, running,
                   countVars, hostVars, gateVars>>

PumpStep(k) ==
    \/ OpenWindow(k) \/ StartPump(k) \/ CloseWindow(k)
    \/ FatalInWindow(k) \/ UnwindWindow(k) \/ Perish(k)

-----------------------------------------------------------------------------
(***************************************************************************)
(* Properties.                                                             *)
(***************************************************************************)
Suspended(k) == {i \in DOMAIN windows[k] : windows[k][i].token # 0}

(***************************************************************************)
(* A suspended window comes home: its context is resumed on the carrier    *)
(* that has the frames below the window and nowhere else, until the window *)
(* completes or is torn down.  (After a stop or an error has torn it down, *)
(* nothing keeps another carrier from resuming what is left of it.)        *)
(* It is checked with one window per carrier and without the debugger in   *)
(* the programs that have windows; outside of that it does not hold.  When *)
(* a context suspends a second window inside its first, the end of the     *)
(* inner one clears the pin the outer one still needs; and a stepped       *)
(* context is dispatched past its pin (TryStealFocusedRunnable).           *)
(***************************************************************************)
WindowsComeHome ==
    \A k \in Carriers : \A i \in Suspended(k) :
        LET c == windows[k][i].ctx IN
        c \notin wrecked =>
            /\ frames[c] \in {"context", k}
            /\ \A l \in Carriers : running[l] = c => l = k

(***************************************************************************)
(* "only the pump holding this token may dispatch" (VmScheduler.h), so a   *)
(* pinned context has such a pump: some carrier's slot has its token, or   *)
(* its window is below another suspended one and the pump of that one has  *)
(* the slot for now.  Otherwise nobody will ever resume the window.  It    *)
(* fails when pumps nest on a carrier: the end of the inner pump clears    *)
(* the slot instead of restoring the token of the pump below.              *)
(***************************************************************************)
Below(k, t) == \E i, j \in Suspended(k) : i < j /\ windows[k][i].token = t
PinnedIsServed ==
    \A c \in Contexts \ wrecked :
        pinned[c] # 0 =>
            \E k \in Carriers : token[k] = pinned[c] \/ Below(k, pinned[c])

(***************************************************************************)
(* A deadlock reached from inside a window is reported like any other: the *)
(* carriers never all sleep with nothing to wait for.                      *)
(***************************************************************************)
DeadlockIsReported == ~EverybodySleeps
==============================================================================
