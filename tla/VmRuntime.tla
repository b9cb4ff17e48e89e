------------------------------ MODULE VmRuntime ------------------------------
(***************************************************************************)
(* The scheduler with everything that parks contexts, wakes them or stands *)
(* between them and the queue: locks and semaphores, nested pumps, parked  *)
(* I/O and the debugger.                                                   *)
(***************************************************************************)
EXTENDS VmSync, VmPump, VmIo, VmDebug

(***************************************************************************)
(* A native that parks for I/O inside a nested window is not modelled.     *)
(* NativeParkForIo has no guard against it, but the native's entry has     *)
(* taken the whole evaluation stack by then (ParkFramesForBlockingNative)  *)
(* and RunNestedWindow slices an empty one.                                *)
(***************************************************************************)
ASSUME NoIoParkInWindows ==
    \A p \in Programs : ~({"window", "io"} \subseteq p.ops)

runtimeVars == <<vars, syncVars, closing, debugVars>>

RuntimeInit == Init /\ SyncInit /\ IoInit /\ DebugInit

RuntimeNext ==
    \/ Next /\ UNCHANGED <<syncVars, closing, debugVars>>
    \/ /\ ~RunIsOver
       /\ \/ \E k \in Carriers :
                \/ SyncStep(k) /\ UNCHANGED <<closing, debugVars>>
                \/ PumpStep(k) /\ UNCHANGED <<syncVars, closing, debugVars>>
                \/ IoStep(k) /\ UNCHANGED <<syncVars, debugVars>>
                \/ DebugStep(k) /\ UNCHANGED <<syncVars, closing>>
          \/ PollerStep /\ UNCHANGED <<syncVars, debugVars>>

RuntimeSpec == RuntimeInit /\ [][RuntimeNext]_runtimeVars
==============================================================================
