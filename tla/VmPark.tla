------------------------------- MODULE VmPark -------------------------------
(***************************************************************************)
(* The face of the scheduler that a blocking primitive sees: the state of  *)
(* a context, the framesParked flag and the queue entry a wake may make.   *)
(* The operators are the critical sections of VmSchedulerSync.cpp, of      *)
(* ParkContextFrames and of the resumption; module VmScheduler has the     *)
(* same sections with carriers, queue order and stop.  Here every context  *)
(* that can run does, as if there were a carrier for each.                 *)
(***************************************************************************)
EXTENDS Integers, Sequences, FiniteSets

CONSTANT Contexts

ASSUME ContextsAssumption == IsFiniteSet(Contexts)

VARIABLES
    state,          \* ExecutionContext::state: Runnable or the kind of park
    framesParked,   \* ExecutionContext::framesParked
    queued          \* entries of the context in m_runQueue

parkVars == <<state, framesParked, queued>>

ParkInit ==
    /\ state = [c \in Contexts |-> "Runnable"]
    /\ framesParked = [c \in Contexts |-> FALSE]
    /\ queued = [c \in Contexts |-> 0]

(* ParkForMutex, ParkForChanRecv, ParkForChanSend, ParkForClassInit ... *)
MarkParked(c, kind) ==
    /\ state' = [state EXCEPT ![c] = kind]
    /\ UNCHANGED <<framesParked, queued>>

(* AbortPark: the frames never left the carrier. *)
UndoPark(c) ==
    /\ state' = [state EXCEPT ![c] = "Runnable"]
    /\ UNCHANGED <<framesParked, queued>>

(* WakeForChanRecv, WakeForChanSend, WakeForClassInit *)
WakeUp(c) ==
    /\ state' = [state EXCEPT ![c] = "Runnable"]
    /\ queued' = [queued EXCEPT ![c] = @ + IF framesParked[c] THEN 1 ELSE 0]
    /\ UNCHANGED framesParked

(* ParkContextFrames: the frames land; a context woken on the way is queued. *)
LandFrames(c) ==
    /\ \/ /\ state[c] = "Runnable"
          /\ queued' = [queued EXCEPT ![c] = @ + 1]
          /\ UNCHANGED framesParked
       \/ /\ state[c] # "Runnable"
          /\ framesParked' = [framesParked EXCEPT ![c] = TRUE]
          /\ UNCHANGED queued
    /\ UNCHANGED state

(* PopNextRunnable and SpliceResumedFrames *)
Dispatch(c) ==
    /\ queued[c] > 0
    /\ queued' = [queued EXCEPT ![c] = @ - 1]
    /\ framesParked' = [framesParked EXCEPT ![c] = FALSE]
    /\ UNCHANGED state
==============================================================================
