-------------------------------- MODULE VmIo --------------------------------
(***************************************************************************)
(* Parking on descriptors and the poller thread (VmSchedulerIo.cpp), with  *)
(* the blocking-native protocol around it (NativeParkForIo,                *)
(* FinishBlockingNative).                                                  *)
(*                                                                         *)
(* A blocking native whose system call is not ready registers interest     *)
(* and returns; its carrier then parks the context instead of resuming it. *)
(* The poller wakes contexts whose descriptor is ready or whose deadline   *)
(* has passed, a close wakes the waiters of its descriptor, and the woken  *)
(* context enters the native again.  Descriptors, events and deadlines are *)
(* not told apart: any interest may be ready, due or closed at any time.   *)
(***************************************************************************)
EXTENDS VmScheduler

VARIABLE closing    \* the waiters a close has collected and not yet woken

IoInit == closing = [k \in Carriers |-> {}]

(***************************************************************************)
(* NativeParkForIo inside a blocking native.  A context that WakeForIo has *)
(* armed is told to retry its call; the others are parked: ParkForIo.      *)
(***************************************************************************)
RetryIo(k) ==
    /\ At(k, "native")
    /\ ioArmed[running[k]]
    /\ ioArmed' = [ioArmed EXCEPT ![running[k]] = FALSE]
    /\ UNCHANGED <<contextVars, queueVars, carrierVars, countVars,
                   stopRequested, hostVars, program, pumpVars, focus,
                   freezeDepth, ioWaits, poller, closing, pc>>

OneBlockedLess == blockedCount - 1
ParkForIo(k) ==
    /\ At(k, "native")
    /\ "io" \in program.ops
    /\ ~ioArmed[running[k]]
    /\ state' = [state EXCEPT ![running[k]] = "ParkedIo"]
    /\ blockedCount' = OneBlockedLess
    /\ ioWaits' = ioWaits \cup {running[k]}
    /\ held' = Released(k, running[k])
    /\ asleep' = GateWaitersTold
    /\ Go(k, "ioparked")
    /\ UNCHANGED <<frames, framesParked, lastCarrier, parkHandle, selectSet,
                   joinResultDst, rethrow, failExc, failObserved, queueVars,
                   running, idleCount, activeCount, stopRequested, hostVars,
                   program, pumpVars, focus, freezeDepth, ioArmed, poller,
                   closing>>

(***************************************************************************)
(* FinishBlockingNative: the stop first, then the pending park, which      *)
(* leaves the frames the native's entry took in the context.  That entry   *)
(* takes the whole evaluation stack of the carrier; inside a nested window *)
(* this includes the frames below the window, which should have stayed.    *)
(* NoIoParkInWindows (module VmRuntime) keeps that case out.               *)
(***************************************************************************)
FinishParkedNative(k) ==
    /\ At(k, "ioparked")
    /\ Go(k, IF ~stopRequested THEN "unwind"
             ELSE IF windows[k] = <<>> THEN "leave"
             ELSE IF InOwnWindow(k) THEN "shutdown" ELSE "abandon")
    /\ UNCHANGED <<contextVars, queueVars, carrierVars, countVars,
                   stopRequested, hostVars, gateVars, closing>>

-----------------------------------------------------------------------------
(* WakeForIo for the members of S still parked; nobody is notified. *)
LandedOnly(S) == {c \in S : state[c] = "ParkedIo" /\ framesParked[c]}
StillParkedIo(S) == {c \in S : state[c] = "ParkedIo"}
WakeForIo(S) ==
    LET woken == StillParkedIo(S) IN
    /\ state' = WithState(woken, "Runnable")
    /\ ioArmed' = [c \in Contexts |-> ioArmed[c] \/ c \in woken]
    /\ \E q \in Orders(Queueable(woken)) : runQueue' = runQueue \o q

(***************************************************************************)
(* WakeIoWaitersForFd, when a socket is closed: the entries go in one      *)
(* section, each context is woken in one of its own.                       *)
(***************************************************************************)
CloseFd(k, ids) ==
    /\ Runs(k, "io")
    /\ ids # {}
    /\ ids \subseteq ioWaits
    /\ ioWaits' = ioWaits \ ids
    /\ closing' = [closing EXCEPT ![k] = ids]
    /\ Go(k, "ioclose")
    /\ UNCHANGED <<contextVars, queueVars, carrierVars, countVars,
                   stopRequested, hostVars, program, pumpVars, focus,
                   freezeDepth, ioArmed, poller>>

WakeClosed(k, c) ==
    /\ At(k, "ioclose")
    /\ c \in closing[k]
    /\ WakeForIo({c})
    /\ closing' = [closing EXCEPT ![k] = @ \ {c}]
    /\ Go(k, IF closing[k] = {c} THEN "run" ELSE "ioclose")
    /\ UNCHANGED <<frames, framesParked, lastCarrier, parkHandle, selectSet,
                   joinResultDst, rethrow, failExc, failObserved, nextId,
                   timers, timerNotify, carrierVars, countVars, stopRequested,
                   hostVars, program, pumpVars, focus, freezeDepth, ioWaits,
                   poller>>

(***************************************************************************)
(* IoPollerThreadMain: wait for interest, poll without the lock, harvest   *)
(* under the lock, notify after its release.                               *)
(***************************************************************************)
PollerStarts ==
    /\ poller = "wait"
    /\ ioWaits # {}
    /\ poller' = "poll"
    /\ UNCHANGED <<contextVars, queueVars, carrierVars, countVars,
                   stopRequested, hostVars, program, pumpVars, focus,
                   freezeDepth, ioWaits, ioArmed, closing, pc>>

(* HarvestIoEvents for the entries of hit, ready or due. *)
HarvestIoEvents(hit) ==
    /\ poller = "poll"
    /\ WakeForIo(hit)
    /\ ioWaits' = ioWaits \ hit
    /\ poller' = "notify"
    /\ UNCHANGED <<frames, framesParked, lastCarrier, parkHandle, selectSet,
                   joinResultDst, rethrow, failExc, failObserved, nextId,
                   timers, timerNotify, carrierVars, countVars, stopRequested,
                   hostVars, program, pumpVars, focus, freezeDepth, closing,
                   pc>>

PollerNotifies ==
    /\ poller = "notify"
    /\ poller' = "wait"
    /\ asleep' = {}
    /\ UNCHANGED <<contextVars, queueVars, held, running, countVars,
                   stopRequested, hostVars, program, pumpVars, focus,
                   freezeDepth, ioWaits, ioArmed, closing, pc>>

IoStep(k) ==
    \/ RetryIo(k) \/ ParkForIo(k) \/ FinishParkedNative(k)
    \/ \E ids \in SUBSET ioWaits : CloseFd(k, ids)
    \/ \E c \in Contexts : WakeClosed(k, c)

PollerStep ==
    \/ PollerStarts \/ PollerNotifies
    \/ \E hit \in SUBSET ioWaits : HarvestIoEvents(hit)

-----------------------------------------------------------------------------
(***************************************************************************)
(* Properties.                                                             *)
(***************************************************************************)

(***************************************************************************)
(* A context waits for I/O exactly as long as one party is to wake it: the *)
(* poller, through its entry in m_ioWaits, or one close that has taken the *)
(* entry.  The entry is consumed before the context is woken, so a wake    *)
(* that passes over the context strands it, and a second waker could wake  *)
(* a later park of the same context.                                       *)
(***************************************************************************)
ParkedIoHasOneWaker ==
    /\ closing \in [Carriers -> SUBSET Contexts]
    /\ \A c \in Contexts \ wrecked :
          state[c] = "ParkedIo" <=> \/ c \in ioWaits
                                   \/ \E k \in Carriers : c \in closing[k]
    /\ \A k \in Carriers :
          /\ closing[k] \cap ioWaits = {}
          /\ \A l \in Carriers \ {k} : closing[k] \cap closing[l] = {}
==============================================================================
