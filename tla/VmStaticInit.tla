---------------------------- MODULE VmStaticInit ----------------------------
(***************************************************************************)
(* Lazy static initialization (VmExecutorOpsStaticInit.cpp with            *)
(* VmStaticSlots and the code EmitStaticInit.cpp emits): every first use   *)
(* of a class, an interface or a static local walks a gate.  The walk is a *)
(* sequence of atomic loads, a compare-and-swap and a store; only the list *)
(* of waiters has a mutex.  The first to claim an owner runs its           *)
(* initializer, which may use other owners; the others park and walk the   *)
(* gate again when they are woken.  A failed initializer, and the death of *)
(* a context with claims, hand the owner to the next user.                 *)
(***************************************************************************)
EXTENDS VmPark

CONSTANTS
    Owners,         \* class and interface records and static-local slots
    SlotOwners,     \* those of them that OP_SlotInitGate guards
    Main,           \* kMainThreadId: its failure ends the run
    NoOwnerCtx,     \* kNoOwnerCtx
    NoTarget,       \* of a context that walks no gate
    Programs,       \* which statics the code of each context uses: the choices
    MaxFailures     \* bound on failed attempts and dead contexts

ASSUME StaticInitAssumption ==
    /\ SlotOwners \subseteq Owners
    /\ Main \in Contexts
    /\ NoOwnerCtx \notin Contexts
    /\ NoTarget \notin Owners
    /\ Programs \subseteq [Contexts -> SUBSET Owners]
    /\ MaxFailures \in Nat

VARIABLES
    phase,      \* StaticOwnerState::phase
    ownerCtx,   \* StaticOwnerState::ownerCtxId
    gateWaiters,\* StaticOwnerState::waiters
    stored,     \* the init bit of the owner's slots
    pos,        \* where a context is in a gate walk or an initializer's end
    target,     \* the owner of that walk or end
    running,    \* the initializers on the context's stack, innermost last
    toWake,     \* the waiters a publication or a death still has to wake
    program,    \* the chosen element of Programs
    failures    \* attempts failed and contexts died so far

ownerVars == <<phase, ownerCtx, gateWaiters, stored>>
walkVars == <<pos, target, running, toWake, program, failures>>
initVars == <<parkVars, ownerVars, walkVars>>

OwnerPhases == {"Uninitialized", "Initializing", "Done"}

(* VmStaticSlots::Build *)
StaticInit ==
    /\ ParkInit
    /\ phase = [o \in Owners |-> "Uninitialized"]
    /\ ownerCtx = [o \in Owners |-> NoOwnerCtx]
    /\ gateWaiters = [o \in Owners |-> <<>>]
    /\ stored = [o \in Owners |-> FALSE]
    /\ pos = [c \in Contexts |-> "code"]
    /\ target = [c \in Contexts |-> NoTarget]
    /\ running = [c \in Contexts |-> <<>>]
    /\ toWake = [c \in Contexts |-> <<>>]
    /\ program \in Programs
    /\ failures = 0

(* A walk keeps its target until it is over. *)
GoTo(c, p) ==
    /\ pos' = [pos EXCEPT ![c] = p]
    /\ target' = IF p \in {"code", "thrown", "dead"}
                 THEN [target EXCEPT ![c] = NoTarget] ELSE target
WalkFor(c, p, o) == /\ pos' = [pos EXCEPT ![c] = p]
                    /\ target' = [target EXCEPT ![c] = o]
At(c, p) == pos[c] = p
OnStack(c) == {running[c][i] : i \in DOMAIN running[c]}
Top(c) == running[c][Len(running[c])]

-----------------------------------------------------------------------------
(***************************************************************************)
(* The gate, OpClassInitGate and OpSlotInitGate.                           *)
(***************************************************************************)

(* A use of a static member, with the gate EmitStaticFieldGate put before it. *)
Use(c, o) ==
    /\ At(c, "code")
    /\ o \in program[c]
    /\ WalkFor(c, "load", o)
    /\ UNCHANGED <<parkVars, ownerVars, running, toWake, program, failures>>

AfterLoad(o) ==
    CASE phase[o] = "Done" -> "code"
      [] phase[o] = "Initializing" -> "owner"
      [] phase[o] = "Uninitialized" -> "claim"

LoadPhase(c) ==
    /\ At(c, "load")
    /\ GoTo(c, AfterLoad(target[c]))
    /\ UNCHANGED <<parkVars, ownerVars, running, toWake, program, failures>>

(* The initializer of o runs deeper on this stack: pass. *)
AnyOwner(c, o) == TRUE
IsReentry(c, o) == ownerCtx[o] = c

(* A slot gate tries its swap whatever phase it loaded, a class gate parks. *)
LoadOwner(c) ==
    /\ At(c, "owner")
    /\ GoTo(c, IF IsReentry(c, target[c]) THEN "code"
               ELSE IF target[c] \in SlotOwners THEN "claimLate" ELSE "park")
    /\ UNCHANGED <<parkVars, ownerVars, running, toWake, program, failures>>

SwapBlindly(o) == TRUE
SwapSucceeds(o) == phase[o] = "Uninitialized"

Claim(c) ==
    /\ At(c, "claim") \/ At(c, "claimLate")
    /\ LET o == target[c] IN
       \/ /\ SwapSucceeds(o)
          /\ phase' = [phase EXCEPT ![o] = "Initializing"]
          /\ GoTo(c, "own")
       \/ /\ ~SwapSucceeds(o)
          /\ GoTo(c, IF At(c, "claimLate") THEN "park" ELSE "load")
          /\ UNCHANGED phase
    /\ UNCHANGED <<parkVars, ownerCtx, gateWaiters, stored, running, toWake, program, failures>>

(* The owner id is stored after the swap; then the initializer is called. *)
StoreOwner(c) ==
    /\ At(c, "own")
    /\ ownerCtx' = [ownerCtx EXCEPT ![target[c]] = c]
    /\ running' = [running EXCEPT ![c] = Append(@, target[c])]
    /\ GoTo(c, "code")
    /\ UNCHANGED <<parkVars, phase, gateWaiters, stored, toWake,
                   program, failures>>

ParkRegardless(o) == TRUE
StillInitializing(o) == phase[o] = "Initializing"

(* ParkOnClassInitOwner: recheck, registration and park are one section of *)
(* the waiters mutex.                                                      *)
ParkOnOwner(c) ==
    /\ At(c, "park")
    /\ LET o == target[c] IN
       \/ /\ StillInitializing(o)
          /\ gateWaiters' = [gateWaiters EXCEPT ![o] = Append(@, c)]
          /\ MarkParked(c, "ParkedClassInit")
          /\ GoTo(c, "unwind")
       \/ /\ ~StillInitializing(o)
          /\ GoTo(c, "load")
          /\ UNCHANGED <<gateWaiters, parkVars>>
    /\ UNCHANGED <<phase, ownerCtx, stored, running, toWake,
                   program, failures>>

LandWaiter(c) ==
    /\ At(c, "unwind")
    /\ LandFrames(c)
    /\ GoTo(c, "parked")
    /\ UNCHANGED <<ownerVars, running, toWake, program, failures>>

(* The frame's pc is on the gate: the woken waiter walks it from the start. *)
ResumeWaiter(c) ==
    /\ At(c, "parked")
    /\ Dispatch(c)
    /\ GoTo(c, "load")
    /\ UNCHANGED <<ownerVars, running, toWake, program, failures>>

-----------------------------------------------------------------------------
(***************************************************************************)
(* The end of an initializer.  $staticInit ends with Done or, from its     *)
(* catch-all handler, with Fail and a rethrow.                             *)
(***************************************************************************)

(* OpStoreStatic by the initializer; the bit survives a failed attempt. *)
Store(c) ==
    /\ At(c, "code") /\ running[c] # <<>>
    /\ ~stored[Top(c)]
    /\ stored' = [stored EXCEPT ![Top(c)] = TRUE]
    /\ UNCHANGED <<parkVars, phase, ownerCtx, gateWaiters, walkVars>>

Throw(c) ==
    /\ At(c, "code")
    /\ failures < MaxFailures
    /\ failures' = failures + 1
    /\ GoTo(c, "thrown")
    /\ UNCHANGED <<parkVars, ownerVars, running, toWake, program>>

(* A user's handler inside the innermost initializer, or below all of them. *)
Catch(c) ==
    /\ At(c, "thrown")
    /\ GoTo(c, "code")
    /\ UNCHANGED <<parkVars, ownerVars, running, toWake, program, failures>>

WithoutOwner(o) == [ownerCtx EXCEPT ![o] = NoOwnerCtx]

(* OP_ClassInitDone, OP_SlotInitDone, OP_ClassInitFail, OP_SlotInitFail: *)
(* first the owner id ...                                                *)
EndInitializer(c) ==
    /\ running[c] # <<>>
    /\ \/ At(c, "code") /\ stored[Top(c)] /\ WalkFor(c, "done", Top(c))
       \/ At(c, "thrown") /\ WalkFor(c, "fail", Top(c))
    /\ ownerCtx' = WithoutOwner(Top(c))
    /\ running' = [running EXCEPT ![c] = SubSeq(@, 1, Len(@) - 1)]
    /\ UNCHANGED <<parkVars, phase, gateWaiters, stored, toWake, program, failures>>

(* ... then the phase ... *)
Publish(c) ==
    /\ \/ /\ At(c, "done")
          /\ phase' = [phase EXCEPT ![target[c]] = "Done"]
          /\ GoTo(c, "swapDone")
       \/ /\ At(c, "fail")
          /\ phase' = [phase EXCEPT ![target[c]] = "Uninitialized"]
          /\ GoTo(c, "swapFail")
    /\ UNCHANGED <<parkVars, ownerCtx, gateWaiters, stored, running, toWake, program, failures>>

WithoutWaiters(o) == [gateWaiters EXCEPT ![o] = <<>>]

(* ... then WakeClassInitWaiters: the list is swapped out under the mutex *)
SwapWaiters(c) ==
    /\ At(c, "swapDone") \/ At(c, "swapFail")
    /\ toWake' = [toWake EXCEPT ![c] = gateWaiters[target[c]]]
    /\ gateWaiters' = WithoutWaiters(target[c])
    /\ GoTo(c, IF At(c, "swapDone") THEN "wakeDone" ELSE "wakeFail")
    /\ UNCHANGED <<parkVars, phase, ownerCtx, stored, running,
                   program, failures>>

(* and the waiters are woken outside it, one scheduler section each. *)
WakeWaiter(c) ==
    /\ toWake[c] # <<>>
    /\ WakeUp(Head(toWake[c]))
    /\ toWake' = [toWake EXCEPT ![c] = Tail(@)]
    /\ UNCHANGED <<ownerVars, pos, target, running, program, failures>>

(* A rethrow leaves the failed initializer; a finished one returns. *)
LeaveInitializer(c) ==
    /\ toWake[c] = <<>>
    /\ \/ At(c, "wakeDone") /\ GoTo(c, "code")
       \/ At(c, "wakeFail") /\ GoTo(c, "thrown")
    /\ UNCHANGED <<parkVars, ownerVars, running, toWake, program, failures>>

(* ResetClaimedMachine decides which owners a dead context gives back. *)
ClaimsOf(c) == {o \in Owners : phase[o] = "Initializing" /\ ownerCtx[o] = c}

(* The waiter entries of a set of owners, and the orders a walk over the   *)
(* owner table may take them in.                                           *)
WaiterEntries(S) == UNION {{o} \X DOMAIN gateWaiters[o] : o \in S}
WakeOrders(E) == {f \in [1 .. Cardinality(E) -> E] :
                     /\ \A i, j \in DOMAIN f : f[i] = f[j] => i = j
                     /\ \A e \in E : \E i \in DOMAIN f : f[i] = e}
InOrder(f) == [k \in DOMAIN f |-> gateWaiters[f[k][1]][f[k][2]]]

(* FailContextContained: the context dies of an exception no handler on    *)
(* its stack took, claims included, and ReleaseContextClaims resets them   *)
(* in one section of the waiters mutex.  It resets one owner after the     *)
(* other, and gates load phases without the mutex; the resets are one step *)
(* here, since owners share nothing that a gate reads in one load.         *)
Die(c) ==
    /\ At(c, "thrown")
    /\ c # Main
    /\ LET S == ClaimsOf(c) IN
       /\ phase' = [o \in Owners |-> IF o \in S THEN "Uninitialized" ELSE phase[o]]
       /\ ownerCtx' = [o \in Owners |-> IF o \in S THEN NoOwnerCtx ELSE ownerCtx[o]]
       /\ \E f \in WakeOrders(WaiterEntries(S)) : toWake' = [toWake EXCEPT ![c] = InOrder(f)]
       /\ gateWaiters' = [o \in Owners |-> IF o \in S THEN <<>> ELSE gateWaiters[o]]
    /\ running' = [running EXCEPT ![c] = <<>>]
    /\ GoTo(c, "dead")
    /\ UNCHANGED <<parkVars, stored, program, failures>>

-----------------------------------------------------------------------------
(* What a context does on its own once it has begun. *)
WalkStep(c) == \/ LoadPhase(c) \/ LoadOwner(c) \/ Claim(c) \/ StoreOwner(c)
               \/ ParkOnOwner(c) \/ LandWaiter(c) \/ ResumeWaiter(c)
               \/ Publish(c) \/ SwapWaiters(c) \/ WakeWaiter(c)
               \/ LeaveInitializer(c)

StaticInitNext == \E c \in Contexts :
    \/ \E o \in Owners : Use(c, o)
    \/ WalkStep(c)
    \/ Store(c) \/ EndInitializer(c)
    \/ Throw(c) \/ Catch(c) \/ Die(c)

(* Carriers run; an initializer that goes on using statics ends some day. *)
StaticInitSpec ==
    /\ StaticInit
    /\ [][StaticInitNext]_initVars
    /\ \A c \in Contexts : /\ WF_initVars(WalkStep(c))
                           /\ SF_initVars(Store(c))
                           /\ SF_initVars(EndInitializer(c))

-----------------------------------------------------------------------------
(***************************************************************************)
(* Properties.                                                             *)
(***************************************************************************)

(* The types of the owner table and of the walks. *)
StaticInitTypeOK ==
    /\ phase \in [Owners -> OwnerPhases]
    /\ ownerCtx \in [Owners -> Contexts \cup {NoOwnerCtx}]
    /\ gateWaiters \in [Owners -> Seq(Contexts)]
    /\ stored \in [Owners -> BOOLEAN]
    /\ pos \in [Contexts -> {"code", "load", "owner", "claim", "claimLate", "own", "park",
                             "unwind", "parked", "thrown", "done", "fail",
                             "swapDone", "swapFail", "wakeDone", "wakeFail",
                             "dead"}]
    /\ target \in [Contexts -> Owners \cup {NoTarget}]
    /\ running \in [Contexts -> Seq(Owners)]
    /\ toWake \in [Contexts -> Seq(Contexts)]
    /\ queued \in [Contexts -> 0 .. 1]
    /\ program \in Programs
    /\ failures \in 0 .. MaxFailures

(* c holds o: between its swap and its publication. *)
Holds(c, o) == \/ o \in OnStack(c)
               \/ pos[c] \in {"own", "done", "fail"} /\ target[c] = o

(***************************************************************************)
(* The initializer of an owner runs on one context at a time, once on its  *)
(* stack, and the phase is Initializing exactly while somebody holds it:   *)
(* through claims, failures, retries and deaths, although phase and owner  *)
(* id are stored one after the other.  The table keeps its types.          *)
(***************************************************************************)
OneInitializer ==
    /\ StaticInitTypeOK
    /\ \A o \in Owners :
           /\ Cardinality({c \in Contexts : Holds(c, o)}) <= 1
           /\ phase[o] = "Initializing" <=> \E c \in Contexts : Holds(c, o)
           /\ \A c \in Contexts : Cardinality({i \in DOMAIN running[c] :
                                                 running[c][i] = o}) <= 1

(***************************************************************************)
(* A walk that ends without a claim found the owner published, with its    *)
(* value stored, or ends inside the context's own initializer.  The test   *)
(* reads the phase and the owner id at different times.                    *)
(***************************************************************************)
PassesAreEarned ==
    [][\A c \in Contexts :
          (pos[c] \in {"load", "owner"} /\ pos'[c] = "code") =>
             \/ phase[target[c]] = "Done" /\ stored[target[c]]
             \/ target[c] \in OnStack(c)]_initVars

(* Who waits for whom: w for the context that holds its target. *)
WaitsFor(w, c) == pos[w] \in {"unwind", "parked"} /\ Holds(c, target[w])
InACycle(w) == \E c \in Contexts \ {w} : WaitsFor(w, c) /\ WaitsFor(c, w)

(***************************************************************************)
(* Every context parked at a gate leaves it, unless two contexts run each  *)
(* other's initializer, provided initializers end.                         *)
(***************************************************************************)
GateWaitersResume ==
    \A w \in Contexts :
        At(w, "parked") ~> (~At(w, "parked") \/ \E c \in Contexts : InACycle(c))
==============================================================================
