------------------------- MODULE VmStaticInitProofs -------------------------
(***************************************************************************)
(* Lazy static initialization is safe for any finite number of contexts    *)
(* and owners, whatever programs they run and however many attempts fail.  *)
(***************************************************************************)
EXTENDS VmStaticInit, FiniteSetTheorems, SequenceTheorems, TLAPS

\* The types OneInitializer states, and those of the park state.
TypeInv ==
    /\ phase \in [Owners -> OwnerPhases]
    /\ ownerCtx \in [Owners -> Contexts \cup {NoOwnerCtx}]
    /\ gateWaiters \in [Owners -> Seq(Contexts)]
    /\ stored \in [Owners -> BOOLEAN]
    /\ pos \in [Contexts -> {"code", "load", "owner", "claim", "claimLate", "own", "park",
                             "unwind", "parked", "thrown", "done", "fail",
                             "swapDone", "swapFail", "wakeDone", "wakeFail",
                             "dead"}]
    /\ target \in [Contexts -> Owners \cup {NoTarget}]
    /\ running \in [Contexts -> Seq(Owners)]
    /\ toWake \in [Contexts -> Seq(Contexts)]
    /\ state \in [Contexts -> {"Runnable", "ParkedClassInit"}]
    /\ framesParked \in [Contexts -> BOOLEAN]
    /\ queued \in [Contexts -> {0, 1}]
    /\ program \in Programs
    /\ failures \in 0 .. MaxFailures

\* A context in the middle of a walk has a target; one about to begin, or at
\* the end of, an initializer does not have it on its stack.
WalkInv ==
    \A c \in Contexts :
        /\ pos[c] \notin {"code", "thrown", "dead"} => target[c] \in Owners
        /\ pos[c] \in {"own", "done", "fail"} => target[c] \notin OnStack(c)

\* An initializer is on a stack once, and the owner id names that stack.
StackInv ==
    \A c \in Contexts :
        /\ \A i, j \in DOMAIN running[c] : running[c][i] = running[c][j] => i = j
        /\ \A o \in Owners : ownerCtx[o] = c <=> o \in OnStack(c)

\* One holder, and only while the owner is being initialized.
HolderInv ==
    \A o \in Owners :
        /\ \A c, d \in Contexts : Holds(c, o) /\ Holds(d, o) => c = d
        /\ phase[o] = "Initializing" <=> \E c \in Contexts : Holds(c, o)

\* What is published has been stored.
StoredInv ==
    /\ \A o \in Owners : phase[o] = "Done" => stored[o]
    /\ \A c \in Contexts : pos[c] = "done" => stored[target[c]]

\* Where a context is tells its park state, and the other way round.
ParkInv ==
    \A c \in Contexts :
        /\ pos[c] \notin {"unwind", "parked"} =>
              state[c] = "Runnable" /\ ~framesParked[c] /\ queued[c] = 0
        /\ pos[c] = "unwind" => ~framesParked[c] /\ queued[c] = 0
        /\ pos[c] = "parked" =>
              \/ state[c] = "Runnable" /\ queued[c] = 1
              \/ state[c] # "Runnable" /\ framesParked[c] /\ queued[c] = 0

\* A registered waiter is parked, and registered once: with one owner, or
\* with one context that is about to wake it.
WaiterInv ==
    /\ \A o \in Owners : \A i \in DOMAIN gateWaiters[o] :
           state[gateWaiters[o][i]] # "Runnable"
    /\ \A c \in Contexts : \A i \in DOMAIN toWake[c] :
           state[toWake[c][i]] # "Runnable"
    /\ \A o, p \in Owners : \A i \in DOMAIN gateWaiters[o], j \in DOMAIN gateWaiters[p] :
           gateWaiters[o][i] = gateWaiters[p][j] => o = p /\ i = j
    /\ \A c, d \in Contexts : \A i \in DOMAIN toWake[c], j \in DOMAIN toWake[d] :
           toWake[c][i] = toWake[d][j] => c = d /\ i = j
    /\ \A o \in Owners, c \in Contexts :
           \A i \in DOMAIN gateWaiters[o], j \in DOMAIN toWake[c] :
               gateWaiters[o][i] # toWake[c][j]

\* Whoever is parked is registered, and the list it is in will be emptied:
\* the owner is still being initialized, its end is about to take the list,
\* or somebody is waking the members of it.
LeftInv ==
    /\ \A c \in Contexts : state[c] # "Runnable" =>
           \/ \E o \in Owners : \E i \in DOMAIN gateWaiters[o] : gateWaiters[o][i] = c
           \/ \E d \in Contexts : \E i \in DOMAIN toWake[d] : toWake[d][i] = c
    /\ \A o \in Owners : gateWaiters[o] # <<>> =>
           \/ phase[o] = "Initializing"
           \/ \E d \in Contexts : pos[d] \in {"swapDone", "swapFail"} /\ target[d] = o
    /\ \A d \in Contexts : toWake[d] # <<>> =>
           pos[d] \in {"wakeDone", "wakeFail", "dead"}

IndInv ==
    /\ TypeInv
    /\ WalkInv
    /\ StackInv
    /\ HolderInv
    /\ StoredInv
    /\ ParkInv
    /\ WaiterInv
    /\ LeftInv

-----------------------------------------------------------------------------
(* Lemmas about the operators. *)

\* A move writes the place and the target of one context.
LEMMA GoToFacts ==
    ASSUME TypeInv, NEW c \in Contexts, NEW p, GoTo(c, p)
    PROVE  /\ pos' = [pos EXCEPT ![c] = p]
           /\ target' = [target EXCEPT ![c] = target'[c]]
           /\ target'[c] \in Owners \cup {NoTarget}
           /\ p \notin {"code", "thrown", "dead"} => target'[c] = target[c]
BY DEF GoTo, TypeInv

\* What is on a stack after a push ...
LEMMA Pushed ==
    ASSUME NEW S, NEW s \in Seq(S), NEW e \in S
    PROVE  /\ Append(s, e) \in Seq(S)
           /\ DOMAIN s = 1 .. Len(s)
           /\ DOMAIN Append(s, e) = 1 .. Len(s) + 1
           /\ \A i \in 1 .. Len(s) : Append(s, e)[i] = s[i]
           /\ Append(s, e)[Len(s) + 1] = e
OBVIOUS

\* ... and after a pop.
LEMMA Popped ==
    ASSUME NEW S, NEW s \in Seq(S), s # <<>>
    PROVE  /\ Len(s) \in Nat \ {0}
           /\ SubSeq(s, 1, Len(s) - 1) \in Seq(S)
           /\ DOMAIN s = 1 .. Len(s)
           /\ DOMAIN SubSeq(s, 1, Len(s) - 1) = 1 .. Len(s) - 1
           /\ \A i \in 1 .. Len(s) - 1 : SubSeq(s, 1, Len(s) - 1)[i] = s[i]
           /\ s[Len(s)] \in S
<1>1. Len(s) \in Nat \ {0}
  OBVIOUS
<1>2. \A i \in 1 .. Len(s) - 1 : s[i] \in S
  BY <1>1
<1> QED
  BY <1>1, <1>2

\* What is left of a list once its first entry is gone.
LEMMA Behead ==
    ASSUME NEW S, NEW s \in Seq(S), s # <<>>
    PROVE  /\ Len(s) \in Nat \ {0}
           /\ Head(s) = s[1] /\ 1 \in DOMAIN s /\ s[1] \in S
           /\ Tail(s) \in Seq(S)
           /\ DOMAIN Tail(s) = 1 .. Len(s) - 1
           /\ \A i \in DOMAIN Tail(s) : i + 1 \in DOMAIN s /\ Tail(s)[i] = s[i + 1]
           /\ \A i \in DOMAIN s : i = 1 \/ (i - 1 \in DOMAIN Tail(s) /\ Tail(s)[i - 1] = s[i])
<1>1. Len(s) \in Nat \ {0} /\ DOMAIN s = 1 .. Len(s)
  OBVIOUS
<1>2. DOMAIN Tail(s) = 1 .. Len(s) - 1 /\ Tail(s) \in Seq(S)
  BY <1>1
<1>3. \A i \in 1 .. Len(s) - 1 : Tail(s)[i] = s[i + 1]
  BY <1>1
<1> QED
  BY <1>1, <1>2, <1>3

\* Two elements make two.
LEMMA AtMostOne ==
    ASSUME NEW S, IsFiniteSet(S), \A x, y \in S : x = y
    PROVE  Cardinality(S) <= 1
<1>1. CASE S = {}
  BY <1>1, FS_EmptySet
<1>2. CASE S # {}
  <2>1. PICK x : x \in S
    BY <1>2
  <2>2. S = {x}
    BY <2>1
  <2> QED
    BY <2>2, FS_Singleton
<1> QED
  BY <1>1, <1>2

\* The entries of a set of owners are as many as the contexts in them.
LEMMA EntriesFinite ==
    ASSUME TypeInv, WaiterInv, NEW S \in SUBSET Owners
    PROVE  Cardinality(WaiterEntries(S)) \in Nat
<1> DEFINE E == WaiterEntries(S)
<1> DEFINE f == [e \in E |-> gateWaiters[e[1]][e[2]]]
<1>1. \A e \in E : /\ e[1] \in S
                   /\ e[2] \in DOMAIN gateWaiters[e[1]]
                   /\ e = <<e[1], e[2]>>
  BY DEF WaiterEntries
<1>2. \A e \in E : gateWaiters[e[1]][e[2]] \in Contexts
  BY <1>1 DEF TypeInv
<1>3. \A d, e \in E : f[d] = f[e] => d = e
  <2> SUFFICES ASSUME NEW d \in E, NEW e \in E, f[d] = f[e]
               PROVE  d = e
    OBVIOUS
  <2>1. d[1] = e[1] /\ d[2] = e[2]
    BY <1>1 DEF WaiterInv
  <2> QED
    BY <2>1, <1>1
<1>4. f \in Injection(E, Contexts)
  BY <1>2, <1>3 DEF Injection, IsInjective
<1>5. IsFiniteSet(E)
  BY <1>4, ContextsAssumption, FS_Injection
<1> QED
  BY <1>5, FS_CardinalityType

\* What a death puts into the list to wake: entries of the given owners,
\* each once, and all of them.
LEMMA Woken ==
    ASSUME TypeInv, WaiterInv, NEW S \in SUBSET Owners,
           NEW f \in WakeOrders(WaiterEntries(S))
    PROVE  /\ InOrder(f) \in Seq(Contexts)
           /\ \A k \in DOMAIN InOrder(f) : \E o \in S : \E i \in DOMAIN gateWaiters[o] :
                 InOrder(f)[k] = gateWaiters[o][i]
           /\ \A k, l \in DOMAIN InOrder(f) : InOrder(f)[k] = InOrder(f)[l] => k = l
           /\ \A o \in S : \A i \in DOMAIN gateWaiters[o] :
                 \E k \in DOMAIN InOrder(f) : InOrder(f)[k] = gateWaiters[o][i]
<1> DEFINE E == WaiterEntries(S)
<1> DEFINE n == Cardinality(E)
<1>1. n \in Nat
  BY EntriesFinite
<1>2. /\ f \in [1 .. n -> E]
      /\ \A i, j \in 1 .. n : f[i] = f[j] => i = j
      /\ \A e \in E : \E i \in 1 .. n : f[i] = e
  BY DEF WakeOrders
<1>3. \A e \in E : /\ e[1] \in S
                   /\ e[2] \in DOMAIN gateWaiters[e[1]]
                   /\ e = <<e[1], e[2]>>
  BY DEF WaiterEntries
<1>4. \A o \in S : \A i \in DOMAIN gateWaiters[o] : <<o, i>> \in E
  BY DEF WaiterEntries
<1> HIDE DEF E, n
<1>5. /\ DOMAIN InOrder(f) = 1 .. n
      /\ \A k \in 1 .. n : InOrder(f)[k] = gateWaiters[f[k][1]][f[k][2]]
  BY <1>2 DEF InOrder
<1>6. \A k \in 1 .. n : f[k][1] \in S /\ f[k][2] \in DOMAIN gateWaiters[f[k][1]]
  BY <1>2, <1>3
<1>7. \A k \in 1 .. n : InOrder(f)[k] \in Contexts
  <2>1. \A o \in Owners : \A i \in DOMAIN gateWaiters[o] : gateWaiters[o][i] \in Contexts
    BY DEF TypeInv
  <2> QED
    BY <1>5, <1>6, <2>1
<1>8. InOrder(f) \in Seq(Contexts)
  <2>1. InOrder(f) = [k \in 1 .. n |-> InOrder(f)[k]]
    BY <1>2 DEF InOrder
  <2> QED
    BY <1>1, <1>7, <2>1
<1>9. \A k, l \in 1 .. n : InOrder(f)[k] = InOrder(f)[l] => k = l
  <2> SUFFICES ASSUME NEW k \in 1 .. n, NEW l \in 1 .. n, InOrder(f)[k] = InOrder(f)[l]
               PROVE  k = l
    OBVIOUS
  <2>1. f[k][1] = f[l][1] /\ f[k][2] = f[l][2]
    BY <1>5, <1>6 DEF WaiterInv
  <2>2. f[k] = f[l]
    BY <2>1, <1>2, <1>3
  <2> QED
    BY <2>2, <1>2
<1>10. \A o \in S : \A i \in DOMAIN gateWaiters[o] :
          \E k \in 1 .. n : InOrder(f)[k] = gateWaiters[o][i]
  <2> SUFFICES ASSUME NEW o \in S, NEW i \in DOMAIN gateWaiters[o]
               PROVE  \E k \in 1 .. n : InOrder(f)[k] = gateWaiters[o][i]
    OBVIOUS
  <2>1. PICK k \in 1 .. n : f[k] = <<o, i>>
    BY <1>2, <1>4
  <2> QED
    BY <2>1, <1>5
<1> QED
  BY <1>5, <1>6, <1>8, <1>9, <1>10

-----------------------------------------------------------------------------
(* The steps. *)

\* The places where a context holds nothing outside its stack, is not parked
\* and has no list left to take.
PlainAt == {"code", "load", "owner", "claim", "claimLate", "park", "thrown",
            "wakeDone", "wakeFail"}

\* A context goes from one such place to another and does nothing else.
LEMMA PlainMove ==
    ASSUME IndInv, NEW c \in Contexts, NEW p \in PlainAt, NEW t \in Owners \cup {NoTarget},
           pos[c] \in PlainAt,
           p \notin {"code", "thrown"} => t \in Owners,
           toWake[c] # <<>> => p = pos[c],
           pos' = [pos EXCEPT ![c] = p], target' = [target EXCEPT ![c] = t],
           failures' \in 0 .. MaxFailures,
           UNCHANGED <<parkVars, ownerVars, running, toWake, program>>
    PROVE  IndInv'
<1> USE DEF IndInv, parkVars, ownerVars
<1>1. TypeInv'
  BY DEF TypeInv, PlainAt
<1>2. WalkInv' /\ StackInv'
  BY DEF TypeInv, WalkInv, StackInv, OnStack, PlainAt
<1>3. HolderInv'
  <2>1. \A d \in Contexts, o \in Owners : Holds(d, o)' <=> Holds(d, o)
    BY DEF TypeInv, Holds, OnStack, PlainAt
  <2> QED
    BY <2>1 DEF HolderInv
<1>4. StoredInv' /\ ParkInv' /\ WaiterInv'
  BY SMTT(60) DEF TypeInv, StoredInv, ParkInv, WaiterInv, PlainAt
<1>5. LeftInv'
  <2>1. \A d \in Contexts, o \in Owners :
           pos'[d] \in {"swapDone", "swapFail"} /\ target'[d] = o
              <=> pos[d] \in {"swapDone", "swapFail"} /\ target[d] = o
    BY DEF TypeInv, PlainAt
  <2>2. \A d \in Contexts : toWake[d] # <<>> => pos'[d] = pos[d]
    BY DEF TypeInv
  <2> QED
    BY <2>1, <2>2 DEF LeftInv
<1> QED
  BY <1>1, <1>2, <1>3, <1>4, <1>5

\* A use, the loads, a throw, a catch and the end of a walk.
LEMMA QuietSteps ==
    ASSUME IndInv, NEW c \in Contexts,
           \/ \E o \in Owners : Use(c, o)
           \/ LoadPhase(c) \/ LoadOwner(c)
           \/ Throw(c) \/ Catch(c) \/ LeaveInitializer(c)
    PROVE  IndInv'
<1>0. TypeInv /\ WalkInv /\ failures \in 0 .. MaxFailures /\ MaxFailures \in Nat
  BY StaticInitAssumption DEF IndInv, TypeInv
<1>1. toWake[c] # <<>> => pos[c] \in {"wakeDone", "wakeFail", "dead"}
  BY DEF IndInv, LeftInv
<1>2. CASE \E o \in Owners : Use(c, o)
  <2>1. PICK o \in Owners : Use(c, o)
    BY <1>2
  <2>2. toWake[c] = <<>> /\ pos[c] \in PlainAt
    BY <2>1, <1>1 DEF Use, At, PlainAt
  <2> QED
    BY <2>1, <2>2, <1>0, PlainMove DEF Use, WalkFor, PlainAt
<1>3. CASE LoadPhase(c)
  <2>1. toWake[c] = <<>> /\ pos[c] \in PlainAt
    BY <1>3, <1>1 DEF LoadPhase, At, PlainAt
  <2>2. target[c] \in Owners /\ phase[target[c]] \in OwnerPhases
    BY <1>3, <1>0 DEF LoadPhase, At, WalkInv, TypeInv
  <2>3. AfterLoad(target[c]) \in {"code", "owner", "claim"}
    BY <2>2 DEF AfterLoad, OwnerPhases
  <2>4. GoTo(c, AfterLoad(target[c])) /\ UNCHANGED <<parkVars, ownerVars, running, toWake, program, failures>>
    BY <1>3 DEF LoadPhase
  <2>5. AfterLoad(target[c]) \in PlainAt /\ failures' \in 0 .. MaxFailures
    BY <2>3, <2>4, <1>0 DEF PlainAt
  <2> HIDE DEF AfterLoad
  <2> QED
    BY <2>1, <2>2, <2>3, <2>4, <2>5, <1>0, GoToFacts, PlainMove
<1>4. CASE LoadOwner(c)
  <2>1. toWake[c] = <<>> /\ pos[c] \in PlainAt
    BY <1>4, <1>1 DEF LoadOwner, At, PlainAt
  <2>2. target[c] \in Owners
    BY <1>4, <1>0 DEF LoadOwner, At, WalkInv
  <2>3. PICK p \in {"code", "claimLate", "park"} : GoTo(c, p)
    BY <1>4 DEF LoadOwner
  <2>4. UNCHANGED <<parkVars, ownerVars, running, toWake, program, failures>>
    BY <1>4 DEF LoadOwner
  <2>5. p \in PlainAt /\ failures' \in 0 .. MaxFailures
    BY <2>3, <2>4, <1>0 DEF PlainAt
  <2> QED
    BY <2>1, <2>2, <2>3, <2>4, <2>5, <1>0, GoToFacts, PlainMove
<1>5. CASE Throw(c)
  <2>1. toWake[c] = <<>> /\ pos[c] \in PlainAt /\ "thrown" \in PlainAt
    BY <1>5, <1>1 DEF Throw, At, PlainAt
  <2>2. failures' \in 0 .. MaxFailures
    BY <1>5, <1>0 DEF Throw
  <2>3. GoTo(c, "thrown") /\ UNCHANGED <<parkVars, ownerVars, running, toWake, program>>
    BY <1>5 DEF Throw
  <2> QED
    BY <2>1, <2>2, <2>3, <1>0, GoToFacts, PlainMove
<1>6. CASE Catch(c)
  <2>1. toWake[c] = <<>> /\ pos[c] \in PlainAt /\ "code" \in PlainAt
    BY <1>6, <1>1 DEF Catch, At, PlainAt
  <2>2. GoTo(c, "code") /\ UNCHANGED <<parkVars, ownerVars, running, toWake, program, failures>>
    BY <1>6 DEF Catch
  <2> QED
    BY <2>1, <2>2, <1>0, GoToFacts, PlainMove
<1>7. CASE LeaveInitializer(c)
  <2>1. toWake[c] = <<>> /\ pos[c] \in PlainAt
    BY <1>7 DEF LeaveInitializer, At, PlainAt
  <2>2. PICK p \in {"code", "thrown"} : GoTo(c, p)
    BY <1>7 DEF LeaveInitializer
  <2>3. UNCHANGED <<parkVars, ownerVars, running, toWake, program, failures>>
    BY <1>7 DEF LeaveInitializer
  <2>4. p \in PlainAt
    BY <2>2 DEF PlainAt
  <2> QED
    BY <2>1, <2>2, <2>3, <2>4, <1>0, GoToFacts, PlainMove
<1> QED
  BY <1>2, <1>3, <1>4, <1>5, <1>6, <1>7

\* The swap: the winner holds the owner, the loser walks on.
LEMMA ClaimStep ==
    ASSUME IndInv, NEW c \in Contexts, Claim(c)
    PROVE  IndInv'
<1> DEFINE o == target[c]
<1>0. /\ TypeInv /\ o \in Owners /\ toWake[c] = <<>>
      /\ pos[c] \in {"claim", "claimLate"} /\ pos[c] \in PlainAt
      /\ failures \in 0 .. MaxFailures
  BY DEF IndInv, WalkInv, LeftInv, Claim, At, PlainAt, TypeInv
<1>1. CASE SwapSucceeds(o)
  <2>1. /\ phase[o] = "Uninitialized"
        /\ phase' = [phase EXCEPT ![o] = "Initializing"]
        /\ pos' = [pos EXCEPT ![c] = "own"]
        /\ target' = target
        /\ UNCHANGED <<parkVars, ownerCtx, gateWaiters, stored, running, toWake, program, failures>>
    BY <1>1 DEF Claim, SwapSucceeds, GoTo
  <2> HIDE DEF o
  <2> USE <1>0, <2>1 DEF IndInv, parkVars
  <2>2. \A d \in Contexts : ~Holds(d, o)
    BY DEF HolderInv
  <2>3. o \notin OnStack(c)
    BY <2>2 DEF Holds
  <2>4. \A d \in Contexts, q \in Owners :
           Holds(d, q)' <=> Holds(d, q) \/ (d = c /\ q = o)
    BY DEF TypeInv, Holds, OnStack, o
  <2>5. TypeInv'
    BY DEF TypeInv, OwnerPhases
  <2>6. WalkInv' /\ StackInv'
    BY <2>3 DEF TypeInv, WalkInv, StackInv, OnStack, o
  <2>7. HolderInv'
    BY <2>2, <2>4 DEF HolderInv, TypeInv
  <2>8. StoredInv' /\ ParkInv' /\ WaiterInv'
    <3>1. StoredInv'
      BY DEF TypeInv, StoredInv
    <3>2. ParkInv'
      BY DEF TypeInv, ParkInv
    <3>3. WaiterInv'
      BY DEF WaiterInv
    <3> QED
      BY <3>1, <3>2, <3>3
  <2>9. LeftInv'
    <3>1. \A d \in Contexts : pos[d] \in {"swapDone", "swapFail"} => pos'[d] = pos[d]
      BY DEF TypeInv
    <3>2. \A d \in Contexts : toWake[d] # <<>> => pos'[d] = pos[d]
      BY DEF TypeInv
    <3>3. \A q \in Owners : phase[q] = "Initializing" => phase'[q] = "Initializing"
      BY DEF TypeInv
    <3> QED
      BY <3>1, <3>2, <3>3 DEF LeftInv
  <2> QED
    BY <2>5, <2>6, <2>7, <2>8, <2>9
<1>2. CASE ~SwapSucceeds(o)
  <2>1. PICK p \in {"park", "load"} : GoTo(c, p)
    BY <1>2 DEF Claim
  <2>2. UNCHANGED <<parkVars, ownerVars, running, toWake, program, failures>>
    BY <1>2 DEF Claim, ownerVars
  <2>3. p \in PlainAt
    BY <2>1 DEF PlainAt
  <2> QED
    BY <2>1, <2>2, <2>3, <1>0, GoToFacts, PlainMove
<1> QED
  BY <1>1, <1>2

\* The winner stores its id and enters the initializer.
LEMMA StoreOwnerStep ==
    ASSUME IndInv, NEW c \in Contexts, StoreOwner(c)
    PROVE  IndInv'
<1> DEFINE o == target[c]
<1>1. /\ pos[c] = "own" /\ o \in Owners /\ o \notin OnStack(c)
      /\ toWake[c] = <<>>
  BY DEF IndInv, WalkInv, LeftInv, StoreOwner, At
<1>2. /\ ownerCtx' = [ownerCtx EXCEPT ![o] = c]
      /\ running' = [running EXCEPT ![c] = Append(running[c], o)]
      /\ pos' = [pos EXCEPT ![c] = "code"]
      /\ target' = [target EXCEPT ![c] = NoTarget]
      /\ UNCHANGED <<parkVars, phase, gateWaiters, stored, toWake, program, failures>>
  BY DEF StoreOwner, GoTo
<1>3. Holds(c, o)
  BY <1>1 DEF Holds
<1> HIDE DEF o
<1>4. /\ running'[c] = Append(running[c], o)
      /\ \A d \in Contexts \ {c} : running'[d] = running[d]
      /\ running[c] \in Seq(Owners)
  BY <1>2 DEF IndInv, TypeInv
<1>5. OnStack(c)' = OnStack(c) \cup {o}
  BY <1>1, <1>4, Pushed DEF OnStack
<1>6. \A d \in Contexts \ {c} : OnStack(d)' = OnStack(d)
  BY <1>4 DEF OnStack
<1>7. \A d \in Contexts, q \in Owners : Holds(d, q)' <=> Holds(d, q)
  BY <1>1, <1>2, <1>5, <1>6 DEF IndInv, TypeInv, Holds, o
<1>8. \A d \in Contexts \ {c} : o \notin OnStack(d)
  BY <1>1, <1>3 DEF IndInv, HolderInv, Holds
<1> USE <1>1, <1>2 DEF IndInv, parkVars
<1>9. TypeInv'
  <2>1. running' \in [Contexts -> Seq(Owners)]
    BY <1>4, Pushed DEF TypeInv
  <2> QED
    BY <2>1 DEF TypeInv
<1>10. WalkInv'
  BY <1>6 DEF WalkInv, TypeInv
<1>11. StackInv'
  <2>1. \A d \in Contexts : \A q \in Owners : ownerCtx'[q] = d <=> q \in OnStack(d)'
    BY <1>5, <1>6, <1>8 DEF StackInv, TypeInv
  <2>2. \A i, j \in DOMAIN running'[c] : running'[c][i] = running'[c][j] => i = j
    <3>1. \A i \in 1 .. Len(running[c]) : running[c][i] # o
      BY <1>4, Pushed DEF OnStack
    <3>2. \A i, j \in 1 .. Len(running[c]) : running[c][i] = running[c][j] => i = j
      BY <1>4, Pushed DEF StackInv
    <3>3. DOMAIN running'[c] = 1 .. Len(running[c]) + 1 /\ Len(running[c]) \in Nat
      BY <1>4, Pushed
    <3>4. \A i \in DOMAIN running'[c] :
              i \in 1 .. Len(running[c]) \/ i = Len(running[c]) + 1
      BY <3>3
    <3> QED
      BY <1>4, <3>1, <3>2, <3>4, Pushed
  <2> QED
    BY <1>4, <2>1, <2>2 DEF StackInv
<1>12. HolderInv'
  BY <1>7 DEF HolderInv
<1>13. StoredInv' /\ ParkInv' /\ WaiterInv'
  <2>1. StoredInv'
    BY DEF TypeInv, StoredInv
  <2>2. ParkInv'
    BY DEF TypeInv, ParkInv
  <2>3. WaiterInv'
    BY DEF WaiterInv
  <2> QED
    BY <2>1, <2>2, <2>3
<1>14. LeftInv'
  <2>1. \A d \in Contexts, q \in Owners :
           pos'[d] \in {"swapDone", "swapFail"} /\ target'[d] = q
              <=> pos[d] \in {"swapDone", "swapFail"} /\ target[d] = q
    BY DEF TypeInv
  <2>2. \A d \in Contexts : toWake[d] # <<>> => pos'[d] = pos[d]
    BY DEF TypeInv
  <2> QED
    BY <2>1, <2>2 DEF LeftInv
<1> QED
  BY <1>9, <1>10, <1>11, <1>12, <1>13, <1>14

\* The registration at the gate.
LEMMA ParkOnOwnerStep ==
    ASSUME IndInv, NEW c \in Contexts, ParkOnOwner(c)
    PROVE  IndInv'
<1> DEFINE o == target[c]
<1>1. /\ TypeInv /\ pos[c] = "park" /\ o \in Owners /\ pos[c] \in PlainAt
      /\ toWake[c] = <<>> /\ failures \in 0 .. MaxFailures
      /\ state[c] = "Runnable" /\ ~framesParked[c] /\ queued[c] = 0
  BY DEF IndInv, WalkInv, LeftInv, ParkInv, ParkOnOwner, At, PlainAt, TypeInv
<1>2. CASE StillInitializing(o)
  <2>1. /\ phase[o] = "Initializing"
        /\ gateWaiters' = [gateWaiters EXCEPT ![o] = Append(gateWaiters[o], c)]
        /\ state' = [state EXCEPT ![c] = "ParkedClassInit"]
        /\ pos' = [pos EXCEPT ![c] = "unwind"]
        /\ UNCHANGED <<framesParked, queued, phase, ownerCtx, stored, target, running, toWake,
                       program, failures>>
    BY <1>2 DEF ParkOnOwner, StillInitializing, MarkParked, GoTo
  <2> HIDE DEF o
  <2>2. /\ gateWaiters'[o] = Append(gateWaiters[o], c)
        /\ \A q \in Owners \ {o} : gateWaiters'[q] = gateWaiters[q]
        /\ gateWaiters[o] \in Seq(Contexts)
    BY <1>1, <2>1 DEF TypeInv
  <2>3. /\ gateWaiters'[o] \in Seq(Contexts)
        /\ DOMAIN gateWaiters'[o] = 1 .. Len(gateWaiters[o]) + 1
        /\ DOMAIN gateWaiters[o] = 1 .. Len(gateWaiters[o])
        /\ Len(gateWaiters[o]) \in Nat
        /\ \A i \in DOMAIN gateWaiters[o] : gateWaiters'[o][i] = gateWaiters[o][i]
        /\ gateWaiters'[o][Len(gateWaiters[o]) + 1] = c
    BY <2>2, Pushed
  <2>4. \A i \in DOMAIN gateWaiters'[o] :
           \/ i \in DOMAIN gateWaiters[o]
           \/ i = Len(gateWaiters[o]) + 1
    BY <2>3
  <2>5. /\ \A q \in Owners : \A i \in DOMAIN gateWaiters[q] : gateWaiters[q][i] # c
        /\ \A d \in Contexts : \A i \in DOMAIN toWake[d] : toWake[d][i] # c
    BY <1>1 DEF IndInv, WaiterInv
  <2>6. \A d \in Contexts \ {c} : state'[d] = state[d] /\ pos'[d] = pos[d]
    BY <1>1, <2>1 DEF TypeInv
  <2>7. state'[c] = "ParkedClassInit" /\ pos'[c] = "unwind"
    BY <1>1, <2>1 DEF TypeInv
  <2>8. TypeInv'
    <3>1. gateWaiters' \in [Owners -> Seq(Contexts)]
      BY <1>1, <2>1, <2>3 DEF TypeInv
    <3> QED
      BY <1>1, <2>1, <3>1 DEF TypeInv
  <2> USE DEF IndInv
  <2>9. WalkInv' /\ StackInv' /\ StoredInv'
    BY <1>1, <2>1, <2>6, <2>7 DEF WalkInv, StackInv, StoredInv, OnStack, o
  <2>10. HolderInv'
    <3>1. \A d \in Contexts, q \in Owners : Holds(d, q)' <=> Holds(d, q)
      BY <1>1, <2>1, <2>6, <2>7 DEF Holds, OnStack
    <3> QED
      BY <2>1, <3>1 DEF HolderInv
  <2>11. ParkInv'
    BY <1>1, <2>1, <2>6, <2>7 DEF ParkInv
  <2>12. WaiterInv'
    <3>1. \A q \in Owners : \A i \in DOMAIN gateWaiters'[q] :
             \/ i \in DOMAIN gateWaiters[q] /\ gateWaiters'[q][i] = gateWaiters[q][i]
             \/ q = o /\ i = Len(gateWaiters[o]) + 1 /\ gateWaiters'[q][i] = c
      BY <2>2, <2>3, <2>4
    <3>2. \A q \in Owners : \A i \in DOMAIN gateWaiters'[q] : state'[gateWaiters'[q][i]] # "Runnable"
      <4>1. \A q \in Owners : \A i \in DOMAIN gateWaiters[q] : gateWaiters[q][i] \in Contexts
        BY <1>1 DEF TypeInv
      <4> QED
        BY <3>1, <4>1, <2>5, <2>6, <2>7 DEF WaiterInv
    <3>3. \A d \in Contexts : \A i \in DOMAIN toWake[d] : state'[toWake[d][i]] # "Runnable"
      <4>1. \A d \in Contexts : \A i \in DOMAIN toWake[d] : toWake[d][i] \in Contexts
        BY <1>1 DEF TypeInv
      <4> QED
        BY <4>1, <2>5, <2>6 DEF WaiterInv
    <3>4. \A q, r \in Owners : \A i \in DOMAIN gateWaiters'[q], j \in DOMAIN gateWaiters'[r] :
             gateWaiters'[q][i] = gateWaiters'[r][j] => q = r /\ i = j
      BY <3>1, <2>5 DEF WaiterInv
    <3>5. \A q \in Owners, d \in Contexts :
             \A i \in DOMAIN gateWaiters'[q], j \in DOMAIN toWake[d] :
                 gateWaiters'[q][i] # toWake[d][j]
      BY <3>1, <2>5 DEF WaiterInv
    <3> QED
      BY <2>1, <3>2, <3>3, <3>4, <3>5 DEF WaiterInv
  <2>13. LeftInv'
    <3>1. \A d \in Contexts : state'[d] # "Runnable" =>
             \/ \E q \in Owners : \E i \in DOMAIN gateWaiters'[q] : gateWaiters'[q][i] = d
             \/ \E e \in Contexts : \E i \in DOMAIN toWake[e] : toWake[e][i] = d
      <4>1. \A q \in Owners : \A i \in DOMAIN gateWaiters[q] :
               i \in DOMAIN gateWaiters'[q] /\ gateWaiters'[q][i] = gateWaiters[q][i]
        BY <2>2, <2>3
      <4>2. Len(gateWaiters[o]) + 1 \in DOMAIN gateWaiters'[o]
        BY <2>3
      <4> QED
        BY <1>1, <2>3, <2>6, <4>1, <4>2 DEF LeftInv
    <3>2. \A q \in Owners : gateWaiters'[q] # <<>> =>
             \/ phase'[q] = "Initializing"
             \/ \E d \in Contexts : pos'[d] \in {"swapDone", "swapFail"} /\ target'[d] = q
      <4>1. \A d \in Contexts : pos[d] \in {"swapDone", "swapFail"} => pos'[d] = pos[d]
        BY <1>1, <2>6
      <4> QED
        BY <2>1, <2>2, <4>1 DEF LeftInv
    <3>3. \A d \in Contexts : toWake'[d] # <<>> =>
             pos'[d] \in {"wakeDone", "wakeFail", "dead"}
      BY <1>1, <2>1, <2>6 DEF LeftInv
    <3> QED
      BY <2>1, <3>1, <3>2, <3>3 DEF LeftInv
  <2> QED
    BY <2>8, <2>9, <2>10, <2>11, <2>12, <2>13
<1>3. CASE ~StillInitializing(o)
  <2>1. GoTo(c, "load") /\ UNCHANGED <<parkVars, ownerVars, running, toWake, program, failures>>
    BY <1>3 DEF ParkOnOwner, ownerVars
  <2>2. "load" \in PlainAt
    BY DEF PlainAt
  <2> QED
    BY <2>1, <2>2, <1>1, GoToFacts, PlainMove
<1> QED
  BY <1>2, <1>3

\* A step that changes nothing but the park state and the place of a context
\* that is parked or on its way there, and leaves it parked or on a walk.
LEMMA ParkedMove ==
    ASSUME IndInv, NEW c \in Contexts, NEW p \in {"parked", "load"},
           pos[c] \in {"unwind", "parked"}, GoTo(c, p),
           framesParked' \in [Contexts -> BOOLEAN], queued' \in [Contexts -> {0, 1}],
           ParkInv',
           UNCHANGED <<state, ownerVars, running, toWake, program, failures>>
    PROVE  IndInv'
<1>0. /\ pos' = [pos EXCEPT ![c] = p] /\ target' = target
      /\ UNCHANGED <<phase, ownerCtx, gateWaiters, stored>>
  BY DEF GoTo, ownerVars
<1> USE <1>0 DEF IndInv
<1>1. TypeInv'
  BY DEF TypeInv
<1>2. WalkInv' /\ StackInv' /\ StoredInv'
  BY DEF TypeInv, WalkInv, StackInv, StoredInv, OnStack
<1>3. HolderInv'
  <2>1. \A d \in Contexts, o \in Owners : Holds(d, o)' <=> Holds(d, o)
    BY DEF TypeInv, Holds, OnStack
  <2> QED
    BY <2>1 DEF HolderInv
<1>4. WaiterInv'
  BY DEF WaiterInv
<1>5. LeftInv'
  <2>1. \A d \in Contexts : pos[d] \in {"swapDone", "swapFail"} <=> pos'[d] \in {"swapDone", "swapFail"}
    BY DEF TypeInv
  <2>2. \A d \in Contexts : toWake[d] # <<>> => pos'[d] = pos[d]
    <3>1. toWake[c] = <<>>
      BY DEF LeftInv
    <3> QED
      BY <3>1 DEF TypeInv
  <2> QED
    BY <2>1, <2>2 DEF LeftInv
<1> QED
  BY <1>1, <1>2, <1>3, <1>4, <1>5

\* The frames land on the scheduler, or the resumed context leaves it.
LEMMA ParkSteps ==
    ASSUME IndInv, NEW c \in Contexts, LandWaiter(c) \/ ResumeWaiter(c)
    PROVE  IndInv'
<1>0. /\ TypeInv /\ ParkInv
      /\ state \in [Contexts -> {"Runnable", "ParkedClassInit"}]
      /\ framesParked \in [Contexts -> BOOLEAN] /\ queued \in [Contexts -> {0, 1}]
  BY DEF IndInv, TypeInv
<1>1. CASE LandWaiter(c)
  <2>1. pos[c] = "unwind" /\ ~framesParked[c] /\ queued[c] = 0
    BY <1>0, <1>1 DEF LandWaiter, At, ParkInv
  <2>2. GoTo(c, "parked") /\ UNCHANGED <<state, ownerVars, running, toWake, program, failures>>
    BY <1>1 DEF LandWaiter, LandFrames
  <2>3. pos' = [pos EXCEPT ![c] = "parked"]
    BY <2>2 DEF GoTo
  <2>4. \/ /\ state[c] = "Runnable"
           /\ queued' = [queued EXCEPT ![c] = 1] /\ framesParked' = framesParked
        \/ /\ state[c] # "Runnable"
           /\ framesParked' = [framesParked EXCEPT ![c] = TRUE] /\ queued' = queued
    BY <1>1, <2>1 DEF LandWaiter, LandFrames
  <2>5. framesParked' \in [Contexts -> BOOLEAN] /\ queued' \in [Contexts -> {0, 1}]
    BY <1>0, <2>4
  <2>6. ParkInv'
    BY <1>0, <2>1, <2>2, <2>3, <2>4 DEF ParkInv, TypeInv
  <2> QED
    BY <2>1, <2>2, <2>5, <2>6, ParkedMove
<1>2. CASE ResumeWaiter(c)
  <2>1. pos[c] = "parked" /\ queued[c] = 1 /\ state[c] = "Runnable"
    BY <1>0, <1>2 DEF ResumeWaiter, Dispatch, At, ParkInv
  <2>2. GoTo(c, "load") /\ UNCHANGED <<state, ownerVars, running, toWake, program, failures>>
    BY <1>2 DEF ResumeWaiter, Dispatch
  <2>3. pos' = [pos EXCEPT ![c] = "load"]
    BY <2>2 DEF GoTo
  <2>4. /\ queued' = [queued EXCEPT ![c] = 0]
        /\ framesParked' = [framesParked EXCEPT ![c] = FALSE]
    BY <1>2, <2>1 DEF ResumeWaiter, Dispatch
  <2>5. framesParked' \in [Contexts -> BOOLEAN] /\ queued' \in [Contexts -> {0, 1}]
    BY <1>0, <2>4
  <2>6. ParkInv'
    BY <1>0, <2>1, <2>2, <2>3, <2>4 DEF ParkInv, TypeInv
  <2> QED
    BY <2>1, <2>2, <2>5, <2>6, ParkedMove
<1> QED
  BY <1>1, <1>2

\* The initializer stores the value of its owner.
LEMMA StoreStep ==
    ASSUME IndInv, NEW c \in Contexts, Store(c)
    PROVE  IndInv'
<1>1. PICK o : stored' = [stored EXCEPT ![o] = TRUE]
  BY DEF Store
<1>2. UNCHANGED <<parkVars, phase, ownerCtx, gateWaiters, walkVars>>
  BY DEF Store
<1> USE <1>1, <1>2 DEF IndInv, parkVars, walkVars
<1>3. TypeInv'
  BY DEF TypeInv
<1>4. WalkInv' /\ StackInv' /\ ParkInv'
  BY DEF WalkInv, StackInv, ParkInv, OnStack
<1>5. HolderInv'
  BY DEF HolderInv, Holds, OnStack
<1>6. StoredInv'
  BY DEF StoredInv, TypeInv, WalkInv
<1>7. WaiterInv' /\ LeftInv'
  BY DEF WaiterInv, LeftInv
<1> QED
  BY <1>3, <1>4, <1>5, <1>6, <1>7

\* The owner id goes and the initializer leaves the stack, still holding.
LEMMA EndInitializerStep ==
    ASSUME IndInv, NEW c \in Contexts, EndInitializer(c)
    PROVE  IndInv'
<1> DEFINE o == Top(c)
<1> DEFINE rest == SubSeq(running[c], 1, Len(running[c]) - 1)
<1>0. running[c] \in Seq(Owners) /\ running[c] # <<>>
  BY DEF IndInv, TypeInv, EndInitializer
<1>1. PICK p \in {"done", "fail"} :
         /\ pos' = [pos EXCEPT ![c] = p]
         /\ p = "done" => stored[o]
  BY DEF EndInitializer, WalkFor
<1>2. /\ pos[c] \in {"code", "thrown"}
      /\ target' = [target EXCEPT ![c] = o]
      /\ ownerCtx' = [ownerCtx EXCEPT ![o] = NoOwnerCtx]
      /\ running' = [running EXCEPT ![c] = rest]
      /\ UNCHANGED <<parkVars, phase, gateWaiters, stored, toWake, program, failures>>
  BY DEF EndInitializer, WalkFor, WithoutOwner, At
<1>3. /\ o \in Owners /\ Len(running[c]) \in Nat \ {0}
      /\ rest \in Seq(Owners)
      /\ DOMAIN running[c] = 1 .. Len(running[c])
      /\ DOMAIN rest = 1 .. Len(running[c]) - 1
      /\ \A i \in DOMAIN rest : rest[i] = running[c][i]
      /\ o = running[c][Len(running[c])]
  BY <1>0, Popped DEF Top
<1> HIDE DEF o, rest
<1>4. /\ running'[c] = rest
      /\ \A d \in Contexts \ {c} : running'[d] = running[d]
  BY <1>2 DEF IndInv, TypeInv
<1>5. \A i, j \in DOMAIN running[c] : running[c][i] = running[c][j] => i = j
  BY DEF IndInv, StackInv
<1>6. \A i \in DOMAIN rest : i \in DOMAIN running[c] /\ rest[i] # o
  BY <1>3, <1>5
<1>7. \A i \in DOMAIN running[c] : i \in DOMAIN rest \/ running[c][i] = o
  BY <1>3
<1>8. o \in OnStack(c) /\ OnStack(c)' = OnStack(c) \ {o}
  <2>1. o \in OnStack(c)
    BY <1>3 DEF OnStack
  <2>2. OnStack(c)' = {rest[i] : i \in DOMAIN rest}
    BY <1>4 DEF OnStack
  <2>3. \A q \in OnStack(c)' : q \in OnStack(c) /\ q # o
    BY <1>3, <1>6, <2>2 DEF OnStack
  <2>4. \A q \in OnStack(c) : q # o => q \in OnStack(c)'
    BY <1>3, <1>7, <2>2 DEF OnStack
  <2> QED
    BY <2>1, <2>3, <2>4
<1>9. \A d \in Contexts \ {c} : OnStack(d)' = OnStack(d)
  BY <1>4 DEF OnStack
<1>10. \A d \in Contexts, q \in Owners : Holds(d, q)' <=> Holds(d, q)
  BY <1>1, <1>2, <1>8, <1>9 DEF IndInv, TypeInv, Holds
<1> USE <1>1, <1>2, <1>3 DEF IndInv, parkVars
<1>11. TypeInv'
  <2>1. running' \in [Contexts -> Seq(Owners)]
    BY DEF TypeInv
  <2> QED
    BY <2>1 DEF TypeInv
<1>12. WalkInv'
  BY <1>8, <1>9 DEF WalkInv, TypeInv
<1>13. StackInv'
  <2>1. \A d \in Contexts : \A q \in Owners : ownerCtx'[q] = d <=> q \in OnStack(d)'
    <3>1. \A d \in Contexts \ {c} : o \notin OnStack(d)
      BY <1>8 DEF HolderInv, Holds
    <3> QED
      BY <1>8, <1>9, <3>1, StaticInitAssumption DEF StackInv, TypeInv
  <2>2. \A i, j \in DOMAIN running'[c] : running'[c][i] = running'[c][j] => i = j
    BY <1>4, <1>5, <1>6
  <2> QED
    BY <1>4, <2>1, <2>2 DEF StackInv
<1>14. HolderInv'
  BY <1>10 DEF HolderInv
<1>15. StoredInv' /\ ParkInv' /\ WaiterInv'
  <2>1. StoredInv'
    BY DEF TypeInv, StoredInv
  <2>2. ParkInv'
    BY DEF TypeInv, ParkInv
  <2>3. WaiterInv'
    BY DEF WaiterInv
  <2> QED
    BY <2>1, <2>2, <2>3
<1>16. LeftInv'
  <2>1. \A d \in Contexts, q \in Owners :
           pos'[d] \in {"swapDone", "swapFail"} /\ target'[d] = q
              <=> pos[d] \in {"swapDone", "swapFail"} /\ target[d] = q
    BY DEF TypeInv
  <2>2. \A d \in Contexts : toWake[d] # <<>> => pos'[d] = pos[d]
    <3>1. toWake[c] = <<>>
      BY DEF LeftInv
    <3> QED
      BY <3>1 DEF TypeInv
  <2> QED
    BY <2>1, <2>2 DEF LeftInv
<1> QED
  BY <1>11, <1>12, <1>13, <1>14, <1>15, <1>16

\* The phase is published and the holder lets go.
LEMMA PublishStep ==
    ASSUME IndInv, NEW c \in Contexts, Publish(c)
    PROVE  IndInv'
<1> DEFINE o == target[c]
<1>1. PICK p \in {"swapDone", "swapFail"}, ph \in {"Done", "Uninitialized"} :
         /\ pos' = [pos EXCEPT ![c] = p]
         /\ phase' = [phase EXCEPT ![o] = ph]
         /\ ph = "Done" => pos[c] = "done"
  BY DEF Publish, GoTo, At
<1>2. /\ pos[c] \in {"done", "fail"} /\ target' = target
      /\ UNCHANGED <<parkVars, ownerCtx, gateWaiters, stored, running, toWake, program, failures>>
  BY DEF Publish, GoTo, At
<1>3. o \in Owners /\ o \notin OnStack(c) /\ Holds(c, o)
  BY <1>2 DEF IndInv, WalkInv, Holds
<1> HIDE DEF o
<1> USE <1>1, <1>2, <1>3 DEF IndInv, parkVars
<1>4. \A d \in Contexts, q \in Owners : Holds(d, q)' <=> Holds(d, q) /\ q # o
  <2>1. \A d \in Contexts \ {c}, q \in Owners : Holds(d, q)' <=> Holds(d, q)
    BY DEF TypeInv, Holds, OnStack
  <2>2. \A q \in Owners : Holds(c, q)' <=> q \in OnStack(c)
    BY DEF TypeInv, Holds, OnStack
  <2>3. \A q \in Owners : Holds(c, q) <=> q \in OnStack(c) \/ q = o
    BY DEF Holds, o
  <2>4. \A d \in Contexts \ {c} : ~Holds(d, o)
    BY DEF HolderInv
  <2> QED
    BY <2>1, <2>2, <2>3, <2>4
<1>5. TypeInv'
  BY DEF TypeInv, OwnerPhases
<1>6. WalkInv' /\ StackInv'
  BY DEF TypeInv, WalkInv, StackInv, OnStack, o
<1>7. HolderInv'
  <2>1. \A q \in Owners \ {o} : phase'[q] = phase[q]
    BY DEF TypeInv
  <2>2. phase'[o] # "Initializing"
    BY DEF TypeInv
  <2> QED
    BY <1>4, <2>1, <2>2 DEF HolderInv
<1>8. StoredInv' /\ ParkInv' /\ WaiterInv'
  <2>1. StoredInv'
    BY DEF TypeInv, StoredInv, o
  <2>2. ParkInv'
    BY DEF TypeInv, ParkInv
  <2>3. WaiterInv'
    BY DEF WaiterInv
  <2> QED
    BY <2>1, <2>2, <2>3
<1>9. LeftInv'
  <2>1. \A d \in Contexts : pos[d] \in {"swapDone", "swapFail"} => pos'[d] = pos[d]
    BY DEF TypeInv
  <2>2. \A d \in Contexts : toWake[d] # <<>> => pos'[d] = pos[d]
    <3>1. toWake[c] = <<>>
      BY DEF LeftInv
    <3> QED
      BY <3>1 DEF TypeInv
  <2>3. \A q \in Owners \ {o} : phase'[q] = phase[q]
    BY DEF TypeInv
  <2>4. pos'[c] \in {"swapDone", "swapFail"} /\ target'[c] = o
    BY DEF TypeInv, o
  <2> QED
    BY <2>1, <2>2, <2>3, <2>4 DEF LeftInv
<1> QED
  BY <1>5, <1>6, <1>7, <1>8, <1>9

\* The lists of some owners are taken over into the list of one context.
LEMMA TakeLists ==
    ASSUME TypeInv, WaiterInv, LeftInv, NEW c \in Contexts, toWake[c] = <<>>,
           NEW S \in SUBSET Owners, NEW L \in Seq(Contexts),
           \A k \in DOMAIN L : \E o \in S : \E i \in DOMAIN gateWaiters[o] :
               L[k] = gateWaiters[o][i],
           \A k, l \in DOMAIN L : L[k] = L[l] => k = l,
           \A o \in S : \A i \in DOMAIN gateWaiters[o] :
               \E k \in DOMAIN L : L[k] = gateWaiters[o][i],
           toWake' = [toWake EXCEPT ![c] = L],
           gateWaiters' = [o \in Owners |-> IF o \in S THEN <<>> ELSE gateWaiters[o]],
           state' = state
    PROVE  /\ gateWaiters' \in [Owners -> Seq(Contexts)]
           /\ toWake' \in [Contexts -> Seq(Contexts)]
           /\ \A o \in S : gateWaiters'[o] = <<>>
           /\ \A o \in Owners \ S : gateWaiters'[o] = gateWaiters[o]
           /\ \A d \in Contexts \ {c} : toWake'[d] = toWake[d]
           /\ WaiterInv'
           /\ \A d \in Contexts : state'[d] # "Runnable" =>
                 \/ \E o \in Owners : \E i \in DOMAIN gateWaiters'[o] : gateWaiters'[o][i] = d
                 \/ \E e \in Contexts : \E i \in DOMAIN toWake'[e] : toWake'[e][i] = d
<1>1. /\ gateWaiters' \in [Owners -> Seq(Contexts)]
      /\ toWake' \in [Contexts -> Seq(Contexts)]
      /\ \A o \in S : gateWaiters'[o] = <<>> /\ DOMAIN gateWaiters'[o] = {}
      /\ \A o \in Owners \ S : gateWaiters'[o] = gateWaiters[o]
      /\ \A d \in Contexts \ {c} : toWake'[d] = toWake[d]
      /\ toWake'[c] = L
  BY DEF TypeInv
<1>2. WaiterInv'
  <2>1. \A o \in Owners : \A i \in DOMAIN gateWaiters'[o] :
           o \notin S /\ i \in DOMAIN gateWaiters[o] /\ gateWaiters'[o][i] = gateWaiters[o][i]
    BY <1>1
  <2>2. \A o \in Owners : \A i \in DOMAIN gateWaiters'[o] : state'[gateWaiters'[o][i]] # "Runnable"
    BY <2>1 DEF WaiterInv
  <2>3. \A d \in Contexts : \A i \in DOMAIN toWake'[d] : state'[toWake'[d][i]] # "Runnable"
    BY <1>1 DEF WaiterInv
  <2>4. \A o, p \in Owners : \A i \in DOMAIN gateWaiters'[o], j \in DOMAIN gateWaiters'[p] :
           gateWaiters'[o][i] = gateWaiters'[p][j] => o = p /\ i = j
    BY <2>1 DEF WaiterInv
  <2>5. \A d, e \in Contexts : \A i \in DOMAIN toWake'[d], j \in DOMAIN toWake'[e] :
           toWake'[d][i] = toWake'[e][j] => d = e /\ i = j
    <3>1. \A d \in Contexts \ {c} : \A i \in DOMAIN toWake[d], k \in DOMAIN L : toWake[d][i] # L[k]
      BY DEF WaiterInv
    <3>2. \A d, e \in Contexts \ {c} : \A i \in DOMAIN toWake'[d], j \in DOMAIN toWake'[e] :
             toWake'[d][i] = toWake'[e][j] => d = e /\ i = j
      BY <1>1 DEF WaiterInv
    <3> QED
      BY <1>1, <3>1, <3>2
  <2>6. \A o \in Owners, d \in Contexts :
           \A i \in DOMAIN gateWaiters'[o], j \in DOMAIN toWake'[d] :
               gateWaiters'[o][i] # toWake'[d][j]
    <3>1. \A o \in Owners \ S : \A i \in DOMAIN gateWaiters[o] :
             \A k \in DOMAIN L : gateWaiters[o][i] # L[k]
      BY DEF WaiterInv
    <3>2. \A o \in Owners, d \in Contexts \ {c} :
             \A i \in DOMAIN gateWaiters'[o], j \in DOMAIN toWake'[d] :
                 gateWaiters'[o][i] # toWake'[d][j]
      BY <1>1, <2>1 DEF WaiterInv
    <3> QED
      BY <1>1, <2>1, <3>1, <3>2
  <2> QED
    BY <2>2, <2>3, <2>4, <2>5, <2>6 DEF WaiterInv
<1>3. ASSUME NEW d \in Contexts, state[d] # "Runnable"
      PROVE  \/ \E o \in Owners : \E i \in DOMAIN gateWaiters'[o] : gateWaiters'[o][i] = d
             \/ \E e \in Contexts : \E i \in DOMAIN toWake'[e] : toWake'[e][i] = d
  <2>1. CASE \E o \in Owners : \E i \in DOMAIN gateWaiters[o] : gateWaiters[o][i] = d
    <3>1. PICK o \in Owners : \E i \in DOMAIN gateWaiters[o] : gateWaiters[o][i] = d
      BY <2>1
    <3>2. CASE o \in S
      <4>1. PICK k \in DOMAIN L : L[k] = d
        BY <3>1, <3>2
      <4> QED
        BY <4>1, <1>1
    <3>3. CASE o \notin S
      BY <3>1, <3>3, <1>1
    <3> QED
      BY <3>2, <3>3
  <2>2. CASE \E e \in Contexts : \E i \in DOMAIN toWake[e] : toWake[e][i] = d
    <3>1. PICK e \in Contexts : \E i \in DOMAIN toWake[e] : toWake[e][i] = d
      BY <2>2
    <3>2. e # c
      BY <3>1
    <3> QED
      BY <3>1, <3>2, <1>1
  <2> QED
    BY <1>3, <2>1, <2>2 DEF LeftInv
<1> QED
  BY <1>1, <1>2, <1>3

\* The list of waiters is swapped out.
LEMMA SwapWaitersStep ==
    ASSUME IndInv, NEW c \in Contexts, SwapWaiters(c)
    PROVE  IndInv'
<1> DEFINE o == target[c]
<1>1. /\ pos[c] \in {"swapDone", "swapFail"} /\ o \in Owners /\ toWake[c] = <<>>
  BY DEF IndInv, WalkInv, LeftInv, SwapWaiters, At
<1>2. PICK p \in {"wakeDone", "wakeFail"} : pos' = [pos EXCEPT ![c] = p]
  BY DEF SwapWaiters, GoTo
<1>3. /\ toWake' = [toWake EXCEPT ![c] = gateWaiters[o]]
      /\ gateWaiters' = [gateWaiters EXCEPT ![o] = <<>>]
      /\ UNCHANGED <<parkVars, phase, ownerCtx, stored, target, running, program, failures>>
  BY DEF SwapWaiters, WithoutWaiters, GoTo
<1> HIDE DEF o
<1>4. gateWaiters' = [q \in Owners |-> IF q \in {o} THEN <<>> ELSE gateWaiters[q]]
  BY <1>1, <1>3 DEF IndInv, TypeInv
<1> DEFINE L == gateWaiters[o]
<1> DEFINE S == {o}
<1>5. /\ TypeInv /\ WaiterInv /\ LeftInv
      /\ L \in Seq(Contexts) /\ S \in SUBSET Owners
      /\ \A k \in DOMAIN L : \E q \in S : \E i \in DOMAIN gateWaiters[q] : L[k] = gateWaiters[q][i]
      /\ \A k, l \in DOMAIN L : L[k] = L[l] => k = l
      /\ \A q \in S : \A i \in DOMAIN gateWaiters[q] : \E k \in DOMAIN L : L[k] = gateWaiters[q][i]
      /\ toWake' = [toWake EXCEPT ![c] = L]
      /\ gateWaiters' = [q \in Owners |-> IF q \in S THEN <<>> ELSE gateWaiters[q]]
      /\ state' = state
  <2>1. TypeInv /\ WaiterInv /\ LeftInv /\ state' = state
    BY <1>3 DEF IndInv, parkVars
  <2>2. L \in Seq(Contexts) /\ S \in SUBSET Owners
    BY <1>1, <2>1 DEF TypeInv
  <2>3. \A k, l \in DOMAIN L : L[k] = L[l] => k = l
    BY <1>1, <2>1 DEF WaiterInv
  <2>4. \A q \in S : gateWaiters[q] = L
    OBVIOUS
  <2> QED
    BY <1>3, <1>4, <2>1, <2>2, <2>3, <2>4
<1>6. /\ gateWaiters' \in [Owners -> Seq(Contexts)]
      /\ toWake' \in [Contexts -> Seq(Contexts)]
      /\ gateWaiters'[o] = <<>>
      /\ \A q \in Owners \ {o} : gateWaiters'[q] = gateWaiters[q]
      /\ \A d \in Contexts \ {c} : toWake'[d] = toWake[d]
      /\ WaiterInv'
      /\ \A d \in Contexts : state'[d] # "Runnable" =>
            \/ \E q \in Owners : \E i \in DOMAIN gateWaiters'[q] : gateWaiters'[q][i] = d
            \/ \E e \in Contexts : \E i \in DOMAIN toWake'[e] : toWake'[e][i] = d
  <2>1. o \in S /\ \A q \in Owners \ {o} : q \in Owners \ S
    OBVIOUS
  <2> HIDE DEF L, S
  <2>2. /\ gateWaiters' \in [Owners -> Seq(Contexts)]
        /\ toWake' \in [Contexts -> Seq(Contexts)]
        /\ \A q \in S : gateWaiters'[q] = <<>>
        /\ \A q \in Owners \ S : gateWaiters'[q] = gateWaiters[q]
        /\ \A d \in Contexts \ {c} : toWake'[d] = toWake[d]
        /\ WaiterInv'
        /\ \A d \in Contexts : state'[d] # "Runnable" =>
              \/ \E q \in Owners : \E i \in DOMAIN gateWaiters'[q] : gateWaiters'[q][i] = d
              \/ \E e \in Contexts : \E i \in DOMAIN toWake'[e] : toWake'[e][i] = d
    BY ZenonT(60), <1>1, <1>5, TakeLists
  <2> QED
    BY <2>1, <2>2
<1> HIDE DEF L, S
<1> USE <1>1, <1>2, <1>3 DEF IndInv, parkVars
<1>7. TypeInv'
  BY <1>6 DEF TypeInv
<1>8. WalkInv' /\ StackInv'
  BY DEF TypeInv, WalkInv, StackInv, OnStack, o
<1>9. HolderInv'
  <2>1. \A d \in Contexts, q \in Owners : Holds(d, q)' <=> Holds(d, q)
    BY DEF TypeInv, Holds, OnStack
  <2> QED
    BY <2>1 DEF HolderInv
<1>10. StoredInv' /\ ParkInv'
  BY DEF TypeInv, StoredInv, ParkInv
<1>11. LeftInv'
  <2>1. \A d \in Contexts \ {c} : pos'[d] = pos[d]
    BY DEF TypeInv
  <2>2. pos'[c] \in {"wakeDone", "wakeFail"}
    BY DEF TypeInv
  <2>3. \A q \in Owners : gateWaiters'[q] # <<>> =>
           \/ phase'[q] = "Initializing"
           \/ \E d \in Contexts : pos'[d] \in {"swapDone", "swapFail"} /\ target'[d] = q
    BY <1>6, <2>1 DEF LeftInv, o
  <2>4. \A d \in Contexts : toWake'[d] # <<>> => pos'[d] \in {"wakeDone", "wakeFail", "dead"}
    BY <1>6, <2>1, <2>2 DEF LeftInv
  <2> QED
    BY <1>6, <2>3, <2>4 DEF LeftInv
<1> QED
  BY <1>6, <1>7, <1>8, <1>9, <1>10, <1>11

\* One waiter is woken.
LEMMA WakeWaiterStep ==
    ASSUME IndInv, NEW c \in Contexts, WakeWaiter(c)
    PROVE  IndInv'
<1> DEFINE w == Head(toWake[c])
<1> DEFINE n == IF framesParked[w] THEN 1 ELSE 0
<1>0. toWake[c] \in Seq(Contexts) /\ toWake[c] # <<>>
  BY DEF IndInv, TypeInv, WakeWaiter
<1>1. /\ w = toWake[c][1] /\ 1 \in DOMAIN toWake[c] /\ w \in Contexts
      /\ Tail(toWake[c]) \in Seq(Contexts)
      /\ \A i \in DOMAIN Tail(toWake[c]) :
            i + 1 \in DOMAIN toWake[c] /\ i + 1 # 1 /\ Tail(toWake[c])[i] = toWake[c][i + 1]
      /\ \A i \in DOMAIN toWake[c] :
            \/ i = 1
            \/ i - 1 \in DOMAIN Tail(toWake[c]) /\ Tail(toWake[c])[i - 1] = toWake[c][i]
      /\ DOMAIN Tail(toWake[c]) \subseteq Nat \ {0}
  <2>1. Len(toWake[c]) \in Nat \ {0} /\ DOMAIN Tail(toWake[c]) = 1 .. Len(toWake[c]) - 1
    BY <1>0, Behead
  <2> QED
    BY <1>0, <2>1, Behead
<1>2. /\ state' = [state EXCEPT ![w] = "Runnable"]
      /\ queued' = [queued EXCEPT ![w] = queued[w] + n]
      /\ toWake' = [toWake EXCEPT ![c] = Tail(toWake[c])]
      /\ UNCHANGED <<framesParked, ownerVars, pos, target, running, program, failures>>
  BY DEF WakeWaiter, WakeUp
<1>3. state[w] # "Runnable" /\ pos[w] \in {"unwind", "parked"} /\ queued[w] = 0
  <2>1. state[w] # "Runnable"
    BY <1>1 DEF IndInv, WaiterInv
  <2> QED
    BY <1>1, <2>1 DEF IndInv, ParkInv, TypeInv
<1> HIDE DEF w
<1>4. /\ toWake'[c] = Tail(toWake[c])
      /\ \A d \in Contexts \ {c} : toWake'[d] = toWake[d]
      /\ toWake' \in [Contexts -> Seq(Contexts)]
  BY <1>1, <1>2 DEF IndInv, TypeInv
<1>5. \A d \in Contexts : \A i \in DOMAIN toWake'[d] :
         \E j \in DOMAIN toWake[d] :
            /\ toWake'[d][i] = toWake[d][j]
            /\ d = c => j = i + 1 /\ j # 1
            /\ d # c => j = i
  <2>1. \A i \in DOMAIN toWake'[c] :
           i + 1 \in DOMAIN toWake[c] /\ i + 1 # 1 /\ toWake'[c][i] = toWake[c][i + 1]
    BY <1>1, <1>4
  <2>2. \A d \in Contexts \ {c} : \A i \in DOMAIN toWake'[d] :
           i \in DOMAIN toWake[d] /\ toWake'[d][i] = toWake[d][i]
    BY <1>4
  <2> QED
    BY <2>1, <2>2
<1>6. \A d \in Contexts : \A i \in DOMAIN toWake'[d] : toWake'[d][i] # w
  BY <1>1, <1>5 DEF IndInv, WaiterInv
<1>7. \A o \in Owners : \A i \in DOMAIN gateWaiters[o] : gateWaiters[o][i] # w
  BY <1>1 DEF IndInv, WaiterInv
<1>8. \A d \in Contexts \ {w} : state'[d] = state[d] /\ queued'[d] = queued[d]
  BY <1>1, <1>2 DEF IndInv, TypeInv
<1>9. state'[w] = "Runnable" /\ queued'[w] = n
  BY <1>1, <1>2, <1>3 DEF IndInv, TypeInv
<1> HIDE DEF n
<1>10. n \in {0, 1} /\ (n = 1 <=> framesParked[w])
  BY DEF n
<1> USE DEF IndInv, ownerVars
<1>11. TypeInv'
  BY <1>1, <1>2, <1>3, <1>4, <1>10 DEF TypeInv
<1>12. WalkInv' /\ StackInv' /\ StoredInv'
  BY <1>2 DEF WalkInv, StackInv, StoredInv, OnStack
<1>13. HolderInv'
  BY <1>2 DEF HolderInv, Holds, OnStack
<1>14. ParkInv'
  BY <1>2, <1>3, <1>8, <1>9, <1>10 DEF ParkInv
<1>15. WaiterInv'
  <2>1. \A o \in Owners : \A i \in DOMAIN gateWaiters'[o] : state'[gateWaiters'[o][i]] # "Runnable"
    <3>1. \A o \in Owners : \A i \in DOMAIN gateWaiters[o] : gateWaiters[o][i] \in Contexts
      BY DEF TypeInv
    <3> QED
      BY <1>2, <1>7, <1>8, <3>1 DEF WaiterInv
  <2>2. \A d \in Contexts : \A i \in DOMAIN toWake'[d] : state'[toWake'[d][i]] # "Runnable"
    <3>1. \A d \in Contexts : \A i \in DOMAIN toWake'[d] : toWake'[d][i] \in Contexts
      BY <1>4
    <3> QED
      BY <1>5, <1>6, <1>8, <3>1 DEF WaiterInv
  <2>3. \A d, e \in Contexts : \A i \in DOMAIN toWake'[d], j \in DOMAIN toWake'[e] :
           toWake'[d][i] = toWake'[e][j] => d = e /\ i = j
    <3> SUFFICES ASSUME NEW d \in Contexts, NEW e \in Contexts,
                        NEW i \in DOMAIN toWake'[d], NEW j \in DOMAIN toWake'[e],
                        toWake'[d][i] = toWake'[e][j]
                 PROVE  d = e /\ i = j
      OBVIOUS
    <3>1. PICK k \in DOMAIN toWake[d] : /\ toWake'[d][i] = toWake[d][k]
                                        /\ d = c => k = i + 1
                                        /\ d # c => k = i
      BY <1>5
    <3>2. PICK l \in DOMAIN toWake[e] : /\ toWake'[e][j] = toWake[e][l]
                                        /\ e = c => l = j + 1
                                        /\ e # c => l = j
      BY <1>5
    <3>3. d = e /\ k = l
      <4>1. toWake[d][k] = toWake[e][l]
        BY <3>1, <3>2
      <4> QED
        BY <4>1 DEF WaiterInv
    <3>4. d = c => i \in Nat /\ j \in Nat
      BY <1>1, <1>4, <3>3
    <3> QED
      BY <3>1, <3>2, <3>3, <3>4
  <2>4. \A o \in Owners, d \in Contexts :
           \A i \in DOMAIN gateWaiters'[o], j \in DOMAIN toWake'[d] :
               gateWaiters'[o][i] # toWake'[d][j]
    BY <1>2, <1>5 DEF WaiterInv
  <2>5. \A o, p \in Owners : \A i \in DOMAIN gateWaiters'[o], j \in DOMAIN gateWaiters'[p] :
           gateWaiters'[o][i] = gateWaiters'[p][j] => o = p /\ i = j
    BY <1>2 DEF WaiterInv
  <2> QED
    BY <2>1, <2>2, <2>3, <2>4, <2>5 DEF WaiterInv
<1>16. LeftInv'
  <2>1. \A d \in Contexts : state'[d] # "Runnable" =>
           \/ \E o \in Owners : \E i \in DOMAIN gateWaiters'[o] : gateWaiters'[o][i] = d
           \/ \E e \in Contexts : \E i \in DOMAIN toWake'[e] : toWake'[e][i] = d
    <3> SUFFICES ASSUME NEW d \in Contexts, state'[d] # "Runnable",
                        ~ \E o \in Owners : \E i \in DOMAIN gateWaiters[o] : gateWaiters[o][i] = d
                 PROVE  \E e \in Contexts : \E i \in DOMAIN toWake'[e] : toWake'[e][i] = d
      BY <1>2
    <3>1. d # w /\ state[d] # "Runnable"
      BY <1>8, <1>9
    <3>2. PICK e \in Contexts : \E i \in DOMAIN toWake[e] : toWake[e][i] = d
      BY <3>1 DEF LeftInv
    <3>3. CASE e = c
      <4>1. PICK i \in DOMAIN toWake[c] : toWake[c][i] = d
        BY <3>2, <3>3
      <4>2. i - 1 \in DOMAIN toWake'[c] /\ toWake'[c][i - 1] = d
        BY <3>1, <4>1, <1>1, <1>4
      <4> QED
        BY <4>2
    <3>4. CASE e # c
      BY <3>2, <3>4, <1>4
    <3> QED
      BY <3>3, <3>4
  <2>2. \A d \in Contexts : toWake'[d] # <<>> => pos'[d] \in {"wakeDone", "wakeFail", "dead"}
    BY <1>0, <1>2, <1>4 DEF LeftInv
  <2>3. \A o \in Owners : gateWaiters'[o] # <<>> =>
           \/ phase'[o] = "Initializing"
           \/ \E d \in Contexts : pos'[d] \in {"swapDone", "swapFail"} /\ target'[d] = o
    BY <1>2 DEF LeftInv
  <2> QED
    BY <2>1, <2>2, <2>3 DEF LeftInv
<1> QED
  BY <1>11, <1>12, <1>13, <1>14, <1>15, <1>16

\* A dead context gives back the owners on its stack, and no others.
LEMMA DieStep ==
    ASSUME IndInv, NEW c \in Contexts, Die(c)
    PROVE  IndInv'
<1> DEFINE S == ClaimsOf(c)
<1>0. TypeInv /\ WaiterInv /\ LeftInv
  BY DEF IndInv
<1>1. /\ pos[c] = "thrown" /\ toWake[c] = <<>>
      /\ pos' = [pos EXCEPT ![c] = "dead"]
      /\ target' = [target EXCEPT ![c] = NoTarget]
      /\ running' = [running EXCEPT ![c] = <<>>]
      /\ UNCHANGED <<parkVars, stored, program, failures>>
  BY DEF IndInv, LeftInv, Die, At, GoTo
<1>2. /\ phase' = [o \in Owners |-> IF o \in S THEN "Uninitialized" ELSE phase[o]]
      /\ ownerCtx' = [o \in Owners |-> IF o \in S THEN NoOwnerCtx ELSE ownerCtx[o]]
      /\ gateWaiters' = [o \in Owners |-> IF o \in S THEN <<>> ELSE gateWaiters[o]]
  BY DEF Die
<1>3. PICK f \in WakeOrders(WaiterEntries(S)) : toWake' = [toWake EXCEPT ![c] = InOrder(f)]
  BY DEF Die
<1>4. S \in SUBSET Owners
  BY DEF ClaimsOf
<1>5. \A o \in Owners : o \in S <=> o \in OnStack(c)
  <2>1. \A o \in Owners : ownerCtx[o] = c <=> o \in OnStack(c)
    BY DEF IndInv, StackInv
  <2>2. \A o \in OnStack(c) : o \in Owners => phase[o] = "Initializing"
    BY DEF IndInv, HolderInv, Holds
  <2> QED
    BY <2>1, <2>2 DEF ClaimsOf
<1> HIDE DEF S
<1> DEFINE L == InOrder(f)
<1>6. /\ L \in Seq(Contexts)
      /\ \A k \in DOMAIN L : \E o \in S : \E i \in DOMAIN gateWaiters[o] : L[k] = gateWaiters[o][i]
      /\ \A k, l \in DOMAIN L : L[k] = L[l] => k = l
      /\ \A o \in S : \A i \in DOMAIN gateWaiters[o] : \E k \in DOMAIN L : L[k] = gateWaiters[o][i]
  BY <1>0, <1>3, <1>4, Woken
<1>7. toWake' = [toWake EXCEPT ![c] = L] /\ state' = state
  BY <1>1, <1>3 DEF parkVars
<1> HIDE DEF L
<1>8. /\ gateWaiters' \in [Owners -> Seq(Contexts)]
      /\ toWake' \in [Contexts -> Seq(Contexts)]
      /\ \A o \in S : gateWaiters'[o] = <<>>
      /\ \A o \in Owners \ S : gateWaiters'[o] = gateWaiters[o]
      /\ \A d \in Contexts \ {c} : toWake'[d] = toWake[d]
      /\ WaiterInv'
      /\ \A d \in Contexts : state'[d] # "Runnable" =>
            \/ \E o \in Owners : \E i \in DOMAIN gateWaiters'[o] : gateWaiters'[o][i] = d
            \/ \E e \in Contexts : \E i \in DOMAIN toWake'[e] : toWake'[e][i] = d
  BY ZenonT(60), <1>0, <1>1, <1>2, <1>4, <1>6, <1>7, TakeLists
<1>9. /\ \A d \in Contexts \ {c} : /\ pos'[d] = pos[d] /\ target'[d] = target[d]
                                  /\ running'[d] = running[d]
      /\ pos'[c] = "dead" /\ running'[c] = <<>>
  BY <1>0, <1>1 DEF TypeInv
<1>10. /\ \A o \in S : phase'[o] = "Uninitialized" /\ ownerCtx'[o] = NoOwnerCtx
       /\ \A o \in Owners \ S : phase'[o] = phase[o] /\ ownerCtx'[o] = ownerCtx[o]
  BY <1>2, <1>4
<1>11. OnStack(c)' = {} /\ \A d \in Contexts \ {c} : OnStack(d)' = OnStack(d)
  BY <1>9 DEF OnStack
<1>12. \A d \in Contexts \ {c} : \A o \in S : ~Holds(d, o)
  BY <1>4, <1>5 DEF IndInv, HolderInv, Holds
<1>13. \A d \in Contexts, o \in Owners : Holds(d, o)' <=> Holds(d, o) /\ o \notin S
  <2>1. \A o \in Owners : ~Holds(c, o)'
    BY <1>9, <1>11 DEF Holds
  <2>2. \A o \in Owners : Holds(c, o) => o \in S
    BY <1>1, <1>5 DEF Holds
  <2>3. \A d \in Contexts \ {c}, o \in Owners : Holds(d, o)' <=> Holds(d, o)
    BY <1>9, <1>11 DEF Holds
  <2> QED
    BY <1>12, <2>1, <2>2, <2>3
<1> USE DEF IndInv
<1>14. TypeInv'
  <2>1. /\ phase' \in [Owners -> OwnerPhases]
        /\ ownerCtx' \in [Owners -> Contexts \cup {NoOwnerCtx}]
    BY <1>2 DEF TypeInv, OwnerPhases
  <2>2. running' \in [Contexts -> Seq(Owners)]
    BY <1>1 DEF TypeInv
  <2> QED
    BY <1>1, <1>8, <2>1, <2>2 DEF TypeInv, parkVars
<1>15. WalkInv'
  BY <1>9, <1>11 DEF WalkInv
<1>16. StackInv'
  <2>1. \A d \in Contexts \ {c} : \A o \in Owners : ownerCtx'[o] = d <=> o \in OnStack(d)'
    <3>1. \A d \in Contexts \ {c} : \A o \in S : o \notin OnStack(d)
      BY <1>12 DEF Holds
    <3> QED
      BY <1>10, <1>11, <3>1, StaticInitAssumption DEF StackInv
  <2>2. \A o \in Owners : ownerCtx'[o] # c
    BY <1>5, <1>10, StaticInitAssumption DEF StackInv
  <2>3. \A i, j \in DOMAIN running'[c] : running'[c][i] = running'[c][j] => i = j
    BY <1>9
  <2> QED
    BY <1>9, <1>11, <2>1, <2>2, <2>3 DEF StackInv
<1>17. HolderInv'
  BY <1>10, <1>13 DEF HolderInv
<1>18. StoredInv' /\ ParkInv'
  <2>1. StoredInv'
    BY <1>1, <1>9, <1>10 DEF StoredInv
  <2>2. ParkInv'
    BY <1>1, <1>9 DEF ParkInv, parkVars
  <2> QED
    BY <2>1, <2>2
<1>19. LeftInv'
  <2>1. \A o \in Owners : gateWaiters'[o] # <<>> =>
           \/ phase'[o] = "Initializing"
           \/ \E d \in Contexts : pos'[d] \in {"swapDone", "swapFail"} /\ target'[d] = o
    <3> SUFFICES ASSUME NEW o \in Owners, gateWaiters'[o] # <<>>, phase'[o] # "Initializing"
                 PROVE  \E d \in Contexts : pos'[d] \in {"swapDone", "swapFail"} /\ target'[d] = o
      OBVIOUS
    <3>1. gateWaiters[o] # <<>> /\ phase[o] # "Initializing"
      BY <1>8, <1>10
    <3>2. PICK d \in Contexts : pos[d] \in {"swapDone", "swapFail"} /\ target[d] = o
      BY <3>1 DEF LeftInv
    <3> QED
      BY <1>1, <1>9, <3>2
  <2>2. \A d \in Contexts : toWake'[d] # <<>> => pos'[d] \in {"wakeDone", "wakeFail", "dead"}
    BY <1>8, <1>9 DEF LeftInv
  <2> QED
    BY <1>8, <2>1, <2>2 DEF LeftInv
<1> QED
  BY <1>8, <1>14, <1>15, <1>16, <1>17, <1>18, <1>19

\* Every step of lazy initialization preserves the invariant.
LEMMA NextStep ==
    ASSUME IndInv, [StaticInitNext]_initVars
    PROVE  IndInv'
<1>1. CASE UNCHANGED initVars
  <2> USE <1>1 DEF IndInv, initVars, parkVars, ownerVars, walkVars
  <2>1. TypeInv' /\ WalkInv' /\ StackInv' /\ StoredInv' /\ ParkInv'
    BY DEF TypeInv, WalkInv, StackInv, StoredInv, ParkInv, OnStack
  <2>2. HolderInv' /\ WaiterInv' /\ LeftInv'
    BY DEF HolderInv, WaiterInv, LeftInv, Holds, OnStack
  <2> QED
    BY <2>1, <2>2
<1>2. CASE StaticInitNext
  <2>1. PICK c \in Contexts :
           \/ \E o \in Owners : Use(c, o)
           \/ WalkStep(c)
           \/ Store(c) \/ EndInitializer(c)
           \/ Throw(c) \/ Catch(c) \/ Die(c)
    BY <1>2 DEF StaticInitNext
  <2> QED
    BY <2>1, QuietSteps, ClaimStep, StoreOwnerStep, ParkOnOwnerStep, ParkSteps, StoreStep,
       EndInitializerStep, PublishStep, SwapWaitersStep, WakeWaiterStep, DieStep DEF WalkStep
<1> QED
  BY <1>1, <1>2

LEMMA InitStep ==
    StaticInit => IndInv
<1> SUFFICES ASSUME StaticInit PROVE IndInv
  OBVIOUS
<1> USE DEF StaticInit, ParkInit
<1>1. TypeInv
  BY StaticInitAssumption DEF TypeInv, OwnerPhases
<1>2. \A c \in Contexts : OnStack(c) = {}
  BY DEF OnStack
<1>3. WalkInv /\ StackInv /\ StoredInv /\ ParkInv
  BY <1>2, StaticInitAssumption DEF WalkInv, StackInv, StoredInv, ParkInv
<1>4. HolderInv
  BY <1>2 DEF HolderInv, Holds
<1>5. WaiterInv /\ LeftInv
  BY DEF WaiterInv, LeftInv
<1> QED
  BY <1>1, <1>3, <1>4, <1>5 DEF IndInv

\* The invariant is one of the specification, for every instance of it.
THEOREM IndInvInvariant == StaticInitSpec => []IndInv
BY InitStep, NextStep, PTL DEF StaticInitSpec

\* The initializer of an owner runs on one context at a time and once on its
\* stack, and the phase says so, through failures, retries and deaths.
THEOREM OneInitializerHolds == StaticInitSpec => []OneInitializer
<1>1. IndInv => OneInitializer
  <2> SUFFICES ASSUME IndInv PROVE OneInitializer
    OBVIOUS
  <2>1. StaticInitTypeOK
    <3>1. queued \in [Contexts -> 0 .. 1]
      BY DEF IndInv, TypeInv
    <3> QED
      BY <3>1 DEF IndInv, TypeInv, StaticInitTypeOK
  <2>2. ASSUME NEW o \in Owners
        PROVE  Cardinality({c \in Contexts : Holds(c, o)}) <= 1
    <3> DEFINE H == {c \in Contexts : Holds(c, o)}
    <3>1. IsFiniteSet(H)
      BY ContextsAssumption, FS_Subset
    <3>2. \A x, y \in H : x = y
      BY DEF IndInv, HolderInv
    <3> HIDE DEF H
    <3>3. Cardinality(H) <= 1
      BY <3>1, <3>2, AtMostOne
    <3> QED
      BY <3>3 DEF H
  <2>3. \A o \in Owners : phase[o] = "Initializing" <=> \E c \in Contexts : Holds(c, o)
    BY DEF IndInv, HolderInv
  <2>4. ASSUME NEW o \in Owners, NEW c \in Contexts
        PROVE  Cardinality({i \in DOMAIN running[c] : running[c][i] = o}) <= 1
    <3> DEFINE D == {i \in DOMAIN running[c] : running[c][i] = o}
    <3>1. running[c] \in Seq(Owners)
      BY DEF IndInv, TypeInv
    <3>2. DOMAIN running[c] = 1 .. Len(running[c]) /\ Len(running[c]) \in Nat
      BY <3>1
    <3>3. IsFiniteSet(1 .. Len(running[c])) /\ D \in SUBSET (1 .. Len(running[c]))
      <4>1. D \in SUBSET (1 .. Len(running[c]))
        BY <3>2
      <4>2. 1 \in Int /\ Len(running[c]) \in Int
        BY <3>2
      <4>3. IsFiniteSet(1 .. Len(running[c]))
        BY <4>2, FS_Interval
      <4> QED
        BY <4>1, <4>3
    <3>4. \A x, y \in D : x = y
      BY DEF IndInv, StackInv
    <3> HIDE DEF D
    <3>5. Cardinality(D) <= 1
      BY <3>3, <3>4, FS_Subset, AtMostOne
    <3> QED
      BY <3>5 DEF D
  <2> QED
    BY <2>1, <2>2, <2>3, <2>4 DEF OneInitializer
<1> QED
  BY <1>1, IndInvInvariant, PTL

\* A walk that passes the gate found the owner published and stored, or is
\* inside the context's own initializer of it.
THEOREM PassesAreEarnedHolds == StaticInitSpec => PassesAreEarned
<1> DEFINE Earned ==
      \A c \in Contexts :
          (pos[c] \in {"load", "owner"} /\ pos'[c] = "code") =>
             \/ phase[target[c]] = "Done" /\ stored[target[c]]
             \/ target[c] \in OnStack(c)
<1>1. IndInv /\ [StaticInitNext]_initVars => [Earned]_initVars
  <2> SUFFICES ASSUME IndInv, StaticInitNext, NEW c \in Contexts,
                      pos[c] \in {"load", "owner"}, pos'[c] = "code"
               PROVE  \/ phase[target[c]] = "Done" /\ stored[target[c]]
                      \/ target[c] \in OnStack(c)
    OBVIOUS
  <2>1. /\ pos = [x \in Contexts |-> pos[x]] /\ target[c] \in Owners
        /\ phase[target[c]] \in OwnerPhases
    BY DEF IndInv, TypeInv, WalkInv
  <2>2. PICK d \in Contexts :
           \/ \E o \in Owners : Use(d, o)
           \/ WalkStep(d)
           \/ Store(d) \/ EndInitializer(d)
           \/ Throw(d) \/ Catch(d) \/ Die(d)
    BY DEF StaticInitNext
  <2>3. \E p : pos' = [pos EXCEPT ![d] = p] \/ pos' = pos
    BY <2>2 DEF Use, WalkStep, Store, EndInitializer, Throw, Catch, Die, LoadPhase, LoadOwner,
       Claim, StoreOwner, ParkOnOwner, LandWaiter, ResumeWaiter, Publish, SwapWaiters,
       WakeWaiter, LeaveInitializer, GoTo, WalkFor, walkVars
  <2>4. d = c
    BY <2>1, <2>3
  <2>5. LoadPhase(c) \/ LoadOwner(c)
    <3>1. pos'[c] # pos[c]
      OBVIOUS
    <3>2. ~(WakeWaiter(c) \/ Store(c))
      BY <3>1 DEF WakeWaiter, Store, walkVars
    <3>3. ~(\/ \E o \in Owners : Use(c, o)
            \/ Claim(c) \/ StoreOwner(c) \/ ParkOnOwner(c) \/ LandWaiter(c) \/ ResumeWaiter(c)
            \/ Publish(c) \/ SwapWaiters(c) \/ LeaveInitializer(c)
            \/ EndInitializer(c) \/ Throw(c) \/ Catch(c) \/ Die(c))
      BY DEF Use, Claim, StoreOwner, ParkOnOwner, LandWaiter, ResumeWaiter, Publish,
         SwapWaiters, LeaveInitializer, EndInitializer, Throw, Catch, Die, At
    <3> QED
      BY <2>2, <2>4, <3>2, <3>3 DEF WalkStep
  <2>6. CASE LoadPhase(c)
    <3>1. pos' = [pos EXCEPT ![c] = AfterLoad(target[c])]
      BY <2>6 DEF LoadPhase, GoTo
    <3>2. AfterLoad(target[c]) = "code"
      BY <2>1, <3>1
    <3>3. phase[target[c]] = "Done"
      BY <2>1, <3>2 DEF AfterLoad, OwnerPhases
    <3> QED
      BY <2>1, <3>3 DEF IndInv, StoredInv
  <2>7. CASE LoadOwner(c)
    <3>1. IsReentry(c, target[c])
      BY <2>1, <2>7 DEF LoadOwner, GoTo
    <3> QED
      BY <2>1, <3>1 DEF IsReentry, IndInv, StackInv
  <2> QED
    BY <2>5, <2>6, <2>7
<1> QED
  BY <1>1, IndInvInvariant, PTL DEF StaticInitSpec, PassesAreEarned

\* Nobody parked at a gate is forgotten: it is registered with an owner that
\* is still being initialized or about to give up its list, or in a list that
\* is being woken.  This is the safety half of GateWaitersResume.
THEOREM NoWaiterForgotten == StaticInitSpec => [](LeftInv /\ WaiterInv)
<1>1. IndInv => LeftInv /\ WaiterInv
  BY DEF IndInv
<1> QED
  BY <1>1, IndInvInvariant, PTL
==============================================================================
