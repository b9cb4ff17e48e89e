-------------------------- MODULE VmDispatchProofs ---------------------------
(***************************************************************************)
(* Proofs about the runtime (VmRuntime): the scheduler with locks and      *)
(* semaphores, parked I/O and the debugger.                                *)
(*                                                                         *)
(* IndInv is the inductive invariant.  It says for every carrier which     *)
(* state its context can have at each location, and for every context who  *)
(* is to move it next: the queue, a carrier, the timer heap, the poller, a *)
(* close, or the side table of a lock.  The step lemmas show that every    *)
(* action keeps it, family by family: what an action does to the contexts  *)
(* is one of a few patterns (Wake, Own, a dispatch, a splice, a landing, a *)
(* birth), what it does to the locks one of eight, and everything that is  *)
(* not a lock call stands Apart from the side tables.                      *)
(*                                                                         *)
(* Nested windows may open, park and return on every carrier.  The         *)
(* theorems on IndInv are about behaviours in which none is torn down by   *)
(* an error or the stop (NoTeardown); with programs that open no window    *)
(* (NoWindows) that is every behaviour.                                    *)
(***************************************************************************)
EXTENDS VmRuntime, SequenceLemmas, TLAPS

\* The shape of the carriers' stacks of windows.
StacksTyped ==
    /\ \E S : windows \in [Carriers -> Seq([ctx : S, token : Nat])]
    /\ \A k \in Carriers : Len(windows[k]) <= MaxWindows
    /\ token \in [Carriers -> Nat]
    /\ pinned \in [Contexts -> Nat]

\* A slot's token is that of a window suspended on this carrier, a context's
\* pin that of a suspended window of this context.
TokensInUse ==
    /\ \A k \in Carriers : token[k] # 0 =>
          \E i \in DOMAIN windows[k] : windows[k][i].token = token[k]
    /\ \A c \in Contexts : pinned[c] # 0 =>
          \E k \in Carriers : \E i \in DOMAIN windows[k] :
              windows[k][i].ctx = c /\ windows[k][i].token = pinned[c]

StackInv == StacksTyped /\ TokensInUse

\* The least fresh token is one: there are more numbers in FreshTokens' range
\* than windows that can be open.
LEMMA TokenIsFresh ==
    ASSUME StackInv, NEW k \in Carriers, windows[k] # <<>>
    PROVE  LET t == CHOOSE u \in FreshTokens : \A v \in FreshTokens : u <= v
           IN  t \in FreshTokens /\ t \in Nat \ {0}
<1> DEFINE W == Carriers \X (1 .. MaxWindows)
           n == 2 * MaxWindows * Cardinality(Carriers) + 1
           f == [w \in W |-> windows[w[1]][w[2]].token]
<1>1. PICK S : windows \in [Carriers -> Seq([ctx : S, token : Nat])]
  BY DEF StackInv, StacksTyped
<1>2. MaxWindows \in Nat /\ IsFiniteSet(Carriers) /\ Cardinality(Carriers) \in Nat
  BY ConstantsAssumption, FS_CardinalityType
<1>3. IsFiniteSet(1 .. MaxWindows) /\ Cardinality(1 .. MaxWindows) = MaxWindows
  BY <1>2, FS_Interval
<1>4. IsFiniteSet(W) /\ Cardinality(W) = Cardinality(Carriers) * MaxWindows
  BY <1>2, <1>3, FS_Product
<1>5. n \in Nat /\ Cardinality(W) < n
  <2> DEFINE m == Cardinality(Carriers) * MaxWindows
  <2>1. m \in Nat
    BY <1>2
  <2>2. 2 * MaxWindows * Cardinality(Carriers) = 2 * m
    BY <1>2
  <2> HIDE DEF m
  <2> QED
    BY <1>4, <2>1, <2>2 DEF m
<1>6. PICK t \in 1 .. n : \A w \in W : f[w] # t
  <2> DEFINE V == {f[w] : w \in W}
  <2>1. f \in Surjection(W, V)
    BY DEF Surjection
  <2>2. \E t \in 1 .. n : t \notin V
    <3> HIDE DEF W, V, f, n
    <3> QED BY <1>4, <1>5, <2>1, OneIsUnused
  <2> QED
    BY <2>2
<1>7. \A l \in Carriers : \A i \in DOMAIN windows[l] : windows[l][i].token # t
  <2> SUFFICES ASSUME NEW l \in Carriers, NEW i \in DOMAIN windows[l]
               PROVE  windows[l][i].token # t
    OBVIOUS
  <2>1. windows[l] \in Seq([ctx : S, token : Nat]) /\ Len(windows[l]) <= MaxWindows
    BY <1>1 DEF StackInv, StacksTyped
  <2>2. i \in 1 .. MaxWindows
    BY <1>2, <2>1
  <2>3. <<l, i>> \in W /\ f[<<l, i>>] = windows[l][i].token
    BY <2>2
  <2> QED
    BY <1>6, <2>3
<1>8. /\ \A c \in Contexts : pinned[c] # t
      /\ \A l \in Carriers : token[l] # t
  <2>1. t # 0
    BY <1>5
  <2> QED
    BY <1>7, <2>1 DEF StackInv, TokensInUse
<1>9. FreshTokens \in SUBSET (Nat \ {0}) /\ t \in FreshTokens
  BY <1>2, <1>5, <1>7, <1>8 DEF FreshTokens
<1> HIDE DEF n
<1> QED
  BY <1>9, Least

\* The windows of the other carriers stay, and so does what is below the top
\* of this one's.
LEMMA Opened ==
    ASSUME StackInv, NEW k \in Carriers, OpenWindow(k)
    PROVE  StackInv'
<1>1. PICK S : windows \in [Carriers -> Seq([ctx : S, token : Nat])]
  BY DEF StackInv, StacksTyped
<1> DEFINE R == S \cup {running[k]}
           w == [ctx |-> running[k], token |-> 0]
           q == Append(windows[k], w)
<1>2. /\ windows[k] \in Seq([ctx : R, token : Nat])
      /\ w \in [ctx : R, token : Nat]
      /\ \A l \in Carriers : windows[l] \in Seq([ctx : R, token : Nat])
  <2>1. [ctx : S, token : Nat] \subseteq [ctx : R, token : Nat]
    OBVIOUS
  <2>2. \A l \in Carriers : windows[l] \in Seq([ctx : R, token : Nat])
    <3> SUFFICES ASSUME NEW l \in Carriers PROVE windows[l] \in Seq([ctx : R, token : Nat])
      OBVIOUS
    <3> DEFINE X == [ctx : S, token : Nat]
               Y == [ctx : R, token : Nat]
    <3>1. windows[l] \in Seq(X) /\ X \subseteq Y
      BY <1>1, <2>1
    <3> HIDE DEF X, Y
    <3>2. windows[l] \in Seq(Y)
      BY <3>1
    <3> QED
      BY <3>2 DEF Y
  <2> QED
    BY <2>2
<1>3. /\ q \in Seq([ctx : R, token : Nat]) /\ Len(q) = Len(windows[k]) + 1
      /\ \A i \in DOMAIN windows[k] : i \in DOMAIN q /\ q[i] = windows[k][i]
  <2> HIDE DEF R, w
  <2> QED
    BY <1>2
<1>4. /\ windows' = [windows EXCEPT ![k] = q] /\ token' = token /\ pinned' = pinned
      /\ Len(windows[k]) < MaxWindows
  BY DEF OpenWindow
<1> HIDE DEF q
<1>5. /\ windows' \in [Carriers -> Seq([ctx : R, token : Nat])]
      /\ windows'[k] = q /\ \A l \in Carriers \ {k} : windows'[l] = windows[l]
  BY <1>1, <1>2, <1>3, <1>4
<1>6. Len(q) <= MaxWindows
  BY <1>2, <1>3, <1>4, ConstantsAssumption
<1>7. StacksTyped'
  BY <1>4, <1>5, <1>6 DEF StackInv, StacksTyped
<1>8. \A l \in Carriers : \A i \in DOMAIN windows[l] :
          i \in DOMAIN windows'[l] /\ windows'[l][i] = windows[l][i]
  BY <1>3, <1>5
<1>9. TokensInUse'
  <2>1. ASSUME NEW l \in Carriers, token'[l] # 0
        PROVE  \E i \in DOMAIN windows'[l] : windows'[l][i].token = token'[l]
    BY <1>4, <1>8, <2>1 DEF StackInv, TokensInUse
  <2>2. ASSUME NEW c \in Contexts, pinned'[c] # 0
        PROVE  \E l \in Carriers : \E i \in DOMAIN windows'[l] :
                  windows'[l][i].ctx = c /\ windows'[l][i].token = pinned'[c]
    BY <1>4, <1>8, <2>2 DEF StackInv, TokensInUse
  <2> QED
    BY <2>1, <2>2 DEF TokensInUse
<1> QED
  BY <1>7, <1>9 DEF StackInv

\* A window that parks gets a token of its own.
LEMMA Started ==
    ASSUME StackInv, NEW k \in Carriers, StartPump(k)
    PROVE  /\ StackInv'
           /\ windows[k] # <<>> /\ DOMAIN windows'[k] = DOMAIN windows[k]
           /\ \A l \in Carriers \ {k} : windows'[l] = windows[l] /\ token'[l] = token[l]
           /\ \A i \in DOMAIN windows[k] : i # Len(windows[k]) => windows'[k][i] = windows[k][i]
           /\ windows'[k][Len(windows[k])].token = token'[k] /\ token'[k] \in FreshTokens
           /\ windows'[k][Len(windows[k])].ctx = running[k]
           /\ Len(windows[k]) \in DOMAIN windows[k] /\ token'[k] \in Nat \ {0}
           /\ token'[k] # 0 /\ pinned' = [pinned EXCEPT ![running[k]] = token'[k]]
           /\ windows' = [windows EXCEPT ![k] = [windows[k] EXCEPT ![Len(windows[k])] =
                 [ctx |-> running[k], token |-> token'[k]]]]
<1>1. PICK S : windows \in [Carriers -> Seq([ctx : S, token : Nat])]
  BY DEF StackInv, StacksTyped
<1> DEFINE t == CHOOSE u \in FreshTokens : \A v \in FreshTokens : u <= v
           n == Len(windows[k])
           q == [windows[k] EXCEPT ![n].token = t]
           W == [ctx : S, token : Nat]
<1>2. /\ windows' = [windows EXCEPT ![k] = q]
      /\ token' = [token EXCEPT ![k] = t] /\ pinned' = [pinned EXCEPT ![running[k]] = t]
      /\ windows[k] # <<>> /\ windows[k][n].ctx = running[k] /\ windows[k][n].token = 0
  BY DEF StartPump, InOwnWindow, Top
<1>3. t \in FreshTokens /\ t \in Nat \ {0}
  BY <1>2, TokenIsFresh
<1> HIDE DEF t
<1>4. windows[k] \in Seq(W) /\ n \in Nat /\ n \in 1 .. n /\ DOMAIN windows[k] = 1 .. n
  <2> HIDE DEF W
  <2>1. windows[k] \in Seq(W)
    BY <1>1 DEF W
  <2> QED
    BY <1>2, <2>1
<1>5. /\ windows[k][n] \in W
      /\ [windows[k][n] EXCEPT !.token = t] = [ctx |-> running[k], token |-> t]
  <2>1. windows[k][n] \in W
    <3> HIDE DEF W
    <3> QED BY <1>4
  <2> QED
    BY <1>2, <1>3, <2>1
<1> DEFINE e == [ctx |-> running[k], token |-> t]
<1>6. q = [windows[k] EXCEPT ![n] = e] /\ e \in W
  BY <1>2, <1>3, <1>5
<1> HIDE DEF q
<1>7. /\ q \in Seq(W) /\ DOMAIN q = 1 .. n /\ q[n] = e /\ Len(q) = n
      /\ \A i \in 1 .. n : i # n => q[i] = windows[k][i]
  <2> HIDE DEF W, e
  <2> QED
    BY <1>4, <1>6
<1>71. q[n].token = t /\ q[n].ctx = running[k]
  BY <1>7
<1>8. /\ windows' \in [Carriers -> Seq(W)] /\ windows'[k] = q
      /\ \A l \in Carriers \ {k} : windows'[l] = windows[l]
  BY <1>1, <1>2, <1>7
<1>81. windows' = [windows EXCEPT ![k] = [windows[k] EXCEPT ![n] = [ctx |-> running[k], token |-> t]]]
  BY <1>2, <1>6
<1> HIDE DEF W, e
<1>9. /\ token' \in [Carriers -> Nat] /\ token'[k] = t /\ pinned' \in [Contexts -> Nat]
      /\ \A l \in Carriers \ {k} : token'[l] = token[l]
      /\ \A c \in Contexts \ {running[k]} : pinned'[c] = pinned[c]
      /\ running[k] \in Contexts => pinned'[running[k]] = t
  BY <1>2, <1>3 DEF StackInv, StacksTyped
<1>10. StacksTyped'
  BY <1>7, <1>8, <1>9 DEF W, StackInv, StacksTyped
<1>11. \A l \in Carriers : \A i \in DOMAIN windows[l] :
          i \in DOMAIN windows'[l] /\ (windows[l][i].token # 0 => windows'[l][i] = windows[l][i])
  BY <1>2, <1>4, <1>7, <1>8
<1>12. TokensInUse'
  <2>1. ASSUME NEW l \in Carriers, token'[l] # 0
        PROVE  \E i \in DOMAIN windows'[l] : windows'[l][i].token = token'[l]
    <3>1. CASE l = k
      BY <1>4, <1>7, <1>71, <1>8, <1>9, <3>1
    <3>2. CASE l # k
      <4>1. windows'[l] = windows[l] /\ token'[l] = token[l]
        BY <1>8, <1>9, <3>2
      <4> QED
        BY <2>1, <4>1 DEF StackInv, TokensInUse
    <3> QED
      BY <3>1, <3>2
  <2>2. ASSUME NEW c \in Contexts, pinned'[c] # 0
        PROVE  \E l \in Carriers : \E i \in DOMAIN windows'[l] :
                  windows'[l][i].ctx = c /\ windows'[l][i].token = pinned'[c]
    <3>1. CASE c = running[k]
      <4>1. pinned'[c] = t /\ n \in DOMAIN windows'[k]
        BY <1>4, <1>7, <1>8, <1>9, <3>1
      <4>2. windows'[k][n].ctx = c /\ windows'[k][n].token = t
        BY <1>71, <1>8, <3>1
      <4> QED
        BY <4>1, <4>2
    <3>2. CASE c # running[k]
      BY <1>9, <1>11, <2>2, <3>2 DEF StackInv, TokensInUse
    <3> QED
      BY <3>1, <3>2
  <2> QED
    BY <2>1, <2>2 DEF TokensInUse
<1> QED
  BY <1>2, <1>3, <1>4, <1>7, <1>71, <1>8, <1>81, <1>9, <1>10, <1>12 DEF StackInv

\* A window that ends takes its token and its context's pin with it.
LEMMA Left ==
    ASSUME StackInv, NEW k \in Carriers, LeaveWindow(k)
    PROVE  /\ StackInv'
           /\ Len(windows[k]) \in Nat
           /\ DOMAIN windows'[k] = 1 .. Len(windows[k]) - 1
           /\ \A i \in DOMAIN windows'[k] : i \in DOMAIN windows[k] /\ i < Len(windows[k])
           /\ \A i \in DOMAIN windows'[k] : windows'[k][i] = windows[k][i]
           /\ \A l \in Carriers \ {k} : windows'[l] = windows[l] /\ token'[l] = token[l]
           /\ \A c \in Contexts : pinned'[c] \in {0, pinned[c]}
<1>1. PICK S : windows \in [Carriers -> Seq([ctx : S, token : Nat])]
  BY DEF StackInv, StacksTyped
<1> DEFINE n == Len(windows[k])
           q == SubSeq(windows[k], 1, n - 1)
           W == [ctx : S, token : Nat]
<1>2. /\ windows' = [windows EXCEPT ![k] = q]
      /\ Top(k).token = 0 => token' = token /\ pinned' = pinned
      /\ Top(k).token # 0 => /\ token' = [token EXCEPT ![k] = 0]
                             /\ pinned' = [pinned EXCEPT ![Top(k).ctx] = 0]
  BY DEF LeaveWindow, WithoutTop
<1>3. windows[k] \in Seq(W) /\ n \in Nat /\ DOMAIN windows[k] = 1 .. n
  <2> HIDE DEF W
  <2>1. windows[k] \in Seq(W)
    BY <1>1 DEF W
  <2> QED
    BY <2>1
<1>4. /\ q \in Seq(W) /\ DOMAIN q = 1 .. n - 1 /\ Len(q) <= n
      /\ \A i \in DOMAIN q : i \in DOMAIN windows[k] /\ i < n /\ q[i] = windows[k][i]
  <2> HIDE DEF W
  <2>1. CASE n = 0
    BY <1>3, <2>1
  <2>2. CASE n # 0
    BY <1>3, <2>2
  <2> QED
    BY <2>1, <2>2
<1> HIDE DEF q
<1>5. /\ windows' \in [Carriers -> Seq(W)] /\ windows'[k] = q
      /\ \A l \in Carriers \ {k} : windows'[l] = windows[l]
  BY <1>1, <1>2, <1>4
<1>6. /\ token' \in [Carriers -> Nat] /\ pinned' \in [Contexts -> Nat]
      /\ \A l \in Carriers \ {k} : token'[l] = token[l]
      /\ \A c \in Contexts : pinned'[c] \in {0, pinned[c]}
      /\ Top(k).token = 0 => token'[k] = token[k]
      /\ Top(k).token # 0 => token'[k] = 0 /\ (Top(k).ctx \in Contexts => pinned'[Top(k).ctx] = 0)
  BY <1>2 DEF StackInv, StacksTyped
<1>7. \A l \in Carriers : Len(windows'[l]) <= MaxWindows
  <2>1. Len(q) \in Nat /\ n <= MaxWindows /\ MaxWindows \in Nat
    BY <1>4, ConstantsAssumption DEF StackInv, StacksTyped
  <2>2. Len(q) <= MaxWindows
    BY <1>3, <1>4, <2>1
  <2> QED
    BY <1>5, <2>2 DEF StackInv, StacksTyped
<1>8. StacksTyped'
  BY <1>5, <1>6, <1>7 DEF StacksTyped
<1>9. \A i \in DOMAIN windows[k] : i \in DOMAIN q \/ (i = n /\ windows[k][i] = Top(k))
  BY <1>3, <1>4 DEF Top
<1>10. TokensInUse'
  <2>1. ASSUME NEW l \in Carriers, token'[l] # 0
        PROVE  \E i \in DOMAIN windows'[l] : windows'[l][i].token = token'[l]
    <3>1. CASE l = k
      <4>1. Top(k).token = 0 /\ token'[k] = token[k]
        BY <1>6, <2>1, <3>1
      <4>2. PICK i \in DOMAIN windows[k] : windows[k][i].token = token[k]
        BY <2>1, <3>1, <4>1 DEF StackInv, TokensInUse
      <4>3. i \in DOMAIN q
        BY <1>9, <2>1, <3>1, <4>1, <4>2
      <4> QED
        BY <1>4, <1>5, <3>1, <4>1, <4>2, <4>3
    <3>2. CASE l # k
      BY <1>5, <1>6, <2>1, <3>2 DEF StackInv, TokensInUse
    <3> QED
      BY <3>1, <3>2
  <2>2. ASSUME NEW c \in Contexts, pinned'[c] # 0
        PROVE  \E l \in Carriers : \E i \in DOMAIN windows'[l] :
                  windows'[l][i].ctx = c /\ windows'[l][i].token = pinned'[c]
    <3>1. pinned'[c] = pinned[c]
      BY <1>6, <2>2
    <3>2. PICK l \in Carriers : \E i \in DOMAIN windows[l] :
                  windows[l][i].ctx = c /\ windows[l][i].token = pinned[c]
      BY <2>2, <3>1 DEF StackInv, TokensInUse
    <3>3. PICK i \in DOMAIN windows[l] : windows[l][i].ctx = c /\ windows[l][i].token = pinned[c]
      BY <3>2
    <3>4. CASE l # k
      BY <1>5, <3>1, <3>3, <3>4
    <3>5. CASE l = k
      <4>1. i \in DOMAIN q
        <5> SUFFICES ASSUME windows[k][i] = Top(k) PROVE FALSE
          BY <1>9, <3>3, <3>5
        <5>1. Top(k).token # 0 /\ Top(k).ctx = c
          BY <2>2, <3>1, <3>3, <3>5
        <5> QED
          BY <1>6, <2>2, <5>1
      <4> QED
        BY <1>4, <1>5, <3>1, <3>3, <3>5, <4>1
    <3> QED
      BY <3>4, <3>5
  <2> QED
    BY <2>1, <2>2 DEF TokensInUse
<1> QED
  BY <1>3, <1>4, <1>5, <1>6, <1>8, <1>10 DEF StackInv

pinVars == <<windows, token, pinned>>

\* Only the pump touches the stacks, the tokens and the pins.
LEMMA CarrierKeepsPins ==
    ASSUME NEW k \in Carriers, CarrierStep(k)
    PROVE  UNCHANGED pinVars
<1> USE DEF pinVars, gateVars, pumpVars
<1>1. CASE Launch(k)
  BY <1>1 DEF Launch
<1>2. CASE TakeNext(k)
  BY <1>2 DEF TakeNext
<1>3. CASE StopAtPop(k)
  BY <1>3 DEF StopAtPop
<1>4. CASE ReportDeadlock(k)
  BY <1>4 DEF ReportDeadlock
<1>5. CASE Sleep(k) \/ WaitAtFreezeGate(k) \/ WaitForHeldFocus(k)
  BY <1>5 DEF Sleep, WaitAtFreezeGate, WaitForHeldFocus, WaitAs
<1>6. CASE SleepAgain(k)
  BY <1>6 DEF SleepAgain
<1>7. CASE Splice(k)
  BY <1>7 DEF Splice
<1>8. CASE ParkContextFrames(k)
  BY <1>8 DEF ParkContextFrames
<1>9. CASE DeliverJoinResults(k)
  BY <1>9 DEF DeliverJoinResults
<1>10. CASE WakeAfterFinish(k)
  BY <1>10 DEF WakeAfterFinish
<1>11. CASE WakeAfterFailure(k)
  BY <1>11 DEF WakeAfterFailure
<1>12. CASE ShutdownInNative(k)
  BY <1>12 DEF ShutdownInNative
<1>13. CASE LeaveAuxiliary(k)
  BY <1>13 DEF LeaveAuxiliary
<1> QED
  BY <1>1, <1>2, <1>3, <1>4, <1>5, <1>6, <1>7, <1>8, <1>9, <1>10, <1>11, <1>12, <1>13
     DEF CarrierStep

\* Nor does the program the carrier runs ...
LEMMA ProgramKeepsPins ==
    ASSUME NEW k \in Carriers, ProgramStep(k)
    PROVE  UNCHANGED pinVars
<1> USE DEF pinVars, gateVars, pumpVars
<1>1. CASE Yield(k) \/ Preempt(k)
  BY <1>1 DEF Yield, Preempt
<1>2. CASE Spawn(k)
  BY <1>2 DEF Spawn
<1>3. CASE NewPromise(k)
  BY <1>3 DEF NewPromise
<1>4. CASE ParkForTimer(k)
  BY <1>4 DEF ParkForTimer
<1>5. ASSUME NEW t \in Contexts, NEW b \in BOOLEAN, ParkForJoin(k, t, b) PROVE UNCHANGED pinVars
  BY <1>5 DEF ParkForJoin
<1>6. ASSUME NEW T, ParkForJoinAny(k, T) PROVE UNCHANGED pinVars
  BY <1>6 DEF ParkForJoinAny
<1>7. ASSUME NEW t \in Contexts, ObserveFailure(k, t) PROVE UNCHANGED pinVars
  BY <1>7 DEF ObserveFailure
<1>8. ASSUME NEW t \in Contexts, NEW b \in BOOLEAN, Complete(k, t, b) PROVE UNCHANGED pinVars
  BY <1>8 DEF Complete
<1>9. CASE Finish(k)
  BY <1>9 DEF Finish
<1>10. CASE Fail(k)
  BY <1>10 DEF Fail
<1>11. CASE Fatal(k)
  BY <1>11 DEF Fatal
<1>12. CASE EnterNative(k)
  BY <1>12 DEF EnterNative
<1>13. CASE ReturnFromNative(k)
  BY <1>13 DEF ReturnFromNative
<1>14. CASE ServiceDueTimers(k)
  BY <1>14 DEF ServiceDueTimers
<1> QED
  BY <1>1, <1>2, <1>3, <1>4, <1>5, <1>6, <1>7, <1>8, <1>9, <1>10, <1>11, <1>12, <1>13, <1>14
     DEF ProgramStep

\* ... the locks, parked I/O, the debugger or the helper threads.
LEMMA OthersKeepPins ==
    ASSUME \/ \E k \in Carriers : SyncStep(k) \/ IoStep(k) \/ DebugStep(k)
           \/ PollerStep \/ TimerExpire \/ TimerNotify \/ LeavePrimary \/ JoinAndCollect
    PROVE  UNCHANGED pinVars
<1> USE DEF pinVars, gateVars, pumpVars
<1>1. ASSUME NEW k \in Carriers, SyncStep(k) PROVE UNCHANGED pinVars
  <2> USE DEF SchedulerUnchanged
  <2>1. ASSUME NEW l, TakeLock(k, l) \/ ReenterLock(k, l) \/ WaitForLock(k, l) \/ Unlock(k, l)
        PROVE  UNCHANGED pinVars
    BY <2>1 DEF TakeLock, ReenterLock, WaitForLock, Unlock
  <2>2. ASSUME NEW s, TakePermit(k, s) \/ WaitForPermit(k, s) \/ Release(k, s)
        PROVE  UNCHANGED pinVars
    BY <2>2 DEF TakePermit, WaitForPermit, Release
  <2>3. CASE Migrate(k) \/ Recheck(k) \/ AbortPark(k) \/ WakeNewOwner(k)
    BY <2>3 DEF Migrate, Recheck, AbortPark, WakeNewOwner
  <2> QED
    BY <1>1, <2>1, <2>2, <2>3 DEF SyncStep
<1>2. ASSUME NEW k \in Carriers, IoStep(k) PROVE UNCHANGED pinVars
  <2>1. CASE RetryIo(k) \/ ParkForIo(k) \/ FinishParkedNative(k)
    BY <2>1 DEF RetryIo, ParkForIo, FinishParkedNative
  <2>2. ASSUME NEW ids, CloseFd(k, ids) PROVE UNCHANGED pinVars
    BY <2>2 DEF CloseFd
  <2>3. ASSUME NEW c, WakeClosed(k, c) PROVE UNCHANGED pinVars
    BY <2>3 DEF WakeClosed
  <2> QED
    BY <1>2, <2>1, <2>2, <2>3 DEF IoStep
<1>3. ASSUME NEW k \in Carriers, DebugStep(k) PROVE UNCHANGED pinVars
  <2> USE DEF VmUnchanged
  <2>1. CASE Checkpoint(k) \/ EnterFreezePark(k) \/ EnqueueFreeze(k) \/ OpenFreezeWindow(k)
    BY <2>1 DEF Checkpoint, EnterFreezePark, EnqueueFreeze, OpenFreezeWindow
  <2>2. ASSUME NEW target, Resume(k, target) PROVE UNCHANGED pinVars
    BY <2>2 DEF Resume
  <2>3. CASE CloseFreezeWindow(k) \/ ExitFreezePark(k) \/ ReadFocus(k) \/ SetDebugFocusContext(k)
    BY <2>3 DEF CloseFreezeWindow, ExitFreezePark, ReadFocus, SetDebugFocusContext
  <2> QED
    BY <1>3, <2>1, <2>2, <2>3 DEF DebugStep
<1>4. ASSUME PollerStep PROVE UNCHANGED pinVars
  <2>1. ASSUME NEW hit, HarvestIoEvents(hit) PROVE UNCHANGED pinVars
    BY <2>1 DEF HarvestIoEvents
  <2>2. CASE PollerStarts \/ PollerNotifies
    BY <2>2 DEF PollerStarts, PollerNotifies
  <2> QED
    BY <1>4, <2>1, <2>2 DEF PollerStep
<1>5. CASE TimerExpire \/ TimerNotify
  BY <1>5 DEF TimerExpire, TimerNotify
<1>6. CASE LeavePrimary \/ JoinAndCollect
  BY <1>6 DEF LeavePrimary, JoinAndCollect
<1> QED
  BY <1>1, <1>2, <1>3, <1>4, <1>5, <1>6

\* What a step of the runtime does to the stacks of windows.
LEMMA PinSteps ==
    ASSUME [RuntimeNext]_runtimeVars
    PROVE  \/ UNCHANGED pinVars
           \/ \E k \in Carriers : OpenWindow(k) \/ StartPump(k) \/ LeaveWindow(k)
<1>1. ASSUME NEW k \in Carriers, PumpStep(k)
      PROVE  UNCHANGED pinVars \/ OpenWindow(k) \/ StartPump(k) \/ LeaveWindow(k)
  <2>1. CASE OpenWindow(k) \/ StartPump(k)
    BY <2>1
  <2>2. CASE CloseWindow(k) \/ UnwindWindow(k)
    BY <2>2 DEF CloseWindow, UnwindWindow
  <2>3. CASE FatalInWindow(k) \/ Perish(k)
    BY <2>3 DEF FatalInWindow, Perish, pinVars, gateVars, pumpVars
  <2> QED
    BY <1>1, <2>1, <2>2, <2>3 DEF PumpStep
<1>2. CASE UNCHANGED runtimeVars \/ Terminated
  BY <1>2 DEF runtimeVars, Terminated, vars, gateVars, pumpVars, pinVars
<1> QED
  BY <1>1, <1>2, CarrierKeepsPins, ProgramKeepsPins, OthersKeepPins DEF RuntimeNext, Next

(***************************************************************************)
(* In every behaviour of the runtime, with any number of nested windows    *)
(* and through every teardown: a slot's token and a context's pin are      *)
(* those of a window that is still suspended.  PumpPinScope leaves no pin  *)
(* behind, whichever way its window ends.                                  *)
(***************************************************************************)
THEOREM NoStalePin == RuntimeSpec => []StackInv
<1>1. RuntimeInit => StackInv
  <2> SUFFICES ASSUME RuntimeInit PROVE StackInv
    OBVIOUS
  <2>1. /\ windows = [k \in Carriers |-> <<>>] /\ token = [k \in Carriers |-> 0]
        /\ pinned = [c \in Contexts |-> 0]
    BY DEF RuntimeInit, Init
  <2>2. /\ windows \in [Carriers -> Seq([ctx : {}, token : Nat])]
        /\ \A k \in Carriers : Len(windows[k]) <= MaxWindows
    BY <2>1, ConstantsAssumption
  <2> QED
    BY <2>1, <2>2 DEF StackInv, StacksTyped, TokensInUse
<1>2. ASSUME StackInv, UNCHANGED pinVars PROVE StackInv'
  BY <1>2 DEF pinVars, StackInv, StacksTyped, TokensInUse
<1>3. StackInv /\ [RuntimeNext]_runtimeVars => StackInv'
  BY <1>2, PinSteps, Opened, Started, Left
<1> QED
  BY <1>1, <1>3, PTL DEF RuntimeSpec

\* A carrier has at most one suspended window: a nested pump serves no
\* context that would park inside a window of its own.
OneSuspendedEach == \A k \in Carriers : \A i, j \in Suspended(k) : i = j

\* The slot of a carrier has the token of its suspended window.
SlotInv == \A k \in Carriers : \A i \in Suspended(k) : windows[k][i].token = token[k]

\* Then a pump that ends has no pump below it whose token it would clear.
LEMMA SlotKept ==
    ASSUME StackInv, SlotInv, OneSuspendedEach, OneSuspendedEach', [RuntimeNext]_runtimeVars
    PROVE  SlotInv'
<1>1. CASE UNCHANGED pinVars
  BY <1>1 DEF pinVars, SlotInv, Suspended
<1>2. ASSUME NEW k \in Carriers, OpenWindow(k) PROVE SlotInv'
  <2>1. PICK S : windows \in [Carriers -> Seq([ctx : S, token : Nat])]
    BY DEF StackInv, StacksTyped
  <2> DEFINE w == [ctx |-> running[k], token |-> 0]
             q == windows[k]
  <2>2. windows' = [windows EXCEPT ![k] = Append(q, w)] /\ token' = token
    BY <1>2 DEF OpenWindow
  <2>3. /\ DOMAIN q = 1 .. Len(q) /\ DOMAIN Append(q, w) = 1 .. Len(q) + 1 /\ Len(q) \in Nat
        /\ \A i \in 1 .. Len(q) : Append(q, w)[i] = q[i]
        /\ Append(q, w)[Len(q) + 1] = w
    <3> DEFINE X == [ctx : S \cup {running[k]}, token : Nat]
               Y == [ctx : S, token : Nat]
    <3>1. q \in Seq(Y) /\ w \in X /\ Y \subseteq X
      BY <2>1
    <3> HIDE DEF X, Y, w, q
    <3>2. q \in Seq(X)
      BY <3>1
    <3> QED
      BY <3>1, <3>2
  <2>4. /\ windows'[k] = Append(q, w) /\ \A l \in Carriers \ {k} : windows'[l] = windows[l]
    BY <2>1, <2>2
  <2> SUFFICES ASSUME NEW l \in Carriers, NEW i \in DOMAIN windows'[l],
                      windows'[l][i].token # 0
               PROVE  windows'[l][i].token = token'[l]
    BY DEF SlotInv, Suspended
  <2>5. CASE l # k
    BY <2>2, <2>4, <2>5 DEF SlotInv, Suspended
  <2>6. CASE l = k
    <3>1. w.token = 0 /\ i \in 1 .. Len(q) + 1
      BY <2>3, <2>4, <2>6
    <3> HIDE DEF w
    <3>2. i \in 1 .. Len(q) /\ windows'[k][i] = windows[k][i]
      BY <2>3, <2>4, <2>6, <3>1
    <3> QED
      BY <2>2, <2>3, <2>6, <3>2 DEF SlotInv, Suspended
  <2> QED
    BY <2>5, <2>6
<1>3. ASSUME NEW k \in Carriers, StartPump(k) PROVE SlotInv'
  <2> SUFFICES ASSUME NEW l \in Carriers, NEW i \in DOMAIN windows'[l],
                      windows'[l][i].token # 0
               PROVE  windows'[l][i].token = token'[l]
    BY DEF SlotInv, Suspended
  <2>1. CASE l # k
    <3>1. windows'[l] = windows[l] /\ token'[l] = token[l]
      BY <1>3, <2>1, Started
    <3> QED
      BY <3>1 DEF SlotInv, Suspended
  <2>2. CASE l = k
    <3>1. i \in Suspended(k)' /\ Len(windows[k]) \in Suspended(k)'
      BY <1>3, <2>2, Started DEF Suspended
    <3>2. i = Len(windows[k])
      BY <3>1 DEF OneSuspendedEach
    <3> QED
      BY <1>3, <2>2, <3>2, Started
  <2> QED
    BY <2>1, <2>2
<1>4. ASSUME NEW k \in Carriers, LeaveWindow(k) PROVE SlotInv'
  <2> SUFFICES ASSUME NEW l \in Carriers, NEW i \in DOMAIN windows'[l],
                      windows'[l][i].token # 0
               PROVE  windows'[l][i].token = token'[l]
    BY DEF SlotInv, Suspended
  <2>1. CASE l # k
    BY <1>4, <2>1, Left DEF SlotInv, Suspended
  <2>2. CASE l = k
    <3>1. i \in DOMAIN windows[k] /\ i < Len(windows[k]) /\ windows'[k][i] = windows[k][i]
          /\ Len(windows[k]) \in Nat /\ DOMAIN windows'[k] = 1 .. Len(windows[k]) - 1
      BY <1>4, <2>2, Left
    <3>2. i \in Suspended(k)
      BY <2>2, <3>1 DEF Suspended
    <3>3. Top(k).token = 0
      <4>1. DOMAIN windows[k] = 1 .. Len(windows[k])
        BY DEF StackInv, StacksTyped
      <4>2. Len(windows[k]) \in DOMAIN windows[k]
        BY <2>2, <3>1, <4>1
      <4>3. Top(k).token # 0 => Len(windows[k]) \in Suspended(k)
        BY <4>2 DEF Suspended, Top
      <4>4. i # Len(windows[k])
        BY <2>2, <3>1, <4>1
      <4> QED
        BY <3>2, <4>3, <4>4 DEF OneSuspendedEach
    <3>4. token' = token
      BY <1>4, <3>3 DEF LeaveWindow
    <3> QED
      BY <2>2, <3>1, <3>2, <3>4 DEF SlotInv
  <2> QED
    BY <2>1, <2>2
<1> QED
  BY <1>1, <1>2, <1>3, <1>4, PinSteps

(***************************************************************************)
(* PinnedIsServed, for every number of carriers, contexts and windows, in  *)
(* every behaviour in which no carrier has two suspended windows at a      *)
(* time: a wake of a pinned context finds the carrier that may pop it      *)
(* (PumpPinScope, HasPopableEntry).  A stop or an error may tear windows   *)
(* down in between.  With two suspended windows on one carrier it is false:*)
(* the inner scope clears the slot the outer one still needs.  The code    *)
(* lets pumps nest, so the hypothesis is one on the program.               *)
(***************************************************************************)
THEOREM PinnedIsServedHolds == RuntimeSpec /\ []OneSuspendedEach => []PinnedIsServed
<1>1. RuntimeInit => SlotInv
  BY DEF RuntimeInit, Init, SlotInv, Suspended
<1>2. StackInv /\ SlotInv /\ OneSuspendedEach /\ OneSuspendedEach' /\ [RuntimeNext]_runtimeVars
         => SlotInv'
  BY SlotKept
<1>3. StackInv /\ SlotInv => PinnedIsServed
  BY DEF StackInv, TokensInUse, SlotInv, Suspended, PinnedIsServed
<1> QED
  BY <1>1, <1>2, <1>3, NoStalePin, PTL DEF RuntimeSpec

-----------------------------------------------------------------------------
\* Where an error or the stop unwinds a nested window.
Torn == {"abandon", "shutdown", "perish"}

\* No window is being torn down: every window that was opened is still open or
\* has returned.
NoTeardown == \A k \in Carriers : pc[k] \notin Torn

\* Carrier k is in the fast path of a window, one that has not parked.
Nested(k) == windows[k] # <<>> /\ Top(k).token = 0

\* Where the context of a carrier is on its stack or in a native.
InHand == {"run", "unwind", "native", "sync", "ioparked", "ioclose", "debug"}

\* The fast path of a window belongs to the context that runs; on top of it
\* only this context opens another one.
NestInv ==
    \A k \in Carriers :
        /\ Nested(k) => pc[k] \in InHand /\ InOwnWindow(k)
        /\ \A i \in 1 .. Len(windows[k]) - 1 :
              windows[k][i].token = 0 => windows[k][i + 1].ctx = windows[k][i].ctx

\* The suspended windows, as the pairs of a carrier and a depth.
Suspensions == {w \in Carriers \X (1 .. MaxWindows) :
                   /\ w[2] \in DOMAIN windows[w[1]]
                   /\ windows[w[1]][w[2]].token # 0}

\* m_activePumpCount counts these windows.
PumpsCounted == pumpCount = Cardinality(Suspensions)

PumpInv == wrecked = {} /\ NoTeardown /\ NestInv /\ PumpsCounted

\* The type invariants of the composed modules, as one.
Types ==
    /\ TypeOK
    /\ SyncTypeOK
    /\ DebugTypeOK
    /\ closing \in [Carriers -> SUBSET Contexts]

\* Where a carrier has no context, and where it has one.
Free == {"off", "pop", "idle", "focuswait", "freezewait", "deadlock"}
Busy == {"splice", "run", "unwind", "native", "finish", "wake", "failwake",
         "sync", "ioparked", "ioclose", "debug"}

\* What holds of the context of carrier k when k is at l: whether it has
\* one, that its frames have not landed (unless it was just dispatched), and
\* in which state its context can be.
CarrierAt(k, l) ==
    /\ l \in Free => running[k] = NoContext
    /\ l \in Busy => running[k] # NoContext
    /\ running[k] # NoContext =>
          /\ l # "splice" => ~framesParked[running[k]]
          /\ l \in {"splice", "run", "ioclose", "debug"} => state[running[k]] = "Runnable"
          /\ l = "unwind" => state[running[k]] \in Parked \cup {"Runnable"}
          /\ l = "native" => state[running[k]] = "BlockedNative"
          /\ l \in {"finish", "wake"} => state[running[k]] = "Finished"
          /\ l \in {"failwake", "raise"} => state[running[k]] = "Failed"
          /\ l = "sync" => state[running[k]] \in {"Runnable", "ParkedMutex", "ParkedSemaphore"}
          /\ l = "ioparked" => state[running[k]] \in {"Runnable", "ParkedIo"}
          /\ l = "leave" => state[running[k]] \in {"Runnable", "ParkedIo", "BlockedNative"}
          /\ l \in {"join", "exited"} =>
                state[running[k]] \in {"Runnable", "ParkedIo", "BlockedNative", "Failed"}

CarrierInv == \A k \in Carriers : CarrierAt(k, pc[k])

\* Which carriers can be where: sleepers are in a wait, nobody leaves before
\* the stop, only configured carriers run, a finished main has stopped the run.
PlaceInv ==
    \A k \in Carriers :
        /\ k \in asleep => pc[k] \in Waits
        /\ pc[k] \in {"leave", "join", "exited"} => stopRequested
        /\ pc[k] # "off" => k \in program.carriers
        /\ pc[k] = "join" => k = Primary
        /\ pc[k] \in {"finish", "wake"} /\ running[k] = Main => stopRequested
        /\ pc[k] = "debug" <=> stage[k] # "none"

\* No two carriers have the same context.
CarriedOnce ==
    \A k, l \in Carriers : running[k] = running[l] /\ running[k] # NoContext => k = l

Carried(c) == \E k \in Carriers : running[k] = c

\* Every queue entry is Runnable, has its frames, and is on no carrier.
QueueInv ==
    /\ Distinct(runQueue)
    /\ \A c \in Contexts : Occurs(c, runQueue) =>
          /\ state[c] = "Runnable"
          /\ frames[c] = "context" \/ c = Main
          /\ ~Carried(c)

\* Nobody is lost: a Runnable context is queued or carried, a parked one has
\* landed or is carried, and only a carrier keeps a context in a native.
RestInv ==
    \A c \in Contexts :
        /\ state[c] = "Runnable" => Occurs(c, runQueue) \/ Carried(c)
        /\ state[c] \in Parked => framesParked[c] \/ Carried(c)
        /\ state[c] = "BlockedNative" => Carried(c)
        /\ state[c] = "Unborn" <=> c >= nextId
        /\ framesParked[c] => frames[c] = "context"

\* The timer heap holds the sleepers and nobody else.
TimerInv == \A c \in Contexts : c \in timers <=> state[c] = "ParkedTimer"

\* A context waits for I/O if and only if one party is to wake it.
IoInv ==
    /\ \A c \in Contexts : state[c] = "ParkedIo" <=>
          c \in ioWaits \/ \E k \in Carriers : c \in closing[k]
    /\ \A k \in Carriers : /\ closing[k] # {} => pc[k] = "ioclose"
                           /\ closing[k] \cap ioWaits = {}
                           /\ \A l \in Carriers \ {k} : closing[k] \cap closing[l] = {}

\* The stages of a checkpoint that count in the freeze depth.
FreezeAt == {"enqueue", "await", "window", "close", "exit"}
InFlight == Locations \ {"off", "exited"}
\* The counters, as numbers of carriers; a stop may leave a native counted.
CountInv ==
    /\ idleCount = Number(Carriers, pc, CountsAsIdle)
    /\ activeCount = Number(Carriers, pc, InFlight)
    /\ blockedCount >= Number(Carriers, pc, {"native"})
    /\ ~stopRequested => blockedCount = Number(Carriers, pc, {"native"})
    /\ freezeDepth = Number(Carriers, stage, FreezeAt)

\* The side table of p has an entry of context c in phase ph.
Entry(p, c, ph) ==
    \E i \in DOMAIN waiters[p] : waiters[p][i].ctx = c /\ waiters[p][i].phase = ph

\* What holds at each section of a lock call of carrier k: its own entry is in
\* the table while it parks, and the context it hands over to has left the
\* table, is parked, and is on no carrier that could still look at it.
CallAt(k) ==
    /\ pc[k] = "sync" <=> call[k].stage # "none"
    /\ call[k].stage \in {"migrate", "recheck"} =>
          Entry(call[k].on, running[k], "Pending") \/ Entry(call[k].on, running[k], "Acquired")
    /\ call[k].stage \in {"migrate", "handoff"} => state[running[k]] = "Runnable"
    /\ call[k].stage = "recheck" => state[running[k]] = ParkedOn(call[k].on)
    /\ call[k].stage = "abort" => state[running[k]] \in {"ParkedMutex", "ParkedSemaphore"}
    /\ call[k].stage = "handoff" =>
          /\ call[k].to \in Contexts
          /\ state[call[k].to] \in {"ParkedMutex", "ParkedSemaphore"}
          /\ \A l \in Carriers : running[l] = call[k].to => pc[l] = "unwind"

CallInv == \A k \in Carriers : CallAt(k)

\* A context is handed a grant by at most one carrier, and one that is being
\* handed a grant, or takes back its park, is in no table any more.
HandedOnce ==
    /\ \A k, l \in Carriers :
          call[k].stage = "handoff" /\ call[l].stage = "handoff" /\ call[k].to = call[l].to => k = l
    /\ \A k \in Carriers : \A p \in Primitives, ph \in Phases :
          /\ call[k].stage = "handoff" => ~Entry(p, call[k].to, ph)
          /\ call[k].stage = "abort" => ~Entry(p, running[k], ph)

\* A context has at most one entry in all the side tables together.
OneEntry ==
    \A p, q \in Primitives : \A i \in DOMAIN waiters[p], j \in DOMAIN waiters[q] :
        waiters[p][i].ctx = waiters[q][j].ctx => p = q /\ i = j

\* A Pending or stamped entry belongs to the call of a carrier, a Committed
\* one to a parked context.
EntryInv ==
    \A p \in Primitives, c \in Contexts :
        /\ Entry(p, c, "Pending") \/ Entry(p, c, "Acquired") =>
              \E k \in Carriers : /\ running[k] = c
                                  /\ call[k].stage \in {"migrate", "recheck"}
                                  /\ call[k].on = p
        /\ Entry(p, c, "Committed") =>
              /\ state[c] = ParkedOn(p)
              /\ \A k \in Carriers : running[k] = c => pc[k] = "unwind"

\* A context parked on a lock has an entry, or is about to undo the park, or
\* is about to be woken.
GrantInv ==
    \A c \in Contexts : state[c] \in {"ParkedMutex", "ParkedSemaphore"} =>
        \/ \E p \in Primitives, ph \in Phases : Entry(p, c, ph)
        \/ \E k \in Carriers : call[k].stage = "abort" /\ running[k] = c
        \/ \E k \in Carriers : call[k].stage = "handoff" /\ call[k].to = c

SyncInv == CallInv /\ HandedOnce /\ OneEntry /\ EntryInv /\ GrantInv

\* The inductive invariant.
IndInv ==
    /\ Types /\ PumpInv /\ PlaceInv /\ CountInv
    /\ CarrierInv /\ CarriedOnce /\ QueueInv /\ RestInv
    /\ TimerInv /\ IoInv /\ SyncInv

-----------------------------------------------------------------------------
USE DEF contextVars, queueVars, carrierVars, countVars, hostVars, pumpVars,
        ioVars, gateVars

\* Carrier k moves to l and to stage s, and the counters follow.
Tally(k, l, s) ==
    /\ pc' = [pc EXCEPT ![k] = l]
    /\ stage' = [stage EXCEPT ![k] = s]
    /\ idleCount' = idleCount + Is(l, CountsAsIdle) - Is(pc[k], CountsAsIdle)
    /\ activeCount' = activeCount + Is(l, InFlight) - Is(pc[k], InFlight)
    /\ \/ blockedCount' = blockedCount + Is(l, {"native"}) - Is(pc[k], {"native"})
       \/ blockedCount' = blockedCount /\ pc[k] = "native" /\ stopRequested
    /\ freezeDepth' = freezeDepth + Is(s, FreezeAt) - Is(stage[k], FreezeAt)
    /\ stopRequested => stopRequested'

CountersNat == /\ idleCount \in Nat
               /\ activeCount \in Nat
               /\ blockedCount \in Nat
               /\ freezeDepth \in Nat

\* The counters follow every move of a carrier: CountInv is kept.
LEMMA Counted ==
    ASSUME IndInv, NEW k \in Carriers, NEW l \in Locations, NEW s \in Sections,
           Tally(k, l, s)
    PROVE  CountInv' /\ CountersNat'
<1>1. /\ pc \in [Carriers -> Locations] /\ stage \in [Carriers -> Sections]
      /\ idleCount \in Nat /\ activeCount \in Nat /\ blockedCount \in Nat
      /\ freezeDepth \in Nat /\ IsFiniteSet(Carriers) /\ CountInv
      /\ stopRequested \in BOOLEAN
  BY ConstantsAssumption DEF IndInv, Types, TypeOK, DebugTypeOK
<1>2. pc = [x \in Carriers |-> pc[x]] /\ stage = [x \in Carriers |-> stage[x]]
  BY <1>1
<1>3. /\ pc' = [pc EXCEPT ![k] = l]
      /\ stage' = [stage EXCEPT ![k] = s]
  BY DEF Tally
<1>4. ASSUME NEW L
      PROVE  /\ Number(Carriers, pc, L) \in Nat /\ Number(Carriers, pc', L) \in Nat
             /\ Number(Carriers, pc', L) = Number(Carriers, pc, L) + Is(l, L) - Is(pc[k], L)
             /\ Is(l, L) \in {0, 1} /\ Is(pc[k], L) \in {0, 1}
  BY <1>1, <1>2, <1>3, Recount
<1>5. /\ Number(Carriers, stage, FreezeAt) \in Nat
      /\ Is(s, FreezeAt) \in {0, 1} /\ Is(stage[k], FreezeAt) \in {0, 1}
      /\ Number(Carriers, stage', FreezeAt) \in Nat
      /\ Number(Carriers, stage', FreezeAt) =
            Number(Carriers, stage, FreezeAt) + Is(s, FreezeAt) - Is(stage[k], FreezeAt)
  BY <1>1, <1>2, <1>3, Recount
<1>6. idleCount' = Number(Carriers, pc', CountsAsIdle) /\ idleCount' \in Nat
  BY <1>1, <1>4 DEF CountInv, Tally
<1>7. activeCount' = Number(Carriers, pc', InFlight) /\ activeCount' \in Nat
  BY <1>1, <1>4 DEF CountInv, Tally
<1>8. freezeDepth' = Number(Carriers, stage', FreezeAt) /\ freezeDepth' \in Nat
  BY <1>1, <1>5 DEF CountInv, Tally
<1>9. /\ blockedCount' >= Number(Carriers, pc', {"native"}) /\ blockedCount' \in Nat
      /\ ~stopRequested' => blockedCount' = Number(Carriers, pc', {"native"})
  <2> DEFINE m == Number(Carriers, pc, {"native"})
             n == Number(Carriers, pc', {"native"})
  <2>1. /\ m \in Nat /\ n \in Nat
        /\ n = m + Is(l, {"native"}) - Is(pc[k], {"native"})
        /\ Is(l, {"native"}) \in {0, 1} /\ Is(pc[k], {"native"}) \in {0, 1}
        /\ pc[k] = "native" => Is(pc[k], {"native"}) = 1
        /\ blockedCount >= m
        /\ ~stopRequested => blockedCount = m
    BY <1>1, <1>4 DEF CountInv, Is
  <2> HIDE DEF m, n
  <2>2. /\ \/ blockedCount' = blockedCount + Is(l, {"native"}) - Is(pc[k], {"native"})
           \/ blockedCount' = blockedCount /\ pc[k] = "native" /\ stopRequested
        /\ stopRequested => stopRequested'
    BY DEF Tally
  <2>3. blockedCount' >= n /\ blockedCount' \in Nat /\ (~stopRequested' => blockedCount' = n)
    <3>1. blockedCount' >= n /\ blockedCount' \in Nat
      BY <1>1, <2>1, <2>2
    <3>2. ~stopRequested => blockedCount' = n
      BY <1>1, <2>1, <2>2
    <3> QED
      BY <2>2, <3>1, <3>2
  <2> QED
    BY <2>3 DEF n
<1> QED
  BY <1>6, <1>7, <1>8, <1>9 DEF CountInv, CountersNat, CountsAsIdle, InFlight, FreezeAt

\* What the invariant says of one carrier.
LEMMA Here ==
    ASSUME IndInv, NEW k \in Carriers
    PROVE  /\ TypeOK /\ CarrierAt(k, pc[k]) /\ pc[k] \in Locations
           /\ pc[k] \notin Torn /\ (Nested(k) => pc[k] \in InHand /\ InOwnWindow(k))
           /\ pc[k] \in Busy => running[k] \in Contexts
           /\ pc[k] \in Free => running[k] = NoContext
           /\ running[k] \in Contexts \cup {NoContext}
           /\ stage[k] \in Sections
           /\ NoContext \notin Contexts
<1>1. TypeOK /\ DebugTypeOK /\ CarrierInv /\ NoTeardown /\ NestInv
  BY DEF IndInv, Types, PumpInv
<1>2. NoContext \notin Contexts
  BY DEF NoContext, Contexts
<1>3. CarrierAt(k, pc[k]) /\ pc[k] \notin Torn /\ (Nested(k) => pc[k] \in InHand /\ InOwnWindow(k))
  BY <1>1 DEF CarrierInv, NoTeardown, NestInv
<1>4. running[k] \in Contexts \cup {NoContext} /\ pc[k] \in Locations /\ stage[k] \in Sections
  BY <1>1 DEF TypeOK, DebugTypeOK
<1>5. (pc[k] \in Busy => running[k] \in Contexts) /\ (pc[k] \in Free => running[k] = NoContext)
  BY <1>3, <1>4 DEF CarrierAt
<1> QED
  BY <1>1, <1>2, <1>3, <1>4, <1>5

-----------------------------------------------------------------------------
\* Somebody is to wake c from a wait for I/O.
IoDue(c) == c \in ioWaits \/ \E k \in Carriers : c \in closing[k]
dispatchVars == <<state, frames, framesParked, nextId, runQueue, running>>
waitVars == <<timers, ioWaits, closing>>

\* Patterns of what a step does to the contexts.  Nothing ...
Quiet == UNCHANGED <<dispatchVars, waitVars, pc>>

\* ... a carrier goes on to another section ...
Shift(k, l) ==
    /\ pc' = [pc EXCEPT ![k] = l]
    /\ UNCHANGED <<dispatchVars, timers>>
    /\ \A c \in Contexts : IoDue(c)' <=> IoDue(c)
    /\ CarrierAt(k, l)

\* ... a carrier changes the state of its own context ...
Own(k, s, l) ==
    /\ pc[k] \in {"run", "native", "sync"}
    /\ s # "Unborn"
    /\ state[running[k]] \notin {"ParkedTimer", "ParkedIo"}
    /\ pc' = [pc EXCEPT ![k] = l]
    /\ state' = [state EXCEPT ![running[k]] = s]
    /\ frames' = [frames EXCEPT ![running[k]] = frames'[running[k]]]
    /\ UNCHANGED <<framesParked, nextId, runQueue, running>>
    /\ CarrierAt(k, l)'
    /\ \A c \in Contexts :
          /\ c \in timers' <=> c \in timers \/ (c = running[k] /\ s = "ParkedTimer")
          /\ IoDue(c)' <=> IoDue(c) \/ (c = running[k] /\ s = "ParkedIo")

\* ... or parked contexts are woken: those in S become Runnable, those whose
\* frames have landed are queued, and a carrier may drop a decided context.
Wake(S) ==
    /\ \A c \in S : c \in Contexts /\ state[c] \in Parked
    /\ \A c \in Contexts :
          IF c \in S THEN state'[c] = "Runnable"
          ELSE \/ state'[c] = state[c]
               \/ state[c] = "ParkedPromise" /\ state'[c] \in Decided
    /\ Distinct(runQueue')
    /\ \A c \in Contexts : Occurs(c, runQueue') <=> Occurs(c, runQueue) \/ (c \in S /\ framesParked[c])
    /\ UNCHANGED <<frames, framesParked, nextId>>
    /\ \A j \in Carriers :
          \/ pc'[j] = pc[j] /\ running'[j] = running[j]
          \/ /\ CarrierAt(j, pc[j])'
             /\ \/ running'[j] = running[j]
                \/ running'[j] = NoContext /\ state[running[j]] \in Decided
    /\ \A c \in Contexts : /\ c \in timers' <=> c \in timers /\ c \notin S
                           /\ IoDue(c)' <=> IoDue(c) /\ c \notin S

\* A quiet step is a wake of nobody.
LEMMA QuietWakes == ASSUME IndInv, Quiet PROVE Wake({})
BY DEF IndInv, Quiet, Wake, dispatchVars, waitVars, QueueInv, IoDue

\* So is the move of a carrier to another section.
LEMMA ShiftWakes == ASSUME IndInv, NEW k \in Carriers, NEW l, Shift(k, l) PROVE Wake({})
<1>1. TypeOK /\ Distinct(runQueue)
  BY DEF IndInv, Types, QueueInv
<1>2. CarrierAt(k, pc[k])'
  BY <1>1 DEF Shift, CarrierAt, dispatchVars, TypeOK
<1> QED
  BY <1>1, <1>2 DEF Shift, Wake, dispatchVars, TypeOK
-----------------------------------------------------------------------------
\* The part of IoInv that speaks of states.
IoSplit ==
    \A c \in Contexts : state[c] = "ParkedIo" <=> IoDue(c)

\* The part of the invariant that says where every context is.
Resting == /\ CarrierInv /\ CarriedOnce /\ QueueInv /\ RestInv
           /\ TimerInv /\ IoSplit

\* A wake loses nobody and queues nobody twice, landed or not.
LEMMA WakeKeeps ==
    ASSUME IndInv, NEW S, Wake(S)
    PROVE  Resting'
<1>1. /\ TypeOK /\ CarrierInv /\ CarriedOnce /\ QueueInv /\ RestInv /\ TimerInv /\ IoSplit
      /\ \A k \in Carriers : pc[k] \in Locations \ {"abandon", "shutdown", "perish"}
      /\ \A k \in Carriers : running[k] \in Contexts \cup {NoContext}
      /\ \A c \in Contexts : state[c] \in States
      /\ NoContext \notin Contexts
  <2>1. IoSplit /\ NoContext \notin Contexts
    BY DEF IndInv, IoInv, IoSplit, IoDue, NoContext, Contexts
  <2>2. TypeOK /\ CarrierInv /\ CarriedOnce /\ QueueInv /\ RestInv /\ TimerInv /\ NoTeardown
    BY DEF IndInv, Types, PumpInv
  <2> QED
    BY <2>1, <2>2 DEF TypeOK, NoTeardown, Torn
<1>2. CarrierInv'
  <2> SUFFICES ASSUME NEW j \in Carriers PROVE CarrierAt(j, pc[j])'
    BY DEF CarrierInv
  <2>1. CASE pc'[j] = pc[j] /\ running'[j] = running[j]
    <3>1. CarrierAt(j, pc[j]) /\ pc[j] \in Locations \ {"abandon", "shutdown", "perish"}
      BY <1>1 DEF CarrierInv
    <3>2. CASE running[j] = NoContext
      BY <2>1, <3>1, <3>2 DEF CarrierAt
    <3>3. CASE running[j] # NoContext
      <4>1. /\ running[j] \in Contexts /\ framesParked' = framesParked
            /\ \/ state'[running[j]] = state[running[j]]
               \/ state[running[j]] \in Parked /\ state'[running[j]] = "Runnable"
               \/ state[running[j]] = "ParkedPromise"
        BY <1>1, <3>3 DEF Wake
      <4> QED
        BY <2>1, <3>1, <3>3, <4>1 DEF CarrierAt, Locations, Waits, Free, Busy, Parked
    <3> QED
      BY <3>2, <3>3
  <2> QED
    BY <2>1 DEF Wake
<1>3. CarriedOnce'
  BY <1>1 DEF CarriedOnce, Wake
<1>4. \A c \in Contexts : Carried(c)' => Carried(c)
  BY <1>1 DEF Carried, Wake
<1>5. \A c \in Contexts : Carried(c) => Carried(c)' \/ state[c] \in Decided
  BY <1>1 DEF Carried, Wake
<1>6. QueueInv'
  <2> SUFFICES ASSUME NEW c \in Contexts, Occurs(c, runQueue')
               PROVE  /\ state'[c] = "Runnable"
                      /\ frames'[c] = "context" \/ c = Main
                      /\ ~Carried(c)'
    BY DEF QueueInv, Wake
  <2>1. CASE Occurs(c, runQueue)
    BY <1>1, <1>4, <2>1 DEF QueueInv, Wake
  <2>2. CASE c \in S /\ framesParked[c]
    <3>1. ~Carried(c)
      <4> SUFFICES ASSUME NEW k \in Carriers, running[k] = c PROVE FALSE
        BY DEF Carried
      <4>1. pc[k] = "splice"
        BY <1>1, <2>2 DEF CarrierInv, CarrierAt
      <4>2. state[c] = "Runnable"
        BY <1>1, <4>1 DEF CarrierInv, CarrierAt
      <4> QED
        BY <2>2, <4>2 DEF Wake, Parked
    <3> QED
      BY <1>1, <1>4, <2>2, <3>1 DEF RestInv, Wake
  <2> QED
    BY <2>1, <2>2 DEF Wake
<1>7. RestInv'
  <2> SUFFICES ASSUME NEW c \in Contexts
               PROVE  /\ state'[c] = "Runnable" => Occurs(c, runQueue') \/ Carried(c)'
                      /\ state'[c] \in Parked => framesParked'[c] \/ Carried(c)'
                      /\ state'[c] = "BlockedNative" => Carried(c)'
                      /\ state'[c] = "Unborn" <=> c >= nextId'
                      /\ framesParked'[c] => frames'[c] = "context"
    BY DEF RestInv
  <2>1. CASE c \in S
    BY <1>1, <1>5, <2>1 DEF RestInv, Wake, Parked, Decided
  <2>2. CASE c \notin S
    BY <1>1, <1>5, <2>2 DEF RestInv, Wake, Parked, Decided
  <2> QED
    BY <2>1, <2>2
<1>8. TimerInv'
  BY <1>1 DEF TimerInv, Wake, Decided
<1>9. IoSplit'
  BY <1>1 DEF IoSplit, Wake, Decided
<1> QED
  BY <1>2, <1>3, <1>6, <1>7, <1>8, <1>9 DEF Resting

\* Nor does a change of a carrier's own context.
LEMMA OwnKeeps ==
    ASSUME IndInv, NEW k \in Carriers, NEW s \in States, NEW l, Own(k, s, l)
    PROVE  Resting'
<1> DEFINE r == running[k]
<1>1. /\ TypeOK /\ CarrierInv /\ CarriedOnce /\ QueueInv /\ RestInv /\ TimerInv /\ IoSplit
      /\ r \in Contexts /\ Carried(r) /\ ~framesParked[r]
      /\ state[r] \notin {"Unborn", "ParkedTimer", "ParkedIo"}
  BY Here DEF IndInv, Own, IoInv, IoSplit, IoDue, Busy, CarrierAt, Carried
<1>2. /\ state' = [state EXCEPT ![r] = s] /\ pc' = [pc EXCEPT ![k] = l]
      /\ UNCHANGED <<framesParked, nextId, runQueue, running>>
      /\ \A c \in Contexts \ {r} : frames'[c] = frames[c]
      /\ pc \in [Carriers -> Locations] /\ state \in [Contexts -> States]
  BY <1>1 DEF Own, TypeOK
<1>3. \A c \in Contexts : Carried(c)' <=> Carried(c)
  BY <1>2 DEF Carried
<1>4. CarrierInv'
  <2> SUFFICES ASSUME NEW j \in Carriers PROVE CarrierAt(j, pc[j])'
    BY DEF CarrierInv
  <2>1. CASE j = k
    BY <1>2, <2>1 DEF Own, CarrierAt
  <2>2. CASE j # k
    <3>1. pc'[j] = pc[j] /\ running'[j] = running[j] /\ running[j] # r
      BY <1>1, <1>2, <2>2, Here DEF CarriedOnce
    <3>2. running[j] # NoContext => state'[running[j]] = state[running[j]]
      BY <1>2, <3>1, Here
    <3> QED
      BY <1>1, <1>2, <3>1, <3>2 DEF CarrierInv, CarrierAt
  <2> QED
    BY <2>1, <2>2
<1>5. CarriedOnce'
  BY <1>1, <1>2 DEF CarriedOnce
<1>6. QueueInv'
  BY <1>1, <1>2, <1>3 DEF QueueInv
<1>7. RestInv'
  BY <1>1, <1>2, <1>3 DEF RestInv, Own
<1>8. TimerInv' /\ IoSplit'
  BY <1>1, <1>2 DEF TimerInv, IoSplit, Own
<1> QED
  BY <1>4, <1>5, <1>6, <1>7, <1>8 DEF Resting

\* TakeNext: the context leaves the queue for exactly one carrier.
LEMMA TakeKeeps ==
    ASSUME IndInv, NEW k \in Carriers, TakeNext(k), UNCHANGED closing
    PROVE  /\ Resting'
           /\ runQueue' \in Seq(Contexts)
           /\ \E c \in Contexts : /\ Occurs(c, runQueue)
                                 /\ held' = [held EXCEPT ![k] = c]
                                 /\ running' = [running EXCEPT ![k] = c]
                                 /\ lastCarrier' = [lastCarrier EXCEPT ![c] = k]
<1>1. /\ TypeOK /\ CarrierInv /\ CarriedOnce /\ QueueInv /\ RestInv /\ TimerInv /\ IoSplit
      /\ pc \in [Carriers -> Locations] /\ running \in [Carriers -> Contexts \cup {NoContext}]
      /\ runQueue \in Seq(Contexts)
  BY DEF IndInv, Types, TypeOK, IoInv, IoSplit, IoDue
<1>2. PICK i \in DOMAIN runQueue :
         /\ runQueue' = Without(runQueue, i)
         /\ held' = [held EXCEPT ![k] = runQueue[i]]
         /\ running' = [running EXCEPT ![k] = runQueue[i]]
         /\ lastCarrier' = [lastCarrier EXCEPT ![runQueue[i]] = k]
  <2> DEFINE i == CHOOSE j \in Choices(k) : \A l \in Choices(k) : j <= l
  <2>1. /\ Choices(k) \subseteq DOMAIN runQueue /\ Choices(k) # {}
        /\ DOMAIN runQueue \subseteq Nat
    BY <1>1 DEF Choices, Affine, Popable, TakeNext
  <2>2. i \in Choices(k)
    <3> DEFINE C == Choices(k)
    <3>1. C \in SUBSET Nat /\ C # {}
      BY <2>1
    <3> HIDE DEF C
    <3>2. (CHOOSE j \in C : \A l \in C : j <= l) \in C
      BY <3>1, Least
    <3> QED
      BY <3>2 DEF C
  <2> QED
    BY <2>1, <2>2 DEF TakeNext
<1> DEFINE c == runQueue[i]
<1>3. /\ pc' = [pc EXCEPT ![k] = "splice"] /\ running[k] = NoContext
      /\ UNCHANGED <<state, frames, framesParked, nextId, timers, ioWaits>>
  BY Here DEF TakeNext, PassesFreeze, InPop, At, Waits, Free, Go
<1>4. c \in Contexts /\ Occurs(c, runQueue)
  BY <1>1 DEF Occurs
<1>5. state[c] = "Runnable" /\ (frames[c] = "context" \/ c = Main) /\ ~Carried(c)
  BY <1>1, <1>4 DEF QueueInv
<1>6. /\ runQueue' \in Seq(Contexts)
      /\ \A d : Occurs(d, runQueue') => Occurs(d, runQueue)
      /\ \A d : Occurs(d, runQueue) => Occurs(d, runQueue') \/ d = c
      /\ Distinct(runQueue') /\ ~Occurs(c, runQueue')
  <2>1. Distinct(runQueue) /\ runQueue' = Skipping(runQueue, i) /\ runQueue \in Seq(Contexts)
    BY <1>1, <1>2 DEF QueueInv, Without, Skipping
  <2> QED
    BY <2>1, OneLess
<1> HIDE DEF c
<1>7. /\ running' = [running EXCEPT ![k] = c]
      /\ held' = [held EXCEPT ![k] = c]
      /\ lastCarrier' = [lastCarrier EXCEPT ![c] = k]
  BY <1>2 DEF c
<1>8. \A d \in Contexts : Carried(d)' <=> Carried(d) \/ d = c
  BY <1>1, <1>3, <1>4, <1>7 DEF Carried, NoContext, Contexts
<1>9. CarrierInv'
  <2> SUFFICES ASSUME NEW j \in Carriers PROVE CarrierAt(j, pc[j])'
    BY DEF CarrierInv
  <2>1. CASE j = k
    BY <1>1, <1>3, <1>4, <1>5, <1>7, <2>1 DEF CarrierAt, Free, Busy, NoContext, Contexts
  <2>2. CASE j # k
    BY <1>1, <1>3, <1>7, <2>2 DEF CarrierInv, CarrierAt
  <2> QED
    BY <2>1, <2>2
<1>10. CarriedOnce'
  BY <1>1, <1>5, <1>7 DEF CarriedOnce, Carried
<1>11. QueueInv'
  BY <1>1, <1>3, <1>6, <1>8 DEF QueueInv
<1>12. RestInv'
  BY <1>1, <1>3, <1>5, <1>6, <1>8 DEF RestInv
<1>13. TimerInv' /\ IoSplit'
  BY <1>1, <1>3 DEF TimerInv, IoSplit, IoDue
<1> QED
  BY <1>4, <1>6, <1>7, <1>9, <1>10, <1>11, <1>12, <1>13 DEF Resting

\* Splice: the frames move to the carrier.
LEMMA SpliceKeeps ==
    ASSUME IndInv, NEW k \in Carriers, Splice(k), UNCHANGED closing
    PROVE  Resting'
<1> DEFINE r == running[k]
<1>1. /\ CarrierInv /\ CarriedOnce /\ QueueInv /\ RestInv /\ TimerInv /\ IoSplit
      /\ pc \in [Carriers -> Locations] /\ frames \in [Contexts -> {"none", "context"} \cup Carriers]
      /\ framesParked \in [Contexts -> BOOLEAN]
  BY DEF IndInv, Types, TypeOK, IoInv, IoSplit, IoDue
<1>2. /\ r \in Contexts /\ state[r] = "Runnable" /\ Carried(r)
      /\ framesParked[r] => frames[r] = "context"
  BY <1>1, Here DEF Splice, At, Busy, CarrierAt, Carried, RestInv
<1>3. /\ pc' = [pc EXCEPT ![k] = "run"]
      /\ frames' = [frames EXCEPT ![r] = k]
      /\ UNCHANGED <<state, nextId, runQueue, running, timers, ioWaits>>
      /\ framesParked' = [framesParked EXCEPT ![r] = framesParked'[r]]
      /\ ~framesParked'[r]
  BY <1>1, <1>2 DEF Splice, Go
<1>4. \A c \in Contexts : Carried(c)' <=> Carried(c)
  BY <1>3 DEF Carried
<1>5. CarrierInv'
  <2> SUFFICES ASSUME NEW j \in Carriers PROVE CarrierAt(j, pc[j])'
    BY DEF CarrierInv
  <2>1. CASE j = k
    BY <1>1, <1>2, <1>3, <2>1, Here DEF CarrierAt, Free, Busy
  <2>2. CASE j # k
    <3>1. pc'[j] = pc[j] /\ running'[j] = running[j] /\ running[j] # r
      BY <1>1, <1>2, <1>3, <2>2, Here DEF CarriedOnce
    <3>2. running[j] # NoContext => framesParked'[running[j]] = framesParked[running[j]]
      BY <1>1, <1>3, <3>1, Here
    <3> QED
      BY <1>1, <1>3, <3>1, <3>2 DEF CarrierInv, CarrierAt
  <2> QED
    BY <2>1, <2>2
<1>6. CarriedOnce'
  BY <1>1, <1>3 DEF CarriedOnce
<1>7. QueueInv'
  BY <1>1, <1>2, <1>3, <1>4 DEF QueueInv
<1>8. RestInv'
  <2> SUFFICES ASSUME NEW c \in Contexts
               PROVE  /\ state'[c] = "Runnable" => Occurs(c, runQueue') \/ Carried(c)'
                      /\ state'[c] \in Parked => framesParked'[c] \/ Carried(c)'
                      /\ state'[c] = "BlockedNative" => Carried(c)'
                      /\ state'[c] = "Unborn" <=> c >= nextId'
                      /\ framesParked'[c] => frames'[c] = "context"
    BY DEF RestInv
  <2>1. CASE c = r
    BY <1>1, <1>2, <1>3, <1>4, <2>1 DEF RestInv
  <2>2. CASE c # r
    BY <1>1, <1>3, <1>4, <2>2 DEF RestInv
  <2> QED
    BY <2>1, <2>2
<1>9. TimerInv' /\ IoSplit'
  BY <1>1, <1>3 DEF TimerInv, IoSplit, IoDue
<1> QED
  BY <1>5, <1>6, <1>7, <1>8, <1>9 DEF Resting

\* ParkContextFrames: the frames land, and whoever was woken before is queued.
LEMMA LandKeeps ==
    ASSUME IndInv, NEW k \in Carriers, ParkContextFrames(k), UNCHANGED closing
    PROVE  Resting' /\ runQueue' \in Seq(Contexts)
<1> DEFINE r == running[k]
<1>1. /\ CarrierInv /\ CarriedOnce /\ QueueInv /\ RestInv /\ TimerInv /\ IoSplit
      /\ pc \in [Carriers -> Locations] /\ frames \in [Contexts -> {"none", "context"} \cup Carriers]
      /\ framesParked \in [Contexts -> BOOLEAN] /\ runQueue \in Seq(Contexts)
      /\ running \in [Carriers -> Contexts \cup {NoContext}]
  BY DEF IndInv, Types, TypeOK, IoInv, IoSplit, IoDue
<1>2. /\ r \in Contexts /\ state[r] \in Parked \cup {"Runnable"} /\ Carried(r)
      /\ ~framesParked[r] /\ ~Occurs(r, runQueue)
  BY <1>1, Here DEF ParkContextFrames, At, Busy, CarrierAt, Carried, QueueInv
<1>3. /\ pc' = [pc EXCEPT ![k] = "pop"]
      /\ frames' = [frames EXCEPT ![r] = "context"]
      /\ running' = [running EXCEPT ![k] = NoContext]
      /\ UNCHANGED <<state, nextId, timers, ioWaits>>
  BY DEF ParkContextFrames, Go
<1>4. \/ /\ state[r] = "Runnable" /\ runQueue' = Append(runQueue, r)
         /\ framesParked' = framesParked
      \/ /\ state[r] \in Parked /\ runQueue' = runQueue
         /\ framesParked' = [framesParked EXCEPT ![r] = TRUE]
  BY <1>2 DEF ParkContextFrames, StillRunnable
<1>5. /\ runQueue' \in Seq(Contexts) /\ Distinct(runQueue')
      /\ \A d \in Contexts : Occurs(d, runQueue') <=>
            Occurs(d, runQueue) \/ (d = r /\ state[r] = "Runnable")
  <2> HIDE DEF r
  <2>1. CASE state[r] = "Runnable" /\ runQueue' = Append(runQueue, r)
    BY <1>1, <1>2, <2>1, OneMore DEF QueueInv
  <2>2. CASE state[r] \in Parked /\ runQueue' = runQueue
    BY <1>1, <2>2 DEF QueueInv, Parked
  <2> QED
    BY <1>4, <2>1, <2>2
<1>6. \A d \in Contexts : Carried(d)' <=> Carried(d) /\ d # r
  BY <1>1, <1>3, Here DEF Carried, CarriedOnce
<1>7. CarrierInv'
  <2> SUFFICES ASSUME NEW j \in Carriers PROVE CarrierAt(j, pc[j])'
    BY DEF CarrierInv
  <2>1. CASE j = k
    BY <1>1, <1>3, <2>1 DEF CarrierAt, Free, Busy
  <2>2. CASE j # k
    <3>1. pc'[j] = pc[j] /\ running'[j] = running[j] /\ running[j] # r
      BY <1>1, <1>2, <1>3, <2>2, Here DEF CarriedOnce
    <3>2. running[j] # NoContext => framesParked'[running[j]] = framesParked[running[j]]
      BY <1>1, <1>4, <3>1, Here
    <3> QED
      BY <1>1, <1>3, <3>1, <3>2 DEF CarrierInv, CarrierAt
  <2> QED
    BY <2>1, <2>2
<1>8. CarriedOnce'
  BY <1>1, <1>3 DEF CarriedOnce
<1>9. QueueInv'
  BY <1>1, <1>2, <1>3, <1>5, <1>6 DEF QueueInv
<1>10. RestInv'
  <2> SUFFICES ASSUME NEW c \in Contexts
               PROVE  /\ state'[c] = "Runnable" => Occurs(c, runQueue') \/ Carried(c)'
                      /\ state'[c] \in Parked => framesParked'[c] \/ Carried(c)'
                      /\ state'[c] = "BlockedNative" => Carried(c)'
                      /\ state'[c] = "Unborn" <=> c >= nextId'
                      /\ framesParked'[c] => frames'[c] = "context"
    BY DEF RestInv
  <2>1. CASE c = r
    BY <1>1, <1>2, <1>3, <1>4, <1>5, <2>1 DEF RestInv, Parked
  <2>2. CASE c # r
    BY <1>1, <1>3, <1>4, <1>5, <1>6, <2>2 DEF RestInv
  <2> QED
    BY <2>1, <2>2
<1>11. TimerInv' /\ IoSplit'
  BY <1>1, <1>3 DEF TimerInv, IoSplit, IoDue
<1> QED
  BY <1>5, <1>7, <1>8, <1>9, <1>10, <1>11 DEF Resting

\* Spawn and NewPromise: a context is registered, queued or parked.
LEMMA BirthKeeps ==
    ASSUME IndInv, NEW k \in Carriers, Spawn(k) \/ NewPromise(k), UNCHANGED closing
    PROVE  Resting' /\ runQueue' \in Seq(Contexts) /\ nextId' \in 1 .. MaxContexts
<1>1. /\ CarrierInv /\ CarriedOnce /\ QueueInv /\ RestInv /\ TimerInv /\ IoSplit
      /\ pc \in [Carriers -> Locations] /\ frames \in [Contexts -> {"none", "context"} \cup Carriers]
      /\ state \in [Contexts -> States] /\ runQueue \in Seq(Contexts)
      /\ running \in [Carriers -> Contexts \cup {NoContext}]
      /\ nextId \in Contexts /\ nextId' = nextId + 1 /\ nextId' \in 1 .. MaxContexts
      /\ UNCHANGED <<framesParked, running, timers, ioWaits, pc>>
      /\ \A c \in Contexts : c \in Nat
  <2>1. CarrierInv /\ CarriedOnce /\ QueueInv /\ RestInv /\ TimerInv /\ IoSplit /\ TypeOK
    BY DEF IndInv, Types, IoInv, IoSplit, IoDue
  <2>2. /\ nextId \in Contexts /\ nextId' = nextId + 1
        /\ UNCHANGED <<framesParked, running, timers, ioWaits, pc>>
    BY DEF Spawn, NewPromise
  <2>3. nextId' \in 1 .. MaxContexts /\ \A c \in Contexts : c \in Nat
    BY <2>2, ConstantsAssumption DEF Contexts
  <2> QED
    BY <2>1, <2>2, <2>3 DEF TypeOK
<1>2. /\ state[nextId] = "Unborn" /\ ~Occurs(nextId, runQueue)
      /\ ~framesParked[nextId] \/ frames[nextId] = "context"
  BY <1>1 DEF RestInv, QueueInv
<1>3. \A j \in Carriers : running[j] # nextId
  <2> SUFFICES ASSUME NEW j \in Carriers, running[j] = nextId PROVE FALSE
    OBVIOUS
  <2>1. CarrierAt(j, pc[j]) /\ pc[j] \in Locations \ {"abandon", "shutdown", "perish"}
    BY Here DEF Torn
  <2> QED
    BY <1>1, <1>2, <2>1 DEF CarrierAt, Locations, Waits, Free, Parked, NoContext
<1>4. \E s \in {"Runnable", "ParkedPromise"} :
         /\ state' = [state EXCEPT ![nextId] = s]
         /\ \/ /\ s = "Runnable" /\ runQueue' = Append(runQueue, nextId)
               /\ frames' = [frames EXCEPT ![nextId] = "context"]
            \/ /\ s = "ParkedPromise" /\ runQueue' = runQueue
               /\ frames' = frames
  BY DEF Spawn, NewPromise
<1>5. /\ runQueue' \in Seq(Contexts) /\ Distinct(runQueue')
      /\ \A d \in Contexts : Occurs(d, runQueue') <=>
            Occurs(d, runQueue) \/ (d = nextId /\ state'[nextId] = "Runnable")
  <2>1. CASE state'[nextId] = "Runnable" /\ runQueue' = Append(runQueue, nextId)
    BY <1>1, <1>2, <2>1, OneMore DEF QueueInv
  <2>2. CASE state'[nextId] = "ParkedPromise" /\ runQueue' = runQueue
    BY <1>1, <2>2 DEF QueueInv
  <2> QED
    BY <1>1, <1>4, <2>1, <2>2
<1>6. \A d \in Contexts : (Carried(d)' <=> Carried(d))
  BY <1>1 DEF Carried
<1>7. ~Carried(nextId)
  BY <1>3 DEF Carried
<1>8. CarrierInv'
  BY <1>1, <1>3, <1>4 DEF CarrierInv, CarrierAt
<1>9. CarriedOnce'
  BY <1>1 DEF CarriedOnce
<1>10. QueueInv'
  BY <1>1, <1>2, <1>4, <1>5, <1>6, <1>7 DEF QueueInv
<1>11. RestInv'
  <2> SUFFICES ASSUME NEW c \in Contexts
               PROVE  /\ state'[c] = "Runnable" => Occurs(c, runQueue') \/ Carried(c)'
                      /\ state'[c] \in Parked => framesParked'[c] \/ Carried(c)'
                      /\ state'[c] = "BlockedNative" => Carried(c)'
                      /\ state'[c] = "Unborn" <=> c >= nextId'
                      /\ framesParked'[c] => frames'[c] = "context"
    BY DEF RestInv
  <2>1. CASE c = nextId
    BY <1>1, <1>2, <1>4, <1>5, <2>1 DEF RestInv, Parked
  <2>2. CASE c # nextId
    BY <1>1, <1>4, <1>5, <1>6, <2>2 DEF RestInv
  <2> QED
    BY <2>1, <2>2
<1>12. TimerInv' /\ IoSplit'
  BY <1>1, <1>2, <1>4 DEF TimerInv, IoSplit, IoDue
<1> QED
  BY <1>1, <1>5, <1>8, <1>9, <1>10, <1>11, <1>12 DEF Resting

\* There are finitely many contexts.
LEMMA ContextsFinite == IsFiniteSet(Contexts)
<1>1. 0 \in Int /\ MaxContexts - 1 \in Int
  BY ConstantsAssumption
<1> QED
  BY <1>1, FS_Interval DEF Contexts

\* A wake of parked contexts appends to the queue without repetition.
LEMMA QueueGrows ==
    ASSUME IndInv, NEW S \in SUBSET Contexts, NEW q \in Orders(Queueable(S)),
           \A c \in S : state[c] \in Parked
    PROVE  /\ runQueue \o q \in Seq(Contexts)
           /\ Distinct(runQueue \o q)
           /\ \A c \in Contexts : Occurs(c, runQueue \o q) <=>
                 Occurs(c, runQueue) \/ (c \in S /\ framesParked[c])
<1> DEFINE T == Queueable(S)
<1>1. /\ runQueue \in Seq(Contexts) /\ QueueInv
      /\ \A c : c \in T <=> c \in S /\ framesParked[c]
  BY DEF IndInv, Types, TypeOK, Queueable
<1>2. IsFiniteSet(T) /\ T \subseteq Contexts
  <2>1. IsFiniteSet(Contexts)
    BY ContextsFinite
  <2>2. T \in SUBSET Contexts
    BY <1>1
  <2> HIDE DEF T
  <2> QED
    BY <2>1, <2>2, FS_Subset
<1>3. /\ q \in [1 .. Cardinality(T) -> T]
      /\ \A c \in T : \E i \in DOMAIN q : q[i] = c
  BY DEF Orders
<1> HIDE DEF T
<1>4. q \in Seq(Contexts) /\ Distinct(q) /\ \A d : Occurs(d, q) <=> d \in T
  BY <1>2, <1>3, AllInOrder
<1>5. \A d : ~(Occurs(d, runQueue) /\ Occurs(d, q))
  BY <1>1, <1>2, <1>4 DEF QueueInv, Parked
<1> QED
  BY <1>1, <1>4, <1>5, ManyMore DEF QueueInv

\* WakeJoiners appends joiners and selectors, each once.
LEMMA JoinersWoken ==
    ASSUME IndInv, NEW t, NEW failed, NEW decided, NEW dst,
           WakeJoiners(t, failed, decided, dst)
    PROVE  /\ runQueue' \in Seq(Contexts)
           /\ Distinct(runQueue')
           /\ \A c \in Contexts : Occurs(c, runQueue') <=>
                 \/ Occurs(c, runQueue)
                 \/ c \in JoinersOf(t) \cup SelectorsOf(t) /\ framesParked[c]
<1> DEFINE J == JoinersOf(t)
           S == SelectorsOf(t) \ J
<1>1. PICK first \in InIdOrder(Queueable(J)), second \in InIdOrder(Queueable(S)) :
         runQueue' = runQueue \o first \o second
  BY DEF WakeJoiners
<1>2. /\ first \in Orders(Queueable(J)) /\ second \in Orders(Queueable(S))
      /\ J \in SUBSET Contexts /\ \A c \in J : state[c] = "ParkedJoin"
      /\ S \in SUBSET Contexts /\ \A c \in S : state[c] = "ParkedJoin"
      /\ \A c : ~(c \in J /\ c \in S)
      /\ \A c : c \in J \/ c \in S <=> c \in JoinersOf(t) \cup SelectorsOf(t)
      /\ runQueue \in Seq(Contexts) /\ "ParkedJoin" \in Parked
  BY DEF InIdOrder, JoinersOf, SelectorsOf, IndInv, Types, TypeOK, Parked
<1> HIDE DEF J, S
<1>3. /\ runQueue \o first \in Seq(Contexts)
      /\ Distinct(runQueue \o first)
      /\ \A c \in Contexts : Occurs(c, runQueue \o first) <=>
                 Occurs(c, runQueue) \/ (c \in J /\ framesParked[c])
  BY <1>2, QueueGrows
<1> DEFINE one == runQueue \o first
<1>4. /\ IsFiniteSet(Queueable(S)) /\ Queueable(S) \subseteq Contexts
      /\ \A c : c \in Queueable(S) <=> c \in S /\ framesParked[c]
  <2>1. IsFiniteSet(Contexts)
    BY ContextsFinite
  <2>2. Queueable(S) \in SUBSET Contexts /\ \A c : c \in Queueable(S) <=> c \in S /\ framesParked[c]
    BY <1>2 DEF Queueable
  <2> QED
    BY <2>1, <2>2, FS_Subset
<1>5. /\ second \in Seq(Contexts) /\ Distinct(second)
      /\ \A d : Occurs(d, second) <=> d \in Queueable(S)
  <2> DEFINE T == Queueable(S)
  <2>1. /\ second \in [1 .. Cardinality(T) -> T]
        /\ \A c \in T : \E i \in DOMAIN second : second[i] = c
        /\ IsFiniteSet(T) /\ T \subseteq Contexts
    BY <1>2, <1>4 DEF Orders
  <2> HIDE DEF T
  <2>2. second \in Seq(Contexts) /\ Distinct(second) /\ \A d : Occurs(d, second) <=> d \in T
    BY <2>1, AllInOrder
  <2> QED
    BY <2>2 DEF T
<1>6. \A c \in Contexts : Occurs(c, runQueue) => state[c] = "Runnable"
  BY DEF IndInv, QueueInv
<1> HIDE DEF one
<1>7. \A d : ~(Occurs(d, one) /\ Occurs(d, second))
  BY <1>2, <1>3, <1>4, <1>5, <1>6 DEF one
<1>8. one \in Seq(Contexts) /\ Distinct(one) /\ runQueue' = one \o second
  BY <1>1, <1>3 DEF one
<1>9. /\ one \o second \in Seq(Contexts) /\ Distinct(one \o second)
      /\ \A d : Occurs(d, one \o second) <=> Occurs(d, one) \/ Occurs(d, second)
  BY <1>5, <1>7, <1>8, ManyMore
<1>10. \A c \in Contexts : Occurs(c, one) <=> Occurs(c, runQueue) \/ (c \in J /\ framesParked[c])
  BY <1>3 DEF one
<1> QED
  BY <1>2, <1>4, <1>5, <1>8, <1>9, <1>10

-----------------------------------------------------------------------------
\* The part of IoInv that speaks of the closes under way.
IoPlaces ==
    \A k \in Carriers : /\ closing[k] # {} => pc[k] = "ioclose"
                        /\ closing[k] \cap ioWaits = {}
                        /\ \A l \in Carriers \ {k} : closing[k] \cap closing[l] = {}

SyncParked == {"ParkedMutex", "ParkedSemaphore"}
\* A step that is no lock call: no context changes to or from a park on a
\* lock, and the carriers in a call or an unwind keep what they have.
Apart ==
    /\ UNCHANGED <<waiters, call>>
    /\ \A j \in Carriers :
          /\ pc[j] = "sync" <=> pc'[j] = "sync"
          /\ pc[j] = "sync" => running'[j] = running[j]
          /\ pc[j] = "unwind" => \/ pc'[j] = "unwind" /\ running'[j] = running[j]
                                 \/ running'[j] = NoContext
          /\ \/ running'[j] \in {running[j], NoContext}
             \/ state[running'[j]] = "Runnable"
    /\ \A c \in Contexts : state'[c] # state[c] =>
          /\ state[c] \notin SyncParked /\ state'[c] \notin SyncParked
          /\ state[c] = "Runnable" => \E k \in Carriers : running[k] = c /\ pc[k] # "sync"

\* What a step of any other part does to the pump: nothing, and the carriers
\* in the fast path of a window keep their context.
Tame == /\ UNCHANGED pumpVars
        /\ \A j \in Carriers :
              \/ pc'[j] = pc[j] /\ running'[j] = running[j]
              \/ /\ pc'[j] \notin Torn
                 /\ \/ pc'[j] \in InHand /\ running'[j] = running[j]
                    \/ ~Nested(j)

\* What every step lemma shows of the next state.
Sound == /\ TypeOK' /\ PlaceInv' /\ Tame /\ IoPlaces' /\ Resting'
         /\ CountInv'

\* What a step needs to know of the windows.
Nesting == \A j \in Carriers : /\ pc[j] \notin Torn
                               /\ Nested(j) => pc[j] \in InHand /\ InOwnWindow(j)

\* What the step lemmas need of the current state.
LEMMA Base ==
    ASSUME IndInv
    PROVE  /\ TypeOK /\ DebugTypeOK /\ SyncTypeOK /\ PlaceInv /\ IoPlaces
           /\ Nesting
           /\ closing \in [Carriers -> SUBSET Contexts]
           /\ CarriedOnce
BY DEF IndInv, Types, IoInv, IoPlaces, Nesting, PumpInv, NoTeardown, NestInv

\* A change of a carrier's own context outside a lock call is Apart.
LEMMA OwnApart ==
    ASSUME IndInv, NEW k \in Carriers, NEW s, NEW l, Own(k, s, l),
           pc[k] \in {"run", "native"}, l # "sync", s \notin SyncParked,
           UNCHANGED <<waiters, call>>
    PROVE  Apart
<1>1. /\ CarrierAt(k, pc[k]) /\ running[k] \in Contexts
      /\ state[running[k]] \in {"Runnable", "BlockedNative"}
  BY Here DEF CarrierAt, Busy
<1>2. pc \in [Carriers -> Locations] /\ state \in [Contexts -> States]
  BY DEF IndInv, Types, TypeOK
<1> QED
  BY <1>1, <1>2 DEF Apart, Own, SyncParked

\* The steps that only move a carrier (and its counters).
LEMMA CarrierMoves ==
    ASSUME IndInv, NEW k \in Carriers, NoTeardown', UNCHANGED <<syncVars, closing, debugVars>>,
           \/ Launch(k)
           \/ StopAtPop(k)
           \/ ReportDeadlock(k)
           \/ Sleep(k)
           \/ WaitAtFreezeGate(k)
           \/ WaitForHeldFocus(k)
           \/ Yield(k)
           \/ Preempt(k)
           \/ DeliverJoinResults(k)
           \/ ShutdownInNative(k)
           \/ LeaveAuxiliary(k)
    PROVE  Sound /\ Apart
<1> USE DEF syncVars, debugVars
<1>0. /\ IndInv
      /\ TypeOK /\ DebugTypeOK /\ PlaceInv /\ Nesting /\ IoPlaces
      /\ CarrierAt(k, pc[k]) /\ pc[k] \in Locations
      /\ pc'[k] \notin Torn /\ running[k] \in Contexts \cup {NoContext}
      /\ stage[k] \in Sections /\ NoContext \notin Contexts
  BY Base, Here DEF NoTeardown
<1>1. CASE Launch(k)
  <2>1. CountersNat' => TypeOK'
    BY <1>0, <1>1 DEF TypeOK, CountersNat, Launch, At, Go, States, Parked, Locations, Waits
  <2>2. PlaceInv' /\ Tame
    BY <1>0, <1>1 DEF PlaceInv, Tame, Nesting, InHand, Torn, TypeOK, DebugTypeOK, Launch, At, Go, Waits
  <2>3. IoPlaces' /\ Apart
    BY <1>0, <1>1 DEF IoPlaces, Apart, TypeOK, Launch, At, Go, Waits, SyncParked
  <2>4. Tally(k, "pop", stage[k]) /\ "pop" \in Locations
    BY <1>0, <1>1 DEF Tally, TypeOK, DebugTypeOK, Launch, At, Go, Is, CountsAsIdle, InFlight, Locations, Waits
  <2>5. Shift(k, "pop")
    BY <1>0, <1>1 DEF Shift, CarrierAt, Free, Busy, Launch, At, Go, dispatchVars, IoDue, Waits
  <2> QED
    BY <1>0, <2>1, <2>2, <2>3, <2>4, <2>5, Counted, ShiftWakes, WakeKeeps DEF Sound
<1>2. CASE StopAtPop(k)
  <2>0. windows[k] = <<>>
    BY <1>0, <1>2 DEF StopAtPop, Unwinds, Go, TypeOK, Torn
  <2>1. CountersNat' => TypeOK'
    BY <1>0, <1>2, <2>0 DEF TypeOK, CountersNat, StopAtPop, Unwinds, PassesFreeze, InPop, At, Go, IdleAfterWake, States, Parked, Locations, Waits
  <2>2. PlaceInv' /\ Tame
    BY <1>0, <1>2, <2>0 DEF PlaceInv, Tame, Nesting, InHand, Torn, TypeOK, DebugTypeOK, StopAtPop, Unwinds, PassesFreeze, InPop, At, Go, IdleAfterWake, Waits
  <2>3. IoPlaces' /\ Apart
    BY <1>0, <1>2, <2>0 DEF IoPlaces, Apart, TypeOK, StopAtPop, Unwinds, PassesFreeze, InPop, At, Go, IdleAfterWake, Waits, SyncParked
  <2>4. Tally(k, "leave", stage[k]) /\ "leave" \in Locations
    BY <1>0, <1>2, <2>0 DEF Tally, TypeOK, DebugTypeOK, StopAtPop, Unwinds, PassesFreeze, InPop, At, Go, IdleAfterWake, Is, CountsAsIdle, InFlight, Locations, Waits
  <2>5. Shift(k, "leave")
    BY <1>0, <1>2, <2>0 DEF Shift, CarrierAt, Free, Busy, StopAtPop, Unwinds, PassesFreeze, InPop, At, Go, IdleAfterWake, dispatchVars, IoDue, Waits
  <2> QED
    BY <1>0, <2>1, <2>2, <2>3, <2>4, <2>5, Counted, ShiftWakes, WakeKeeps DEF Sound
<1>3. CASE ReportDeadlock(k)
  <2>0. windows[k] = <<>>
    BY <1>0, <1>3 DEF ReportDeadlock, Unwinds, Go, TypeOK, Torn
  <2>1. CountersNat' => TypeOK'
    BY <1>0, <1>3, <2>0 DEF TypeOK, CountersNat, ReportDeadlock, NothingToDispatch, Unwinds, PassesFreeze, InPop, At, Go, IdleAfterWake, States, Parked, Locations, Waits
  <2>2. PlaceInv' /\ Tame
    BY <1>0, <1>3, <2>0 DEF PlaceInv, Tame, Nesting, InHand, Torn, TypeOK, DebugTypeOK, ReportDeadlock, NothingToDispatch, Unwinds, PassesFreeze, InPop, At, Go, IdleAfterWake, Waits
  <2>3. IoPlaces' /\ Apart
    BY <1>0, <1>3, <2>0 DEF IoPlaces, Apart, TypeOK, ReportDeadlock, NothingToDispatch, Unwinds, PassesFreeze, InPop, At, Go, IdleAfterWake, Waits, SyncParked
  <2>4. Tally(k, "deadlock", stage[k]) /\ "deadlock" \in Locations
    BY <1>0, <1>3, <2>0 DEF Tally, TypeOK, DebugTypeOK, ReportDeadlock, NothingToDispatch, Unwinds, PassesFreeze, InPop, At, Go, IdleAfterWake, Is, CountsAsIdle, InFlight, Locations, Waits
  <2>5. Shift(k, "deadlock")
    BY <1>0, <1>3, <2>0 DEF Shift, CarrierAt, Free, Busy, ReportDeadlock, NothingToDispatch, Unwinds, PassesFreeze, InPop, At, Go, IdleAfterWake, dispatchVars, IoDue, Waits
  <2> QED
    BY <1>0, <2>1, <2>2, <2>3, <2>4, <2>5, Counted, ShiftWakes, WakeKeeps DEF Sound
<1>4. CASE Sleep(k)
  <2>1. CountersNat' => TypeOK'
    BY <1>0, <1>4 DEF TypeOK, CountersNat, Sleep, NothingToDispatch, WaitAs, PassesFreeze, InPop, At, Go, IdleAfterWake, States, Parked, Locations, Waits
  <2>2. PlaceInv' /\ Tame
    BY <1>0, <1>4 DEF PlaceInv, Tame, Nesting, InHand, Torn, TypeOK, DebugTypeOK, Sleep, NothingToDispatch, WaitAs, PassesFreeze, InPop, At, Go, IdleAfterWake, Waits
  <2>3. IoPlaces' /\ Apart
    BY <1>0, <1>4 DEF IoPlaces, Apart, TypeOK, Sleep, NothingToDispatch, WaitAs, PassesFreeze, InPop, At, Go, IdleAfterWake, Waits, SyncParked
  <2>4. Tally(k, "idle", stage[k]) /\ "idle" \in Locations
    BY <1>0, <1>4 DEF Tally, TypeOK, DebugTypeOK, Sleep, NothingToDispatch, WaitAs, PassesFreeze, InPop, At, Go, IdleAfterWake, Is, CountsAsIdle, InFlight, Locations, Waits
  <2>5. Shift(k, "idle")
    BY <1>0, <1>4 DEF Shift, CarrierAt, Free, Busy, Sleep, NothingToDispatch, WaitAs, PassesFreeze, InPop, At, Go, IdleAfterWake, dispatchVars, IoDue, Waits
  <2> QED
    BY <1>0, <2>1, <2>2, <2>3, <2>4, <2>5, Counted, ShiftWakes, WakeKeeps DEF Sound
<1>5. CASE WaitAtFreezeGate(k)
  <2>1. CountersNat' => TypeOK'
    BY <1>0, <1>5 DEF TypeOK, CountersNat, WaitAtFreezeGate, WaitAs, PassesFreeze, InPop, At, Go, IdleAfterWake, States, Parked, Locations, Waits
  <2>2. PlaceInv' /\ Tame
    BY <1>0, <1>5 DEF PlaceInv, Tame, Nesting, InHand, Torn, TypeOK, DebugTypeOK, WaitAtFreezeGate, WaitAs, PassesFreeze, InPop, At, Go, IdleAfterWake, Waits
  <2>3. IoPlaces' /\ Apart
    BY <1>0, <1>5 DEF IoPlaces, Apart, TypeOK, WaitAtFreezeGate, WaitAs, PassesFreeze, InPop, At, Go, IdleAfterWake, Waits, SyncParked
  <2>4. Tally(k, "freezewait", stage[k]) /\ "freezewait" \in Locations
    BY <1>0, <1>5 DEF Tally, TypeOK, DebugTypeOK, WaitAtFreezeGate, WaitAs, PassesFreeze, InPop, At, Go, IdleAfterWake, Is, CountsAsIdle, InFlight, Locations, Waits
  <2>5. Shift(k, "freezewait")
    BY <1>0, <1>5 DEF Shift, CarrierAt, Free, Busy, WaitAtFreezeGate, WaitAs, PassesFreeze, InPop, At, Go, IdleAfterWake, dispatchVars, IoDue, Waits
  <2> QED
    BY <1>0, <2>1, <2>2, <2>3, <2>4, <2>5, Counted, ShiftWakes, WakeKeeps DEF Sound
<1>6. CASE WaitForHeldFocus(k)
  <2>1. CountersNat' => TypeOK'
    BY <1>0, <1>6 DEF TypeOK, CountersNat, WaitForHeldFocus, WaitAs, PassesFreeze, InPop, At, Go, IdleAfterWake, States, Parked, Locations, Waits
  <2>2. PlaceInv' /\ Tame
    BY <1>0, <1>6 DEF PlaceInv, Tame, Nesting, InHand, Torn, TypeOK, DebugTypeOK, WaitForHeldFocus, WaitAs, PassesFreeze, InPop, At, Go, IdleAfterWake, Waits
  <2>3. IoPlaces' /\ Apart
    BY <1>0, <1>6 DEF IoPlaces, Apart, TypeOK, WaitForHeldFocus, WaitAs, PassesFreeze, InPop, At, Go, IdleAfterWake, Waits, SyncParked
  <2>4. Tally(k, "focuswait", stage[k]) /\ "focuswait" \in Locations
    BY <1>0, <1>6 DEF Tally, TypeOK, DebugTypeOK, WaitForHeldFocus, WaitAs, PassesFreeze, InPop, At, Go, IdleAfterWake, Is, CountsAsIdle, InFlight, Locations, Waits
  <2>5. Shift(k, "focuswait")
    BY <1>0, <1>6 DEF Shift, CarrierAt, Free, Busy, WaitForHeldFocus, WaitAs, PassesFreeze, InPop, At, Go, IdleAfterWake, dispatchVars, IoDue, Waits
  <2> QED
    BY <1>0, <2>1, <2>2, <2>3, <2>4, <2>5, Counted, ShiftWakes, WakeKeeps DEF Sound
<1>7. CASE Yield(k)
  <2>1. CountersNat' => TypeOK'
    BY <1>0, <1>7 DEF TypeOK, CountersNat, Yield, Runs, At, Go, States, Parked, Locations, Waits
  <2>2. PlaceInv' /\ Tame
    BY <1>0, <1>7 DEF PlaceInv, Tame, Nesting, InHand, Torn, TypeOK, DebugTypeOK, Yield, Runs, At, Go, Waits
  <2>3. IoPlaces' /\ Apart
    BY <1>0, <1>7 DEF IoPlaces, Apart, TypeOK, Yield, Runs, At, Go, Waits, SyncParked
  <2>4. Tally(k, "unwind", stage[k]) /\ "unwind" \in Locations
    BY <1>0, <1>7 DEF Tally, TypeOK, DebugTypeOK, Yield, Runs, At, Go, Is, CountsAsIdle, InFlight, Locations, Waits
  <2>5. Shift(k, "unwind")
    BY <1>0, <1>7 DEF Shift, CarrierAt, Free, Busy, Yield, Runs, At, Go, dispatchVars, IoDue, Waits
  <2> QED
    BY <1>0, <2>1, <2>2, <2>3, <2>4, <2>5, Counted, ShiftWakes, WakeKeeps DEF Sound
<1>8. CASE Preempt(k)
  <2>1. CountersNat' => TypeOK'
    BY <1>0, <1>8 DEF TypeOK, CountersNat, Preempt, At, Go, States, Parked, Locations, Waits
  <2>2. PlaceInv' /\ Tame
    BY <1>0, <1>8 DEF PlaceInv, Tame, Nesting, InHand, Torn, TypeOK, DebugTypeOK, Preempt, At, Go, Waits
  <2>3. IoPlaces' /\ Apart
    BY <1>0, <1>8 DEF IoPlaces, Apart, TypeOK, Preempt, At, Go, Waits, SyncParked
  <2>4. Tally(k, "unwind", stage[k]) /\ "unwind" \in Locations
    BY <1>0, <1>8 DEF Tally, TypeOK, DebugTypeOK, Preempt, At, Go, Is, CountsAsIdle, InFlight, Locations, Waits
  <2>5. Shift(k, "unwind")
    BY <1>0, <1>8 DEF Shift, CarrierAt, Free, Busy, Preempt, At, Go, dispatchVars, IoDue, Waits
  <2> QED
    BY <1>0, <2>1, <2>2, <2>3, <2>4, <2>5, Counted, ShiftWakes, WakeKeeps DEF Sound
<1>9. CASE DeliverJoinResults(k)
  <2>1. CountersNat' => TypeOK'
    BY <1>0, <1>9 DEF TypeOK, CountersNat, DeliverJoinResults, Delivered, At, Go, States, Parked, Locations, Waits
  <2>2. PlaceInv' /\ Tame
    BY <1>0, <1>9 DEF PlaceInv, Tame, Nesting, InHand, Torn, TypeOK, DebugTypeOK, DeliverJoinResults, Delivered, At, Go, Waits
  <2>3. IoPlaces' /\ Apart
    BY <1>0, <1>9 DEF IoPlaces, Apart, TypeOK, DeliverJoinResults, Delivered, At, Go, Waits, SyncParked
  <2>4. Tally(k, "wake", stage[k]) /\ "wake" \in Locations
    BY <1>0, <1>9 DEF Tally, TypeOK, DebugTypeOK, DeliverJoinResults, Delivered, At, Go, Is, CountsAsIdle, InFlight, Locations, Waits
  <2>5. Shift(k, "wake")
    BY <1>0, <1>9 DEF Shift, CarrierAt, Free, Busy, DeliverJoinResults, Delivered, At, Go, dispatchVars, IoDue, Waits
  <2> QED
    BY <1>0, <2>1, <2>2, <2>3, <2>4, <2>5, Counted, ShiftWakes, WakeKeeps DEF Sound
<1>10. CASE ShutdownInNative(k)
  <2>0. windows[k] = <<>> /\ ~Nested(k)
    BY <1>0, <1>10 DEF ShutdownInNative, Go, TypeOK, Torn, Nested
  <2>1. CountersNat' => TypeOK'
    BY <1>0, <1>10, <2>0 DEF TypeOK, CountersNat, ShutdownInNative, At, Go, States, Parked, Locations, Waits
  <2>2. PlaceInv' /\ Tame
    BY <1>0, <1>10, <2>0 DEF PlaceInv, Tame, Nesting, InHand, Torn, TypeOK, DebugTypeOK, ShutdownInNative, At, Go, Waits
  <2>3. IoPlaces' /\ Apart
    BY <1>0, <1>10, <2>0 DEF IoPlaces, Apart, TypeOK, ShutdownInNative, At, Go, Waits, SyncParked
  <2>4. Tally(k, "leave", stage[k]) /\ "leave" \in Locations
    BY <1>0, <1>10, <2>0 DEF Tally, TypeOK, DebugTypeOK, ShutdownInNative, At, Go, Is, CountsAsIdle, InFlight, Locations, Waits
  <2>5. Shift(k, "leave")
    BY <1>0, <1>10, <2>0 DEF Shift, CarrierAt, Free, Busy, ShutdownInNative, At, Go, dispatchVars, IoDue, Waits
  <2> QED
    BY <1>0, <2>1, <2>2, <2>3, <2>4, <2>5, Counted, ShiftWakes, WakeKeeps DEF Sound
<1>11. CASE LeaveAuxiliary(k)
  <2>1. CountersNat' => TypeOK'
    BY <1>0, <1>11 DEF TypeOK, CountersNat, LeaveAuxiliary, At, Go, Escapes, ErrorAfter, StopIf, States, Parked, Locations, Waits
  <2>2. PlaceInv' /\ Tame
    BY <1>0, <1>11 DEF PlaceInv, Tame, Nesting, InHand, Torn, TypeOK, DebugTypeOK, LeaveAuxiliary, At, Go, Escapes, ErrorAfter, StopIf, Waits
  <2>3. IoPlaces' /\ Apart
    BY <1>0, <1>11 DEF IoPlaces, Apart, TypeOK, LeaveAuxiliary, At, Go, Escapes, ErrorAfter, StopIf, Waits, SyncParked
  <2>4. Tally(k, "exited", stage[k]) /\ "exited" \in Locations
    BY <1>0, <1>11 DEF Tally, TypeOK, DebugTypeOK, LeaveAuxiliary, At, Go, Escapes, ErrorAfter, StopIf, Is, CountsAsIdle, InFlight, Locations, Waits
  <2>5. Shift(k, "exited")
    BY <1>0, <1>11 DEF Shift, CarrierAt, Free, Busy, LeaveAuxiliary, At, Go, Escapes, ErrorAfter, StopIf, dispatchVars, IoDue, Waits
  <2> QED
    BY <1>0, <2>1, <2>2, <2>3, <2>4, <2>5, Counted, ShiftWakes, WakeKeeps DEF Sound
<1> QED
  BY <1>1, <1>2, <1>3, <1>4, <1>5, <1>6, <1>7, <1>8, <1>9, <1>10, <1>11


\* The end of the primary carrier and of the run.
LEMMA HostMoves ==
    ASSUME IndInv, NEW k \in Carriers, UNCHANGED <<syncVars, closing, debugVars>>,
           \/ k = Primary /\ LeavePrimary
           \/ k = Primary /\ JoinAndCollect
    PROVE  Sound /\ Apart
<1> USE DEF syncVars, debugVars
<1>0. /\ IndInv
      /\ TypeOK /\ DebugTypeOK /\ PlaceInv /\ Nesting /\ IoPlaces
      /\ CarrierAt(k, pc[k]) /\ pc[k] \in Locations
      /\ running[k] \in Contexts \cup {NoContext}
      /\ stage[k] \in Sections /\ NoContext \notin Contexts
  BY Base, Here
<1>1. CASE k = Primary /\ LeavePrimary
  <2>1. CountersNat' => TypeOK'
    BY <1>0, <1>1 DEF TypeOK, CountersNat, LeavePrimary, At, Go, Escapes, StopIf, States, Parked, Locations, Waits
  <2>2. PlaceInv' /\ Tame
    BY <1>0, <1>1 DEF PlaceInv, Tame, Nesting, InHand, Torn, TypeOK, DebugTypeOK, LeavePrimary, At, Go, Escapes, StopIf, Waits
  <2>3. IoPlaces' /\ Apart
    BY <1>0, <1>1 DEF IoPlaces, Apart, TypeOK, LeavePrimary, At, Go, Escapes, StopIf, Waits, SyncParked
  <2>4. Tally(k, "join", stage[k]) /\ "join" \in Locations
    BY <1>0, <1>1 DEF Tally, TypeOK, DebugTypeOK, LeavePrimary, At, Go, Escapes, StopIf, Is, CountsAsIdle, InFlight, Locations, Waits
  <2>5. Shift(k, "join")
    BY <1>0, <1>1 DEF Shift, CarrierAt, Free, Busy, LeavePrimary, At, Go, Escapes, StopIf, dispatchVars, IoDue, Waits
  <2> QED
    BY <1>0, <2>1, <2>2, <2>3, <2>4, <2>5, Counted, ShiftWakes, WakeKeeps DEF Sound
<1>2. CASE k = Primary /\ JoinAndCollect
  <2>1. CountersNat' => TypeOK'
    BY <1>0, <1>2, ConstantsAssumption DEF TypeOK, CountersNat, JoinAndCollect, At, Go, States, Parked, Locations, Waits
  <2>2. PlaceInv' /\ Tame
    BY <1>0, <1>2 DEF PlaceInv, Tame, Nesting, InHand, Torn, TypeOK, DebugTypeOK, JoinAndCollect, At, Go, Waits
  <2>3. IoPlaces' /\ Apart
    BY <1>0, <1>2 DEF IoPlaces, Apart, TypeOK, JoinAndCollect, At, Go, Waits, SyncParked
  <2>4. Tally(k, "exited", stage[k]) /\ "exited" \in Locations
    BY <1>0, <1>2 DEF Tally, TypeOK, DebugTypeOK, JoinAndCollect, At, Go, Is, CountsAsIdle, InFlight, Locations, Waits
  <2>5. Shift(k, "exited")
    BY <1>0, <1>2 DEF Shift, CarrierAt, Free, Busy, JoinAndCollect, At, Go, dispatchVars, IoDue, Waits
  <2> QED
    BY <1>0, <2>1, <2>2, <2>3, <2>4, <2>5, Counted, ShiftWakes, WakeKeeps DEF Sound
<1> QED
  BY <1>1, <1>2


\* The steps that move no carrier and no context.
LEMMA StillSteps ==
    ASSUME IndInv, NEW k \in Carriers, UNCHANGED <<syncVars, closing, debugVars>>,
           \/ SleepAgain(k)
           \/ \E t \in Contexts : ObserveFailure(k, t)
           \/ TimerNotify
    PROVE  Sound /\ Apart
<1> USE DEF syncVars, debugVars
<1>0. /\ IndInv
      /\ TypeOK /\ DebugTypeOK /\ PlaceInv /\ Nesting /\ IoPlaces
      /\ CarrierAt(k, pc[k]) /\ pc[k] \in Locations
      /\ running[k] \in Contexts \cup {NoContext}
      /\ stage[k] \in Sections /\ NoContext \notin Contexts
  BY Base, Here
<1>1. CASE SleepAgain(k)
  <2>1. CountersNat' => TypeOK'
    BY <1>0, <1>1 DEF TypeOK, CountersNat, SleepAgain, States, Parked, Locations, Waits
  <2>2. PlaceInv' /\ Tame
    BY <1>0, <1>1 DEF PlaceInv, Tame, Nesting, InHand, Torn, TypeOK, DebugTypeOK, SleepAgain, Waits
  <2>3. IoPlaces' /\ Apart
    BY <1>0, <1>1 DEF IoPlaces, Apart, TypeOK, SleepAgain, Waits, SyncParked
  <2>4. Tally(k, pc[k], stage[k]) /\ pc[k] \in Locations
    BY <1>0, <1>1 DEF Tally, TypeOK, DebugTypeOK, SleepAgain, Is, CountsAsIdle, InFlight, Locations, Waits
  <2>5. Quiet
    BY <1>0, <1>1 DEF Quiet, SleepAgain, dispatchVars, waitVars
  <2> QED
    BY <1>0, <2>1, <2>2, <2>3, <2>4, <2>5, Counted, QuietWakes, WakeKeeps DEF Sound
<1>2. CASE \E t \in Contexts : ObserveFailure(k, t)
  <2>1. CountersNat' => TypeOK'
    BY <1>0, <1>2 DEF TypeOK, CountersNat, ObserveFailure, States, Parked, Locations, Waits
  <2>2. PlaceInv' /\ Tame
    BY <1>0, <1>2 DEF PlaceInv, Tame, Nesting, InHand, Torn, TypeOK, DebugTypeOK, ObserveFailure, Waits
  <2>3. IoPlaces' /\ Apart
    BY <1>0, <1>2 DEF IoPlaces, Apart, TypeOK, ObserveFailure, Waits, SyncParked
  <2>4. Tally(k, pc[k], stage[k]) /\ pc[k] \in Locations
    BY <1>0, <1>2 DEF Tally, TypeOK, DebugTypeOK, ObserveFailure, Is, CountsAsIdle, InFlight, Locations, Waits
  <2>5. Quiet
    BY <1>0, <1>2 DEF Quiet, ObserveFailure, dispatchVars, waitVars
  <2> QED
    BY <1>0, <2>1, <2>2, <2>3, <2>4, <2>5, Counted, QuietWakes, WakeKeeps DEF Sound
<1>3. CASE TimerNotify
  <2>1. CountersNat' => TypeOK'
    BY <1>0, <1>3 DEF TypeOK, CountersNat, TimerNotify, States, Parked, Locations, Waits
  <2>2. PlaceInv' /\ Tame
    BY <1>0, <1>3 DEF PlaceInv, Tame, Nesting, InHand, Torn, TypeOK, DebugTypeOK, TimerNotify, Waits
  <2>3. IoPlaces' /\ Apart
    BY <1>0, <1>3 DEF IoPlaces, Apart, TypeOK, TimerNotify, Waits, SyncParked
  <2>4. Tally(k, pc[k], stage[k]) /\ pc[k] \in Locations
    BY <1>0, <1>3 DEF Tally, TypeOK, DebugTypeOK, TimerNotify, Is, CountsAsIdle, InFlight, Locations, Waits
  <2>5. Quiet
    BY <1>0, <1>3 DEF Quiet, TimerNotify, dispatchVars, waitVars
  <2> QED
    BY <1>0, <2>1, <2>2, <2>3, <2>4, <2>5, Counted, QuietWakes, WakeKeeps DEF Sound
<1> QED
  BY <1>1, <1>2, <1>3


\* The parks on timers and joins, the ends of a context, the natives.
LEMMA OwnSteps ==
    ASSUME IndInv, NEW k \in Carriers, NoTeardown', UNCHANGED <<syncVars, closing, debugVars>>,
           NEW t \in Contexts, NEW b \in BOOLEAN, NEW S \in SUBSET Others(k),
           \/ ParkForTimer(k)
           \/ ParkForJoin(k, t, b)
           \/ ParkForJoinAny(k, S)
           \/ Finish(k)
           \/ Fail(k)
           \/ Fatal(k)
           \/ EnterNative(k)
           \/ ReturnFromNative(k)
    PROVE  Sound /\ Apart
<1> USE DEF syncVars, debugVars
<1>0. /\ IndInv
      /\ TypeOK /\ DebugTypeOK /\ PlaceInv /\ Nesting /\ IoPlaces
      /\ CarrierAt(k, pc[k]) /\ pc[k] \in Locations
      /\ pc'[k] \notin Torn /\ running[k] \in Contexts \cup {NoContext}
      /\ stage[k] \in Sections /\ NoContext \notin Contexts
  BY Base, Here DEF NoTeardown
<1>1. CASE ParkForTimer(k)
  <2>1. CountersNat' => TypeOK'
    BY <1>0, <1>1 DEF TypeOK, CountersNat, ParkForTimer, Released, GateWaitersTold, At, Go, Runs, States, Parked, Locations, Waits, CarrierAt, Busy
  <2>2. PlaceInv' /\ Tame
    BY <1>0, <1>1 DEF PlaceInv, Tame, Nesting, InHand, Torn, TypeOK, DebugTypeOK, ParkForTimer, Released, GateWaitersTold, At, Go, Runs, Waits
  <2>3. IoPlaces' /\ UNCHANGED <<waiters, call>> /\ pc[k] \in {"run", "native"}
    BY <1>0, <1>1 DEF IoPlaces, TypeOK, ParkForTimer, Released, GateWaitersTold, At, Go, Runs
  <2>4. Tally(k, "unwind", stage[k]) /\ "unwind" \in Locations
    BY <1>0, <1>1 DEF Tally, TypeOK, DebugTypeOK, ParkForTimer, Released, GateWaitersTold, At, Go, Runs, Is, CountsAsIdle, InFlight, Locations, Waits
  <2>5. Own(k, "ParkedTimer", "unwind") /\ "ParkedTimer" \in States
    BY <1>0, <1>1 DEF Own, CarrierAt, Free, Busy, TypeOK, ParkForTimer, Released, GateWaitersTold, At, Go, Runs, IoDue, States, Parked
  <2> QED
    BY <1>0, <2>1, <2>2, <2>3, <2>4, <2>5, Counted, OwnKeeps, OwnApart DEF Sound, SyncParked
<1>2. CASE ParkForJoin(k, t, b)
  <2>1. CountersNat' => TypeOK'
    BY <1>0, <1>2 DEF TypeOK, CountersNat, ParkForJoin, Released, GateWaitersTold, At, Go, Runs, States, Parked, Locations, Waits, CarrierAt, Busy, Others, Registered, SelectAnyNoTarget
  <2>2. PlaceInv' /\ Tame
    BY <1>0, <1>2 DEF PlaceInv, Tame, Nesting, InHand, Torn, TypeOK, DebugTypeOK, ParkForJoin, Released, GateWaitersTold, At, Go, Runs, Waits
  <2>3. IoPlaces' /\ UNCHANGED <<waiters, call>> /\ pc[k] \in {"run", "native"}
    BY <1>0, <1>2 DEF IoPlaces, TypeOK, ParkForJoin, Released, GateWaitersTold, At, Go, Runs
  <2>4. Tally(k, "unwind", stage[k]) /\ "unwind" \in Locations
    BY <1>0, <1>2 DEF Tally, TypeOK, DebugTypeOK, ParkForJoin, Released, GateWaitersTold, At, Go, Runs, Is, CountsAsIdle, InFlight, Locations, Waits
  <2>5. Own(k, "ParkedJoin", "unwind") /\ "ParkedJoin" \in States
    BY <1>0, <1>2 DEF Own, CarrierAt, Free, Busy, TypeOK, ParkForJoin, Released, GateWaitersTold, At, Go, Runs, IoDue, States, Parked
  <2> QED
    BY <1>0, <2>1, <2>2, <2>3, <2>4, <2>5, Counted, OwnKeeps, OwnApart DEF Sound, SyncParked
<1>3. CASE ParkForJoinAny(k, S)
  <2>1. CountersNat' => TypeOK'
    BY <1>0, <1>3 DEF TypeOK, CountersNat, ParkForJoinAny, Released, GateWaitersTold, At, Go, Runs, States, Parked, Locations, Waits, CarrierAt, Busy, Others, Registered, SelectAnyNoTarget
  <2>2. PlaceInv' /\ Tame
    BY <1>0, <1>3 DEF PlaceInv, Tame, Nesting, InHand, Torn, TypeOK, DebugTypeOK, ParkForJoinAny, Released, GateWaitersTold, At, Go, Runs, Waits
  <2>3. IoPlaces' /\ UNCHANGED <<waiters, call>> /\ pc[k] \in {"run", "native"}
    BY <1>0, <1>3 DEF IoPlaces, TypeOK, ParkForJoinAny, Released, GateWaitersTold, At, Go, Runs
  <2>4. Tally(k, "unwind", stage[k]) /\ "unwind" \in Locations
    BY <1>0, <1>3 DEF Tally, TypeOK, DebugTypeOK, ParkForJoinAny, Released, GateWaitersTold, At, Go, Runs, Is, CountsAsIdle, InFlight, Locations, Waits
  <2>5. Own(k, "ParkedJoin", "unwind") /\ "ParkedJoin" \in States
    BY <1>0, <1>3 DEF Own, CarrierAt, Free, Busy, TypeOK, ParkForJoinAny, Released, GateWaitersTold, At, Go, Runs, IoDue, States, Parked
  <2> QED
    BY <1>0, <2>1, <2>2, <2>3, <2>4, <2>5, Counted, OwnKeeps, OwnApart DEF Sound, SyncParked
<1>4. CASE Finish(k)
  <2>1. CountersNat' => TypeOK'
    BY <1>0, <1>4 DEF TypeOK, CountersNat, Finish, Released, GateWaitersTold, StopFor, At, Go, Runs, States, Parked, Locations, Waits, CarrierAt, Busy
  <2>2. PlaceInv' /\ Tame
    BY <1>0, <1>4 DEF PlaceInv, Tame, Nesting, InHand, Torn, TypeOK, DebugTypeOK, Finish, Released, GateWaitersTold, StopFor, At, Go, Runs, Waits
  <2>3. IoPlaces' /\ UNCHANGED <<waiters, call>> /\ pc[k] \in {"run", "native"}
    BY <1>0, <1>4 DEF IoPlaces, TypeOK, Finish, Released, GateWaitersTold, StopFor, At, Go, Runs
  <2>4. Tally(k, "finish", stage[k]) /\ "finish" \in Locations
    BY <1>0, <1>4 DEF Tally, TypeOK, DebugTypeOK, Finish, Released, GateWaitersTold, StopFor, At, Go, Runs, Is, CountsAsIdle, InFlight, Locations, Waits
  <2>5. Own(k, "Finished", "finish") /\ "Finished" \in States
    BY <1>0, <1>4 DEF Own, CarrierAt, Free, Busy, TypeOK, Finish, Released, GateWaitersTold, StopFor, At, Go, Runs, IoDue, States, Parked
  <2> QED
    BY <1>0, <2>1, <2>2, <2>3, <2>4, <2>5, Counted, OwnKeeps, OwnApart DEF Sound, SyncParked
<1>5. CASE Fail(k) /\ running[k] = Main
  <2>1. CountersNat' => TypeOK'
    BY <1>0, <1>5 DEF TypeOK, CountersNat, Fail, Released, GateWaitersTold, StopFor, At, Go, Runs, States, Parked, Locations, Waits, CarrierAt, Busy
  <2>2. PlaceInv' /\ Tame
    BY <1>0, <1>5 DEF PlaceInv, Tame, Nesting, InHand, Torn, TypeOK, DebugTypeOK, Fail, Released, GateWaitersTold, StopFor, At, Go, Runs, Waits
  <2>3. IoPlaces' /\ UNCHANGED <<waiters, call>> /\ pc[k] \in {"run", "native"}
    BY <1>0, <1>5 DEF IoPlaces, TypeOK, Fail, Released, GateWaitersTold, StopFor, At, Go, Runs
  <2>4. Tally(k, "raise", stage[k]) /\ "raise" \in Locations
    BY <1>0, <1>5 DEF Tally, TypeOK, DebugTypeOK, Fail, Released, GateWaitersTold, StopFor, At, Go, Runs, Is, CountsAsIdle, InFlight, Locations, Waits
  <2>5. Own(k, "Failed", "raise") /\ "Failed" \in States
    BY <1>0, <1>5 DEF Own, CarrierAt, Free, Busy, TypeOK, Fail, Released, GateWaitersTold, StopFor, At, Go, Runs, IoDue, States, Parked
  <2> QED
    BY <1>0, <2>1, <2>2, <2>3, <2>4, <2>5, Counted, OwnKeeps, OwnApart DEF Sound, SyncParked
<1>6. CASE Fail(k) /\ running[k] # Main
  <2>1. CountersNat' => TypeOK'
    BY <1>0, <1>6 DEF TypeOK, CountersNat, Fail, Released, GateWaitersTold, StopFor, At, Go, Runs, States, Parked, Locations, Waits, CarrierAt, Busy
  <2>2. PlaceInv' /\ Tame
    BY <1>0, <1>6 DEF PlaceInv, Tame, Nesting, InHand, Torn, TypeOK, DebugTypeOK, Fail, Released, GateWaitersTold, StopFor, At, Go, Runs, Waits
  <2>3. IoPlaces' /\ UNCHANGED <<waiters, call>> /\ pc[k] \in {"run", "native"}
    BY <1>0, <1>6 DEF IoPlaces, TypeOK, Fail, Released, GateWaitersTold, StopFor, At, Go, Runs
  <2>4. Tally(k, "failwake", stage[k]) /\ "failwake" \in Locations
    BY <1>0, <1>6 DEF Tally, TypeOK, DebugTypeOK, Fail, Released, GateWaitersTold, StopFor, At, Go, Runs, Is, CountsAsIdle, InFlight, Locations, Waits
  <2>5. Own(k, "Failed", "failwake") /\ "Failed" \in States
    BY <1>0, <1>6 DEF Own, CarrierAt, Free, Busy, TypeOK, Fail, Released, GateWaitersTold, StopFor, At, Go, Runs, IoDue, States, Parked
  <2> QED
    BY <1>0, <2>1, <2>2, <2>3, <2>4, <2>5, Counted, OwnKeeps, OwnApart DEF Sound, SyncParked
<1>7. CASE Fatal(k)
  <2>0. windows[k] = <<>>
    BY <1>0, <1>7 DEF Fatal, Unwinds, Go, TypeOK, Torn
  <2>1. CountersNat' => TypeOK'
    BY <1>0, <1>7, <2>0 DEF TypeOK, CountersNat, Fatal, Released, GateWaitersTold, StopFor, Unwinds, At, Go, Runs, States, Parked, Locations, Waits, CarrierAt, Busy
  <2>2. PlaceInv' /\ Tame
    BY <1>0, <1>7, <2>0 DEF PlaceInv, Tame, Nesting, InHand, Torn, TypeOK, DebugTypeOK, Fatal, Released, GateWaitersTold, StopFor, Unwinds, At, Go, Runs, Waits
  <2>3. IoPlaces' /\ UNCHANGED <<waiters, call>> /\ pc[k] \in {"run", "native"}
    BY <1>0, <1>7, <2>0 DEF IoPlaces, TypeOK, Fatal, Released, GateWaitersTold, StopFor, Unwinds, At, Go, Runs
  <2>4. Tally(k, "raise", stage[k]) /\ "raise" \in Locations
    BY <1>0, <1>7, <2>0 DEF Tally, TypeOK, DebugTypeOK, Fatal, Released, GateWaitersTold, StopFor, Unwinds, At, Go, Runs, Is, CountsAsIdle, InFlight, Locations, Waits
  <2>5. Own(k, "Failed", "raise") /\ "Failed" \in States
    BY <1>0, <1>7, <2>0 DEF Own, CarrierAt, Free, Busy, TypeOK, Fatal, Released, GateWaitersTold, StopFor, Unwinds, At, Go, Runs, IoDue, States, Parked
  <2> QED
    BY <1>0, <2>1, <2>2, <2>3, <2>4, <2>5, Counted, OwnKeeps, OwnApart DEF Sound, SyncParked
<1>8. CASE EnterNative(k)
  <2>1. CountersNat' => TypeOK'
    BY <1>0, <1>8 DEF TypeOK, CountersNat, EnterNative, At, Go, Runs, States, Parked, Locations, Waits, CarrierAt, Busy
  <2>2. PlaceInv' /\ Tame
    BY <1>0, <1>8 DEF PlaceInv, Tame, Nesting, InHand, Torn, TypeOK, DebugTypeOK, EnterNative, At, Go, Runs, Waits
  <2>3. IoPlaces' /\ UNCHANGED <<waiters, call>> /\ pc[k] \in {"run", "native"}
    BY <1>0, <1>8 DEF IoPlaces, TypeOK, EnterNative, At, Go, Runs
  <2>4. Tally(k, "native", stage[k]) /\ "native" \in Locations
    BY <1>0, <1>8 DEF Tally, TypeOK, DebugTypeOK, EnterNative, At, Go, Runs, Is, CountsAsIdle, InFlight, Locations, Waits
  <2>5. Own(k, "BlockedNative", "native") /\ "BlockedNative" \in States
    BY <1>0, <1>8 DEF Own, CarrierAt, Free, Busy, TypeOK, EnterNative, At, Go, Runs, IoDue, States, Parked
  <2> QED
    BY <1>0, <2>1, <2>2, <2>3, <2>4, <2>5, Counted, OwnKeeps, OwnApart DEF Sound, SyncParked
<1>9. CASE ReturnFromNative(k)
  <2>1. CountersNat' => TypeOK'
    BY <1>0, <1>9 DEF TypeOK, CountersNat, ReturnFromNative, At, Go, Runs, States, Parked, Locations, Waits, CarrierAt, Busy
  <2>2. PlaceInv' /\ Tame
    BY <1>0, <1>9 DEF PlaceInv, Tame, Nesting, InHand, Torn, TypeOK, DebugTypeOK, ReturnFromNative, At, Go, Runs, Waits
  <2>3. IoPlaces' /\ UNCHANGED <<waiters, call>> /\ pc[k] \in {"run", "native"}
    BY <1>0, <1>9 DEF IoPlaces, TypeOK, ReturnFromNative, At, Go, Runs
  <2>4. Tally(k, "run", stage[k]) /\ "run" \in Locations
    BY <1>0, <1>9 DEF Tally, TypeOK, DebugTypeOK, ReturnFromNative, At, Go, Runs, Is, CountsAsIdle, InFlight, Locations, Waits
  <2>5. Own(k, "Runnable", "run") /\ "Runnable" \in States
    BY <1>0, <1>9 DEF Own, CarrierAt, Free, Busy, TypeOK, ReturnFromNative, At, Go, Runs, IoDue, States, Parked
  <2> QED
    BY <1>0, <2>1, <2>2, <2>3, <2>4, <2>5, Counted, OwnKeeps, OwnApart DEF Sound, SyncParked
<1> QED
  BY <1>1, <1>2, <1>3, <1>4, <1>5, <1>6, <1>7, <1>8, <1>9


\* The dispatch of the next context.
LEMMA TakeSound ==
    ASSUME IndInv, NEW k \in Carriers, UNCHANGED <<syncVars, closing, debugVars>>,
           TakeNext(k)
    PROVE  Sound /\ Apart
<1> USE DEF syncVars, debugVars
<1>0. /\ TypeOK /\ DebugTypeOK /\ PlaceInv /\ Nesting /\ IoPlaces /\ QueueInv
      /\ stage[k] \in Sections /\ running[k] = NoContext /\ NoContext \notin Contexts
      /\ pc[k] \in {"pop", "idle", "focuswait", "freezewait"}
  BY Base, Here DEF IndInv, TakeNext, PassesFreeze, InPop, At, Waits, Free
<1>1. Resting' /\ runQueue' \in Seq(Contexts)
  BY TakeKeeps DEF debugVars
<1>2. PICK c \in Contexts : /\ Occurs(c, runQueue)
                            /\ held' = [held EXCEPT ![k] = c]
                            /\ running' = [running EXCEPT ![k] = c]
                            /\ lastCarrier' = [lastCarrier EXCEPT ![c] = k]
  BY TakeKeeps
<1>3. CountersNat' => TypeOK'
  BY <1>0, <1>1, <1>2 DEF TypeOK, CountersNat, TakeNext, Go, Locations
<1>4. PlaceInv' /\ Tame
  BY <1>0 DEF PlaceInv, Tame, Nesting, InHand, Torn, TypeOK, DebugTypeOK, TakeNext, PassesFreeze, InPop, At, Go, Waits
<1>5. IoPlaces'
  BY <1>0 DEF IoPlaces, TypeOK, TakeNext, Go
<1>6. Apart
  <2>1. state[c] = "Runnable"
    BY <1>0, <1>2 DEF QueueInv
  <2>2. pc' = [pc EXCEPT ![k] = "splice"] /\ UNCHANGED <<state, waiters, call>>
    BY DEF TakeNext, Go
  <2> QED
    BY <1>0, <1>2, <2>1, <2>2 DEF Apart, TypeOK
<1>7. Tally(k, "splice", stage[k]) /\ "splice" \in Locations
  BY <1>0 DEF Tally, TypeOK, DebugTypeOK, TakeNext, IdleAfterWake, Go, Is, CountsAsIdle,
              InFlight, Locations, Waits
<1> QED
  BY <1>0, <1>1, <1>3, <1>4, <1>5, <1>6, <1>7, Counted DEF Sound

\* Frames that are spliced or land, contexts that are born.
LEMMA FrameSteps ==
    ASSUME IndInv, NEW k \in Carriers, UNCHANGED <<syncVars, closing, debugVars>>,
           Splice(k) \/ ParkContextFrames(k) \/ Spawn(k) \/ NewPromise(k)
    PROVE  Sound /\ Apart
<1> USE DEF syncVars, debugVars
<1>0. /\ TypeOK /\ DebugTypeOK /\ PlaceInv /\ Nesting /\ IoPlaces
      /\ stage[k] \in Sections /\ NoContext \notin Contexts
      /\ CarrierAt(k, pc[k]) /\ pc[k] \in Locations
      /\ pc[k] \in Busy => running[k] \in Contexts
  BY Base, Here
<1>1. CASE Splice(k)
  <2>1. Resting'
    BY <1>1, SpliceKeeps
  <2>2. CountersNat' => TypeOK'
    <3>1. 0 \in Contexts
      BY ConstantsAssumption DEF Contexts
    <3> QED
      BY <1>0, <1>1, <3>1 DEF TypeOK, CountersNat, Splice, At, Busy, Go, Locations
  <2>3. PlaceInv' /\ Tame
    BY <1>0, <1>1 DEF PlaceInv, Tame, Nesting, InHand, Torn, TypeOK, DebugTypeOK, Splice, At, Go, Waits
  <2>4. IoPlaces' /\ Apart
    BY <1>0, <1>1 DEF IoPlaces, Apart, TypeOK, Splice, At, Go
  <2>5. Tally(k, "run", stage[k]) /\ "run" \in Locations
    BY <1>0, <1>1 DEF Tally, TypeOK, DebugTypeOK, Splice, At, Go, Is, CountsAsIdle,
                      InFlight, Locations, Waits
  <2> QED
    BY <1>0, <2>1, <2>2, <2>3, <2>4, <2>5, Counted DEF Sound
<1>2. CASE ParkContextFrames(k)
  <2>1. Resting' /\ runQueue' \in Seq(Contexts)
    BY <1>2, LandKeeps
  <2>2. CountersNat' => TypeOK'
    BY <1>0, <1>2, <2>1 DEF TypeOK, CountersNat, ParkContextFrames, At, Busy, Go, Locations,
                            Released
  <2>0. ~Nested(k)
    BY <1>0, <1>2 DEF Nesting, Nested, ParkContextFrames
  <2>3. PlaceInv' /\ Tame
    BY <1>0, <1>2, <2>0 DEF PlaceInv, Tame, Nesting, InHand, Torn, TypeOK, DebugTypeOK, ParkContextFrames, At, Go, Waits
  <2>4. IoPlaces' /\ Apart
    BY <1>0, <1>2 DEF IoPlaces, Apart, TypeOK, ParkContextFrames, At, Go
  <2>5. Tally(k, "pop", stage[k]) /\ "pop" \in Locations
    BY <1>0, <1>2 DEF Tally, TypeOK, DebugTypeOK, ParkContextFrames, At, Go, Is, CountsAsIdle,
                      InFlight, Locations, Waits
  <2> QED
    BY <1>0, <2>1, <2>2, <2>3, <2>4, <2>5, Counted DEF Sound
<1>3. CASE Spawn(k) \/ NewPromise(k)
  <2>1. Resting' /\ runQueue' \in Seq(Contexts) /\ nextId' \in 1 .. MaxContexts
    BY <1>3, BirthKeeps
  <2>2. CountersNat' => TypeOK'
    BY <1>0, <1>3, <2>1 DEF TypeOK, CountersNat, Spawn, NewPromise, States
  <2>3. PlaceInv' /\ Tame
    BY <1>0, <1>3 DEF PlaceInv, Tame, Nesting, InHand, Torn, TypeOK, DebugTypeOK, Spawn, NewPromise
  <2>4. IoPlaces'
    BY <1>0, <1>3 DEF IoPlaces, TypeOK, Spawn, NewPromise
  <2>5. Apart
    <3>1. /\ nextId \in Contexts /\ UNCHANGED <<pc, running, waiters, call>>
          /\ \E s \in {"Runnable", "ParkedPromise"} : state' = [state EXCEPT ![nextId] = s]
          /\ \A c \in Contexts : c \in Int
      BY <1>3 DEF Spawn, NewPromise, Contexts
    <3>2. state[nextId] = "Unborn"
      BY <3>1 DEF IndInv, RestInv, Contexts
    <3> QED
      BY <1>0, <3>1, <3>2 DEF Apart, TypeOK, SyncParked
  <2>6. Tally(k, pc[k], stage[k])
    BY <1>0, <1>3 DEF Tally, TypeOK, DebugTypeOK, Spawn, NewPromise, Is
  <2> QED
    BY <1>0, <2>1, <2>2, <2>3, <2>4, <2>5, <2>6, Counted DEF Sound
<1> QED
  BY <1>1, <1>2, <1>3

\* The wakes of joiners, by a carrier or by a promise.
LEMMA WakeSteps ==
    ASSUME IndInv, NEW k \in Carriers, UNCHANGED <<syncVars, closing, debugVars>>,
           NEW p \in Contexts, NEW failed \in BOOLEAN,
           WakeAfterFinish(k) \/ WakeAfterFailure(k) \/ Complete(k, p, failed)
    PROVE  Sound /\ Apart
<1> USE DEF syncVars, debugVars
<1>0. /\ TypeOK /\ DebugTypeOK /\ PlaceInv /\ Nesting /\ IoPlaces /\ TimerInv /\ IoSplit
      /\ stage[k] \in Sections /\ NoContext \notin Contexts
      /\ CarrierAt(k, pc[k]) /\ pc[k] \in Locations
      /\ pc[k] \in Busy => running[k] \in Contexts
  BY Base, Here DEF IndInv, IoInv, IoSplit, IoDue
<1>1. PICK t, b, ds, dst :
         /\ t \in Contexts /\ b \in BOOLEAN
         /\ WakeJoiners(t, b, ds, dst)
         /\ \/ ds = state /\ UNCHANGED failExc
            \/ /\ state[t] = "ParkedPromise" /\ failExc' \in [Contexts -> BOOLEAN]
               /\ ds = [state EXCEPT ![t] = IF b THEN "Failed" ELSE "Finished"]
         /\ dst \in [Contexts -> BOOLEAN]
  <2>1. CASE WakeAfterFinish(k)
    <3>1. running[k] \in Contexts /\ WakeJoiners(running[k], FALSE, state, joinResultDst)
          /\ UNCHANGED failExc
      BY <1>0, <2>1 DEF WakeAfterFinish, At, Busy
    <3>2. joinResultDst \in [Contexts -> BOOLEAN]
      BY <1>0 DEF TypeOK
    <3> QED
      BY <3>1, <3>2
  <2>2. CASE WakeAfterFailure(k)
    <3>1. running[k] \in Contexts /\ WakeJoiners(running[k], TRUE, state, joinResultDst)
          /\ UNCHANGED failExc
      BY <1>0, <2>2 DEF WakeAfterFailure, At, Busy
    <3>2. joinResultDst \in [Contexts -> BOOLEAN]
      BY <1>0 DEF TypeOK
    <3> QED
      BY <3>1, <3>2
  <2>3. CASE Complete(k, p, failed)
    <3> DEFINE e == IF failed THEN joinResultDst ELSE Delivered(p)
               s == [state EXCEPT ![p] = IF failed THEN "Failed" ELSE "Finished"]
    <3>1. WakeJoiners(p, failed, s, e)
      BY <2>3 DEF Complete
    <3>2. /\ state[p] = "ParkedPromise" /\ failExc' \in [Contexts -> BOOLEAN]
          /\ e \in [Contexts -> BOOLEAN]
      BY <1>0, <2>3 DEF Complete, Undecided, TypeOK, Delivered
    <3>3. s = [state EXCEPT ![p] = IF failed THEN "Failed" ELSE "Finished"]
      OBVIOUS
    <3> HIDE DEF s, e
    <3> QED
      BY <3>1, <3>2, <3>3
  <2> QED
    BY <2>1, <2>2, <2>3
<1> DEFINE W == JoinersOf(t) \cup SelectorsOf(t)
<1>2. /\ runQueue' \in Seq(Contexts) /\ Distinct(runQueue')
      /\ \A c \in Contexts : Occurs(c, runQueue') <=>
            Occurs(c, runQueue) \/ (c \in W /\ framesParked[c])
  BY <1>1, JoinersWoken
<1>3. /\ \A c \in W : c \in Contexts /\ state[c] = "ParkedJoin"
      /\ \A c \in Contexts : IF c \in W THEN state'[c] = "Runnable"
                             ELSE \/ state'[c] = state[c]
                                  \/ state[c] = "ParkedPromise" /\ state'[c] \in Decided
      /\ state' \in [Contexts -> States]
  <2>1. \A c \in W : c \in Contexts /\ state[c] = "ParkedJoin"
    BY DEF JoinersOf, SelectorsOf
  <2>2. state' = [c \in Contexts |-> IF c \in W THEN "Runnable" ELSE ds[c]]
    BY <1>1 DEF WakeJoiners
  <2> HIDE DEF W
  <2> QED
    BY <1>0, <1>1, <2>1, <2>2 DEF TypeOK, Decided, States
<1>4. /\ rethrow' \in [Contexts -> BOOLEAN] /\ joinResultDst' \in [Contexts -> BOOLEAN]
      /\ selectSet' \in [Contexts -> SUBSET Contexts]
      /\ failObserved' \in [Contexts -> BOOLEAN] /\ failExc' \in [Contexts -> BOOLEAN]
      /\ asleep' = {}
  BY <1>0, <1>1 DEF WakeJoiners, TypeOK
<1> HIDE DEF W
<1>5. /\ UNCHANGED <<frames, framesParked, lastCarrier, parkHandle, nextId, timers,
                     timerNotify, held, countVars, stopRequested, hostVars, gateVars>>
      /\ \/ /\ running' = [running EXCEPT ![k] = NoContext]
            /\ pc[k] \in {"wake", "failwake"} /\ state[running[k]] \in Decided
            /\ \/ pc' = [pc EXCEPT ![k] = "pop"]
               \/ /\ pc' = [pc EXCEPT ![k] = "leave"]
                  /\ running[k] = Main /\ pc[k] = "wake"
         \/ UNCHANGED <<running, pc>>
  BY <1>0 DEF WakeAfterFinish, WakeAfterFailure, Complete, At, Go, AfterReturn, CarrierAt,
              Busy, Decided
<1>6. CountersNat' => TypeOK'
  BY <1>0, <1>2, <1>3, <1>4, <1>5 DEF TypeOK, CountersNat, Locations
<1>7. Wake(W)
  <2>1. \A j \in Carriers :
          \/ pc'[j] = pc[j] /\ running'[j] = running[j]
          \/ /\ CarrierAt(j, pc[j])'
             /\ running'[j] = NoContext /\ state[running[j]] \in Decided
    BY <1>0, <1>5 DEF TypeOK, CarrierAt, Busy
  <2>2. \A c \in Contexts : /\ c \in timers' <=> c \in timers /\ c \notin W
                            /\ IoDue(c)' <=> IoDue(c) /\ c \notin W
    BY <1>0, <1>3, <1>5 DEF TimerInv, IoSplit, IoDue
  <2> QED
    BY <1>2, <1>3, <1>5, <2>1, <2>2 DEF Wake, Parked
<1>12. \A j \in Carriers :
           \/ pc'[j] = pc[j] /\ running'[j] = running[j]
           \/ /\ pc[j] \in {"wake", "failwake"} /\ pc'[j] \in {"pop", "leave"}
              /\ running'[j] = NoContext
  BY <1>0, <1>5 DEF TypeOK
<1>8. Tame /\ IoPlaces'
  <2>1. Tame
    BY <1>0, <1>5, <1>12 DEF Tame, Nesting, InHand, Torn
  <2>2. IoPlaces'
    BY <1>0, <1>5, <1>12 DEF IoPlaces
  <2> QED
    BY <2>1, <2>2
<1>9. Apart
  <2>1. \A c \in Contexts : state'[c] # state[c] =>
           /\ state[c] \notin SyncParked /\ state'[c] \notin SyncParked
           /\ state[c] # "Runnable"
    BY <1>3 DEF SyncParked, Decided
  <2>2. UNCHANGED <<waiters, call>>
    BY <1>0
  <2> QED
    BY <1>12, <2>1, <2>2 DEF Apart
<1>10. \E l \in Locations : Tally(k, l, stage[k])
  BY <1>0, <1>5 DEF Tally, TypeOK, DebugTypeOK, Is, CountsAsIdle, InFlight, Locations, Waits
<1>11. PlaceInv'
  BY <1>0, <1>4, <1>5 DEF PlaceInv, TypeOK, DebugTypeOK
<1> QED
  BY <1>0, <1>6, <1>7, <1>8, <1>9, <1>10, <1>11, Counted, WakeKeeps DEF Sound

\* The wakes of sleepers, by the timer thread or at a quota point.
LEMMA TimerSteps ==
    ASSUME IndInv, NEW k \in Carriers, UNCHANGED <<syncVars, closing, debugVars>>,
           TimerExpire \/ ServiceDueTimers(k)
    PROVE  Sound /\ Apart
<1> USE DEF syncVars, debugVars
<1>0. /\ TypeOK /\ DebugTypeOK /\ PlaceInv /\ Nesting /\ IoPlaces /\ TimerInv /\ IoSplit
      /\ stage[k] \in Sections /\ pc[k] \in Locations
  BY Base, Here DEF IndInv, IoInv, IoSplit, IoDue
<1>1. PICK due \in SUBSET timers : ExpireDueTimers(due)
  BY DEF TimerExpire, ServiceDueTimers
<1>2. /\ due \in SUBSET Contexts /\ \A c \in due : state[c] = "ParkedTimer"
      /\ "ParkedTimer" \in Parked
  BY <1>0 DEF TypeOK, TimerInv, Parked
<1>3. PICK q \in Orders(Queueable(due)) : runQueue' = runQueue \o q
  BY <1>1 DEF ExpireDueTimers
<1>4. /\ runQueue' \in Seq(Contexts) /\ Distinct(runQueue')
      /\ \A c \in Contexts : Occurs(c, runQueue') <=>
            Occurs(c, runQueue) \/ (c \in due /\ framesParked[c])
  BY <1>2, <1>3, QueueGrows
<1>5. /\ state' = [c \in Contexts |-> IF c \in due THEN "Runnable" ELSE state[c]]
      /\ timers' = timers \ due
      /\ UNCHANGED <<frames, framesParked, lastCarrier, parkHandle, selectSet,
                     joinResultDst, rethrow, failExc, failObserved, nextId, held,
                     running, countVars, stopRequested, hostVars, gateVars, pc>>
      /\ asleep' \in {{}, asleep} /\ timerNotify' \in BOOLEAN
  BY <1>0, <1>1 DEF ExpireDueTimers, WithState, TimerExpire, ServiceDueTimers, TypeOK
<1>6. CountersNat' => TypeOK'
  BY <1>0, <1>4, <1>5 DEF TypeOK, CountersNat, States
<1>7. PlaceInv' /\ Tame /\ IoPlaces'
  BY <1>0, <1>5 DEF PlaceInv, Tame, Nesting, InHand, Torn, IoPlaces
<1>8. Apart
  BY <1>0, <1>2, <1>5 DEF Apart, SyncParked, TypeOK
<1>9. Tally(k, pc[k], stage[k])
  BY <1>0, <1>5 DEF Tally, TypeOK, DebugTypeOK, Is
<1>10. Wake(due)
  <2>1. \A c \in Contexts : IoDue(c)' <=> IoDue(c) /\ c \notin due
    BY <1>0, <1>2, <1>5 DEF IoSplit, IoDue
  <2> QED
    BY <1>2, <1>4, <1>5, <2>1 DEF Wake
<1> QED
  BY <1>0, <1>6, <1>7, <1>8, <1>9, <1>10, Counted, WakeKeeps DEF Sound

\* The wakes of parked I/O, by a close or by the poller.
LEMMA IoWakeSteps ==
    ASSUME IndInv, NEW k \in Carriers, UNCHANGED <<syncVars, debugVars>>,
           NEW c \in Contexts, NEW hit \in SUBSET ioWaits,
           WakeClosed(k, c) \/ HarvestIoEvents(hit)
    PROVE  Sound /\ Apart /\ closing' \in [Carriers -> SUBSET Contexts]
<1> USE DEF syncVars, debugVars
<1>0. /\ TypeOK /\ DebugTypeOK /\ PlaceInv /\ Nesting /\ IoPlaces /\ TimerInv /\ IoSplit
      /\ stage[k] \in Sections /\ pc[k] \in Locations /\ CarrierAt(k, pc[k])
      /\ closing \in [Carriers -> SUBSET Contexts]
  BY Base, Here DEF IndInv, IoInv, IoSplit, IoDue
<1>1. PICK S \in SUBSET Contexts :
         /\ \A d \in S : state[d] = "ParkedIo"
         /\ state' = [d \in Contexts |-> IF d \in S THEN "Runnable" ELSE state[d]]
         /\ \E q \in Orders(Queueable(S)) : runQueue' = runQueue \o q
         /\ \A d \in Contexts : IoDue(d)' <=> IoDue(d) /\ d \notin S
         /\ ioWaits' \in SUBSET Contexts /\ closing' \in [Carriers -> SUBSET Contexts]
         /\ IoPlaces'
         /\ ioArmed' \in [Contexts -> BOOLEAN]
         /\ \/ /\ pc[k] = "ioclose"
               /\ pc' = [pc EXCEPT ![k] = "run"] \/ pc' = pc
            \/ pc' = pc
  <2>1. CASE WakeClosed(k, c)
    <3>1. state[c] = "ParkedIo" /\ c \notin ioWaits /\ \A l \in Carriers \ {k} : c \notin closing[l]
      BY <1>0, <2>1 DEF WakeClosed, IoSplit, IoDue, IoPlaces
    <3>2. StillParkedIo({c}) = {c}
      BY <3>1 DEF StillParkedIo
    <3>3. /\ state' = [d \in Contexts |-> IF d \in {c} THEN "Runnable" ELSE state[d]]
          /\ \E q \in Orders(Queueable({c})) : runQueue' = runQueue \o q
      BY <2>1, <3>2 DEF WakeClosed, WakeForIo, WithState
    <3>4. /\ closing' = [closing EXCEPT ![k] = closing[k] \ {c}] /\ ioWaits' = ioWaits
          /\ pc' = [pc EXCEPT ![k] = IF closing[k] = {c} THEN "run" ELSE "ioclose"]
          /\ pc[k] = "ioclose"
          /\ ioArmed' \in [Contexts -> BOOLEAN]
      BY <1>0, <2>1 DEF WakeClosed, WakeForIo, At, Go, TypeOK
    <3>5. \A d \in Contexts : IoDue(d)' <=> IoDue(d) /\ d \notin {c}
      BY <1>0, <3>1, <3>4 DEF IoDue
    <3>6. IoPlaces'
      BY <1>0, <3>4 DEF IoPlaces, TypeOK
    <3>7. pc' = [pc EXCEPT ![k] = "run"] \/ pc' = pc
      BY <1>0, <3>4 DEF TypeOK
    <3> QED
      BY <1>0, <3>1, <3>3, <3>4, <3>5, <3>6, <3>7 DEF TypeOK
  <2>2. CASE HarvestIoEvents(hit)
    <3>1. /\ \A d \in hit : d \in Contexts /\ state[d] = "ParkedIo"
          /\ hit \in SUBSET Contexts
      BY <1>0 DEF IoSplit, IoDue, TypeOK
    <3>2. StillParkedIo(hit) = hit
      BY <3>1 DEF StillParkedIo
    <3>3. /\ state' = [d \in Contexts |-> IF d \in hit THEN "Runnable" ELSE state[d]]
          /\ \E q \in Orders(Queueable(hit)) : runQueue' = runQueue \o q
      BY <2>2, <3>2 DEF HarvestIoEvents, WakeForIo, WithState
    <3>4. closing' = closing /\ ioWaits' = ioWaits \ hit /\ pc' = pc
          /\ ioArmed' \in [Contexts -> BOOLEAN]
      BY <1>0, <2>2 DEF HarvestIoEvents, WakeForIo, TypeOK
    <3>5. \A d \in Contexts : IoDue(d)' <=> IoDue(d) /\ d \notin hit
      BY <1>0, <3>4 DEF IoDue, IoPlaces
    <3>6. IoPlaces'
      BY <1>0, <3>4 DEF IoPlaces
    <3> QED
      BY <1>0, <3>1, <3>3, <3>4, <3>5, <3>6 DEF TypeOK
  <2> QED
    BY <2>1, <2>2
<1>2. UNCHANGED <<frames, framesParked, lastCarrier, parkHandle, selectSet,
                   joinResultDst, rethrow, failExc, failObserved, nextId,
                   timers, timerNotify, carrierVars, countVars, stopRequested,
                   hostVars, program, pumpVars, focus, freezeDepth>>
      /\ poller' \in {"wait", "poll", "notify"}
  BY <1>0 DEF WakeClosed, HarvestIoEvents, TypeOK
<1>3. /\ runQueue' \in Seq(Contexts) /\ Distinct(runQueue')
      /\ \A d \in Contexts : Occurs(d, runQueue') <=>
            Occurs(d, runQueue) \/ (d \in S /\ framesParked[d])
  <2>1. PICK q \in Orders(Queueable(S)) : runQueue' = runQueue \o q
    BY <1>1
  <2>2. \A d \in S : state[d] \in Parked
    BY <1>1 DEF Parked
  <2> QED
    BY <1>1, <2>1, <2>2, QueueGrows
<1>4. CountersNat' => TypeOK'
  <2>1. pc' \in [Carriers -> Locations] /\ state' \in [Contexts -> States]
    BY <1>0, <1>1 DEF TypeOK, Locations, States
  <2>2. ioWaits' \subseteq Contexts /\ ioArmed' \in [Contexts -> BOOLEAN]
    BY <1>1
  <2> QED
    BY <1>0, <1>2, <1>3, <2>1, <2>2 DEF TypeOK, CountersNat
<1>5. PlaceInv' /\ Tame
  BY <1>0, <1>1, <1>2 DEF PlaceInv, Tame, Nesting, InHand, Torn, TypeOK, DebugTypeOK, Waits
<1>6. Apart
  BY <1>0, <1>1, <1>2 DEF Apart, SyncParked, TypeOK
<1>7. \E l \in Locations : Tally(k, l, stage[k])
  BY <1>0, <1>1, <1>2 DEF Tally, TypeOK, DebugTypeOK, Is, CountsAsIdle, InFlight, Locations, Waits
<1>8. Wake(S)
  <2>1. \A j \in Carriers :
          \/ pc'[j] = pc[j] /\ running'[j] = running[j]
          \/ CarrierAt(j, pc[j])' /\ running'[j] = running[j]
    BY <1>0, <1>1, <1>2 DEF TypeOK, CarrierAt, Busy, Free
  <2>2. \A d \in Contexts : d \in timers' <=> d \in timers /\ d \notin S
    BY <1>0, <1>1, <1>2 DEF TimerInv
  <2> QED
    BY <1>1, <1>2, <1>3, <2>1, <2>2 DEF Wake, Parked
<1> QED
  BY <1>0, <1>1, <1>4, <1>5, <1>6, <1>7, <1>8, Counted, WakeKeeps DEF Sound

\* The other steps of parked I/O and of the poller.
LEMMA IoMoves ==
    ASSUME IndInv, NEW k \in Carriers, NoTeardown', NEW ids \in SUBSET ioWaits, UNCHANGED <<syncVars, debugVars>>,
           \/ RetryIo(k)
           \/ PollerStarts
           \/ PollerNotifies
           \/ FinishParkedNative(k)
           \/ CloseFd(k, ids)
           \/ ParkForIo(k)
    PROVE  Sound /\ Apart /\ closing' \in [Carriers -> SUBSET Contexts]
<1> USE DEF syncVars, debugVars
<1>0. /\ IndInv
      /\ TypeOK /\ DebugTypeOK /\ PlaceInv /\ Nesting /\ IoPlaces
      /\ CarrierAt(k, pc[k]) /\ pc[k] \in Locations
      /\ pc'[k] \notin Torn /\ running[k] \in Contexts \cup {NoContext}
      /\ closing \in [Carriers -> SUBSET Contexts] /\ IoSplit
      /\ stage[k] \in Sections /\ NoContext \notin Contexts
  BY Base, Here DEF NoTeardown, IndInv, IoInv, IoSplit, IoDue
<1>1. CASE RetryIo(k)
  <2>1. CountersNat' => TypeOK'
    BY <1>0, <1>1 DEF TypeOK, CountersNat, RetryIo, At, States, Parked, Locations, Waits, CarrierAt, Busy
  <2>2. PlaceInv' /\ Tame
    BY <1>0, <1>1 DEF PlaceInv, Tame, Nesting, InHand, Torn, TypeOK, DebugTypeOK, RetryIo, At, Waits
  <2>3. IoPlaces' /\ Apart
    BY <1>0, <1>1 DEF IoPlaces, Apart, TypeOK, RetryIo, At, Waits, SyncParked
  <2>4. Tally(k, pc[k], stage[k]) /\ pc[k] \in Locations
    BY <1>0, <1>1 DEF Tally, TypeOK, DebugTypeOK, RetryIo, At, Is, CountsAsIdle, InFlight, Locations, Waits
  <2>5. Quiet
    BY <1>0, <1>1 DEF Quiet, RetryIo, At, dispatchVars, waitVars
  <2>6. closing' \in [Carriers -> SUBSET Contexts]
    BY <1>0, <1>1 DEF TypeOK, RetryIo, At
  <2> QED
    BY <1>0, <2>1, <2>2, <2>3, <2>4, <2>5, <2>6, Counted, QuietWakes, WakeKeeps DEF Sound
<1>2. CASE PollerStarts
  <2>1. CountersNat' => TypeOK'
    BY <1>0, <1>2 DEF TypeOK, CountersNat, PollerStarts, States, Parked, Locations, Waits, CarrierAt, Busy
  <2>2. PlaceInv' /\ Tame
    BY <1>0, <1>2 DEF PlaceInv, Tame, Nesting, InHand, Torn, TypeOK, DebugTypeOK, PollerStarts, Waits
  <2>3. IoPlaces' /\ Apart
    BY <1>0, <1>2 DEF IoPlaces, Apart, TypeOK, PollerStarts, Waits, SyncParked
  <2>4. Tally(k, pc[k], stage[k]) /\ pc[k] \in Locations
    BY <1>0, <1>2 DEF Tally, TypeOK, DebugTypeOK, PollerStarts, Is, CountsAsIdle, InFlight, Locations, Waits
  <2>5. Quiet
    BY <1>0, <1>2 DEF Quiet, PollerStarts, dispatchVars, waitVars
  <2>6. closing' \in [Carriers -> SUBSET Contexts]
    BY <1>0, <1>2 DEF TypeOK, PollerStarts
  <2> QED
    BY <1>0, <2>1, <2>2, <2>3, <2>4, <2>5, <2>6, Counted, QuietWakes, WakeKeeps DEF Sound
<1>3. CASE PollerNotifies
  <2>1. CountersNat' => TypeOK'
    BY <1>0, <1>3 DEF TypeOK, CountersNat, PollerNotifies, States, Parked, Locations, Waits, CarrierAt, Busy
  <2>2. PlaceInv' /\ Tame
    BY <1>0, <1>3 DEF PlaceInv, Tame, Nesting, InHand, Torn, TypeOK, DebugTypeOK, PollerNotifies, Waits
  <2>3. IoPlaces' /\ Apart
    BY <1>0, <1>3 DEF IoPlaces, Apart, TypeOK, PollerNotifies, Waits, SyncParked
  <2>4. Tally(k, pc[k], stage[k]) /\ pc[k] \in Locations
    BY <1>0, <1>3 DEF Tally, TypeOK, DebugTypeOK, PollerNotifies, Is, CountsAsIdle, InFlight, Locations, Waits
  <2>5. Quiet
    BY <1>0, <1>3 DEF Quiet, PollerNotifies, dispatchVars, waitVars
  <2>6. closing' \in [Carriers -> SUBSET Contexts]
    BY <1>0, <1>3 DEF TypeOK, PollerNotifies
  <2> QED
    BY <1>0, <2>1, <2>2, <2>3, <2>4, <2>5, <2>6, Counted, QuietWakes, WakeKeeps DEF Sound
<1>4. CASE FinishParkedNative(k) /\ stopRequested
  <2>0. windows[k] = <<>> /\ ~Nested(k)
    BY <1>0, <1>4 DEF FinishParkedNative, Go, TypeOK, Torn, Nested
  <2>1. CountersNat' => TypeOK'
    BY <1>0, <1>4, <2>0 DEF TypeOK, CountersNat, FinishParkedNative, At, Go, States, Parked, Locations, Waits, CarrierAt, Busy
  <2>2. PlaceInv' /\ Tame
    BY <1>0, <1>4, <2>0 DEF PlaceInv, Tame, Nesting, InHand, Torn, TypeOK, DebugTypeOK, FinishParkedNative, At, Go, Waits
  <2>3. IoPlaces' /\ Apart
    BY <1>0, <1>4, <2>0 DEF IoPlaces, Apart, TypeOK, FinishParkedNative, At, Go, Waits, SyncParked
  <2>4. Tally(k, "leave", stage[k]) /\ "leave" \in Locations
    BY <1>0, <1>4, <2>0 DEF Tally, TypeOK, DebugTypeOK, FinishParkedNative, At, Go, Is, CountsAsIdle, InFlight, Locations, Waits
  <2>5. Shift(k, "leave")
    BY <1>0, <1>4, <2>0 DEF Shift, CarrierAt, Free, Busy, FinishParkedNative, At, Go, dispatchVars, IoDue, Waits
  <2>6. closing' \in [Carriers -> SUBSET Contexts]
    BY <1>0, <1>4, <2>0 DEF TypeOK, FinishParkedNative, At, Go
  <2> QED
    BY <1>0, <2>1, <2>2, <2>3, <2>4, <2>5, <2>6, Counted, ShiftWakes, WakeKeeps DEF Sound
<1>5. CASE FinishParkedNative(k) /\ ~stopRequested
  <2>1. CountersNat' => TypeOK'
    BY <1>0, <1>5 DEF TypeOK, CountersNat, FinishParkedNative, At, Go, States, Parked, Locations, Waits, CarrierAt, Busy
  <2>2. PlaceInv' /\ Tame
    BY <1>0, <1>5 DEF PlaceInv, Tame, Nesting, InHand, Torn, TypeOK, DebugTypeOK, FinishParkedNative, At, Go, Waits
  <2>3. IoPlaces' /\ Apart
    BY <1>0, <1>5 DEF IoPlaces, Apart, TypeOK, FinishParkedNative, At, Go, Waits, SyncParked
  <2>4. Tally(k, "unwind", stage[k]) /\ "unwind" \in Locations
    BY <1>0, <1>5 DEF Tally, TypeOK, DebugTypeOK, FinishParkedNative, At, Go, Is, CountsAsIdle, InFlight, Locations, Waits
  <2>5. Shift(k, "unwind")
    BY <1>0, <1>5 DEF Shift, CarrierAt, Free, Busy, FinishParkedNative, At, Go, dispatchVars, IoDue, Waits, Parked
  <2>6. closing' \in [Carriers -> SUBSET Contexts]
    BY <1>0, <1>5 DEF TypeOK, FinishParkedNative, At, Go
  <2> QED
    BY <1>0, <2>1, <2>2, <2>3, <2>4, <2>5, <2>6, Counted, ShiftWakes, WakeKeeps DEF Sound
<1>6. CASE CloseFd(k, ids)
  <2>1. CountersNat' => TypeOK'
    BY <1>0, <1>6 DEF TypeOK, CountersNat, CloseFd, At, Go, Runs, States, Parked, Locations, Waits, CarrierAt, Busy
  <2>2. PlaceInv' /\ Tame
    BY <1>0, <1>6 DEF PlaceInv, Tame, Nesting, InHand, Torn, TypeOK, DebugTypeOK, CloseFd, At, Go, Runs, Waits
  <2>3. IoPlaces' /\ Apart
    BY <1>0, <1>6 DEF IoPlaces, Apart, TypeOK, CloseFd, At, Go, Runs, Waits, SyncParked
  <2>4. Tally(k, "ioclose", stage[k]) /\ "ioclose" \in Locations
    BY <1>0, <1>6 DEF Tally, TypeOK, DebugTypeOK, CloseFd, At, Go, Runs, Is, CountsAsIdle, InFlight, Locations, Waits
  <2>5. Shift(k, "ioclose")
    BY <1>0, <1>6 DEF Shift, CarrierAt, Free, Busy, CloseFd, At, Go, Runs, dispatchVars, IoDue, Waits, IoPlaces
  <2>6. closing' \in [Carriers -> SUBSET Contexts]
    BY <1>0, <1>6 DEF TypeOK, CloseFd, At, Go, Runs
  <2> QED
    BY <1>0, <2>1, <2>2, <2>3, <2>4, <2>5, <2>6, Counted, ShiftWakes, WakeKeeps DEF Sound
<1>7. CASE ParkForIo(k)
  <2>0. running[k] \in Contexts /\ ~IoDue(running[k])
    BY <1>0, <1>7 DEF ParkForIo, At, Go, Released, GateWaitersTold, OneBlockedLess, CarrierAt, Busy, IoSplit
  <2>1. CountersNat' => TypeOK'
    BY <1>0, <1>7 DEF TypeOK, CountersNat, ParkForIo, At, Go, Released, GateWaitersTold, OneBlockedLess, States, Parked, Locations, Waits, CarrierAt, Busy
  <2>2. PlaceInv' /\ Tame
    BY <1>0, <1>7 DEF PlaceInv, Tame, Nesting, InHand, Torn, TypeOK, DebugTypeOK, ParkForIo, At, Go, Released, GateWaitersTold, OneBlockedLess, Waits
  <2>3. IoPlaces' /\ UNCHANGED <<waiters, call>> /\ pc[k] \in {"run", "native"}
    BY <1>0, <1>7, <2>0 DEF IoPlaces, TypeOK, ParkForIo, At, Go, Released, GateWaitersTold, OneBlockedLess, IoDue
  <2>4. Tally(k, "ioparked", stage[k]) /\ "ioparked" \in Locations
    BY <1>0, <1>7 DEF Tally, TypeOK, DebugTypeOK, ParkForIo, At, Go, Released, GateWaitersTold, OneBlockedLess, Is, CountsAsIdle, InFlight, Locations, Waits
  <2>5. Own(k, "ParkedIo", "ioparked") /\ "ParkedIo" \in States
    BY <1>0, <1>7 DEF Own, CarrierAt, Free, Busy, TypeOK, ParkForIo, At, Go, Released, GateWaitersTold, OneBlockedLess, IoDue, States, Parked
  <2>6. closing' \in [Carriers -> SUBSET Contexts]
    BY <1>0, <1>7 DEF TypeOK, ParkForIo, At, Go, Released, GateWaitersTold, OneBlockedLess
  <2> QED
    BY <1>0, <2>1, <2>2, <2>3, <2>4, <2>5, <2>6, Counted, OwnKeeps, OwnApart DEF Sound, SyncParked
<1> QED
  BY <1>1, <1>2, <1>3, <1>4, <1>5, <1>6, <1>7


\* The sections of a debugger checkpoint.
LEMMA DebugMoves ==
    ASSUME IndInv, NEW k \in Carriers, UNCHANGED <<syncVars, closing>>, NEW target,
           \/ Checkpoint(k)
           \/ EnterFreezePark(k)
           \/ EnqueueFreeze(k)
           \/ OpenFreezeWindow(k)
           \/ Resume(k, target)
           \/ CloseFreezeWindow(k)
           \/ ExitFreezePark(k)
           \/ ReadFocus(k)
           \/ SetDebugFocusContext(k)
    PROVE  Sound /\ Apart /\ DebugTypeOK'
<1> USE DEF syncVars, VmUnchanged
<1>0. /\ IndInv
      /\ TypeOK /\ DebugTypeOK /\ PlaceInv /\ Nesting /\ IoPlaces
      /\ CarrierAt(k, pc[k]) /\ pc[k] \in Locations
      /\ running[k] \in Contexts \cup {NoContext}
      /\ stage[k] \in Sections /\ NoContext \notin Contexts
  BY Base, Here
<1>1. CASE Checkpoint(k)
  <2>1. CountersNat' => TypeOK'
    BY <1>0, <1>1 DEF TypeOK, CountersNat, Checkpoint, Runs, At, Go, ToStage, States, Parked, Locations, Waits, DebugTypeOK
  <2>2. PlaceInv' /\ Tame
    BY <1>0, <1>1 DEF PlaceInv, Tame, Nesting, InHand, Torn, TypeOK, DebugTypeOK, Checkpoint, Runs, At, Go, ToStage, Waits
  <2>3. IoPlaces' /\ Apart
    BY <1>0, <1>1 DEF IoPlaces, Apart, TypeOK, Checkpoint, Runs, At, Go, ToStage, Waits, SyncParked
  <2>4. Tally(k, "debug", "read") /\ "debug" \in Locations /\ "read" \in Sections
    BY <1>0, <1>1 DEF Tally, TypeOK, DebugTypeOK, Checkpoint, Runs, At, Go, ToStage, Is, CountsAsIdle, InFlight, Locations, Waits, FreezeAt, Sections, PlaceInv
  <2>5. Shift(k, "debug")
    BY <1>0, <1>1 DEF Shift, CarrierAt, Free, Busy, Checkpoint, Runs, At, Go, ToStage, dispatchVars, IoDue, Waits
  <2>6. DebugTypeOK'
    BY <1>0, <1>1 DEF DebugTypeOK, Checkpoint, Runs, At, Go, ToStage, Sections, Busy, CarrierAt
  <2> QED
    BY <1>0, <2>1, <2>2, <2>3, <2>4, <2>5, <2>6, Counted, ShiftWakes, WakeKeeps DEF Sound
<1>2. CASE EnterFreezePark(k)
  <2>1. CountersNat' => TypeOK'
    BY <1>0, <1>2 DEF TypeOK, CountersNat, EnterFreezePark, Runs, At, Go, ToStage, States, Parked, Locations, Waits, DebugTypeOK
  <2>2. PlaceInv' /\ Tame
    BY <1>0, <1>2 DEF PlaceInv, Tame, Nesting, InHand, Torn, TypeOK, DebugTypeOK, EnterFreezePark, Runs, At, Go, ToStage, Waits
  <2>3. IoPlaces' /\ Apart
    BY <1>0, <1>2 DEF IoPlaces, Apart, TypeOK, EnterFreezePark, Runs, At, Go, ToStage, Waits, SyncParked
  <2>4. Tally(k, "debug", "enqueue") /\ "debug" \in Locations /\ "enqueue" \in Sections
    BY <1>0, <1>2 DEF Tally, TypeOK, DebugTypeOK, EnterFreezePark, Runs, At, Go, ToStage, Is, CountsAsIdle, InFlight, Locations, Waits, FreezeAt, Sections, PlaceInv
  <2>5. Shift(k, "debug")
    BY <1>0, <1>2 DEF Shift, CarrierAt, Free, Busy, EnterFreezePark, Runs, At, Go, ToStage, dispatchVars, IoDue, Waits
  <2>6. DebugTypeOK'
    BY <1>0, <1>2 DEF DebugTypeOK, EnterFreezePark, Runs, At, Go, ToStage, Sections, Busy, CarrierAt
  <2> QED
    BY <1>0, <2>1, <2>2, <2>3, <2>4, <2>5, <2>6, Counted, ShiftWakes, WakeKeeps DEF Sound
<1>3. CASE EnqueueFreeze(k)
  <2>1. CountersNat' => TypeOK'
    BY <1>0, <1>3 DEF TypeOK, CountersNat, EnqueueFreeze, InStage, At, Go, ToStage, States, Parked, Locations, Waits, DebugTypeOK
  <2>2. PlaceInv' /\ Tame
    BY <1>0, <1>3 DEF PlaceInv, Tame, Nesting, InHand, Torn, TypeOK, DebugTypeOK, EnqueueFreeze, InStage, At, Go, ToStage, Waits
  <2>3. IoPlaces' /\ Apart
    BY <1>0, <1>3 DEF IoPlaces, Apart, TypeOK, EnqueueFreeze, InStage, At, Go, ToStage, Waits, SyncParked
  <2>4. Tally(k, pc[k], "await") /\ pc[k] \in Locations /\ "await" \in Sections
    BY <1>0, <1>3 DEF Tally, TypeOK, DebugTypeOK, EnqueueFreeze, InStage, At, Go, ToStage, Is, CountsAsIdle, InFlight, Locations, Waits, FreezeAt, Sections, PlaceInv
  <2>5. Quiet
    BY <1>0, <1>3 DEF Quiet, EnqueueFreeze, InStage, At, Go, ToStage, dispatchVars, waitVars
  <2>6. DebugTypeOK'
    BY <1>0, <1>3 DEF DebugTypeOK, EnqueueFreeze, InStage, At, Go, ToStage, Sections, Busy, CarrierAt
  <2> QED
    BY <1>0, <2>1, <2>2, <2>3, <2>4, <2>5, <2>6, Counted, QuietWakes, WakeKeeps DEF Sound
<1>4. CASE OpenFreezeWindow(k)
  <2>1. CountersNat' => TypeOK'
    BY <1>0, <1>4 DEF TypeOK, CountersNat, OpenFreezeWindow, InStage, At, Go, ToStage, States, Parked, Locations, Waits, DebugTypeOK
  <2>2. PlaceInv' /\ Tame
    BY <1>0, <1>4 DEF PlaceInv, Tame, Nesting, InHand, Torn, TypeOK, DebugTypeOK, OpenFreezeWindow, InStage, At, Go, ToStage, Waits
  <2>3. IoPlaces' /\ Apart
    BY <1>0, <1>4 DEF IoPlaces, Apart, TypeOK, OpenFreezeWindow, InStage, At, Go, ToStage, Waits, SyncParked
  <2>4. Tally(k, pc[k], "window") /\ pc[k] \in Locations /\ "window" \in Sections
    BY <1>0, <1>4 DEF Tally, TypeOK, DebugTypeOK, OpenFreezeWindow, InStage, At, Go, ToStage, Is, CountsAsIdle, InFlight, Locations, Waits, FreezeAt, Sections, PlaceInv
  <2>5. Quiet
    BY <1>0, <1>4 DEF Quiet, OpenFreezeWindow, InStage, At, Go, ToStage, dispatchVars, waitVars
  <2>6. DebugTypeOK'
    BY <1>0, <1>4 DEF DebugTypeOK, OpenFreezeWindow, InStage, At, Go, ToStage, Sections, Busy, CarrierAt
  <2> QED
    BY <1>0, <2>1, <2>2, <2>3, <2>4, <2>5, <2>6, Counted, QuietWakes, WakeKeeps DEF Sound
<1>5. CASE Resume(k, target)
  <2>1. CountersNat' => TypeOK'
    BY <1>0, <1>5 DEF TypeOK, CountersNat, Resume, InStage, Registered, At, Go, ToStage, States, Parked, Locations, Waits, DebugTypeOK
  <2>2. PlaceInv' /\ Tame
    BY <1>0, <1>5 DEF PlaceInv, Tame, Nesting, InHand, Torn, TypeOK, DebugTypeOK, Resume, InStage, Registered, At, Go, ToStage, Waits
  <2>3. IoPlaces' /\ Apart
    BY <1>0, <1>5 DEF IoPlaces, Apart, TypeOK, Resume, InStage, Registered, At, Go, ToStage, Waits, SyncParked
  <2>4. Tally(k, pc[k], "close") /\ pc[k] \in Locations /\ "close" \in Sections
    BY <1>0, <1>5 DEF Tally, TypeOK, DebugTypeOK, Resume, InStage, Registered, At, Go, ToStage, Is, CountsAsIdle, InFlight, Locations, Waits, FreezeAt, Sections, PlaceInv
  <2>5. Quiet
    BY <1>0, <1>5 DEF Quiet, Resume, InStage, Registered, At, Go, ToStage, dispatchVars, waitVars
  <2>6. DebugTypeOK'
    BY <1>0, <1>5 DEF DebugTypeOK, Resume, InStage, Registered, At, Go, ToStage, Sections, Busy, CarrierAt
  <2> QED
    BY <1>0, <2>1, <2>2, <2>3, <2>4, <2>5, <2>6, Counted, QuietWakes, WakeKeeps DEF Sound
<1>6. CASE CloseFreezeWindow(k)
  <2>1. CountersNat' => TypeOK'
    BY <1>0, <1>6 DEF TypeOK, CountersNat, CloseFreezeWindow, NextFreezer, InStage, At, Go, ToStage, States, Parked, Locations, Waits, DebugTypeOK
  <2>2. PlaceInv' /\ Tame
    BY <1>0, <1>6 DEF PlaceInv, Tame, Nesting, InHand, Torn, TypeOK, DebugTypeOK, CloseFreezeWindow, NextFreezer, InStage, At, Go, ToStage, Waits
  <2>3. IoPlaces' /\ Apart
    BY <1>0, <1>6 DEF IoPlaces, Apart, TypeOK, CloseFreezeWindow, NextFreezer, InStage, At, Go, ToStage, Waits, SyncParked
  <2>4. Tally(k, pc[k], "exit") /\ pc[k] \in Locations /\ "exit" \in Sections
    BY <1>0, <1>6 DEF Tally, TypeOK, DebugTypeOK, CloseFreezeWindow, NextFreezer, InStage, At, Go, ToStage, Is, CountsAsIdle, InFlight, Locations, Waits, FreezeAt, Sections, PlaceInv
  <2>5. Quiet
    BY <1>0, <1>6 DEF Quiet, CloseFreezeWindow, NextFreezer, InStage, At, Go, ToStage, dispatchVars, waitVars
  <2>6. DebugTypeOK'
    BY <1>0, <1>6 DEF DebugTypeOK, CloseFreezeWindow, NextFreezer, InStage, At, Go, ToStage, Sections, Busy, CarrierAt
  <2> QED
    BY <1>0, <2>1, <2>2, <2>3, <2>4, <2>5, <2>6, Counted, QuietWakes, WakeKeeps DEF Sound
<1>7. CASE ExitFreezePark(k)
  <2>1. CountersNat' => TypeOK'
    BY <1>0, <1>7 DEF TypeOK, CountersNat, ExitFreezePark, OneThaws, ThawTold, InStage, At, Go, ToStage, States, Parked, Locations, Waits, DebugTypeOK
  <2>2. PlaceInv' /\ Tame
    BY <1>0, <1>7 DEF PlaceInv, Tame, Nesting, InHand, Torn, TypeOK, DebugTypeOK, ExitFreezePark, OneThaws, ThawTold, InStage, At, Go, ToStage, Waits
  <2>3. IoPlaces' /\ Apart
    BY <1>0, <1>7 DEF IoPlaces, Apart, TypeOK, ExitFreezePark, OneThaws, ThawTold, InStage, At, Go, ToStage, Waits, SyncParked
  <2>4. Tally(k, pc[k], "read") /\ pc[k] \in Locations /\ "read" \in Sections
    BY <1>0, <1>7 DEF Tally, TypeOK, DebugTypeOK, ExitFreezePark, OneThaws, ThawTold, InStage, At, Go, ToStage, Is, CountsAsIdle, InFlight, Locations, Waits, FreezeAt, Sections, PlaceInv
  <2>5. Quiet
    BY <1>0, <1>7 DEF Quiet, ExitFreezePark, OneThaws, ThawTold, InStage, At, Go, ToStage, dispatchVars, waitVars
  <2>6. DebugTypeOK'
    BY <1>0, <1>7 DEF DebugTypeOK, ExitFreezePark, OneThaws, ThawTold, InStage, At, Go, ToStage, Sections, Busy, CarrierAt
  <2> QED
    BY <1>0, <2>1, <2>2, <2>3, <2>4, <2>5, <2>6, Counted, QuietWakes, WakeKeeps DEF Sound
<1>8. CASE ReadFocus(k)
  <2>1. CountersNat' => TypeOK'
    BY <1>0, <1>8 DEF TypeOK, CountersNat, ReadFocus, InStage, At, Go, ToStage, States, Parked, Locations, Waits, DebugTypeOK
  <2>2. PlaceInv' /\ Tame
    BY <1>0, <1>8 DEF PlaceInv, Tame, Nesting, InHand, Torn, TypeOK, DebugTypeOK, ReadFocus, InStage, At, Go, ToStage, Waits
  <2>3. IoPlaces' /\ Apart
    BY <1>0, <1>8 DEF IoPlaces, Apart, TypeOK, ReadFocus, InStage, At, Go, ToStage, Waits, SyncParked
  <2>4. Tally(k, pc[k], "publish") /\ pc[k] \in Locations /\ "publish" \in Sections
    BY <1>0, <1>8 DEF Tally, TypeOK, DebugTypeOK, ReadFocus, InStage, At, Go, ToStage, Is, CountsAsIdle, InFlight, Locations, Waits, FreezeAt, Sections, PlaceInv
  <2>5. Quiet
    BY <1>0, <1>8 DEF Quiet, ReadFocus, InStage, At, Go, ToStage, dispatchVars, waitVars
  <2>6. DebugTypeOK'
    BY <1>0, <1>8 DEF DebugTypeOK, ReadFocus, InStage, At, Go, ToStage, Sections, Busy, CarrierAt
  <2> QED
    BY <1>0, <2>1, <2>2, <2>3, <2>4, <2>5, <2>6, Counted, QuietWakes, WakeKeeps DEF Sound
<1>9. CASE SetDebugFocusContext(k)
  <2>1. CountersNat' => TypeOK'
    BY <1>0, <1>9 DEF TypeOK, CountersNat, SetDebugFocusContext, FocusChangeTold, InStage, At, Go, ToStage, States, Parked, Locations, Waits, DebugTypeOK
  <2>2. PlaceInv' /\ Tame
    BY <1>0, <1>9 DEF PlaceInv, Tame, Nesting, InHand, Torn, TypeOK, DebugTypeOK, SetDebugFocusContext, FocusChangeTold, InStage, At, Go, ToStage, Waits
  <2>3. IoPlaces' /\ Apart
    BY <1>0, <1>9 DEF IoPlaces, Apart, TypeOK, SetDebugFocusContext, FocusChangeTold, InStage, At, Go, ToStage, Waits, SyncParked
  <2>4. Tally(k, "run", "none") /\ "run" \in Locations /\ "none" \in Sections
    BY <1>0, <1>9 DEF Tally, TypeOK, DebugTypeOK, SetDebugFocusContext, FocusChangeTold, InStage, At, Go, ToStage, Is, CountsAsIdle, InFlight, Locations, Waits, FreezeAt, Sections, PlaceInv
  <2>5. Shift(k, "run")
    BY <1>0, <1>9 DEF Shift, CarrierAt, Free, Busy, SetDebugFocusContext, FocusChangeTold, InStage, At, Go, ToStage, dispatchVars, IoDue, Waits
  <2>6. DebugTypeOK'
    BY <1>0, <1>9 DEF DebugTypeOK, SetDebugFocusContext, FocusChangeTold, InStage, At, Go, ToStage, Sections, Busy, CarrierAt
  <2> QED
    BY <1>0, <2>1, <2>2, <2>3, <2>4, <2>5, <2>6, Counted, ShiftWakes, WakeKeeps DEF Sound
<1> QED
  BY <1>1, <1>2, <1>3, <1>4, <1>5, <1>6, <1>7, <1>8, <1>9


-----------------------------------------------------------------------------
\* The type of a table entry.
LEMMA EntryTyped ==
    ASSUME IndInv, NEW p \in Primitives, NEW i \in DOMAIN waiters[p]
    PROVE  /\ waiters[p] \in Seq(Entries)
           /\ waiters[p][i] \in Entries
           /\ waiters[p][i].ctx \in Contexts
           /\ waiters[p][i].phase \in Phases
<1>1. waiters[p] \in Seq(Entries)
  BY DEF IndInv, Types, SyncTypeOK
<1>2. waiters[p][i] \in Entries
  BY <1>1
<1> QED
  BY <1>1, <1>2 DEF Entries

\* What the invariant says of the locks.
LEMMA SyncFacts ==
    ASSUME IndInv
    PROVE  /\ CallInv /\ HandedOnce /\ OneEntry /\ EntryInv /\ GrantInv /\ CarriedOnce
           /\ waiters \in [Primitives -> Seq(Entries)] /\ call \in [Carriers -> Calls]
           /\ state \in [Contexts -> States] /\ pc \in [Carriers -> Locations]
           /\ NoContext \notin Contexts
           /\ \A j \in Carriers : running[j] \in Contexts \cup {NoContext}
           /\ \A j \in Carriers : pc[j] = "sync" => running[j] \in Contexts
<1>1. NoContext \notin Contexts
  BY DEF NoContext, Contexts
<1>2. CallInv /\ HandedOnce /\ OneEntry /\ EntryInv /\ GrantInv /\ CarriedOnce /\ Types
  BY DEF IndInv, SyncInv
<1> QED
  BY <1>1, <1>2, Here DEF Types, TypeOK, SyncTypeOK, Busy

\* The entry of a context is unique, with its table and its phase.
LEMMA EntryAlone ==
    ASSUME IndInv
    PROVE  /\ \A p, q \in Primitives, c \in Contexts, f, g \in Phases :
                 Entry(p, c, f) /\ Entry(q, c, g) => p = q /\ f = g
           /\ \A k \in Carriers : call[k].stage # "none" => call[k].on \in Primitives
<1>1. OneEntry /\ call \in [Carriers -> Calls]
  BY SyncFacts
<1>2. \A p, q \in Primitives, c \in Contexts, f, g \in Phases :
         Entry(p, c, f) /\ Entry(q, c, g) => p = q /\ f = g
  BY <1>1 DEF OneEntry, Entry
<1>3. \A k \in Carriers : call[k].stage # "none" => call[k].on \in Primitives
  BY <1>1 DEF Calls, NoCall
<1> QED
  BY <1>2, <1>3

\* A step that stands apart from the locks keeps their invariant.
LEMMA ApartKeepsSync ==
    ASSUME IndInv, Apart
    PROVE  SyncInv'
<1>1. /\ CallInv /\ HandedOnce /\ OneEntry /\ EntryInv /\ GrantInv /\ CarriedOnce
      /\ NoContext \notin Contexts
      /\ \A k \in Carriers : running[k] \in Contexts \cup {NoContext}
  BY SyncFacts
<1>2. /\ waiters' = waiters /\ call' = call
      /\ \A p, c, ph : Entry(p, c, ph)' <=> Entry(p, c, ph)
  BY DEF Apart, Entry
<1>3. \A c \in Contexts : /\ state[c] \in SyncParked => state'[c] = state[c]
                          /\ state'[c] \in SyncParked => state'[c] = state[c]
  BY DEF Apart
<1>4. \A k \in Carriers : pc[k] = "sync" =>
         /\ pc'[k] = "sync" /\ running'[k] = running[k] /\ running[k] \in Contexts
         /\ state'[running[k]] = state[running[k]]
  <2> SUFFICES ASSUME NEW k \in Carriers, pc[k] = "sync"
               PROVE  /\ pc'[k] = "sync" /\ running'[k] = running[k] /\ running[k] \in Contexts
                      /\ state'[running[k]] = state[running[k]]
    OBVIOUS
  <2>1. running[k] \in Contexts /\ state[running[k]] \in SyncParked \cup {"Runnable"}
    BY Here DEF CarrierAt, Busy, SyncParked
  <2> QED
    BY <1>1, <2>1 DEF Apart, CarriedOnce
<1>5. \A k \in Carriers : pc'[k] = "sync" => pc[k] = "sync"
  BY DEF Apart
<1>6. ASSUME NEW c \in Contexts, state[c] \in SyncParked,
             \A l \in Carriers : running[l] = c => pc[l] = "unwind"
      PROVE  \A l \in Carriers : running'[l] = c => pc'[l] = "unwind"
  BY <1>1, <1>6 DEF Apart, SyncParked
<1>7. CallInv'
  <2> SUFFICES ASSUME NEW k \in Carriers
               PROVE  CallAt(k)'
    BY DEF CallInv
  <2>1. CallAt(k)
    BY <1>1 DEF CallInv
  <2>2. CASE call[k].stage = "none"
    BY <1>2, <1>5, <2>1, <2>2 DEF CallAt
  <2>3. CASE call[k].stage # "none"
    <3>1. /\ pc'[k] = "sync" /\ running'[k] = running[k]
          /\ state'[running[k]] = state[running[k]]
      BY <1>4, <2>1, <2>3 DEF CallAt
    <3>2. call[k].stage = "handoff" =>
            /\ call[k].to \in Contexts
            /\ state'[call[k].to] \in {"ParkedMutex", "ParkedSemaphore"}
            /\ \A l \in Carriers : running'[l] = call[k].to => pc'[l] = "unwind"
      BY <1>3, <1>6, <2>1 DEF CallAt, SyncParked
    <3> QED
      BY <1>2, <2>1, <2>3, <3>1, <3>2 DEF CallAt, ParkedOn
  <2> QED
    BY <2>2, <2>3
<1>8. HandedOnce' /\ OneEntry'
  BY <1>1, <1>2, <1>4 DEF HandedOnce, CallInv, CallAt, OneEntry
<1>9. EntryInv'
  <2>1. ASSUME NEW p \in Primitives, NEW c \in Contexts,
               Entry(p, c, "Pending") \/ Entry(p, c, "Acquired")
        PROVE  \E k \in Carriers : /\ running'[k] = c
                                   /\ call[k].stage \in {"migrate", "recheck"}
                                   /\ call[k].on = p
    BY <1>1, <1>4, <2>1 DEF EntryInv, CallInv, CallAt
  <2>2. ASSUME NEW p \in Primitives, NEW c \in Contexts, Entry(p, c, "Committed")
        PROVE  /\ state'[c] = ParkedOn(p)
               /\ \A k \in Carriers : running'[k] = c => pc'[k] = "unwind"
    <3>1. state[c] = ParkedOn(p) /\ ParkedOn(p) \in SyncParked
      BY <1>1, <2>2 DEF EntryInv, ParkedOn, SyncParked
    <3>2. \A l \in Carriers : running[l] = c => pc[l] = "unwind"
      BY <1>1, <2>2 DEF EntryInv
    <3> QED
      BY <1>3, <1>6, <3>1, <3>2
  <2> QED
    BY <1>2, <2>1, <2>2 DEF EntryInv, ParkedOn
<1>10. GrantInv'
  <2> SUFFICES ASSUME NEW c \in Contexts, state'[c] \in SyncParked
               PROVE  \/ \E p \in Primitives, ph \in Phases : Entry(p, c, ph)
                      \/ \E k \in Carriers : call[k].stage = "abort" /\ running'[k] = c
                      \/ \E k \in Carriers : call[k].stage = "handoff" /\ call[k].to = c
    BY <1>2 DEF GrantInv, SyncParked
  <2>1. state[c] \in SyncParked
    BY <1>3
  <2> QED
    BY <1>1, <1>4, <2>1 DEF GrantInv, CallInv, CallAt, SyncParked
<1> QED
  BY <1>7, <1>8, <1>9, <1>10 DEF SyncInv

-----------------------------------------------------------------------------
\* The side tables have changed for context c only, index by index: its entry
\* is now in table p with phase ph (or nowhere, when ph is not a phase).
Relisted(p, c, ph) ==
    /\ waiters' \in [Primitives -> Seq(Entries)]
    /\ \A q, r \in Primitives : \A i \in DOMAIN waiters'[q], j \in DOMAIN waiters'[r] :
          waiters'[q][i].ctx = waiters'[r][j].ctx => q = r /\ i = j
    /\ \A q \in Primitives : \A i \in DOMAIN waiters'[q] :
          IF waiters'[q][i].ctx = c THEN q = p /\ waiters'[q][i].phase = ph
          ELSE \E j \in DOMAIN waiters[q] : waiters[q][j] = waiters'[q][i]
    /\ \A q \in Primitives : \A i \in DOMAIN waiters[q] : waiters[q][i].ctx # c =>
          \E j \in DOMAIN waiters'[q] : waiters'[q][j] = waiters[q][i]
    /\ ph \in Phases => \E i \in DOMAIN waiters'[p] : waiters'[p][i].ctx = c

\* The same in terms of entries.
Tabled(p, c, ph) ==
    /\ waiters' \in [Primitives -> Seq(Entries)]
    /\ OneEntry'
    /\ \A q \in Primitives, d \in Contexts, f \in Phases :
          Entry(q, d, f)' <=> IF d = c THEN q = p /\ f = ph ELSE Entry(q, d, f)

\* The first implies the second.
LEMMA Listed ==
    ASSUME NEW p \in Primitives, NEW c, NEW ph, Relisted(p, c, ph)
    PROVE  Tabled(p, c, ph)
<1>1. /\ waiters' \in [Primitives -> Seq(Entries)]
      /\ OneEntry'
  BY DEF Relisted, OneEntry
<1>2. ASSUME NEW q \in Primitives, NEW f \in Phases
      PROVE  Entry(q, c, f)' <=> q = p /\ f = ph
  BY DEF Relisted, Entry
<1>3. ASSUME NEW q \in Primitives, NEW d \in Contexts, d # c, NEW f \in Phases
      PROVE  Entry(q, d, f)' <=> Entry(q, d, f)
  <2>1. Entry(q, d, f)' => Entry(q, d, f)
    BY <1>3 DEF Relisted, Entry
  <2>2. Entry(q, d, f) => Entry(q, d, f)'
    BY <1>3 DEF Relisted, Entry
  <2> QED
    BY <2>1, <2>2
<1> QED
  BY <1>1, <1>2, <1>3 DEF Tabled

\* Register appends an entry.
LEMMA Entered ==
    ASSUME IndInv, NEW p \in Primitives, NEW c \in Contexts,
           \A q \in Primitives : \A i \in DOMAIN waiters[q] : waiters[q][i].ctx # c,
           waiters' = [waiters EXCEPT ![p] = Append(@, [ctx |-> c, phase |-> "Pending"])]
    PROVE  Tabled(p, c, "Pending")
<1> DEFINE e == [ctx |-> c, phase |-> "Pending"]
           w == Append(waiters[p], e)
<1>1. /\ waiters \in [Primitives -> Seq(Entries)] /\ e \in Entries
      /\ e.ctx = c /\ e.phase = "Pending" /\ OneEntry
  BY DEF IndInv, Types, SyncTypeOK, Entries, Phases, SyncInv
<1>2. waiters' = [waiters EXCEPT ![p] = w]
  OBVIOUS
<1> HIDE DEF e
<1>3. /\ waiters[p] \in Seq(Entries) /\ w \in Seq(Entries) /\ Len(waiters[p]) \in Nat
      /\ DOMAIN waiters[p] = 1 .. Len(waiters[p]) /\ DOMAIN w = 1 .. Len(waiters[p]) + 1
      /\ \A i \in 1 .. Len(waiters[p]) : w[i] = waiters[p][i]
      /\ w[Len(waiters[p]) + 1] = e
  BY <1>1
<1>4. /\ \A i \in DOMAIN w :
            (i \in DOMAIN waiters[p] /\ w[i] = waiters[p][i])
            \/ (i = Len(waiters[p]) + 1 /\ w[i] = e)
      /\ \A i \in DOMAIN waiters[p] : i \in DOMAIN w /\ w[i] = waiters[p][i]
      /\ \E i \in DOMAIN w : w[i] = e
  BY <1>3
<1> HIDE DEF w
<1>5. \A q \in Primitives : waiters'[q] = IF q = p THEN w ELSE waiters[q]
  BY <1>1, <1>2
<1>6. waiters' \in [Primitives -> Seq(Entries)]
  BY <1>1, <1>2, <1>3
<1>7. \A q \in Primitives : \A i \in DOMAIN waiters'[q] :
          IF waiters'[q][i].ctx = c THEN q = p /\ waiters'[q][i].phase = "Pending"
          ELSE \E j \in DOMAIN waiters[q] : waiters[q][j] = waiters'[q][i]
  BY <1>1, <1>4, <1>5
<1>8. /\ \A q \in Primitives : \A i \in DOMAIN waiters[q] :
            \E j \in DOMAIN waiters'[q] : waiters'[q][j] = waiters[q][i]
      /\ \E i \in DOMAIN waiters'[p] : waiters'[p][i] = e
  BY <1>1, <1>4, <1>5
<1>9. ASSUME NEW q \in Primitives, NEW r \in Primitives,
             NEW i \in DOMAIN waiters'[q], NEW j \in DOMAIN waiters'[r],
             waiters'[q][i].ctx = waiters'[r][j].ctx
      PROVE  q = r /\ i = j
  <2>1. CASE waiters'[q][i].ctx = c
    BY <1>1, <1>4, <1>5, <1>9, <2>1
  <2>2. CASE waiters'[q][i].ctx # c
    <3>1. /\ i \in DOMAIN waiters[q] /\ waiters'[q][i] = waiters[q][i]
          /\ j \in DOMAIN waiters[r] /\ waiters'[r][j] = waiters[r][j]
      BY <1>1, <1>4, <1>5, <1>9, <2>2
    <3> QED
      BY <1>1, <1>9, <3>1 DEF OneEntry
  <2> QED
    BY <2>1, <2>2
<1> QED
  <2>1. \A q \in Primitives : \A i \in DOMAIN waiters[q] : waiters[q][i].ctx # c =>
           \E j \in DOMAIN waiters'[q] : waiters'[q][j] = waiters[q][i]
    BY <1>8
  <2>2. \A q, r \in Primitives : \A i \in DOMAIN waiters'[q], j \in DOMAIN waiters'[r] :
           waiters'[q][i].ctx = waiters'[r][j].ctx => q = r /\ i = j
    BY <1>9
  <2> QED
    <3>1. Relisted(p, c, "Pending")
      BY <1>1, <1>6, <1>7, <1>8, <2>1, <2>2 DEF Relisted
    <3> QED
      BY <3>1, Listed

\* Stamping changes the phase of an entry.
LEMMA Restamped ==
    ASSUME IndInv, NEW p \in Primitives, NEW i \in DOMAIN waiters[p], NEW ph \in Phases,
           waiters' = [waiters EXCEPT ![p] =
                          [@ EXCEPT ![i] = [ctx |-> waiters[p][i].ctx, phase |-> ph]]]
    PROVE  Tabled(p, waiters[p][i].ctx, ph)
<1> DEFINE c == waiters[p][i].ctx
           e == [ctx |-> c, phase |-> ph]
           w == [waiters[p] EXCEPT ![i] = e]
<1>1. /\ waiters \in [Primitives -> Seq(Entries)] /\ e \in Entries
      /\ e.ctx = c /\ e.phase = ph /\ OneEntry /\ waiters[p] \in Seq(Entries)
  BY EntryTyped DEF IndInv, Types, SyncTypeOK, Entries, SyncInv
<1>2. waiters' = [waiters EXCEPT ![p] = w]
  OBVIOUS
<1> HIDE DEF e
<1>3. /\ w \in Seq(Entries) /\ DOMAIN w = DOMAIN waiters[p]
      /\ \A j \in DOMAIN w : w[j] = IF j = i THEN e ELSE waiters[p][j]
  BY <1>1
<1> HIDE DEF w
<1>5. \A q \in Primitives : waiters'[q] = IF q = p THEN w ELSE waiters[q]
  BY <1>1, <1>2
<1>6. waiters' \in [Primitives -> Seq(Entries)]
  BY <1>1, <1>2, <1>3
<1>7. ASSUME NEW q \in Primitives, NEW j \in DOMAIN waiters'[q]
      PROVE  /\ j \in DOMAIN waiters[q] /\ waiters'[q][j].ctx = waiters[q][j].ctx
             /\ IF waiters'[q][j].ctx = c THEN q = p /\ waiters'[q][j].phase = ph
                ELSE waiters[q][j] = waiters'[q][j]
  <2>1. j \in DOMAIN waiters[q] /\ waiters'[q][j].ctx = waiters[q][j].ctx
    BY <1>1, <1>3, <1>5 
  <2>2. q = p /\ j = i => waiters'[q][j] = e
    BY <1>3, <1>5
  <2>3. ~(q = p /\ j = i) => waiters'[q][j] = waiters[q][j] /\ waiters[q][j].ctx # c
    BY <1>1, <1>3, <1>5, <2>1 DEF OneEntry
  <2> QED
    BY <1>1, <2>1, <2>2, <2>3
<1>8. /\ \A q \in Primitives : \A j \in DOMAIN waiters[q] : waiters[q][j].ctx # c =>
            \E l \in DOMAIN waiters'[q] : waiters'[q][l] = waiters[q][j]
      /\ \E j \in DOMAIN waiters'[p] : waiters'[p][j].ctx = c
  BY <1>1, <1>3, <1>5
<1>9. \A q, r \in Primitives : \A j \in DOMAIN waiters'[q], l \in DOMAIN waiters'[r] :
          waiters'[q][j].ctx = waiters'[r][l].ctx => q = r /\ j = l
  BY <1>1, <1>7 DEF OneEntry
<1> QED
  <2>1. \A q \in Primitives : \A j \in DOMAIN waiters'[q] :
           IF waiters'[q][j].ctx = c THEN q = p /\ waiters'[q][j].phase = ph
           ELSE \E l \in DOMAIN waiters[q] : waiters[q][l] = waiters'[q][j]
    BY <1>7
  <2>2. Relisted(p, c, ph)
    BY <1>6, <1>8, <1>9, <2>1 DEF Relisted
  <2> QED
    BY <2>2, Listed

\* Without takes an entry out.
LEMMA Struck ==
    ASSUME IndInv, NEW p \in Primitives, NEW i \in DOMAIN waiters[p],
           waiters' = [waiters EXCEPT ![p] = Without(@, i)]
    PROVE  Tabled(p, waiters[p][i].ctx, "none")
<1> DEFINE c == waiters[p][i].ctx
           w == Without(waiters[p], i)
<1>1. /\ waiters \in [Primitives -> Seq(Entries)] /\ OneEntry /\ waiters[p] \in Seq(Entries)
  BY EntryTyped DEF IndInv, Types, SyncTypeOK, SyncInv
<1>2. waiters' = [waiters EXCEPT ![p] = w]
  OBVIOUS
<1>3. w = Skipping(waiters[p], i)
  BY DEF Without, Skipping
<1>4. Distinct(waiters[p])
  BY <1>1 DEF OneEntry, Distinct
<1> HIDE DEF w
<1>5. /\ w \in Seq(Entries) /\ Distinct(w) /\ ~Occurs(waiters[p][i], w)
      /\ \A d : Occurs(d, w) => Occurs(d, waiters[p])
      /\ \A d : Occurs(d, waiters[p]) => Occurs(d, w) \/ d = waiters[p][i]
  BY <1>1, <1>3, <1>4, OneLess
<1>6. \A q \in Primitives : waiters'[q] = IF q = p THEN w ELSE waiters[q]
  BY <1>1, <1>2
<1>7. waiters' \in [Primitives -> Seq(Entries)]
  BY <1>1, <1>2, <1>5
<1>8. ASSUME NEW q \in Primitives, NEW j \in DOMAIN waiters'[q]
      PROVE  \E l \in DOMAIN waiters[q] : waiters[q][l] = waiters'[q][j] /\ waiters[q][l].ctx # c
  <2>1. CASE q = p
    <3>1. PICK l \in DOMAIN waiters[p] : waiters[p][l] = waiters'[q][j]
      BY <1>5, <1>6, <2>1 DEF Occurs
    <3>2. l # i
      BY <1>5, <1>6, <2>1, <3>1 DEF Occurs
    <3> QED
      BY <1>1, <2>1, <3>1, <3>2 DEF OneEntry
  <2>2. CASE q # p
    BY <1>1, <1>6, <2>2 DEF OneEntry
  <2> QED
    BY <2>1, <2>2
<1>9. \A q \in Primitives : \A j \in DOMAIN waiters[q] : waiters[q][j].ctx # c =>
         \E l \in DOMAIN waiters'[q] : waiters'[q][l] = waiters[q][j]
  <2> SUFFICES ASSUME NEW q \in Primitives, NEW j \in DOMAIN waiters[q], waiters[q][j].ctx # c
               PROVE  \E l \in DOMAIN waiters'[q] : waiters'[q][l] = waiters[q][j]
    OBVIOUS
  <2>1. CASE q = p
    BY <1>5, <1>6, <2>1 DEF Occurs
  <2>2. CASE q # p
    BY <1>6, <2>2
  <2> QED
    BY <2>1, <2>2
<1>10. ASSUME NEW q \in Primitives, NEW r \in Primitives,
              NEW j \in DOMAIN waiters'[q], NEW l \in DOMAIN waiters'[r],
              waiters'[q][j].ctx = waiters'[r][l].ctx
       PROVE  q = r /\ j = l
  <2>1. PICK a \in DOMAIN waiters[q] : waiters[q][a] = waiters'[q][j]
    BY <1>8
  <2>2. PICK b \in DOMAIN waiters[r] : waiters[r][b] = waiters'[r][l]
    BY <1>8
  <2>3. q = r /\ a = b
    BY <1>1, <1>10, <2>1, <2>2 DEF OneEntry
  <2>4. CASE q = p
    <3>1. w[j] = w[l] /\ j \in DOMAIN w /\ l \in DOMAIN w
      BY <1>6, <2>1, <2>2, <2>3, <2>4
    <3> QED
      BY <1>5, <2>3, <3>1 DEF Distinct
  <2>5. CASE q # p
    <3>1. waiters'[q] = waiters[q] /\ waiters'[r] = waiters[r]
      BY <1>6, <2>3, <2>5
    <3> QED
      BY <1>1, <1>10, <3>1 DEF OneEntry
  <2> QED
    BY <2>4, <2>5
<1>11. \A q \in Primitives : \A j \in DOMAIN waiters'[q] :
          IF waiters'[q][j].ctx = c THEN q = p /\ waiters'[q][j].phase = "none"
          ELSE \E l \in DOMAIN waiters[q] : waiters[q][l] = waiters'[q][j]
  BY <1>8
<1>12. "none" \notin Phases
  BY DEF Phases
<1> QED
  BY <1>7, <1>9, <1>10, <1>11, <1>12, Listed DEF Relisted

-----------------------------------------------------------------------------
\* The eight things a section of a lock call does.  A caller registers ...
LEMMA RegisterKeeps ==
    ASSUME IndInv, NEW k \in Carriers,
           NEW p \in Primitives, pc[k] = "run", state[running[k]] = "Runnable",
           running[k] \in Contexts,
           Tabled(p, running[k], "Pending"), UNCHANGED <<state, running>>,
           call' = [call EXCEPT ![k] = [stage |-> "migrate", on |-> p, to |-> NoContext]],
           pc' = [pc EXCEPT ![k] = "sync"]
    PROVE  SyncInv'
<1>0. /\ CallInv /\ HandedOnce /\ OneEntry /\ EntryInv /\ GrantInv /\ CarriedOnce
      /\ waiters \in [Primitives -> Seq(Entries)] /\ call \in [Carriers -> Calls]
      /\ state \in [Contexts -> States] /\ pc \in [Carriers -> Locations]
      /\ NoContext \notin Contexts
      /\ \A j \in Carriers : running[j] \in Contexts \cup {NoContext}
      /\ \A j \in Carriers : pc[j] = "sync" => running[j] \in Contexts
  BY SyncFacts
<1>1. /\ \A q, r \in Primitives, d \in Contexts, f, g \in Phases :
            Entry(q, d, f) /\ Entry(r, d, g) => q = r /\ f = g
      /\ \A j \in Carriers : call[j].stage # "none" => call[j].on \in Primitives
      /\ \A j \in Carriers : CallAt(j)
      /\ \A j \in Carriers : call[j].stage # "none" => pc[j] = "sync" /\ running[j] \in Contexts
      /\ \A j \in Carriers : call[j].stage = "handoff" => call[j].to \in Contexts
      /\ {"Pending", "Acquired", "Committed"} = Phases /\ "none" \notin Phases
  BY EntryAlone, SyncFacts DEF CallInv, CallAt, Phases
<1>6. /\ OneEntry'
      /\ \A q \in Primitives, d \in Contexts, f \in Phases :
            Entry(q, d, f)' <=> IF d = running[k] THEN q = p /\ f = "Pending" ELSE Entry(q, d, f)
  BY DEF Tabled
<1>2. CallInv'
  <2> SUFFICES ASSUME NEW j \in Carriers PROVE CallAt(j)'
    BY DEF CallInv
  <2>1. CASE j = k
    BY <1>0, <1>1, <1>6, <2>1 DEF CallAt, ParkedOn, NoCall
  <2>2. CASE j # k
    <3>1. CallAt(j) /\ call'[j] = call[j] /\ pc'[j] = pc[j] /\ running'[j] = running[j]
      BY <1>0, <1>1, <2>2
    <3>2. call[j].stage \in {"migrate", "recheck"} =>
             (Entry(call[j].on, running[j], "Pending") \/ Entry(call[j].on, running[j], "Acquired"))'
      BY <1>0, <1>1, <1>6, <2>2, <3>1 DEF CallAt, EntryInv, CarriedOnce
    <3>3. call[j].stage # "none" => state'[running[j]] = state[running[j]]
      BY <1>0, <1>1, <2>2 DEF CallAt, CarriedOnce
    <3>4. call[j].stage = "handoff" =>
             /\ state'[call[j].to] = state[call[j].to]
             /\ \A l \in Carriers : running'[l] = call[j].to => pc'[l] = "unwind"
      BY <1>0, <1>1, <2>2 DEF CallAt, HandedOnce, EntryInv
    <3> QED
      BY <3>1, <3>2, <3>3, <3>4 DEF CallAt, ParkedOn
  <2> QED
    BY <2>1, <2>2
<1>3. HandedOnce' /\ OneEntry'
  <2>1. \A j \in Carriers : call'[j] = IF j = k THEN call'[k] ELSE call[j]
    BY <1>0
  <2>2. ASSUME NEW j \in Carriers, NEW l \in Carriers, call'[j].stage = "handoff",
               call'[l].stage = "handoff", call'[j].to = call'[l].to
        PROVE  j = l
    BY <1>0, <1>1, <1>6, <2>1, <2>2 DEF HandedOnce, CallAt, NoCall
  <2>3. ASSUME NEW j \in Carriers, NEW q \in Primitives, NEW f \in Phases,
               call'[j].stage = "handoff"
        PROVE  ~Entry(q, call[j].to, f)'
    BY <1>0, <1>1, <1>6, <2>1, <2>3 DEF HandedOnce, CallAt, Phases, NoCall
  <2>4. ASSUME NEW j \in Carriers, NEW q \in Primitives, NEW f \in Phases,
               call'[j].stage = "abort"
        PROVE  ~Entry(q, running[j], f)'
    BY <1>0, <1>1, <1>6, <2>1, <2>4 DEF HandedOnce, CallAt, CarriedOnce, EntryInv, NoCall
  <2>5. OneEntry'
    BY <1>0, <1>6 DEF OneEntry
  <2> QED
    BY <2>2, <2>3, <2>4, <2>5 DEF HandedOnce
<1>4. EntryInv'
  <2>1. ASSUME NEW q \in Primitives, NEW d \in Contexts,
               Entry(q, d, "Pending")' \/ Entry(q, d, "Acquired")'
        PROVE  \E j \in Carriers : /\ running'[j] = d
                                   /\ call'[j].stage \in {"migrate", "recheck"}
                                   /\ call'[j].on = q
    BY <1>0, <1>1, <1>6, <2>1 DEF EntryInv, NoCall
  <2>2. ASSUME NEW q \in Primitives, NEW d \in Contexts, Entry(q, d, "Committed")'
        PROVE  /\ state'[d] = ParkedOn(q)
               /\ \A j \in Carriers : running'[j] = d => pc'[j] = "unwind"
    <3>1. state'[d] = ParkedOn(q)
      BY <1>0, <1>1, <1>6, <2>2 DEF EntryInv, CallAt, CarriedOnce
    <3>2. \A j \in Carriers : running'[j] = d => pc'[j] = "unwind"
      BY <1>0, <1>1, <1>6, <2>2 DEF EntryInv, CallAt, CarriedOnce
    <3> QED
      BY <3>1, <3>2
  <2> QED
    BY <2>1, <2>2 DEF EntryInv, ParkedOn
<1>5. GrantInv'
  <2> SUFFICES ASSUME NEW d \in Contexts, state'[d] \in {"ParkedMutex", "ParkedSemaphore"}
               PROVE  \/ \E q \in Primitives, f \in Phases : Entry(q, d, f)'
                      \/ \E j \in Carriers : call'[j].stage = "abort" /\ running'[j] = d
                      \/ \E j \in Carriers : call'[j].stage = "handoff" /\ call'[j].to = d
    BY DEF GrantInv
  <2> QED
    BY <1>0, <1>1, <1>6 DEF GrantInv, CallAt, Phases, NoCall, CarriedOnce
<1> QED
  BY <1>2, <1>3, <1>4, <1>5 DEF SyncInv

\* ... the entry of a caller that has not parked yet is stamped ...
LEMMA StampKeeps ==
    ASSUME IndInv, NEW k \in Carriers,
           NEW p \in Primitives, NEW c \in Contexts,
           Entry(p, c, "Pending"),
           Tabled(p, c, "Acquired"), UNCHANGED <<state, running, call, pc>>
    PROVE  SyncInv'
<1>0. /\ CallInv /\ HandedOnce /\ OneEntry /\ EntryInv /\ GrantInv /\ CarriedOnce
      /\ waiters \in [Primitives -> Seq(Entries)] /\ call \in [Carriers -> Calls]
      /\ state \in [Contexts -> States] /\ pc \in [Carriers -> Locations]
      /\ NoContext \notin Contexts
      /\ \A j \in Carriers : running[j] \in Contexts \cup {NoContext}
      /\ \A j \in Carriers : pc[j] = "sync" => running[j] \in Contexts
  BY SyncFacts
<1>1. /\ \A q, r \in Primitives, d \in Contexts, f, g \in Phases :
            Entry(q, d, f) /\ Entry(r, d, g) => q = r /\ f = g
      /\ \A j \in Carriers : call[j].stage # "none" => call[j].on \in Primitives
      /\ \A j \in Carriers : CallAt(j)
      /\ \A j \in Carriers : call[j].stage # "none" => pc[j] = "sync" /\ running[j] \in Contexts
      /\ \A j \in Carriers : call[j].stage = "handoff" => call[j].to \in Contexts
      /\ {"Pending", "Acquired", "Committed"} = Phases /\ "none" \notin Phases
  BY EntryAlone, SyncFacts DEF CallInv, CallAt, Phases
<1>6. /\ OneEntry'
      /\ \A q \in Primitives, d \in Contexts, f \in Phases :
            Entry(q, d, f)' <=> IF d = c THEN q = p /\ f = "Acquired" ELSE Entry(q, d, f)
  BY DEF Tabled
<1>2. CallInv'
  <2> SUFFICES ASSUME NEW j \in Carriers PROVE CallAt(j)'
    BY DEF CallInv
  <2>1. CASE j = k
    BY SMTT(60), <1>0, <1>1, <1>6, <2>1 DEF CallAt, ParkedOn, NoCall
  <2>2. CASE j # k
    <3>1. CallAt(j) /\ call'[j] = call[j] /\ pc'[j] = pc[j] /\ running'[j] = running[j]
      BY <1>0, <1>1, <2>2
    <3>2. call[j].stage \in {"migrate", "recheck"} =>
             (Entry(call[j].on, running[j], "Pending") \/ Entry(call[j].on, running[j], "Acquired"))'
      BY <1>0, <1>1, <1>6, <2>2, <3>1 DEF CallAt, EntryInv, CarriedOnce
    <3>3. call[j].stage # "none" => state'[running[j]] = state[running[j]]
      BY <1>0, <1>1, <2>2 DEF CallAt, CarriedOnce
    <3>4. call[j].stage = "handoff" =>
             /\ state'[call[j].to] = state[call[j].to]
             /\ \A l \in Carriers : running'[l] = call[j].to => pc'[l] = "unwind"
      BY <1>0, <1>1, <2>2 DEF CallAt, HandedOnce, EntryInv
    <3> QED
      BY <3>1, <3>2, <3>3, <3>4 DEF CallAt, ParkedOn
  <2> QED
    BY <2>1, <2>2
<1>3. HandedOnce' /\ OneEntry'
  <2>1. \A j \in Carriers : call'[j] = IF j = k THEN call'[k] ELSE call[j]
    BY <1>0
  <2>2. ASSUME NEW j \in Carriers, NEW l \in Carriers, call'[j].stage = "handoff",
               call'[l].stage = "handoff", call'[j].to = call'[l].to
        PROVE  j = l
    BY <1>0, <1>1, <1>6, <2>1, <2>2 DEF HandedOnce, CallAt, NoCall
  <2>3. ASSUME NEW j \in Carriers, NEW q \in Primitives, NEW f \in Phases,
               call'[j].stage = "handoff"
        PROVE  ~Entry(q, call[j].to, f)'
    BY <1>0, <1>1, <1>6, <2>1, <2>3 DEF HandedOnce, CallAt, Phases, NoCall
  <2>4. ASSUME NEW j \in Carriers, NEW q \in Primitives, NEW f \in Phases,
               call'[j].stage = "abort"
        PROVE  ~Entry(q, running[j], f)'
    BY <1>0, <1>1, <1>6, <2>1, <2>4 DEF HandedOnce, CallAt, CarriedOnce, EntryInv, NoCall
  <2>5. OneEntry'
    BY <1>0, <1>6 DEF OneEntry
  <2> QED
    BY <2>2, <2>3, <2>4, <2>5 DEF HandedOnce
<1>4. EntryInv'
  <2>1. ASSUME NEW q \in Primitives, NEW d \in Contexts,
               Entry(q, d, "Pending")' \/ Entry(q, d, "Acquired")'
        PROVE  \E j \in Carriers : /\ running'[j] = d
                                   /\ call'[j].stage \in {"migrate", "recheck"}
                                   /\ call'[j].on = q
    BY <1>0, <1>1, <1>6, <2>1 DEF EntryInv, NoCall
  <2>2. ASSUME NEW q \in Primitives, NEW d \in Contexts, Entry(q, d, "Committed")'
        PROVE  /\ state'[d] = ParkedOn(q)
               /\ \A j \in Carriers : running'[j] = d => pc'[j] = "unwind"
    <3>1. state'[d] = ParkedOn(q)
      BY <1>0, <1>1, <1>6, <2>2 DEF EntryInv, CallAt, CarriedOnce
    <3>2. \A j \in Carriers : running'[j] = d => pc'[j] = "unwind"
      BY <1>0, <1>1, <1>6, <2>2 DEF EntryInv, CallAt, CarriedOnce
    <3> QED
      BY <3>1, <3>2
  <2> QED
    BY <2>1, <2>2 DEF EntryInv, ParkedOn
<1>5. GrantInv'
  <2> SUFFICES ASSUME NEW d \in Contexts, state'[d] \in {"ParkedMutex", "ParkedSemaphore"}
               PROVE  \/ \E q \in Primitives, f \in Phases : Entry(q, d, f)'
                      \/ \E j \in Carriers : call'[j].stage = "abort" /\ running'[j] = d
                      \/ \E j \in Carriers : call'[j].stage = "handoff" /\ call'[j].to = d
    BY DEF GrantInv
  <2> QED
    BY <1>0, <1>1, <1>6 DEF GrantInv, CallAt, Phases, NoCall, CarriedOnce
<1> QED
  BY <1>2, <1>3, <1>4, <1>5 DEF SyncInv

\* ... the entry of a parked context is taken out to hand it the grant ...
LEMMA HandOffKeeps ==
    ASSUME IndInv, NEW k \in Carriers,
           NEW p \in Primitives, NEW c \in Contexts,
           pc[k] = "run", state[running[k]] = "Runnable", running[k] \in Contexts,
           Entry(p, c, "Committed"),
           Tabled(p, c, "none"), UNCHANGED <<state, running>>,
           call' = [call EXCEPT ![k] = [stage |-> "handoff", on |-> p, to |-> c]],
           pc' = [pc EXCEPT ![k] = "sync"]
    PROVE  SyncInv'
<1>0. /\ CallInv /\ HandedOnce /\ OneEntry /\ EntryInv /\ GrantInv /\ CarriedOnce
      /\ waiters \in [Primitives -> Seq(Entries)] /\ call \in [Carriers -> Calls]
      /\ state \in [Contexts -> States] /\ pc \in [Carriers -> Locations]
      /\ NoContext \notin Contexts
      /\ \A j \in Carriers : running[j] \in Contexts \cup {NoContext}
      /\ \A j \in Carriers : pc[j] = "sync" => running[j] \in Contexts
  BY SyncFacts
<1>1. /\ \A q, r \in Primitives, d \in Contexts, f, g \in Phases :
            Entry(q, d, f) /\ Entry(r, d, g) => q = r /\ f = g
      /\ \A j \in Carriers : call[j].stage # "none" => call[j].on \in Primitives
      /\ \A j \in Carriers : CallAt(j)
      /\ \A j \in Carriers : call[j].stage # "none" => pc[j] = "sync" /\ running[j] \in Contexts
      /\ \A j \in Carriers : call[j].stage = "handoff" => call[j].to \in Contexts
      /\ {"Pending", "Acquired", "Committed"} = Phases /\ "none" \notin Phases
  BY EntryAlone, SyncFacts DEF CallInv, CallAt, Phases
<1>6. /\ OneEntry'
      /\ \A q \in Primitives, d \in Contexts, f \in Phases :
            Entry(q, d, f)' <=> IF d = c THEN q = p /\ f = "none" ELSE Entry(q, d, f)
  BY DEF Tabled
<1>2. CallInv'
  <2> SUFFICES ASSUME NEW j \in Carriers PROVE CallAt(j)'
    BY DEF CallInv
  <2>1. CASE j = k
    BY <1>0, <1>1, <1>6, <2>1 DEF CallAt, EntryInv, ParkedOn, NoCall
  <2>2. CASE j # k
    <3>1. CallAt(j) /\ call'[j] = call[j] /\ pc'[j] = pc[j] /\ running'[j] = running[j]
      BY <1>0, <1>1, <2>2
    <3>2. call[j].stage \in {"migrate", "recheck"} =>
             (Entry(call[j].on, running[j], "Pending") \/ Entry(call[j].on, running[j], "Acquired"))'
      BY <1>0, <1>1, <1>6, <2>2, <3>1 DEF CallAt, EntryInv, CarriedOnce
    <3>3. call[j].stage # "none" => state'[running[j]] = state[running[j]]
      BY <1>0, <1>1, <2>2 DEF CallAt, CarriedOnce
    <3>4. call[j].stage = "handoff" =>
             /\ state'[call[j].to] = state[call[j].to]
             /\ \A l \in Carriers : running'[l] = call[j].to => pc'[l] = "unwind"
      BY <1>0, <1>1, <2>2 DEF CallAt, HandedOnce, EntryInv
    <3> QED
      BY <3>1, <3>2, <3>3, <3>4 DEF CallAt, ParkedOn
  <2> QED
    BY <2>1, <2>2
<1>3. HandedOnce' /\ OneEntry'
  <2>1. \A j \in Carriers : call'[j] = IF j = k THEN call'[k] ELSE call[j]
    BY <1>0
  <2>2. ASSUME NEW j \in Carriers, NEW l \in Carriers, call'[j].stage = "handoff",
               call'[l].stage = "handoff", call'[j].to = call'[l].to
        PROVE  j = l
    <3>1. \A x \in Carriers : call[x].stage = "handoff" => call[x].to # c
      BY <1>0, <1>1 DEF HandedOnce
    <3>2. call'[k].to = c
      BY <1>0
    <3> QED
      BY <1>0, <2>1, <2>2, <3>1, <3>2 DEF HandedOnce
  <2>3. ASSUME NEW j \in Carriers, NEW q \in Primitives, NEW f \in Phases,
               call'[j].stage = "handoff"
        PROVE  ~Entry(q, call[j].to, f)'
    BY <1>0, <1>1, <1>6, <2>1, <2>3 DEF HandedOnce, CallAt, Phases, NoCall
  <2>4. ASSUME NEW j \in Carriers, NEW q \in Primitives, NEW f \in Phases,
               call'[j].stage = "abort"
        PROVE  ~Entry(q, running[j], f)'
    BY <1>0, <1>1, <1>6, <2>1, <2>4 DEF HandedOnce, CallAt, CarriedOnce, EntryInv, NoCall
  <2>5. OneEntry'
    BY <1>0, <1>6 DEF OneEntry
  <2> QED
    BY <2>2, <2>3, <2>4, <2>5 DEF HandedOnce
<1>4. EntryInv'
  <2>1. ASSUME NEW q \in Primitives, NEW d \in Contexts,
               Entry(q, d, "Pending")' \/ Entry(q, d, "Acquired")'
        PROVE  \E j \in Carriers : /\ running'[j] = d
                                   /\ call'[j].stage \in {"migrate", "recheck"}
                                   /\ call'[j].on = q
    BY <1>0, <1>1, <1>6, <2>1 DEF EntryInv, NoCall
  <2>2. ASSUME NEW q \in Primitives, NEW d \in Contexts, Entry(q, d, "Committed")'
        PROVE  /\ state'[d] = ParkedOn(q)
               /\ \A j \in Carriers : running'[j] = d => pc'[j] = "unwind"
    <3>1. state'[d] = ParkedOn(q)
      BY <1>0, <1>1, <1>6, <2>2 DEF EntryInv, CallAt, CarriedOnce
    <3>2. \A j \in Carriers : running'[j] = d => pc'[j] = "unwind"
      BY <1>0, <1>1, <1>6, <2>2 DEF EntryInv, CallAt, CarriedOnce
    <3> QED
      BY <3>1, <3>2
  <2> QED
    BY <2>1, <2>2 DEF EntryInv, ParkedOn
<1>5. GrantInv'
  <2> SUFFICES ASSUME NEW d \in Contexts, state'[d] \in {"ParkedMutex", "ParkedSemaphore"}
               PROVE  \/ \E q \in Primitives, f \in Phases : Entry(q, d, f)'
                      \/ \E j \in Carriers : call'[j].stage = "abort" /\ running'[j] = d
                      \/ \E j \in Carriers : call'[j].stage = "handoff" /\ call'[j].to = d
    BY DEF GrantInv
  <2> QED
    BY <1>0, <1>1, <1>6 DEF GrantInv, CallAt, Phases, NoCall, CarriedOnce
<1> QED
  BY <1>2, <1>3, <1>4, <1>5 DEF SyncInv

\* ... a registered caller parks its context ...
LEMMA MigrateKeeps ==
    ASSUME IndInv, NEW k \in Carriers,
           call[k].stage = "migrate",
           UNCHANGED <<running, pc, waiters>>,
           state' = [state EXCEPT ![running[k]] = ParkedOn(call[k].on)],
           call' = [call EXCEPT ![k] = [stage |-> "recheck", on |-> call[k].on, to |-> NoContext]]
    PROVE  SyncInv'
<1>0. /\ CallInv /\ HandedOnce /\ OneEntry /\ EntryInv /\ GrantInv /\ CarriedOnce
      /\ waiters \in [Primitives -> Seq(Entries)] /\ call \in [Carriers -> Calls]
      /\ state \in [Contexts -> States] /\ pc \in [Carriers -> Locations]
      /\ NoContext \notin Contexts
      /\ \A j \in Carriers : running[j] \in Contexts \cup {NoContext}
      /\ \A j \in Carriers : pc[j] = "sync" => running[j] \in Contexts
  BY SyncFacts
<1>1. /\ \A q, r \in Primitives, d \in Contexts, f, g \in Phases :
            Entry(q, d, f) /\ Entry(r, d, g) => q = r /\ f = g
      /\ \A j \in Carriers : call[j].stage # "none" => call[j].on \in Primitives
      /\ \A j \in Carriers : CallAt(j)
      /\ \A j \in Carriers : call[j].stage # "none" => pc[j] = "sync" /\ running[j] \in Contexts
      /\ \A j \in Carriers : call[j].stage = "handoff" => call[j].to \in Contexts
      /\ {"Pending", "Acquired", "Committed"} = Phases /\ "none" \notin Phases
  BY EntryAlone, SyncFacts DEF CallInv, CallAt, Phases
<1>6. \A p, c, ph : Entry(p, c, ph)' <=> Entry(p, c, ph)
  BY DEF Entry
<1>2. CallInv'
  <2> SUFFICES ASSUME NEW j \in Carriers PROVE CallAt(j)'
    BY DEF CallInv
  <2>1. CASE j = k
    BY <1>0, <1>1, <1>6, <2>1 DEF CallAt, ParkedOn, NoCall
  <2>2. CASE j # k
    <3>1. CallAt(j) /\ call'[j] = call[j] /\ pc'[j] = pc[j] /\ running'[j] = running[j]
      BY <1>0, <1>1, <2>2
    <3>2. call[j].stage \in {"migrate", "recheck"} =>
             (Entry(call[j].on, running[j], "Pending") \/ Entry(call[j].on, running[j], "Acquired"))'
      BY <1>0, <1>1, <1>6, <2>2, <3>1 DEF CallAt, EntryInv, CarriedOnce
    <3>3. call[j].stage # "none" => state'[running[j]] = state[running[j]]
      BY <1>0, <1>1, <2>2 DEF CallAt, CarriedOnce
    <3>4. call[j].stage = "handoff" =>
             /\ state'[call[j].to] = state[call[j].to]
             /\ \A l \in Carriers : running'[l] = call[j].to => pc'[l] = "unwind"
      BY <1>0, <1>1, <2>2 DEF CallAt, HandedOnce, EntryInv
    <3> QED
      BY <3>1, <3>2, <3>3, <3>4 DEF CallAt, ParkedOn
  <2> QED
    BY <2>1, <2>2
<1>3. HandedOnce' /\ OneEntry'
  <2>1. \A j \in Carriers : call'[j] = IF j = k THEN call'[k] ELSE call[j]
    BY <1>0
  <2>2. ASSUME NEW j \in Carriers, NEW l \in Carriers, call'[j].stage = "handoff",
               call'[l].stage = "handoff", call'[j].to = call'[l].to
        PROVE  j = l
    BY <1>0, <1>1, <1>6, <2>1, <2>2 DEF HandedOnce, CallAt, NoCall
  <2>3. ASSUME NEW j \in Carriers, NEW q \in Primitives, NEW f \in Phases,
               call'[j].stage = "handoff"
        PROVE  ~Entry(q, call[j].to, f)'
    BY <1>0, <1>1, <1>6, <2>1, <2>3 DEF HandedOnce, CallAt, Phases, NoCall
  <2>4. ASSUME NEW j \in Carriers, NEW q \in Primitives, NEW f \in Phases,
               call'[j].stage = "abort"
        PROVE  ~Entry(q, running[j], f)'
    BY <1>0, <1>1, <1>6, <2>1, <2>4 DEF HandedOnce, CallAt, CarriedOnce, EntryInv, NoCall
  <2>5. OneEntry'
    BY <1>0, <1>6 DEF OneEntry
  <2> QED
    BY <2>2, <2>3, <2>4, <2>5 DEF HandedOnce
<1>4. EntryInv'
  <2>1. ASSUME NEW q \in Primitives, NEW d \in Contexts,
               Entry(q, d, "Pending")' \/ Entry(q, d, "Acquired")'
        PROVE  \E j \in Carriers : /\ running'[j] = d
                                   /\ call'[j].stage \in {"migrate", "recheck"}
                                   /\ call'[j].on = q
    BY <1>0, <1>1, <1>6, <2>1 DEF EntryInv, NoCall
  <2>2. ASSUME NEW q \in Primitives, NEW d \in Contexts, Entry(q, d, "Committed")'
        PROVE  /\ state'[d] = ParkedOn(q)
               /\ \A j \in Carriers : running'[j] = d => pc'[j] = "unwind"
    <3>1. state'[d] = ParkedOn(q)
      BY <1>0, <1>1, <1>6, <2>2 DEF EntryInv, CallAt, HandedOnce, CarriedOnce
    <3>2. \A j \in Carriers : running'[j] = d => pc'[j] = "unwind"
      BY <1>0, <1>1, <1>6, <2>2 DEF EntryInv, CallAt, CarriedOnce
    <3> QED
      BY <3>1, <3>2
  <2> QED
    BY <2>1, <2>2 DEF EntryInv, ParkedOn
<1>5. GrantInv'
  <2> SUFFICES ASSUME NEW d \in Contexts, state'[d] \in {"ParkedMutex", "ParkedSemaphore"}
               PROVE  \/ \E q \in Primitives, f \in Phases : Entry(q, d, f)'
                      \/ \E j \in Carriers : call'[j].stage = "abort" /\ running'[j] = d
                      \/ \E j \in Carriers : call'[j].stage = "handoff" /\ call'[j].to = d
    BY DEF GrantInv
  <2> QED
    BY <1>0, <1>1, <1>6 DEF GrantInv, CallAt, Phases, NoCall, CarriedOnce
<1> QED
  BY <1>2, <1>3, <1>4, <1>5 DEF SyncInv

\* ... finds its entry still pending and commits it ...
LEMMA CommitKeeps ==
    ASSUME IndInv, NEW k \in Carriers,
           call[k].stage = "recheck",
           Tabled(call[k].on, running[k], "Committed"), UNCHANGED <<state, running>>,
           call' = [call EXCEPT ![k] = NoCall], pc' = [pc EXCEPT ![k] = "unwind"]
    PROVE  SyncInv'
<1>0. /\ CallInv /\ HandedOnce /\ OneEntry /\ EntryInv /\ GrantInv /\ CarriedOnce
      /\ waiters \in [Primitives -> Seq(Entries)] /\ call \in [Carriers -> Calls]
      /\ state \in [Contexts -> States] /\ pc \in [Carriers -> Locations]
      /\ NoContext \notin Contexts
      /\ \A j \in Carriers : running[j] \in Contexts \cup {NoContext}
      /\ \A j \in Carriers : pc[j] = "sync" => running[j] \in Contexts
  BY SyncFacts
<1>1. /\ \A q, r \in Primitives, d \in Contexts, f, g \in Phases :
            Entry(q, d, f) /\ Entry(r, d, g) => q = r /\ f = g
      /\ \A j \in Carriers : call[j].stage # "none" => call[j].on \in Primitives
      /\ \A j \in Carriers : CallAt(j)
      /\ \A j \in Carriers : call[j].stage # "none" => pc[j] = "sync" /\ running[j] \in Contexts
      /\ \A j \in Carriers : call[j].stage = "handoff" => call[j].to \in Contexts
      /\ {"Pending", "Acquired", "Committed"} = Phases /\ "none" \notin Phases
  BY EntryAlone, SyncFacts DEF CallInv, CallAt, Phases
<1>6. /\ OneEntry'
      /\ \A q \in Primitives, d \in Contexts, f \in Phases :
            Entry(q, d, f)' <=> IF d = running[k] THEN q = call[k].on /\ f = "Committed" ELSE Entry(q, d, f)
  BY DEF Tabled
<1>2. CallInv'
  <2> SUFFICES ASSUME NEW j \in Carriers PROVE CallAt(j)'
    BY DEF CallInv
  <2>1. CASE j = k
    BY <1>0, <1>1, <1>6, <2>1 DEF CallAt, ParkedOn, NoCall
  <2>2. CASE j # k
    <3>1. CallAt(j) /\ call'[j] = call[j] /\ pc'[j] = pc[j] /\ running'[j] = running[j]
      BY <1>0, <1>1, <2>2
    <3>2. call[j].stage \in {"migrate", "recheck"} =>
             (Entry(call[j].on, running[j], "Pending") \/ Entry(call[j].on, running[j], "Acquired"))'
      BY <1>0, <1>1, <1>6, <2>2, <3>1 DEF CallAt, EntryInv, CarriedOnce
    <3>3. call[j].stage # "none" => state'[running[j]] = state[running[j]]
      BY <1>0, <1>1, <2>2 DEF CallAt, CarriedOnce
    <3>4. call[j].stage = "handoff" =>
             /\ state'[call[j].to] = state[call[j].to]
             /\ \A l \in Carriers : running'[l] = call[j].to => pc'[l] = "unwind"
      BY <1>0, <1>1, <2>2 DEF CallAt, HandedOnce, EntryInv
    <3> QED
      BY <3>1, <3>2, <3>3, <3>4 DEF CallAt, ParkedOn
  <2> QED
    BY <2>1, <2>2
<1>3. HandedOnce' /\ OneEntry'
  <2>1. \A j \in Carriers : call'[j] = IF j = k THEN call'[k] ELSE call[j]
    BY <1>0
  <2>2. ASSUME NEW j \in Carriers, NEW l \in Carriers, call'[j].stage = "handoff",
               call'[l].stage = "handoff", call'[j].to = call'[l].to
        PROVE  j = l
    BY <1>0, <1>1, <1>6, <2>1, <2>2 DEF HandedOnce, CallAt, NoCall
  <2>3. ASSUME NEW j \in Carriers, NEW q \in Primitives, NEW f \in Phases,
               call'[j].stage = "handoff"
        PROVE  ~Entry(q, call[j].to, f)'
    BY <1>0, <1>1, <1>6, <2>1, <2>3 DEF HandedOnce, CallAt, Phases, NoCall
  <2>4. ASSUME NEW j \in Carriers, NEW q \in Primitives, NEW f \in Phases,
               call'[j].stage = "abort"
        PROVE  ~Entry(q, running[j], f)'
    BY <1>0, <1>1, <1>6, <2>1, <2>4 DEF HandedOnce, CallAt, CarriedOnce, EntryInv, NoCall
  <2>5. OneEntry'
    BY <1>0, <1>6 DEF OneEntry
  <2> QED
    BY <2>2, <2>3, <2>4, <2>5 DEF HandedOnce
<1>4. EntryInv'
  <2>1. ASSUME NEW q \in Primitives, NEW d \in Contexts,
               Entry(q, d, "Pending")' \/ Entry(q, d, "Acquired")'
        PROVE  \E j \in Carriers : /\ running'[j] = d
                                   /\ call'[j].stage \in {"migrate", "recheck"}
                                   /\ call'[j].on = q
    <3>1. d # running[k] /\ (Entry(q, d, "Pending") \/ Entry(q, d, "Acquired"))
      BY <1>1, <1>6, <2>1
    <3> QED
      BY <1>0, <3>1 DEF EntryInv
  <2>2. ASSUME NEW q \in Primitives, NEW d \in Contexts, Entry(q, d, "Committed")'
        PROVE  /\ state'[d] = ParkedOn(q)
               /\ \A j \in Carriers : running'[j] = d => pc'[j] = "unwind"
    <3>1. state'[d] = ParkedOn(q)
      BY <1>0, <1>1, <1>6, <2>2 DEF EntryInv, CallAt, CarriedOnce
    <3>2. \A j \in Carriers : running'[j] = d => pc'[j] = "unwind"
      BY <1>0, <1>1, <1>6, <2>2 DEF EntryInv, CallAt, CarriedOnce
    <3> QED
      BY <3>1, <3>2
  <2> QED
    BY <2>1, <2>2 DEF EntryInv, ParkedOn
<1>5. GrantInv'
  <2> SUFFICES ASSUME NEW d \in Contexts, state'[d] \in {"ParkedMutex", "ParkedSemaphore"}
               PROVE  \/ \E q \in Primitives, f \in Phases : Entry(q, d, f)'
                      \/ \E j \in Carriers : call'[j].stage = "abort" /\ running'[j] = d
                      \/ \E j \in Carriers : call'[j].stage = "handoff" /\ call'[j].to = d
    BY DEF GrantInv
  <2> QED
    BY <1>0, <1>1, <1>6 DEF GrantInv, CallAt, Phases, NoCall, CarriedOnce
<1> QED
  BY <1>2, <1>3, <1>4, <1>5 DEF SyncInv

\* ... or finds it stamped and takes it out ...
LEMMA ConsumeKeeps ==
    ASSUME IndInv, NEW k \in Carriers,
           call[k].stage = "recheck",
           Tabled(call[k].on, running[k], "none"), UNCHANGED <<state, running, pc>>,
           call' = [call EXCEPT ![k] = [stage |-> "abort", on |-> call[k].on, to |-> NoContext]]
    PROVE  SyncInv'
<1>0. /\ CallInv /\ HandedOnce /\ OneEntry /\ EntryInv /\ GrantInv /\ CarriedOnce
      /\ waiters \in [Primitives -> Seq(Entries)] /\ call \in [Carriers -> Calls]
      /\ state \in [Contexts -> States] /\ pc \in [Carriers -> Locations]
      /\ NoContext \notin Contexts
      /\ \A j \in Carriers : running[j] \in Contexts \cup {NoContext}
      /\ \A j \in Carriers : pc[j] = "sync" => running[j] \in Contexts
  BY SyncFacts
<1>1. /\ \A q, r \in Primitives, d \in Contexts, f, g \in Phases :
            Entry(q, d, f) /\ Entry(r, d, g) => q = r /\ f = g
      /\ \A j \in Carriers : call[j].stage # "none" => call[j].on \in Primitives
      /\ \A j \in Carriers : CallAt(j)
      /\ \A j \in Carriers : call[j].stage # "none" => pc[j] = "sync" /\ running[j] \in Contexts
      /\ \A j \in Carriers : call[j].stage = "handoff" => call[j].to \in Contexts
      /\ {"Pending", "Acquired", "Committed"} = Phases /\ "none" \notin Phases
  BY EntryAlone, SyncFacts DEF CallInv, CallAt, Phases
<1>6. /\ OneEntry'
      /\ \A q \in Primitives, d \in Contexts, f \in Phases :
            Entry(q, d, f)' <=> IF d = running[k] THEN q = call[k].on /\ f = "none" ELSE Entry(q, d, f)
  BY DEF Tabled
<1>2. CallInv'
  <2> SUFFICES ASSUME NEW j \in Carriers PROVE CallAt(j)'
    BY DEF CallInv
  <2>1. CASE j = k
    BY <1>0, <1>1, <1>6, <2>1 DEF CallAt, ParkedOn, NoCall
  <2>2. CASE j # k
    <3>1. CallAt(j) /\ call'[j] = call[j] /\ pc'[j] = pc[j] /\ running'[j] = running[j]
      BY <1>0, <1>1, <2>2
    <3>2. call[j].stage \in {"migrate", "recheck"} =>
             (Entry(call[j].on, running[j], "Pending") \/ Entry(call[j].on, running[j], "Acquired"))'
      BY <1>0, <1>1, <1>6, <2>2, <3>1 DEF CallAt, EntryInv, CarriedOnce
    <3>3. call[j].stage # "none" => state'[running[j]] = state[running[j]]
      BY <1>0, <1>1, <2>2 DEF CallAt, CarriedOnce
    <3>4. call[j].stage = "handoff" =>
             /\ state'[call[j].to] = state[call[j].to]
             /\ \A l \in Carriers : running'[l] = call[j].to => pc'[l] = "unwind"
      BY <1>0, <1>1, <2>2 DEF CallAt, HandedOnce, EntryInv
    <3> QED
      BY <3>1, <3>2, <3>3, <3>4 DEF CallAt, ParkedOn
  <2> QED
    BY <2>1, <2>2
<1>3. HandedOnce' /\ OneEntry'
  <2>1. \A j \in Carriers : call'[j] = IF j = k THEN call'[k] ELSE call[j]
    BY <1>0
  <2>2. ASSUME NEW j \in Carriers, NEW l \in Carriers, call'[j].stage = "handoff",
               call'[l].stage = "handoff", call'[j].to = call'[l].to
        PROVE  j = l
    BY <1>0, <1>1, <1>6, <2>1, <2>2 DEF HandedOnce, CallAt, NoCall
  <2>3. ASSUME NEW j \in Carriers, NEW q \in Primitives, NEW f \in Phases,
               call'[j].stage = "handoff"
        PROVE  ~Entry(q, call[j].to, f)'
    BY <1>0, <1>1, <1>6, <2>1, <2>3 DEF HandedOnce, CallAt, Phases, NoCall
  <2>4. ASSUME NEW j \in Carriers, NEW q \in Primitives, NEW f \in Phases,
               call'[j].stage = "abort"
        PROVE  ~Entry(q, running[j], f)'
    BY <1>0, <1>1, <1>6, <2>1, <2>4 DEF HandedOnce, CallAt, CarriedOnce, EntryInv, NoCall
  <2>5. OneEntry'
    BY <1>0, <1>6 DEF OneEntry
  <2> QED
    BY <2>2, <2>3, <2>4, <2>5 DEF HandedOnce
<1>4. EntryInv'
  <2>1. ASSUME NEW q \in Primitives, NEW d \in Contexts,
               Entry(q, d, "Pending")' \/ Entry(q, d, "Acquired")'
        PROVE  \E j \in Carriers : /\ running'[j] = d
                                   /\ call'[j].stage \in {"migrate", "recheck"}
                                   /\ call'[j].on = q
    BY <1>0, <1>1, <1>6, <2>1 DEF EntryInv, NoCall
  <2>2. ASSUME NEW q \in Primitives, NEW d \in Contexts, Entry(q, d, "Committed")'
        PROVE  /\ state'[d] = ParkedOn(q)
               /\ \A j \in Carriers : running'[j] = d => pc'[j] = "unwind"
    <3>1. state'[d] = ParkedOn(q)
      BY SMTT(60), <1>0, <1>1, <1>6, <2>2 DEF EntryInv, CallAt, CarriedOnce
    <3>2. \A j \in Carriers : running'[j] = d => pc'[j] = "unwind"
      BY <1>0, <1>1, <1>6, <2>2 DEF EntryInv, CallAt, CarriedOnce
    <3> QED
      BY <3>1, <3>2
  <2> QED
    BY <2>1, <2>2 DEF EntryInv, ParkedOn
<1>5. GrantInv'
  <2> SUFFICES ASSUME NEW d \in Contexts, state'[d] \in {"ParkedMutex", "ParkedSemaphore"}
               PROVE  \/ \E q \in Primitives, f \in Phases : Entry(q, d, f)'
                      \/ \E j \in Carriers : call'[j].stage = "abort" /\ running'[j] = d
                      \/ \E j \in Carriers : call'[j].stage = "handoff" /\ call'[j].to = d
    BY DEF GrantInv
  <2> QED
    BY <1>0, <1>1, <1>6 DEF GrantInv, CallAt, Phases, NoCall, CarriedOnce
<1> QED
  BY <1>2, <1>3, <1>4, <1>5 DEF SyncInv

\* ... and takes its park back ...
LEMMA AbortKeeps ==
    ASSUME IndInv, NEW k \in Carriers,
           call[k].stage = "abort",
           UNCHANGED <<running, waiters>>,
           state' = [state EXCEPT ![running[k]] = "Runnable"],
           call' = [call EXCEPT ![k] = NoCall], pc' = [pc EXCEPT ![k] = "run"]
    PROVE  SyncInv'
<1>0. /\ CallInv /\ HandedOnce /\ OneEntry /\ EntryInv /\ GrantInv /\ CarriedOnce
      /\ waiters \in [Primitives -> Seq(Entries)] /\ call \in [Carriers -> Calls]
      /\ state \in [Contexts -> States] /\ pc \in [Carriers -> Locations]
      /\ NoContext \notin Contexts
      /\ \A j \in Carriers : running[j] \in Contexts \cup {NoContext}
      /\ \A j \in Carriers : pc[j] = "sync" => running[j] \in Contexts
  BY SyncFacts
<1>1. /\ \A q, r \in Primitives, d \in Contexts, f, g \in Phases :
            Entry(q, d, f) /\ Entry(r, d, g) => q = r /\ f = g
      /\ \A j \in Carriers : call[j].stage # "none" => call[j].on \in Primitives
      /\ \A j \in Carriers : CallAt(j)
      /\ \A j \in Carriers : call[j].stage # "none" => pc[j] = "sync" /\ running[j] \in Contexts
      /\ \A j \in Carriers : call[j].stage = "handoff" => call[j].to \in Contexts
      /\ {"Pending", "Acquired", "Committed"} = Phases /\ "none" \notin Phases
  BY EntryAlone, SyncFacts DEF CallInv, CallAt, Phases
<1>6. \A p, c, ph : Entry(p, c, ph)' <=> Entry(p, c, ph)
  BY DEF Entry
<1>2. CallInv'
  <2> SUFFICES ASSUME NEW j \in Carriers PROVE CallAt(j)'
    BY DEF CallInv
  <2>1. CASE j = k
    BY <1>0, <1>1, <1>6, <2>1 DEF CallAt, ParkedOn, NoCall
  <2>2. CASE j # k
    <3>1. CallAt(j) /\ call'[j] = call[j] /\ pc'[j] = pc[j] /\ running'[j] = running[j]
      BY <1>0, <1>1, <2>2
    <3>2. call[j].stage \in {"migrate", "recheck"} =>
             (Entry(call[j].on, running[j], "Pending") \/ Entry(call[j].on, running[j], "Acquired"))'
      BY <1>0, <1>1, <1>6, <2>2, <3>1 DEF CallAt, EntryInv, CarriedOnce
    <3>3. call[j].stage # "none" => state'[running[j]] = state[running[j]]
      BY <1>0, <1>1, <2>2 DEF CallAt, CarriedOnce
    <3>4. call[j].stage = "handoff" =>
             /\ state'[call[j].to] = state[call[j].to]
             /\ \A l \in Carriers : running'[l] = call[j].to => pc'[l] = "unwind"
      BY <1>0, <1>1, <2>2 DEF CallAt, HandedOnce, EntryInv
    <3> QED
      BY <3>1, <3>2, <3>3, <3>4 DEF CallAt, ParkedOn
  <2> QED
    BY <2>1, <2>2
<1>3. HandedOnce' /\ OneEntry'
  <2>1. \A j \in Carriers : call'[j] = IF j = k THEN call'[k] ELSE call[j]
    BY <1>0
  <2>2. ASSUME NEW j \in Carriers, NEW l \in Carriers, call'[j].stage = "handoff",
               call'[l].stage = "handoff", call'[j].to = call'[l].to
        PROVE  j = l
    BY <1>0, <1>1, <1>6, <2>1, <2>2 DEF HandedOnce, CallAt, NoCall
  <2>3. ASSUME NEW j \in Carriers, NEW q \in Primitives, NEW f \in Phases,
               call'[j].stage = "handoff"
        PROVE  ~Entry(q, call[j].to, f)'
    BY <1>0, <1>1, <1>6, <2>1, <2>3 DEF HandedOnce, CallAt, Phases, NoCall
  <2>4. ASSUME NEW j \in Carriers, NEW q \in Primitives, NEW f \in Phases,
               call'[j].stage = "abort"
        PROVE  ~Entry(q, running[j], f)'
    BY <1>0, <1>1, <1>6, <2>1, <2>4 DEF HandedOnce, CallAt, CarriedOnce, EntryInv, NoCall
  <2>5. OneEntry'
    BY <1>0, <1>6 DEF OneEntry
  <2> QED
    BY <2>2, <2>3, <2>4, <2>5 DEF HandedOnce
<1>4. EntryInv'
  <2>1. ASSUME NEW q \in Primitives, NEW d \in Contexts,
               Entry(q, d, "Pending")' \/ Entry(q, d, "Acquired")'
        PROVE  \E j \in Carriers : /\ running'[j] = d
                                   /\ call'[j].stage \in {"migrate", "recheck"}
                                   /\ call'[j].on = q
    BY <1>0, <1>1, <1>6, <2>1 DEF EntryInv, NoCall
  <2>2. ASSUME NEW q \in Primitives, NEW d \in Contexts, Entry(q, d, "Committed")'
        PROVE  /\ state'[d] = ParkedOn(q)
               /\ \A j \in Carriers : running'[j] = d => pc'[j] = "unwind"
    <3>1. state'[d] = ParkedOn(q)
      BY <1>0, <1>1, <1>6, <2>2 DEF EntryInv, CallAt, HandedOnce, CarriedOnce
    <3>2. \A j \in Carriers : running'[j] = d => pc'[j] = "unwind"
      BY <1>0, <1>1, <1>6, <2>2 DEF EntryInv, CallAt, CarriedOnce
    <3> QED
      BY <3>1, <3>2
  <2> QED
    BY <2>1, <2>2 DEF EntryInv, ParkedOn
<1>5. GrantInv'
  <2> SUFFICES ASSUME NEW d \in Contexts, state'[d] \in {"ParkedMutex", "ParkedSemaphore"}
               PROVE  \/ \E q \in Primitives, f \in Phases : Entry(q, d, f)'
                      \/ \E j \in Carriers : call'[j].stage = "abort" /\ running'[j] = d
                      \/ \E j \in Carriers : call'[j].stage = "handoff" /\ call'[j].to = d
    BY DEF GrantInv
  <2> QED
    BY <1>0, <1>1, <1>6 DEF GrantInv, CallAt, Phases, NoCall, CarriedOnce
<1> QED
  BY <1>2, <1>3, <1>4, <1>5 DEF SyncInv

\* ... a carrier wakes the context it has handed the grant to.
LEMMA GrantKeeps ==
    ASSUME IndInv, NEW k \in Carriers,
           call[k].stage = "handoff",
           UNCHANGED <<running, waiters>>,
           state' = [state EXCEPT ![call[k].to] = "Runnable"],
           call' = [call EXCEPT ![k] = NoCall], pc' = [pc EXCEPT ![k] = "run"]
    PROVE  SyncInv'
<1>0. /\ CallInv /\ HandedOnce /\ OneEntry /\ EntryInv /\ GrantInv /\ CarriedOnce
      /\ waiters \in [Primitives -> Seq(Entries)] /\ call \in [Carriers -> Calls]
      /\ state \in [Contexts -> States] /\ pc \in [Carriers -> Locations]
      /\ NoContext \notin Contexts
      /\ \A j \in Carriers : running[j] \in Contexts \cup {NoContext}
      /\ \A j \in Carriers : pc[j] = "sync" => running[j] \in Contexts
  BY SyncFacts
<1>1. /\ \A q, r \in Primitives, d \in Contexts, f, g \in Phases :
            Entry(q, d, f) /\ Entry(r, d, g) => q = r /\ f = g
      /\ \A j \in Carriers : call[j].stage # "none" => call[j].on \in Primitives
      /\ \A j \in Carriers : CallAt(j)
      /\ \A j \in Carriers : call[j].stage # "none" => pc[j] = "sync" /\ running[j] \in Contexts
      /\ \A j \in Carriers : call[j].stage = "handoff" => call[j].to \in Contexts
      /\ {"Pending", "Acquired", "Committed"} = Phases /\ "none" \notin Phases
  BY EntryAlone, SyncFacts DEF CallInv, CallAt, Phases
<1>6. \A p, c, ph : Entry(p, c, ph)' <=> Entry(p, c, ph)
  BY DEF Entry
<1>2. CallInv'
  <2> SUFFICES ASSUME NEW j \in Carriers PROVE CallAt(j)'
    BY DEF CallInv
  <2>1. CASE j = k
    BY <1>0, <1>1, <1>6, <2>1 DEF CallAt, ParkedOn, NoCall
  <2>2. CASE j # k
    <3>1. CallAt(j) /\ call'[j] = call[j] /\ pc'[j] = pc[j] /\ running'[j] = running[j]
      BY <1>0, <1>1, <2>2
    <3>2. call[j].stage \in {"migrate", "recheck"} =>
             (Entry(call[j].on, running[j], "Pending") \/ Entry(call[j].on, running[j], "Acquired"))'
      BY <1>0, <1>1, <1>6, <2>2, <3>1 DEF CallAt, EntryInv, CarriedOnce
    <3>3. call[j].stage # "none" => state'[running[j]] = state[running[j]]
      BY <1>0, <1>1, <2>2 DEF CallAt, CarriedOnce
    <3>4. call[j].stage = "handoff" =>
             /\ state'[call[j].to] = state[call[j].to]
             /\ \A l \in Carriers : running'[l] = call[j].to => pc'[l] = "unwind"
      BY <1>0, <1>1, <2>2 DEF CallAt, HandedOnce, EntryInv
    <3> QED
      BY <3>1, <3>2, <3>3, <3>4 DEF CallAt, ParkedOn
  <2> QED
    BY <2>1, <2>2
<1>3. HandedOnce' /\ OneEntry'
  <2>1. \A j \in Carriers : call'[j] = IF j = k THEN call'[k] ELSE call[j]
    BY <1>0
  <2>2. ASSUME NEW j \in Carriers, NEW l \in Carriers, call'[j].stage = "handoff",
               call'[l].stage = "handoff", call'[j].to = call'[l].to
        PROVE  j = l
    BY <1>0, <1>1, <1>6, <2>1, <2>2 DEF HandedOnce, CallAt, NoCall
  <2>3. ASSUME NEW j \in Carriers, NEW q \in Primitives, NEW f \in Phases,
               call'[j].stage = "handoff"
        PROVE  ~Entry(q, call[j].to, f)'
    BY <1>0, <1>1, <1>6, <2>1, <2>3 DEF HandedOnce, CallAt, Phases, NoCall
  <2>4. ASSUME NEW j \in Carriers, NEW q \in Primitives, NEW f \in Phases,
               call'[j].stage = "abort"
        PROVE  ~Entry(q, running[j], f)'
    BY <1>0, <1>1, <1>6, <2>1, <2>4 DEF HandedOnce, CallAt, CarriedOnce, EntryInv, NoCall
  <2>5. OneEntry'
    BY <1>0, <1>6 DEF OneEntry
  <2> QED
    BY <2>2, <2>3, <2>4, <2>5 DEF HandedOnce
<1>4. EntryInv'
  <2>1. ASSUME NEW q \in Primitives, NEW d \in Contexts,
               Entry(q, d, "Pending")' \/ Entry(q, d, "Acquired")'
        PROVE  \E j \in Carriers : /\ running'[j] = d
                                   /\ call'[j].stage \in {"migrate", "recheck"}
                                   /\ call'[j].on = q
    BY SMTT(60), <1>0, <1>1, <1>6, <2>1 DEF EntryInv, NoCall
  <2>2. ASSUME NEW q \in Primitives, NEW d \in Contexts, Entry(q, d, "Committed")'
        PROVE  /\ state'[d] = ParkedOn(q)
               /\ \A j \in Carriers : running'[j] = d => pc'[j] = "unwind"
    <3>1. state'[d] = ParkedOn(q)
      <4>1. Entry(q, d, "Committed") /\ d # call[k].to
        BY <1>0, <1>1, <1>6, <2>2 DEF HandedOnce
      <4> QED
        BY <1>0, <4>1 DEF EntryInv
    <3>2. \A j \in Carriers : running'[j] = d => pc'[j] = "unwind"
      BY <1>0, <1>1, <1>6, <2>2 DEF EntryInv, CallAt, CarriedOnce
    <3> QED
      BY <3>1, <3>2
  <2> QED
    BY <2>1, <2>2 DEF EntryInv, ParkedOn
<1>5. GrantInv'
  <2> SUFFICES ASSUME NEW d \in Contexts, state'[d] \in {"ParkedMutex", "ParkedSemaphore"}
               PROVE  \/ \E q \in Primitives, f \in Phases : Entry(q, d, f)'
                      \/ \E j \in Carriers : call'[j].stage = "abort" /\ running'[j] = d
                      \/ \E j \in Carriers : call'[j].stage = "handoff" /\ call'[j].to = d
    BY DEF GrantInv
  <2> QED
    BY <1>0, <1>1, <1>6 DEF GrantInv, CallAt, Phases, NoCall, CarriedOnce
<1> QED
  BY <1>2, <1>3, <1>4, <1>5 DEF SyncInv

-----------------------------------------------------------------------------
\* A section under the Sync domain leaves the scheduler alone.
LEMMA SectionSound ==
    ASSUME IndInv, NEW k \in Carriers, SchedulerUnchanged, UNCHANGED <<closing, debugVars>>,
           NEW l \in Locations, pc' = [pc EXCEPT ![k] = l], CarrierAt(k, l),
           l = pc[k] \/ (pc[k] \in {"run", "sync"} /\ l \in {"sync", "unwind"})
    PROVE  Sound
<1> USE DEF SchedulerUnchanged, debugVars
<1>0. /\ TypeOK /\ DebugTypeOK /\ PlaceInv /\ Nesting /\ IoPlaces
      /\ pc[k] \in Locations /\ stage[k] \in Sections
  BY Base, Here
<1>1. TypeOK'
  BY <1>0 DEF TypeOK
<1>2. PlaceInv' /\ Tame
  BY <1>0 DEF PlaceInv, Tame, Nesting, InHand, Torn, TypeOK, DebugTypeOK, Waits
<1>3. IoPlaces'
  BY <1>0 DEF IoPlaces, TypeOK
<1>4. Tally(k, l, stage[k])
  BY <1>0 DEF Tally, TypeOK, DebugTypeOK, Is, CountsAsIdle, InFlight, Locations, Waits
<1>5. Shift(k, l)
  BY DEF Shift, dispatchVars, IoDue
<1> QED
  BY <1>0, <1>1, <1>2, <1>3, <1>4, <1>5, Counted, ShiftWakes, WakeKeeps DEF Sound

\* A section that touches owner and count only.
LEMMA QuietSection ==
    ASSUME IndInv, NEW k \in Carriers, SchedulerUnchanged, UNCHANGED <<closing, debugVars>>,
           UNCHANGED <<pc, waiters, call>>,
           owner' \in [Locks -> Contexts \cup {NoContext}], count' \in [Primitives -> Nat]
    PROVE  Sound /\ SyncInv' /\ SyncTypeOK'
<1>0. /\ TypeOK /\ SyncTypeOK /\ CarrierAt(k, pc[k]) /\ pc[k] \in Locations
      /\ pc \in [Carriers -> Locations]
  BY Base, Here DEF TypeOK
<1>1. pc' = [pc EXCEPT ![k] = pc[k]]
  BY <1>0
<1>2. Sound
  BY <1>0, <1>1, SectionSound
<1>3. Apart
  BY DEF Apart, SchedulerUnchanged
<1>4. SyncTypeOK'
  BY <1>0 DEF SyncTypeOK
<1> QED
  BY <1>2, <1>3, <1>4, ApartKeepsSync

\* What holds of a context that enters a lock call: it is in no table.
LEMMA Caller ==
    ASSUME IndInv, NEW k \in Carriers, pc[k] = "run"
    PROVE  /\ running[k] \in Contexts /\ state[running[k]] = "Runnable"
           /\ ~framesParked[running[k]]
           /\ CarrierAt(k, "sync")
           /\ \A p \in Primitives : \A i \in DOMAIN waiters[p] : waiters[p][i].ctx # running[k]
<1>1. /\ running[k] \in Contexts /\ state[running[k]] = "Runnable"
      /\ ~framesParked[running[k]]
  BY Here DEF CarrierAt, Busy
<1>2. CarrierAt(k, "sync")
  BY <1>1 DEF CarrierAt, Free, NoContext, Contexts
<1>3. ASSUME NEW p \in Primitives, NEW i \in DOMAIN waiters[p], waiters[p][i].ctx = running[k]
      PROVE  FALSE
  <2>1. waiters[p][i].phase \in Phases
    BY EntryTyped
  <2>2. \/ Entry(p, running[k], "Pending") \/ Entry(p, running[k], "Acquired")
        \/ Entry(p, running[k], "Committed")
    BY <1>3, <2>1 DEF Entry, Phases
  <2>3. EntryInv /\ CarriedOnce /\ CallInv /\ NoContext \notin Contexts
    BY SyncFacts
  <2> QED
    BY <1>1, <2>2, <2>3 DEF EntryInv, CarriedOnce, CallInv, CallAt
<1> QED
  BY <1>1, <1>2, <1>3

\* Taking a free lock, taking it again.
LEMMA LockSteps ==
    ASSUME IndInv, NEW k \in Carriers, UNCHANGED <<closing, debugVars>>, NEW l \in Locks,
           TakeLock(k, l) \/ ReenterLock(k, l)
    PROVE  Sound /\ SyncInv' /\ SyncTypeOK'
<1>0. /\ SyncTypeOK /\ l \in Primitives /\ pc[k] = "run"
  BY Base DEF TakeLock, ReenterLock, At, Primitives
<1>1. running[k] \in Contexts
  BY <1>0, Caller
<1>2. /\ SchedulerUnchanged /\ UNCHANGED <<pc, waiters, call>>
      /\ owner' \in [Locks -> Contexts \cup {NoContext}] /\ count' \in [Primitives -> Nat]
  <2>1. SchedulerUnchanged /\ UNCHANGED <<pc, waiters, call>>
    BY DEF TakeLock, ReenterLock
  <2>2. owner' \in [Locks -> Contexts \cup {NoContext}]
    BY <1>0, <1>1 DEF TakeLock, ReenterLock, SyncTypeOK
  <2>3. count' \in [Primitives -> Nat]
    <3>1. count \in [Primitives -> Nat] /\ 1 \in Nat /\ count[l] \in Nat
      BY <1>0 DEF SyncTypeOK
    <3>2. \E n \in Nat : count' = [count EXCEPT ![l] = n]
      BY <3>1 DEF TakeLock, ReenterLock
    <3> QED
      BY <3>1, <3>2
  <2> QED
    BY <2>1, <2>2, <2>3
<1> QED
  BY <1>2, QuietSection

\* Taking a permit.
LEMMA PermitSteps ==
    ASSUME IndInv, NEW k \in Carriers, UNCHANGED <<closing, debugVars>>, NEW s \in Semaphores,
           TakePermit(k, s)
    PROVE  Sound /\ SyncInv' /\ SyncTypeOK'
<1>0. SyncTypeOK /\ s \in Primitives
  BY Base DEF Primitives
<1>1. /\ SchedulerUnchanged /\ UNCHANGED <<pc, waiters, call>>
      /\ owner' \in [Locks -> Contexts \cup {NoContext}] /\ count' \in [Primitives -> Nat]
  BY <1>0 DEF TakePermit, HasPermit, SyncTypeOK
<1> QED
  BY <1>1, QuietSection

\* The slow half of lock and acquire.
LEMMA RegisterSteps ==
    ASSUME IndInv, NEW k \in Carriers, UNCHANGED <<closing, debugVars>>, NEW p \in Primitives,
           At(k, "run"), Register(k, p), SchedulerUnchanged
    PROVE  Sound /\ SyncInv' /\ SyncTypeOK'
<1>0. /\ TypeOK /\ SyncTypeOK /\ pc[k] = "run" /\ "sync" \in Locations
  BY Base DEF At, Locations
<1>1. /\ running[k] \in Contexts /\ state[running[k]] = "Runnable" /\ CarrierAt(k, "sync")
      /\ \A q \in Primitives : \A i \in DOMAIN waiters[q] : waiters[q][i].ctx # running[k]
  BY <1>0, Caller
<1>2. /\ waiters' = [waiters EXCEPT ![p] =
                        Append(@, [ctx |-> running[k], phase |-> "Pending"])]
      /\ call' = [call EXCEPT ![k] = [stage |-> "migrate", on |-> p, to |-> NoContext]]
      /\ pc' = [pc EXCEPT ![k] = "sync"]
      /\ UNCHANGED <<owner, count, state, running>>
  BY DEF Register, InNext, Go, SchedulerUnchanged
<1>3. Sound
  BY <1>0, <1>1, <1>2, SectionSound
<1>4. Tabled(p, running[k], "Pending")
  BY <1>1, <1>2, Entered
<1>5. SyncInv'
  BY <1>0, <1>1, <1>2, <1>4, RegisterKeeps
<1>6. call' \in [Carriers -> Calls]
  BY <1>0, <1>2 DEF SyncTypeOK, Calls, Stages
<1>7. SyncTypeOK'
  BY <1>0, <1>2, <1>4, <1>6 DEF SyncTypeOK, Tabled
<1> QED
  BY <1>3, <1>5, <1>7

\* The waiter the handoff chooses.
LEMMA FirstIsLive ==
    ASSUME IndInv, NEW p \in Primitives, LiveIndices(p) # {}
    PROVE  /\ FirstLive(p) \in DOMAIN waiters[p]
           /\ IsLive(waiters[p][FirstLive(p)])
           /\ waiters[p][FirstLive(p)].ctx \in Contexts
<1> DEFINE L == LiveIndices(p)
<1>1. L \in SUBSET Nat /\ L # {} /\ \A i \in L : i \in DOMAIN waiters[p] /\ IsLive(waiters[p][i])
  BY SyncFacts DEF LiveIndices
<1>2. FirstLive(p) = CHOOSE i \in L : \A j \in L : i <= j
  BY DEF FirstLive
<1> HIDE DEF L
<1>3. (CHOOSE i \in L : \A j \in L : i <= j) \in L
  BY <1>1, Least
<1>4. FirstLive(p) \in L
  BY <1>2, <1>3
<1> QED
  BY <1>1, <1>4, EntryTyped

\* The handoff of unlock and release.
LEMMA HandOffSteps ==
    ASSUME IndInv, NEW k \in Carriers, UNCHANGED <<closing, debugVars>>, NEW p \in Primitives,
           At(k, "run"), LiveIndices(p) # {}, HandOff(k, p), SchedulerUnchanged,
           owner' \in [Locks -> Contexts \cup {NoContext}], UNCHANGED count
    PROVE  Sound /\ SyncInv' /\ SyncTypeOK'
<1> DEFINE i == FirstLive(p)
           c == waiters[p][i].ctx
<1>0. /\ TypeOK /\ SyncTypeOK /\ pc[k] = "run" /\ "sync" \in Locations
      /\ call \in [Carriers -> Calls] /\ UNCHANGED <<state, running>>
  BY Base DEF At, Locations, SyncTypeOK, SchedulerUnchanged
<1>1. /\ i \in DOMAIN waiters[p] /\ c \in Contexts
      /\ waiters[p][i].phase \in {"Pending", "Committed"}
  BY FirstIsLive DEF IsLive
<1>2. /\ running[k] \in Contexts /\ state[running[k]] = "Runnable" /\ CarrierAt(k, "sync")
      /\ CarrierAt(k, pc[k]) /\ pc[k] \in Locations
  BY <1>0, Caller, Here
<1>3. CASE waiters[p][i].phase = "Committed"
  <2>1. /\ waiters' = [waiters EXCEPT ![p] = Without(@, i)]
        /\ call' = [call EXCEPT ![k] = [stage |-> "handoff", on |-> p, to |-> c]]
        /\ pc' = [pc EXCEPT ![k] = "sync"]
    BY <1>3 DEF HandOff, WakesNow, InNext, Go
  <2> HIDE DEF i
  <2>2. Tabled(p, c, "none") /\ Entry(p, c, "Committed")
    BY <1>1, <1>3, <2>1, Struck DEF Entry
  <2> HIDE DEF c
  <2>3. Sound
    BY <1>0, <1>2, <2>1, SectionSound
  <2>4. SyncInv'
    BY <1>0, <1>1, <1>2, <2>1, <2>2, HandOffKeeps
  <2>5. call' \in [Carriers -> Calls]
    BY <1>0, <1>1, <2>1 DEF Calls, Stages
  <2> QED
    BY <1>0, <2>2, <2>3, <2>4, <2>5 DEF SyncTypeOK, Tabled
<1>4. CASE waiters[p][i].phase = "Pending"
  <2>1. /\ waiters' = [waiters EXCEPT ![p] =
                          [@ EXCEPT ![i] = [ctx |-> waiters[p][i].ctx, phase |-> "Acquired"]]]
        /\ UNCHANGED <<call, pc>>
    BY <1>4 DEF HandOff, WakesNow, InNext, Go
  <2>2. "Acquired" \in Phases /\ pc' = [pc EXCEPT ![k] = pc[k]]
    BY <1>0, <2>1 DEF Phases, TypeOK
  <2> HIDE DEF i
  <2>3. Tabled(p, c, "Acquired") /\ Entry(p, c, "Pending")
    BY <1>1, <1>4, <2>1, <2>2, Restamped DEF Entry
  <2> HIDE DEF c
  <2>4. Sound
    BY <1>2, <2>2, SectionSound
  <2>5. SyncInv'
    BY <1>0, <1>1, <2>1, <2>3, StampKeeps
  <2> QED
    BY <1>0, <2>1, <2>3, <2>4, <2>5 DEF SyncTypeOK, Tabled
<1> QED
  BY <1>1, <1>3, <1>4

\* unlock, with and without a waiter.
LEMMA UnlockSteps ==
    ASSUME IndInv, NEW k \in Carriers, UNCHANGED <<closing, debugVars>>, NEW l \in Locks,
           Unlock(k, l)
    PROVE  Sound /\ SyncInv' /\ SyncTypeOK'
<1>0. /\ SyncTypeOK /\ l \in Primitives /\ At(k, "run") /\ SchedulerUnchanged
  BY Base DEF Unlock, Primitives
<1>1. CASE /\ l \in ReentrantMutexes /\ count[l] > 1
           /\ count' = [count EXCEPT ![l] = @ - 1]
           /\ UNCHANGED <<owner, waiters, call, pc>>
  BY <1>0, <1>1, QuietSection DEF SyncTypeOK
<1>2. CASE /\ owner' = [owner EXCEPT ![l] = NoContext]
           /\ count' = [count EXCEPT ![l] = 0]
           /\ UNCHANGED <<waiters, call, pc>>
  BY <1>0, <1>2, QuietSection DEF SyncTypeOK
<1>3. CASE /\ LiveIndices(l) # {}
           /\ owner' = [owner EXCEPT ![l] = waiters[l][FirstLive(l)].ctx]
           /\ HandOff(k, l)
           /\ UNCHANGED count
  <2>1. waiters[l][FirstLive(l)].ctx \in Contexts
    BY <1>0, <1>3, FirstIsLive
  <2>2. owner' \in [Locks -> Contexts \cup {NoContext}]
    BY <1>0, <1>3, <2>1 DEF SyncTypeOK
  <2> QED
    BY <1>0, <1>3, <2>2, HandOffSteps
<1> QED
  BY <1>1, <1>2, <1>3 DEF Unlock

\* release, with and without a waiter.
LEMMA ReleaseSteps ==
    ASSUME IndInv, NEW k \in Carriers, UNCHANGED <<closing, debugVars>>, NEW s \in Semaphores,
           Release(k, s)
    PROVE  Sound /\ SyncInv' /\ SyncTypeOK'
<1>0. /\ SyncTypeOK /\ s \in Primitives /\ At(k, "run") /\ SchedulerUnchanged
  BY Base DEF Release, Primitives
<1>1. CASE /\ count' = [count EXCEPT ![s] = @ + 1]
           /\ UNCHANGED <<owner, waiters, call, pc>>
  BY <1>0, <1>1, QuietSection DEF SyncTypeOK
<1>2. CASE /\ LiveIndices(s) # {}
           /\ HandOff(k, s)
           /\ UNCHANGED <<owner, count>>
  <2>1. owner' \in [Locks -> Contexts \cup {NoContext}]
    BY <1>0, <1>2 DEF SyncTypeOK
  <2> QED
    BY <1>0, <1>2, <2>1, HandOffSteps
<1> QED
  BY <1>1, <1>2 DEF Release

\* ParkForMutex and ParkForSemaphore.
LEMMA MigrateSteps ==
    ASSUME IndInv, NEW k \in Carriers, UNCHANGED <<closing, debugVars>>, Migrate(k)
    PROVE  Sound /\ SyncInv' /\ SyncTypeOK'
<1> USE DEF debugVars
<1> DEFINE s == ParkedOn(call[k].on)
<1>0. /\ TypeOK /\ DebugTypeOK /\ SyncTypeOK /\ PlaceInv /\ Nesting /\ IoPlaces
      /\ pc[k] = "sync" /\ call[k].stage = "migrate" /\ "sync" \in Locations
      /\ stage[k] \in Sections /\ call[k].on \in Primitives
  BY Base, Here, EntryAlone DEF Migrate, InCall, At, Locations
<1>1. /\ running[k] \in Contexts /\ state[running[k]] = "Runnable" /\ CarrierAt(k, "sync")
      /\ ~framesParked[running[k]]
  BY <1>0, SyncFacts, Here DEF CallInv, CallAt, CarrierAt
<1>2. s \in SyncParked /\ s \in States /\ s # "Unborn" /\ s \notin {"ParkedTimer", "ParkedIo"}
  BY DEF ParkedOn, SyncParked, States, Parked
<1>3. /\ state' = [state EXCEPT ![running[k]] = s]
      /\ call' = [call EXCEPT ![k] = [stage |-> "recheck", on |-> call[k].on, to |-> NoContext]]
      /\ UNCHANGED <<frames, framesParked, nextId, runQueue, running, timers, pc, waiters,
                     owner, count, ioWaits>>
  BY DEF Migrate, InNext
<1> HIDE DEF s
<1>4. pc' = [pc EXCEPT ![k] = "sync"]
  BY <1>0, <1>3 DEF TypeOK
<1>5. CountersNat' => TypeOK'
  BY <1>0, <1>1, <1>2, <1>3 DEF TypeOK, CountersNat, Migrate, Released, GateWaitersTold
<1>6. PlaceInv' /\ Tame
  BY <1>0, <1>3 DEF PlaceInv, Tame, Nesting, InHand, Torn, Migrate, GateWaitersTold
<1>7. IoPlaces'
  BY <1>0, <1>3 DEF IoPlaces
<1>8. Tally(k, "sync", stage[k])
  <2>1. UNCHANGED <<countVars, freezeDepth, stopRequested, stage>>
    BY DEF Migrate
  <2>2. /\ stage' = [stage EXCEPT ![k] = stage[k]]
        /\ idleCount \in Nat /\ activeCount \in Nat /\ blockedCount \in Nat
        /\ freezeDepth \in Nat
    BY <1>0, <2>1 DEF TypeOK, DebugTypeOK
  <2> QED
    <3>1. \A L : Is("sync", L) \in {0, 1} /\ Is(stage[k], L) \in {0, 1}
      BY DEF Is
    <3>2. /\ idleCount' = idleCount + Is("sync", CountsAsIdle) - Is("sync", CountsAsIdle)
          /\ activeCount' = activeCount + Is("sync", InFlight) - Is("sync", InFlight)
          /\ blockedCount' = blockedCount + Is("sync", {"native"}) - Is("sync", {"native"})
          /\ freezeDepth' = freezeDepth + Is(stage[k], FreezeAt) - Is(stage[k], FreezeAt)
      BY <2>1, <2>2, <3>1
    <3> QED
      BY <1>0, <1>4, <2>1, <2>2, <3>2 DEF Tally
<1>9. Own(k, s, "sync")
  <2>1. CarrierAt(k, "sync")'
    BY <1>0, <1>1, <1>2, <1>3 DEF CarrierAt, TypeOK, SyncParked, Free
  <2>2. frames' = [frames EXCEPT ![running[k]] = frames'[running[k]]]
    BY <1>0, <1>1, <1>3 DEF TypeOK
  <2> QED
    BY <1>0, <1>1, <1>2, <1>3, <1>4, <2>1, <2>2 DEF Own, IoDue
<1>10. SyncInv'
  BY <1>0, <1>3, MigrateKeeps DEF s
<1>11. SyncTypeOK'
  <2>1. call' \in [Carriers -> Calls]
    BY <1>0, <1>3 DEF SyncTypeOK, Calls, Stages
  <2> QED
    BY <1>0, <1>3, <2>1 DEF SyncTypeOK
<1> QED
  BY <1>0, <1>2, <1>5, <1>6, <1>7, <1>8, <1>9, <1>10, <1>11, Counted, OwnKeeps DEF Sound

\* AbortPark.
LEMMA AbortSteps ==
    ASSUME IndInv, NEW k \in Carriers, UNCHANGED <<closing, debugVars>>, AbortPark(k)
    PROVE  Sound /\ SyncInv' /\ SyncTypeOK'
<1> USE DEF debugVars
<1>0. /\ TypeOK /\ DebugTypeOK /\ SyncTypeOK /\ PlaceInv /\ Nesting /\ IoPlaces
      /\ pc[k] = "sync" /\ call[k].stage = "abort" /\ "run" \in Locations
      /\ stage[k] \in Sections /\ "Runnable" \in States /\ NoContext \notin Contexts
  BY Base, Here DEF AbortPark, InCall, At, Locations, States
<1>1. /\ running[k] \in Contexts /\ state[running[k]] \in SyncParked
      /\ ~framesParked[running[k]]
  BY <1>0, SyncFacts, Here DEF CallInv, CallAt, CarrierAt, SyncParked
<1>2. /\ state' = [state EXCEPT ![running[k]] = "Runnable"]
      /\ call' = [call EXCEPT ![k] = NoCall]
      /\ pc' = [pc EXCEPT ![k] = "run"]
      /\ held' = [held EXCEPT ![k] = running[k]]
      /\ UNCHANGED <<frames, framesParked, nextId, runQueue, running, timers, waiters,
                     owner, count, ioWaits>>
  BY DEF AbortPark, Return, Go
<1>3. CountersNat' => TypeOK'
  BY <1>0, <1>1, <1>2 DEF TypeOK, CountersNat, AbortPark
<1>4. PlaceInv' /\ Tame
  BY <1>0, <1>2 DEF PlaceInv, Tame, Nesting, InHand, Torn, AbortPark, TypeOK, Waits
<1>5. IoPlaces'
  BY <1>0, <1>2 DEF IoPlaces, TypeOK
<1>6. Tally(k, "run", stage[k])
  BY <1>0, <1>2 DEF Tally, AbortPark, TypeOK, DebugTypeOK, Is, CountsAsIdle, InFlight,
                    Locations, Waits
<1>7. Own(k, "Runnable", "run")
  <2>1. CarrierAt(k, "run")'
    BY <1>0, <1>1, <1>2 DEF CarrierAt, TypeOK, Free
  <2>2. frames' = [frames EXCEPT ![running[k]] = frames'[running[k]]]
    BY <1>0, <1>1, <1>2 DEF TypeOK
  <2> QED
    BY <1>0, <1>1, <1>2, <2>1, <2>2 DEF Own, IoDue, SyncParked
<1>8. SyncInv'
  BY <1>0, <1>2, AbortKeeps
<1>9. SyncTypeOK'
  <2>1. call' \in [Carriers -> Calls]
    BY <1>0, <1>2 DEF SyncTypeOK, Calls
  <2> QED
    BY <1>0, <1>2, <2>1 DEF SyncTypeOK
<1> QED
  BY <1>0, <1>3, <1>4, <1>5, <1>6, <1>7, <1>8, <1>9, Counted, OwnKeeps DEF Sound

\* WakeForMutex and WakeForSemaphore.
LEMMA GrantSteps ==
    ASSUME IndInv, NEW k \in Carriers, UNCHANGED <<closing, debugVars>>, WakeNewOwner(k)
    PROVE  Sound /\ SyncInv' /\ SyncTypeOK'
<1> USE DEF debugVars
<1> DEFINE c == call[k].to
<1>0. /\ TypeOK /\ DebugTypeOK /\ SyncTypeOK /\ PlaceInv /\ Nesting /\ IoPlaces
      /\ pc[k] = "sync" /\ call[k].stage = "handoff" /\ "run" \in Locations
      /\ stage[k] \in Sections /\ "Runnable" \in States /\ NoContext \notin Contexts
      /\ QueueInv /\ TimerInv /\ IoSplit
  BY Base, Here DEF WakeNewOwner, InCall, At, Locations, States, IndInv, IoInv, IoSplit, IoDue
<1>1. /\ c \in Contexts /\ state[c] \in SyncParked /\ running[k] \in Contexts
      /\ state[running[k]] = "Runnable" /\ ~framesParked[running[k]]
  BY <1>0, SyncFacts, Here DEF CallInv, CallAt, CarrierAt, SyncParked
<1>2. /\ state' = [state EXCEPT ![c] = "Runnable"]
      /\ runQueue' = IF framesParked[c] THEN Append(runQueue, c) ELSE runQueue
      /\ call' = [call EXCEPT ![k] = NoCall]
      /\ pc' = [pc EXCEPT ![k] = "run"]
      /\ UNCHANGED <<frames, framesParked, nextId, running, timers, waiters,
                     owner, count, ioWaits>>
  BY DEF WakeNewOwner, Return, Go, Queueable
<1> HIDE DEF c
<1>3. /\ runQueue' \in Seq(Contexts) /\ Distinct(runQueue')
      /\ \A d \in Contexts : Occurs(d, runQueue') <=>
            Occurs(d, runQueue) \/ (d \in {c} /\ framesParked[d])
  <2>1. runQueue \in Seq(Contexts) /\ Distinct(runQueue) /\ ~Occurs(c, runQueue)
    BY <1>0, <1>1 DEF TypeOK, QueueInv, SyncParked
  <2>2. /\ Append(runQueue, c) \in Seq(Contexts) /\ Distinct(Append(runQueue, c))
        /\ \A d : Occurs(d, Append(runQueue, c)) <=> Occurs(d, runQueue) \/ d = c
    BY <1>1, <2>1, OneMore
  <2> QED
    BY <1>2, <2>1, <2>2
<1>4. CountersNat' => TypeOK'
  <2>1. /\ UNCHANGED <<lastCarrier, parkHandle, selectSet, joinResultDst, rethrow, failExc,
                       failObserved, timerNotify, held, countVars, stopRequested,
                       hostVars, gateVars>>
        /\ asleep' = {}
    BY DEF WakeNewOwner
  <2> QED
    BY <1>0, <1>1, <1>2, <1>3, <2>1 DEF TypeOK, CountersNat
<1>5. PlaceInv' /\ Tame
  BY <1>0, <1>2 DEF PlaceInv, Tame, Nesting, InHand, Torn, WakeNewOwner, TypeOK
<1>6. IoPlaces'
  BY <1>0, <1>2 DEF IoPlaces, TypeOK
<1>7. Tally(k, "run", stage[k])
  BY <1>0, <1>2 DEF Tally, WakeNewOwner, TypeOK, DebugTypeOK, Is, CountsAsIdle, InFlight,
                    Locations, Waits
<1>8. Wake({c})
  <2>1. \A j \in Carriers :
          \/ pc'[j] = pc[j] /\ running'[j] = running[j]
          \/ CarrierAt(j, pc[j])' /\ running'[j] = running[j]
    <3>1. CarrierAt(k, pc[k])'
      BY <1>0, <1>1, <1>2 DEF CarrierAt, TypeOK, Free, SyncParked
    <3> QED
      BY <1>0, <1>2, <3>1 DEF TypeOK
  <2>2. \A d \in Contexts : /\ d \in timers' <=> d \in timers /\ d \notin {c}
                            /\ IoDue(d)' <=> IoDue(d) /\ d \notin {c}
    BY <1>0, <1>1, <1>2 DEF TimerInv, IoSplit, IoDue, SyncParked
  <2>3. \A d \in Contexts : IF d \in {c} THEN state'[d] = "Runnable" ELSE state'[d] = state[d]
    BY <1>0, <1>1, <1>2 DEF TypeOK
  <2> QED
    BY <1>1, <1>2, <1>3, <2>1, <2>2, <2>3 DEF Wake, SyncParked, Parked
<1>9. SyncInv'
  BY <1>0, <1>2, GrantKeeps DEF c
<1>10. SyncTypeOK'
  <2>1. call' \in [Carriers -> Calls]
    BY <1>0, <1>2 DEF SyncTypeOK, Calls
  <2> QED
    BY <1>0, <1>2, <2>1 DEF SyncTypeOK
<1> QED
  BY <1>0, <1>4, <1>5, <1>6, <1>7, <1>8, <1>9, <1>10, Counted, WakeKeeps DEF Sound

\* ConsumeSyncWaiterStamp.
LEMMA RecheckSteps ==
    ASSUME IndInv, NEW k \in Carriers, UNCHANGED <<closing, debugVars>>, Recheck(k)
    PROVE  Sound /\ SyncInv' /\ SyncTypeOK'
<1> DEFINE p == call[k].on
           i == OwnIndex(k, p)
<1>0. /\ TypeOK /\ SyncTypeOK /\ pc[k] = "sync" /\ call[k].stage = "recheck"
      /\ "unwind" \in Locations /\ "sync" \in Locations /\ p \in Primitives
      /\ SchedulerUnchanged /\ UNCHANGED <<state, running, owner, count>>
      /\ call \in [Carriers -> Calls] /\ OneEntry
  BY Base, EntryAlone, SyncFacts DEF Recheck, InCall, At, Locations, SchedulerUnchanged
<1>1. /\ running[k] \in Contexts /\ CarrierAt(k, "sync")
      /\ state[running[k]] \in SyncParked /\ ~framesParked[running[k]]
  BY <1>0, SyncFacts, Here DEF CallInv, CallAt, CarrierAt, SyncParked, ParkedOn
<1>2. /\ i \in DOMAIN waiters[p] /\ waiters[p][i].ctx = running[k]
      /\ waiters[p][i].phase \in {"Pending", "Acquired"}
  <2>1. PICK j \in DOMAIN waiters[p] : /\ waiters[p][j].ctx = running[k]
                                       /\ waiters[p][j].phase \in {"Pending", "Acquired"}
    BY <1>0, SyncFacts DEF CallInv, CallAt, Entry
  <2>2. \A l \in DOMAIN waiters[p] : waiters[p][l].ctx = running[k] => l = j
    BY <1>0, <2>1 DEF OneEntry
  <2>3. j \in Nat /\ j <= j
    BY <1>0, <2>1 DEF SyncTypeOK
  <2>4. i = j
    BY <2>1, <2>2, <2>3 DEF OwnIndex
  <2> QED
    BY <2>1, <2>4
<1>3. CASE StillPending(waiters[p][i])
  <2>1. /\ waiters' = [waiters EXCEPT ![p] =
                   [@ EXCEPT ![i] = [ctx |-> waiters[p][i].ctx, phase |-> "Committed"]]]
        /\ call' = [call EXCEPT ![k] = NoCall]
        /\ pc' = [pc EXCEPT ![k] = "unwind"]
    BY <1>3 DEF Recheck, Go
  <2>2. "Committed" \in Phases /\ CarrierAt(k, "unwind")
    BY <1>1 DEF Phases, CarrierAt, SyncParked, Parked, Free, NoContext, Contexts
  <2> HIDE DEF i
  <2>3. Tabled(p, running[k], "Committed")
    BY <1>0, <1>2, <2>1, <2>2, Restamped
  <2>4. Sound
    BY <1>0, <2>1, <2>2, SectionSound
  <2>5. SyncInv'
    BY <1>0, <2>1, <2>3, CommitKeeps
  <2>6. call' \in [Carriers -> Calls]
    BY <1>0, <2>1 DEF Calls
  <2> QED
    BY <1>0, <2>3, <2>4, <2>5, <2>6 DEF SyncTypeOK, Tabled
<1>4. CASE ~StillPending(waiters[p][i])
  <2>1. /\ waiters' = [waiters EXCEPT ![p] = Without(@, i)]
        /\ call' = [call EXCEPT ![k] = [stage |-> "abort", on |-> p, to |-> NoContext]]
        /\ UNCHANGED pc
    BY <1>4 DEF Recheck, InNext
  <2>2. pc' = [pc EXCEPT ![k] = "sync"]
    BY <1>0, <2>1 DEF TypeOK
  <2> HIDE DEF i
  <2>3. Tabled(p, running[k], "none")
    BY <1>0, <1>2, <2>1, Struck
  <2>4. Sound
    BY <1>0, <1>1, <2>2, SectionSound
  <2>5. SyncInv'
    BY <1>0, <2>1, <2>3, ConsumeKeeps
  <2>6. call' \in [Carriers -> Calls]
    BY <1>0, <2>1 DEF Calls, Stages
  <2> QED
    BY <1>0, <2>3, <2>4, <2>5, <2>6 DEF SyncTypeOK, Tabled
<1> QED
  BY <1>3, <1>4

-----------------------------------------------------------------------------
\* The invariant of the pump through a step of another part.
LEMMA TameKeeps == ASSUME IndInv, Tame PROVE PumpInv'
<1>1. PumpInv /\ UNCHANGED pumpVars
  BY DEF IndInv, Tame
<1>2. \A k \in Carriers : pc'[k] \notin Torn
  BY <1>1 DEF PumpInv, NoTeardown, Tame
<1>3. \A k \in Carriers : Nested(k)' => pc'[k] \in InHand /\ InOwnWindow(k)'
  <2> SUFFICES ASSUME NEW k \in Carriers, Nested(k)' PROVE pc'[k] \in InHand /\ InOwnWindow(k)'
    OBVIOUS
  <2>1. windows' = windows
    BY <1>1
  <2>2. Nested(k) /\ pc[k] \in InHand /\ InOwnWindow(k)
    BY <1>1, <2>1 DEF PumpInv, NestInv, Nested, Top
  <2>3. pc'[k] \in InHand /\ running'[k] = running[k]
    BY <2>2 DEF Tame
  <2> QED
    BY <2>1, <2>2, <2>3 DEF InOwnWindow, Top
<1>4. NestInv'
  BY <1>1, <1>3 DEF PumpInv, NestInv
<1>5. PumpsCounted' /\ wrecked' = {}
  BY <1>1 DEF PumpInv, PumpsCounted, Suspensions
<1> QED
  BY <1>2, <1>4, <1>5 DEF PumpInv, NoTeardown

\* The invariant from the parts the step lemmas give.
LEMMA FromParts ==
    ASSUME IndInv, Sound, SyncInv', SyncTypeOK', DebugTypeOK',
           closing' \in [Carriers -> SUBSET Contexts]
    PROVE  IndInv'
<1>1. IoInv'
  BY DEF Sound, Resting, IoSplit, IoDue, IoPlaces, IoInv
<1>2. Types'
  BY DEF Sound, Types
<1>3. PumpInv'
  BY TameKeeps DEF Sound
<1> QED
  BY <1>1, <1>2, <1>3 DEF Sound, Resting, IndInv

\* A step that touches the windows and at most wakes the sleepers keeps the
\* rest of the invariant.
besideWindows == <<contextVars, queueVars, held, running, countVars, stopRequested, hostVars,
                   program, focus, freezeDepth, ioVars, pc, syncVars, closing, debugVars>>

LEMMA BesideWindows ==
    ASSUME IndInv, UNCHANGED besideWindows, asleep' \in {asleep, {}}, TypeOK', PumpInv'
    PROVE  IndInv'
<1>1. UNCHANGED besideWindows
  OBVIOUS
<1>2. SyncTypeOK' = SyncTypeOK /\ DebugTypeOK' = DebugTypeOK /\ closing' = closing
  BY <1>1 DEF besideWindows, SyncTypeOK, DebugTypeOK, syncVars, debugVars
<1>3. Types'
  BY <1>2 DEF IndInv, Types
<1>4. PlaceInv'
  BY <1>1 DEF IndInv, PlaceInv, besideWindows, debugVars
<1>5. CountInv'
  BY <1>1 DEF IndInv, CountInv, besideWindows, debugVars
<1>6. CarrierInv' /\ CarriedOnce' /\ TimerInv'
  BY <1>1 DEF IndInv, CarrierInv, CarrierAt, CarriedOnce, TimerInv, besideWindows
<1>7. QueueInv' /\ RestInv'
  BY <1>1 DEF IndInv, QueueInv, RestInv, Carried, besideWindows
<1>8. IoInv'
  BY <1>1 DEF IndInv, IoInv, besideWindows
<1>9. SyncInv'
  <2>1. Apart
    BY <1>1 DEF Apart, besideWindows, syncVars
  <2> QED
    BY <2>1, ApartKeepsSync
<1> QED
  BY <1>3, <1>4, <1>5, <1>6, <1>7, <1>8, <1>9 DEF IndInv

\* A stuttering step keeps the invariant.
LEMMA Stutter == ASSUME IndInv, UNCHANGED runtimeVars PROVE IndInv'
<1>1. UNCHANGED vars /\ UNCHANGED <<syncVars, closing, debugVars>>
  BY DEF runtimeVars
<1>2. TypeOK'
  BY <1>1 DEF vars, TypeOK, IndInv, Types
<1>3. Tame
  BY <1>1 DEF Tame, vars
<1>4. UNCHANGED besideWindows /\ asleep' = asleep
  BY <1>1 DEF vars, besideWindows
<1> QED
  BY <1>2, <1>3, <1>4, TameKeeps, BesideWindows

-----------------------------------------------------------------------------
\* What the invariant says of the stack of windows of a carrier.
LEMMA Stacked ==
    ASSUME IndInv, NEW k \in Carriers
    PROVE  /\ windows \in [Carriers -> Seq([ctx : Contexts, token : Nat])]
           /\ Len(windows[k]) \in Nat /\ DOMAIN windows[k] = 1 .. Len(windows[k])
           /\ Len(windows[k]) <= MaxWindows /\ MaxWindows \in Nat
           /\ windows[k] # <<>> => Len(windows[k]) \in 1 .. Len(windows[k])
           /\ IsFiniteSet(Suspensions) /\ pumpCount = Cardinality(Suspensions)
           /\ pumpCount \in Nat
<1>1. /\ windows \in [Carriers -> Seq([ctx : Contexts, token : Nat])]
      /\ Len(windows[k]) <= MaxWindows /\ MaxWindows \in Nat
      /\ pumpCount = Cardinality(Suspensions) /\ pumpCount \in Nat
  BY ConstantsAssumption DEF IndInv, Types, TypeOK, PumpInv, PumpsCounted
<1> DEFINE W == [ctx : Contexts, token : Nat]
<1>2. windows[k] \in Seq(W)
  BY <1>1
<1> HIDE DEF W
<1>3. /\ Len(windows[k]) \in Nat /\ DOMAIN windows[k] = 1 .. Len(windows[k])
      /\ windows[k] # <<>> => Len(windows[k]) \in 1 .. Len(windows[k])
  BY <1>2
<1>4. IsFiniteSet(1 .. MaxWindows) /\ IsFiniteSet(Carriers)
  <2>1. MaxWindows \in Nat
    BY <1>1
  <2>2. IsFiniteSet(1 .. MaxWindows)
    BY <2>1, FS_Interval
  <2> QED
    BY <2>2, ConstantsAssumption
<1>5. IsFiniteSet(Carriers \X (1 .. MaxWindows))
  BY <1>4, FS_Product
<1>6. IsFiniteSet(Suspensions)
  <2>1. Suspensions \in SUBSET (Carriers \X (1 .. MaxWindows))
    BY DEF Suspensions
  <2> QED
    BY <1>5, <2>1, FS_Subset
<1> QED
  BY <1>1, <1>3, <1>6

\* A carrier opens a window on its context,
LEMMA OpenKeeps ==
    ASSUME IndInv, NEW k \in Carriers, OpenWindow(k),
           UNCHANGED <<syncVars, closing, debugVars>>
    PROVE  IndInv'
<1> DEFINE n == Len(windows[k])
           w == [ctx |-> running[k], token |-> 0]
           q == Append(windows[k], w)
           W == [ctx : Contexts, token : Nat]
<1>1. /\ windows' = [windows EXCEPT ![k] = q] /\ n < MaxWindows
      /\ UNCHANGED besideWindows /\ asleep' = asleep
      /\ UNCHANGED <<token, pinned, pumpCount, wrecked>> /\ pc[k] = "run"
  BY DEF OpenWindow, besideWindows, Runs, At
<1>2. running[k] \in Contexts /\ TypeOK
  BY <1>1, Here DEF Busy
<1>3. /\ windows \in [Carriers -> Seq(W)] /\ n \in Nat /\ DOMAIN windows[k] = 1 .. n
      /\ MaxWindows \in Nat
  BY Stacked
<1>4. windows[k] \in Seq(W) /\ w \in W
  BY <1>2, <1>3
<1>5. w.token = 0 /\ w.ctx = running[k]
  OBVIOUS
<1> HIDE DEF W, w
<1>6. /\ q \in Seq(W) /\ Len(q) = n + 1 /\ DOMAIN q = 1 .. n + 1 /\ q[n + 1] = w
      /\ \A i \in 1 .. n : q[i] = windows[k][i]
  BY <1>4
<1> HIDE DEF q
<1>7. /\ windows' \in [Carriers -> Seq(W)] /\ windows'[k] = q
      /\ \A l \in Carriers \ {k} : windows'[l] = windows[l]
  BY <1>1, <1>3, <1>6
<1>8. TypeOK'
  <2>1. \A l \in Carriers : Len(windows'[l]) <= MaxWindows
    BY <1>1, <1>2, <1>3, <1>6, <1>7 DEF TypeOK
  <2> QED
    BY <1>1, <1>2, <1>7, <2>1 DEF TypeOK, W, besideWindows
<1>9. NestInv'
  <2>0. NestInv /\ pc' = pc /\ running' = running
    BY <1>1 DEF IndInv, PumpInv, besideWindows
  <2>1. ASSUME NEW l \in Carriers, l # k
        PROVE  /\ Nested(l)' => pc'[l] \in InHand /\ InOwnWindow(l)'
               /\ \A i \in 1 .. Len(windows'[l]) - 1 :
                     windows'[l][i].token = 0 => windows'[l][i + 1].ctx = windows'[l][i].ctx
    BY <1>7, <2>0, <2>1 DEF NestInv, Nested, InOwnWindow, Top
  <2>2. pc'[k] \in InHand /\ InOwnWindow(k)'
    <3>1. q # <<>> /\ windows'[k][Len(windows'[k])] = w
      BY <1>3, <1>6, <1>7
    <3> QED
      BY <1>1, <1>5, <1>7, <2>0, <3>1 DEF InHand, InOwnWindow, Top
  <2>3. ASSUME NEW i \in 1 .. Len(windows'[k]) - 1, windows'[k][i].token = 0
        PROVE  windows'[k][i + 1].ctx = windows'[k][i].ctx
    <3>1. i \in 1 .. n /\ q[i] = windows[k][i] /\ windows[k][i].token = 0
      BY <1>3, <1>6, <1>7, <2>3
    <3>2. CASE i = n
      <4>1. windows[k] # <<>> /\ Top(k) = windows[k][n]
        BY <1>3, <3>1 DEF Top
      <4>2. windows[k][n].ctx = running[k]
        BY <2>0, <3>1, <3>2, <4>1 DEF NestInv, Nested, InOwnWindow
      <4> QED
        BY <1>5, <1>6, <1>7, <3>1, <3>2, <4>2
    <3>3. CASE i # n
      <4>0. n \in Nat /\ i \in 1 .. n
        BY <1>3, <3>1
      <4>1. i \in 1 .. n - 1 /\ i + 1 \in 1 .. n
        BY <3>3, <4>0
      <4>2. windows[k][i + 1].ctx = windows[k][i].ctx
        BY <2>0, <3>1, <4>1 DEF NestInv
      <4> QED
        BY <1>6, <1>7, <3>1, <4>1, <4>2
    <3> QED
      BY <3>2, <3>3
  <2> QED
    BY <2>1, <2>2, <2>3 DEF NestInv
<1>10. Suspensions' = Suspensions
  <2>1. ASSUME NEW l \in Carriers, NEW i
        PROVE  i \in DOMAIN windows'[l] /\ windows'[l][i].token # 0
               <=> i \in DOMAIN windows[l] /\ windows[l][i].token # 0
    <3>1. CASE l # k
      BY <1>7, <3>1
    <3>2. CASE l = k
      <4>1. i \in 1 .. n + 1 <=> i \in 1 .. n \/ i = n + 1
        BY <1>3
      <4>2. n + 1 \notin 1 .. n
        BY <1>3
      <4> QED
        BY <1>3, <1>5, <1>6, <1>7, <3>2, <4>1, <4>2
    <3> QED
      BY <3>1, <3>2
  <2> QED
    BY <2>1 DEF Suspensions
<1>11. PumpInv'
  BY <1>1, <1>9, <1>10 DEF IndInv, PumpInv, PumpsCounted, NoTeardown, besideWindows
<1> QED
  BY <1>1, <1>8, <1>11, BesideWindows

\* starts a pump for it when it parks,
LEMMA StartKeeps ==
    ASSUME IndInv, StackInv, NEW k \in Carriers, StartPump(k),
           UNCHANGED <<syncVars, closing, debugVars>>
    PROVE  IndInv'
<1> DEFINE n == Len(windows[k])
           e == [ctx |-> running[k], token |-> token'[k]]
           q == [windows[k] EXCEPT ![n] = e]
           W == [ctx : Contexts, token : Nat]
<1>1. /\ UNCHANGED besideWindows /\ asleep' = asleep /\ wrecked' = wrecked
      /\ pumpCount' = pumpCount + 1 /\ pc[k] = "unwind" /\ Top(k).token = 0
  BY DEF StartPump, besideWindows, At
<1>2. running[k] \in Contexts /\ TypeOK
  BY <1>1, Here DEF Busy
<1>3. /\ windows \in [Carriers -> Seq(W)] /\ n \in Nat /\ DOMAIN windows[k] = 1 .. n
      /\ MaxWindows \in Nat /\ n <= MaxWindows /\ pumpCount = Cardinality(Suspensions)
      /\ IsFiniteSet(Suspensions) /\ pumpCount \in Nat
  BY Stacked
<1>4. /\ windows' = [windows EXCEPT ![k] = q] /\ token'[k] \in Nat \ {0} /\ n \in 1 .. n
      /\ StackInv'
  BY <1>3, Started
<1>5. windows[k] \in Seq(W) /\ e \in W /\ e.token # 0 /\ e.ctx = running[k]
  BY <1>2, <1>3, <1>4
<1> HIDE DEF W, e
<1>6. /\ q \in Seq(W) /\ Len(q) = n /\ DOMAIN q = 1 .. n /\ q[n] = e
      /\ \A i \in 1 .. n : i # n => q[i] = windows[k][i]
  BY <1>3, <1>4, <1>5
<1> HIDE DEF q
<1>7. /\ windows' \in [Carriers -> Seq(W)] /\ windows'[k] = q
      /\ \A l \in Carriers \ {k} : windows'[l] = windows[l]
  BY <1>3, <1>4, <1>6
<1>8. TypeOK'
  <2>1. \A l \in Carriers : Len(windows'[l]) <= MaxWindows
    BY <1>2, <1>3, <1>6, <1>7 DEF TypeOK
  <2>2. token' \in [Carriers -> Nat] /\ pinned' \in [Contexts -> Nat] /\ pumpCount' \in Nat
    BY <1>1, <1>3, <1>4 DEF StackInv, StacksTyped
  <2> QED
    BY <1>1, <1>2, <1>7, <2>1, <2>2 DEF TypeOK, W, besideWindows
<1>9. NestInv'
  <2>0. NestInv /\ pc' = pc /\ running' = running
    BY <1>1 DEF IndInv, PumpInv, besideWindows
  <2>1. ASSUME NEW l \in Carriers, l # k
        PROVE  /\ Nested(l)' => pc'[l] \in InHand /\ InOwnWindow(l)'
               /\ \A i \in 1 .. Len(windows'[l]) - 1 :
                     windows'[l][i].token = 0 => windows'[l][i + 1].ctx = windows'[l][i].ctx
    BY <1>7, <2>0, <2>1 DEF NestInv, Nested, InOwnWindow, Top
  <2>2. ~Nested(k)'
    BY <1>5, <1>6, <1>7 DEF Nested, Top
  <2>3. ASSUME NEW i \in 1 .. Len(windows'[k]) - 1, windows'[k][i].token = 0
        PROVE  windows'[k][i + 1].ctx = windows'[k][i].ctx
    <3>0. n \in Nat /\ i \in 1 .. n - 1
      BY <1>3, <1>6, <1>7
    <3>1. i \in 1 .. n - 1 /\ i \in 1 .. n /\ i # n /\ i + 1 \in 1 .. n
      BY <3>0
    <3>2. windows'[k][i] = windows[k][i]
      BY <1>6, <1>7, <3>1
    <3>3. windows'[k][i + 1].ctx = windows[k][i + 1].ctx
      <4>1. windows[k][n].ctx = running[k]
        BY DEF StartPump, InOwnWindow, Top
      <4> QED
        BY <1>5, <1>6, <1>7, <3>1, <4>1
    <3> QED
      BY <2>0, <2>3, <3>1, <3>2, <3>3 DEF NestInv
  <2> QED
    BY <2>1, <2>2, <2>3 DEF NestInv
<1>10. Suspensions' = Suspensions \cup {<<k, n>>} /\ <<k, n>> \notin Suspensions
  <2>1. ASSUME NEW l \in Carriers, NEW i
        PROVE  i \in DOMAIN windows'[l] /\ windows'[l][i].token # 0
               <=> (i \in DOMAIN windows[l] /\ windows[l][i].token # 0) \/ (l = k /\ i = n)
    BY <1>3, <1>4, <1>5, <1>6, <1>7
  <2>2. <<k, n>> \in Carriers \X (1 .. MaxWindows)
    BY <1>3, <1>4
  <2>3. windows[k][n].token = 0
    BY <1>1 DEF Top
  <2>4. \A w \in Carriers \X (1 .. MaxWindows) : w = <<k, n>> <=> w[1] = k /\ w[2] = n
    OBVIOUS
  <2> QED
    BY <2>1, <2>2, <2>3, <2>4 DEF Suspensions
<1>11. pumpCount' = Cardinality(Suspensions')
  <2>1. Cardinality(Suspensions \cup {<<k, n>>}) = Cardinality(Suspensions) + 1
    BY <1>3, <1>10, FS_AddElement
  <2> QED
    BY <1>1, <1>3, <1>10, <2>1
<1>12. PumpInv'
  BY <1>1, <1>9, <1>11 DEF IndInv, PumpInv, PumpsCounted, NoTeardown, besideWindows
<1> QED
  BY <1>1, <1>8, <1>12, BesideWindows

\* and closes it when its frames are done.
LEMMA CloseKeeps ==
    ASSUME IndInv, StackInv, NEW k \in Carriers, CloseWindow(k),
           UNCHANGED <<syncVars, closing, debugVars>>
    PROVE  IndInv'
<1> DEFINE n == Len(windows[k])
           q == SubSeq(windows[k], 1, n - 1)
           W == [ctx : Contexts, token : Nat]
<1>1. /\ UNCHANGED besideWindows /\ asleep' \in {asleep, {}} /\ wrecked' = wrecked
      /\ windows' = [windows EXCEPT ![k] = q] /\ pc[k] = "run" /\ InOwnWindow(k)
      /\ pumpCount' = IF Top(k).token = 0 THEN pumpCount ELSE pumpCount - 1
  BY DEF CloseWindow, LeaveWindow, WithoutTop, OnePumpLess, besideWindows, At
<1>2. TypeOK /\ windows[k] # <<>> /\ windows[k][n] = Top(k) /\ Top(k).ctx = running[k]
  BY <1>1, Here DEF InOwnWindow, Top
<1>3. /\ windows \in [Carriers -> Seq(W)] /\ n \in Nat /\ DOMAIN windows[k] = 1 .. n
      /\ MaxWindows \in Nat /\ n <= MaxWindows /\ pumpCount = Cardinality(Suspensions)
      /\ IsFiniteSet(Suspensions) /\ n \in 1 .. n /\ pumpCount \in Nat
  BY <1>2, Stacked
<1>4. StackInv'
  BY Left DEF CloseWindow
<1>5. windows[k] \in Seq(W)
  BY <1>3
<1> HIDE DEF W
<1>6. /\ q \in Seq(W) /\ Len(q) = n - 1 /\ DOMAIN q = 1 .. n - 1
      /\ \A i \in 1 .. n - 1 : q[i] = windows[k][i]
  BY <1>3, <1>5
<1> HIDE DEF q
<1>7. /\ windows' \in [Carriers -> Seq(W)] /\ windows'[k] = q
      /\ \A l \in Carriers \ {k} : windows'[l] = windows[l]
  BY <1>1, <1>3, <1>6
<1>8. Suspensions' = Suspensions \ {<<k, n>>} /\ (<<k, n>> \in Suspensions <=> Top(k).token # 0)
  <2>1. ASSUME NEW l \in Carriers, NEW i
        PROVE  i \in DOMAIN windows'[l] /\ windows'[l][i].token # 0
               <=> (i \in DOMAIN windows[l] /\ windows[l][i].token # 0) /\ ~(l = k /\ i = n)
    <3>1. CASE l # k
      BY <1>7, <3>1
    <3>2. CASE l = k
      <4>1. i \in 1 .. n - 1 <=> i \in 1 .. n /\ i # n
        BY <1>3
      <4> QED
        BY <1>3, <1>6, <1>7, <3>2, <4>1
    <3> QED
      BY <3>1, <3>2
  <2>2. <<k, n>> \in Carriers \X (1 .. MaxWindows)
    BY <1>3
  <2>3. \A w \in Carriers \X (1 .. MaxWindows) : w = <<k, n>> <=> w[1] = k /\ w[2] = n
    OBVIOUS
  <2> QED
    BY <1>2, <1>3, <2>1, <2>2, <2>3 DEF Suspensions
<1>9. pumpCount' = Cardinality(Suspensions') /\ pumpCount' \in Nat
  <2>1. Cardinality(Suspensions') =
           IF Top(k).token # 0 THEN Cardinality(Suspensions) - 1 ELSE Cardinality(Suspensions)
    BY <1>3, <1>8, FS_RemoveElement
  <2>2. Cardinality(Suspensions') \in Nat
    BY <1>3, <1>8, FS_RemoveElement, FS_CardinalityType
  <2> QED
    BY <1>1, <1>3, <2>1, <2>2
<1>10. TypeOK'
  <2>1. \A l \in Carriers : Len(windows'[l]) <= MaxWindows
    <3>1. Len(q) <= MaxWindows
      <4>1. n \in Nat /\ MaxWindows \in Nat /\ n <= MaxWindows /\ Len(q) = n - 1
        BY <1>3, <1>6
      <4> QED
        BY <4>1
    <3>2. \A l \in Carriers : Len(windows[l]) <= MaxWindows
      BY <1>2 DEF TypeOK
    <3> QED
      BY <1>7, <3>1, <3>2
  <2>2. token' \in [Carriers -> Nat] /\ pinned' \in [Contexts -> Nat]
    BY <1>4 DEF StackInv, StacksTyped
  <2> QED
    BY <1>1, <1>2, <1>7, <1>9, <2>1, <2>2 DEF TypeOK, W, besideWindows
<1>11. NestInv'
  <2>0. NestInv /\ pc' = pc /\ running' = running
    BY <1>1 DEF IndInv, PumpInv, besideWindows
  <2>1. ASSUME NEW l \in Carriers, l # k
        PROVE  /\ Nested(l)' => pc'[l] \in InHand /\ InOwnWindow(l)'
               /\ \A i \in 1 .. Len(windows'[l]) - 1 :
                     windows'[l][i].token = 0 => windows'[l][i + 1].ctx = windows'[l][i].ctx
    BY <1>7, <2>0, <2>1 DEF NestInv, Nested, InOwnWindow, Top
  <2>2. ASSUME Nested(k)' PROVE pc'[k] \in InHand /\ InOwnWindow(k)'
    <3>1. q # <<>> /\ q[n - 1].token = 0 /\ Top(k)' = q[n - 1]
      BY <1>6, <1>7, <2>2 DEF Nested, Top
    <3>2. n - 1 \in 1 .. n - 1 /\ (n - 1) + 1 = n
      BY <1>3, <1>6, <3>1
    <3>3. q[n - 1].ctx = windows[k][n].ctx
      BY <1>6, <2>0, <3>1, <3>2 DEF NestInv
    <3> QED
      BY <1>1, <1>2, <1>7, <2>0, <3>1, <3>3 DEF InHand, InOwnWindow
  <2>3. ASSUME NEW i \in 1 .. Len(windows'[k]) - 1, windows'[k][i].token = 0
        PROVE  windows'[k][i + 1].ctx = windows'[k][i].ctx
    <3>0. n \in Nat /\ i \in 1 .. n - 2
      BY <1>3, <1>6, <1>7
    <3>1. i \in 1 .. n - 1 /\ i + 1 \in 1 .. n - 1
      BY <3>0
    <3> QED
      BY <1>6, <1>7, <2>0, <2>3, <3>1 DEF NestInv
  <2> QED
    BY <2>1, <2>2, <2>3 DEF NestInv
<1>12. PumpInv'
  BY <1>1, <1>9, <1>11 DEF IndInv, PumpInv, PumpsCounted, NoTeardown, besideWindows
<1> QED
  BY <1>1, <1>10, <1>12, BesideWindows

\* Every step of the pump that tears no window down keeps the invariant.
LEMMA PumpSteps ==
    ASSUME IndInv, StackInv, NoTeardown', NEW k \in Carriers, PumpStep(k),
           UNCHANGED <<syncVars, closing, debugVars>>
    PROVE  IndInv'
<1>1. pc[k] \notin Torn /\ pc'[k] \notin Torn /\ pc \in [Carriers -> Locations]
  BY Here DEF NoTeardown, TypeOK
<1>2. ~FatalInWindow(k) /\ ~UnwindWindow(k) /\ ~Perish(k)
  BY <1>1 DEF FatalInWindow, UnwindWindow, Perish, Go, At, Torn
<1> QED
  BY <1>2, OpenKeeps, StartKeeps, CloseKeeps DEF PumpStep

\* Every step of VmScheduler keeps the invariant,
LEMMA SchedulerSteps ==
    ASSUME IndInv, NoTeardown', Next, UNCHANGED <<syncVars, closing, debugVars>>
    PROVE  IndInv'
<1>0. Primary \in Carriers /\ 0 \in Contexts /\ {} \in SUBSET Others(Primary)
  BY ConstantsAssumption DEF Contexts
<1>2. SUFFICES ASSUME ~(UNCHANGED runtimeVars) PROVE Sound /\ Apart
  <2>1. SyncTypeOK' /\ DebugTypeOK' /\ closing' \in [Carriers -> SUBSET Contexts]
    BY Base DEF SyncTypeOK, DebugTypeOK, syncVars, debugVars
  <2> QED
    BY <1>2, <2>1, FromParts, ApartKeepsSync, Stutter
<1>3. ASSUME NEW k \in Carriers, CarrierStep(k) PROVE Sound /\ Apart
  <2>1. CASE WakeAfterFinish(k) \/ WakeAfterFailure(k)
    BY <1>0, <2>1, WakeSteps
  <2>2. CASE TakeNext(k)
    BY <2>2, TakeSound
  <2>3. CASE SleepAgain(k)
    BY <2>3, StillSteps
  <2>4. CASE Splice(k) \/ ParkContextFrames(k)
    BY <2>4, FrameSteps
  <2>5. CASE \/ Launch(k) \/ StopAtPop(k) \/ ReportDeadlock(k) \/ Sleep(k)
             \/ WaitAtFreezeGate(k) \/ WaitForHeldFocus(k) \/ DeliverJoinResults(k)
             \/ ShutdownInNative(k) \/ LeaveAuxiliary(k)
    BY <2>5, CarrierMoves
  <2> QED
    BY <1>3, <2>1, <2>2, <2>3, <2>4, <2>5 DEF CarrierStep
<1>4. ASSUME NEW k \in Carriers, ProgramStep(k) PROVE Sound /\ Apart
  <2>1. CASE Yield(k) \/ Preempt(k)
    BY <2>1, CarrierMoves
  <2>2. CASE Spawn(k) \/ NewPromise(k)
    BY <2>2, FrameSteps
  <2>3. CASE \/ ParkForTimer(k) \/ Finish(k) \/ Fail(k) \/ Fatal(k)
             \/ EnterNative(k) \/ ReturnFromNative(k)
    <3>1. {} \in SUBSET Others(k) /\ TRUE \in BOOLEAN
      OBVIOUS
    <3> QED
      BY <1>0, <2>3, <3>1, OwnSteps
  <2>4. CASE \E t \in Contexts, takesResult \in BOOLEAN : ParkForJoin(k, t, takesResult)
    <3>1. {} \in SUBSET Others(k)
      OBVIOUS
    <3> QED
      BY <2>4, <3>1, OwnSteps
  <2>5. CASE \E targets \in SUBSET Others(k) : ParkForJoinAny(k, targets)
    BY <1>0, <2>5, OwnSteps
  <2>6. CASE \E t \in Contexts : ObserveFailure(k, t)
    BY <2>6, StillSteps
  <2>7. CASE \E p \in Contexts, failed \in BOOLEAN : Complete(k, p, failed)
    BY <2>7, WakeSteps
  <2>8. CASE ServiceDueTimers(k)
    BY <2>8, TimerSteps
  <2> QED
    BY <1>4, <2>1, <2>2, <2>3, <2>4, <2>5, <2>6, <2>7, <2>8 DEF ProgramStep
<1>5. CASE TimerExpire
  BY <1>0, <1>5, TimerSteps
<1>6. CASE TimerNotify
  BY <1>0, <1>6, StillSteps
<1>7. CASE LeavePrimary \/ JoinAndCollect
  BY <1>0, <1>7, HostMoves
<1>8. ~Terminated
  BY <1>2 DEF Terminated, runtimeVars
<1> QED
  BY <1>3, <1>4, <1>5, <1>6, <1>7, <1>8 DEF Next

\* every step of a lock call,
LEMMA SyncSteps ==
    ASSUME IndInv, NEW k \in Carriers, SyncStep(k), UNCHANGED <<closing, debugVars>>
    PROVE  IndInv'
<1>1. SUFFICES Sound /\ SyncInv' /\ SyncTypeOK'
  <2>1. DebugTypeOK' /\ closing' \in [Carriers -> SUBSET Contexts]
    BY Base DEF DebugTypeOK, debugVars
  <2> QED
    BY <1>1, <2>1, FromParts
<1>2. ASSUME NEW l \in Locks,
             TakeLock(k, l) \/ ReenterLock(k, l) \/ WaitForLock(k, l) \/ Unlock(k, l)
      PROVE  Sound /\ SyncInv' /\ SyncTypeOK'
  <2>1. CASE TakeLock(k, l) \/ ReenterLock(k, l)
    BY <2>1, LockSteps
  <2>2. CASE WaitForLock(k, l)
    <3>1. l \in Primitives /\ At(k, "run") /\ Register(k, l) /\ SchedulerUnchanged
      BY <2>2 DEF WaitForLock, Primitives
    <3> QED
      BY <3>1, RegisterSteps
  <2>3. CASE Unlock(k, l)
    BY <2>3, UnlockSteps
  <2> QED
    BY <1>2, <2>1, <2>2, <2>3
<1>3. ASSUME NEW s \in Semaphores, TakePermit(k, s) \/ WaitForPermit(k, s) \/ Release(k, s)
      PROVE  Sound /\ SyncInv' /\ SyncTypeOK'
  <2>1. CASE TakePermit(k, s)
    BY <2>1, PermitSteps
  <2>2. CASE WaitForPermit(k, s)
    <3>1. s \in Primitives /\ At(k, "run") /\ Register(k, s) /\ SchedulerUnchanged
      BY <2>2 DEF WaitForPermit, Primitives
    <3> QED
      BY <3>1, RegisterSteps
  <2>3. CASE Release(k, s)
    BY <2>3, ReleaseSteps
  <2> QED
    BY <1>3, <2>1, <2>2, <2>3
<1>4. CASE Migrate(k) \/ Recheck(k) \/ AbortPark(k) \/ WakeNewOwner(k)
  BY <1>4, MigrateSteps, RecheckSteps, AbortSteps, GrantSteps
<1> QED
  BY <1>2, <1>3, <1>4 DEF SyncStep

\* every step of the I/O and of the debugger,
LEMMA IoAndDebugSteps ==
    ASSUME IndInv, NoTeardown', NEW k \in Carriers,
           \/ IoStep(k) /\ UNCHANGED <<syncVars, debugVars>>
           \/ PollerStep /\ UNCHANGED <<syncVars, debugVars>>
           \/ DebugStep(k) /\ UNCHANGED <<syncVars, closing>>
    PROVE  IndInv'
<1>0. 0 \in Contexts /\ {} \in SUBSET ioWaits
  BY ConstantsAssumption DEF Contexts
<1>1. CASE (IoStep(k) \/ PollerStep) /\ UNCHANGED <<syncVars, debugVars>>
  <2>1. Sound /\ Apart /\ closing' \in [Carriers -> SUBSET Contexts]
    <3>1. CASE \/ RetryIo(k) \/ ParkForIo(k) \/ FinishParkedNative(k)
               \/ \E ids \in SUBSET ioWaits : CloseFd(k, ids)
               \/ PollerStarts \/ PollerNotifies
      BY <1>0, <1>1, <3>1, IoMoves
    <3>2. CASE (\E c \in Contexts : WakeClosed(k, c))
               \/ (\E hit \in SUBSET ioWaits : HarvestIoEvents(hit))
      BY <1>0, <1>1, <3>2, IoWakeSteps
    <3> QED
      BY <1>1, <3>1, <3>2 DEF IoStep, PollerStep
  <2>2. SyncTypeOK' /\ DebugTypeOK'
    BY <1>1, Base DEF SyncTypeOK, DebugTypeOK, syncVars, debugVars
  <2> QED
    BY <2>1, <2>2, FromParts, ApartKeepsSync
<1>2. CASE DebugStep(k) /\ UNCHANGED <<syncVars, closing>>
  <2>1. Sound /\ Apart /\ DebugTypeOK'
    BY <1>2, DebugMoves DEF DebugStep
  <2>2. SyncTypeOK' /\ closing' \in [Carriers -> SUBSET Contexts]
    BY <1>2, Base DEF SyncTypeOK, syncVars
  <2> QED
    BY <2>1, <2>2, FromParts, ApartKeepsSync
<1> QED
  BY <1>1, <1>2

\* and so every step of the runtime.
LEMMA NextKeeps ==
    StackInv /\ IndInv /\ NoTeardown' /\ [RuntimeNext]_runtimeVars => IndInv'
<1> SUFFICES ASSUME StackInv, IndInv, NoTeardown', [RuntimeNext]_runtimeVars PROVE IndInv'
  OBVIOUS
<1>0. Primary \in Carriers
  BY ConstantsAssumption
<1>1. CASE UNCHANGED runtimeVars
  BY <1>1, Stutter
<1>2. CASE RuntimeNext
  BY <1>0, <1>2, PumpSteps, SchedulerSteps, SyncSteps, IoAndDebugSteps DEF RuntimeNext
<1> QED
  BY <1>1, <1>2
-----------------------------------------------------------------------------
\* Counting nobody ...
LEMMA NobodyThere ==
    ASSUME NEW S, NEW f, NEW L, \A k \in S : f[k] \notin L
    PROVE  Number(S, f, L) = 0
<1>1. {k \in S : f[k] \in L} = {}
  OBVIOUS
<1> QED
  BY <1>1, FS_EmptySet DEF Number

\* ... and counting one.
LEMMA OnlyOne ==
    ASSUME NEW S, NEW f, NEW L, NEW one \in S, \A k \in S : f[k] \in L <=> k = one
    PROVE  Number(S, f, L) = 1
<1>1. {k \in S : f[k] \in L} = {one}
  OBVIOUS
<1> QED
  BY <1>1, FS_Singleton DEF Number

\* The invariant holds when main has been registered.
LEMMA InitHolds == RuntimeInit => IndInv
<1> SUFFICES ASSUME RuntimeInit PROVE IndInv
  OBVIOUS
<1> USE DEF RuntimeInit
<1>0. /\ Primary \in Carriers /\ 0 \in Contexts /\ NoContext \notin Contexts
      /\ 1 \in 1 .. MaxContexts /\ NoCarrier \notin Carriers
      /\ Primary \in program.carriers /\ program \in Programs
      /\ \A c \in Contexts : c >= 1 <=> c # 0
      /\ MaxWindows >= 0 /\ MaxWindows \in Int
  BY ConstantsAssumption DEF Contexts, NoContext, Init
<1>1. TypeOK
  <2>1. runQueue \in Seq(Contexts)
    BY <1>0 DEF Init, Main
  <2>2. windows \in [Carriers -> Seq([ctx : Contexts, token : Nat])]
        /\ \A k \in Carriers : Len(windows[k]) <= MaxWindows
    BY <1>0 DEF Init
  <2>3. state \in [Contexts -> States] /\ pc \in [Carriers -> Locations]
    BY DEF Init, States, Locations, Parked
  <2> QED
    BY <1>0, <2>1, <2>2, <2>3 DEF Init, TypeOK
<1>2. SyncTypeOK
  BY SyncAssumption DEF SyncInit, SyncTypeOK, Calls, NoCall, Primitives
<1>3. DebugTypeOK
  BY DEF DebugInit, DebugTypeOK, Sections
<1>4. PumpInv /\ PlaceInv
  <2>1. PlaceInv
    BY <1>0 DEF PlaceInv, Init, DebugInit
  <2>2. \A k \in Carriers : windows[k] = <<>> /\ DOMAIN windows[k] = {} /\ Len(windows[k]) = 0
    BY DEF Init
  <2>3. NestInv /\ NoTeardown /\ wrecked = {}
    BY <2>2 DEF NestInv, Nested, NoTeardown, Init, Torn
  <2>4. Suspensions = {}
    BY <2>2 DEF Suspensions
  <2>5. PumpsCounted
    BY <2>4, FS_EmptySet DEF PumpsCounted, Init
  <2> QED
    BY <2>1, <2>3, <2>5 DEF PumpInv
<1>5. CountInv
  <2>1. /\ \A k \in Carriers : pc[k] \notin CountsAsIdle /\ pc[k] \notin {"native"}
        /\ \A k \in Carriers : stage[k] \notin FreezeAt
        /\ \A k \in Carriers : pc[k] \in InFlight <=> k = Primary
    BY <1>0 DEF Init, DebugInit, CountsAsIdle, FreezeAt, InFlight, Locations
  <2>2. /\ Number(Carriers, pc, CountsAsIdle) = 0 /\ Number(Carriers, pc, {"native"}) = 0
        /\ Number(Carriers, stage, FreezeAt) = 0 /\ Number(Carriers, pc, InFlight) = 1
    BY <1>0, <2>1, NobodyThere, OnlyOne
  <2> QED
    BY <2>2 DEF CountInv, Init
<1>6. CarrierInv /\ CarriedOnce
  BY DEF CarrierInv, CarrierAt, CarriedOnce, Init, Free, Busy
<1>7. \A c \in Contexts : ~Carried(c) /\ (Occurs(c, runQueue) <=> c = 0)
  BY <1>0 DEF Carried, Init, Occurs, Main
<1>8. QueueInv
  BY <1>7 DEF QueueInv, Distinct, Init, Main
<1>9. RestInv
  BY <1>0, <1>7 DEF RestInv, Init, Main, Parked
<1>10. TimerInv /\ IoInv
  BY DEF TimerInv, IoInv, Init, IoInit
<1>11. closing \in [Carriers -> SUBSET Contexts]
  BY DEF IoInit
<1>12. SyncInv
  <2>1. /\ \A p \in Primitives : waiters[p] = <<>> /\ DOMAIN waiters[p] = {}
        /\ \A k \in Carriers : call[k].stage = "none" /\ pc[k] # "sync"
        /\ \A c \in Contexts : state[c] \notin {"ParkedMutex", "ParkedSemaphore"}
    BY DEF SyncInit, Init, NoCall
  <2>2. \A p \in Primitives : \A c, ph : ~Entry(p, c, ph)
    BY <2>1 DEF Entry
  <2>3. CallInv
    BY <2>1 DEF CallInv, CallAt
  <2>4. HandedOnce /\ OneEntry
    BY <2>1 DEF HandedOnce, OneEntry
  <2>5. EntryInv /\ GrantInv
    BY <2>1, <2>2 DEF EntryInv, GrantInv
  <2> QED
    BY <2>3, <2>4, <2>5 DEF SyncInv
<1> QED
  BY <1>1, <1>2, <1>3, <1>4, <1>5, <1>6, <1>8, <1>9, <1>10, <1>11, <1>12
     DEF IndInv, Types

\* IndInv is an invariant of the runtime, whatever the number of carriers,
\* contexts, locks and nested windows, as long as no window is torn down.
THEOREM IndInvHolds == RuntimeSpec /\ []NoTeardown => []IndInv
<1>1. StackInv /\ IndInv /\ NoTeardown' /\ [RuntimeNext]_runtimeVars => IndInv'
  BY NextKeeps
<1> QED
  BY <1>1, InitHolds, NoStalePin, PTL DEF RuntimeSpec

\* No context is dispatched twice: one queue entry at most, none while a
\* carrier has it, and never two carriers (ParkContextFrames and the wakes).
THEOREM DispatchedOnceHolds == RuntimeSpec /\ []NoTeardown => []DispatchedOnce
<1>1. IndInv => DispatchedOnce
  <2> SUFFICES ASSUME IndInv PROVE DispatchedOnce
    OBVIOUS
  <2>1. QueueInv /\ CarriedOnce /\ runQueue \in Seq(Contexts)
    BY DEF IndInv, Types, TypeOK
  <2>2. \A i \in DOMAIN runQueue : runQueue[i] \in Contexts /\ Occurs(runQueue[i], runQueue)
    BY <2>1 DEF Occurs
  <2> QED
    BY <2>1, <2>2 DEF DispatchedOnce, QueueInv, Distinct, CarriedOnce, Carried
<1> QED
  BY <1>1, IndInvHolds, PTL

\* No wake is lost between the registration of a park and the landing of the
\* frames, whoever the waker is.
THEOREM NoRunnableLostHolds == RuntimeSpec /\ []NoTeardown => []NoRunnableLost
<1>1. IndInv => NoRunnableLost
  <2> SUFFICES ASSUME IndInv, NEW c \in Contexts
               PROVE  /\ state[c] = "Runnable" =>
                            \/ IsQueued(c)
                            \/ \E k \in Carriers : /\ running[k] = c
                                                   /\ pc[k] \in HoldsContext \/ stopRequested
                      /\ state[c] \in Parked /\ ~framesParked[c] =>
                            \E k \in Carriers : /\ running[k] = c
                                                /\ \/ pc[k] \in {"unwind", "sync", "ioparked"}
                                                   \/ stopRequested
    BY DEF NoRunnableLost
  <2>1. RestInv /\ PlaceInv /\ NoContext \notin Contexts
    BY Here DEF IndInv, NoContext, Contexts
  <2>2. ASSUME NEW k \in Carriers, running[k] = c
        PROVE  /\ state[c] = "Runnable" => pc[k] \in HoldsContext \/ stopRequested
               /\ state[c] \in Parked => pc[k] \in {"unwind", "sync", "ioparked"} \/ stopRequested
    <3>1. /\ CarrierAt(k, pc[k]) /\ pc[k] \in Locations \ {"abandon", "shutdown", "perish"}
          /\ pc[k] \in {"leave", "join", "exited"} => stopRequested
      BY <2>1, Here DEF Torn, PlaceInv
    <3>2. pc[k] \notin Free
      BY <2>1, <2>2, <3>1 DEF CarrierAt
    <3> QED
      BY <2>1, <2>2, <3>1, <3>2 DEF CarrierAt, Locations, Waits, Free, HoldsContext, Parked
  <2> QED
    BY <2>1, <2>2 DEF RestInv, Carried, IsQueued, Occurs
<1> QED
  BY <1>1, IndInvHolds, PTL

\* The counters the deadlock report reads are exact, and the types hold.
THEOREM CountersExactHolds == RuntimeSpec /\ []NoTeardown => []CountersExact
<1>1. IndInv => CountersExact
  <2> SUFFICES ASSUME IndInv PROVE CountersExact
    OBVIOUS
  <2>1. TypeOK /\ CountInv /\ PumpsCounted /\ \A k \in Carriers : pc[k] \in Locations
    BY Here DEF IndInv, Types, PumpInv
  <2>2. pumpCount = Cardinality({w \in Carriers \X (1 .. MaxWindows) :
                        /\ w[2] \in DOMAIN windows[w[1]]
                        /\ windows[w[1]][w[2]].token # 0})
    BY <2>1 DEF PumpsCounted, Suspensions
  <2>3. idleCount = Cardinality({k \in Carriers : pc[k] \in CountsAsIdle})
    BY <2>1 DEF CountInv, Number
  <2>4. activeCount = Cardinality({k \in Carriers : pc[k] \notin {"off", "exited"}})
    <3>1. {k \in Carriers : pc[k] \in InFlight} = {k \in Carriers : pc[k] \notin {"off", "exited"}}
      BY <2>1 DEF InFlight
    <3> QED
      BY <2>1, <3>1 DEF CountInv, Number
  <2>5. ~stopRequested => blockedCount = Cardinality({k \in Carriers : At(k, "native")})
    <3>1. {k \in Carriers : pc[k] \in {"native"}} = {k \in Carriers : At(k, "native")}
      BY DEF At
    <3> QED
      BY <2>1, <3>1 DEF CountInv, Number
  <2> QED
    BY <2>1, <2>2, <2>3, <2>4, <2>5 DEF CountersExact
<1> QED
  BY <1>1, IndInvHolds, PTL

\* A context parked for I/O has exactly one party that is to wake it.
THEOREM ParkedIoHasOneWakerHolds ==
    RuntimeSpec /\ []NoTeardown => []ParkedIoHasOneWaker
<1>1. IndInv => ParkedIoHasOneWaker
  BY DEF IndInv, Types, IoInv, ParkedIoHasOneWaker
<1> QED
  BY <1>1, IndInvHolds, PTL

\* A context parked on a mutex or semaphore is in a side table or on its way
\* out: no unlock or release loses the grant it hands over.
THEOREM NoGrantLostHolds == RuntimeSpec /\ []NoTeardown => []NoGrantLost
<1>1. IndInv => NoGrantLost
  <2> SUFFICES ASSUME IndInv PROVE NoGrantLost
    OBVIOUS
  <2>1. SyncTypeOK /\ GrantInv /\ CallInv
    BY DEF IndInv, Types, SyncInv
  <2>2. \A p \in Primitives, c \in Contexts, ph \in Phases : Entry(p, c, ph) => EntryOf(p, c) # {}
    BY DEF Entry, EntryOf
  <2>3. \A k \in Carriers : call[k].stage # "none" => At(k, "sync")
    BY <2>1 DEF CallInv, CallAt, At
  <2> QED
    BY <2>1, <2>2, <2>3 DEF NoGrantLost, GrantInv, InCall
<1> QED
  BY <1>1, IndInvHolds, PTL

\* A context that runs or is queued waits in no side table: lock and acquire
\* never return without the grant.
THEOREM NoReturnWithoutGrantHolds ==
    RuntimeSpec /\ []NoTeardown => []NoReturnWithoutGrant
<1>1. IndInv => NoReturnWithoutGrant
  <2> SUFFICES ASSUME IndInv, NEW p \in Primitives, NEW i \in DOMAIN waiters[p]
               PROVE  /\ ~IsQueued(waiters[p][i].ctx)
                      /\ \A k \in Carriers : running[k] = waiters[p][i].ctx => ~At(k, "run")
    BY DEF NoReturnWithoutGrant
  <2> DEFINE c == waiters[p][i].ctx
  <2>1. c \in Contexts /\ waiters[p][i].phase \in Phases
    BY EntryTyped
  <2>2. \/ Entry(p, c, "Pending") \/ Entry(p, c, "Acquired")
        \/ Entry(p, c, "Committed")
    BY <2>1 DEF Entry, Phases
  <2> HIDE DEF c
  <2>3. \A k \in Carriers : running[k] = c => pc[k] # "run"
    BY SMTT(60), <2>1, <2>2, SyncFacts DEF EntryInv, CarriedOnce, CallInv, CallAt
  <2>4. ~IsQueued(c)
    <3>1. QueueInv /\ EntryInv
      BY SyncFacts DEF IndInv
    <3>2. Occurs(c, runQueue) => state[c] = "Runnable" /\ ~Carried(c)
      BY <2>1, <3>1 DEF QueueInv
    <3>3. Carried(c) \/ state[c] = ParkedOn(p)
      BY <2>1, <2>2, <3>1 DEF EntryInv, Carried
    <3> QED
      BY <3>2, <3>3 DEF Occurs, IsQueued, ParkedOn
  <2> QED
    BY <2>3, <2>4 DEF c, At
<1> QED
  BY <1>1, IndInvHolds, PTL

-----------------------------------------------------------------------------
\* The programs format no collection with a toString override and serve
\* no host callback: VmPump never opens a window.
NoWindows == \A p \in Programs : "window" \notin p.ops

\* What this means for the pump: its tables keep their initial values.
WindowFree ==
    /\ windows = [k \in Carriers |-> <<>>]
    /\ token = [k \in Carriers |-> 0]
    /\ pinned = [c \in Contexts |-> 0]

BareInv == IndInv /\ WindowFree

\* What it means for one carrier.
LEMMA HereBare ==
    ASSUME BareInv, NEW k \in Carriers
    PROVE  TypeOK /\ pc[k] \notin Torn /\ windows[k] = <<>> /\ ~InOwnWindow(k)
<1>1. windows[k] = <<>>
  BY DEF BareInv, WindowFree
<1> QED
  BY <1>1, Here DEF BareInv, InOwnWindow

\* A carrier without a window tears none down.
LEMMA BareMove ==
    ASSUME pc \in [Carriers -> Locations], NoTeardown, NEW k \in Carriers,
           windows[k] = <<>>,
           \/ pc' = pc
           \/ \E l \in Locations \ Torn : Go(k, l)
    PROVE  NoTeardown'
BY DEF Go, NoTeardown

\* The steps of the carrier loop ...
LEMMA BareCarrier ==
    ASSUME pc \in [Carriers -> Locations], NoTeardown, NEW k \in Carriers,
           windows[k] = <<>>, CarrierStep(k)
    PROVE  NoTeardown'
<1> USE DEF Locations, Waits, Torn, Unwinds
<1>1. CASE Launch(k)
  BY <1>1, BareMove DEF Launch
<1>2. CASE TakeNext(k)
  BY <1>2, BareMove DEF TakeNext
<1>3. CASE StopAtPop(k)
  BY <1>3, BareMove DEF StopAtPop
<1>4. CASE ReportDeadlock(k)
  BY <1>4, BareMove DEF ReportDeadlock
<1>5. CASE Sleep(k) \/ WaitAtFreezeGate(k) \/ WaitForHeldFocus(k)
  BY <1>5, BareMove DEF Sleep, WaitAtFreezeGate, WaitForHeldFocus, WaitAs
<1>6. CASE SleepAgain(k)
  BY <1>6, BareMove DEF SleepAgain
<1>7. CASE Splice(k)
  BY <1>7, BareMove DEF Splice
<1>8. CASE ParkContextFrames(k)
  BY <1>8, BareMove DEF ParkContextFrames
<1>9. CASE DeliverJoinResults(k)
  BY <1>9, BareMove DEF DeliverJoinResults
<1>10. CASE WakeAfterFinish(k)
  BY <1>10, BareMove DEF WakeAfterFinish, AfterReturn
<1>11. CASE WakeAfterFailure(k)
  BY <1>11, BareMove DEF WakeAfterFailure
<1>12. CASE ShutdownInNative(k)
  BY <1>12, BareMove DEF ShutdownInNative
<1>13. CASE LeaveAuxiliary(k)
  BY <1>13, BareMove DEF LeaveAuxiliary
<1> QED
  BY <1>1, <1>2, <1>3, <1>4, <1>5, <1>6, <1>7, <1>8, <1>9, <1>10, <1>11, <1>12, <1>13
     DEF CarrierStep

\* ... of the program ...
LEMMA BareProgram ==
    ASSUME pc \in [Carriers -> Locations], NoTeardown, NEW k \in Carriers,
           windows[k] = <<>>, ProgramStep(k)
    PROVE  NoTeardown'
<1> USE DEF Locations, Waits, Torn, Unwinds
<1>1. CASE Yield(k) \/ Preempt(k)
  BY <1>1, BareMove DEF Yield, Preempt
<1>2. CASE Spawn(k) \/ NewPromise(k)
  BY <1>2, BareMove DEF Spawn, NewPromise
<1>3. CASE ParkForTimer(k)
  BY <1>3, BareMove DEF ParkForTimer
<1>4. ASSUME NEW t \in Contexts, NEW b \in BOOLEAN, ParkForJoin(k, t, b) PROVE NoTeardown'
  BY <1>4, BareMove DEF ParkForJoin
<1>5. ASSUME NEW T, ParkForJoinAny(k, T) PROVE NoTeardown'
  BY <1>5, BareMove DEF ParkForJoinAny
<1>6. ASSUME NEW t \in Contexts, ObserveFailure(k, t) PROVE NoTeardown'
  BY <1>6, BareMove DEF ObserveFailure
<1>7. ASSUME NEW t \in Contexts, NEW b \in BOOLEAN, Complete(k, t, b) PROVE NoTeardown'
  BY <1>7, BareMove DEF Complete
<1>8. CASE Finish(k)
  BY <1>8, BareMove DEF Finish
<1>9. CASE Fail(k)
  BY <1>9, BareMove DEF Fail
<1>10. CASE Fatal(k)
  BY <1>10, BareMove DEF Fatal
<1>11. CASE EnterNative(k) \/ ReturnFromNative(k)
  BY <1>11, BareMove DEF EnterNative, ReturnFromNative
<1>12. CASE ServiceDueTimers(k)
  BY <1>12, BareMove DEF ServiceDueTimers
<1> QED
  BY <1>1, <1>2, <1>3, <1>4, <1>5, <1>6, <1>7, <1>8, <1>9, <1>10, <1>11, <1>12 DEF ProgramStep

\* ... and of the locks, the I/O and the debugger.
LEMMA BareOthers ==
    ASSUME pc \in [Carriers -> Locations], NoTeardown, NEW k \in Carriers, windows[k] = <<>>,
           SyncStep(k) \/ IoStep(k) \/ DebugStep(k)
    PROVE  NoTeardown'
<1> USE DEF Locations, Waits, Torn
<1>1. CASE SyncStep(k)
  <2>1. ASSUME NEW l, TakeLock(k, l) \/ ReenterLock(k, l) \/ WaitForLock(k, l) \/ Unlock(k, l)
        PROVE  NoTeardown'
    BY <2>1, BareMove DEF TakeLock, ReenterLock, WaitForLock, Register, Unlock, HandOff
  <2>2. ASSUME NEW s, TakePermit(k, s) \/ WaitForPermit(k, s) \/ Release(k, s)
        PROVE  NoTeardown'
    BY <2>2, BareMove DEF TakePermit, WaitForPermit, Register, Release, HandOff
  <2>3. CASE Migrate(k) \/ Recheck(k) \/ AbortPark(k) \/ WakeNewOwner(k)
    BY <2>3, BareMove DEF Migrate, Recheck, AbortPark, WakeNewOwner, Return
  <2> QED
    BY <1>1, <2>1, <2>2, <2>3 DEF SyncStep
<1>2. CASE IoStep(k)
  <2>1. CASE RetryIo(k) \/ ParkForIo(k) \/ FinishParkedNative(k)
    BY <2>1, BareMove DEF RetryIo, ParkForIo, FinishParkedNative
  <2>2. ASSUME NEW ids, CloseFd(k, ids) PROVE NoTeardown'
    BY <2>2, BareMove DEF CloseFd
  <2>3. ASSUME NEW c, WakeClosed(k, c) PROVE NoTeardown'
    BY <2>3, BareMove DEF WakeClosed
  <2> QED
    BY <1>2, <2>1, <2>2, <2>3 DEF IoStep
<1>3. CASE DebugStep(k)
  <2>1. CASE Checkpoint(k) \/ EnterFreezePark(k) \/ EnqueueFreeze(k) \/ OpenFreezeWindow(k)
    BY <2>1, BareMove DEF Checkpoint, EnterFreezePark, EnqueueFreeze, OpenFreezeWindow
  <2>2. ASSUME NEW target, Resume(k, target) PROVE NoTeardown'
    BY <2>2, BareMove DEF Resume
  <2>3. CASE CloseFreezeWindow(k) \/ ExitFreezePark(k) \/ ReadFocus(k) \/ SetDebugFocusContext(k)
    BY <2>3, BareMove DEF CloseFreezeWindow, ExitFreezePark, ReadFocus, SetDebugFocusContext
  <2> QED
    BY <1>3, <2>1, <2>2, <2>3 DEF DebugStep
<1> QED
  BY <1>1, <1>2, <1>3

\* Without windows the pump has no step.
LEMMA NoPump == ASSUME NoWindows, BareInv, NEW k \in Carriers PROVE ~PumpStep(k)
<1>1. program \in Programs /\ ~InOwnWindow(k) /\ pc[k] \notin Torn
  BY HereBare DEF TypeOK
<1>2. "window" \notin program.ops
  BY <1>1 DEF NoWindows
<1> QED
  BY <1>1, <1>2 DEF PumpStep, OpenWindow, StartPump, CloseWindow, FatalInWindow,
                    UnwindWindow, Perish, Runs, At, Torn

\* No step opens a window or tears one down.
LEMMA StaysBare ==
    ASSUME NoWindows, BareInv, [RuntimeNext]_runtimeVars
    PROVE  NoTeardown' /\ WindowFree'
<1>0. /\ pc \in [Carriers -> Locations] /\ NoTeardown /\ Primary \in Carriers
      /\ \A k \in Carriers : windows[k] = <<>> /\ ~PumpStep(k)
  BY HereBare, NoPump, ConstantsAssumption DEF BareInv, IndInv, Types, TypeOK, PumpInv
<1>1. ASSUME NEW k \in Carriers,
             CarrierStep(k) \/ ProgramStep(k) \/ SyncStep(k) \/ IoStep(k) \/ DebugStep(k)
      PROVE  NoTeardown'
  BY <1>0, <1>1, BareCarrier, BareProgram, BareOthers
<1>2. ASSUME LeavePrimary \/ JoinAndCollect PROVE NoTeardown'
  BY <1>0, <1>2, BareMove DEF LeavePrimary, JoinAndCollect, Locations, Torn
<1>3. ASSUME \/ TimerExpire \/ TimerNotify \/ PollerStep
             \/ UNCHANGED runtimeVars \/ Terminated
      PROVE  NoTeardown'
  <2>1. pc' = pc
    <3>1. CASE TimerExpire \/ TimerNotify
      BY <3>1 DEF TimerExpire, TimerNotify
    <3>2. ASSUME NEW hit, HarvestIoEvents(hit) PROVE pc' = pc
      BY <3>2 DEF HarvestIoEvents
    <3>3. CASE PollerStarts \/ PollerNotifies
      BY <3>3 DEF PollerStarts, PollerNotifies
    <3>4. CASE UNCHANGED runtimeVars \/ Terminated
      BY <3>4 DEF runtimeVars, Terminated, vars
    <3> QED
      BY <1>3, <3>1, <3>2, <3>3, <3>4 DEF PollerStep
  <2> QED
    BY <1>0, <2>1 DEF NoTeardown
<1>4. NoTeardown'
  BY <1>0, <1>1, <1>2, <1>3 DEF RuntimeNext, Next
<1>5. UNCHANGED pinVars
  <2>1. ASSUME NEW k \in Carriers, CarrierStep(k) \/ ProgramStep(k) PROVE UNCHANGED pinVars
    BY <2>1, CarrierKeepsPins, ProgramKeepsPins
  <2>2. CASE UNCHANGED runtimeVars \/ Terminated
    BY <2>2 DEF runtimeVars, Terminated, vars, pinVars, gateVars, pumpVars
  <2> QED
    BY <1>0, <2>1, <2>2, OthersKeepPins DEF RuntimeNext, Next
<1> QED
  BY <1>4, <1>5 DEF BareInv, WindowFree, pinVars

\* BareInv is an invariant of the runtime for such programs,
THEOREM BareInvHolds == ASSUME NoWindows PROVE RuntimeSpec => []BareInv
<1>1. RuntimeInit => BareInv
  BY InitHolds DEF BareInv, WindowFree, RuntimeInit, Init
<1>2. StackInv /\ BareInv /\ [RuntimeNext]_runtimeVars => BareInv'
  BY StaysBare, NextKeeps DEF BareInv
<1> QED
  BY <1>1, <1>2, NoStalePin, PTL DEF RuntimeSpec

\* so that all the theorems about behaviours without a teardown are about
\* every behaviour of these programs.
THEOREM NothingToTearDown == ASSUME NoWindows PROVE RuntimeSpec => []NoTeardown
<1>1. BareInv => NoTeardown
  BY DEF BareInv, IndInv, PumpInv
<1> QED
  BY <1>1, BareInvHolds, PTL
==============================================================================
