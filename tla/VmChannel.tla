------------------------------ MODULE VmChannel ------------------------------
(***************************************************************************)
(* Channel<T> (IntrinsicsChannel.cpp): one channel used by several         *)
(* contexts.  The slot is guarded by the Sync domain lock, the contexts by *)
(* the scheduler lock, and the two are never held together.  A call that   *)
(* must wait registers a Pending entry (Sync), marks the context parked    *)
(* (scheduler) and looks at its entry again (Sync): still Pending, it is   *)
(* Committed and the ParkSignal unwinds; stamped, the park is undone and   *)
(* the stamp is the outcome.  Deliverers serve the first live entry: a     *)
(* Committed one leaves the table and is woken in a later scheduler        *)
(* section, a Pending one is stamped and not woken.                        *)
(*                                                                         *)
(* The specification BoundedChannel is what all of this must look like     *)
(* from the outside.                                                       *)
(***************************************************************************)
EXTENDS VmPark

CONSTANTS
    Values,         \* the heap handles sent
    Capacities,     \* the constructor arguments tried, 0 = unbounded
    MaxBuffered,    \* bound on the buffer of an unbounded channel
    NoValue         \* content of a result cell nobody has written

ASSUME ChannelAssumption ==
    /\ Capacities \subseteq Nat
    /\ MaxBuffered \in Nat
    /\ NoValue \notin Values
    /\ Values \cap {"sent", "closed", "done", "idle", "waiting", "none"} = {}

VARIABLES
    capacity,   \* ChannelSlot::capacity, fixed by the constructor
    buffered,   \* ChannelSlot::buffered
    closed,     \* ChannelSlot::closed
    waiters,    \* ChannelSlot::waiters
    pending,    \* ChannelSlot::pending
    cell,       \* the result cell behind a waiter's resultPtr
    rethrow,    \* ExecutionContext::rethrowOnResume
    op,         \* the call a context is in
    at,         \* where it is in that call
    wakes,      \* the wakes the call still has to send
    report      \* what the call will report, once decided here

slotVars == <<capacity, buffered, closed, waiters, pending>>
callVars == <<cell, rethrow, op, at, wakes, report>>
vars == <<parkVars, slotVars, callVars>>

Phases == {"Pending", "Committed", "Value", "Closed"}
Waiter == [ctx : Contexts, phase : Phases]
PendingSend == [ctx : Contexts, value : Values, phase : Phases]
Wakes == [to : Contexts, exc : BOOLEAN]
Reports == {"none", "sent", "closed", "done"} \cup Values

ChannelInit ==
    /\ ParkInit
    /\ capacity \in Capacities
    /\ buffered = <<>>
    /\ closed = FALSE
    /\ waiters = <<>>
    /\ pending = <<>>
    /\ cell = [c \in Contexts |-> NoValue]
    /\ rethrow = [c \in Contexts |-> FALSE]
    /\ op = [c \in Contexts |-> "none"]
    /\ at = [c \in Contexts |-> "run"]
    /\ wakes = [c \in Contexts |-> <<>>]
    /\ report = [c \in Contexts |-> "none"]

-----------------------------------------------------------------------------
(***************************************************************************)
(* Entries.  A stamped entry is a mailbox its own parker will consume.     *)
(***************************************************************************)
CommittedOnly(e) == e.phase = "Committed"
IsLive(e) == e.phase \in {"Pending", "Committed"}
LiveAt(q) == {i \in DOMAIN q : IsLive(q[i])}
FirstLive(q) == CHOOSE i \in LiveAt(q) : \A j \in LiveAt(q) : i <= j
Drop(q, i) == [j \in 1 .. Len(q) - 1 |-> IF j < i THEN q[j] ELSE q[j + 1]]
Stamp(q, i, phase) == [q EXCEPT ![i].phase = phase]
OwnAt(q, c) == CHOOSE i \in DOMAIN q : q[i].ctx = c

(* The entries of q at the places I, in their order: the k-th place is the *)
(* one with k - 1 others before it.                                        *)
Place(I, k) == CHOOSE i \in I : Cardinality({j \in I : j <= i}) = k
Select(q, I) == [k \in 1 .. Cardinality(I) |-> q[Place(I, k)]]

(* What becomes of a served entry, and the wake it calls for. *)
Served(q, i) == IF q[i].phase = "Committed" THEN Drop(q, i)
                ELSE Stamp(q, i, "Value")
WakesAnyone(q, i) == <<[to |-> q[i].ctx, exc |-> FALSE]>>
WakeOf(q, i) == IF q[i].phase = "Committed"
                THEN <<[to |-> q[i].ctx, exc |-> FALSE]>> ELSE <<>>

(* The Sync section is over: send the wakes, then report r. *)
Decide(c, r, w) ==
    /\ report' = [report EXCEPT ![c] = r]
    /\ wakes' = [wakes EXCEPT ![c] = w]
    /\ at' = [at EXCEPT ![c] = IF w = <<>> THEN "return" ELSE "wake"]

(* The Sync section registered an entry: go on to the migration. *)
GoPark(c) ==
    /\ at' = [at EXCEPT ![c] = "migrate"]
    /\ UNCHANGED <<report, wakes>>

(* memcpy through a waiter's resultPtr. *)
Deposit(c, v) == [cell EXCEPT ![c] = v]

Calls(c, name) == /\ at[c] = "run"
                  /\ op' = [op EXCEPT ![c] = name]

-----------------------------------------------------------------------------
IsFull == capacity > 0 /\ Len(buffered) >= capacity

(* IntrinsicChannelSend with HandoffToLiveWaiter *)
Send(c, v) ==
    /\ Calls(c, "send")
    /\ \/ /\ closed
          /\ Decide(c, "closed", <<>>)
          /\ UNCHANGED <<buffered, waiters, pending, cell>>
       \/ /\ ~closed /\ LiveAt(waiters) # {}
          /\ LET i == FirstLive(waiters) IN
               /\ cell' = Deposit(waiters[i].ctx, v)
               /\ waiters' = Served(waiters, i)
               /\ Decide(c, "sent", WakeOf(waiters, i))
          /\ UNCHANGED <<buffered, pending>>
       \/ /\ ~closed /\ LiveAt(waiters) = {} /\ IsFull
          /\ pending' = Append(pending, [ctx |-> c, value |-> v, phase |-> "Pending"])
          /\ GoPark(c)
          /\ UNCHANGED <<buffered, waiters, cell>>
       \/ /\ ~closed /\ LiveAt(waiters) = {} /\ ~IsFull
          /\ capacity = 0 => Len(buffered) < MaxBuffered
          /\ buffered' = Append(buffered, v)
          /\ Decide(c, "sent", <<>>)
          /\ UNCHANGED <<waiters, pending, cell>>
    /\ UNCHANGED <<capacity, closed, rethrow, parkVars>>


(* StagePendingSend: the freed place goes to the first live sender. *)
StagePendingSend(q) ==
    IF LiveAt(pending) = {}
    THEN UNCHANGED pending /\ buffered' = q
    ELSE LET i == FirstLive(pending) IN
         /\ pending' = Served(pending, i)
         /\ buffered' = Append(q, pending[i].value)

StagedWake == IF LiveAt(pending) = {} THEN <<>>
              ELSE WakeOf(pending, FirstLive(pending))

(* IntrinsicChannelRecv *)
Recv(c) ==
    /\ Calls(c, "recv")
    /\ \/ /\ buffered # <<>>
          /\ cell' = Deposit(c, Head(buffered))
          /\ StagePendingSend(Tail(buffered))
          /\ Decide(c, Head(buffered), StagedWake)
          /\ UNCHANGED waiters
       \/ /\ buffered = <<>> /\ closed
          /\ Decide(c, "closed", <<>>)
          /\ UNCHANGED <<buffered, waiters, pending, cell>>
       \/ /\ buffered = <<>> /\ ~closed
          /\ waiters' = Append(waiters, [ctx |-> c, phase |-> "Pending"])
          /\ cell' = [cell EXCEPT ![c] = NoValue]
          /\ GoPark(c)
          /\ UNCHANGED <<buffered, pending>>
    /\ UNCHANGED <<capacity, closed, rethrow, parkVars>>

-----------------------------------------------------------------------------
(***************************************************************************)
(* close.  The sweep of the waiters gives buffered values to the first     *)
(* ones and the exception to the rest; Committed entries leave the table.  *)
(***************************************************************************)
CommittedAt(q) == {i \in DOMAIN q : q[i].phase = "Committed"}

(* How many live waiters stand before entry i: the value it would drain. *)
LiveBefore(i) == Cardinality({j \in LiveAt(waiters) : j < i})
Drains(i) == IsLive(waiters[i]) /\ LiveBefore(i) < Len(buffered)
Drained == Cardinality({i \in DOMAIN waiters : Drains(i)})

SweptWaiter(i) ==
    IF waiters[i].phase # "Pending" THEN waiters[i]
    ELSE [waiters[i] EXCEPT !.phase = IF Drains(i) THEN "Value" ELSE "Closed"]
SweptSender(e) == IF e.phase # "Pending" THEN e ELSE [e EXCEPT !.phase = "Closed"]

(* CollectClosedRecvOutcomes, CollectClosedSenders *)
SweepWaiters ==
    /\ waiters' = Select([i \in DOMAIN waiters |-> SweptWaiter(i)],
                         DOMAIN waiters \ CommittedAt(waiters))
    /\ cell' = [c \in Contexts |->
                   IF \E i \in DOMAIN waiters : waiters[i].ctx = c /\ Drains(i)
                   THEN buffered[LiveBefore(OwnAt(waiters, c)) + 1] ELSE cell[c]]
    /\ buffered' = SubSeq(buffered, Drained + 1, Len(buffered))
SweepSenders ==
    pending' = Select([i \in DOMAIN pending |-> SweptSender(pending[i])],
                      DOMAIN pending \ CommittedAt(pending))

(* The committed waiters that drain a value, or those that do not, in line. *)
CommittedRecvs(drains) ==
    Select([i \in DOMAIN waiters |-> [to |-> waiters[i].ctx, exc |-> ~drains]],
           {i \in CommittedAt(waiters) : Drains(i) = drains})
CommittedSends ==
    Select([i \in DOMAIN pending |-> [to |-> pending[i].ctx, exc |-> TRUE]],
           CommittedAt(pending))

ReceiversOnly == CommittedRecvs(FALSE) \o CommittedRecvs(TRUE)

(* WakeClosedWaiters (receivers, then senders), then the ones that drained. *)
CloseWakes == CommittedRecvs(FALSE) \o CommittedSends \o CommittedRecvs(TRUE)

(* IntrinsicChannelClose *)
Close(c) ==
    /\ Calls(c, "close")
    /\ \/ /\ closed
          /\ Decide(c, "done", <<>>)
          /\ UNCHANGED <<closed, buffered, waiters, pending, cell>>
       \/ /\ ~closed
          /\ closed' = TRUE
          /\ SweepWaiters
          /\ SweepSenders
          /\ Decide(c, "done", CloseWakes)
    /\ UNCHANGED <<capacity, rethrow, parkVars>>

-----------------------------------------------------------------------------
(***************************************************************************)
(* The later sections of a call.                                           *)
(***************************************************************************)

(* WakeForChanRecv, WakeForChanSend with the exception of WakeClosedWaiters *)
SendWake(c) ==
    /\ at[c] = "wake"
    /\ LET w == Head(wakes[c]) IN
         /\ WakeUp(w.to)
         /\ rethrow' = [rethrow EXCEPT ![w.to] = @ \/ w.exc]
    /\ wakes' = [wakes EXCEPT ![c] = Tail(@)]
    /\ at' = [at EXCEPT ![c] = IF Len(wakes[c]) = 1 THEN "return" ELSE "wake"]
    /\ UNCHANGED <<slotVars, cell, op, report>>

(* ParkForChanRecv, ParkForChanSend *)
Migrate(c) ==
    /\ at[c] = "migrate"
    /\ MarkParked(c, IF op[c] = "recv" THEN "ParkedChanRecv" ELSE "ParkedChanSend")
    /\ at' = [at EXCEPT ![c] = "recheck"]
    /\ UNCHANGED <<slotVars, cell, rethrow, op, wakes, report>>

StillPending(e) == e.phase = "Pending"

(* CommitOrAbortChanRecv *)
RecheckRecv(c) ==
    /\ at[c] = "recheck" /\ op[c] = "recv"
    /\ LET i == OwnAt(waiters, c) IN
       \/ /\ StillPending(waiters[i])
          /\ waiters' = Stamp(waiters, i, "Committed")
          /\ at' = [at EXCEPT ![c] = "unwind"]
          /\ UNCHANGED report
       \/ /\ ~StillPending(waiters[i])
          /\ waiters' = Drop(waiters, i)
          /\ report' = [report EXCEPT ![c] =
                           IF waiters[i].phase = "Closed" THEN "closed" ELSE cell[c]]
          /\ at' = [at EXCEPT ![c] = "abort"]
    /\ UNCHANGED <<capacity, buffered, closed, pending, cell, rethrow, op, wakes, parkVars>>

(* CommitOrAbortChanSend *)
RecheckSend(c) ==
    /\ at[c] = "recheck" /\ op[c] = "send"
    /\ LET i == OwnAt(pending, c) IN
       \/ /\ StillPending(pending[i])
          /\ pending' = Stamp(pending, i, "Committed")
          /\ at' = [at EXCEPT ![c] = "unwind"]
          /\ UNCHANGED report
       \/ /\ ~StillPending(pending[i])
          /\ pending' = Drop(pending, i)
          /\ report' = [report EXCEPT ![c] =
                           IF pending[i].phase = "Closed" THEN "closed" ELSE "sent"]
          /\ at' = [at EXCEPT ![c] = "abort"]
    /\ UNCHANGED <<capacity, buffered, closed, waiters, cell, rethrow, op, wakes, parkVars>>

Abort(c) ==
    /\ at[c] = "abort"
    /\ UndoPark(c)
    /\ at' = [at EXCEPT ![c] = "return"]
    /\ UNCHANGED <<slotVars, cell, rethrow, op, wakes, report>>

Land(c) ==
    /\ at[c] = "unwind"
    /\ LandFrames(c)
    /\ at' = [at EXCEPT ![c] = "parked"]
    /\ UNCHANGED <<slotVars, cell, rethrow, op, wakes, report>>

(* The parked call is not executed again: it ends with what was delivered. *)
Resume(c) ==
    /\ at[c] = "parked"
    /\ Dispatch(c)
    /\ report' = [report EXCEPT ![c] = IF rethrow[c] THEN "closed"
                                       ELSE IF op[c] = "recv" THEN cell[c]
                                       ELSE "sent"]
    /\ rethrow' = [rethrow EXCEPT ![c] = FALSE]
    /\ at' = [at EXCEPT ![c] = "return"]
    /\ UNCHANGED <<slotVars, cell, op, wakes>>

(* Back in bytecode, with a result or the ChannelClosedException. *)
Return(c) ==
    /\ at[c] = "return"
    /\ at' = [at EXCEPT ![c] = "run"]
    /\ op' = [op EXCEPT ![c] = "none"]
    /\ report' = [report EXCEPT ![c] = "none"]
    /\ cell' = [cell EXCEPT ![c] = NoValue]
    /\ UNCHANGED <<slotVars, rethrow, wakes, parkVars>>

CallStep(c) == \/ SendWake(c) \/ Migrate(c) \/ RecheckRecv(c) \/ RecheckSend(c)
               \/ Abort(c) \/ Land(c) \/ Resume(c) \/ Return(c)

ChannelNext == \E c \in Contexts :
                  \/ \E v \in Values : Send(c, v)
                  \/ Recv(c) \/ Close(c) \/ CallStep(c)

(* A call that has begun goes on: carriers run and get the locks they ask for. *)
ChannelSpec == /\ ChannelInit
               /\ [][ChannelNext]_vars
               /\ \A c \in Contexts : WF_vars(CallStep(c))

-----------------------------------------------------------------------------
(***************************************************************************)
(* Properties.                                                             *)
(***************************************************************************)

(* The types of the slot and of the calls in progress. *)
ChannelTypeOK ==
    /\ state \in [Contexts -> {"Runnable", "ParkedChanRecv", "ParkedChanSend"}]
    /\ framesParked \in [Contexts -> BOOLEAN]
    /\ queued \in [Contexts -> Nat]
    /\ capacity \in Capacities
    /\ buffered \in Seq(Values)
    /\ closed \in BOOLEAN
    /\ waiters \in Seq(Waiter)
    /\ pending \in Seq(PendingSend)
    /\ cell \in [Contexts -> Values \cup {NoValue}]
    /\ rethrow \in [Contexts -> BOOLEAN]
    /\ op \in [Contexts -> {"none", "send", "recv", "close"}]
    /\ at \in [Contexts -> {"run", "wake", "migrate", "recheck", "abort",
                            "unwind", "parked", "return"}]
    /\ wakes \in [Contexts -> Seq(Wakes)]
    /\ report \in [Contexts -> Reports]

(***************************************************************************)
(* The comment in IntrinsicChannelSend relies on an invariant: when a live *)
(* receiver waits the buffer is empty, and nobody waits to send.  Likewise *)
(* a sender only waits while the buffer is full.  Together: nobody waits   *)
(* for what is there, whatever windows the calls stand in.                 *)
(***************************************************************************)
WaitersFaceAnEmptyBuffer ==
    /\ LiveAt(waiters) # {} => buffered = <<>> /\ LiveAt(pending) = {} /\ ~closed
    /\ LiveAt(pending) # {} => IsFull /\ ~closed
    /\ capacity > 0 => Len(buffered) <= capacity

HasEntry(c) == \/ \E i \in DOMAIN waiters : waiters[i].ctx = c
               \/ \E i \in DOMAIN pending : pending[i].ctx = c
WakeIsComing(c) == \E d \in Contexts : \E i \in DOMAIN wakes[d] : wakes[d][i].to = c

(***************************************************************************)
(* No wake is lost and none goes astray: a context whose frames have left  *)
(* its carrier is in the table, or exactly one wake is on its way to it,   *)
(* or it is Runnable and queued once; a wake never meets a context that    *)
(* has returned from the call it was meant for.  The types hold.           *)
(***************************************************************************)
OneWakePerPark ==
    /\ ChannelTypeOK
    /\ \A c \in Contexts :
           /\ queued[c] <= 1
           /\ queued[c] = 1 => at[c] = "parked" /\ state[c] = "Runnable"
           /\ WakeIsComing(c) => at[c] \in {"unwind", "parked"} /\ ~HasEntry(c)
           /\ at[c] = "parked" => \/ HasEntry(c) /\ state[c] # "Runnable"
                                  \/ WakeIsComing(c) /\ state[c] # "Runnable"
                                  \/ queued[c] = 1

(***************************************************************************)
(* The refinement.  A live entry is a waiting caller, a served one has its *)
(* outcome although the entry's owner has not found out yet.               *)
(***************************************************************************)
IsWaiting(c) ==
    \/ \E i \in LiveAt(waiters) : waiters[i].ctx = c
    \/ \E i \in LiveAt(pending) : pending[i].ctx = c
ToldClosed(c) ==
    \/ rethrow[c]
    \/ \E i \in DOMAIN waiters : waiters[i] = [ctx |-> c, phase |-> "Closed"]
    \/ \E i \in DOMAIN pending : pending[i].ctx = c /\ pending[i].phase = "Closed"
    \/ \E d \in Contexts : \E i \in DOMAIN wakes[d] :
          wakes[d][i] = [to |-> c, exc |-> TRUE]
OutcomeOf(c) ==
    CASE at[c] = "run" -> "idle"
      [] at[c] # "run" /\ report[c] # "none" -> report[c]
      [] at[c] # "run" /\ report[c] = "none" /\ IsWaiting(c) -> "waiting"
      [] OTHER -> IF ToldClosed(c) THEN "closed"
                  ELSE IF op[c] = "recv" THEN cell[c] ELSE "sent"

LiveContexts(q) == Select([i \in DOMAIN q |-> q[i].ctx], LiveAt(q))
LiveSends(q) ==
    Select([i \in DOMAIN q |-> [ctx |-> q[i].ctx, value |-> q[i].value]], LiveAt(q))

Abstract == INSTANCE BoundedChannel WITH
                queue <- buffered,
                receivers <- LiveContexts(waiters),
                senders <- LiveSends(pending),
                outcome <- [c \in Contexts |-> OutcomeOf(c)]

(***************************************************************************)
(* The two-phase protocol implements the atomic channel: order, capacity,  *)
(* handoff, close, and every decided call returns with its decision.       *)
(***************************************************************************)
ImplementsBoundedChannel == Abstract!FairSpec
==============================================================================
