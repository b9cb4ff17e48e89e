----------------------------- MODULE NetSockets -----------------------------
(***************************************************************************)
(* The net library's sockets (src/src/native/net) over the VM's I/O poller *)
(* (VmSchedulerIo.cpp): the slot table with its generation-coded handles   *)
(* and deferred close, the claim of a socket's direction by a call, the    *)
(* park and re-entry of a call that would block, close, connect, and the   *)
(* registrations the poller keeps in the kernel.                           *)
(*                                                                         *)
(* The natives run on their carriers without the VM's lock.  The slot      *)
(* table has a mutex of its own, so every action below is one section      *)
(* under that mutex, one section under the scheduler lock, or one system   *)
(* call outside both; what a call has read in one section it uses in the   *)
(* next.  Parking is seen from here: how a parked context leaves its       *)
(* carrier and comes back is module VmIo.  A context that is woken starts  *)
(* its native again from the first line.  A descriptor is a number the     *)
(* kernel hands out again once it is closed.  The users are spawned        *)
(* contexts: main's id is 0, which a waiter field takes for nobody, so its *)
(* claims are invisible to the others.                                     *)
(***************************************************************************)
EXTENDS Integers, Sequences, FiniteSets

CONSTANTS
    Users,          \* the spawned contexts that use sockets
    NoWaiter,       \* 0, the value of a waiter field nobody has claimed
    Fds,            \* the descriptors
    NoFd,           \* -1
    MaxSlots,       \* bound on the size of the slot table
    MaxOpens,       \* bound on the sockets opened in one behaviour
    Generations,    \* kGenMask + 1
    WriteLength,    \* the bytes of a write
    Programs        \* which operations each user calls

Dirs == {"Read", "Write", "Accept"}
AllOps == {"bind", "accept", "connect", "refused", "read", "write", "close"}
DirOf == [read |-> "Read", write |-> "Write", accept |-> "Accept",
          connect |-> "Write"]
EventOf == [Read |-> "in", Write |-> "out", Accept |-> "in"]
Events == {"in", "out"}

ASSUME NetAssumption ==
    /\ NoWaiter \notin Users
    /\ NoFd \notin Fds
    /\ MaxSlots \in Nat \ {0}
    /\ MaxOpens \in Nat
    /\ Generations \in Nat \ {0}
    /\ WriteLength \in Nat \ {0}
    /\ Programs \subseteq [Users -> SUBSET AllOps]

VARIABLES
    program,
    slots,      \* m_slots
    freeList,   \* m_freeList
    handles,    \* the handles the script has got, stale ones too
    openFds,    \* the descriptors the process has open
    opened,     \* how many sockets have been opened (for the bound)
    epoll,      \* the events each descriptor is registered for in the kernel
    baseline,   \* m_ioPollerRegistered
    ioWaits,    \* m_ioWaits
    poller,     \* the poller thread: "wait" or "poll"
    armed,      \* ExecutionContext::ioParkArmed
    call,       \* the native each context is in
    delivered   \* the bytes of the current write the kernel took (history)

tableVars == <<slots, freeList, openFds, epoll>>
parkVars == <<baseline, ioWaits, poller, armed>>
netVars == <<program, tableVars, handles, opened, parkVars, call, delivered>>

(* A handle is (generation, index) in the code; the kind is the class of   *)
(* the script's object around it, TcpListener or TcpStream.                *)
Handles == [index : 1 .. MaxSlots, gen : 0 .. Generations - 1,
            kind : {"listener", "stream"}]
NoHandle == [index |-> 0, gen |-> 0, kind |-> "stream"]
Sections == {"script", "mint", "adopt", "offset", "syscall", "store",
             "release", "accepted", "park", "parked", "verdict", "wakefd",
             "waking"}
Idle == [at |-> "script", op |-> "none", handle |-> NoHandle, fd |-> NoFd,
         claimed |-> FALSE, fresh |-> FALSE, offset |-> 0, toWake |-> {}]

Init ==
    /\ program \in Programs
    /\ slots = <<>>
    /\ freeList = <<>>
    /\ handles = {}
    /\ openFds = {}
    /\ opened = 0
    /\ epoll = [f \in Fds |-> {}]
    /\ baseline = [f \in Fds |-> {}]
    /\ ioWaits = {}
    /\ poller = "wait"
    /\ armed = [c \in Users |-> FALSE]
    /\ call = [c \in Users |-> Idle]
    /\ delivered = [c \in Users |-> 0]

-----------------------------------------------------------------------------
At(c, section) == call[c].at = section
To(c, section) == call' = [call EXCEPT ![c].at = section]
Return(c) == call' = [call EXCEPT ![c] = Idle]
Calls(c, op) == At(c, "script") /\ op \in program[c]

Handle(c) == call[c].handle
Dir(c) == DirOf[call[c].op]

(* SlotOf finds closed slots too, Lookup does not. *)
SlotOf(h) == slots[h.index]
IsSlot(h) == /\ h.index \in DOMAIN slots
             /\ SlotOf(h).used
             /\ SlotOf(h).gen = h.gen
Lookup(h) == IsSlot(h) /\ ~SlotOf(h).closed
WaiterFree(s) == \A d \in Dirs : s.waiter[d] = NoWaiter

(* The kernel forgets a closed descriptor's registration. *)
ForgetFd(f) == UNCHANGED <<openFds, epoll>>
CloseFd(f) ==
    /\ openFds' = openFds \ {f}
    /\ epoll' = [epoll EXCEPT ![f] = {}]

Recycle(i, s) ==
    /\ slots' = [slots EXCEPT ![i] = [s EXCEPT !.used = FALSE, !.fd = NoFd,
                                         !.gen = (@ + 1) % Generations]]
    /\ freeList' = Append(freeList, i)
    /\ CloseFd(s.fd)

Update(i, s) ==
    /\ slots' = [slots EXCEPT ![i] = s]
    /\ UNCHANGED <<freeList, openFds, epoll>>

(* A release that leaves the slot of a closed socket in the table. *)
NeverRecycle(i, s) == Update(i, s)
RecycleIfClosed(i, s) == IF s.closed THEN Recycle(i, s) ELSE Update(i, s)

ReleaseWaiter(h, d) ==
    IF IsSlot(h)
    THEN RecycleIfClosed(h.index, [SlotOf(h) EXCEPT !.waiter[d] = NoWaiter])
    ELSE UNCHANGED tableVars

(* The effect of MarkClosed on a slot that is not closed yet. *)
MarkClosed(i, s) ==
    LET t == [s EXCEPT !.closed = TRUE] IN
    IF WaiterFree(t) THEN Recycle(i, t) ELSE Update(i, t)

(***************************************************************************)
(* A socket is opened outside the mutex (bind, or the kick of a connect),  *)
(* then minted into the table.                                             *)
(***************************************************************************)
Open(c, op, f) ==
    /\ Calls(c, op)
    /\ op \in {"bind", "connect"}
    /\ opened < MaxOpens
    /\ f \in Fds \ openFds
    /\ openFds' = openFds \cup {f}
    /\ opened' = opened + 1
    /\ call' = [call EXCEPT ![c] = [Idle EXCEPT !.at = "mint", !.op = op,
                                               !.fd = f]]
    /\ UNCHANGED <<program, slots, freeList, handles, epoll, parkVars,
                   delivered>>

FreeIndex == IF freeList = <<>> THEN Len(slots) + 1
             ELSE freeList[Len(freeList)]

(* The table takes the descriptor.  The handle of a connect in flight      *)
(* stays with the call (m_connectInFlight keeps it across parks), every    *)
(* other handle goes to the script.                                        *)
Mint(c, inFlight) ==
    /\ At(c, "mint")
    /\ inFlight => call[c].op = "connect"
    /\ FreeIndex <= MaxSlots
    /\ LET i == FreeIndex
           g == IF i \in DOMAIN slots THEN slots[i].gen ELSE 0
           h == [index |-> i, gen |-> g,
                 kind |-> IF call[c].op = "bind" THEN "listener" ELSE "stream"]
           s == [fd |-> call[c].fd, used |-> TRUE, closed |-> FALSE, gen |-> g,
                 waiter |-> [d \in Dirs |-> NoWaiter], sent |-> 0] IN
         /\ slots' = IF i \in DOMAIN slots THEN [slots EXCEPT ![i] = s]
                     ELSE Append(slots, s)
         /\ freeList' = IF freeList = <<>> THEN freeList
                        ELSE SubSeq(freeList, 1, Len(freeList) - 1)
         /\ IF inFlight
            THEN /\ call' = [call EXCEPT ![c].at = "park", ![c].handle = h]
                 /\ UNCHANGED handles
            ELSE /\ handles' = handles \cup {h}
                 /\ Return(c)
    /\ UNCHANGED <<program, openFds, opened, epoll, parkVars, delivered>>

(* A socket that cannot be bound, or fails to connect at once, is closed   *)
(* without ever being minted.                                              *)
CloseUnminted(c) ==
    /\ "refused" \in program[c]
    /\ CloseFd(call[c].fd)
    /\ Return(c)
    /\ UNCHANGED <<program, slots, freeList, handles, opened, parkVars,
                   delivered>>
KickFails(c) == At(c, "mint") /\ call[c].op = "connect" /\ CloseUnminted(c)
BindFails(c) == At(c, "mint") /\ call[c].op = "bind" /\ CloseUnminted(c)

(***************************************************************************)
(* read, write and accept, on any handle the script has: claim the         *)
(* direction, try the system call outside the mutex, then finish, time out *)
(* or park for readiness and start over.                                   *)
(***************************************************************************)
Begin(c, op, h) ==
    /\ Calls(c, op)
    /\ op \in {"read", "write", "accept"}
    /\ h \in handles
    /\ (h.kind = "listener") = (op = "accept")
    /\ call' = [call EXCEPT ![c] = [Idle EXCEPT !.at = "adopt", !.op = op,
                                               !.handle = h]]
    /\ UNCHANGED <<program, tableVars, handles, opened, parkVars, delivered>>

Finish(c) == Return(c) /\ delivered' = [delivered EXCEPT ![c] = 0]

(* A slot that is gone: whoever's claim is there is cleared. *)
AdoptGone(c) ==
    /\ At(c, "adopt")
    /\ ~Lookup(Handle(c))
    /\ ReleaseWaiter(Handle(c), Dir(c))
    /\ Finish(c)
    /\ UNCHANGED <<program, handles, opened, parkVars>>

Foreign(c) == SlotOf(Handle(c)).waiter[Dir(c)] \notin {NoWaiter, c}
AdoptConcurrent(c) ==
    /\ At(c, "adopt")
    /\ Lookup(Handle(c)) /\ Foreign(c)
    /\ Finish(c)
    /\ UNCHANGED <<program, tableVars, handles, opened, parkVars>>

SetWaiter(c, s) == [s EXCEPT !.waiter[Dir(c)] = c]

(* A claim made at the park, not at entry (review C1). *)
ClaimLater(c, s) == s
ClaimAtEntry(c, s) == SetWaiter(c, s)
AdoptClaim(c) ==
    /\ At(c, "adopt")
    /\ Lookup(Handle(c)) /\ ~Foreign(c)
    /\ LET s == SlotOf(Handle(c)) IN
         /\ Update(Handle(c).index, ClaimAtEntry(c, s))
         /\ call' = [call EXCEPT
                ![c].at = IF call[c].op = "write" THEN "offset" ELSE "syscall",
                ![c].fd = s.fd, ![c].claimed = TRUE,
                ![c].fresh = s.waiter[Dir(c)] # c]
    /\ UNCHANGED <<program, handles, opened, parkVars, delivered>>

(* A write that takes what an earlier write left for its own progress. *)
ResumeAlways(c) == SlotOf(Handle(c)).sent
SentSoFar(c) == IF call[c].fresh THEN 0 ELSE SlotOf(Handle(c)).sent
WriteOffset(c) ==
    /\ At(c, "offset")
    /\ IF Lookup(Handle(c))
       THEN /\ Update(Handle(c).index,
                      [SlotOf(Handle(c)) EXCEPT !.sent = SentSoFar(c)])
            /\ call' = [call EXCEPT ![c].at = "syscall",
                                    ![c].offset = SentSoFar(c)]
       ELSE /\ UNCHANGED tableVars
            /\ call' = [call EXCEPT ![c].at = "syscall", ![c].offset = 0]
    /\ UNCHANGED <<program, handles, opened, parkVars, delivered>>

(* The kernel takes n bytes of the rest; the progress is stored in its own *)
(* section.                                                                *)
OfTheRest(c, n) == n <= WriteLength - call[c].offset
Send(c, n) ==
    /\ At(c, "syscall") /\ call[c].op = "write"
    /\ OfTheRest(c, n)
    /\ delivered' = [delivered EXCEPT ![c] = @ + n]
    /\ call' = [call EXCEPT ![c].at = "store", ![c].offset = @ + n]
    /\ UNCHANGED <<program, tableVars, handles, opened, parkVars>>

StoreSent(c) ==
    /\ At(c, "store")
    /\ IF Lookup(Handle(c))
       THEN Update(Handle(c).index,
                   [SlotOf(Handle(c)) EXCEPT !.sent = call[c].offset])
       ELSE UNCHANGED tableVars
    /\ To(c, IF call[c].offset < WriteLength THEN "syscall" ELSE "release")
    /\ UNCHANGED <<program, handles, opened, parkVars, delivered>>

(* accept(2) hands out the descriptor of the peer. *)
AcceptPeer(c, f) ==
    /\ At(c, "syscall") /\ call[c].op = "accept"
    /\ opened < MaxOpens
    /\ f \in Fds \ openFds
    /\ openFds' = openFds \cup {f}
    /\ opened' = opened + 1
    /\ call' = [call EXCEPT ![c].at = "accepted", ![c].fd = f]
    /\ UNCHANGED <<program, slots, freeList, handles, epoll, parkVars,
                   delivered>>

(* The read is served, or the call failed, or its deadline has passed.     *)
SyscallEnds(c) ==
    /\ At(c, "syscall")
    /\ To(c, "release")
    /\ UNCHANGED <<program, tableVars, handles, opened, parkVars, delivered>>

WouldBlock(c) ==
    /\ At(c, "syscall")
    /\ To(c, "park")
    /\ UNCHANGED <<program, tableVars, handles, opened, parkVars, delivered>>

(* NetRelease, and NetWriteFinished when every byte was sent; an accepted  *)
(* descriptor is minted after it.                                          *)
Release(c) ==
    /\ call[c].at \in {"release", "accepted"}
    /\ LET h == Handle(c)
           all == call[c].op = "write" /\ call[c].offset = WriteLength
           s == [SlotOf(h) EXCEPT !.waiter[Dir(c)] = NoWaiter,
                                  !.sent = IF all /\ ~SlotOf(h).closed
                                           THEN 0 ELSE @] IN
         IF IsSlot(h) THEN RecycleIfClosed(h.index, s)
         ELSE UNCHANGED tableVars
    /\ IF At(c, "accepted")
       THEN To(c, "mint") /\ UNCHANGED delivered
       ELSE Finish(c)
    /\ UNCHANGED <<program, handles, opened, parkVars>>

(***************************************************************************)
(* Parking: the claim is checked again and the interest entry is made in   *)
(* one section of the table's mutex with the scheduler lock inside it.     *)
(***************************************************************************)
ParkClosedToo(c) == IsSlot(Handle(c)) /\ ~Foreign(c)
MayPark(c) == Lookup(Handle(c)) /\ ~Foreign(c)

ParkRefused(c) ==
    /\ At(c, "park")
    /\ ~MayPark(c)
    /\ To(c, "release")
    /\ UNCHANGED <<program, tableVars, handles, opened, parkVars, delivered>>

Reenter(c) == IF call[c].op = "connect" THEN "verdict" ELSE "adopt"

(* parkForIo answers an armed context with "retry". *)
ParkReplays(c) ==
    /\ At(c, "park")
    /\ MayPark(c)
    /\ armed[c]
    /\ Update(Handle(c).index, SetWaiter(c, SlotOf(Handle(c))))
    /\ armed' = [armed EXCEPT ![c] = FALSE]
    /\ To(c, Reenter(c))
    /\ UNCHANGED <<program, handles, opened, baseline, ioWaits, poller,
                   delivered>>

Park(c) ==
    /\ At(c, "park")
    /\ MayPark(c)
    /\ ~armed[c]
    /\ LET s == SlotOf(Handle(c)) IN
         /\ Update(Handle(c).index, SetWaiter(c, s))
         /\ ioWaits' = ioWaits \cup
                {[context |-> c, fd |-> s.fd, event |-> EventOf[Dir(c)]]}
    /\ call' = [call EXCEPT ![c].at = "parked", ![c].claimed = TRUE,
                            ![c].fresh = FALSE, ![c].offset = 0]
    /\ UNCHANGED <<program, handles, opened, baseline, poller, armed, delivered>>

(* WakeForIo: the native starts again, with nothing of its stack left;     *)
(* calls is what the step makes of the other calls.                        *)
Woken(c) == [call[c] EXCEPT !.at = Reenter(c), !.fd = NoFd, !.claimed = FALSE]
WakeForIo(ids, calls) ==
    LET woken == {c \in ids : At(c, "parked")} IN
    /\ call' = [c \in Users |-> IF c \in woken THEN Woken(c) ELSE calls[c]]
    /\ armed' = [c \in Users |-> armed[c] \/ c \in woken]

(***************************************************************************)
(* Connect: the handle is still private to the call, so nobody can close   *)
(* the slot between the probe of the handshake and the verdict on it.      *)
(***************************************************************************)
Connected(c) ==
    /\ At(c, "verdict")
    /\ ReleaseWaiter(Handle(c), "Write")
    /\ handles' = handles \cup {Handle(c)}
    /\ Return(c)
    /\ UNCHANGED <<program, opened, parkVars, delivered>>

StillConnecting(c) ==
    /\ At(c, "verdict")
    /\ call' = [call EXCEPT ![c].at = "park", ![c].claimed = TRUE]
    /\ UNCHANGED <<program, tableVars, handles, opened, parkVars, delivered>>

(* The handshake failed, or the deadline passed while it is in flight. *)
AbandonConnect(c) ==
    /\ call[c].at \in {"verdict", "park"}
    /\ call[c].op = "connect"
    /\ "refused" \in program[c]
    /\ MarkClosed(Handle(c).index,
                  [SlotOf(Handle(c)) EXCEPT !.waiter["Write"] = NoWaiter])
    /\ Return(c)
    /\ UNCHANGED <<program, handles, opened, parkVars, delivered>>

(***************************************************************************)
(* close: flag the slot under the mutex, then drop the descriptor's        *)
(* interest entries under the scheduler lock, then wake each context.      *)
(***************************************************************************)
Close(c, h) ==
    /\ Calls(c, "close")
    /\ h \in handles
    /\ Lookup(h)
    /\ MarkClosed(h.index, SlotOf(h))
    /\ call' = [call EXCEPT ![c] = [Idle EXCEPT !.at = "wakefd", !.op = "close",
                                               !.fd = SlotOf(h).fd]]
    /\ UNCHANGED <<program, handles, opened, parkVars, delivered>>

(* A close that leaves the poller's record of the descriptor (review I1). *)
BaselineKept(f) == baseline
BaselineWithout(f) == [baseline EXCEPT ![f] = {}]
WaitersOf(f) == {e \in ioWaits : e.fd = f}
WakeIoWaiters(c) ==
    /\ At(c, "wakefd")
    /\ LET f == call[c].fd
           ids == {e.context : e \in WaitersOf(f)} IN
         /\ ioWaits' = ioWaits \ WaitersOf(f)
         /\ baseline' = BaselineWithout(f)
         /\ call' = [call EXCEPT ![c] =
                IF ids = {} THEN Idle
                ELSE [@ EXCEPT !.at = "waking", !.fd = NoFd, !.toWake = ids]]
    /\ UNCHANGED <<program, tableVars, handles, opened, poller, armed,
                   delivered>>

WakeNext(c, d) ==
    /\ At(c, "waking")
    /\ d \in call[c].toWake
    /\ LET rest == call[c].toWake \ {d} IN
         WakeForIo({d}, [call EXCEPT ![c] =
             IF rest = {} THEN Idle ELSE [@ EXCEPT !.toWake = rest]])
    /\ UNCHANGED <<program, tableVars, handles, opened, baseline, ioWaits,
                   poller, delivered>>

(***************************************************************************)
(* The poller thread: synchronise the kernel's set with the interest       *)
(* table, wait without the lock, harvest.                                  *)
(***************************************************************************)
Wanted(f) == {e.event : e \in WaitersOf(f)}
SyncPollerInterest ==
    /\ poller = "wait"
    /\ ioWaits # {}
    /\ epoll' = [f \in Fds |->
           IF baseline[f] = Wanted(f) \/ f \notin openFds THEN epoll[f]
           ELSE Wanted(f)]
    /\ baseline' = [f \in Fds |-> Wanted(f)]
    /\ poller' = "poll"
    /\ UNCHANGED <<program, slots, freeList, openFds, handles, opened, ioWaits,
                   armed, call, delivered>>

(* Readiness, errors and deadlines: any of the entries may be due.  An     *)
(* empty table takes its registrations along, because the thread sleeps    *)
(* until there are entries again.                                          *)
HarvestIoEvents(due) ==
    /\ poller = "poll"
    /\ due \subseteq ioWaits
    /\ WakeForIo({e.context : e \in due}, call)
    /\ ioWaits' = ioWaits \ due
    /\ IF ioWaits = due
       THEN /\ epoll' = [f \in Fds |-> IF baseline[f] = {} THEN epoll[f] ELSE {}]
            /\ baseline' = [f \in Fds |-> {}]
       ELSE UNCHANGED <<epoll, baseline>>
    /\ poller' = "wait"
    /\ UNCHANGED <<program, slots, freeList, openFds, handles, opened, delivered>>

Next ==
    \/ \E c \in Users :
         \/ \E op \in {"bind", "connect"}, f \in Fds : Open(c, op, f)
         \/ \E inFlight \in BOOLEAN : Mint(c, inFlight)
         \/ KickFails(c) \/ BindFails(c)
         \/ \E op \in {"read", "write", "accept"}, h \in handles : Begin(c, op, h)
         \/ AdoptGone(c) \/ AdoptConcurrent(c) \/ AdoptClaim(c)
         \/ WriteOffset(c) \/ StoreSent(c)
         \/ \E n \in 1 .. WriteLength : Send(c, n)
         \/ \E f \in Fds : AcceptPeer(c, f)
         \/ SyscallEnds(c) \/ WouldBlock(c) \/ Release(c)
         \/ ParkRefused(c) \/ ParkReplays(c) \/ Park(c)
         \/ Connected(c) \/ StillConnecting(c) \/ AbandonConnect(c)
         \/ \E h \in handles : Close(c, h)
         \/ WakeIoWaiters(c)
         \/ \E d \in Users : WakeNext(c, d)
    \/ SyncPollerInterest
    \/ \E due \in SUBSET ioWaits : HarvestIoEvents(due)

Spec == Init /\ [][Next]_netVars

-----------------------------------------------------------------------------
(* The types of the socket table, the poller's records and the calls. *)
NetTypeOK ==
    /\ program \in Programs
    /\ slots \in Seq([fd : Fds \cup {NoFd}, used : BOOLEAN, closed : BOOLEAN,
                      gen : 0 .. Generations - 1,
                      waiter : [Dirs -> Users \cup {NoWaiter}],
                      sent : 0 .. WriteLength])
    /\ freeList \in Seq(DOMAIN slots)
    /\ handles \subseteq Handles
    /\ openFds \subseteq Fds
    /\ opened \in 0 .. MaxOpens
    /\ epoll \in [Fds -> SUBSET Events]
    /\ baseline \in [Fds -> SUBSET Events]
    /\ ioWaits \subseteq [context : Users, fd : Fds, event : Events]
    /\ poller \in {"wait", "poll"}
    /\ armed \in [Users -> BOOLEAN]
    /\ call \in [Users -> [at : Sections, op : AllOps \cup {"none"},
                           handle : Handles \cup {NoHandle},
                           fd : Fds \cup {NoFd}, claimed : BOOLEAN,
                           fresh : BOOLEAN, offset : 0 .. WriteLength,
                           toWake : SUBSET Users]]
    /\ delivered \in [Users -> Nat]

(* The calls that have claimed the direction of a slot still in use. *)
InCall(c) == call[c].at \notin {"script", "mint", "wakefd", "waking"}
Holds(c) == InCall(c) /\ call[c].claimed /\ IsSlot(Handle(c))

(* "A socket allows one operation per direction at a time": two contexts   *)
(* are never both past NetAdoptClaim for the same direction of the same    *)
(* socket, parked or in the system call.                                   *)
OneCallPerDirection ==
    \A c, d \in Users :
        c # d /\ Holds(c) /\ Holds(d) /\ Handle(c) = Handle(d)
            => Dir(c) # Dir(d)

(* A claim never outlives its call: a waiter field names a context that is *)
(* inside a call on that very handle and direction and so will release it, *)
(* and a closed slot is kept only for such a call.  The tables keep their  *)
(* types.                                                                  *)
ClaimsHaveACall ==
    /\ NetTypeOK
    /\ \A i \in DOMAIN slots : slots[i].used =>
           /\ \A d \in Dirs : slots[i].waiter[d] # NoWaiter =>
                LET c == slots[i].waiter[d] IN
                /\ InCall(c)
                /\ Handle(c).index = i
                /\ Handle(c).gen = slots[i].gen
                /\ Dir(c) = d
           /\ slots[i].closed => ~WaiterFree(slots[i])

(* No descriptor is lost or owned twice: each open one belongs to exactly  *)
(* one slot in use, or to the one call that has opened it and not minted   *)
(* it yet; the free list holds every other slot once.                      *)
FdOwners(f) == {i \in DOMAIN slots : slots[i].used /\ slots[i].fd = f}
FdCarriers(f) == {c \in Users : call[c].at \in {"mint", "accepted"} /\ call[c].fd = f}
NoDescriptorLeak ==
    /\ \A f \in Fds : Cardinality(FdOwners(f)) + Cardinality(FdCarriers(f))
                          = IF f \in openFds THEN 1 ELSE 0
    /\ \A i \in DOMAIN slots :
         Cardinality({k \in DOMAIN freeList : freeList[k] = i})
             = IF slots[i].used THEN 0 ELSE 1

(* A parked call can still be woken: it has an interest entry the poller   *)
(* will find or a closer is about to wake it; and when its socket has been *)
(* closed the closer is on its way.                                        *)
Closing(f) == \E k \in Users : At(k, "wakefd") /\ call[k].fd = f
Waking(c) == \E k \in Users : At(k, "waking") /\ c \in call[k].toWake
ParkedHasAWaker ==
    \A c \in Users : At(c, "parked") =>
        \/ Waking(c)
        \/ \E e \in ioWaits :
             /\ e.context = c
             /\ \/ Closing(e.fd)
                \/ Lookup(Handle(c)) /\ SlotOf(Handle(c)).fd = e.fd

(* After each synchronisation the kernel watches what the parked contexts  *)
(* wait for, in programs whose connects do not fail: an interest is never  *)
(* skipped because an earlier owner of the descriptor was registered for   *)
(* the same events.  A descriptor that is being closed may be missing, its *)
(* waiters are about to be woken.  The restriction is needed: a connect    *)
(* that fails after it has parked closes its descriptor without clearing   *)
(* the poller's record of it, and when the number is handed out again      *)
(* before the next synchronisation the new interest passes for registered. *)
(* (net_state.cpp says that the close arms deregister first; this one does *)
(* not.)                                                                   *)
ConnectsSucceed == \A c \in Users : ~({"connect", "refused"} \subseteq program[c])
WaitedIsRegistered ==
    [][poller = "wait" /\ poller' = "poll" /\ ConnectsSucceed =>
           \A e \in ioWaits : e.event \in epoll'[e.fd] \/ Closing(e.fd)]_netVars

(* A write on an open socket continues exactly where its own bytes end,    *)
(* through parks, timeouts of earlier writes and other contexts' calls.    *)
WriteResumesWhereItStopped ==
    \A c \in Users :
        /\ call[c].op = "write"
        /\ call[c].at \in {"syscall", "store", "park"}
        /\ Lookup(Handle(c))
        => call[c].offset = delivered[c]

(* "the last ReleaseWaiter performs the real NetClose" (net_slots.h): the  *)
(* slot and the descriptor of a claimed direction stay until the call that *)
(* claimed it has finished with them.                                      *)
DeferredClose ==
    \A c \in Users :
        InCall(c) /\ call[c].claimed /\ ~At(c, "accepted") => IsSlot(Handle(c))
==============================================================================
