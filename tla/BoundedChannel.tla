--------------------------- MODULE BoundedChannel ---------------------------
(***************************************************************************)
(* What a Channel<T> promises its callers, with every call deciding        *)
(* atomically: values leave in the order in which they were accepted, a    *)
(* full channel makes senders wait in line, an empty one receivers, and    *)
(* close turns away everybody who waits while accepted values stay.  How   *)
(* calls wait (parks, stamps, wakes) is the business of VmChannel.         *)
(***************************************************************************)
EXTENDS Naturals, Sequences

CONSTANTS Contexts, Values, Capacities

VARIABLES
    capacity,   \* places for accepted values, 0 = no limit
    queue,      \* the accepted values, oldest first
    closed,
    receivers,  \* the contexts waiting in recv, in line
    senders,    \* the contexts waiting in send with their values, in line
    outcome     \* per context: idle, waiting, or what its call will report

chanVars == <<capacity, queue, closed, receivers, senders, outcome>>

Decisions == {"sent", "closed", "done"} \cup Values
IsFull == capacity > 0 /\ Len(queue) >= capacity

Init ==
    /\ capacity \in Capacities
    /\ queue = <<>>
    /\ closed = FALSE
    /\ receivers = <<>>
    /\ senders = <<>>
    /\ outcome = [c \in Contexts |-> "idle"]

Send(c, v) ==
    /\ outcome[c] = "idle"
    /\ \/ /\ closed
          /\ outcome' = [outcome EXCEPT ![c] = "closed"]
          /\ UNCHANGED <<queue, receivers, senders>>
       \/ /\ ~closed /\ receivers # <<>>
          /\ outcome' = [outcome EXCEPT ![c] = "sent", ![Head(receivers)] = v]
          /\ receivers' = Tail(receivers)
          /\ UNCHANGED <<queue, senders>>
       \/ /\ ~closed /\ receivers = <<>> /\ IsFull
          /\ outcome' = [outcome EXCEPT ![c] = "waiting"]
          /\ senders' = Append(senders, [ctx |-> c, value |-> v])
          /\ UNCHANGED <<queue, receivers>>
       \/ /\ ~closed /\ receivers = <<>> /\ ~IsFull
          /\ outcome' = [outcome EXCEPT ![c] = "sent"]
          /\ queue' = Append(queue, v)
          /\ UNCHANGED <<receivers, senders>>
    /\ UNCHANGED <<capacity, closed>>

Recv(c) ==
    /\ outcome[c] = "idle"
    /\ \/ /\ queue # <<>> /\ senders = <<>>
          /\ outcome' = [outcome EXCEPT ![c] = Head(queue)]
          /\ queue' = Tail(queue)
          /\ UNCHANGED <<receivers, senders>>
       \/ /\ queue # <<>> /\ senders # <<>>
          /\ outcome' = [outcome EXCEPT ![c] = Head(queue),
                                        ![Head(senders).ctx] = "sent"]
          /\ queue' = Append(Tail(queue), Head(senders).value)
          /\ senders' = Tail(senders)
          /\ UNCHANGED receivers
       \/ /\ queue = <<>> /\ closed
          /\ outcome' = [outcome EXCEPT ![c] = "closed"]
          /\ UNCHANGED <<queue, receivers, senders>>
       \/ /\ queue = <<>> /\ ~closed
          /\ outcome' = [outcome EXCEPT ![c] = "waiting"]
          /\ receivers' = Append(receivers, c)
          /\ UNCHANGED <<queue, senders>>
    /\ UNCHANGED <<capacity, closed>>

(* Closing twice changes nothing more. *)
Close(c) ==
    /\ outcome[c] = "idle"
    /\ closed' = TRUE
    /\ outcome' = [x \in Contexts |->
                      IF x = c THEN "done"
                      ELSE IF outcome[x] = "waiting" THEN "closed"
                      ELSE outcome[x]]
    /\ receivers' = <<>>
    /\ senders' = <<>>
    /\ UNCHANGED <<capacity, queue>>

(* The call reports its decision to the program. *)
Return(c) ==
    /\ outcome[c] \in Decisions
    /\ outcome' = [outcome EXCEPT ![c] = "idle"]
    /\ UNCHANGED <<capacity, queue, closed, receivers, senders>>

Next == \E c \in Contexts :
            \/ \E v \in Values : Send(c, v)
            \/ Recv(c) \/ Close(c) \/ Return(c)

Spec == Init /\ [][Next]_chanVars

(* Every decided call returns; nothing makes a waiting one be served. *)
FairSpec == Spec /\ \A c \in Contexts : WF_chanVars(Return(c))
==============================================================================
