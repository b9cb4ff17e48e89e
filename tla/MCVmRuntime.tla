----------------------------- MODULE MCVmRuntime -----------------------------
(***************************************************************************)
(* Instances of VmRuntime for TLC.  A program is a set of operations, the  *)
(* locks and semaphores it uses, the carriers it is configured with and a  *)
(* bound on its contexts; each behaviour is one of one program.            *)
(***************************************************************************)
EXTENDS VmRuntime, TLC

CONSTANTS k0, k1, k2, mx, rm, sem

(* The auxiliary carriers are interchangeable: a program that has one of   *)
(* them may have either.                                                   *)
Making(n, ops, uses) == {[ops |-> ops, uses |-> uses, contexts |-> n,
                          carriers |-> {k0, k}] : k \in {k1, k2}}
On(ops) == Making(MaxContexts, ops, {})
Pair(ops) == Making(2, ops, {})
Symmetry == Permutations({k1, k2})

(* Waiting for a context or a promise, and every way a context can end. *)
Joining == UNION {Pair({"spawn", "promise", "get", "select", "fail", "observe"}),
                  On({"spawn", "promise", "get", "fail", "observe"}),
                  On({"spawn", "promise", "select", "fail", "observe"})}

(* Everything that wakes a carrier other than a decided context. *)
Waking == UNION {Pair({"spawn", "yield", "sleep", "native", "join", "fatal"}),
                 On({"spawn", "yield", "sleep", "native", "fatal"}),
                 On({"spawn", "native", "join", "fatal"})}

(* Suspended windows; the debugger. *)
Pumping == On({"spawn", "join", "window", "fatal"})
Blocking == On({"spawn", "native", "window"})
Debugging == Pair({"spawn", "yield", "native", "debug"})

(* Natives that park for I/O. *)
Polling == Pair({"spawn", "native", "io"})

(* A mutex and a semaphore; a reentrant mutex and a third carrier. *)
Locking == UNION {Making(2, {"spawn"}, {mx, sem}),
                  Making(3, {"spawn"}, {mx}), Making(3, {"spawn"}, {sem})}
Reentering == {[ops |-> {"spawn"}, uses |-> {rm}, contexts |-> 3,
                carriers |-> {k0, k1, k2}]}

RuntimePrograms == UNION {Joining, Waking, Pumping, Blocking, Debugging,
                          Polling, Locking, Reentering}

(* Contexts that join each other from inside windows. *)
WindowPrograms == Pair({"spawn", "join", "window"})

(* Contexts that yield inside windows. *)
NestingPrograms == Pair({"spawn", "yield", "window"})
==============================================================================
