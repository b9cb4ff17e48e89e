---------------------------- MODULE MCVmScheduler ----------------------------
(***************************************************************************)
(* Instances of VmScheduler for TLC: the liveness runs.                    *)
(***************************************************************************)
EXTENDS VmScheduler

CONSTANTS k0, k1

On(ops) == [ops |-> ops, contexts |-> MaxContexts, carriers |-> {k0, k1}]

(* No native call, so nothing keeps a carrier for ever. *)
LivePrograms == {On({"spawn", "sleep"}), On({"spawn", "get"})}

(* Contexts that only compute. *)
ComputePrograms == {On({"spawn"})}
==============================================================================
