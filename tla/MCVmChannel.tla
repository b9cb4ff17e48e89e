----------------------------- MODULE MCVmChannel -----------------------------
(* Instances of VmChannel for TLC.                                           *)
EXTENDS VmChannel
==============================================================================
