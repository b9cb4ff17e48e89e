---------------------------- MODULE MCGcWorldStop ----------------------------
(* Instances of GcWorldStop for TLC.                                         *)
EXTENDS GcWorldStop, TLC

\* The threads run the same protocol.
ThreadSymmetry == Permutations(Threads)
=============================================================================
