-------------------------- MODULE MCVisionScheduler --------------------------
(* Instances of VisionScheduler for TLC. Calls are interchangeable.          *)
EXTENDS VisionScheduler, TLC

CallSymmetry == Permutations(Calls)
=============================================================================
