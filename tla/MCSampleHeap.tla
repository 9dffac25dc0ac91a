---------------------------- MODULE MCSampleHeap ----------------------------
(***************************************************************************)
(* A small instance of SampleHeap for TLC: the variables of the            *)
(* driver are alike.                                                       *)
(***************************************************************************)
EXTENDS SampleHeap, TLC

VarSymmetry == Permutations(Vars)
=============================================================================
