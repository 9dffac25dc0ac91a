------------------------------ MODULE MCMyHeap ------------------------------
(***************************************************************************)
(* A small instance of MyHeap for TLC: the variables of the                *)
(* driver are alike.                                                       *)
(***************************************************************************)
EXTENDS MyHeap, TLC

VarSymmetry == Permutations(Vars)
=============================================================================
