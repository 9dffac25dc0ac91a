------------------------------- MODULE MCAsm --------------------------------
(***************************************************************************)
(* A small instance of Asm for TLC: boards of three by three cells whose   *)
(* corners are dead, numbers whose factorials need more than a word of     *)
(* eight bits, and matrices of two by two.                                 *)
(***************************************************************************)
EXTENDS Asm

MCAsmBoards == {b \in [Bytes -> {0, 1}] : \A k \in {0, 2, 6, 8} : b[k] = 0}
MCMatrices == [0 .. 3 -> {-1, 0, 1}]
=============================================================================
