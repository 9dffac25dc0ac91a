------------------------------- MODULE MCLife -------------------------------
(***************************************************************************)
(* A small instance of Life for TLC: every board of three by three cells.  *)
(***************************************************************************)
EXTENDS Life

MCBoards == [Cells -> {0, 1}]
=============================================================================
