------------------------------ MODULE LifeGrid ------------------------------
(***************************************************************************)
(* The Game of Life on a square of N by N cells that is surrounded by dead *)
(* ones: from a generation to the next all cells change at once.  The C    *)
(* program of assignment 1 (Life) and the MIPS program (LifeAsm) are shown *)
(* to implement it.                                                        *)
(***************************************************************************)
EXTENDS Integers, FiniteSets

CONSTANT N

VARIABLES
  live,       \* the cells that are alive
  generation  \* how many generations have passed

Cells == (0 .. N - 1) \X (0 .. N - 1)

Near(a, b) == a - b \in {-1, 0, 1}

Adjacent(c) == {d \in Cells \ {c} : Near(c[1], d[1]) /\ Near(c[2], d[2])}

Population(c, L) == Cardinality(Adjacent(c) \cap L)

\* A cell is born to three neighbours and survives with two or three.
Successor(L) ==
  {c \in Cells : \/ Population(c, L) = 3
                 \/ Population(c, L) = 2 /\ c \in L}

GridInit == live \in SUBSET Cells /\ generation = 0

GridNext == live' = Successor(live) /\ generation' = generation + 1

GridSpec == GridInit /\ [][GridNext]_<<live, generation>>
=============================================================================
