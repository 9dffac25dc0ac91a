-------------------------------- MODULE Life --------------------------------
(***************************************************************************)
(* assignment/assignment1/life.c: the Game of Life in C.  main sweeps the  *)
(* board cell by cell into newboard, and copyBackAndShow copies it back    *)
(* while printing it.                                                      *)
(***************************************************************************)
EXTENDS Integers, FiniteSets

CONSTANTS
  N,        \* the side of the board
  Boards,   \* the boards to start from (the program is built with one)
  MaxIters  \* bound on the number of iterations asked for

ASSUME LifeAssumption ==
  /\ N \in Nat \ {0}
  /\ MaxIters \in Nat
  /\ Boards \subseteq [(0 .. N - 1) \X (0 .. N - 1) -> {0, 1}]

VARIABLES
  maxiters, n, i, j,
  board, newboard,  \* cell -> 1 alive, 0 dead
  screen,           \* the cells printed as # since the last heading
  phase             \* which loop the program is in

vars == <<maxiters, n, i, j, board, newboard, screen, phase>>

Cells == (0 .. N - 1) \X (0 .. N - 1)

Alive(b) == {c \in Cells : b[c] = 1}

DecideCell(old, nn) ==
  IF old = 1 THEN (IF nn \in {2, 3} THEN 1 ELSE 0)
             ELSE (IF nn = 3 THEN 1 ELSE 0)

\* The places the three continue statements of neighbours let through.
Counted(a, b, x, y) ==
  /\ a + x \in 0 .. N - 1
  /\ b + y \in 0 .. N - 1
  /\ <<x, y>> # <<0, 0>>
  /\ board[<<a + x, b + y>>] = 1

Neighbours(a, b) ==
  Cardinality({d \in (-1 .. 1) \X (-1 .. 1) : Counted(a, b, d[1], d[2])})

\* maxiters is not set when scanf finds no number: it may be any, and 0 stands
\* for all that are less than 1.
Init ==
  /\ maxiters \in 0 .. MaxIters
  /\ board \in Boards
  /\ newboard = [c \in Cells |-> 0]
  /\ n = 1 /\ i = 0 /\ j = 0
  /\ screen = {}
  /\ phase = IF n <= maxiters THEN "sweep" ELSE "done"

\* Mutant: n++ left out.
AdvanceForever(next, count) ==
  IF j < N - 1 THEN i' = i /\ j' = j + 1 /\ UNCHANGED <<n, phase>>
  ELSE IF i < N - 1 THEN i' = i + 1 /\ j' = 0 /\ UNCHANGED <<n, phase>>
  ELSE i' = 0 /\ j' = 0 /\ UNCHANGED n /\ phase' = next

\* The step of the two inner loops, and what follows the last one.
Advance(next, count) ==
  IF j < N - 1 THEN i' = i /\ j' = j + 1 /\ UNCHANGED <<n, phase>>
  ELSE IF i < N - 1 THEN i' = i + 1 /\ j' = 0 /\ UNCHANGED <<n, phase>>
  ELSE i' = 0 /\ j' = 0 /\ n' = n + count /\ phase' = next

\* Mutant: one board only.
DecideInPlace ==
  /\ phase = "sweep"
  /\ LET new == DecideCell(board[<<i, j>>], Neighbours(i, j)) IN
     /\ board' = [board EXCEPT ![<<i, j>>] = new]
     /\ newboard' = [newboard EXCEPT ![<<i, j>>] = new]
  /\ Advance("copy", 0)
  /\ UNCHANGED <<maxiters, screen>>

Decide ==
  /\ phase = "sweep"
  /\ newboard' = [newboard EXCEPT ![<<i, j>>] =
                    DecideCell(board[<<i, j>>], Neighbours(i, j))]
  /\ Advance("copy", 0)
  /\ UNCHANGED <<maxiters, board, screen>>

\* Mutant: the cell is printed before it is copied.
CopyAfterShow ==
  LET shown == IF i = 0 /\ j = 0 THEN {} ELSE screen IN
  /\ phase = "copy"
  /\ board' = [board EXCEPT ![<<i, j>>] = newboard[<<i, j>>]]
  /\ screen' = IF board[<<i, j>>] = 0 THEN shown ELSE shown \cup {<<i, j>>}
  /\ Advance(IF n + 1 <= maxiters THEN "sweep" ELSE "done", 1)
  /\ UNCHANGED <<maxiters, newboard>>

\* The heading printed before the first cell clears the screen.
CopyBackAndShow ==
  LET shown == IF i = 0 /\ j = 0 THEN {} ELSE screen IN
  /\ phase = "copy"
  /\ board' = [board EXCEPT ![<<i, j>>] = newboard[<<i, j>>]]
  /\ screen' = IF newboard[<<i, j>>] = 0 THEN shown ELSE shown \cup {<<i, j>>}
  /\ Advance(IF n + 1 <= maxiters THEN "sweep" ELSE "done", 1)
  /\ UNCHANGED <<maxiters, newboard>>

Next == Decide \/ CopyBackAndShow

Spec == Init /\ [][Next]_vars /\ WF_vars(Next)
-----------------------------------------------------------------------------
\* Between two copies the user has before him the board as it is.
ScreenShowsBoard == phase # "copy" /\ n > 1 => screen = Alive(board)

\* life.c plays the Game of Life: the generation it is at is the board's until
\* the sweep is over, and newboard's from then on.
Grid == INSTANCE LifeGrid WITH
  live       <- Alive(IF phase = "copy" THEN newboard ELSE board),
  generation <- IF phase = "copy" THEN n ELSE n - 1

ImplementsGrid == Grid!GridSpec

\* main shows the generation asked for and ends.
Finishes == <>(phase = "done" /\ n = maxiters + 1)
=============================================================================
