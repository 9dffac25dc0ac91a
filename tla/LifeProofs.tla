----------------------------- MODULE LifeProofs -----------------------------
(***************************************************************************)
(* Theorems about assignment1/life.c (module Life), for boards of every    *)
(* size and every number of iterations.                                    *)
(***************************************************************************)
EXTENDS Life, FiniteSetTheorems, FunctionTheorems, TLAPS

-----------------------------------------------------------------------------
(* The double loop of neighbours counts the live cells around a cell.      *)

Offsets == (-1 .. 1) \X (-1 .. 1)

LEMMA OffsetsFinite == IsFiniteSet(Offsets)
<1>1. IsFiniteSet(-1 .. 1)
  <2>1. -1 \in Int /\ 1 \in Int  OBVIOUS
  <2>2. QED  BY <2>1, FS_Interval, Zenon
<1>2. QED  BY <1>1, FS_Product DEF Offsets

\* LifeGrid counts with the operator of its own copy of FiniteSets.
LEMMA SameCardinality == \A S : Grid!Cardinality(S) = Cardinality(S)
BY Zenon DEF Cardinality, Grid!Cardinality

LEMMA NeighboursAreAdjacent ==
  ASSUME board \in [Cells -> {0, 1}], NEW c \in Cells
  PROVE  Neighbours(c[1], c[2]) = Grid!Population(c, Alive(board))
<1> DEFINE D == {d \in Offsets : Counted(c[1], c[2], d[1], d[2])}
           A == Grid!Adjacent(c) \cap Alive(board)
           at(d) == <<c[1] + d[1], c[2] + d[2]>>
           f == [d \in D |-> at(d)]
<1>1. PICK a \in 0 .. N - 1, b \in 0 .. N - 1 : c = <<a, b>>  BY DEF Cells
<1>2. ASSUME NEW d \in D PROVE at(d) \in A
  <2>1. PICK x \in -1 .. 1, y \in -1 .. 1 : d = <<x, y>>  BY DEF Offsets
  <2>2. /\ a + x \in 0 .. N - 1 /\ b + y \in 0 .. N - 1
        /\ <<x, y>> # <<0, 0>> /\ board[<<a + x, b + y>>] = 1
    BY <1>1, <2>1 DEF Counted
  <2>3. at(d) = <<a + x, b + y>> /\ at(d) \in Cells  BY <1>1, <2>1, <2>2 DEF Cells
  <2>4. at(d) \in Alive(board)  BY <2>2, <2>3 DEF Alive
  <2>5. at(d) # c  BY <1>1, <2>1, <2>2, <2>3
  <2>6. Grid!Near(a, a + x) /\ Grid!Near(b, b + y)
    BY <1>1, <2>1 DEF Grid!Near
  <2>7. at(d) \in Grid!Adjacent(c)
    BY <1>1, <2>3, <2>5, <2>6 DEF Grid!Adjacent, Grid!Cells, Cells
  <2>8. QED  BY <2>4, <2>7
<1>3. ASSUME NEW d \in D, NEW e \in D, at(d) = at(e) PROVE d = e
  <2>1. PICK x \in -1 .. 1, y \in -1 .. 1 : d = <<x, y>>  BY DEF Offsets
  <2>2. PICK u \in -1 .. 1, v \in -1 .. 1 : e = <<u, v>>  BY DEF Offsets
  <2>3. a + x = a + u /\ b + y = b + v  BY <1>1, <1>3, <2>1, <2>2
  <2>4. QED  BY <2>1, <2>2, <2>3
<1>4. ASSUME NEW e \in A PROVE \E d \in D : at(d) = e
  <2>1. e \in Cells /\ e # c /\ Grid!Near(c[1], e[1]) /\ Grid!Near(c[2], e[2])
        /\ board[e] = 1
    BY DEF Grid!Adjacent, Grid!Cells, Cells, Alive
  <2>2. PICK u \in 0 .. N - 1, v \in 0 .. N - 1 : e = <<u, v>>  BY <2>1 DEF Cells
  <2>3. u - a \in -1 .. 1 /\ v - b \in -1 .. 1
    BY <1>1, <2>1, <2>2 DEF Grid!Near
  <2>4. <<u - a, v - b>> # <<0, 0>>  BY <1>1, <2>1, <2>2
  <2>5. a + (u - a) = u /\ b + (v - b) = v  BY <2>2
  <2>6. Counted(a, b, u - a, v - b)  BY <2>1, <2>2, <2>4, <2>5 DEF Counted
  <2>7. <<u - a, v - b>> \in D  BY <1>1, <2>3, <2>6 DEF Offsets
  <2>8. at(<<u - a, v - b>>) = e  BY <1>1, <2>2, <2>5
  <2>9. QED  BY <2>7, <2>8
<1>5. IsFiniteSet(D)  BY OffsetsFinite, FS_Subset
<1> HIDE DEF D, A, at
<1>6. f \in [D -> A] /\ \A d \in D : f[d] = at(d)  BY <1>2
<1> HIDE DEF f
<1>7. f \in Surjection(D, A)  BY <1>4, <1>6 DEF Surjection
<1>8. f \in Injection(D, A)  BY <1>3, <1>6 DEF Injection, IsInjective
<1>9. IsFiniteSet(A) /\ Cardinality(A) <= Cardinality(D)
  BY <1>5, <1>7, FS_Surjection
<1>10. Cardinality(D) = Cardinality(A)  BY <1>5, <1>7, <1>8, <1>9, FS_Injection
<1>11. QED  BY <1>10, SameCardinality DEF Neighbours, D, A, Offsets, Grid!Population

\* The cells that decideCell makes alive are the grid's next generation.
LEMMA DecideIsSuccessor ==
  ASSUME board \in [Cells -> {0, 1}],
         NEW b \in [Cells -> {0, 1}],
         \A c \in Cells : b[c] = DecideCell(board[c], Neighbours(c[1], c[2]))
  PROVE  Alive(b) = Grid!Successor(Alive(board))
<1> SUFFICES ASSUME NEW c \in Cells
             PROVE  c \in Alive(b) <=> c \in Grid!Successor(Alive(board))
  BY DEF Alive, Grid!Successor, Grid!Cells, Cells
<1> DEFINE k == Grid!Population(c, Alive(board))
<1>1. b[c] = DecideCell(board[c], k)  BY NeighboursAreAdjacent
<1>2. c \in Alive(b) <=> b[c] = 1  BY DEF Alive
<1>3. c \in Alive(board) <=> board[c] = 1  BY DEF Alive
<1>4. c \in Grid!Successor(Alive(board)) <=> (k = 3 \/ (k = 2 /\ board[c] = 1))
  BY <1>3 DEF Grid!Successor, Grid!Cells, Cells
<1>5. board[c] \in {0, 1}  OBVIOUS
<1> HIDE DEF k
<1>6. QED  BY <1>1, <1>2, <1>4, <1>5 DEF DecideCell

-----------------------------------------------------------------------------
(* The invariant of the two sweeps.                                        *)

\* The cells the two inner loops have been at.
Passed(c) == c[1] < i \/ (c[1] = i /\ c[2] < j)

LifeType ==
  /\ maxiters \in Nat /\ n \in Nat \ {0} /\ i \in 0 .. N - 1 /\ j \in 0 .. N - 1
  /\ board \in [Cells -> {0, 1}] /\ newboard \in [Cells -> {0, 1}]
  /\ screen \subseteq Cells
  /\ phase \in {"sweep", "copy", "done"}

\* newboard holds the next generation of the cells passed, until it is copied;
\* of the cells passed since, board and screen agree with it.
Sweeping ==
  phase = "sweep" =>
    \A c \in Cells : Passed(c) =>
      newboard[c] = DecideCell(board[c], Neighbours(c[1], c[2]))

Copying ==
  phase = "copy" =>
    /\ \A c \in Cells : Passed(c) => board[c] = newboard[c]
    /\ i > 0 \/ j > 0 => screen = {c \in Cells : Passed(c) /\ newboard[c] = 1}

AtRest == phase = "done" => i = 0 /\ j = 0

LifeInv == LifeType /\ Sweeping /\ Copying /\ AtRest /\ ScreenShowsBoard

LEMMA DecideBit == \A old, nn : DecideCell(old, nn) \in {0, 1}
BY DEF DecideCell

\* Advance takes the loops to the next cell, or past the last one.
LEMMA AdvancePasses ==
  ASSUME LifeType, NEW next, NEW count, Advance(next, count)
  PROVE  /\ i' \in 0 .. N - 1 /\ j' \in 0 .. N - 1
         /\ \/ /\ phase' = phase /\ n' = n /\ (i' > 0 \/ j' > 0)
               /\ \A c \in Cells : Passed(c)' <=> (Passed(c) \/ c = <<i, j>>)
            \/ /\ phase' = next /\ n' = n + count /\ i' = 0 /\ j' = 0
               /\ \A c \in Cells : ~Passed(c)' /\ (Passed(c) \/ c = <<i, j>>)
<1> USE LifeAssumption DEF LifeType, Cells, Passed
<1>1. CASE j < N - 1
  BY <1>1 DEF Advance
<1>2. CASE ~(j < N - 1) /\ i < N - 1
  BY <1>2 DEF Advance
<1>3. CASE ~(j < N - 1) /\ ~(i < N - 1)
  BY <1>3 DEF Advance
<1>4. QED  BY <1>1, <1>2, <1>3

LEMMA InitLife == Init => LifeInv
BY LifeAssumption
   DEF Init, LifeInv, LifeType, Sweeping, Copying, AtRest, ScreenShowsBoard, Cells, Passed

LEMMA DecideKeeps ==
  ASSUME LifeInv, Decide
  PROVE  /\ LifeInv'
         /\ \/ phase' = "sweep" /\ n' = n
            \/ phase' = "copy" /\ n' = n /\ Alive(newboard') = Grid!Successor(Alive(board))
<1> DEFINE decided(c) == DecideCell(board[c], Neighbours(c[1], c[2]))
<1>1. LifeType /\ phase = "sweep" /\ Advance("copy", 0)
  BY DEF LifeInv, Decide
<1>2. <<i, j>> \in Cells /\ n \in Nat  BY <1>1 DEF LifeType, Cells
<1>3. newboard' = [newboard EXCEPT ![<<i, j>>] = decided(<<i, j>>)]
  BY <1>2 DEF Decide
<1>4. UNCHANGED <<maxiters, board, screen>>  BY DEF Decide
<1> HIDE DEF decided
<1>5. decided(<<i, j>>) \in {0, 1}  BY DecideBit DEF decided
<1>6. newboard' \in [Cells -> {0, 1}]  BY <1>1, <1>2, <1>3, <1>5 DEF LifeType
<1>7. ASSUME NEW c \in Cells, Passed(c) \/ c = <<i, j>>
      PROVE  newboard'[c] = decided(c)
  BY <1>1, <1>2, <1>3, <1>7, Zenon DEF LifeType, LifeInv, Sweeping, decided
<1>8. ASSUME NEW c \in Cells PROVE decided(c)' = decided(c)
  BY <1>4, Zenon DEF decided, Neighbours, Counted
<1>9. CASE /\ phase' = phase /\ n' = n /\ (i' > 0 \/ j' > 0)
           /\ \A c \in Cells : Passed(c)' <=> (Passed(c) \/ c = <<i, j>>)
  <2>1. Sweeping'  BY <1>7, <1>8, <1>9, Zenon DEF Sweeping, decided
  <2>2. Copying' /\ AtRest'  BY <1>1, <1>9 DEF Copying, AtRest
  <2>3. LifeType'  BY <1>1, <1>4, <1>6, <1>9, AdvancePasses DEF LifeType
  <2>4. ScreenShowsBoard'
    BY <1>1, <1>4, <1>9 DEF LifeInv, ScreenShowsBoard, Alive
  <2>5. QED  BY <1>1, <1>9, <2>1, <2>2, <2>3, <2>4 DEF LifeInv
<1>10. CASE /\ phase' = "copy" /\ n' = n + 0 /\ i' = 0 /\ j' = 0
            /\ \A c \in Cells : ~Passed(c)' /\ (Passed(c) \/ c = <<i, j>>)
  <2>1. Copying'  BY <1>10 DEF Copying
  <2>2. Sweeping' /\ AtRest' /\ ScreenShowsBoard'
    BY <1>10 DEF Sweeping, AtRest, ScreenShowsBoard
  <2>3. LifeType'  BY <1>1, <1>2, <1>4, <1>6, <1>10, AdvancePasses DEF LifeType
  <2>4. \A c \in Cells : newboard'[c] = decided(c)  BY <1>7, <1>10
  <2>5. Alive(newboard') = Grid!Successor(Alive(board))
    BY <1>1, <1>6, <2>4, DecideIsSuccessor DEF LifeType, decided
  <2>6. QED  BY <1>2, <1>10, <2>1, <2>2, <2>3, <2>5 DEF LifeInv
<1>11. QED  BY <1>1, <1>9, <1>10, AdvancePasses

LEMMA CopyKeeps ==
  ASSUME LifeInv, CopyBackAndShow
  PROVE  /\ LifeInv'
         /\ newboard' = newboard
         /\ \/ phase' = "copy" /\ n' = n
            \/ /\ phase' \in {"sweep", "done"} /\ n' = n + 1
               /\ Alive(board') = Alive(newboard)
<1> DEFINE next == IF n + 1 <= maxiters THEN "sweep" ELSE "done"
           shown == IF i = 0 /\ j = 0 THEN {} ELSE screen
<1>1. LifeType /\ phase = "copy" /\ Advance(next, 1)
  BY DEF LifeInv, CopyBackAndShow
<1>2. <<i, j>> \in Cells /\ n \in Nat /\ i \in Nat /\ j \in Nat  BY <1>1 DEF LifeType, Cells
<1>3. /\ board' = [board EXCEPT ![<<i, j>>] = newboard[<<i, j>>]]
      /\ screen' = IF newboard[<<i, j>>] = 0 THEN shown ELSE shown \cup {<<i, j>>}
      /\ UNCHANGED <<maxiters, newboard>>
  BY DEF CopyBackAndShow
<1>4. board' \in [Cells -> {0, 1}] /\ newboard[<<i, j>>] \in {0, 1}
  BY <1>1, <1>2, <1>3 DEF LifeType
<1>5. ASSUME NEW c \in Cells, Passed(c) \/ c = <<i, j>>
      PROVE  board'[c] = newboard[c]
  BY <1>1, <1>2, <1>3, <1>5, Zenon DEF LifeType, LifeInv, Copying
<1>6. shown = {c \in Cells : Passed(c) /\ newboard[c] = 1}
  <2>1. CASE i = 0 /\ j = 0
    <3>1. \A c \in Cells : ~Passed(c)  BY <2>1 DEF Cells, Passed
    <3>2. QED  BY <2>1, <3>1
  <2>2. CASE i > 0 \/ j > 0
    BY <1>1, <1>2, <2>2 DEF LifeInv, Copying
  <2>3. QED  BY <1>2, <2>1, <2>2
<1> HIDE DEF shown
<1>7. screen' = {c \in Cells : (Passed(c) \/ c = <<i, j>>) /\ newboard[c] = 1}
  <2>1. CASE newboard[<<i, j>>] = 0
    BY <1>3, <1>6, <2>1
  <2>2. CASE newboard[<<i, j>>] = 1
    BY <1>2, <1>3, <1>6, <2>2
  <2>3. QED  BY <1>4, <2>1, <2>2
<1>8. next \in {"sweep", "done"}  OBVIOUS
<1> HIDE DEF next
<1>9. CASE /\ phase' = phase /\ n' = n /\ (i' > 0 \/ j' > 0)
           /\ \A c \in Cells : Passed(c)' <=> (Passed(c) \/ c = <<i, j>>)
  <2>1. Copying'  BY <1>3, <1>5, <1>7, <1>9 DEF Copying
  <2>2. Sweeping' /\ AtRest' /\ ScreenShowsBoard'
    BY <1>1, <1>9 DEF Sweeping, AtRest, ScreenShowsBoard
  <2>3. LifeType'  BY <1>1, <1>3, <1>4, <1>7, <1>9, AdvancePasses DEF LifeType
  <2>4. QED  BY <1>1, <1>3, <1>9, <2>1, <2>2, <2>3 DEF LifeInv
<1>10. CASE /\ phase' = next /\ n' = n + 1 /\ i' = 0 /\ j' = 0
            /\ \A c \in Cells : ~Passed(c)' /\ (Passed(c) \/ c = <<i, j>>)
  <2>1. \A c \in Cells : board'[c] = newboard[c]  BY <1>5, <1>10
  <2>2. Alive(board') = Alive(newboard)  BY <2>1 DEF Alive
  <2>3. screen' = Alive(board')  BY <1>7, <1>10, <2>2 DEF Alive
  <2>4. LifeType'  BY <1>1, <1>2, <1>3, <1>4, <1>7, <1>8, <1>10, AdvancePasses DEF LifeType
  <2>5. Sweeping' /\ Copying' /\ AtRest' /\ ScreenShowsBoard'
    BY <1>8, <1>10, <2>3 DEF Sweeping, Copying, AtRest, ScreenShowsBoard, Alive
  <2>6. QED  BY <1>3, <1>8, <1>10, <2>2, <2>4, <2>5 DEF LifeInv
<1>11. QED  BY <1>1, <1>9, <1>10, AdvancePasses

LEMMA NextLife == LifeInv /\ [Next]_vars => LifeInv'
<1> SUFFICES ASSUME LifeInv, [Next]_vars PROVE LifeInv'  OBVIOUS
<1>1. CASE UNCHANGED vars
  BY <1>1 DEF vars, LifeInv, LifeType, Sweeping, Copying, AtRest, ScreenShowsBoard,
              Passed, Alive, Neighbours, Counted
<1>2. CASE Decide  BY <1>2, DecideKeeps
<1>3. CASE CopyBackAndShow  BY <1>3, CopyKeeps
<1>4. QED  BY <1>1, <1>2, <1>3 DEF Next

\* Whenever the program is not printing, what it printed last is the board it
\* goes on with.
THEOREM ScreenCorrect == Spec => []ScreenShowsBoard
<1>1. LifeInv => ScreenShowsBoard  BY DEF LifeInv
<1>2. QED  BY <1>1, InitLife, NextLife, PTL DEF Spec

LEMMA InitIsGrid == Init => Grid!GridInit
<1> SUFFICES ASSUME Init PROVE Grid!GridInit  OBVIOUS
<1>1. phase # "copy" /\ n = 1  BY DEF Init
<1>2. Alive(board) \in SUBSET Grid!Cells  BY DEF Alive, Cells, Grid!Cells
<1>3. QED  BY <1>1, <1>2 DEF Grid!GridInit

LEMMA NextIsGrid ==
  LifeInv /\ [Next]_vars
    => [Grid!GridNext]_<<Alive(IF phase = "copy" THEN newboard ELSE board),
                         IF phase = "copy" THEN n ELSE n - 1>>
<1> DEFINE live == Alive(IF phase = "copy" THEN newboard ELSE board)
           generation == IF phase = "copy" THEN n ELSE n - 1
<1> SUFFICES ASSUME LifeInv, [Next]_vars
             PROVE  Grid!GridNext \/ (live' = live /\ generation' = generation)
  OBVIOUS
<1>0. n \in Nat  BY DEF LifeInv, LifeType
<1>1. CASE UNCHANGED vars
  BY <1>1 DEF vars, Alive
<1>2. CASE Decide
  <2>1. phase = "sweep" /\ board' = board  BY <1>2 DEF Decide
  <2>2. CASE phase' = "sweep" /\ n' = n
    BY <2>1, <2>2 DEF Alive
  <2>3. CASE phase' = "copy" /\ n' = n /\ Alive(newboard') = Grid!Successor(Alive(board))
    BY <1>0, <2>1, <2>3 DEF Grid!GridNext, Alive
  <2>4. QED  BY <1>2, <2>2, <2>3, DecideKeeps
<1>3. CASE CopyBackAndShow
  <2>1. phase = "copy" /\ newboard' = newboard  BY <1>3 DEF CopyBackAndShow
  <2>2. CASE phase' = "copy" /\ n' = n
    BY <2>1, <2>2 DEF Alive
  <2>3. CASE /\ phase' \in {"sweep", "done"} /\ n' = n + 1
             /\ Alive(board') = Alive(newboard)
    BY <1>0, <2>1, <2>3 DEF Alive
  <2>4. QED  BY <1>3, <2>2, <2>3, CopyKeeps
<1>4. QED  BY <1>1, <1>2, <1>3 DEF Next

\* life.c plays the Game of Life, on a board of any size: what its two boards
\* go through cell by cell are the generations of the grid, each reached when
\* the sweep has decided its last cell.
THEOREM LifeIsTheGame == Spec => ImplementsGrid
<1>1. Init => LifeInv /\ Grid!GridInit  BY InitLife, InitIsGrid
<1>2. LifeInv /\ [Next]_vars => LifeInv'  BY NextLife
<1>3. QED  BY <1>1, <1>2, NextIsGrid, PTL DEF Spec, ImplementsGrid, Grid!GridSpec
=============================================================================
