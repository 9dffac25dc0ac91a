------------------------------ MODULE LifeAsm -------------------------------
(***************************************************************************)
(* assignment/assignment1/prog.s: the Game of Life in MIPS assembler, on   *)
(* the machine of Mips.  Board and NewBoard are the bytes of the two       *)
(* boards, row after row.  The prologues and epilogues of the four         *)
(* functions differ in the registers they save and the size of the frame.  *)
(***************************************************************************)
EXTENDS Mips, FiniteSets

CONSTANTS
  N,        \* the word N of boardX.s
  Boards,   \* the contents of board that boardX.s may give
  MaxIters  \* bound on the number of iterations asked for

ASSUME LifeAsmAssumption ==
  /\ N \in Nat \ {0}
  /\ MaxIters \in Nat
  /\ Boards \subseteq [0 .. N * N - 1 -> {0, 1}]

VARIABLES Board, NewBoard

Memory == <<Board, NewBoard>>

Bytes == 0 .. N * N - 1

\* What each function saves, from -4($sp) down, and what it takes off $sp.
Saved(f) ==
  CASE f = "main"            -> <<"fp", "ra", "s0", "s1", "s2", "s3", "s4", "s5">>
    [] f = "decideCell"      -> <<"fp", "ra", "s0", "s1">>
    [] f = "neighbours"      -> <<"fp", "ra", "s0", "s1", "s2", "s3", "s4", "s5">>
    [] f = "copyBackAndShow" -> <<"fp", "ra", "s0", "s1", "s2">>

\* Mutant: room for one register less in main's frame.
FrameSizeShort(f) == IF f = "main" THEN 28 ELSE 4 * Len(Saved(f))

FrameSize(f) == 4 * Len(Saved(f))

LifeInit ==
  /\ Start("life", "main") /\ input \in 0 .. MaxIters
  /\ Board \in Boards /\ NewBoard = [b \in Bytes |-> 0]

Call(f, label, updates) ==
  Enter(f, Saved(f), FrameSize(f), label, updates) /\ UNCHANGED Memory
Return(f, updates) ==
  Leave(Saved(f), reg.fp, updates) /\ UNCHANGED <<printed, Memory>>

-----------------------------------------------------------------------------
\* main: from n_init_main to its epilogue.
Main ==
  Call("main", "n_cond_main",
        [a0 |-> 0, v0 |-> input, s4 |-> input, s3 |-> N, s0 |-> 1])

NCondMain ==
  LoopHead("n_cond_main", reg.s0, reg.s4, "i_cond_main", [s1 |-> 0], "n_finish_main")
  /\ UNCHANGED Memory

ICondMain ==
  LoopHead("i_cond_main", reg.s1, reg.s3 - 1, "j_cond_main", [s2 |-> 0], "i_finish_main")
  /\ UNCHANGED Memory

JCondMain ==
  /\ IF reg.s2 >= reg.s3
     THEN Step("j_cond_main", [s1 |-> reg.s1 + 1], "i_cond_main")
     ELSE Step("j_cond_main", [s5 |-> 0, a0 |-> reg.s1, a1 |-> reg.s2, ra |-> 2],
               "neighbours")
  /\ UNCHANGED Memory

AfterNeighbours ==
  LET at == reg.s1 * reg.s3 + reg.s2
  IN /\ Step("after_neighbours", [s5 |-> reg.v0, t2 |-> at, t1 |-> Board[at],
                                  a0 |-> Board[at], a1 |-> reg.v0, ra |-> 3],
             "decideCell")
     /\ UNCHANGED Memory

\* The offset in $t2 must have survived decideCell.
AfterDecide ==
  /\ Step("after_decide", [s2 |-> reg.s2 + 1], "j_cond_main")
  /\ NewBoard' = [NewBoard EXCEPT ![reg.t2] = reg.v0]
  /\ UNCHANGED Board

IFinishMain ==
  Step("i_finish_main", [v0 |-> 4, a0 |-> 0, ra |-> 4], "copyBackAndShow")
  /\ UNCHANGED Memory

\* Mutant: the outer loop steps the wrong register.
NStepWrong ==
  Step("after_copy", [s1 |-> reg.s1 + 1], "n_cond_main") /\ UNCHANGED Memory

NStepMain ==
  Step("after_copy", [s0 |-> reg.s0 + 1], "n_cond_main") /\ UNCHANGED Memory

NFinishMain == pc = "n_finish_main" /\ Return("main", [v0 |-> reg.v0])

-----------------------------------------------------------------------------
DecideCell ==
  Call("decideCell", "if_fun1", [s0 |-> reg.a0, s1 |-> reg.a1])

Ret == IF reg.s1 = 3 \/ (reg.s0 = 1 /\ reg.s1 = 2) THEN 1 ELSE 0

\* Mutant: the value is worked out in $t2.
IfFun1InT2 ==
  Step("if_fun1", [t2 |-> Ret, t0 |-> Ret], "end_decideCell_fun1") /\ UNCHANGED Memory

IfFun1 == Step("if_fun1", [t0 |-> Ret], "end_decideCell_fun1") /\ UNCHANGED Memory

EndDecideCell ==
  pc = "end_decideCell_fun1" /\ Return("decideCell", [v0 |-> reg.t0])

-----------------------------------------------------------------------------
Neighbours ==
  Call("neighbours", "x_cond_fun2",
        [s0 |-> reg.a0, s1 |-> reg.a1, s4 |-> 0, s5 |-> N, s2 |-> -1])

XCond ==
  LoopHead("x_cond_fun2", reg.s2, 1, "y_cond_fun2", [s3 |-> -1], "x_finish_fun2")
  /\ UNCHANGED Memory

YCond ==
  /\ IF reg.s3 > 1
     THEN Step("y_cond_fun2", [s2 |-> reg.s2 + 1], "x_cond_fun2")
     ELSE Step("y_cond_fun2", [t0 |-> reg.s0 + reg.s2, t1 |-> reg.s5 - 1,
                               t2 |-> reg.s1 + reg.s3], "first_if_fun2")
  /\ UNCHANGED Memory

\* The three ifs, any of which goes on with the next y.
Ifs ==
  /\ Step("first_if_fun2", <<>>,
          IF \/ reg.t0 < 0 \/ reg.t0 > reg.t1 \/ reg.t2 < 0 \/ reg.t2 > reg.t1
             \/ reg.s2 = 0 /\ reg.s3 = 0
          THEN "y_step_fun2" ELSE "end_third_if_fun2")
  /\ UNCHANGED Memory

CountCell ==
  LET cell == Board[reg.t0 * reg.s5 + reg.t2]
  IN /\ Step("end_third_if_fun2",
             [a2 |-> 0, t3 |-> cell, s4 |-> reg.s4 + IF cell = 1 THEN 1 ELSE 0],
             "y_step_fun2")
     /\ UNCHANGED Memory

YStep == Step("y_step_fun2", [s3 |-> reg.s3 + 1], "y_cond_fun2") /\ UNCHANGED Memory

XFinish == pc = "x_finish_fun2" /\ Return("neighbours", [v0 |-> reg.s4])

-----------------------------------------------------------------------------
CopyBackAndShow ==
  Call("copyBackAndShow", "i_cond_fun3", [s2 |-> N, s0 |-> 0])

ICond3 ==
  LoopHead("i_cond_fun3", reg.s0, reg.s2 - 1, "j_cond_fun3", [s1 |-> 0], "i_finish_fun3")
  /\ UNCHANGED Memory

\* The body copies a byte and prints it; the next i prints a newline.
JCond3 ==
  IF reg.s1 >= reg.s2
  THEN /\ Step("j_cond_fun3", [s0 |-> reg.s0 + 1, a0 |-> 0, v0 |-> 11], "i_cond_fun3")
       /\ UNCHANGED Memory
  ELSE LET at == reg.s0 * reg.s2 + reg.s1
       IN /\ Step("j_cond_fun3", [t0 |-> at, t1 |-> NewBoard[at], t2 |-> 0, a0 |-> 0,
                                  v0 |-> 11, s1 |-> reg.s1 + 1], "j_cond_fun3")
          /\ Board' = [Board EXCEPT ![at] = NewBoard[at]] /\ UNCHANGED NewBoard

IFinish3 == pc = "i_finish_fun3" /\ Return("copyBackAndShow", [v0 |-> reg.v0])

LifeNext ==
  \/ Main \/ NCondMain \/ ICondMain \/ JCondMain \/ AfterNeighbours
  \/ AfterDecide \/ IFinishMain \/ NStepMain \/ NFinishMain
  \/ DecideCell \/ IfFun1 \/ EndDecideCell
  \/ Neighbours \/ XCond \/ YCond \/ Ifs \/ CountCell \/ YStep \/ XFinish
  \/ CopyBackAndShow \/ ICond3 \/ JCond3 \/ IFinish3

-----------------------------------------------------------------------------
\* Where n is: in $s0, or in the frame of the function main called.
Callees == {"if_fun1", "end_decideCell_fun1", "x_cond_fun2", "y_cond_fun2",
            "first_if_fun2", "end_third_if_fun2", "y_step_fun2",
            "x_finish_fun2", "i_cond_fun3", "j_cond_fun3", "i_finish_fun3"}
nOfMain == IF pc \in Callees THEN stack[reg.fp - 8] ELSE reg.s0

Copying == pc \in {"copyBackAndShow", "i_cond_fun3", "j_cond_fun3",
                   "i_finish_fun3", "after_copy"}

\* The cells alive in the board that shows the generation reached.
LiveCells ==
  {c \in (0 .. N - 1) \X (0 .. N - 1) :
     (IF Copying THEN NewBoard ELSE Board)[c[1] * N + c[2]] = 1}

Generation ==
  IF program # "life" \/ pc = "main" THEN 0
  ELSE IF pc = "caller" THEN input
  ELSE IF Copying THEN nOfMain ELSE nOfMain - 1

\* prog.s plays the same game as life.c, whatever its calls do to registers.
Grid == INSTANCE LifeGrid WITH live <- LiveCells, generation <- Generation

ImplementsGrid == Grid!GridSpec
=============================================================================
