------------------------------- MODULE IsiAsm -------------------------------
(***************************************************************************)
(* week05/isi.s, which shows a matrix and says whether it is the identity, *)
(* on the machine of Mips; and the version of Final Review/week06, which   *)
(* differs in the result of isIdent.                                       *)
(***************************************************************************)
EXTENDS Mips

CONSTANTS
  MatrixN,   \* the word N of matrixX.s
  Matrices   \* the words m that matrixX.s may give

ASSUME IsiAsmAssumption ==
  /\ MatrixN \in Nat
  /\ Matrices \subseteq [0 .. MatrixN * MatrixN - 1 -> Int]

VARIABLE m

IsiInit ==
  /\ \/ Start("isi", "main_isi") \/ Start("isi_review", "main_isi")
  /\ input = 0 /\ m \in Matrices

SavedIsi(f) ==
  IF f = "main_isi" THEN <<"fp", "ra">> ELSE <<"fp", "ra", "s0", "s1", "s2", "s3">>

\* Registers are pushed one by one, and popped from $sp.
Push(f, label, updates) ==
  Enter(f, SavedIsi(f), 4 * Len(SavedIsi(f)), label, updates) /\ UNCHANGED m

Pop(f, updates) ==
  Leave(SavedIsi(f), reg.sp + 4 * (Len(SavedIsi(f)) - 1), updates) /\ UNCHANGED m

MainIsi ==
  Push("main_isi", "showMatrix", [a0 |-> 0, a1 |-> MatrixN, v0 |-> 4, ra |-> 8])

AfterShowMatrix ==
  Step("after_showMatrix", [a0 |-> 0, a1 |-> MatrixN, ra |-> 9], "isIdent") /\ UNCHANGED m

\* beqz $v0: any result but 0 is taken for true.
AfterIsIdent ==
  /\ pc = "after_isIdent"
  /\ printed' = <<reg.v0 # 0>>
  /\ Pop("main_isi", [a0 |-> 0, v0 |-> 0])

-----------------------------------------------------------------------------
\* Both functions go through the rows and columns in $s2 and $s3.
EnterRows(f, row) == Push(f, row, [s0 |-> reg.a0, s1 |-> reg.a1, s2 |-> 0])

RowCond(row, col, exit) ==
  LoopHead(row, reg.s2, reg.s1 - 1, col, [s3 |-> 0], exit) /\ UNCHANGED m

At == reg.s2 * reg.s1 + reg.s3

ShowMatrix == EnterRows("showMatrix", "showM_row_cond")

ShowRowCond == RowCond("showM_row_cond", "showM_col_cond", "showM__epi")

\* An element is printed, or the newline behind a row.
ShowColCond ==
  /\ IF reg.s3 >= reg.s1
     THEN Step("showM_col_cond", [a0 |-> 0, v0 |-> 11, s2 |-> reg.s2 + 1], "showM_row_cond")
     ELSE Step("showM_col_cond", [t0 |-> 4 * At, t1 |-> 4, a0 |-> m[At], v0 |-> 1,
                                  s3 |-> reg.s3 + 1], "showM_col_cond")
  /\ UNCHANGED m

ShowEpi == pc = "showM__epi" /\ Pop("showMatrix", <<>>) /\ UNCHANGED printed

IsIdent == EnterRows("isIdent", "m_row_cond")

\* The result is 1 after the last row in the review's version; in the other
\* $v0 is left as showMatrix left it.
IsiRowCond ==
  RowCond("m_row_cond", "m_col_cond",
          IF program = "isi_review" THEN "return_true" ELSE "end_func")

IsiColCond ==
  /\ IF reg.s3 >= reg.s1
     THEN Step("m_col_cond", [s2 |-> reg.s2 + 1], "m_row_cond")
     ELSE Step("m_col_cond", [t0 |-> 4 * At, t1 |-> 4, a0 |-> m[At]], "if1")
  /\ UNCHANGED m

\* if1 on the diagonal, if2 off it.
IsiIf ==
  /\ IF reg.a0 # (IF reg.s2 = reg.s3 THEN 1 ELSE 0)
     THEN Step("if1", <<>>, "return_false")
     ELSE Step("if1", [s3 |-> reg.s3 + 1], "m_col_cond")
  /\ UNCHANGED m

ReturnFalse == Step("return_false", [v0 |-> 0], "end_func") /\ UNCHANGED m
ReturnTrue == Step("return_true", [v0 |-> 1], "end_func") /\ UNCHANGED m

EndFunc == pc = "end_func" /\ Pop("isIdent", <<>>) /\ UNCHANGED printed

IsiNext ==
  \/ MainIsi \/ AfterShowMatrix \/ AfterIsIdent
  \/ ShowMatrix \/ ShowRowCond \/ ShowColCond \/ ShowEpi
  \/ IsIdent \/ IsiRowCond \/ IsiColCond \/ IsiIf \/ ReturnFalse \/ ReturnTrue \/ EndFunc
-----------------------------------------------------------------------------
Identity == [k \in 0 .. MatrixN * MatrixN - 1 |->
               IF k \div MatrixN = k % MatrixN THEN 1 ELSE 0]

\* What is said is whether the matrix is the identity, although a result of
\* isIdent that stands for true need not be 1.
IsiRight == printed = <<m = Identity>>
=============================================================================
