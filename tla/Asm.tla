-------------------------------- MODULE Asm ---------------------------------
(***************************************************************************)
(* The MIPS assembler programs: one of them is called, and what holds of   *)
(* each is that it keeps to the calling convention, returns, and gives the *)
(* right answer.                                                           *)
(***************************************************************************)
EXTENDS LifeAsm, FacAsm, IsiAsm

\* The stack has room for the deepest calls, those of prog.s and of fac3.s.
ASSUME AsmAssumption == MaxWords >= 16 /\ MaxWords >= 3 * MaxN + 3

NoBoards == Board = [b \in Bytes |-> 0] /\ NewBoard = Board
NoMatrix == m = <<>>

AsmInit ==
  \/ LifeInit /\ NoMatrix
  \/ FacInit /\ NoBoards /\ NoMatrix
  \/ IsiInit /\ NoBoards

asmVars == <<machine, Memory, m>>

AsmNext ==
  \/ LifeNext /\ UNCHANGED m
  \/ FacNext /\ UNCHANGED <<Memory, m>>
  \/ IsiNext /\ UNCHANGED Memory

AsmSpec == AsmInit /\ [][AsmNext]_asmVars /\ WF_asmVars(AsmNext)
-----------------------------------------------------------------------------
\* The programs keep to the calling convention: main returns to its caller
\* with the registers it had to preserve as it found them.
RegistersRestored ==
  pc = "caller" =>
    \A x \in {"s0", "s1", "s2", "s3", "s4", "s5", "fp", "sp", "ra"} :
      reg[x] = Entry[x]

\* The factorials print n! as far as a word can hold it, and isi.s says of a
\* matrix what it is.
AnswersRight ==
  pc = "caller" /\ program # "life" =>
    IF program \in {"isi", "isi_review"} THEN IsiRight ELSE FacRight

\* The program comes back to its caller.
Returns == <>(pc = "caller")
=============================================================================
