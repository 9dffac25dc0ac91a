------------------------------- MODULE FacAsm -------------------------------
(***************************************************************************)
(* The factorials in MIPS assembler, on the machine of Mips: week04/fac1.s *)
(* without a function, week04/fac2.s with an iterative one, and            *)
(* week05/fac3.s with a recursive one.                                     *)
(***************************************************************************)
EXTENDS Mips

CONSTANTS
  WordLimit,  \* words are from -WordLimit to WordLimit - 1: 2^31
  MaxN        \* bound on the number given

\* The loops' counters, which stop one past the number, are words.
ASSUME FacAsmAssumption ==
  WordLimit \in Nat /\ MaxN \in Nat /\ MaxN + 1 < WordLimit

FacInit ==
  /\ \/ Start("fac1", "main1") \/ Start("fac2", "main2") \/ Start("fac3", "main3")
  /\ input \in -1 .. MaxN

SavedFac(f) ==
  CASE f = "main1" -> <<"fp", "ra", "s0", "s1", "s2">>
    [] f = "fac2"  -> <<"fp", "ra", "s0", "s1">>
    [] OTHER       -> <<"fp", "ra", "s0">>

CallFac(f, label, updates) == Enter(f, SavedFac(f), 4 * Len(SavedFac(f)), label, updates)
ReturnFac(f, updates) == Leave(SavedFac(f), reg.fp, updates)

\* A word of all ones is -1.
AsWord(n) == ((n + WordLimit) % (2 * WordLimit)) - WordLimit

Mul(x, y) == AsWord(x * y)

\* main prints the answer and returns 0.
PrintAndReturn(f, answer, updates) ==
  printed' = <<answer>> /\ ReturnFac(f, updates @@ [a0 |-> 0, v0 |-> 0])

-----------------------------------------------------------------------------
\* fac1.s.  system call 5 leaves n in $v0, where the loop reads it.
Main1 == CallFac("main1", "for1", [s0 |-> 0, a0 |-> 0, v0 |-> input, s2 |-> 1, s1 |-> 1])

For1 ==
  LoopHead("for1", reg.s1, reg.v0, "for1",
           [s2 |-> Mul(reg.s2, reg.s1), s1 |-> reg.s1 + 1], "end_for1")

EndFor1 == pc = "end_for1" /\ PrintAndReturn("main1", reg.s2, <<>>)

\* fac2.s.
Main2 == CallFac("main2", "fac2", [s0 |-> 0, v0 |-> input, a0 |-> input, ra |-> 5])

Fac2 == CallFac("fac2", "for2", [s1 |-> 1, s0 |-> 1])

For2 ==
  LoopHead("for2", reg.s0, reg.a0, "for2",
           [s1 |-> Mul(reg.s1, reg.s0), s0 |-> reg.s0 + 1], "end_for2")

EndFor2 == pc = "end_for2" /\ ReturnFac("fac2", [v0 |-> reg.s1]) /\ UNCHANGED printed

AfterFac2 == pc = "after_fac2" /\ PrintAndReturn("main2", reg.v0, [t0 |-> reg.v0])

\* fac3.s.
Main3 == CallFac("main3", "fac3", [v0 |-> input, s0 |-> input, a0 |-> input, ra |-> 6])

Fac3 == CallFac("fac3", "if3", <<>>)

\* n is kept in $s0 across the call.
If3 ==
  IF reg.a0 > 1
  THEN Step("if3", [s0 |-> reg.a0, a0 |-> reg.a0 - 1, ra |-> 7], "fac3")
  ELSE Step("if3", [v0 |-> 1], "return3")

\* Mutant: n is taken from $a0, which the call has changed.
ProductOfA0 == Mul(reg.v0, reg.a0)

Product == Mul(reg.v0, reg.s0)

AfterRecursion == Step("after_recursion", [v0 |-> Product], "return3")

Return3 == pc = "return3" /\ ReturnFac("fac3", <<>>) /\ UNCHANGED printed

AfterFac3 == pc = "after_fac3" /\ PrintAndReturn("main3", reg.v0, <<>>)

FacNext ==
  \/ Main1 \/ For1 \/ EndFor1
  \/ Main2 \/ Fac2 \/ For2 \/ EndFor2 \/ AfterFac2
  \/ Main3 \/ Fac3 \/ If3 \/ AfterRecursion \/ Return3 \/ AfterFac3
-----------------------------------------------------------------------------
Factorial[n \in Nat] == IF n = 0 THEN 1 ELSE n * Factorial[n - 1]

\* What is printed is the factorial, cut to a word.
FacRight == printed = <<AsWord(Factorial[IF input > 0 THEN input ELSE 0])>>
=============================================================================
