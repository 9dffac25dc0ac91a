-------------------------------- MODULE Mips --------------------------------
(***************************************************************************)
(* What the MIPS assembler programs share: registers, a stack, calls.      *)
(*                                                                         *)
(* reg holds the registers and stack the words below the caller's $sp.  pc *)
(* is a label or the place after a call; an action executes the            *)
(* instructions from there to the next jump that matters.  0 stands for    *)
(* addresses and characters that only pass through a register.             *)
(***************************************************************************)
EXTENDS Integers, Sequences

CONSTANT MaxWords  \* bound: words on the stack

ASSUME MipsAssumption == MaxWords \in Nat

VARIABLES
  program,  \* which program runs
  input,    \* what system call 5 reads
  printed,  \* the answer it has printed, once it has
  pc, reg, stack

machine == <<program, input, printed, pc, reg, stack>>

Words == {-4 * k : k \in 1 .. MaxWords}

\* jal leaves in $ra the place to come back to, here its position in the list.
ReturnTo == <<"caller", "after_neighbours", "after_decide", "after_copy",
              "after_fac2", "after_fac3", "after_recursion",
              "after_showMatrix", "after_isIdent">>

\* The caller's registers: values that tell them apart.
Entry == [s0 |-> 50, s1 |-> 51, s2 |-> 52, s3 |-> 53, s4 |-> 54, s5 |-> 55,
          t0 |-> 60, t1 |-> 61, t2 |-> 62, t3 |-> 63, a0 |-> 70, a1 |-> 71,
          a2 |-> 72, v0 |-> 80, fp |-> 90, sp |-> 0, ra |-> 1]

Start(name, label) ==
  /\ program = name /\ pc = label
  /\ printed = <<>> /\ reg = Entry /\ stack = [a \in Words |-> 0]

\* The registers g with the values of f put over them.
f @@ g ==
  [x \in DOMAIN f \cup DOMAIN g |-> IF x \in DOMAIN f THEN f[x] ELSE g[x]]

Goto(label) == pc' = label
Set(updates) == reg' = updates @@ reg /\ UNCHANGED <<program, input, printed, stack>>

Step(label, updates, to) == pc = label /\ Set(updates) /\ Goto(to)

\* The head of a loop: on to its body, or out of it when counter > limit.
LoopHead(label, counter, limit, body, updates, exit) ==
  IF counter > limit THEN Step(label, <<>>, exit) ELSE Step(label, updates, body)

\* A prologue that saves registers from -4($sp) down and takes size off $sp,
\* and the assignments (updates) that follow it.
Enter(f, saved, size, label, updates) ==
  /\ pc = f
  /\ stack' = [a \in Words |->
       LET k == (reg.sp - a) \div 4 IN IF k \in DOMAIN saved THEN reg[saved[k]] ELSE stack[a]]
  /\ reg' = updates @@ [fp |-> reg.sp - 4, sp |-> reg.sp - size] @@ reg
  /\ Goto(label)
  /\ UNCHANGED <<program, input, printed>>

\* An epilogue that restores them from base up, the result put in $v0 just
\* before it, and jr $ra.
Leave(saved, base, updates) ==
  LET at(x) == base - 4 * ((CHOOSE k \in DOMAIN saved : saved[k] = x) - 1)
      restored == [x \in {saved[k] : k \in DOMAIN saved} |-> stack[at(x)]]
  IN /\ reg' = updates @@ restored @@ [sp |-> base + 4] @@ reg
     /\ Goto(ReturnTo[restored.ra])
     /\ UNCHANGED <<program, input, stack>>
=============================================================================
