----------------------------- MODULE AsmProofs ------------------------------
(***************************************************************************)
(* Theorems about the MIPS assembler programs (module Asm): prog.s of      *)
(* assignment1, and those of week04 and week05.                            *)
(***************************************************************************)
EXTENDS Asm, FiniteSetTheorems, FunctionTheorems, WellFoundedInduction, TLAPS

-----------------------------------------------------------------------------
(* Registers, frames and calls.                                            *)

SRegs == {"s0", "s1", "s2", "s3", "s4", "s5"}
Preserved == SRegs \cup {"fp", "sp", "ra"}
Scratch == {"t0", "t1", "t2", "t3", "a0", "a1", "a2", "v0"}
Regs == Preserved \cup Scratch

Typed == reg \in [Regs -> Int] /\ stack \in [Words -> Int]

\* The registers saved are named once each, $fp and $ra first.
Saves(saved) ==
  /\ saved \in Seq(Preserved \ {"sp"}) /\ Len(saved) >= 2
  /\ saved[1] = "fp" /\ saved[2] = "ra"
  /\ \A k, l \in DOMAIN saved : saved[k] = saved[l] => k = l

Named(saved) == {saved[k] : k \in DOMAIN saved}

\* The updates u are to registers of some that may be changed; what they
\* make of old is now, as far as other registers of some are concerned too.
Updates(u, some) == u \in [DOMAIN u -> Int] /\ DOMAIN u \subseteq some
Assigned(u, some, old, now) ==
  /\ \A x \in DOMAIN u : now[x] = u[x]
  /\ \A x \in some \ DOMAIN u : now[x] = old[x]

\* What a function may change that saves saved.
Own(saved) == Scratch \cup (Named(saved) \ {"fp"})

\* The frame of a function that was called with the registers r.
Frame(saved, r) == \A k \in DOMAIN saved : stack[r.sp - 4 * k] = r[saved[k]]

\* The registers now of such a function: it leaves those alone that it did
\* not save.
Within(saved, r, now) ==
  /\ now.fp = r.sp - 4 /\ now.sp = r.sp - 4 * Len(saved)
  /\ \A x \in SRegs \ Named(saved) : now[x] = r[x]

\* w words of the stack are in use.
Used(r, w) == w \in Nat /\ r.sp = 0 - 4 * w

\* A step does not write to the words in use.
Untouched(w) == \A k \in 1 .. w : stack'[-4 * k] = stack[-4 * k]

LEMMA Updated ==
  ASSUME Typed, NEW u, Updates(u, Regs), reg' = u @@ reg
  PROVE  reg' \in [Regs -> Int] /\ Assigned(u, Regs, reg, reg')
<1>1. DOMAIN reg = Regs  BY DEF Typed
<1>2. DOMAIN u \cup DOMAIN reg = Regs  BY <1>1 DEF Updates
<1>3. reg' = [x \in Regs |-> IF x \in DOMAIN u THEN u[x] ELSE reg[x]]
  BY <1>2 DEF @@
<1>4. QED  BY <1>3 DEF Typed, Updates, Assigned

LEMMA Stepped ==
  ASSUME Typed, NEW label, NEW u, NEW to, Updates(u, Regs), Step(label, u, to)
  PROVE  /\ Typed' /\ Assigned(u, Regs, reg, reg')
         /\ pc = label /\ pc' = to /\ UNCHANGED <<program, input, printed, stack>>
<1>1. reg' = u @@ reg /\ pc = label /\ pc' = to /\ UNCHANGED <<program, input, printed, stack>>
  BY DEF Step, Set, Goto
<1>2. QED  BY <1>1, Updated DEF Typed

\* A prologue makes a frame below the words in use.
LEMMA Entered ==
  ASSUME Typed, NEW f, NEW saved, Saves(saved), NEW label,
         NEW u, Updates(u, Own(saved)),
         NEW w, Used(reg, w), w + Len(saved) <= MaxWords,
         Enter(f, saved, 4 * Len(saved), label, u),
         NEW r, r = reg
  PROVE  /\ Typed' /\ Untouched(w)
         /\ Frame(saved, r)' /\ Within(saved, r, reg')
         /\ Assigned(u, Regs \ {"fp", "sp"}, reg, reg')
         /\ pc = f /\ pc' = label
         /\ UNCHANGED <<program, input, printed>>
<1> DEFINE at(a) == (reg.sp - a) \div 4
           b == [fp |-> reg.sp - 4, sp |-> reg.sp - 4 * Len(saved)]
<1>1. /\ stack' = [a \in Words |-> IF at(a) \in DOMAIN saved THEN reg[saved[at(a)]]
                                   ELSE stack[a]]
      /\ reg' = u @@ b @@ reg
      /\ pc = f /\ pc' = label /\ UNCHANGED <<program, input, printed>>
  BY DEF Enter, Goto
<1>2. /\ DOMAIN saved = 1 .. Len(saved) /\ Len(saved) \in Nat
      /\ \A k \in DOMAIN saved : saved[k] \in Regs \ {"sp"}
  BY DEF Saves, Regs
<1>3. /\ \A x \in Regs : reg[x] \in Int
      /\ reg.sp \in Int /\ w \in Nat /\ reg.sp = 0 - 4 * w /\ DOMAIN reg = Regs
  BY DEF Typed, Used, Regs, Preserved
<1>4. ASSUME NEW k \in 1 .. Len(saved)
      PROVE  /\ reg.sp - 4 * k \in Words /\ at(reg.sp - 4 * k) = k
  <2>1. reg.sp - 4 * k = -4 * (w + k) /\ w + k \in 1 .. MaxWords
    BY <1>2, <1>3, MipsAssumption
  <2>2. reg.sp - 4 * k \in Words  BY <2>1 DEF Words
  <2>3. reg.sp - (reg.sp - 4 * k) = 4 * k /\ (4 * k) \div 4 = k  BY <1>3
  <2>4. QED  BY <2>2, <2>3
<1>5. ASSUME NEW k \in 1 .. w
      PROVE  -4 * k \in Words /\ at(-4 * k) \notin DOMAIN saved
  <2>1. k \in 1 .. MaxWords /\ -4 * k \in Words  BY <1>2, <1>3, MipsAssumption DEF Words
  <2>2. reg.sp - (-4 * k) = 4 * (k - w) /\ (4 * (k - w)) \div 4 = k - w  BY <1>3
  <2>3. at(-4 * k) = k - w  BY <2>2
  <2>4. QED  BY <1>2, <1>3, <2>1, <2>3
<1>6. stack' \in [Words -> Int]  BY <1>1, <1>2, <1>3 DEF Typed
<1> HIDE DEF at
<1>7. Frame(saved, r)'  BY <1>1, <1>2, <1>4 DEF Frame
<1>8. Untouched(w)  BY <1>1, <1>5 DEF Untouched
<1>9. /\ DOMAIN b = {"fp", "sp"} /\ b.fp = reg.sp - 4 /\ b.sp = reg.sp - 4 * Len(saved)
  OBVIOUS
<1>10. b.fp \in Int /\ b.sp \in Int  BY <1>2, <1>3, <1>9
<1> HIDE DEF b
<1>11. /\ DOMAIN u \subseteq Regs \ {"fp", "sp"}
       /\ \A x \in SRegs \ Named(saved) : x \notin DOMAIN u
  <2>1. Named(saved) \subseteq Regs \ {"sp"}  BY <1>2 DEF Named
  <2>2. QED  BY <2>1 DEF Updates, Own, Regs, Preserved, SRegs, Scratch
<1>12. (DOMAIN u \cup DOMAIN b) \cup Regs = Regs
  BY <1>9, <1>11 DEF Regs, Preserved
<1>13. reg' = [x \in Regs |-> IF x \in DOMAIN u THEN u[x]
                              ELSE IF x \in DOMAIN b THEN b[x] ELSE reg[x]]
  BY <1>1, <1>3, <1>12 DEF @@
<1>14. reg' \in [Regs -> Int]  BY <1>3, <1>9, <1>10, <1>13 DEF Updates
<1>15. Within(saved, r, reg')
  <2>1. reg'.fp = r.sp - 4 /\ reg'.sp = r.sp - 4 * Len(saved)
    BY <1>9, <1>11, <1>13 DEF Regs, Preserved
  <2>2. \A x \in SRegs \ Named(saved) : reg'[x] = r[x]
    BY <1>9, <1>11, <1>13 DEF Regs, Preserved, SRegs
  <2>3. QED  BY <2>1, <2>2 DEF Within
<1>16. Assigned(u, Regs \ {"fp", "sp"}, reg, reg')
  BY <1>9, <1>11, <1>13 DEF Assigned
<1>17. QED  BY <1>1, <1>6, <1>7, <1>8, <1>14, <1>15, <1>16 DEF Typed

\* An epilogue gives the caller its registers back; u are results.
LEMMA Left ==
  ASSUME Typed, NEW saved, Saves(saved), NEW r \in [Regs -> Int],
         Frame(saved, r), Within(saved, r, reg),
         NEW w, Used(r, w), w + Len(saved) <= MaxWords,
         NEW u, Updates(u, Scratch),
         NEW base, base = r.sp - 4, Leave(saved, base, u)
  PROVE  /\ Typed' /\ Assigned(u, Scratch, reg, reg')
         /\ \A x \in Preserved : reg'[x] = r[x]
         /\ pc' = ReturnTo[r.ra]
         /\ UNCHANGED <<program, input, stack>>
<1> DEFINE at(x) == base - 4 * ((CHOOSE k \in DOMAIN saved : saved[k] = x) - 1)
           restored == [x \in {saved[k] : k \in DOMAIN saved} |-> stack[at(x)]]
           b == [sp |-> base + 4]
<1>1. /\ reg' = u @@ restored @@ b @@ reg
      /\ pc' = ReturnTo[restored.ra]
      /\ UNCHANGED <<program, input, stack>>
  BY DEF Leave, Goto
<1>2. /\ DOMAIN saved = 1 .. Len(saved) /\ Len(saved) \in Nat /\ 2 \in DOMAIN saved
      /\ \A k \in DOMAIN saved : saved[k] \in Preserved \ {"sp"}
      /\ saved[1] = "fp" /\ saved[2] = "ra"
  BY DEF Saves
<1>3. /\ \A x \in Regs : r[x] \in Int /\ reg[x] \in Int
      /\ r.sp \in Int /\ w \in Nat /\ r.sp = 0 - 4 * w /\ DOMAIN reg = Regs
  BY DEF Typed, Used, Regs, Preserved
<1>4. ASSUME NEW k \in DOMAIN saved
      PROVE  at(saved[k]) = r.sp - 4 * k
  <2>1. PICK c : c = CHOOSE l \in DOMAIN saved : saved[l] = saved[k]  OBVIOUS
  <2>2. c \in DOMAIN saved /\ saved[c] = saved[k]  BY <2>1
  <2>3. c = k  BY <2>2 DEF Saves
  <2>4. at(saved[k]) = base - 4 * (c - 1)  BY <2>1
  <2>5. QED  BY <1>2, <1>3, <2>3, <2>4
<1>5. DOMAIN restored = Named(saved)  BY DEF Named
<1>6. \A k \in DOMAIN saved : restored[saved[k]] = r[saved[k]]
  BY <1>4 DEF Frame
<1>7. DOMAIN b = {"sp"} /\ b.sp = r.sp  BY <1>3
<1> HIDE DEF restored, b
<1>8. \A x \in Named(saved) : restored[x] = r[x] /\ x \in Preserved \ {"sp"}
  BY <1>2, <1>6 DEF Named
<1>9. /\ DOMAIN u \subseteq Regs /\ Named(saved) \subseteq Regs
      /\ DOMAIN u \cap Preserved = {}
  BY <1>8 DEF Regs, Updates, Scratch, Preserved, SRegs
<1>10. ((DOMAIN u \cup Named(saved)) \cup {"sp"}) \cup Regs = Regs
  BY <1>9 DEF Regs, Preserved
<1>11. reg' = [x \in Regs |-> IF x \in DOMAIN u THEN u[x]
                              ELSE IF x \in Named(saved) THEN restored[x]
                              ELSE IF x = "sp" THEN r.sp ELSE reg[x]]
  BY <1>1, <1>3, <1>5, <1>7, <1>10 DEF @@
<1>12. reg' \in [Regs -> Int]  BY <1>3, <1>8, <1>9, <1>11 DEF Updates
<1>13. "fp" \in Named(saved) /\ "ra" \in Named(saved)
  BY <1>2 DEF Named
<1>14. \A x \in Preserved : reg'[x] = r[x]
  <2>1. \A x \in SRegs \ Named(saved) : reg[x] = r[x]  BY DEF Within
  <2>2. QED  BY <1>8, <1>9, <1>11, <1>13, <2>1 DEF Regs, Preserved
<1>15. pc' = ReturnTo[r.ra]  BY <1>1, <1>2, <1>6
<1>16. Assigned(u, Scratch, reg, reg')
  BY <1>8, <1>9, <1>11 DEF Assigned, Regs, Scratch, Preserved, SRegs
<1>17. QED  BY <1>1, <1>12, <1>14, <1>15, <1>16 DEF Typed

-----------------------------------------------------------------------------
(* The main functions, and the functions that they call.                   *)

AtEntry == reg = Entry
Home == \A x \in Preserved : reg[x] = Entry[x]

\* In a main function, which saves main, with the registers now.
InMain(main, now) == Frame(main, Entry) /\ Within(main, Entry, now)

\* In a function that saves saved, which was called with the registers r, to
\* return to the place ra of that main function.
Called(main, saved, ra, r) ==
  /\ r \in [Regs -> Int] /\ r.ra = ra
  /\ InMain(main, r)
  /\ Frame(saved, r) /\ Within(saved, r, reg)

LEMMA EntryTyped == Entry \in [Regs -> Int] /\ Used(Entry, 0) /\ Entry.sp = 0 /\ Entry.ra = 1
<1>1. DOMAIN Entry = Regs  BY DEF Entry, Regs, Preserved, Scratch, SRegs
<1>2. \A x \in Regs : Entry[x] \in Int  BY DEF Entry, Regs, Preserved, Scratch, SRegs
<1>3. Entry = [x \in DOMAIN Entry |-> Entry[x]]  BY DEF Entry
<1>4. Entry \in [Regs -> Int]  BY <1>1, <1>2, <1>3
<1>5. Entry.sp = 0 /\ Entry.ra = 1  BY DEF Entry
<1>6. Used(Entry, 0)  BY <1>5 DEF Used
<1>7. QED  BY <1>4, <1>5, <1>6

LEMMA MainEntered ==
  ASSUME Typed, AtEntry, NEW f, NEW main, Saves(main), Len(main) <= MaxWords,
         NEW label, NEW u, Updates(u, Own(main)), Enter(f, main, 4 * Len(main), label, u)
  PROVE  /\ Typed' /\ InMain(main, reg)' /\ Assigned(u, Regs \ {"fp", "sp"}, reg, reg')
         /\ pc' = label /\ UNCHANGED <<program, input, printed>>
<1>1. PICK w : w = 0  OBVIOUS
<1>2. Used(reg, w) /\ w + Len(main) <= MaxWords  BY <1>1, EntryTyped DEF Saves, AtEntry
<1>3. PICK r : r = reg  OBVIOUS
<1>4. /\ Frame(main, r)' /\ Within(main, r, reg') /\ Typed'
      /\ Assigned(u, Regs \ {"fp", "sp"}, reg, reg')
      /\ pc' = label /\ UNCHANGED <<program, input, printed>>
  BY <1>2, <1>3, Entered
<1>5. r = Entry  BY <1>3 DEF AtEntry
<1>6. QED  BY <1>4, <1>5 DEF InMain

LEMMA MainLeft ==
  ASSUME Typed, NEW main, Saves(main), Len(main) <= MaxWords, InMain(main, reg),
         NEW u, Updates(u, Scratch), NEW base, base = -4, Leave(main, base, u)
  PROVE  Typed' /\ Home' /\ pc' = "caller" /\ UNCHANGED <<program, input, stack>>
<1>1. Len(main) \in Nat  BY DEF Saves
<1>2. /\ \A x \in Preserved : reg'[x] = Entry[x]
      /\ Typed' /\ pc' = ReturnTo[Entry.ra] /\ UNCHANGED <<program, input, stack>>
  BY <1>1, EntryTyped, Left DEF InMain
<1>3. ReturnTo[1] = "caller"  BY DEF ReturnTo
<1>4. QED  BY <1>2, <1>3, EntryTyped DEF Home

\* Updates to a function's own registers leave it where it is.
LEMMA MainStays ==
  ASSUME NEW main, Saves(main), InMain(main, reg),
         NEW u, Updates(u, Own(main)), Assigned(u, Regs, reg, reg'), stack' = stack
  PROVE  InMain(main, reg)'
<1>1. Named(main) \subseteq Preserved \ {"sp"}  BY DEF Saves, Named
<1>2. \A x \in SRegs \ Named(main) : reg'[x] = reg[x]
  BY DEF Assigned, Updates, Own, Regs, Preserved, Scratch, SRegs
<1>3. reg'.fp = reg.fp /\ reg'.sp = reg.sp
  BY <1>1 DEF Assigned, Updates, Own, Regs, Preserved, Scratch, SRegs
<1>4. QED  BY <1>2, <1>3 DEF InMain, Frame, Within

LEMMA CalledStays ==
  ASSUME NEW main, NEW saved, NEW ra, NEW r, Saves(saved), Called(main, saved, ra, r),
         NEW u, Updates(u, Own(saved)), Assigned(u, Regs, reg, reg'), stack' = stack
  PROVE  Called(main, saved, ra, r)'
<1>1. Named(saved) \subseteq Preserved \ {"sp"}  BY DEF Saves, Named
<1>2. \A x \in SRegs \ Named(saved) : reg'[x] = reg[x]
  BY DEF Assigned, Updates, Own, Regs, Preserved, Scratch, SRegs
<1>3. reg'.fp = reg.fp /\ reg'.sp = reg.sp
  BY <1>1 DEF Assigned, Updates, Own, Regs, Preserved, Scratch, SRegs
<1>4. QED  BY <1>2, <1>3 DEF Called, InMain, Frame, Within

LEMMA CallEntered ==
  ASSUME Typed, NEW main, Saves(main), InMain(main, reg),
         NEW f, NEW saved, Saves(saved), Len(main) + Len(saved) <= MaxWords, NEW label,
         NEW u, Updates(u, Own(saved) \ {"ra"}),
         Enter(f, saved, 4 * Len(saved), label, u),
         NEW r, r = reg
  PROVE  /\ Typed' /\ Called(main, saved, r.ra, r)'
         /\ Assigned(u, Regs \ {"fp", "sp"}, reg, reg')
         /\ pc' = label /\ UNCHANGED <<program, input, printed>>
<1>1. Len(main) \in Nat /\ Len(saved) \in Nat /\ DOMAIN main = 1 .. Len(main)  BY DEF Saves
<1>2. Used(reg, Len(main))  BY <1>1, EntryTyped DEF InMain, Within, Used
<1>3. Updates(u, Own(saved))  BY DEF Updates
<1>4. /\ Typed' /\ Frame(saved, r)' /\ Within(saved, r, reg') /\ Untouched(Len(main))
      /\ Assigned(u, Regs \ {"fp", "sp"}, reg, reg')
      /\ pc' = label /\ UNCHANGED <<program, input, printed>>
  BY <1>1, <1>2, <1>3, Entered
<1>5. Frame(main, Entry)'
  <2>1. \A k \in DOMAIN main : Entry.sp - 4 * k = -4 * k  BY <1>1, EntryTyped
  <2>2. QED  BY <1>1, <1>4, <2>1 DEF Frame, InMain, Untouched
<1>6. r \in [Regs -> Int]  BY DEF Typed
<1>7. Called(main, saved, r.ra, r)'  BY <1>4, <1>5, <1>6 DEF Called, InMain
<1>8. QED  BY <1>4, <1>7

LEMMA CallLeft ==
  ASSUME Typed, NEW main, Saves(main), NEW saved, Saves(saved), Len(main) + Len(saved) <= MaxWords,
         NEW ra, NEW r, Called(main, saved, ra, r), NEW u, Updates(u, Scratch),
         NEW base, base = reg.fp \/ base = reg.sp + 4 * (Len(saved) - 1), Leave(saved, base, u)
  PROVE  /\ Typed' /\ InMain(main, reg)' /\ Assigned(u, Scratch, reg, reg')
         /\ \A x \in Preserved : reg'[x] = r[x]
         /\ pc' = ReturnTo[ra] /\ UNCHANGED <<program, input, stack>>
<1>1. Len(main) \in Nat /\ Len(saved) \in Nat  BY DEF Saves
<1>2. Used(r, Len(main))  BY <1>1, EntryTyped DEF Called, InMain, Within, Used
<1>3. base = r.sp - 4
  <2>1. r.sp \in Int  BY <1>1, <1>2 DEF Used
  <2>2. QED  BY <1>1, <2>1 DEF Called, Within
<1>4. /\ Typed' /\ Assigned(u, Scratch, reg, reg')
      /\ \A x \in Preserved : reg'[x] = r[x]
      /\ pc' = ReturnTo[ra] /\ UNCHANGED <<program, input, stack>>
  BY <1>1, <1>2, <1>3, Left DEF Called
<1>5. InMain(main, reg)'
  BY <1>4 DEF Called, InMain, Within, Frame, Preserved
<1>6. QED  BY <1>4, <1>5

\* What a step in a function does that main called, and what one in main.
LEMMA BodyStep ==
  ASSUME Typed, NEW main, NEW saved, NEW ra, NEW r, Saves(saved), Called(main, saved, ra, r),
         NEW u, Updates(u, Own(saved)), NEW label, NEW to, Step(label, u, to)
  PROVE  /\ Typed' /\ Called(main, saved, ra, r)' /\ Assigned(u, Regs, reg, reg')
         /\ pc = label /\ pc' = to /\ UNCHANGED <<program, input, printed, stack>>
<1>1. Own(saved) \subseteq Regs
  BY DEF Own, Saves, Named, Regs, Preserved
<1>2. Updates(u, Regs)  BY <1>1 DEF Updates
<1>3. /\ Typed' /\ Assigned(u, Regs, reg, reg')
      /\ pc = label /\ pc' = to /\ UNCHANGED <<program, input, printed, stack>>
  BY <1>2, Stepped
<1>4. QED  BY <1>3, CalledStays

LEMMA MainStep ==
  ASSUME Typed, NEW main, Saves(main), InMain(main, reg),
         NEW u, Updates(u, Own(main)), NEW label, NEW to, Step(label, u, to)
  PROVE  /\ Typed' /\ InMain(main, reg)' /\ Assigned(u, Regs, reg, reg')
         /\ pc = label /\ pc' = to /\ UNCHANGED <<program, input, printed, stack>>
<1>1. Own(main) \subseteq Regs
  BY DEF Own, Saves, Named, Regs, Preserved
<1>2. Updates(u, Regs)  BY <1>1 DEF Updates
<1>3. /\ Typed' /\ Assigned(u, Regs, reg, reg')
      /\ pc = label /\ pc' = to /\ UNCHANGED <<program, input, printed, stack>>
  BY <1>2, Stepped
<1>4. QED  BY <1>3, MainStays

-----------------------------------------------------------------------------
(* The position of an element in a matrix that is stored row after row.    *)

LEMMA Position ==
  ASSUME NEW n \in Nat \ {0}, NEW q \in 0 .. n - 1, NEW c \in 0 .. n - 1
  PROVE  /\ q * n + c \in 0 .. n * n - 1
         /\ (q * n + c) \div n = q /\ (q * n + c) % n = c
<1>1. q * n + c \in Nat  OBVIOUS
<1>2. q * n + c <= n * n - 1
  <2>1. PICK d \in Nat : d = (n - 1) - q  OBVIOUS
  <2>2. n = q + d + 1  BY <2>1
  <2>3. n * n = q * n + d * n + n  BY <2>2
  <2>4. d * n >= 0  BY <2>1
  <2>5. QED  BY <2>3, <2>4
<1>3. PICK a \in Nat : a = q * n + c  BY <1>1
<1>4. PICK d \in Int, e \in 0 .. n - 1 : d = a \div n /\ e = a % n /\ a = n * d + e
  BY <1>3
<1>5. PICK k \in Int : k = q - d  OBVIOUS
<1>6. k * n = e - c
  <2>1. q = k + d  BY <1>5
  <2>2. (k + d) * n + c = n * d + e  BY <1>3, <1>4, <2>1
  <2>3. QED  BY <2>2
<1>7. k = 0
  <2>1. ~(k >= 1)
    <3>1. SUFFICES ASSUME k >= 1 PROVE FALSE  OBVIOUS
    <3>2. k * n >= n  BY <3>1
    <3>3. QED  BY <1>6, <3>2
  <2>2. ~(k <= -1)
    <3>1. SUFFICES ASSUME k <= -1 PROVE FALSE  OBVIOUS
    <3>2. k * n <= -n  BY <3>1
    <3>3. QED  BY <1>6, <3>2
  <2>3. QED  BY <2>1, <2>2
<1>8. d = q /\ e = c  BY <1>5, <1>6, <1>7
<1>9. QED  BY <1>1, <1>2, <1>3, <1>4, <1>8

-----------------------------------------------------------------------------
(* week05/isi.s.                                                           *)

MainSaves == SavedIsi("main_isi")
RowsSave == SavedIsi("isIdent")

\* In showMatrix or isIdent, to return to ra: at a row, in it, and at an
\* element.  $v0 is not 0 until an element has been found wrong.
AtRow(ra) ==
  /\ \E r : Called(MainSaves, RowsSave, ra, r)
  /\ reg.s1 = MatrixN /\ reg.s2 \in 0 .. MatrixN /\ reg.v0 # 0
AtColumn(ra) == AtRow(ra) /\ reg.s2 < MatrixN /\ reg.s3 \in 0 .. MatrixN
AtElement == AtColumn(9) /\ reg.s3 < MatrixN /\ reg.a0 = m[At]

\* The first k elements are those of the identity.
SameUpTo(k) == \A l \in 0 .. k - 1 : m[l] = Identity[l]

Judged == (reg.v0 # 0) <=> m = Identity
Returning(ra) == \E r : Called(MainSaves, RowsSave, ra, r)

Calling(ra) == InMain(MainSaves, reg) /\ reg.ra = ra /\ reg.a1 = MatrixN /\ reg.v0 # 0
RowIdentical == AtRow(9) /\ SameUpTo(reg.s2 * MatrixN)
ColumnIdentical == AtColumn(9) /\ SameUpTo(At)
ElementIdentical == AtElement /\ SameUpTo(At)
Shown == InMain(MainSaves, reg) /\ reg.v0 # 0
Tested == InMain(MainSaves, reg) /\ Judged
IsiDone == Home /\ IsiRight

IsiLabels == {"main_isi", "showMatrix", "showM_row_cond", "showM_col_cond", "showM__epi",
              "after_showMatrix", "isIdent", "m_row_cond", "m_col_cond", "if1",
              "return_false", "return_true", "end_func", "after_isIdent", "caller"}

IsiState ==
  /\ m \in [0 .. MatrixN * MatrixN - 1 -> Int] /\ pc \in IsiLabels
  /\ pc = "main_isi" => AtEntry
  /\ pc = "showMatrix" => Calling(8)
  /\ pc = "showM_row_cond" => AtRow(8)
  /\ pc = "showM_col_cond" => AtColumn(8)
  /\ pc = "showM__epi" => Returning(8) /\ reg.v0 # 0
  /\ pc = "after_showMatrix" => Shown
  /\ pc = "isIdent" => Calling(9)
  /\ pc = "m_row_cond" => RowIdentical
  /\ pc = "m_col_cond" => ColumnIdentical
  /\ pc = "if1" => ElementIdentical
  /\ pc = "return_false" => Returning(9) /\ m # Identity
  /\ pc = "return_true" => Returning(9) /\ m = Identity
  /\ pc = "end_func" => Returning(9) /\ Judged
  /\ pc = "after_isIdent" => Tested
  /\ pc = "caller" => IsiDone

LEMMA IsiSaves ==
  /\ MainSaves = <<"fp", "ra">> /\ RowsSave = <<"fp", "ra", "s0", "s1", "s2", "s3">>
  /\ SavedIsi("showMatrix") = RowsSave
  /\ Saves(MainSaves) /\ Len(MainSaves) = 2 /\ Saves(RowsSave) /\ Len(RowsSave) = 6
  /\ Own(MainSaves) = Scratch \cup {"ra"}
  /\ Own(RowsSave) = Scratch \cup {"ra", "s0", "s1", "s2", "s3"}
<1>1. MainSaves = <<"fp", "ra">> /\ RowsSave = <<"fp", "ra", "s0", "s1", "s2", "s3">>
      /\ SavedIsi("showMatrix") = RowsSave
  BY DEF MainSaves, RowsSave, SavedIsi
<1>2. Saves(MainSaves) /\ Len(MainSaves) = 2
  BY <1>1 DEF Saves, Preserved, SRegs
<1>3. Saves(RowsSave) /\ Len(RowsSave) = 6
  BY <1>1 DEF Saves, Preserved, SRegs
<1>4. DOMAIN MainSaves = 1 .. 2 /\ DOMAIN RowsSave = 1 .. 6
  BY <1>1
<1>5. Named(MainSaves) = {"fp", "ra"}
  BY <1>1, <1>4 DEF Named
<1>6. Named(RowsSave) = {"fp", "ra", "s0", "s1", "s2", "s3"}
  BY <1>1, <1>4 DEF Named
<1>7. QED  BY <1>1, <1>2, <1>3, <1>5, <1>6 DEF Own, Scratch

LEMMA AtPosition ==
  ASSUME MatrixN \in Nat, reg.s1 = MatrixN, reg.s2 \in 0 .. MatrixN, reg.s2 < MatrixN,
         reg.s3 \in 0 .. MatrixN, reg.s3 < MatrixN
  PROVE  /\ At \in 0 .. MatrixN * MatrixN - 1
         /\ At \div MatrixN = reg.s2 /\ At % MatrixN = reg.s3
<1>1. PICK n \in Nat \ {0} : n = MatrixN  OBVIOUS
<1>2. PICK q \in 0 .. n - 1, c \in 0 .. n - 1 : q = reg.s2 /\ c = reg.s3  BY <1>1
<1>3. At = q * n + c  BY <1>1, <1>2 DEF At
<1>4. /\ q * n + c \in 0 .. n * n - 1
      /\ (q * n + c) \div n = q /\ (q * n + c) % n = c
  BY Position
<1>5. PICK a : a = q * n + c  OBVIOUS
<1>6. a \in 0 .. n * n - 1 /\ a \div n = q /\ a % n = c  BY <1>4, <1>5
<1>7. At = a  BY <1>3, <1>5
<1>8. QED  BY <1>1, <1>2, <1>6, <1>7, Zenon

LEMMA IsiRoom ==
  /\ Saves(MainSaves) /\ Saves(RowsSave)
  /\ Len(MainSaves) <= MaxWords /\ Len(MainSaves) + Len(RowsSave) <= MaxWords
BY IsiSaves, AsmAssumption, MipsAssumption

LEMMA IsiMainKeeps ==
  ASSUME Typed, IsiState, MainIsi
  PROVE  Typed' /\ IsiState'
<1> DEFINE u == [a0 |-> 0, a1 |-> MatrixN, v0 |-> 4, ra |-> 8]
<1>1. Enter("main_isi", MainSaves, 4 * Len(MainSaves), "showMatrix", u) /\ m' = m
  BY DEF MainIsi, Push, MainSaves
<1>2. Updates(u, Own(MainSaves))
  BY IsiSaves, IsiAsmAssumption DEF Updates, Scratch
<1>3. AtEntry  BY <1>1 DEF IsiState, Enter
<1>4. PICK w : w = u  OBVIOUS
<1>5. /\ Typed' /\ InMain(MainSaves, reg)' /\ Assigned(w, Regs \ {"fp", "sp"}, reg, reg')
      /\ pc' = "showMatrix"
  BY <1>1, <1>2, <1>3, <1>4, IsiRoom, MainEntered
<1>6. reg'.a1 = MatrixN /\ reg'.v0 = 4 /\ reg'.ra = 8
  BY <1>4, <1>5 DEF Assigned
<1>7. Calling(8)'  BY <1>5, <1>6 DEF Calling
<1>8. QED  BY <1>1, <1>5, <1>7 DEF IsiState, IsiLabels

LEMMA IsiAfterShowKeeps ==
  ASSUME Typed, IsiState, AfterShowMatrix
  PROVE  Typed' /\ IsiState'
<1> DEFINE u == [a0 |-> 0, a1 |-> MatrixN, ra |-> 9]
<1>1. Step("after_showMatrix", u, "isIdent") /\ m' = m /\ pc = "after_showMatrix"
  BY DEF AfterShowMatrix, Step
<1>2. Updates(u, Own(MainSaves))
  BY IsiSaves, IsiAsmAssumption DEF Updates, Scratch
<1>3. InMain(MainSaves, reg) /\ reg.v0 # 0  BY <1>1 DEF IsiState, Shown
<1>4. PICK w : w = u  OBVIOUS
<1>5. /\ Typed' /\ InMain(MainSaves, reg)' /\ Assigned(w, Regs, reg, reg')
      /\ pc' = "isIdent"
  BY <1>1, <1>2, <1>3, <1>4, IsiSaves, MainStep
<1>6. reg'.a1 = MatrixN /\ reg'.v0 # 0 /\ reg'.ra = 9
  BY <1>3, <1>4, <1>5 DEF Assigned, Regs, Scratch
<1>7. Calling(9)'  BY <1>5, <1>6 DEF Calling
<1>8. QED  BY <1>1, <1>5, <1>7 DEF IsiState, IsiLabels

LEMMA IsiAfterIdentKeeps ==
  ASSUME Typed, IsiState, AfterIsIdent
  PROVE  Typed' /\ IsiState'
<1> DEFINE u == [a0 |-> 0, v0 |-> 0]
           base == reg.sp + 4 * (Len(MainSaves) - 1)
<1>1. Leave(MainSaves, base, u) /\ m' = m /\ pc = "after_isIdent" /\ printed' = <<reg.v0 # 0>>
  BY DEF AfterIsIdent, Pop, MainSaves
<1>2. InMain(MainSaves, reg) /\ Judged  BY <1>1 DEF IsiState, Tested
<1>3. base = -4
  BY <1>2, IsiSaves, EntryTyped DEF InMain, Within
<1>4. Updates(u, Scratch)  BY DEF Updates, Scratch
<1> HIDE DEF base
<1>5. Typed' /\ Home' /\ pc' = "caller"
  BY <1>1, <1>2, <1>3, <1>4, IsiRoom, MainLeft
<1>6. IsiRight'
  <2>1. (reg.v0 # 0) = (m = Identity)  BY <1>2 DEF Judged
  <2>2. printed' = <<m = Identity>>  BY <1>1, <2>1
  <2>3. QED  BY <1>1, <2>2 DEF IsiRight, Identity
<1>7. QED  BY <1>1, <1>5, <1>6 DEF IsiState, IsiLabels, IsiDone

\* Both functions begin at the first row.
LEMMA RowsEntered ==
  ASSUME Typed, NEW f \in {"showMatrix", "isIdent"}, NEW ra, Calling(ra),
         NEW row, EnterRows(f, row)
  PROVE  Typed' /\ AtRow(ra)' /\ reg'.s2 = 0 /\ m' = m /\ pc' = row
<1> DEFINE u == [s0 |-> reg.a0, s1 |-> reg.a1, s2 |-> 0]
<1>1. Enter(f, RowsSave, 4 * Len(RowsSave), row, u) /\ m' = m
  BY IsiSaves DEF EnterRows, Push, RowsSave
<1>2. InMain(MainSaves, reg) /\ reg.ra = ra /\ reg.a1 = MatrixN /\ reg.v0 # 0
  BY DEF Calling
<1>3. Updates(u, Own(RowsSave) \ {"ra"})
  <2>1. reg.a0 \in Int /\ reg.a1 \in Int  BY DEF Typed, Regs, Scratch
  <2>2. QED  BY <2>1, IsiSaves DEF Updates, Scratch
<1>4. PICK w : w = u  OBVIOUS
<1>5. PICK r : r = reg  OBVIOUS
<1>6. /\ Typed' /\ Called(MainSaves, RowsSave, r.ra, r)'
      /\ Assigned(w, Regs \ {"fp", "sp"}, reg, reg') /\ pc' = row
  BY <1>1, <1>2, <1>3, <1>4, <1>5, IsiRoom, CallEntered
<1>7. reg'.s1 = MatrixN /\ reg'.s2 = 0 /\ reg'.v0 # 0
  BY <1>2, <1>4, <1>6 DEF Assigned, Regs, Scratch
<1>8. QED  BY <1>1, <1>2, <1>5, <1>6, <1>7, IsiAsmAssumption DEF AtRow

\* A step in one of the functions.
LEMMA RowsStep ==
  ASSUME Typed, NEW ra, Returning(ra), NEW u, Updates(u, Own(RowsSave)),
         NEW label, NEW to, Step(label, u, to)
  PROVE  /\ Typed' /\ Returning(ra)' /\ Assigned(u, Regs, reg, reg')
         /\ pc = label /\ pc' = to /\ UNCHANGED <<program, input, printed, stack>>
<1>1. PICK r : Called(MainSaves, RowsSave, ra, r)  BY DEF Returning
<1>2. /\ Typed' /\ Called(MainSaves, RowsSave, ra, r)' /\ Assigned(u, Regs, reg, reg')
      /\ pc = label /\ pc' = to /\ UNCHANGED <<program, input, printed, stack>>
  BY <1>1, IsiSaves, BodyStep
<1>3. QED  BY <1>2 DEF Returning

LEMMA RowCondStep ==
  ASSUME Typed, NEW ra, AtRow(ra), NEW row, NEW col, NEW exit, RowCond(row, col, exit)
  PROVE  /\ Typed' /\ Returning(ra)' /\ m' = m /\ pc = row
         /\ reg'.v0 = reg.v0 /\ reg'.s2 = reg.s2
         /\ UNCHANGED <<program, input, printed, stack>>
         /\ \/ pc' = exit /\ reg.s2 = MatrixN
            \/ pc' = col /\ AtColumn(ra)' /\ reg'.s3 = 0
<1>0. MatrixN \in Nat /\ reg.s1 = MatrixN /\ reg.s2 \in 0 .. MatrixN /\ m' = m
  BY IsiAsmAssumption DEF AtRow, RowCond
<1>1. Returning(ra)  BY DEF AtRow, Returning
<1>2. CASE reg.s2 > reg.s1 - 1
  <2>1. Step(row, <<>>, exit)  BY <1>2 DEF RowCond, LoopHead
  <2>2. PICK w : w = <<>>  OBVIOUS
  <2>3. Updates(w, Own(RowsSave)) /\ DOMAIN w = {}  BY <2>2 DEF Updates
  <2>4. /\ Typed' /\ Returning(ra)' /\ Assigned(w, Regs, reg, reg')
        /\ pc = row /\ pc' = exit /\ UNCHANGED <<program, input, printed, stack>>
    BY <1>1, <2>1, <2>2, <2>3, RowsStep
  <2>5. reg'.v0 = reg.v0 /\ reg'.s2 = reg.s2
    BY <2>3, <2>4 DEF Assigned, Regs, Preserved, SRegs, Scratch
  <2>6. QED  BY <1>0, <1>2, <2>4, <2>5
<1>3. CASE ~(reg.s2 > reg.s1 - 1)
  <2>1. Step(row, [s3 |-> 0], col)  BY <1>3 DEF RowCond, LoopHead
  <2>2. PICK w : w = [s3 |-> 0]  OBVIOUS
  <2>3. Updates(w, Own(RowsSave)) /\ DOMAIN w = {"s3"} /\ w.s3 = 0
    BY <2>2, IsiSaves DEF Updates
  <2>4. /\ Typed' /\ Returning(ra)' /\ Assigned(w, Regs, reg, reg')
        /\ pc = row /\ pc' = col /\ UNCHANGED <<program, input, printed, stack>>
    BY <1>1, <2>1, <2>2, <2>3, RowsStep
  <2>5. /\ reg'.v0 = reg.v0 /\ reg'.s2 = reg.s2 /\ reg'.s1 = reg.s1 /\ reg'.s3 = 0
    BY <2>3, <2>4 DEF Assigned, Regs, Preserved, SRegs, Scratch
  <2>6. reg.v0 # 0  BY DEF AtRow
  <2>7. AtColumn(ra)'
    BY <1>0, <1>3, <2>4, <2>5, <2>6 DEF AtColumn, AtRow, Returning
  <2>8. QED  BY <1>0, <2>4, <2>5, <2>7
<1>4. QED  BY <1>2, <1>3

LEMMA ShowKeeps ==
  ASSUME Typed, IsiState, ShowMatrix \/ ShowRowCond \/ ShowEpi
  PROVE  Typed' /\ IsiState'
<1>1. CASE ShowMatrix
  <2>1. EnterRows("showMatrix", "showM_row_cond")  BY <1>1 DEF ShowMatrix
  <2>2. pc = "showMatrix"  BY <2>1 DEF EnterRows, Push, Enter
  <2>3. Calling(8)  BY <2>2 DEF IsiState
  <2>4. Typed' /\ AtRow(8)' /\ m' = m /\ pc' = "showM_row_cond"
    BY <2>1, <2>3, RowsEntered
  <2>5. QED  BY <2>4 DEF IsiState, IsiLabels
<1>2. CASE ShowRowCond
  <2>1. RowCond("showM_row_cond", "showM_col_cond", "showM__epi")  BY <1>2 DEF ShowRowCond
  <2>2. pc = "showM_row_cond"  BY <2>1 DEF RowCond, LoopHead, Step
  <2>3. AtRow(8)  BY <2>2 DEF IsiState
  <2>4. /\ Typed' /\ Returning(8)' /\ m' = m /\ reg'.v0 = reg.v0
        /\ pc' = "showM__epi" \/ (pc' = "showM_col_cond" /\ AtColumn(8)')
    BY <2>1, <2>3, RowCondStep
  <2>5. reg'.v0 # 0  BY <2>3, <2>4 DEF AtRow
  <2>6. QED  BY <2>4, <2>5 DEF IsiState, IsiLabels
<1>3. CASE ShowEpi
  <2> DEFINE base == reg.sp + 4 * (Len(RowsSave) - 1)
  <2>1. Leave(RowsSave, base, <<>>) /\ m' = m /\ pc = "showM__epi"
    BY <1>3, IsiSaves DEF ShowEpi, Pop
  <2>2. PICK r : Called(MainSaves, RowsSave, 8, r)  BY <2>1 DEF IsiState, Returning
  <2>3. reg.v0 # 0  BY <2>1 DEF IsiState
  <2>4. PICK w : w = <<>>  OBVIOUS
  <2>5. Updates(w, Scratch) /\ DOMAIN w = {}  BY <2>4 DEF Updates
  <2>6. PICK b : b = base  OBVIOUS
  <2> HIDE DEF base
  <2>7. b = reg.sp + 4 * (Len(RowsSave) - 1)  BY <2>6 DEF base
  <2>8. Leave(RowsSave, b, w)  BY <2>1, <2>4, <2>6
  <2>9. /\ Typed' /\ InMain(MainSaves, reg)' /\ Assigned(w, Scratch, reg, reg')
        /\ pc' = ReturnTo[8]
    BY <2>2, <2>5, <2>7, <2>8, IsiRoom, CallLeft
  <2>10. reg'.v0 # 0  BY <2>3, <2>5, <2>9 DEF Assigned, Scratch
  <2>11. pc' = "after_showMatrix"  BY <2>9 DEF ReturnTo
  <2>12. QED  BY <2>1, <2>9, <2>10, <2>11 DEF IsiState, IsiLabels, Shown
<1>4. QED  BY <1>1, <1>2, <1>3

LEMMA ShowColumnKeeps ==
  ASSUME Typed, IsiState, ShowColCond
  PROVE  Typed' /\ IsiState'
<1>0. pc = "showM_col_cond" /\ m' = m  BY DEF ShowColCond, Step
<1>1. AtColumn(8)  BY <1>0 DEF IsiState
<1>2. /\ MatrixN \in Nat /\ reg.s1 = MatrixN /\ reg.s2 \in 0 .. MatrixN /\ reg.v0 # 0
      /\ reg.s2 < MatrixN /\ reg.s3 \in 0 .. MatrixN /\ Returning(8)
  BY <1>1, IsiAsmAssumption DEF AtColumn, AtRow, Returning
<1>3. CASE reg.s3 >= reg.s1
  <2> DEFINE u == [a0 |-> 0, v0 |-> 11, s2 |-> reg.s2 + 1]
  <2>1. Step("showM_col_cond", u, "showM_row_cond")  BY <1>3 DEF ShowColCond
  <2>2. Updates(u, Own(RowsSave))  BY <1>2, IsiSaves DEF Updates, Scratch
  <2>3. PICK w : w = u  OBVIOUS
  <2>4. /\ Typed' /\ Returning(8)' /\ Assigned(w, Regs, reg, reg')
        /\ pc' = "showM_row_cond"
    BY <1>2, <2>1, <2>2, <2>3, RowsStep
  <2>5. reg'.v0 = 11 /\ reg'.s2 = reg.s2 + 1 /\ reg'.s1 = reg.s1
    BY <2>3, <2>4 DEF Assigned, Regs, Preserved, SRegs, Scratch
  <2>6. AtRow(8)'  BY <1>2, <2>4, <2>5 DEF AtRow, Returning
  <2>7. QED  BY <1>0, <2>4, <2>6 DEF IsiState, IsiLabels
<1>4. CASE ~(reg.s3 >= reg.s1)
  <2> DEFINE u == [t0 |-> 4 * At, t1 |-> 4, a0 |-> m[At], v0 |-> 1, s3 |-> reg.s3 + 1]
  <2>1. Step("showM_col_cond", u, "showM_col_cond")  BY <1>4 DEF ShowColCond
  <2>2. At \in 0 .. MatrixN * MatrixN - 1
    BY <1>2, <1>4, AtPosition
  <2>3. m[At] \in Int /\ 4 * At \in Int /\ reg.s3 + 1 \in Int
    <3>1. \A k \in 0 .. MatrixN * MatrixN - 1 : m[k] \in Int  BY DEF IsiState
    <3>2. QED  BY <1>2, <2>2, <3>1
  <2>4. Updates(u, Own(RowsSave))  BY <2>3, IsiSaves DEF Updates, Scratch
  <2>5. PICK w : w = u  OBVIOUS
  <2>6. /\ Typed' /\ Returning(8)' /\ Assigned(w, Regs, reg, reg')
        /\ pc' = "showM_col_cond"
    BY <1>2, <2>1, <2>4, <2>5, RowsStep
  <2>7. /\ reg'.v0 = 1 /\ reg'.s3 = reg.s3 + 1
        /\ reg'.s2 = reg.s2 /\ reg'.s1 = reg.s1
    BY <2>5, <2>6 DEF Assigned, Regs, Preserved, SRegs, Scratch
  <2>8. AtColumn(8)'  BY <1>2, <1>4, <2>6, <2>7 DEF AtColumn, AtRow, Returning
  <2>9. QED  BY <1>0, <2>6, <2>8 DEF IsiState, IsiLabels
<1>5. QED  BY <1>3, <1>4

LEMMA IdentKeeps ==
  ASSUME Typed, IsiState, IsIdent \/ IsiRowCond \/ EndFunc
  PROVE  Typed' /\ IsiState'
<1>1. CASE IsIdent
  <2>1. EnterRows("isIdent", "m_row_cond")  BY <1>1 DEF IsIdent
  <2>2. pc = "isIdent"  BY <2>1 DEF EnterRows, Push, Enter
  <2>3. Calling(9)  BY <2>2 DEF IsiState
  <2>4. Typed' /\ AtRow(9)' /\ reg'.s2 = 0 /\ m' = m /\ pc' = "m_row_cond"
    BY <2>1, <2>3, RowsEntered
  <2>5. reg'.s2 * MatrixN - 1 = -1  BY <2>4, IsiAsmAssumption
  <2>6. RowIdentical'  BY <2>4, <2>5 DEF RowIdentical, SameUpTo
  <2>7. QED  BY <2>4, <2>6 DEF IsiState, IsiLabels
<1>2. CASE IsiRowCond
  <2> DEFINE exit == IF program = "isi_review" THEN "return_true" ELSE "end_func"
  <2>1. RowCond("m_row_cond", "m_col_cond", exit)  BY <1>2 DEF IsiRowCond
  <2>2. pc = "m_row_cond"  BY <2>1 DEF RowCond, LoopHead, Step
  <2>3. AtRow(9) /\ SameUpTo(reg.s2 * MatrixN)  BY <2>2 DEF IsiState, RowIdentical
  <2>4. exit \in {"return_true", "end_func"}  OBVIOUS
  <2> HIDE DEF exit
  <2>5. /\ Typed' /\ Returning(9)' /\ m' = m /\ reg'.v0 = reg.v0 /\ reg'.s2 = reg.s2
        /\ \/ pc' = exit /\ reg.s2 = MatrixN
           \/ pc' = "m_col_cond" /\ AtColumn(9)' /\ reg'.s3 = 0
    BY <2>1, <2>3, RowCondStep
  <2>6. reg.v0 # 0 /\ MatrixN \in Nat  BY <2>3, IsiAsmAssumption DEF AtRow
  <2>7. CASE pc' = exit /\ reg.s2 = MatrixN
    <3>1. \A l \in 0 .. MatrixN * MatrixN - 1 : m[l] = Identity[l]
      BY <2>3, <2>7 DEF SameUpTo
    <3>2. m = Identity  BY <3>1 DEF IsiState, Identity
    <3>3. m' = Identity'  BY <2>5, <3>2 DEF Identity
    <3>4. Judged'  BY <2>5, <2>6, <3>3 DEF Judged
    <3>5. QED  BY <2>4, <2>5, <2>7, <3>3, <3>4 DEF IsiState, IsiLabels
  <2>8. CASE pc' = "m_col_cond" /\ AtColumn(9)' /\ reg'.s3 = 0
    <3>1. reg'.s1 = MatrixN /\ reg'.s2 = reg.s2 /\ reg.s2 \in Int /\ m' = m
      BY <2>3, <2>5, <2>8 DEF AtColumn, AtRow
    <3>2. At' = reg.s2 * MatrixN  BY <2>6, <2>8, <3>1 DEF At
    <3>3. SameUpTo(At)'  BY <2>3, <3>1, <3>2 DEF SameUpTo, Identity
    <3>4. ColumnIdentical'  BY <2>8, <3>3 DEF ColumnIdentical
    <3>5. QED  BY <2>5, <2>8, <3>4 DEF IsiState, IsiLabels
  <2>9. QED  BY <2>5, <2>7, <2>8
<1>3. CASE EndFunc
  <2> DEFINE base == reg.sp + 4 * (Len(RowsSave) - 1)
  <2>1. Leave(RowsSave, base, <<>>) /\ m' = m /\ pc = "end_func"
    BY <1>3, IsiSaves DEF EndFunc, Pop, RowsSave
  <2>2. PICK r : Called(MainSaves, RowsSave, 9, r)  BY <2>1 DEF IsiState, Returning
  <2>3. Judged  BY <2>1 DEF IsiState
  <2>4. PICK w : w = <<>>  OBVIOUS
  <2>5. Updates(w, Scratch) /\ DOMAIN w = {}  BY <2>4 DEF Updates
  <2>6. PICK b : b = base  OBVIOUS
  <2> HIDE DEF base
  <2>7. b = reg.sp + 4 * (Len(RowsSave) - 1)  BY <2>6 DEF base
  <2>8. Leave(RowsSave, b, w)  BY <2>1, <2>4, <2>6
  <2>9. /\ Typed' /\ InMain(MainSaves, reg)' /\ Assigned(w, Scratch, reg, reg')
        /\ pc' = ReturnTo[9]
    BY <2>2, <2>5, <2>7, <2>8, IsiRoom, CallLeft
  <2>10. reg'.v0 = reg.v0  BY <2>5, <2>9 DEF Assigned, Scratch
  <2>11. Judged'  BY <2>1, <2>3, <2>10 DEF Judged, Identity
  <2>12. pc' = "after_isIdent"  BY <2>9 DEF ReturnTo
  <2>13. QED  BY <2>1, <2>9, <2>11, <2>12 DEF IsiState, IsiLabels, Tested
<1>4. QED  BY <1>1, <1>2, <1>3

LEMMA IdentColumnKeeps ==
  ASSUME Typed, IsiState, IsiColCond
  PROVE  Typed' /\ IsiState'
<1>0. pc = "m_col_cond" /\ m' = m  BY DEF IsiColCond, Step
<1>1. AtColumn(9) /\ SameUpTo(At)  BY <1>0 DEF IsiState, ColumnIdentical
<1>2. /\ MatrixN \in Nat /\ reg.s1 = MatrixN /\ reg.s2 \in 0 .. MatrixN /\ reg.v0 # 0
      /\ reg.s2 < MatrixN /\ reg.s3 \in 0 .. MatrixN /\ Returning(9)
  BY <1>1, IsiAsmAssumption DEF AtColumn, AtRow, Returning
<1>3. CASE reg.s3 >= reg.s1
  <2> DEFINE u == [s2 |-> reg.s2 + 1]
  <2>1. Step("m_col_cond", u, "m_row_cond")  BY <1>3 DEF IsiColCond
  <2>2. Updates(u, Own(RowsSave))  BY <1>2, IsiSaves DEF Updates, Scratch
  <2>3. PICK w : w = u  OBVIOUS
  <2>4. /\ Typed' /\ Returning(9)' /\ Assigned(w, Regs, reg, reg')
        /\ pc' = "m_row_cond"
    BY <1>2, <2>1, <2>2, <2>3, RowsStep
  <2>5. reg'.v0 = reg.v0 /\ reg'.s2 = reg.s2 + 1 /\ reg'.s1 = reg.s1
    BY <2>3, <2>4 DEF Assigned, Regs, Preserved, SRegs, Scratch
  <2>6. AtRow(9)'  BY <1>2, <2>4, <2>5 DEF AtRow, Returning
  <2>7. At = reg'.s2 * MatrixN  BY <1>2, <1>3, <2>5 DEF At
  <2>8. SameUpTo(reg.s2 * MatrixN)'  BY <1>0, <1>1, <2>7 DEF SameUpTo, Identity
  <2>9. QED  BY <1>0, <2>4, <2>6, <2>8 DEF IsiState, IsiLabels, RowIdentical
<1>4. CASE ~(reg.s3 >= reg.s1)
  <2> DEFINE u == [t0 |-> 4 * At, t1 |-> 4, a0 |-> m[At]]
  <2>1. Step("m_col_cond", u, "if1")  BY <1>4 DEF IsiColCond
  <2>2. At \in 0 .. MatrixN * MatrixN - 1
    BY <1>2, <1>4, AtPosition
  <2>3. m[At] \in Int /\ 4 * At \in Int
    <3>1. \A k \in 0 .. MatrixN * MatrixN - 1 : m[k] \in Int  BY DEF IsiState
    <3>2. QED  BY <1>2, <2>2, <3>1
  <2>4. Updates(u, Own(RowsSave))  BY <2>3, IsiSaves DEF Updates, Scratch
  <2>5. PICK w : w = u  OBVIOUS
  <2>6. /\ Typed' /\ Returning(9)' /\ Assigned(w, Regs, reg, reg') /\ pc' = "if1"
    BY <1>2, <2>1, <2>4, <2>5, RowsStep
  <2>7. /\ reg'.v0 = reg.v0 /\ reg'.s3 = reg.s3 /\ reg'.a0 = m[At]
        /\ reg'.s2 = reg.s2 /\ reg'.s1 = reg.s1
    BY <2>5, <2>6 DEF Assigned, Regs, Preserved, SRegs, Scratch
  <2>8. At' = At  BY <2>7 DEF At
  <2>9. AtColumn(9)'  BY <1>2, <2>6, <2>7 DEF AtColumn, AtRow, Returning
  <2>10. AtElement'  BY <1>0, <1>2, <1>4, <2>7, <2>8, <2>9 DEF AtElement
  <2>11. SameUpTo(At)'  BY <1>0, <1>1, <2>8 DEF SameUpTo, Identity
  <2>12. QED  BY <1>0, <2>6, <2>10, <2>11 DEF IsiState, IsiLabels, ElementIdentical
<1>5. QED  BY <1>3, <1>4

LEMMA IdentElementKeeps ==
  ASSUME Typed, IsiState, IsiIf
  PROVE  Typed' /\ IsiState'
<1>0. pc = "if1" /\ m' = m  BY DEF IsiIf, Step
<1>1. AtElement /\ SameUpTo(At)  BY <1>0 DEF IsiState, ElementIdentical
<1>2. /\ MatrixN \in Nat /\ reg.s1 = MatrixN /\ reg.s2 \in 0 .. MatrixN /\ reg.v0 # 0
      /\ reg.s2 < MatrixN /\ reg.s3 \in 0 .. MatrixN /\ Returning(9)
      /\ reg.s3 < MatrixN /\ reg.a0 = m[At]
  BY <1>1, IsiAsmAssumption DEF AtElement, AtColumn, AtRow, Returning
<1>3. PICK e : e = IF reg.s2 = reg.s3 THEN 1 ELSE 0  OBVIOUS
<1>4. At \in 0 .. MatrixN * MatrixN - 1 /\ Identity[At] = e
  <2>1. /\ At \in 0 .. MatrixN * MatrixN - 1
        /\ At \div MatrixN = reg.s2 /\ At % MatrixN = reg.s3
    BY <1>2, AtPosition
  <2>2. QED  BY <1>3, <2>1 DEF Identity
<1>5. CASE reg.a0 # e
  <2>1. Step("if1", <<>>, "return_false")  BY <1>3, <1>5 DEF IsiIf
  <2>2. PICK w : w = <<>>  OBVIOUS
  <2>3. Updates(w, Own(RowsSave))  BY <2>2 DEF Updates
  <2>4. Typed' /\ Returning(9)' /\ pc' = "return_false"
    BY <1>2, <2>1, <2>2, <2>3, RowsStep
  <2>5. m # Identity  BY <1>2, <1>4, <1>5
  <2>6. m' # Identity'  BY <1>0, <2>5 DEF Identity
  <2>7. QED  BY <1>0, <2>4, <2>6 DEF IsiState, IsiLabels
<1>6. CASE reg.a0 = e
  <2> DEFINE u == [s3 |-> reg.s3 + 1]
  <2>1. Step("if1", u, "m_col_cond")  BY <1>3, <1>6 DEF IsiIf
  <2>2. Updates(u, Own(RowsSave))  BY <1>2, IsiSaves DEF Updates, Scratch
  <2>3. PICK w : w = u  OBVIOUS
  <2>4. /\ Typed' /\ Returning(9)' /\ Assigned(w, Regs, reg, reg')
        /\ pc' = "m_col_cond"
    BY <1>2, <2>1, <2>2, <2>3, RowsStep
  <2>5. /\ reg'.v0 = reg.v0 /\ reg'.s3 = reg.s3 + 1
        /\ reg'.s2 = reg.s2 /\ reg'.s1 = reg.s1
    BY <2>3, <2>4 DEF Assigned, Regs, Preserved, SRegs, Scratch
  <2>6. PICK a \in Int : a = At  BY <1>4
  <2>7. At' = a + 1
    <3>1. PICK p \in Int : p = reg.s2 * reg.s1  BY <1>2
    <3>2. a = p + reg.s3 /\ At' = p + (reg.s3 + 1)  BY <2>5, <2>6, <3>1 DEF At
    <3>3. QED  BY <1>2, <3>2
  <2>8. AtColumn(9)'  BY <1>2, <2>4, <2>5 DEF AtColumn, AtRow, Returning
  <2>9. \A l \in 0 .. a - 1 : m[l] = Identity[l]  BY <1>1, <2>6 DEF SameUpTo
  <2>10. m[a] = Identity[a]  BY <1>2, <1>4, <1>6, <2>6
  <2>11. SameUpTo(a + 1)  BY <2>6, <2>9, <2>10 DEF SameUpTo
  <2>12. SameUpTo(At)'  BY <1>0, <2>7, <2>11 DEF SameUpTo, Identity
  <2>13. QED  BY <1>0, <2>4, <2>8, <2>12 DEF IsiState, IsiLabels, ColumnIdentical
<1>7. QED  BY <1>5, <1>6

LEMMA VerdictKeeps ==
  ASSUME Typed, IsiState, ReturnFalse \/ ReturnTrue
  PROVE  Typed' /\ IsiState'
<1>1. PICK label, v :
        /\ \/ label = "return_false" /\ v = 0
           \/ label = "return_true" /\ v = 1
        /\ Step(label, [v0 |-> v], "end_func") /\ m' = m
  BY DEF ReturnFalse, ReturnTrue
<1>2. pc = label  BY <1>1 DEF Step
<1>3. Returning(9) /\ ((v # 0) <=> m = Identity)
  BY <1>1, <1>2 DEF IsiState
<1>4. PICK w : w = [v0 |-> v]  OBVIOUS
<1>5. Updates(w, Own(RowsSave)) /\ DOMAIN w = {"v0"} /\ w.v0 = v
  BY <1>1, <1>4, IsiSaves DEF Updates, Scratch
<1>6. Typed' /\ Returning(9)' /\ Assigned(w, Regs, reg, reg') /\ pc' = "end_func"
  BY <1>1, <1>3, <1>4, <1>5, RowsStep
<1>7. reg'.v0 = v  BY <1>5, <1>6 DEF Assigned
<1>8. Judged'  BY <1>1, <1>3, <1>7 DEF Judged, Identity
<1>9. QED  BY <1>1, <1>6, <1>8 DEF IsiState, IsiLabels

\* Every step of isi.s keeps what holds at its labels.
LEMMA IsiKeeps ==
  ASSUME Typed, IsiState, IsiNext
  PROVE  Typed' /\ IsiState'
BY IsiMainKeeps, IsiAfterShowKeeps, IsiAfterIdentKeeps, ShowKeeps, ShowColumnKeeps,
   IdentKeeps, IdentColumnKeeps, IdentElementKeeps, VerdictKeeps DEF IsiNext

LEMMA IsiBegins == IsiInit => Typed /\ IsiState
<1> SUFFICES ASSUME IsiInit PROVE Typed /\ IsiState  OBVIOUS
<1>1. pc = "main_isi" /\ reg = Entry /\ stack = [a \in Words |-> 0] /\ m \in Matrices
  BY DEF IsiInit, Start
<1>2. Typed  BY <1>1, EntryTyped DEF Typed
<1>3. QED  BY <1>1, <1>2, IsiAsmAssumption DEF IsiState, IsiLabels, AtEntry

-----------------------------------------------------------------------------
(* Factorials, and products of words.                                      *)

LEMMA Induction ==
  ASSUME NEW T, 0 \in T, \A n \in Nat : n \in T => n + 1 \in T
  PROVE  \A n \in Nat : n \in T
<1> SUFFICES ASSUME NEW k \in Nat, k \notin T PROVE FALSE
  OBVIOUS
<1> DEFINE R == OpToRel(<, Nat)
           Out == {n \in Nat : n \notin T}
<1>1. IsWellFoundedOn(R, Nat)  BY NatLessThanWellFounded
<1>2. Out \subseteq Nat /\ Out # {}  OBVIOUS
<1>3. PICK n \in Out : \A l \in Out : ~(<<l, n>> \in R)
  <2> HIDE DEF Out, R
  <2>1. QED  BY <1>1, <1>2, WFMin
<1>4. n \in Nat /\ n \notin T /\ n # 0  BY <1>3
<1>5. n - 1 \in Nat /\ n - 1 < n /\ (n - 1) + 1 = n  BY <1>4
<1>6. n - 1 \in T  BY <1>3, <1>5 DEF OpToRel
<1>7. QED  BY <1>4, <1>5, <1>6

\* The products up to n.
Products(n) == {g \in [0 .. n -> Nat] : g[0] = 1 /\ \A k \in 1 .. n : g[k] = k * g[k - 1]}

LEMMA ProductsExist == \A n \in Nat : Products(n) # {}
<1> DEFINE T == {n \in Nat : Products(n) # {}}
<1>1. 0 \in T
  <2>1. [k \in 0 .. 0 |-> 1] \in Products(0)  BY DEF Products
  <2>2. QED  BY <2>1
<1>2. ASSUME NEW n \in Nat, n \in T PROVE n + 1 \in T
  <2>1. PICK g \in Products(n) : TRUE  BY <1>2
  <2>2. g \in [0 .. n -> Nat] /\ g[0] = 1 /\ \A k \in 1 .. n : g[k] = k * g[k - 1]
    BY <2>1 DEF Products
  <2>3. PICK last \in Nat : last = (n + 1) * g[n]  BY <2>2
  <2> DEFINE h == [k \in 0 .. n + 1 |-> IF k <= n THEN g[k] ELSE last]
  <2>4. h \in [0 .. n + 1 -> Nat] /\ h[0] = 1  BY <2>2, <2>3
  <2>5. ASSUME NEW k \in 1 .. n + 1 PROVE h[k] = k * h[k - 1]
    <3>1. h[k - 1] = g[k - 1]  OBVIOUS
    <3>2. CASE k <= n  BY <2>2, <3>1, <3>2
    <3>3. CASE k = n + 1
      <4>1. h[k] = last /\ k - 1 = n  BY <3>3
      <4>2. QED  BY <2>3, <3>1, <3>3, <4>1
    <3>4. QED  BY <3>2, <3>3
  <2> HIDE DEF h
  <2>6. h \in Products(n + 1)  BY <2>4, <2>5 DEF Products
  <2>7. QED  BY <2>6
<1> HIDE DEF T
<1>3. \A n \in Nat : n \in T  BY <1>1, <1>2, Induction
<1>4. QED  BY <1>3 DEF T

LEMMA ProductsAgree ==
  ASSUME NEW n \in Nat, NEW l \in Nat, NEW g \in Products(n), NEW h \in Products(l)
  PROVE  \A k \in Nat : k <= n /\ k <= l => g[k] = h[k]
<1> DEFINE T == {k \in Nat : k <= n /\ k <= l => g[k] = h[k]}
<1>1. /\ g[0] = 1 /\ \A k \in 1 .. n : g[k] = k * g[k - 1]
      /\ h[0] = 1 /\ \A k \in 1 .. l : h[k] = k * h[k - 1]
  BY DEF Products
<1>2. 0 \in T  BY <1>1
<1>3. ASSUME NEW k \in Nat, k \in T PROVE k + 1 \in T
  <2> SUFFICES ASSUME k + 1 <= n, k + 1 <= l PROVE g[k + 1] = h[k + 1]  OBVIOUS
  <2>1. g[k] = h[k]  BY <1>3
  <2>2. k + 1 \in 1 .. n /\ k + 1 \in 1 .. l /\ (k + 1) - 1 = k  OBVIOUS
  <2>3. QED  BY <1>1, <2>1, <2>2
<1> HIDE DEF T
<1>4. \A k \in Nat : k \in T  BY <1>2, <1>3, Induction
<1>5. QED  BY <1>4 DEF T

LEMMA FactorialFacts ==
  /\ Factorial[0] = 1 /\ \A n \in Nat : Factorial[n] \in Int
  /\ \A n \in Nat : Factorial[n + 1] = (n + 1) * Factorial[n]
<1> DEFINE Is(f) == f = [n \in Nat |-> IF n = 0 THEN 1 ELSE n * f[n - 1]]
           run(n) == CHOOSE g : g \in Products(n)
           f == [n \in Nat |-> run(n)[n]]
<1>1. ASSUME NEW n \in Nat PROVE run(n) \in Products(n)
  BY ProductsExist
<1> HIDE DEF run
<1>2. f[0] = 1  BY <1>1 DEF Products
<1>3. ASSUME NEW n \in Nat \ {0} PROVE f[n] = n * f[n - 1]
  <2>1. run(n)[n] = n * run(n)[n - 1]  BY <1>1 DEF Products
  <2>2. n - 1 \in Nat /\ n - 1 <= n  OBVIOUS
  <2>3. run(n)[n - 1] = run(n - 1)[n - 1]  BY <1>1, <2>2, ProductsAgree
  <2>4. QED  BY <2>1, <2>2, <2>3
<1>4. ASSUME NEW n \in Nat PROVE f[n] = IF n = 0 THEN 1 ELSE n * f[n - 1]
  BY <1>2, <1>3
<1>5. f = [n \in Nat |-> f[n]]  OBVIOUS
<1> HIDE DEF f
<1>6. Is(f)  BY <1>4, <1>5
<1>7. Factorial = CHOOSE g : Is(g)  BY DEF Factorial
<1>8. Is(Factorial)  BY <1>6, <1>7
<1>9. \A n \in Nat : Factorial[n] = IF n = 0 THEN 1 ELSE n * Factorial[n - 1]
  BY <1>8
<1> HIDE DEF Is
<1>10. Factorial[0] = 1  BY <1>9
<1>11. ASSUME NEW n \in Nat PROVE Factorial[n + 1] = (n + 1) * Factorial[n]
  <2>1. n + 1 \in Nat /\ n + 1 # 0 /\ (n + 1) - 1 = n  OBVIOUS
  <2>2. QED  BY <1>9, <2>1
<1> DEFINE T == {n \in Nat : Factorial[n] \in Int}
<1>12. 0 \in T  BY <1>10
<1>13. ASSUME NEW n \in Nat, n \in T PROVE n + 1 \in T
  BY <1>11, <1>13
<1> HIDE DEF T
<1>14. \A n \in Nat : n \in T  BY <1>12, <1>13, Induction
<1>15. QED  BY <1>10, <1>11, <1>14 DEF T

\* A word stands for the numbers that differ from it by multiples of 2^32.
LEMMA WordOf ==
  ASSUME NEW x \in Int, NEW y \in Int, NEW k \in Int, x = y + k * (2 * WordLimit)
  PROVE  AsWord(x) = AsWord(y)
<1>1. PICK M \in Nat \ {0} : M = 2 * WordLimit  BY FacAsmAssumption
<1>2. PICK a \in Int, b \in Int : a = x + WordLimit /\ b = y + WordLimit  BY FacAsmAssumption
<1>3. PICK p \in Int, e \in 0 .. M - 1 : e = a % M /\ a = M * p + e
  <2>1. a \div M \in Int /\ a % M \in 0 .. M - 1 /\ a = M * (a \div M) + (a % M)  OBVIOUS
  <2>2. QED  BY <2>1
<1>4. PICK q \in Int, f \in 0 .. M - 1 : f = b % M /\ b = M * q + f
  <2>1. b \div M \in Int /\ b % M \in 0 .. M - 1 /\ b = M * (b \div M) + (b % M)  OBVIOUS
  <2>2. QED  BY <2>1
<1>5. PICK d \in Int : d = q + k - p  OBVIOUS
<1>6. d * M = e - f
  <2>1. M * p + e = (M * q + f) + k * M  BY <1>1, <1>2, <1>3, <1>4, FacAsmAssumption
  <2>2. d * M = M * q + k * M - M * p  BY <1>5
  <2>3. QED  BY <2>1, <2>2
<1>7. d = 0
  <2>1. ~(d >= 1)
    <3>1. SUFFICES ASSUME d >= 1 PROVE FALSE  OBVIOUS
    <3>2. d * M >= M  BY <3>1
    <3>3. QED  BY <1>6, <3>2
  <2>2. ~(d <= -1)
    <3>1. SUFFICES ASSUME d <= -1 PROVE FALSE  OBVIOUS
    <3>2. d * M <= -M  BY <3>1
    <3>3. QED  BY <1>6, <3>2
  <2>3. QED  BY <2>1, <2>2
<1>8. e = f  BY <1>6, <1>7
<1>9. AsWord(x) = e - WordLimit /\ AsWord(y) = f - WordLimit
  BY <1>1, <1>2, <1>3, <1>4 DEF AsWord
<1>10. QED  BY <1>8, <1>9

LEMMA WordDiffers ==
  ASSUME NEW x \in Int
  PROVE  AsWord(x) \in Int /\ \E k \in Int : AsWord(x) = x + k * (2 * WordLimit)
<1>1. PICK M \in Nat \ {0} : M = 2 * WordLimit  BY FacAsmAssumption
<1>2. PICK a \in Int : a = x + WordLimit  BY FacAsmAssumption
<1>3. a \div M \in Int /\ a % M \in 0 .. M - 1 /\ a = M * (a \div M) + (a % M)  OBVIOUS
<1>4. PICK p \in Int : a = M * p + (a % M)  BY <1>3
<1>5. AsWord(x) = (a % M) - WordLimit  BY <1>1, <1>2 DEF AsWord
<1>6. PICK k \in Int : k = 0 - p  OBVIOUS
<1>7. AsWord(x) = x + k * M
  <2>1. AsWord(x) = x - M * p  BY <1>2, <1>3, <1>4, <1>5, FacAsmAssumption
  <2>2. k * M = 0 - M * p  BY <1>6
  <2>3. M * p \in Int  OBVIOUS
  <2>4. QED  BY <2>1, <2>2, <2>3
<1>8. AsWord(x) \in Int  BY <1>3, <1>5, FacAsmAssumption
<1>9. AsWord(x) = x + k * (2 * WordLimit)  BY <1>1, <1>7
<1>10. QED  BY <1>6, <1>8, <1>9

\* The product of a word of x and y is the word of their product.
LEMMA MulOfWord ==
  ASSUME NEW x \in Int, NEW y \in Int
  PROVE  Mul(AsWord(x), y) = AsWord(x * y)
<1>1. PICK z \in Int, k \in Int : z = AsWord(x) /\ z = x + k * (2 * WordLimit)
  BY WordDiffers
<1>2. PICK M \in Nat : M = 2 * WordLimit  BY FacAsmAssumption
<1>3. z * y = x * y + (k * y) * M
  <2>1. z = x + k * M  BY <1>1, <1>2
  <2>2. (x + k * M) * y = x * y + (k * y) * M  OBVIOUS
  <2>3. QED  BY <2>1, <2>2
<1>4. AsWord(z * y) = AsWord(x * y)
  <2>1. PICK c \in Int, d \in Int, e \in Int : c = z * y /\ d = x * y /\ e = k * y
    OBVIOUS
  <2>2. c = d + e * (2 * WordLimit)  BY <1>2, <1>3, <2>1
  <2>3. QED  BY <2>1, <2>2, WordOf
<1>5. QED  BY <1>1, <1>4 DEF Mul

LEMMA OneIsAWord == AsWord(1) = 1
<1>1. PICK M \in Nat \ {0} : M = 2 * WordLimit  BY FacAsmAssumption
<1>2. 1 + WordLimit \in 0 .. M - 1  BY <1>1, FacAsmAssumption
<1>3. (1 + WordLimit) % M = 1 + WordLimit  BY <1>1, <1>2, FacAsmAssumption
<1>4. QED  BY <1>1, <1>3, FacAsmAssumption DEF AsWord

\* n! in a word, from which a loop or a return takes the next.
Fact(n) == AsWord(Factorial[n])

LEMMA NextFact ==
  /\ Fact(0) = 1
  /\ \A n \in Nat : Fact(n) \in Int /\ Mul(Fact(n), n + 1) = Fact(n + 1)
<1>1. Fact(0) = 1  BY FactorialFacts, OneIsAWord DEF Fact
<1>2. ASSUME NEW n \in Nat
      PROVE  Fact(n) \in Int /\ Mul(Fact(n), n + 1) = Fact(n + 1)
  <2>1. PICK x \in Int : x = Factorial[n]  BY FactorialFacts
  <2>2. Fact(n) \in Int  BY <2>1, WordDiffers DEF Fact
  <2>3. Mul(AsWord(x), n + 1) = AsWord(x * (n + 1))  BY MulOfWord
  <2>4. x * (n + 1) = Factorial[n + 1]  BY <2>1, FactorialFacts
  <2>5. QED  BY <2>1, <2>2, <2>3, <2>4 DEF Fact
<1>3. QED  BY <1>1, <1>2

-----------------------------------------------------------------------------
(* week04/fac1.s and week04/fac2.s, and what week05/fac3.s has in common   *)
(* with them.                                                              *)

\* The number whose factorial is printed.
Limit == IF input > 0 THEN input ELSE 0

Fac1Saves == SavedFac("main1")
Fac2Saves == SavedFac("fac2")
\* Those of the mains that only call, and of the recursive function.
CallsSave == SavedFac("main2")

LEMMA FacSaves ==
  /\ Fac1Saves = <<"fp", "ra", "s0", "s1", "s2">> /\ Fac2Saves = <<"fp", "ra", "s0", "s1">>
  /\ CallsSave = <<"fp", "ra", "s0">>
  /\ SavedFac("main3") = CallsSave /\ SavedFac("fac3") = CallsSave
  /\ Saves(Fac1Saves) /\ Len(Fac1Saves) = 5 /\ Saves(Fac2Saves) /\ Len(Fac2Saves) = 4
  /\ Saves(CallsSave) /\ Len(CallsSave) = 3
  /\ Own(Fac1Saves) = Scratch \cup {"ra", "s0", "s1", "s2"}
  /\ Own(Fac2Saves) = Scratch \cup {"ra", "s0", "s1"}
  /\ Own(CallsSave) = Scratch \cup {"ra", "s0"}
  /\ Named(CallsSave) = {"fp", "ra", "s0"}
<1>1. /\ Fac1Saves = <<"fp", "ra", "s0", "s1", "s2">> /\ Fac2Saves = <<"fp", "ra", "s0", "s1">>
      /\ CallsSave = <<"fp", "ra", "s0">>
      /\ SavedFac("main3") = CallsSave /\ SavedFac("fac3") = CallsSave
  BY DEF Fac1Saves, Fac2Saves, CallsSave, SavedFac
<1>2. Saves(Fac1Saves) /\ Len(Fac1Saves) = 5  BY <1>1 DEF Saves, Preserved, SRegs
<1>3. Saves(Fac2Saves) /\ Len(Fac2Saves) = 4  BY <1>1 DEF Saves, Preserved, SRegs
<1>4. Saves(CallsSave) /\ Len(CallsSave) = 3  BY <1>1 DEF Saves, Preserved, SRegs
<1>5. DOMAIN Fac1Saves = 1 .. 5 /\ DOMAIN Fac2Saves = 1 .. 4 /\ DOMAIN CallsSave = 1 .. 3
  BY <1>1
<1>6. Named(Fac1Saves) = {"fp", "ra", "s0", "s1", "s2"}  BY <1>1, <1>5 DEF Named
<1>7. Named(Fac2Saves) = {"fp", "ra", "s0", "s1"}  BY <1>1, <1>5 DEF Named
<1>8. Named(CallsSave) = {"fp", "ra", "s0"}  BY <1>1, <1>5 DEF Named
<1>9. QED  BY <1>1, <1>2, <1>3, <1>4, <1>6, <1>7, <1>8 DEF Own, Scratch

LEMMA FacRoom ==
  /\ Saves(Fac1Saves) /\ Len(Fac1Saves) <= MaxWords
  /\ Saves(Fac2Saves) /\ Saves(CallsSave) /\ Len(CallsSave) <= MaxWords
  /\ Len(CallsSave) + Len(Fac2Saves) <= MaxWords
BY FacSaves, AsmAssumption, MipsAssumption

\* The loops of fac1 and fac2, with the counter and the product now.
Multiplying(counter, product) ==
  counter \in 1 .. Limit + 1 /\ product = Fact(counter - 1)

LEMMA LoopGoesOn ==
  ASSUME input \in -1 .. MaxN, NEW c, NEW p, Multiplying(c, p)
  PROVE  /\ c \in Int /\ p \in Int
         /\ c > input => p = Fact(Limit)
         /\ c <= input => /\ Multiplying(c + 1, Mul(p, c))
                          /\ Mul(p, c) \in Int
<1>1. input \in Int /\ Limit \in Nat  BY FacAsmAssumption DEF Limit
<1>2. c \in 1 .. Limit + 1 /\ p = Fact(c - 1)  BY DEF Multiplying
<1>3. PICK b \in Nat : c = b + 1  BY <1>1, <1>2
<1>4. c - 1 = b /\ (c + 1) - 1 = b + 1  BY <1>3
<1>5. p = Fact(b) /\ p \in Int  BY <1>2, <1>4, NextFact
<1>6. Mul(p, c) = Fact(c)  BY <1>3, <1>5, NextFact
<1>7. Mul(p, c) \in Int  BY <1>1, <1>2, <1>6, NextFact
<1>8. ASSUME c > input PROVE p = Fact(Limit)
  <2>1. b = Limit  BY <1>1, <1>2, <1>3, <1>8 DEF Limit
  <2>2. QED  BY <1>5, <2>1
<1>9. ASSUME c <= input PROVE Multiplying(c + 1, Mul(p, c))
  <2>1. c + 1 \in 1 .. Limit + 1  BY <1>1, <1>2, <1>9 DEF Limit
  <2>2. (c + 1) - 1 = c  BY <1>2
  <2>3. QED  BY <1>6, <2>1, <2>2 DEF Multiplying
<1>10. QED  BY <1>2, <1>5, <1>7, <1>8, <1>9

LEMMA LoopBegins ==
  ASSUME input \in -1 .. MaxN
  PROVE  Multiplying(1, 1)
<1>1. Limit \in Nat  BY FacAsmAssumption DEF Limit
<1>2. 1 \in 1 .. Limit + 1  BY <1>1
<1>3. QED  BY <1>2, NextFact DEF Multiplying

LEMMA PrintsAndReturns ==
  ASSUME Typed, NEW f, NEW saves, saves = SavedFac(f), Saves(saves), Len(saves) <= MaxWords,
         InMain(saves, reg), NEW answer, answer = Fact(Limit),
         NEW u, Updates(u, Scratch), PrintAndReturn(f, answer, u)
  PROVE  Typed' /\ Home' /\ FacRight' /\ pc' = "caller" /\ UNCHANGED <<program, input>>
<1> DEFINE last == [a0 |-> 0, v0 |-> 0]
<1>1. printed' = <<answer>> /\ Leave(saves, reg.fp, u @@ last)
  BY DEF PrintAndReturn, ReturnFac
<1>2. Updates(u @@ last, Scratch)
  <2>1. DOMAIN last = {"a0", "v0"} /\ last.a0 = 0 /\ last.v0 = 0  OBVIOUS
  <2> HIDE DEF last
  <2>2. u @@ last = [x \in DOMAIN u \cup DOMAIN last |->
                      IF x \in DOMAIN u THEN u[x] ELSE last[x]]
    BY DEF @@
  <2>3. DOMAIN (u @@ last) \subseteq Scratch  BY <2>1, <2>2 DEF Updates, Scratch
  <2>4. \A x \in DOMAIN u \cup DOMAIN last :
          (IF x \in DOMAIN u THEN u[x] ELSE last[x]) \in Int
    BY <2>1 DEF Updates
  <2>5. u @@ last \in [DOMAIN (u @@ last) -> Int]
    BY <2>2, <2>4
  <2>6. QED  BY <2>3, <2>5 DEF Updates
<1>3. reg.fp = -4  BY EntryTyped DEF InMain, Within
<1>4. PICK w, base : w = u @@ last /\ base = reg.fp  OBVIOUS
<1> HIDE DEF last
<1>5. Updates(w, Scratch) /\ Leave(saves, base, w) /\ base = -4  BY <1>1, <1>2, <1>3, <1>4
<1>6. Typed' /\ Home' /\ pc' = "caller" /\ UNCHANGED <<program, input, stack>>
  BY <1>5, MainLeft
<1>7. FacRight'  BY <1>1, <1>6 DEF FacRight, Fact, Limit
<1>8. QED  BY <1>6, <1>7

Loop1 == InMain(Fac1Saves, reg) /\ reg.v0 = input /\ Multiplying(reg.s1, reg.s2)
Ready1 == InMain(Fac1Saves, reg) /\ reg.s2 = Fact(Limit)

InFac2 == \E r : Called(CallsSave, Fac2Saves, 5, r)
Asked2 == InMain(CallsSave, reg) /\ reg.ra = 5 /\ reg.a0 = input
Loop2 == InFac2 /\ reg.a0 = input /\ Multiplying(reg.s0, reg.s1)
Ready2 == InFac2 /\ reg.s1 = Fact(Limit)
Answered == InMain(CallsSave, reg) /\ reg.v0 = Fact(Limit)

\* fac3's own calls: what the registers that matter are when it is called for
\* the d-th time within itself (the first time, for 0, by main), with n being
\* what is given less d.
CallRegs(d) ==
  [x \in Regs |->
     CASE x = "sp" -> 0 - 12 * (d + 1)
       [] x = "fp" -> 0 - 12 * d - 4
       [] x = "ra" -> IF d = 0 THEN 6 ELSE 7
       [] x = "s0" -> IF d = 0 THEN input ELSE input - (d - 1)
       [] OTHER    -> Entry[x]]

\* How often it calls itself.
Depth == IF input > 1 THEN input - 1 ELSE 0

\* The frames of main and of the first d of these calls.
Stacked(d) ==
  /\ Frame(CallsSave, Entry)
  /\ \A k \in 0 .. d - 1 : Frame(CallsSave, CallRegs(k))

\* Just called for the d-th time, just come back from there, and in that call.
AtCall(d) == d \in 0 .. Depth /\ Stacked(d) /\ \A x \in Preserved : reg[x] = CallRegs(d)[x]
InCall(d) == d \in 0 .. Depth /\ Stacked(d + 1) /\ Within(CallsSave, CallRegs(d), reg)

Still(d) == IF input - d > 0 THEN input - d ELSE 0
Asked3 == \E d \in Nat : AtCall(d) /\ reg.a0 = input - d
Asking3 == \E d \in Nat : InCall(d) /\ reg.a0 = input - d
Back3 == \E d \in Nat : d > 0 /\ AtCall(d) /\ reg.v0 = Fact(Still(d))
Ready3 == \E d \in Nat : InCall(d) /\ reg.v0 = Fact(Still(d))

FacDone == Home /\ FacRight

FacLabels == {"main1", "for1", "end_for1",
              "main2", "fac2", "for2", "end_for2", "after_fac2",
              "main3", "fac3", "if3", "after_recursion", "return3", "after_fac3", "caller"}

FacState ==
  /\ input \in -1 .. MaxN /\ pc \in FacLabels
  /\ pc \in {"main1", "main2", "main3"} => AtEntry
  /\ pc = "for1" => Loop1
  /\ pc = "end_for1" => Ready1
  /\ pc = "fac2" => Asked2
  /\ pc = "for2" => Loop2
  /\ pc = "end_for2" => Ready2
  /\ pc \in {"after_fac2", "after_fac3"} => Answered
  /\ pc = "fac3" => Asked3
  /\ pc = "if3" => Asking3
  /\ pc = "after_recursion" => Back3
  /\ pc = "return3" => Ready3
  /\ pc = "caller" => FacDone

\* The loop of fac1.
LEMMA Fac1Keeps ==
  ASSUME Typed, FacState, Main1 \/ For1 \/ EndFor1
  PROVE  Typed' /\ FacState'
<1>0. input \in -1 .. MaxN /\ input \in Int  BY FacAsmAssumption DEF FacState
<1>1. CASE Main1
  <2> DEFINE u == [s0 |-> 0, a0 |-> 0, v0 |-> input, s2 |-> 1, s1 |-> 1]
  <2>1. Enter("main1", Fac1Saves, 4 * Len(Fac1Saves), "for1", u)
    BY <1>1 DEF Main1, CallFac, Fac1Saves
  <2>2. AtEntry  BY <2>1 DEF FacState, Enter
  <2>3. Updates(u, Own(Fac1Saves))  BY <1>0, FacSaves DEF Updates, Scratch
  <2>4. PICK w : w = u  OBVIOUS
  <2>5. /\ Typed' /\ InMain(Fac1Saves, reg)' /\ Assigned(w, Regs \ {"fp", "sp"}, reg, reg')
        /\ pc' = "for1" /\ input' = input
    BY <2>1, <2>2, <2>3, <2>4, FacRoom, MainEntered
  <2>6. reg'.v0 = input /\ reg'.s1 = 1 /\ reg'.s2 = 1  BY <2>4, <2>5 DEF Assigned
  <2>7. Multiplying(1, 1)'  BY <1>0, <2>5, LoopBegins DEF Multiplying, Limit, Fact
  <2>8. Loop1'  BY <2>5, <2>6, <2>7 DEF Loop1
  <2>9. QED  BY <1>0, <2>5, <2>8 DEF FacState, FacLabels
<1>2. CASE For1
  <2>1. LoopHead("for1", reg.s1, reg.v0, "for1",
                 [s2 |-> Mul(reg.s2, reg.s1), s1 |-> reg.s1 + 1], "end_for1")
    BY <1>2 DEF For1
  <2>2. pc = "for1"  BY <2>1 DEF LoopHead, Step
  <2>3. InMain(Fac1Saves, reg) /\ reg.v0 = input /\ Multiplying(reg.s1, reg.s2)
    BY <2>2 DEF FacState, Loop1
  <2>4. PICK c, p : c = reg.s1 /\ p = reg.s2  OBVIOUS
  <2>5. Multiplying(c, p)  BY <2>3, <2>4
  <2>6. c \in Int /\ p \in Int  BY <1>0, <2>5, LoopGoesOn
  <2>7. CASE c > input
    <3>1. Step("for1", <<>>, "end_for1")  BY <2>1, <2>3, <2>4, <2>7 DEF LoopHead
    <3>2. PICK w : w = <<>>  OBVIOUS
    <3>3. Updates(w, Own(Fac1Saves)) /\ DOMAIN w = {}  BY <3>2 DEF Updates
    <3>4. /\ Typed' /\ InMain(Fac1Saves, reg)' /\ Assigned(w, Regs, reg, reg')
          /\ pc' = "end_for1" /\ input' = input
      BY <2>3, <3>1, <3>2, <3>3, FacRoom, MainStep
    <3>5. reg'.s2 = p  BY <2>4, <3>3, <3>4 DEF Assigned, Regs, Preserved, SRegs
    <3>6. p = Fact(Limit)  BY <1>0, <2>5, <2>7, LoopGoesOn
    <3>7. Ready1'  BY <3>4, <3>5, <3>6 DEF Ready1, Limit, Fact
    <3>8. QED  BY <1>0, <3>4, <3>7 DEF FacState, FacLabels
  <2>8. CASE c <= input
    <3> DEFINE u == [s2 |-> Mul(p, c), s1 |-> c + 1]
    <3>1. Step("for1", u, "for1")  BY <1>0, <2>1, <2>3, <2>4, <2>6, <2>8 DEF LoopHead
    <3>2. Multiplying(c + 1, Mul(p, c)) /\ Mul(p, c) \in Int
      BY <1>0, <2>5, <2>8, LoopGoesOn
    <3>3. Updates(u, Own(Fac1Saves))  BY <2>6, <3>2, FacSaves DEF Updates, Scratch
    <3>4. PICK w : w = u  OBVIOUS
    <3>5. /\ Typed' /\ InMain(Fac1Saves, reg)' /\ Assigned(w, Regs, reg, reg')
          /\ pc' = "for1" /\ input' = input
      BY <2>3, <3>1, <3>3, <3>4, FacRoom, MainStep
    <3>6. reg'.s2 = Mul(p, c) /\ reg'.s1 = c + 1 /\ reg'.v0 = input
      BY <2>3, <3>4, <3>5 DEF Assigned, Regs, Scratch
    <3>7. Multiplying(reg.s1, reg.s2)'
      BY <3>2, <3>5, <3>6 DEF Multiplying, Limit, Fact
    <3>8. Loop1'  BY <3>5, <3>6, <3>7 DEF Loop1
    <3>9. QED  BY <1>0, <3>5, <3>8 DEF FacState, FacLabels
  <2>9. QED  BY <1>0, <2>6, <2>7, <2>8
<1>3. CASE EndFor1
  <2>1. pc = "end_for1" /\ PrintAndReturn("main1", reg.s2, <<>>)  BY <1>3 DEF EndFor1
  <2>2. InMain(Fac1Saves, reg) /\ reg.s2 = Fact(Limit)  BY <2>1 DEF FacState, Ready1
  <2>3. PICK w : w = <<>>  OBVIOUS
  <2>4. Updates(w, Scratch)  BY <2>3 DEF Updates
  <2>5. Fac1Saves = SavedFac("main1")  BY DEF Fac1Saves
  <2>6. Typed' /\ Home' /\ FacRight' /\ pc' = "caller" /\ input' = input
    BY <2>1, <2>2, <2>3, <2>4, <2>5, FacRoom, PrintsAndReturns
  <2>7. QED  BY <1>0, <2>6 DEF FacState, FacLabels, FacDone
<1>4. QED  BY <1>1, <1>2, <1>3

\* A call and the loop of fac2.
LEMMA Fac2Keeps ==
  ASSUME Typed, FacState, Main2 \/ Fac2 \/ For2 \/ EndFor2 \/ AfterFac2
  PROVE  Typed' /\ FacState'
<1>0. input \in -1 .. MaxN /\ input \in Int  BY FacAsmAssumption DEF FacState
<1>1. CASE Main2
  <2> DEFINE u == [s0 |-> 0, v0 |-> input, a0 |-> input, ra |-> 5]
  <2>1. Enter("main2", CallsSave, 4 * Len(CallsSave), "fac2", u)
    BY <1>1 DEF Main2, CallFac, CallsSave
  <2>2. AtEntry  BY <2>1 DEF FacState, Enter
  <2>3. Updates(u, Own(CallsSave))  BY <1>0, FacSaves DEF Updates, Scratch
  <2>4. PICK w : w = u  OBVIOUS
  <2>5. /\ Typed' /\ InMain(CallsSave, reg)' /\ Assigned(w, Regs \ {"fp", "sp"}, reg, reg')
        /\ pc' = "fac2" /\ input' = input
    BY <2>1, <2>2, <2>3, <2>4, FacRoom, MainEntered
  <2>6. reg'.ra = 5 /\ reg'.a0 = input  BY <2>4, <2>5 DEF Assigned
  <2>7. Asked2'  BY <2>5, <2>6 DEF Asked2
  <2>8. QED  BY <1>0, <2>5, <2>7 DEF FacState, FacLabels
<1>2. CASE Fac2
  <2> DEFINE u == [s1 |-> 1, s0 |-> 1]
  <2>1. Enter("fac2", Fac2Saves, 4 * Len(Fac2Saves), "for2", u)
    BY <1>2 DEF Fac2, CallFac, Fac2Saves
  <2>2. InMain(CallsSave, reg) /\ reg.ra = 5 /\ reg.a0 = input
    BY <2>1 DEF FacState, Enter, Asked2
  <2>3. Updates(u, Own(Fac2Saves) \ {"ra"})  BY FacSaves DEF Updates, Scratch
  <2>4. PICK w : w = u  OBVIOUS
  <2>5. PICK r : r = reg  OBVIOUS
  <2>6. /\ Typed' /\ Called(CallsSave, Fac2Saves, r.ra, r)'
        /\ Assigned(w, Regs \ {"fp", "sp"}, reg, reg')
        /\ pc' = "for2" /\ input' = input
    BY <2>1, <2>2, <2>3, <2>4, <2>5, FacRoom, CallEntered
  <2>7. reg'.a0 = input /\ reg'.s0 = 1 /\ reg'.s1 = 1
    BY <2>2, <2>4, <2>6 DEF Assigned, Regs, Scratch
  <2>8. Multiplying(1, 1)'  BY <1>0, <2>6, LoopBegins DEF Multiplying, Limit, Fact
  <2>9. InFac2'  BY <2>2, <2>5, <2>6 DEF InFac2
  <2>10. Loop2'  BY <2>6, <2>7, <2>8, <2>9 DEF Loop2
  <2>11. QED  BY <1>0, <2>6, <2>10 DEF FacState, FacLabels
<1>3. CASE For2
  <2>1. LoopHead("for2", reg.s0, reg.a0, "for2",
                 [s1 |-> Mul(reg.s1, reg.s0), s0 |-> reg.s0 + 1], "end_for2")
    BY <1>3 DEF For2
  <2>2. pc = "for2"  BY <2>1 DEF LoopHead, Step
  <2>3. PICK r : Called(CallsSave, Fac2Saves, 5, r)
    BY <2>2 DEF FacState, Loop2, InFac2
  <2>4. reg.a0 = input /\ Multiplying(reg.s0, reg.s1)
    BY <2>2 DEF FacState, Loop2
  <2>5. PICK c, p : c = reg.s0 /\ p = reg.s1  OBVIOUS
  <2>6. Multiplying(c, p)  BY <2>4, <2>5
  <2>7. c \in Int /\ p \in Int  BY <1>0, <2>6, LoopGoesOn
  <2>8. CASE c > input
    <3>1. Step("for2", <<>>, "end_for2")  BY <2>1, <2>4, <2>5, <2>8 DEF LoopHead
    <3>2. PICK w : w = <<>>  OBVIOUS
    <3>3. Updates(w, Own(Fac2Saves)) /\ DOMAIN w = {}  BY <3>2 DEF Updates
    <3>4. /\ Typed' /\ Called(CallsSave, Fac2Saves, 5, r)' /\ Assigned(w, Regs, reg, reg')
          /\ pc' = "end_for2" /\ input' = input
      BY <2>3, <3>1, <3>2, <3>3, FacRoom, BodyStep
    <3>5. reg'.s1 = p  BY <2>5, <3>3, <3>4 DEF Assigned, Regs, Preserved, SRegs
    <3>6. p = Fact(Limit)  BY <1>0, <2>6, <2>8, LoopGoesOn
    <3>7. InFac2'  BY <3>4 DEF InFac2
    <3>8. Ready2'  BY <3>4, <3>5, <3>6, <3>7 DEF Ready2, Limit, Fact
    <3>9. QED  BY <1>0, <3>4, <3>8 DEF FacState, FacLabels
  <2>9. CASE c <= input
    <3> DEFINE u == [s1 |-> Mul(p, c), s0 |-> c + 1]
    <3>1. Step("for2", u, "for2")  BY <1>0, <2>1, <2>4, <2>5, <2>7, <2>9 DEF LoopHead
    <3>2. Multiplying(c + 1, Mul(p, c)) /\ Mul(p, c) \in Int
      BY <1>0, <2>6, <2>9, LoopGoesOn
    <3>3. Updates(u, Own(Fac2Saves))  BY <2>7, <3>2, FacSaves DEF Updates, Scratch
    <3>4. PICK w : w = u  OBVIOUS
    <3>5. /\ Typed' /\ Called(CallsSave, Fac2Saves, 5, r)' /\ Assigned(w, Regs, reg, reg')
          /\ pc' = "for2" /\ input' = input
      BY <2>3, <3>1, <3>3, <3>4, FacRoom, BodyStep
    <3>6. reg'.s1 = Mul(p, c) /\ reg'.s0 = c + 1 /\ reg'.a0 = input
      BY <2>4, <3>4, <3>5 DEF Assigned, Regs, Scratch
    <3>7. Multiplying(reg.s0, reg.s1)'
      BY <3>2, <3>5, <3>6 DEF Multiplying, Limit, Fact
    <3>8. InFac2'  BY <3>5 DEF InFac2
    <3>9. Loop2'  BY <3>5, <3>6, <3>7, <3>8 DEF Loop2
    <3>10. QED  BY <1>0, <3>5, <3>9 DEF FacState, FacLabels
  <2>10. QED  BY <1>0, <2>7, <2>8, <2>9
<1>4. CASE EndFor2
  <2>1. pc = "end_for2" /\ Leave(Fac2Saves, reg.fp, [v0 |-> reg.s1])
    BY <1>4 DEF EndFor2, ReturnFac, Fac2Saves
  <2>2. PICK r : Called(CallsSave, Fac2Saves, 5, r)
    BY <2>1 DEF FacState, Ready2, InFac2
  <2>3. reg.s1 = Fact(Limit)  BY <2>1 DEF FacState, Ready2
  <2>4. PICK w, b : w = [v0 |-> reg.s1] /\ b = reg.fp  OBVIOUS
  <2>5. DOMAIN w = {"v0"} /\ w.v0 = reg.s1 /\ Updates(w, Scratch)
    <3>1. reg.s1 \in Int  BY DEF Typed, Regs, Preserved, SRegs
    <3>2. QED  BY <2>4, <3>1 DEF Updates, Scratch
  <2>6. Leave(Fac2Saves, b, w)  BY <2>1, <2>4
  <2>7. /\ Typed' /\ InMain(CallsSave, reg)' /\ Assigned(w, Scratch, reg, reg')
        /\ pc' = ReturnTo[5] /\ input' = input
    BY <2>2, <2>4, <2>5, <2>6, FacRoom, CallLeft
  <2>8. reg'.v0 = reg.s1  BY <2>5, <2>7 DEF Assigned
  <2>9. pc' = "after_fac2"  BY <2>7 DEF ReturnTo
  <2>10. Answered'  BY <2>3, <2>7, <2>8 DEF Answered, Limit, Fact
  <2>11. QED  BY <1>0, <2>7, <2>9, <2>10 DEF FacState, FacLabels
<1>5. CASE AfterFac2
  <2>1. pc = "after_fac2" /\ PrintAndReturn("main2", reg.v0, [t0 |-> reg.v0])
    BY <1>5 DEF AfterFac2
  <2>2. InMain(CallsSave, reg) /\ reg.v0 = Fact(Limit)  BY <2>1 DEF FacState, Answered
  <2>3. PICK w : w = [t0 |-> reg.v0]  OBVIOUS
  <2>4. Updates(w, Scratch)
    <3>1. reg.v0 \in Int  BY DEF Typed, Regs, Scratch
    <3>2. QED  BY <2>3, <3>1 DEF Updates, Scratch
  <2>5. CallsSave = SavedFac("main2")  BY DEF CallsSave
  <2>6. Typed' /\ Home' /\ FacRight' /\ pc' = "caller" /\ input' = input
    BY <2>1, <2>2, <2>3, <2>4, <2>5, FacRoom, PrintsAndReturns
  <2>7. QED  BY <1>0, <2>6 DEF FacState, FacLabels, FacDone
<1>6. QED  BY <1>1, <1>2, <1>3, <1>4, <1>5

-----------------------------------------------------------------------------
(* week05/fac3.s.                                                          *)

LEMMA CallRegsFacts ==
  ASSUME input \in Int, NEW d \in Nat
  PROVE  /\ CallRegs(d) \in [Regs -> Int] /\ Used(CallRegs(d), 3 * (d + 1))
         /\ CallRegs(d).sp = 0 - 12 * (d + 1) /\ CallRegs(d).fp = 0 - 12 * d - 4
         /\ CallRegs(d).ra = (IF d = 0 THEN 6 ELSE 7)
         /\ CallRegs(d).s0 = (IF d = 0 THEN input ELSE input - (d - 1))
         /\ \A x \in SRegs \ {"s0"} : CallRegs(d)[x] = Entry[x]
<1>1. \A x \in Regs : CallRegs(d)[x] \in Int
  BY EntryTyped DEF CallRegs
<1>2. CallRegs(d) \in [Regs -> Int]  BY <1>1 DEF CallRegs
<1>3. /\ CallRegs(d).sp = 0 - 12 * (d + 1) /\ CallRegs(d).fp = 0 - 12 * d - 4
      /\ CallRegs(d).ra = (IF d = 0 THEN 6 ELSE 7)
      /\ CallRegs(d).s0 = (IF d = 0 THEN input ELSE input - (d - 1))
  BY DEF CallRegs, Regs, Preserved, SRegs
<1>4. \A x \in SRegs \ {"s0"} : CallRegs(d)[x] = Entry[x]
  BY DEF CallRegs, Regs, Preserved, SRegs
<1>5. Used(CallRegs(d), 3 * (d + 1))
  <2>1. 0 - 4 * (3 * (d + 1)) = 0 - 12 * (d + 1)  OBVIOUS
  <2>2. QED  BY <1>3, <2>1 DEF Used
<1>6. QED  BY <1>2, <1>3, <1>4, <1>5

\* A further call leaves the frames alone that there are.
LEMMA StackedStays ==
  ASSUME input \in Int, input' = input, NEW d \in Nat, Stacked(d), Untouched(3 * (d + 1))
  PROVE  Stacked(d)'
<1>1. /\ Len(CallsSave) = 3 /\ DOMAIN CallsSave = 1 .. 3 /\ Entry.sp = 0
  BY FacSaves, EntryTyped DEF Saves
<1>2. ASSUME NEW j \in 1 .. 3 * (d + 1) PROVE stack'[-4 * j] = stack[-4 * j]
  BY DEF Untouched
<1>3. Frame(CallsSave, Entry)'
  <2>1. \A k \in 1 .. 3 : k \in 1 .. 3 * (d + 1) /\ 0 - 4 * k = -4 * k  OBVIOUS
  <2>2. \A k \in 1 .. 3 : stack'[0 - 4 * k] = stack[0 - 4 * k]  BY <1>2, <2>1
  <2>3. QED  BY <1>1, <2>2 DEF Stacked, Frame
<1>4. ASSUME NEW k \in 0 .. d - 1 PROVE Frame(CallsSave, CallRegs(k))'
  <2>1. PICK r : r = CallRegs(k)  OBVIOUS
  <2>2. r.sp = 0 - 12 * (k + 1)  BY <2>1, CallRegsFacts
  <2>3. ASSUME NEW i \in 1 .. 3 PROVE stack'[r.sp - 4 * i] = stack[r.sp - 4 * i]
    <3>1. PICK j \in 1 .. 3 * (d + 1) : j = 3 * (k + 1) + i  OBVIOUS
    <3>2. r.sp - 4 * i = -4 * j  BY <2>2, <3>1
    <3>3. QED  BY <1>2, <3>2
  <2>4. Frame(CallsSave, r)  BY <2>1 DEF Stacked
  <2>5. Frame(CallsSave, r)'  BY <1>1, <2>3, <2>4 DEF Frame
  <2>6. r = CallRegs(k)'  BY <2>1 DEF CallRegs
  <2>7. QED  BY <2>5, <2>6
<1>5. QED  BY <1>3, <1>4 DEF Stacked

LEMMA StackedSame ==
  ASSUME input' = input, stack' = stack, NEW d \in Nat, Stacked(d)
  PROVE  Stacked(d)'
<1>1. Frame(CallsSave, Entry)'  BY DEF Stacked, Frame
<1>2. ASSUME NEW k \in 0 .. d - 1 PROVE Frame(CallsSave, CallRegs(k))'
  BY DEF Stacked, Frame, CallRegs
<1>3. QED  BY <1>1, <1>2 DEF Stacked

\* Two states of the registers in which those preserved are the same make the
\* same frame.
LEMMA SameFrame ==
  ASSUME NEW saved, Saves(saved), NEW r, NEW q, \A x \in Preserved : r[x] = q[x]
  PROVE  /\ Frame(saved, r) <=> Frame(saved, q)
         /\ Frame(saved, r)' <=> Frame(saved, q)'
         /\ \A now : Within(saved, r, now) <=> Within(saved, q, now)
<1>1. /\ \A k \in DOMAIN saved : saved[k] \in Preserved
      /\ "sp" \in Preserved /\ SRegs \subseteq Preserved
  BY DEF Saves, Preserved
<1>2. r.sp = q.sp /\ \A k \in DOMAIN saved : r[saved[k]] = q[saved[k]]
  BY <1>1
<1>3. (Frame(saved, r) <=> Frame(saved, q)) /\ (Frame(saved, r)' <=> Frame(saved, q)')
  BY <1>2 DEF Frame
<1>4. \A now : Within(saved, r, now) <=> Within(saved, q, now)
  BY <1>1, <1>2 DEF Within
<1>5. QED  BY <1>3, <1>4

LEMMA Main3Keeps ==
  ASSUME Typed, FacState, Main3
  PROVE  Typed' /\ FacState'
<1> DEFINE u == [v0 |-> input, s0 |-> input, a0 |-> input, ra |-> 6]
<1>0. input \in -1 .. MaxN /\ input \in Int  BY FacAsmAssumption DEF FacState
<1>1. Enter("main3", CallsSave, 4 * Len(CallsSave), "fac3", u)
  BY FacSaves DEF Main3, CallFac
<1>2. AtEntry  BY <1>1 DEF FacState, Enter
<1>3. Updates(u, Own(CallsSave))  BY <1>0, FacSaves DEF Updates, Scratch
<1>4. PICK w : w = u  OBVIOUS
<1>5. /\ Typed' /\ InMain(CallsSave, reg)' /\ Assigned(w, Regs \ {"fp", "sp"}, reg, reg')
      /\ pc' = "fac3" /\ input' = input
  BY <1>1, <1>2, <1>3, <1>4, FacRoom, MainEntered
<1>6. reg'.ra = 6 /\ reg'.a0 = input /\ reg'.s0 = input  BY <1>4, <1>5 DEF Assigned
<1>7. reg'.fp = -4 /\ reg'.sp = -12 /\ \A x \in SRegs \ {"s0"} : reg'[x] = Entry[x]
  BY <1>5, FacSaves, EntryTyped DEF InMain, Within, SRegs
<1>8. \A x \in Preserved : reg'[x] = CallRegs(0)[x]
  <2>1. /\ CallRegs(0).sp = -12 /\ CallRegs(0).fp = -4
        /\ CallRegs(0).ra = 6 /\ CallRegs(0).s0 = input
        /\ \A x \in SRegs \ {"s0"} : CallRegs(0)[x] = Entry[x]
    BY <1>0, CallRegsFacts
  <2>2. QED  BY <1>6, <1>7, <2>1 DEF Preserved
<1>9. AtCall(0)'
  <2>1. Stacked(0)'  BY <1>5 DEF InMain, Stacked
  <2>2. Depth' = Depth /\ 0 \in 0 .. Depth  BY <1>0, <1>5 DEF Depth
  <2>3. \A x : CallRegs(0)'[x] = CallRegs(0)[x]  BY <1>5 DEF CallRegs
  <2>4. QED  BY <1>8, <2>1, <2>2, <2>3 DEF AtCall
<1>10. Asked3'  BY <1>0, <1>5, <1>6, <1>9 DEF Asked3
<1>11. QED  BY <1>0, <1>5, <1>10 DEF FacState, FacLabels

LEMMA Fac3Keeps ==
  ASSUME Typed, FacState, Fac3
  PROVE  Typed' /\ FacState'
<1>0. input \in -1 .. MaxN /\ input \in Int  BY FacAsmAssumption DEF FacState
<1>1. Enter("fac3", CallsSave, 4 * Len(CallsSave), "if3", <<>>)
  BY FacSaves DEF Fac3, CallFac
<1>2. Asked3  BY <1>1 DEF FacState, Enter
<1>3. PICK d \in Nat : AtCall(d) /\ reg.a0 = input - d  BY <1>2 DEF Asked3
<1>4. d \in 0 .. Depth /\ Stacked(d) /\ \A x \in Preserved : reg[x] = CallRegs(d)[x]
  BY <1>3 DEF AtCall
<1>5. PICK w \in Nat : w = 3 * (d + 1)  OBVIOUS
<1>6. Used(reg, w)
  <2>1. reg.sp = CallRegs(d).sp  BY <1>4 DEF Preserved
  <2>2. Used(CallRegs(d), w)  BY <1>0, <1>5, CallRegsFacts
  <2>3. QED  BY <2>1, <2>2 DEF Used
<1>7. w + Len(CallsSave) <= MaxWords
  <2>1. Len(CallsSave) = 3  BY FacSaves
  <2>2. d = 0 \/ d <= MaxN - 1  BY <1>0, <1>4, FacAsmAssumption DEF Depth
  <2>3. QED  BY <1>5, <2>1, <2>2, AsmAssumption, MipsAssumption, FacAsmAssumption
<1>8. PICK u, r : u = <<>> /\ r = reg  OBVIOUS
<1>9. Updates(u, Own(CallsSave)) /\ DOMAIN u = {}  BY <1>8 DEF Updates
<1>10. /\ Typed' /\ Untouched(w) /\ Frame(CallsSave, r)' /\ Within(CallsSave, r, reg')
       /\ Assigned(u, Regs \ {"fp", "sp"}, reg, reg')
       /\ pc' = "if3" /\ input' = input
  BY <1>1, <1>6, <1>7, <1>8, <1>9, FacRoom, Entered
<1>11. PICK q : q = CallRegs(d)  OBVIOUS
<1>12. \A x \in Preserved : r[x] = q[x]  BY <1>4, <1>8, <1>11
<1>13. Frame(CallsSave, q)' /\ Within(CallsSave, q, reg')
  BY <1>10, <1>12, FacRoom, SameFrame
<1>14. q = CallRegs(d)'  BY <1>10, <1>11 DEF CallRegs
<1>15. Stacked(d)'  BY <1>0, <1>4, <1>5, <1>10, StackedStays
<1>16. Stacked(d + 1)'
  <2>1. Frame(CallsSave, CallRegs(d))'  BY <1>13, <1>14
  <2>2. \A k \in 0 .. (d + 1) - 1 : k = d \/ k \in 0 .. d - 1  OBVIOUS
  <2>3. QED  BY <1>15, <2>1, <2>2 DEF Stacked
<1>17. InCall(d)'
  <2>1. Within(CallsSave, CallRegs(d), reg)'  BY <1>13, <1>14
  <2>2. d \in 0 .. Depth'  BY <1>4, <1>10 DEF Depth
  <2>3. QED  BY <1>16, <2>1, <2>2 DEF InCall
<1>18. reg'.a0 = input - d  BY <1>3, <1>9, <1>10 DEF Assigned, Regs, Scratch
<1>19. Asking3'  BY <1>10, <1>17, <1>18 DEF Asking3
<1>20. QED  BY <1>0, <1>10, <1>19 DEF FacState, FacLabels

\* A number above 1 is asked for with 1 less; that is the next call.
LEMMA If3Keeps ==
  ASSUME Typed, FacState, If3
  PROVE  Typed' /\ FacState'
<1>0. input \in -1 .. MaxN /\ input \in Int  BY FacAsmAssumption DEF FacState
<1>1. pc = "if3"  BY DEF If3, Step
<1>2. PICK d \in Nat : InCall(d) /\ reg.a0 = input - d  BY <1>1 DEF FacState, Asking3
<1>3. d \in 0 .. Depth /\ Stacked(d + 1) /\ Within(CallsSave, CallRegs(d), reg)
  BY <1>2 DEF InCall
<1>4. /\ reg.fp = 0 - 12 * (d + 1) - 4 /\ reg.sp = 0 - 12 * (d + 2)
      /\ \A x \in SRegs \ {"s0"} : reg[x] = Entry[x]
  <2>1. /\ reg.fp = CallRegs(d).sp - 4 /\ reg.sp = CallRegs(d).sp - 12
        /\ \A x \in SRegs \ {"s0"} : reg[x] = CallRegs(d)[x]
    BY <1>3, FacSaves DEF Within, SRegs
  <2>2. QED  BY <1>0, <2>1, CallRegsFacts
<1>5. CASE reg.a0 > 1
  <2> DEFINE u == [s0 |-> reg.a0, a0 |-> reg.a0 - 1, ra |-> 7]
  <2>1. Step("if3", u, "fac3")  BY <1>5 DEF If3
  <2>2. PICK w : w = u  OBVIOUS
  <2>3. DOMAIN w = {"s0", "a0", "ra"} /\ w.s0 = input - d /\ w.a0 = input - (d + 1) /\ w.ra = 7
    BY <1>0, <1>2, <2>2
  <2>4. Updates(w, Regs)
    <3>1. w = [x \in DOMAIN w |-> w[x]]  BY <2>2
    <3>2. \A x \in DOMAIN w : w[x] \in Int  BY <1>0, <2>3
    <3>3. DOMAIN w \subseteq Regs  BY <2>3 DEF Regs, Preserved, SRegs, Scratch
    <3>4. w \in [DOMAIN w -> Int]  BY <3>1, <3>2
    <3>5. QED  BY <3>3, <3>4 DEF Updates
  <2>5. /\ Typed' /\ Assigned(w, Regs, reg, reg')
        /\ pc' = "fac3" /\ input' = input /\ stack' = stack
    BY <2>1, <2>2, <2>4, Stepped
  <2>6. /\ reg'.s0 = input - d /\ reg'.a0 = input - (d + 1) /\ reg'.ra = 7
        /\ reg'.fp = reg.fp /\ reg'.sp = reg.sp
        /\ \A x \in SRegs \ {"s0"} : reg'[x] = reg[x]
    BY <2>3, <2>5 DEF Assigned, Regs, Preserved, SRegs, Scratch
  <2>7. PICK e \in Nat : e = d + 1  OBVIOUS
  <2>8. \A x \in Preserved : reg'[x] = CallRegs(e)[x]
    <3>1. /\ CallRegs(e).sp = 0 - 12 * (d + 2) /\ CallRegs(e).fp = 0 - 12 * (d + 1) - 4
          /\ CallRegs(e).ra = 7 /\ CallRegs(e).s0 = input - d
          /\ \A x \in SRegs \ {"s0"} : CallRegs(e)[x] = Entry[x]
      <4>1. (d + 1) + 1 = d + 2 /\ (d + 1) - 1 = d /\ e # 0  BY <2>7
      <4>2. QED  BY <1>0, <2>7, <4>1, CallRegsFacts
    <3>2. \A x \in Preserved : x \in SRegs \ {"s0"} \/ x \in {"s0", "fp", "sp", "ra"}
      BY DEF Preserved
    <3>3. QED  BY <1>4, <2>6, <3>1, <3>2
  <2>9. \A x : CallRegs(e)'[x] = CallRegs(e)[x]  BY <2>5 DEF CallRegs
  <2>10. Stacked(e)'  BY <1>3, <2>5, <2>7, StackedSame
  <2>11. e \in 0 .. Depth'  BY <1>0, <1>2, <1>5, <2>5, <2>7 DEF Depth
  <2>12. AtCall(e)'  BY <2>8, <2>9, <2>10, <2>11 DEF AtCall
  <2>13. Asked3'  BY <2>5, <2>6, <2>7, <2>12 DEF Asked3
  <2>14. QED  BY <1>0, <2>5, <2>13 DEF FacState, FacLabels
<1>6. CASE ~(reg.a0 > 1)
  <2>1. Step("if3", [v0 |-> 1], "return3")  BY <1>6 DEF If3
  <2>2. PICK w : w = [v0 |-> 1]  OBVIOUS
  <2>3. DOMAIN w = {"v0"} /\ w.v0 = 1 /\ Updates(w, Regs)
    BY <2>2 DEF Updates, Regs, Scratch
  <2>4. /\ Typed' /\ Assigned(w, Regs, reg, reg')
        /\ pc' = "return3" /\ input' = input /\ stack' = stack
    BY <2>1, <2>2, <2>3, Stepped
  <2>5. reg'.v0 = 1 /\ \A x \in Preserved : reg'[x] = reg[x]
    BY <2>3, <2>4 DEF Assigned, Regs, Preserved, SRegs
  <2>6. Within(CallsSave, CallRegs(d), reg')
    BY <1>3, <2>5 DEF Within, Preserved
  <2>7. CallRegs(d)' = CallRegs(d) /\ Depth' = Depth  BY <2>4 DEF CallRegs, Depth
  <2>8. Within(CallsSave, CallRegs(d), reg)'  BY <2>6, <2>7
  <2>9. Stacked(d + 1)'  BY <1>3, <2>4, StackedSame
  <2>10. InCall(d)'  BY <1>3, <2>7, <2>8, <2>9 DEF InCall
  <2>11. Fact(Still(d)) = 1
    <3>1. Still(d) = 0 \/ Still(d) = 0 + 1  BY <1>0, <1>2, <1>6 DEF Still
    <3>2. Fact(0 + 1) = Mul(1, 0 + 1)  BY NextFact
    <3>3. Mul(1, 0 + 1) = 1  BY OneIsAWord DEF Mul
    <3>4. QED  BY <3>1, <3>2, <3>3, NextFact
  <2>12. Ready3'  BY <2>4, <2>5, <2>10, <2>11 DEF Ready3, Still, Fact
  <2>13. QED  BY <1>0, <2>4, <2>12 DEF FacState, FacLabels
<1>7. QED  BY <1>5, <1>6

LEMMA AfterRecursionKeeps ==
  ASSUME Typed, FacState, AfterRecursion
  PROVE  Typed' /\ FacState'
<1>0. input \in -1 .. MaxN /\ input \in Int  BY FacAsmAssumption DEF FacState
<1>1. pc = "after_recursion" /\ Step("after_recursion", [v0 |-> Product], "return3")
  BY DEF AfterRecursion, Step
<1>2. PICK e \in Nat : e > 0 /\ AtCall(e) /\ reg.v0 = Fact(Still(e))
  BY <1>1 DEF FacState, Back3
<1>3. e \in 0 .. Depth /\ Stacked(e) /\ \A x \in Preserved : reg[x] = CallRegs(e)[x]
  BY <1>2 DEF AtCall
<1>4. PICK d \in Nat : e = d + 1  BY <1>2
<1>5. Still(e) \in Nat /\ Still(d) = Still(e) + 1 /\ Still(d) = input - d
  BY <1>0, <1>2, <1>3, <1>4 DEF Still, Depth
<1>6. reg.s0 = Still(e) + 1
  <2>1. CallRegs(e).s0 = input - d  BY <1>0, <1>2, <1>4, CallRegsFacts
  <2>2. QED  BY <1>3, <1>5, <2>1 DEF Preserved, SRegs
<1>7. Product = Fact(Still(d)) /\ Product \in Int
  <2>1. Mul(Fact(Still(e)), Still(e) + 1) = Fact(Still(e) + 1)  BY <1>5, NextFact
  <2>2. Product = Fact(Still(d))  BY <1>2, <1>5, <1>6, <2>1 DEF Product
  <2>3. Still(d) \in Nat  BY <1>5
  <2>4. QED  BY <2>2, <2>3, NextFact
<1>8. PICK w : w = [v0 |-> Product]  OBVIOUS
<1>9. DOMAIN w = {"v0"} /\ w.v0 = Product /\ Updates(w, Regs)
  BY <1>7, <1>8 DEF Updates, Regs, Scratch
<1>10. /\ Typed' /\ Assigned(w, Regs, reg, reg')
       /\ pc' = "return3" /\ input' = input /\ stack' = stack
  BY <1>1, <1>8, <1>9, Stepped
<1>11. reg'.v0 = Product /\ \A x \in Preserved : reg'[x] = reg[x]
  BY <1>9, <1>10 DEF Assigned, Regs, Preserved, SRegs
<1>12. Within(CallsSave, CallRegs(d), reg')
  <2>1. /\ CallRegs(d).sp = 0 - 12 * (d + 1)
        /\ CallRegs(e).sp = 0 - 12 * (e + 1) /\ CallRegs(e).fp = 0 - 12 * e - 4
        /\ \A x \in SRegs \ {"s0"} : CallRegs(d)[x] = CallRegs(e)[x]
    BY <1>0, CallRegsFacts
  <2>2. /\ reg'.sp = CallRegs(e).sp /\ reg'.fp = CallRegs(e).fp
        /\ \A x \in SRegs : reg'[x] = CallRegs(e)[x]
    BY <1>3, <1>11 DEF Preserved
  <2>3. reg'.fp = CallRegs(d).sp - 4 /\ reg'.sp = CallRegs(d).sp - 4 * 3
    BY <1>4, <2>1, <2>2
  <2>4. QED  BY <2>1, <2>2, <2>3, FacSaves DEF Within
<1>13. CallRegs(d)' = CallRegs(d) /\ Depth' = Depth  BY <1>10 DEF CallRegs, Depth
<1>14. Within(CallsSave, CallRegs(d), reg)'  BY <1>12, <1>13
<1>15. Stacked(d + 1)'  BY <1>3, <1>4, <1>10, StackedSame
<1>16. d \in 0 .. Depth  BY <1>0, <1>3, <1>4 DEF Depth
<1>17. InCall(d)'  BY <1>13, <1>14, <1>15, <1>16 DEF InCall
<1>18. Ready3'  BY <1>7, <1>10, <1>11, <1>17 DEF Ready3, Still, Fact
<1>19. QED  BY <1>0, <1>10, <1>18 DEF FacState, FacLabels

\* A return takes the frame of the call off again.
LEMMA Return3Keeps ==
  ASSUME Typed, FacState, Return3
  PROVE  Typed' /\ FacState'
<1>0. input \in -1 .. MaxN /\ input \in Int  BY FacAsmAssumption DEF FacState
<1>1. pc = "return3" /\ Leave(CallsSave, reg.fp, <<>>)
  BY FacSaves DEF Return3, ReturnFac
<1>2. PICK d \in Nat : InCall(d) /\ reg.v0 = Fact(Still(d))
  BY <1>1 DEF FacState, Ready3
<1>3. d \in 0 .. Depth /\ Stacked(d + 1) /\ Within(CallsSave, CallRegs(d), reg)
  BY <1>2 DEF InCall
<1>4. PICK r : r = CallRegs(d)  OBVIOUS
<1>5. r \in [Regs -> Int] /\ Used(r, 3 * (d + 1))  BY <1>0, <1>4, CallRegsFacts
<1>6. Frame(CallsSave, r) /\ Stacked(d)
  <2>1. d \in 0 .. (d + 1) - 1 /\ \A k \in 0 .. d - 1 : k \in 0 .. (d + 1) - 1  OBVIOUS
  <2>2. QED  BY <1>3, <1>4, <2>1 DEF Stacked
<1>7. PICK w \in Nat : w = 3 * (d + 1)  OBVIOUS
<1>8. w + Len(CallsSave) <= MaxWords
  <2>1. Len(CallsSave) = 3  BY FacSaves
  <2>2. d = 0 \/ d <= MaxN - 1  BY <1>0, <1>3, FacAsmAssumption DEF Depth
  <2>3. QED  BY <1>7, <2>1, <2>2, AsmAssumption, MipsAssumption, FacAsmAssumption
<1>9. PICK u, b : u = <<>> /\ b = reg.fp  OBVIOUS
<1>10. Updates(u, Scratch) /\ DOMAIN u = {}  BY <1>9 DEF Updates
<1>11. b = r.sp - 4 /\ Within(CallsSave, r, reg)  BY <1>3, <1>4, <1>9 DEF Within
<1>12. /\ Typed' /\ Assigned(u, Scratch, reg, reg')
       /\ \A x \in Preserved : reg'[x] = r[x]
       /\ pc' = ReturnTo[r.ra] /\ UNCHANGED <<program, input, stack>>
  BY <1>1, <1>5, <1>6, <1>7, <1>8, <1>9, <1>10, <1>11, FacRoom, Left
<1>13. reg'.v0 = reg.v0  BY <1>10, <1>12 DEF Assigned, Scratch
<1>14. CallRegs(d)' = CallRegs(d) /\ Depth' = Depth /\ Still(d)' = Still(d)
  BY <1>12 DEF CallRegs, Depth, Still
<1>15. Stacked(d)'  BY <1>6, <1>12, StackedSame
<1>16. AtCall(d)'  BY <1>3, <1>4, <1>12, <1>14, <1>15 DEF AtCall
<1>17. CASE d > 0
  <2>1. r.ra = 7  BY <1>0, <1>4, <1>17, CallRegsFacts
  <2>2. pc' = "after_recursion"  BY <1>12, <2>1 DEF ReturnTo
  <2>3. Back3'  BY <1>2, <1>13, <1>14, <1>16, <1>17 DEF Back3, Fact
  <2>4. QED  BY <1>0, <1>12, <2>2, <2>3 DEF FacState, FacLabels
<1>18. CASE d = 0
  <2>1. /\ r.ra = 6 /\ r.sp = -12 /\ r.fp = -4
        /\ \A x \in SRegs \ {"s0"} : r[x] = Entry[x]
    BY <1>0, <1>4, <1>18, CallRegsFacts
  <2>2. pc' = "after_fac3"  BY <1>12, <2>1 DEF ReturnTo
  <2>3. Within(CallsSave, Entry, reg')
    BY <1>12, <2>1, FacSaves, EntryTyped DEF Within, Preserved, SRegs
  <2>4. InMain(CallsSave, reg)'  BY <1>15, <2>3 DEF InMain, Stacked
  <2>5. reg'.v0 = Fact(Limit)
    <3>1. Still(d) = Limit  BY <1>0, <1>18 DEF Still, Limit
    <3>2. QED  BY <1>2, <1>13, <3>1
  <2>6. Answered'  BY <1>12, <2>4, <2>5 DEF Answered, Limit, Fact
  <2>7. QED  BY <1>0, <1>12, <2>2, <2>6 DEF FacState, FacLabels
<1>19. QED  BY <1>17, <1>18

LEMMA AfterFac3Keeps ==
  ASSUME Typed, FacState, AfterFac3
  PROVE  Typed' /\ FacState'
<1>0. input \in -1 .. MaxN  BY DEF FacState
<1>1. pc = "after_fac3" /\ PrintAndReturn("main3", reg.v0, <<>>)  BY DEF AfterFac3
<1>2. InMain(CallsSave, reg) /\ reg.v0 = Fact(Limit)  BY <1>1 DEF FacState, Answered
<1>3. PICK w : w = <<>>  OBVIOUS
<1>4. Updates(w, Scratch)  BY <1>3 DEF Updates
<1>5. CallsSave = SavedFac("main3")  BY FacSaves
<1>6. Typed' /\ Home' /\ FacRight' /\ pc' = "caller" /\ input' = input
  BY <1>1, <1>2, <1>3, <1>4, <1>5, FacRoom, PrintsAndReturns
<1>7. QED  BY <1>0, <1>6 DEF FacState, FacLabels, FacDone

\* Every step of the three programs keeps what holds at their labels.
LEMMA FacKeeps ==
  ASSUME Typed, FacState, FacNext
  PROVE  Typed' /\ FacState'
BY Fac1Keeps, Fac2Keeps, Main3Keeps, Fac3Keeps, If3Keeps, AfterRecursionKeeps, Return3Keeps,
   AfterFac3Keeps DEF FacNext

LEMMA FacBegins == FacInit => Typed /\ FacState
<1> SUFFICES ASSUME FacInit PROVE Typed /\ FacState  OBVIOUS
<1>1. /\ pc \in {"main1", "main2", "main3"} /\ reg = Entry /\ stack = [a \in Words |-> 0]
      /\ input \in -1 .. MaxN
  BY DEF FacInit, Start
<1>2. Typed  BY <1>1, EntryTyped DEF Typed
<1>3. QED  BY <1>1, <1>2 DEF FacState, FacLabels, AtEntry

-----------------------------------------------------------------------------
(* Neighbours, and the next generation byte by byte.                       *)

Cells == (0 .. N - 1) \X (0 .. N - 1)
Alive(bytes) == {c \in Cells : bytes[c[1] * N + c[2]] = 1}

Offsets == (-1 .. 1) \X (-1 .. 1)

\* From cell <<a, b>> to the neighbours of it that are alive, and to those that
\* the loops of neighbours have been at when they come to x and y.
Beside(bytes, a, b) ==
  {o \in Offsets : o # <<0, 0>> /\ <<a + o[1], b + o[2]>> \in Alive(bytes)}
BesideTo(bytes, a, b, x, y) ==
  {o \in Beside(bytes, a, b) : o[1] < x \/ (o[1] = x /\ o[2] < y)}

Population(bytes, a, b) == Cardinality(Beside(bytes, a, b))
CountTo(bytes, a, b, x, y) == Cardinality(BesideTo(bytes, a, b, x, y))

Decided(old, count) == IF count = 3 \/ (old = 1 /\ count = 2) THEN 1 ELSE 0
NextByte(bytes, a, b) == Decided(bytes[a * N + b], Population(bytes, a, b))
NextBytes(bytes) == [k \in Bytes |-> NextByte(bytes, k \div N, k % N)]

Board01(bytes) == bytes \in [Bytes -> {0, 1}]

LEMMA CellAt ==
  ASSUME NEW a \in 0 .. N - 1, NEW b \in 0 .. N - 1
  PROVE  /\ a * N + b \in Bytes
         /\ (a * N + b) \div N = a /\ (a * N + b) % N = b
<1>1. PICK n \in Nat \ {0} : n = N  BY LifeAsmAssumption
<1>2. a \in 0 .. n - 1 /\ b \in 0 .. n - 1  BY <1>1
<1>3. /\ a * n + b \in 0 .. n * n - 1
      /\ (a * n + b) \div n = a /\ (a * n + b) % n = b
  BY <1>2, Position
<1>4. QED  BY <1>1, <1>3, Zenon DEF Bytes

LEMMA NextByteIs ==
  ASSUME NEW bytes, NEW a \in 0 .. N - 1, NEW b \in 0 .. N - 1, NEW k, k = a * N + b
  PROVE  k \in Bytes /\ NextBytes(bytes)[k] = NextByte(bytes, a, b)
<1>1. k \in Bytes /\ k \div N = a /\ k % N = b  BY CellAt, Zenon
<1>2. QED  BY <1>1, Zenon DEF NextBytes

LEMMA BesideFinite ==
  ASSUME NEW bytes, NEW a, NEW b
  PROVE  /\ IsFiniteSet(Beside(bytes, a, b)) /\ Population(bytes, a, b) \in Nat
         /\ \A x, y : IsFiniteSet(BesideTo(bytes, a, b, x, y)) /\ CountTo(bytes, a, b, x, y) \in Nat
<1>1. IsFiniteSet(Offsets)
  <2>1. IsFiniteSet(-1 .. 1)
    <3>1. -1 \in Int /\ 1 \in Int  OBVIOUS
    <3>2. QED  BY <3>1, FS_Interval, Zenon
  <2>2. QED  BY <2>1, FS_Product DEF Offsets
<1>2. Beside(bytes, a, b) \subseteq Offsets  BY DEF Beside
<1>3. IsFiniteSet(Beside(bytes, a, b))  BY <1>1, <1>2, FS_Subset
<1>4. ASSUME NEW x, NEW y PROVE IsFiniteSet(BesideTo(bytes, a, b, x, y))
  <2>1. BesideTo(bytes, a, b, x, y) \subseteq Beside(bytes, a, b)  BY DEF BesideTo
  <2>2. QED  BY <1>3, <2>1, FS_Subset
<1>5. QED  BY <1>3, <1>4, FS_CardinalityType DEF Population, CountTo

LEMMA CountFacts ==
  ASSUME NEW bytes, NEW a, NEW b
  PROVE  /\ CountTo(bytes, a, b, -1, -1) = 0
         /\ \A x \in -1 .. 1 :
              CountTo(bytes, a, b, x, 2) = CountTo(bytes, a, b, x + 1, -1)
         /\ CountTo(bytes, a, b, 2, -1) = Population(bytes, a, b)
         /\ \A x \in -1 .. 1, y \in -1 .. 1 :
              CountTo(bytes, a, b, x, y + 1) =
                CountTo(bytes, a, b, x, y)
                  + IF <<x, y>> \in Beside(bytes, a, b) THEN 1 ELSE 0
<1> DEFINE S == Beside(bytes, a, b)
           To(x, y) == BesideTo(bytes, a, b, x, y)
<1>1. \A o \in S : o \in Offsets /\ o = <<o[1], o[2]>> /\ o[1] \in -1 .. 1 /\ o[2] \in -1 .. 1
  BY DEF Beside, Offsets
<1>2. \A x, y : To(x, y) = {o \in S : o[1] < x \/ (o[1] = x /\ o[2] < y)}
  BY DEF BesideTo
<1>3. \A x, y : CountTo(bytes, a, b, x, y) = Cardinality(To(x, y)) /\ IsFiniteSet(To(x, y))
  BY BesideFinite DEF CountTo
<1>4. Population(bytes, a, b) = Cardinality(S)  BY DEF Population
<1> HIDE DEF S, To
<1>5. CountTo(bytes, a, b, -1, -1) = 0
  <2>1. To(-1, -1) = {}  BY <1>1, <1>2
  <2>2. QED  BY <1>3, <2>1, FS_EmptySet
<1>6. ASSUME NEW x \in -1 .. 1
      PROVE  CountTo(bytes, a, b, x, 2) = CountTo(bytes, a, b, x + 1, -1)
  <2>0. \A o \in S : (o[1] < x \/ (o[1] = x /\ o[2] < 2))
                        <=> (o[1] < x + 1 \/ (o[1] = x + 1 /\ o[2] < -1))
    BY <1>1
  <2>1. To(x, 2) = To(x + 1, -1)  BY <1>2, <2>0
  <2>2. QED  BY <1>3, <2>1
<1>7. CountTo(bytes, a, b, 2, -1) = Population(bytes, a, b)
  <2>1. To(2, -1) = S  BY <1>1, <1>2
  <2>2. QED  BY <1>3, <1>4, <2>1
<1>8. ASSUME NEW x \in -1 .. 1, NEW y \in -1 .. 1
      PROVE  CountTo(bytes, a, b, x, y + 1) =
               CountTo(bytes, a, b, x, y) + IF <<x, y>> \in S THEN 1 ELSE 0
  <2>1. CASE <<x, y>> \in S
    <3>1. To(x, y + 1) = To(x, y) \cup {<<x, y>>}  BY <1>1, <1>2, <2>1
    <3>2. <<x, y>> \notin To(x, y)  BY <1>2
    <3>3. QED  BY <1>3, <2>1, <3>1, <3>2, FS_AddElement
  <2>2. CASE <<x, y>> \notin S
    <3>0. \A o \in S : (o[1] < x \/ (o[1] = x /\ o[2] < y + 1))
                          <=> (o[1] < x \/ (o[1] = x /\ o[2] < y))
      <4>1. ASSUME NEW o \in S PROVE ~(o[1] = x /\ o[2] = y)
        BY <1>1, <2>2
      <4>2. QED  BY <1>1, <4>1
    <3>1. To(x, y + 1) = To(x, y)  BY <1>2, <3>0
    <3>2. CountTo(bytes, a, b, x, y) \in Nat  BY BesideFinite
    <3>3. QED  BY <1>3, <2>2, <3>1, <3>2
  <2>3. QED  BY <2>1, <2>2
<1>9. QED  BY <1>5, <1>6, <1>7, <1>8 DEF S

\* LifeGrid counts with the operator of its own copy of FiniteSets.
LEMMA SameCardinality == \A S : Grid!Cardinality(S) = Cardinality(S)
BY Zenon DEF Cardinality, Grid!Cardinality

LEMMA NeighboursAreAdjacent ==
  ASSUME NEW bytes, NEW a \in 0 .. N - 1, NEW b \in 0 .. N - 1
  PROVE  Population(bytes, a, b) = Grid!Population(<<a, b>>, Alive(bytes))
<1> DEFINE D == Beside(bytes, a, b)
           A == Grid!Adjacent(<<a, b>>) \cap Alive(bytes)
           at(d) == <<a + d[1], b + d[2]>>
           f == [d \in D |-> at(d)]
<1>0. N \in Nat \ {0}  BY LifeAsmAssumption
<1>1. ASSUME NEW d \in D PROVE at(d) \in A
  <2>1. PICK x \in -1 .. 1, y \in -1 .. 1 : d = <<x, y>>  BY DEF Beside, Offsets
  <2>2. d # <<0, 0>> /\ at(d) \in Alive(bytes)  BY DEF Beside
  <2>3. at(d) = <<a + x, b + y>>  BY <2>1
  <2>4. a + x \in 0 .. N - 1 /\ b + y \in 0 .. N - 1  BY <2>2, <2>3 DEF Alive, Cells
  <2>5. <<a + x, b + y>> # <<a, b>>  BY <2>1, <2>2
  <2>6. Grid!Near(a, a + x) /\ Grid!Near(b, b + y)  BY <2>1 DEF Grid!Near
  <2>7. at(d) \in Grid!Adjacent(<<a, b>>)
    BY <2>3, <2>4, <2>5, <2>6 DEF Grid!Adjacent, Grid!Cells
  <2>8. QED  BY <2>2, <2>7
<1>2. ASSUME NEW d \in D, NEW e \in D, at(d) = at(e) PROVE d = e
  <2>1. PICK x \in -1 .. 1, y \in -1 .. 1 : d = <<x, y>>  BY DEF Beside, Offsets
  <2>2. PICK u \in -1 .. 1, v \in -1 .. 1 : e = <<u, v>>  BY DEF Beside, Offsets
  <2>3. a + x = a + u /\ b + y = b + v  BY <1>2, <2>1, <2>2
  <2>4. QED  BY <2>1, <2>2, <2>3
<1>3. ASSUME NEW e \in A PROVE \E d \in D : at(d) = e
  <2>1. /\ e \in Grid!Cells /\ e # <<a, b>> /\ e \in Alive(bytes)
        /\ Grid!Near(a, e[1]) /\ Grid!Near(b, e[2])
    BY DEF Grid!Adjacent
  <2>2. PICK u \in 0 .. N - 1, v \in 0 .. N - 1 : e = <<u, v>>  BY <2>1 DEF Grid!Cells
  <2>3. u - a \in -1 .. 1 /\ v - b \in -1 .. 1
    BY <1>0, <2>1, <2>2 DEF Grid!Near
  <2>4. <<u - a, v - b>> # <<0, 0>>  BY <2>1, <2>2
  <2>5. a + (u - a) = u /\ b + (v - b) = v  BY <2>2
  <2>6. at(<<u - a, v - b>>) = e  BY <2>2, <2>5
  <2>7. <<u - a, v - b>> \in D  BY <2>1, <2>3, <2>4, <2>6 DEF Beside, Offsets
  <2>8. QED  BY <2>6, <2>7
<1>4. IsFiniteSet(D)  BY BesideFinite
<1>5. Population(bytes, a, b) = Cardinality(D)  BY DEF Population
<1>6. Grid!Population(<<a, b>>, Alive(bytes)) = Cardinality(A)
  BY SameCardinality DEF Grid!Population
<1> HIDE DEF D, A, at
<1>7. f \in [D -> A] /\ \A d \in D : f[d] = at(d)  BY <1>1
<1> HIDE DEF f
<1>8. f \in Surjection(D, A)  BY <1>3, <1>7 DEF Surjection
<1>9. f \in Injection(D, A)  BY <1>2, <1>7 DEF Injection, IsInjective
<1>10. IsFiniteSet(A) /\ Cardinality(A) <= Cardinality(D)
  BY <1>4, <1>8, FS_Surjection
<1>11. Cardinality(D) = Cardinality(A)  BY <1>4, <1>8, <1>9, <1>10, FS_Injection
<1>12. QED  BY <1>5, <1>6, <1>11

\* The bytes decided are those of the grid's next generation.
LEMMA NextBytesAreSuccessor ==
  ASSUME NEW bytes
  PROVE  Alive(NextBytes(bytes)) = Grid!Successor(Alive(bytes))
<1> SUFFICES ASSUME NEW c \in Cells
             PROVE  c \in Alive(NextBytes(bytes)) <=> c \in Grid!Successor(Alive(bytes))
  BY DEF Alive, Grid!Successor, Grid!Cells, Cells
<1>1. PICK a \in 0 .. N - 1, b \in 0 .. N - 1 : c = <<a, b>>  BY DEF Cells
<1>2. PICK k : k = a * N + b  OBVIOUS
<1>3. NextBytes(bytes)[k] = Decided(bytes[k], Population(bytes, a, b))
  BY <1>2, NextByteIs DEF NextByte
<1>4. PICK p : p = Grid!Population(c, Alive(bytes))  OBVIOUS
<1>5. p = Population(bytes, a, b)  BY <1>1, <1>4, NeighboursAreAdjacent
<1>6. c \in Alive(NextBytes(bytes)) <=> NextBytes(bytes)[k] = 1  BY <1>1, <1>2 DEF Alive
<1>7. c \in Alive(bytes) <=> bytes[k] = 1  BY <1>1, <1>2 DEF Alive
<1>8. c \in Grid!Successor(Alive(bytes)) <=> (p = 3 \/ (p = 2 /\ c \in Alive(bytes)))
  BY <1>4 DEF Grid!Successor, Grid!Cells, Cells
<1>9. QED  BY <1>3, <1>5, <1>6, <1>7, <1>8 DEF Decided

-----------------------------------------------------------------------------
(* assignment/assignment1/prog.s.                                          *)

GameSaves == Saved("main")
NearSaves == Saved("neighbours")
DecideSaves == Saved("decideCell")
CopySaves == Saved("copyBackAndShow")

\* The first k bytes of new are as wanted.
UpTo(new, wanted, k) == \A l \in 0 .. k - 1 : new[l] = wanted[l]

\* In iteration n of main, with the registers now; and at a cell of the board
\* in it: what comes before the cell is decided.
Game(now, n) == now.s3 = N /\ now.s4 = input /\ now.s0 = n
Playing(now, n) == Game(now, n) /\ n <= input
Place(now) == now.s1 * N + now.s2
CellOf(now, n) ==
  /\ Playing(now, n) /\ now.s1 \in 0 .. N - 1 /\ now.s2 \in 0 .. N - 1
  /\ UpTo(NewBoard, NextBytes(Board), Place(now))

AtN(n) == InMain(GameSaves, reg) /\ Game(reg, n)
AtI(n) ==
  /\ InMain(GameSaves, reg) /\ Playing(reg, n) /\ reg.s1 \in 0 .. N
  /\ UpTo(NewBoard, NextBytes(Board), reg.s1 * N)
AtJ(n) ==
  /\ InMain(GameSaves, reg) /\ Playing(reg, n) /\ reg.s1 \in 0 .. N - 1 /\ reg.s2 \in 0 .. N
  /\ UpTo(NewBoard, NextBytes(Board), Place(reg))
AllDecided(n) == InMain(GameSaves, reg) /\ Playing(reg, n) /\ NewBoard = NextBytes(Board)

\* neighbours: asked for a cell, in the loops over the offsets, and answered.
AskCount(n) ==
  InMain(GameSaves, reg) /\ CellOf(reg, n) /\ reg.ra = 2 /\ reg.a0 = reg.s1 /\ reg.a1 = reg.s2
InCount(r, n) ==
  /\ Called(GameSaves, NearSaves, 2, r) /\ CellOf(r, n)
  /\ reg.s0 = r.s1 /\ reg.s1 = r.s2 /\ reg.s5 = N
SoFar(x, y) == reg.s4 = CountTo(Board, reg.s0, reg.s1, x, y)
AtX(n) == \E r : InCount(r, n) /\ reg.s2 \in -1 .. 2 /\ SoFar(reg.s2, -1)
AtY(n) ==
  \E r : InCount(r, n) /\ reg.s2 \in -1 .. 1 /\ reg.s3 \in -1 .. 2 /\ SoFar(reg.s2, reg.s3)
AtOffset(r, n) == InCount(r, n) /\ reg.s2 \in -1 .. 1 /\ reg.s3 \in -1 .. 1
Looking == reg.t0 = reg.s0 + reg.s2 /\ reg.t2 = reg.s1 + reg.s3
Trying(n) ==
  \E r : AtOffset(r, n) /\ SoFar(reg.s2, reg.s3) /\ Looking /\ reg.t1 = N - 1
OnBoard(n) ==
  \E r : /\ AtOffset(r, n) /\ SoFar(reg.s2, reg.s3) /\ Looking
         /\ reg.t0 \in 0 .. N - 1 /\ reg.t2 \in 0 .. N - 1 /\ <<reg.s2, reg.s3>> # <<0, 0>>
Tried(n) == \E r : AtOffset(r, n) /\ SoFar(reg.s2, reg.s3 + 1)
AllTried(n) == \E r : InCount(r, n) /\ reg.s4 = Population(Board, r.s1, r.s2)
HaveCount(n) ==
  InMain(GameSaves, reg) /\ CellOf(reg, n) /\ reg.v0 = Population(Board, reg.s1, reg.s2)

\* decideCell: $t2 is not its own, yet stays what it is.
AskByte(n) ==
  /\ InMain(GameSaves, reg) /\ CellOf(reg, n) /\ reg.ra = 3 /\ reg.t2 = Place(reg)
  /\ reg.a0 = Board[Place(reg)] /\ reg.a1 = Population(Board, reg.s1, reg.s2)
InByte(r, n) ==
  Called(GameSaves, DecideSaves, 3, r) /\ CellOf(r, n) /\ reg.t2 = Place(r)
Deciding(n) ==
  \E r : /\ InByte(r, n) /\ reg.s0 = Board[Place(r)] /\ reg.s1 = Population(Board, r.s1, r.s2)
HasDecided(n) == \E r : InByte(r, n) /\ reg.t0 = NextByte(Board, r.s1, r.s2)
HaveByte(n) ==
  /\ InMain(GameSaves, reg) /\ CellOf(reg, n) /\ reg.t2 = Place(reg)
  /\ reg.v0 = NextByte(Board, reg.s1, reg.s2)

\* copyBackAndShow.
AskCopy(n) == InMain(GameSaves, reg) /\ Playing(reg, n) /\ reg.ra = 4
InCopy(r, n) == Called(GameSaves, CopySaves, 4, r) /\ Playing(r, n) /\ reg.s2 = N
CopyAtI(n) ==
  \E r : InCopy(r, n) /\ reg.s0 \in 0 .. N /\ UpTo(Board, NewBoard, reg.s0 * N)
CopyAtJ(n) ==
  \E r : /\ InCopy(r, n) /\ reg.s0 \in 0 .. N - 1 /\ reg.s1 \in 0 .. N
         /\ UpTo(Board, NewBoard, reg.s0 * N + reg.s1)
AllCopied(n) == \E r : InCopy(r, n) /\ Board = NewBoard
HaveCopy(n) == InMain(GameSaves, reg) /\ Playing(reg, n) /\ Board = NewBoard

GameOver(n) == Home /\ n = input + 1

LifeLabels == {"main", "n_cond_main", "i_cond_main", "j_cond_main", "i_finish_main",
               "n_finish_main", "neighbours", "x_cond_fun2", "y_cond_fun2", "first_if_fun2",
               "end_third_if_fun2", "y_step_fun2", "x_finish_fun2", "after_neighbours",
               "decideCell", "if_fun1", "end_decideCell_fun1", "after_decide",
               "copyBackAndShow", "i_cond_fun3", "j_cond_fun3", "i_finish_fun3",
               "after_copy", "caller"}

LifeMemory ==
  /\ input \in 0 .. MaxIters /\ Board01(Board) /\ Board01(NewBoard) /\ pc \in LifeLabels

\* What holds in iteration n.
LifeAt(n) ==
  /\ n \in 1 .. input + 1
  /\ pc = "main" => AtEntry /\ n = 1
  /\ pc = "n_cond_main" => AtN(n)
  /\ pc = "i_cond_main" => AtI(n)
  /\ pc = "j_cond_main" => AtJ(n)
  /\ pc = "i_finish_main" => AllDecided(n)
  /\ pc = "n_finish_main" => AtN(n) /\ n = input + 1
  /\ pc = "neighbours" => AskCount(n)
  /\ pc = "x_cond_fun2" => AtX(n)
  /\ pc = "y_cond_fun2" => AtY(n)
  /\ pc = "first_if_fun2" => Trying(n)
  /\ pc = "end_third_if_fun2" => OnBoard(n)
  /\ pc = "y_step_fun2" => Tried(n)
  /\ pc = "x_finish_fun2" => AllTried(n)
  /\ pc = "after_neighbours" => HaveCount(n)
  /\ pc = "decideCell" => AskByte(n)
  /\ pc = "if_fun1" => Deciding(n)
  /\ pc = "end_decideCell_fun1" => HasDecided(n)
  /\ pc = "after_decide" => HaveByte(n)
  /\ pc = "copyBackAndShow" => AskCopy(n)
  /\ pc = "i_cond_fun3" => CopyAtI(n)
  /\ pc = "j_cond_fun3" => CopyAtJ(n)
  /\ pc = "i_finish_fun3" => AllCopied(n)
  /\ pc = "after_copy" => HaveCopy(n)
  /\ pc = "caller" => GameOver(n)

LEMMA LifeSaves ==
  /\ GameSaves = <<"fp", "ra", "s0", "s1", "s2", "s3", "s4", "s5">> /\ NearSaves = GameSaves
  /\ DecideSaves = <<"fp", "ra", "s0", "s1">> /\ CopySaves = <<"fp", "ra", "s0", "s1", "s2">>
  /\ Saves(GameSaves) /\ Len(GameSaves) = 8
  /\ Saves(DecideSaves) /\ Len(DecideSaves) = 4 /\ Saves(CopySaves) /\ Len(CopySaves) = 5
  /\ Own(GameSaves) = Scratch \cup {"ra"} \cup SRegs
  /\ Own(DecideSaves) = Scratch \cup {"ra", "s0", "s1"}
  /\ Own(CopySaves) = Scratch \cup {"ra", "s0", "s1", "s2"}
<1>1. /\ GameSaves = <<"fp", "ra", "s0", "s1", "s2", "s3", "s4", "s5">>
      /\ NearSaves = GameSaves
      /\ DecideSaves = <<"fp", "ra", "s0", "s1">> /\ CopySaves = <<"fp", "ra", "s0", "s1", "s2">>
  BY DEF GameSaves, NearSaves, DecideSaves, CopySaves, Saved
<1>2. Saves(GameSaves) /\ Len(GameSaves) = 8  BY <1>1 DEF Saves, Preserved, SRegs
<1>3. Saves(DecideSaves) /\ Len(DecideSaves) = 4  BY <1>1 DEF Saves, Preserved, SRegs
<1>4. Saves(CopySaves) /\ Len(CopySaves) = 5  BY <1>1 DEF Saves, Preserved, SRegs
<1>5. DOMAIN GameSaves = 1 .. 8 /\ DOMAIN DecideSaves = 1 .. 4 /\ DOMAIN CopySaves = 1 .. 5
  BY <1>1
<1>6. Named(GameSaves) = {"fp", "ra", "s0", "s1", "s2", "s3", "s4", "s5"}
  BY <1>1, <1>5 DEF Named
<1>7. Named(DecideSaves) = {"fp", "ra", "s0", "s1"}  BY <1>1, <1>5 DEF Named
<1>8. Named(CopySaves) = {"fp", "ra", "s0", "s1", "s2"}  BY <1>1, <1>5 DEF Named
<1>9. QED  BY <1>1, <1>2, <1>3, <1>4, <1>6, <1>7, <1>8 DEF Own, Scratch, SRegs

LEMMA LifeRoom ==
  /\ Saves(GameSaves) /\ Saves(NearSaves) /\ Saves(DecideSaves) /\ Saves(CopySaves)
  /\ Len(GameSaves) <= MaxWords /\ Len(GameSaves) + Len(NearSaves) <= MaxWords
  /\ Len(GameSaves) + Len(DecideSaves) <= MaxWords /\ Len(GameSaves) + Len(CopySaves) <= MaxWords
BY LifeSaves, AsmAssumption, MipsAssumption

LEMMA FrameSizes ==
  /\ FrameSize("main") = 4 * Len(GameSaves) /\ FrameSize("neighbours") = 4 * Len(NearSaves)
  /\ FrameSize("decideCell") = 4 * Len(DecideSaves)
  /\ FrameSize("copyBackAndShow") = 4 * Len(CopySaves)
BY DEF FrameSize, GameSaves, NearSaves, DecideSaves, CopySaves

\* The bytes below the last place are all the bytes.
LEMMA AllUpTo ==
  ASSUME NEW new, NEW wanted, Board01(new), wanted \in [Bytes -> {0, 1}], UpTo(new, wanted, N * N)
  PROVE  new = wanted
<1>1. \A l \in Bytes : new[l] = wanted[l]  BY DEF UpTo, Bytes
<1>2. new = [l \in Bytes |-> new[l]] /\ wanted = [l \in Bytes |-> wanted[l]]
  BY DEF Board01
<1>3. QED  BY <1>1, <1>2

LEMMA NextBytesType == \A bytes : NextBytes(bytes) \in [Bytes -> {0, 1}]
BY DEF NextBytes, NextByte, Decided

\* Steps that leave the two boards alone.
Quiet == UNCHANGED <<program, input, Board, NewBoard>>

LEMMA CellStays ==
  ASSUME Quiet, NEW r, NEW n
  PROVE  /\ (CellOf(r, n)' <=> CellOf(r, n))
         /\ (Playing(r, n)' <=> Playing(r, n)) /\ (Game(r, n)' <=> Game(r, n))
BY DEF Quiet, CellOf, Playing, Game

LEMMA Sizes == LifeMemory => N \in Nat \ {0} /\ N \in Int /\ input \in Nat /\ MaxIters \in Nat
BY LifeAsmAssumption DEF LifeMemory

LEMMA PlaceIs ==
  ASSUME NEW now, now.s1 \in 0 .. N - 1, now.s2 \in 0 .. N - 1
  PROVE  /\ Place(now) \in Bytes /\ Place(now) \in Nat
         /\ NextBytes(Board)[Place(now)] = NextByte(Board, now.s1, now.s2)
<1>1. PICK a \in 0 .. N - 1, b \in 0 .. N - 1 : a = now.s1 /\ b = now.s2  OBVIOUS
<1>2. PICK k : k = a * N + b  OBVIOUS
<1>3. k = Place(now)  BY <1>1, <1>2 DEF Place
<1>4. k \in Bytes /\ NextBytes(Board)[k] = NextByte(Board, a, b)  BY <1>2, NextByteIs
<1>5. k \in Nat  BY <1>4, LifeAsmAssumption DEF Bytes
<1>6. QED  BY <1>1, <1>3, <1>4, <1>5

LEMMA MainKeeps ==
  ASSUME Typed, LifeMemory, NEW n, LifeAt(n), Main
  PROVE  Typed' /\ LifeMemory' /\ LifeAt(n)' /\ Quiet
<1> DEFINE u == [a0 |-> 0, v0 |-> input, s4 |-> input, s3 |-> N, s0 |-> 1]
<1>0. N \in Int /\ input \in Nat  BY Sizes
<1>1. /\ Enter("main", GameSaves, 4 * Len(GameSaves), "n_cond_main", u)
      /\ UNCHANGED <<Board, NewBoard>>
  BY FrameSizes DEF Main, Call, GameSaves, Memory
<1>2. pc = "main"  BY <1>1 DEF Enter
<1>3. AtEntry /\ n = 1 /\ n \in 1 .. input + 1  BY <1>2 DEF LifeAt
<1>4. Updates(u, Own(GameSaves))  BY <1>0, LifeSaves DEF Updates, Scratch, SRegs
<1>5. PICK w : w = u  OBVIOUS
<1>6. /\ Typed' /\ InMain(GameSaves, reg)' /\ Assigned(w, Regs \ {"fp", "sp"}, reg, reg')
      /\ pc' = "n_cond_main" /\ UNCHANGED <<program, input, printed>>
  BY <1>1, <1>3, <1>4, <1>5, LifeRoom, MainEntered
<1>7. reg'.s3 = N /\ reg'.s4 = input /\ reg'.s0 = 1  BY <1>5, <1>6 DEF Assigned
<1>8. AtN(n)'  BY <1>3, <1>6, <1>7 DEF AtN, Game
<1>9. LifeMemory'  BY <1>1, <1>6 DEF LifeMemory, LifeLabels
<1>10. Quiet  BY <1>1, <1>6 DEF Quiet
<1>11. QED  BY <1>3, <1>6, <1>8, <1>9, <1>10 DEF LifeAt

\* A step of main that leaves the boards alone.
LEMMA GameStep ==
  ASSUME Typed, LifeMemory, InMain(GameSaves, reg), NEW u, Updates(u, Scratch \cup SRegs \cup {"ra"}),
         NEW label, NEW to, to \in LifeLabels, Step(label, u, to), UNCHANGED Memory
  PROVE  /\ Typed' /\ LifeMemory' /\ InMain(GameSaves, reg)' /\ Assigned(u, Regs, reg, reg')
         /\ pc = label /\ pc' = to /\ Quiet
<1>1. Updates(u, Own(GameSaves))  BY LifeSaves DEF Updates
<1>2. /\ Typed' /\ InMain(GameSaves, reg)' /\ Assigned(u, Regs, reg, reg')
      /\ pc = label /\ pc' = to /\ UNCHANGED <<program, input, printed, stack>>
  BY <1>1, LifeRoom, MainStep
<1>3. UNCHANGED <<Board, NewBoard>>  BY DEF Memory
<1>4. LifeMemory'  BY <1>2, <1>3 DEF LifeMemory
<1>5. QED  BY <1>2, <1>3, <1>4 DEF Quiet

LEMMA NCondKeeps ==
  ASSUME Typed, LifeMemory, NEW n, LifeAt(n), NCondMain
  PROVE  Typed' /\ LifeMemory' /\ LifeAt(n)' /\ Quiet
<1>1. /\ LoopHead("n_cond_main", reg.s0, reg.s4, "i_cond_main", [s1 |-> 0], "n_finish_main")
      /\ UNCHANGED Memory
  BY DEF NCondMain
<1>2. pc = "n_cond_main"  BY <1>1 DEF LoopHead, Step
<1>3. InMain(GameSaves, reg) /\ reg.s3 = N /\ reg.s4 = input /\ reg.s0 = n /\ n \in 1 .. input + 1
  BY <1>2 DEF LifeAt, AtN, Game
<1>4. N \in Int /\ N \in Nat /\ input \in Nat  BY Sizes
<1>5. CASE n > input
  <2>1. Step("n_cond_main", <<>>, "n_finish_main")  BY <1>1, <1>3, <1>5 DEF LoopHead
  <2>2. PICK w : w = <<>>  OBVIOUS
  <2>3. Updates(w, Scratch \cup SRegs \cup {"ra"}) /\ DOMAIN w = {}  BY <2>2 DEF Updates
  <2>4. "n_finish_main" \in LifeLabels  BY DEF LifeLabels
  <2>5. /\ Typed' /\ LifeMemory' /\ InMain(GameSaves, reg)' /\ Assigned(w, Regs, reg, reg')
        /\ pc' = "n_finish_main" /\ Quiet
    BY <1>1, <1>3, <2>1, <2>2, <2>3, <2>4, GameStep
  <2>6. Game(reg', n)
    BY <1>3, <2>3, <2>5 DEF Assigned, Regs, Preserved, SRegs, Game
  <2>7. AtN(n)'  BY <2>5, <2>6 DEF AtN, Game, Quiet
  <2>8. input' = input /\ n = input + 1  BY <1>3, <1>4, <1>5, <2>5 DEF Quiet
  <2>9. QED  BY <1>3, <2>5, <2>7, <2>8 DEF LifeAt
<1>6. CASE n <= input
  <2>1. Step("n_cond_main", [s1 |-> 0], "i_cond_main")  BY <1>1, <1>3, <1>4, <1>6 DEF LoopHead
  <2>2. PICK w : w = [s1 |-> 0]  OBVIOUS
  <2>3. Updates(w, Scratch \cup SRegs \cup {"ra"}) /\ DOMAIN w = {"s1"} /\ w.s1 = 0
    BY <2>2 DEF Updates, SRegs
  <2>4. "i_cond_main" \in LifeLabels  BY DEF LifeLabels
  <2>5. /\ Typed' /\ LifeMemory' /\ InMain(GameSaves, reg)' /\ Assigned(w, Regs, reg, reg')
        /\ pc' = "i_cond_main" /\ Quiet
    BY <1>1, <1>3, <2>1, <2>2, <2>3, <2>4, GameStep
  <2>6. reg'.s1 = 0 /\ reg'.s3 = N /\ reg'.s4 = input /\ reg'.s0 = n
    BY <1>3, <2>3, <2>5 DEF Assigned, Regs, Preserved, SRegs
  <2>7. Playing(reg, n)'  BY <1>6, <2>5, <2>6 DEF Playing, Game, Quiet
  <2>8. UpTo(NewBoard, NextBytes(Board), reg.s1 * N)'
    <3>1. reg'.s1 * N - 1 = -1  BY <1>4, <2>6
    <3>2. QED  BY <3>1 DEF UpTo
  <2>9. AtI(n)'  BY <1>4, <2>5, <2>6, <2>7, <2>8 DEF AtI
  <2>10. input' = input  BY <2>5 DEF Quiet
  <2>11. QED  BY <1>3, <2>5, <2>9, <2>10 DEF LifeAt
<1>7. QED  BY <1>3, <1>4, <1>5, <1>6

LEMMA ICondKeeps ==
  ASSUME Typed, LifeMemory, NEW n, LifeAt(n), ICondMain
  PROVE  Typed' /\ LifeMemory' /\ LifeAt(n)' /\ Quiet
<1>1. /\ LoopHead("i_cond_main", reg.s1, reg.s3 - 1, "j_cond_main", [s2 |-> 0], "i_finish_main")
      /\ UNCHANGED Memory
  BY DEF ICondMain
<1>2. pc = "i_cond_main"  BY <1>1 DEF LoopHead, Step
<1>3. /\ InMain(GameSaves, reg) /\ Playing(reg, n) /\ reg.s1 \in 0 .. N
      /\ UpTo(NewBoard, NextBytes(Board), reg.s1 * N)
      /\ reg.s3 = N /\ reg.s4 = input /\ reg.s0 = n /\ n <= input /\ n \in 1 .. input + 1
  BY <1>2 DEF LifeAt, AtI, Playing, Game
<1>4. N \in Int /\ N \in Nat \ {0} /\ input \in Nat  BY Sizes
<1>5. CASE reg.s1 > N - 1
  <2>1. Step("i_cond_main", <<>>, "i_finish_main")  BY <1>1, <1>3, <1>5 DEF LoopHead
  <2>2. PICK w : w = <<>>  OBVIOUS
  <2>3. Updates(w, Scratch \cup SRegs \cup {"ra"}) /\ DOMAIN w = {}  BY <2>2 DEF Updates
  <2>4. "i_finish_main" \in LifeLabels  BY DEF LifeLabels
  <2>5. /\ Typed' /\ LifeMemory' /\ InMain(GameSaves, reg)' /\ Assigned(w, Regs, reg, reg')
        /\ pc' = "i_finish_main" /\ Quiet
    BY <1>1, <1>3, <2>1, <2>2, <2>3, <2>4, GameStep
  <2>6. Playing(reg', n)
    BY <1>3, <2>3, <2>5 DEF Assigned, Regs, Preserved, SRegs, Game, Playing
  <2>7. UpTo(NewBoard, NextBytes(Board), N * N)
    <3>1. reg.s1 = N  BY <1>3, <1>4, <1>5
    <3>2. QED  BY <1>3, <3>1
  <2>8. NewBoard = NextBytes(Board)  BY <2>7, NextBytesType, AllUpTo DEF LifeMemory
  <2>9. AllDecided(n)'  BY <2>5, <2>6, <2>8 DEF AllDecided, Playing, Game, Quiet
  <2>10. input' = input  BY <2>5 DEF Quiet
  <2>11. QED  BY <1>3, <2>5, <2>9, <2>10 DEF LifeAt
<1>6. CASE reg.s1 <= N - 1
  <2>1. Step("i_cond_main", [s2 |-> 0], "j_cond_main")  BY <1>1, <1>3, <1>4, <1>6 DEF LoopHead
  <2>2. PICK w : w = [s2 |-> 0]  OBVIOUS
  <2>3. Updates(w, Scratch \cup SRegs \cup {"ra"}) /\ DOMAIN w = {"s2"} /\ w.s2 = 0
    BY <2>2 DEF Updates, SRegs
  <2>4. "j_cond_main" \in LifeLabels  BY DEF LifeLabels
  <2>5. /\ Typed' /\ LifeMemory' /\ InMain(GameSaves, reg)' /\ Assigned(w, Regs, reg, reg')
        /\ pc' = "j_cond_main" /\ Quiet
    BY <1>1, <1>3, <2>1, <2>2, <2>3, <2>4, GameStep
  <2>6. reg'.s2 = 0 /\ reg'.s1 = reg.s1 /\ reg'.s3 = N /\ reg'.s4 = input /\ reg'.s0 = n
    BY <1>3, <2>3, <2>5 DEF Assigned, Regs, Preserved, SRegs
  <2>7. Playing(reg, n)'  BY <1>3, <2>5, <2>6 DEF Playing, Game, Quiet
  <2>8. Place(reg)' = reg.s1 * N  BY <1>3, <1>4, <2>6 DEF Place
  <2>9. UpTo(NewBoard, NextBytes(Board), Place(reg))'
    BY <1>3, <2>5, <2>8 DEF UpTo, Quiet
  <2>10. AtJ(n)'  BY <1>3, <1>4, <1>6, <2>5, <2>6, <2>7, <2>9 DEF AtJ
  <2>11. input' = input  BY <2>5 DEF Quiet
  <2>12. QED  BY <1>3, <2>5, <2>10, <2>11 DEF LifeAt
<1>7. QED  BY <1>3, <1>4, <1>5, <1>6

LEMMA JCondKeeps ==
  ASSUME Typed, LifeMemory, NEW n, LifeAt(n), JCondMain
  PROVE  Typed' /\ LifeMemory' /\ LifeAt(n)' /\ Quiet
<1>1. pc = "j_cond_main" /\ UNCHANGED Memory  BY DEF JCondMain, Step
<1>2. /\ InMain(GameSaves, reg) /\ Playing(reg, n) /\ reg.s1 \in 0 .. N - 1 /\ reg.s2 \in 0 .. N
      /\ UpTo(NewBoard, NextBytes(Board), Place(reg))
      /\ reg.s3 = N /\ reg.s4 = input /\ reg.s0 = n /\ n <= input /\ n \in 1 .. input + 1
  BY <1>1 DEF LifeAt, AtJ, Playing, Game
<1>3. N \in Int /\ N \in Nat \ {0} /\ input \in Nat  BY Sizes
<1>4. CASE reg.s2 >= N
  <2>1. Step("j_cond_main", [s1 |-> reg.s1 + 1], "i_cond_main")  BY <1>2, <1>4 DEF JCondMain
  <2>2. PICK w : w = [s1 |-> reg.s1 + 1]  OBVIOUS
  <2>3. Updates(w, Scratch \cup SRegs \cup {"ra"}) /\ DOMAIN w = {"s1"} /\ w.s1 = reg.s1 + 1
    BY <1>2, <1>3, <2>2 DEF Updates, SRegs
  <2>4. "i_cond_main" \in LifeLabels  BY DEF LifeLabels
  <2>5. /\ Typed' /\ LifeMemory' /\ InMain(GameSaves, reg)' /\ Assigned(w, Regs, reg, reg')
        /\ pc' = "i_cond_main" /\ Quiet
    BY <1>1, <1>2, <2>1, <2>2, <2>3, <2>4, GameStep
  <2>6. reg'.s1 = reg.s1 + 1 /\ reg'.s3 = N /\ reg'.s4 = input /\ reg'.s0 = n
    BY <1>2, <2>3, <2>5 DEF Assigned, Regs, Preserved, SRegs
  <2>7. Playing(reg, n)'  BY <1>2, <2>5, <2>6 DEF Playing, Game, Quiet
  <2>8. reg'.s1 * N = Place(reg)
    <3>1. reg.s2 = N  BY <1>2, <1>3, <1>4
    <3>2. (reg.s1 + 1) * N = reg.s1 * N + N  BY <1>2, <1>3
    <3>3. QED  BY <2>6, <3>1, <3>2 DEF Place
  <2>9. UpTo(NewBoard, NextBytes(Board), reg.s1 * N)'
    BY <1>2, <2>5, <2>8 DEF UpTo, Quiet
  <2>10. AtI(n)'  BY <1>2, <1>3, <2>5, <2>6, <2>7, <2>9 DEF AtI
  <2>11. input' = input  BY <2>5 DEF Quiet
  <2>12. QED  BY <1>2, <2>5, <2>10, <2>11 DEF LifeAt
<1>5. CASE ~(reg.s2 >= N)
  <2> DEFINE u == [s5 |-> 0, a0 |-> reg.s1, a1 |-> reg.s2, ra |-> 2]
  <2>1. Step("j_cond_main", u, "neighbours")  BY <1>2, <1>5 DEF JCondMain
  <2>2. Updates(u, Scratch \cup SRegs \cup {"ra"})
    BY <1>2, <1>3 DEF Updates, SRegs, Scratch
  <2>3. PICK w : w = u  OBVIOUS
  <2>4. "neighbours" \in LifeLabels  BY DEF LifeLabels
  <2>5. /\ Typed' /\ LifeMemory' /\ InMain(GameSaves, reg)' /\ Assigned(w, Regs, reg, reg')
        /\ pc' = "neighbours" /\ Quiet
    BY <1>1, <1>2, <2>1, <2>2, <2>3, <2>4, GameStep
  <2>6. /\ reg'.s1 = reg.s1 /\ reg'.s2 = reg.s2 /\ reg'.s3 = N /\ reg'.s4 = input /\ reg'.s0 = n
        /\ reg'.a0 = reg.s1 /\ reg'.a1 = reg.s2 /\ reg'.ra = 2
    BY <1>2, <2>3, <2>5 DEF Assigned, Regs, Preserved, SRegs
  <2>7. Playing(reg, n)'  BY <1>2, <2>5, <2>6 DEF Playing, Game, Quiet
  <2>8. UpTo(NewBoard, NextBytes(Board), Place(reg))'
    BY <1>2, <2>5, <2>6 DEF UpTo, Quiet, Place
  <2>9. CellOf(reg, n)'  BY <1>2, <1>3, <1>5, <2>6, <2>7, <2>8 DEF CellOf
  <2>10. AskCount(n)'  BY <2>5, <2>6, <2>9 DEF AskCount
  <2>11. input' = input  BY <2>5 DEF Quiet
  <2>12. QED  BY <1>2, <2>5, <2>10, <2>11 DEF LifeAt
<1>6. QED  BY <1>4, <1>5

\* A step of a function that main called, and its entry and return.
LEMMA CalleeStep ==
  ASSUME Typed, LifeMemory, NEW saved, Saves(saved), NEW ra, NEW r,
         Called(GameSaves, saved, ra, r), NEW u, Updates(u, Own(saved)),
         NEW label, NEW to, to \in LifeLabels, Step(label, u, to), UNCHANGED Memory
  PROVE  /\ Typed' /\ LifeMemory' /\ Called(GameSaves, saved, ra, r)'
         /\ Assigned(u, Regs, reg, reg') /\ pc = label /\ pc' = to /\ Quiet
<1>1. /\ Typed' /\ Called(GameSaves, saved, ra, r)' /\ Assigned(u, Regs, reg, reg')
      /\ pc = label /\ pc' = to /\ UNCHANGED <<program, input, printed, stack>>
  BY BodyStep
<1>2. UNCHANGED <<Board, NewBoard>>  BY DEF Memory
<1>3. LifeMemory'  BY <1>1, <1>2 DEF LifeMemory
<1>4. QED  BY <1>1, <1>2, <1>3 DEF Quiet

LEMMA CalleeEntered ==
  ASSUME Typed, LifeMemory, InMain(GameSaves, reg), NEW f, NEW saved, Saves(saved),
         saved = Saved(f), Len(GameSaves) + Len(saved) <= MaxWords,
         NEW label, label \in LifeLabels, NEW u, Updates(u, Own(saved) \ {"ra"}),
         Call(f, label, u), NEW r, r = reg
  PROVE  /\ Typed' /\ LifeMemory' /\ Called(GameSaves, saved, r.ra, r)'
         /\ Assigned(u, Regs \ {"fp", "sp"}, reg, reg') /\ pc' = label /\ Quiet
<1>1. /\ Enter(f, saved, 4 * Len(saved), label, u) /\ UNCHANGED <<Board, NewBoard>>
  BY DEF Call, Memory, FrameSize
<1>2. /\ Typed' /\ Called(GameSaves, saved, r.ra, r)'
      /\ Assigned(u, Regs \ {"fp", "sp"}, reg, reg')
      /\ pc' = label /\ UNCHANGED <<program, input, printed>>
  BY <1>1, LifeRoom, CallEntered
<1>3. LifeMemory'  BY <1>1, <1>2 DEF LifeMemory
<1>4. QED  BY <1>1, <1>2, <1>3 DEF Quiet

LEMMA CalleeLeft ==
  ASSUME Typed, LifeMemory, NEW f, NEW saved, Saves(saved), saved = Saved(f),
         Len(GameSaves) + Len(saved) <= MaxWords,
         NEW ra, NEW r, Called(GameSaves, saved, ra, r), ReturnTo[ra] \in LifeLabels,
         NEW u, Updates(u, Scratch), Return(f, u)
  PROVE  /\ Typed' /\ LifeMemory' /\ InMain(GameSaves, reg)' /\ Assigned(u, Scratch, reg, reg')
         /\ \A x \in Preserved : reg'[x] = r[x]
         /\ pc' = ReturnTo[ra] /\ Quiet
<1>1. PICK b : b = reg.fp  OBVIOUS
<1>2. Leave(saved, b, u) /\ UNCHANGED <<Board, NewBoard>>
  BY <1>1 DEF Return, Memory
<1>3. /\ Typed' /\ InMain(GameSaves, reg)' /\ Assigned(u, Scratch, reg, reg')
      /\ \A x \in Preserved : reg'[x] = r[x]
      /\ pc' = ReturnTo[ra] /\ UNCHANGED <<program, input, stack>>
  BY <1>1, <1>2, LifeRoom, CallLeft
<1>4. LifeMemory'  BY <1>2, <1>3 DEF LifeMemory
<1>5. QED  BY <1>2, <1>3, <1>4 DEF Quiet

LEMMA AfterNeighboursKeeps ==
  ASSUME Typed, LifeMemory, NEW n, LifeAt(n), AfterNeighbours
  PROVE  Typed' /\ LifeMemory' /\ LifeAt(n)' /\ Quiet
<1> DEFINE at == reg.s1 * reg.s3 + reg.s2
           u == [s5 |-> reg.v0, t2 |-> at, t1 |-> Board[at], a0 |-> Board[at],
                 a1 |-> reg.v0, ra |-> 3]
<1>1. Step("after_neighbours", u, "decideCell") /\ pc = "after_neighbours" /\ UNCHANGED Memory
  BY DEF AfterNeighbours, Step
<1>2. /\ InMain(GameSaves, reg) /\ CellOf(reg, n) /\ Playing(reg, n)
      /\ reg.s1 \in 0 .. N - 1 /\ reg.s2 \in 0 .. N - 1
      /\ UpTo(NewBoard, NextBytes(Board), Place(reg))
      /\ reg.v0 = Population(Board, reg.s1, reg.s2)
      /\ reg.s3 = N /\ reg.s4 = input /\ reg.s0 = n /\ n <= input /\ n \in 1 .. input + 1
  BY <1>1 DEF LifeAt, HaveCount, CellOf, Playing, Game
<1>3. at = Place(reg) /\ Place(reg) \in Bytes /\ Place(reg) \in Int
  BY <1>2, PlaceIs DEF Place
<1>4. Board[at] \in Int  BY <1>3 DEF LifeMemory, Board01
<1>5. reg.v0 \in Int  BY DEF Typed, Regs, Scratch
<1>6. PICK p, c : p = at /\ c = Board[at]  OBVIOUS
<1> HIDE DEF at
<1>7. PICK w : w = u  OBVIOUS
<1>8. /\ DOMAIN w = {"s5", "t2", "t1", "a0", "a1", "ra"}
      /\ w.s5 = reg.v0 /\ w.t2 = p /\ w.t1 = c /\ w.a0 = c /\ w.a1 = reg.v0 /\ w.ra = 3
  BY <1>6, <1>7
<1>9. Updates(w, Scratch \cup SRegs \cup {"ra"})
  <2>1. w = [x \in DOMAIN w |-> w[x]]  BY <1>7
  <2>2. \A x \in DOMAIN w : w[x] \in Int  BY <1>3, <1>4, <1>5, <1>6, <1>8
  <2>3. w \in [DOMAIN w -> Int]  BY <2>1, <2>2
  <2>4. QED  BY <1>8, <2>3 DEF Updates, SRegs, Scratch
<1>10. "decideCell" \in LifeLabels  BY DEF LifeLabels
<1>11. /\ Typed' /\ LifeMemory' /\ InMain(GameSaves, reg)' /\ Assigned(w, Regs, reg, reg')
       /\ pc' = "decideCell" /\ Quiet
  BY <1>1, <1>2, <1>7, <1>9, <1>10, GameStep
<1>12. /\ reg'.s1 = reg.s1 /\ reg'.s2 = reg.s2 /\ reg'.s3 = N /\ reg'.s4 = input /\ reg'.s0 = n
       /\ reg'.t2 = p /\ reg'.a0 = c /\ reg'.a1 = reg.v0 /\ reg'.ra = 3
  BY <1>2, <1>8, <1>11 DEF Assigned, Regs, Preserved, SRegs
<1>13. Playing(reg, n)'  BY <1>2, <1>11, <1>12 DEF Playing, Game, Quiet
<1>14. Place(reg)' = Place(reg)  BY <1>12 DEF Place
<1>15. CellOf(reg, n)'
  BY <1>2, <1>11, <1>12, <1>13, <1>14 DEF CellOf, UpTo, Quiet
<1>16. AskByte(n)'
  BY <1>2, <1>3, <1>6, <1>11, <1>12, <1>14, <1>15 DEF AskByte, Quiet
<1>17. input' = input  BY <1>11 DEF Quiet
<1>18. QED  BY <1>2, <1>11, <1>16, <1>17 DEF LifeAt

\* The byte decided is written where $t2 says.
LEMMA AfterDecideKeeps ==
  ASSUME Typed, LifeMemory, NEW n, LifeAt(n), AfterDecide
  PROVE  Typed' /\ LifeMemory' /\ LifeAt(n)' /\ UNCHANGED <<program, input, Board>>
<1>1. /\ Step("after_decide", [s2 |-> reg.s2 + 1], "j_cond_main") /\ pc = "after_decide"
      /\ NewBoard' = [NewBoard EXCEPT ![reg.t2] = reg.v0] /\ Board' = Board
  BY DEF AfterDecide, Step
<1>2. /\ InMain(GameSaves, reg) /\ CellOf(reg, n) /\ Playing(reg, n)
      /\ reg.s1 \in 0 .. N - 1 /\ reg.s2 \in 0 .. N - 1
      /\ UpTo(NewBoard, NextBytes(Board), Place(reg))
      /\ reg.t2 = Place(reg) /\ reg.v0 = NextByte(Board, reg.s1, reg.s2)
      /\ reg.s3 = N /\ reg.s4 = input /\ reg.s0 = n /\ n <= input /\ n \in 1 .. input + 1
  BY <1>1 DEF LifeAt, HaveByte, CellOf, Playing, Game
<1>3. /\ Place(reg) \in Bytes /\ Place(reg) \in Nat
      /\ NextBytes(Board)[Place(reg)] = NextByte(Board, reg.s1, reg.s2)
  BY <1>2, PlaceIs
<1>4. N \in Int /\ N \in Nat \ {0} /\ input \in Nat  BY Sizes
<1>5. PICK w : w = [s2 |-> reg.s2 + 1]  OBVIOUS
<1>6. /\ Updates(w, Own(GameSaves)) /\ DOMAIN w = {"s2"} /\ w.s2 = reg.s2 + 1
  BY <1>2, <1>4, <1>5, LifeSaves DEF Updates, SRegs
<1>7. /\ Typed' /\ InMain(GameSaves, reg)' /\ Assigned(w, Regs, reg, reg')
      /\ pc' = "j_cond_main" /\ UNCHANGED <<program, input, printed, stack>>
  BY <1>1, <1>2, <1>5, <1>6, LifeRoom, MainStep
<1>8. reg'.s2 = reg.s2 + 1 /\ reg'.s1 = reg.s1 /\ reg'.s3 = N /\ reg'.s4 = input /\ reg'.s0 = n
  BY <1>2, <1>6, <1>7 DEF Assigned, Regs, Preserved, SRegs
<1>9. PICK p \in Nat, v \in {0, 1} : p = Place(reg) /\ v = NextByte(Board, reg.s1, reg.s2)
  BY <1>3 DEF NextByte, Decided
<1>10. NewBoard' = [NewBoard EXCEPT ![p] = v] /\ v \in {0, 1} /\ p \in Bytes
  BY <1>1, <1>2, <1>3, <1>9
<1>11. Board01(NewBoard)'  BY <1>10 DEF LifeMemory, Board01
<1>12. LifeMemory'  BY <1>1, <1>7, <1>11 DEF LifeMemory, LifeLabels
<1>13. Place(reg') = p + 1
  <2>1. PICK q \in Int : q = reg.s1 * N  BY <1>2, <1>4
  <2>2. Place(reg') = q + (reg.s2 + 1) /\ p = q + reg.s2  BY <1>8, <1>9, <2>1 DEF Place
  <2>3. QED  BY <1>2, <2>2
<1>14. UpTo(NewBoard', NextBytes(Board), p + 1)
  <2> SUFFICES ASSUME NEW l \in 0 .. (p + 1) - 1 PROVE NewBoard'[l] = NextBytes(Board)[l]
    BY DEF UpTo
  <2>1. l \in Bytes  BY <1>4, <1>10 DEF Bytes
  <2>2. CASE l = p
    <3>1. NewBoard'[l] = v  BY <1>10, <2>1, <2>2 DEF LifeMemory, Board01
    <3>2. QED  BY <1>3, <1>9, <2>2, <3>1
  <2>3. CASE l # p
    <3>1. l \in 0 .. p - 1  BY <2>3
    <3>2. NewBoard'[l] = NewBoard[l]  BY <1>10, <2>1, <2>3 DEF LifeMemory, Board01
    <3>3. QED  BY <1>2, <1>9, <3>1, <3>2 DEF UpTo
  <2>4. QED  BY <2>2, <2>3
<1>15. UpTo(NewBoard, NextBytes(Board), Place(reg))'  BY <1>1, <1>13, <1>14
<1>16. Playing(reg, n)'  BY <1>2, <1>7, <1>8 DEF Playing, Game
<1>17. AtJ(n)'  BY <1>2, <1>4, <1>7, <1>8, <1>15, <1>16 DEF AtJ
<1>18. QED  BY <1>1, <1>2, <1>7, <1>12, <1>17 DEF LifeAt

LEMMA IFinishKeeps ==
  ASSUME Typed, LifeMemory, NEW n, LifeAt(n), IFinishMain
  PROVE  Typed' /\ LifeMemory' /\ LifeAt(n)' /\ Quiet /\ NewBoard = NextBytes(Board)
<1>1. /\ Step("i_finish_main", [v0 |-> 4, a0 |-> 0, ra |-> 4], "copyBackAndShow")
      /\ pc = "i_finish_main" /\ UNCHANGED Memory
  BY DEF IFinishMain, Step
<1>2. /\ InMain(GameSaves, reg) /\ NewBoard = NextBytes(Board)
      /\ reg.s3 = N /\ reg.s4 = input /\ reg.s0 = n /\ n <= input /\ n \in 1 .. input + 1
  BY <1>1 DEF LifeAt, AllDecided, Playing, Game
<1>3. PICK w : w = [v0 |-> 4, a0 |-> 0, ra |-> 4]  OBVIOUS
<1>4. Updates(w, Scratch \cup SRegs \cup {"ra"}) /\ DOMAIN w = {"v0", "a0", "ra"} /\ w.ra = 4
  BY <1>3 DEF Updates, Scratch
<1>5. "copyBackAndShow" \in LifeLabels  BY DEF LifeLabels
<1>6. /\ Typed' /\ LifeMemory' /\ InMain(GameSaves, reg)' /\ Assigned(w, Regs, reg, reg')
      /\ pc' = "copyBackAndShow" /\ Quiet
  BY <1>1, <1>2, <1>3, <1>4, <1>5, GameStep
<1>7. reg'.s3 = N /\ reg'.s4 = input /\ reg'.s0 = n /\ reg'.ra = 4
  BY <1>2, <1>4, <1>6 DEF Assigned, Regs, Preserved, SRegs
<1>8. AskCopy(n)'  BY <1>2, <1>6, <1>7 DEF AskCopy, Playing, Game, Quiet
<1>9. input' = input  BY <1>6 DEF Quiet
<1>10. QED  BY <1>2, <1>6, <1>8, <1>9 DEF LifeAt

LEMMA NStepKeeps ==
  ASSUME Typed, LifeMemory, NEW n, LifeAt(n), NStepMain
  PROVE  Typed' /\ LifeMemory' /\ LifeAt(n + 1)' /\ Quiet /\ Board = NewBoard
<1>1. /\ Step("after_copy", [s0 |-> reg.s0 + 1], "n_cond_main")
      /\ pc = "after_copy" /\ UNCHANGED Memory
  BY DEF NStepMain, Step
<1>2. /\ InMain(GameSaves, reg) /\ Board = NewBoard
      /\ reg.s3 = N /\ reg.s4 = input /\ reg.s0 = n /\ n <= input /\ n \in 1 .. input + 1
  BY <1>1 DEF LifeAt, HaveCopy, Playing, Game
<1>3. N \in Int /\ input \in Nat /\ n \in Int /\ n + 1 \in 1 .. input + 1  BY <1>2, Sizes
<1>4. PICK w : w = [s0 |-> reg.s0 + 1]  OBVIOUS
<1>5. Updates(w, Scratch \cup SRegs \cup {"ra"}) /\ DOMAIN w = {"s0"} /\ w.s0 = n + 1
  BY <1>2, <1>3, <1>4 DEF Updates, SRegs
<1>6. "n_cond_main" \in LifeLabels  BY DEF LifeLabels
<1>7. /\ Typed' /\ LifeMemory' /\ InMain(GameSaves, reg)' /\ Assigned(w, Regs, reg, reg')
      /\ pc' = "n_cond_main" /\ Quiet
  BY <1>1, <1>2, <1>4, <1>5, <1>6, GameStep
<1>8. reg'.s3 = N /\ reg'.s4 = input /\ reg'.s0 = n + 1
  BY <1>2, <1>5, <1>7 DEF Assigned, Regs, Preserved, SRegs
<1>9. AtN(n + 1)'  BY <1>7, <1>8 DEF AtN, Game, Quiet
<1>10. input' = input  BY <1>7 DEF Quiet
<1>11. QED  BY <1>2, <1>3, <1>7, <1>9, <1>10 DEF LifeAt

LEMMA NFinishKeeps ==
  ASSUME Typed, LifeMemory, NEW n, LifeAt(n), NFinishMain
  PROVE  Typed' /\ LifeMemory' /\ LifeAt(n)' /\ Quiet /\ pc' = "caller"
<1>1. /\ Leave(GameSaves, reg.fp, [v0 |-> reg.v0]) /\ pc = "n_finish_main"
      /\ UNCHANGED <<Board, NewBoard>>
  BY DEF NFinishMain, Return, GameSaves, Memory
<1>2. InMain(GameSaves, reg) /\ n = input + 1 /\ n \in 1 .. input + 1
  BY <1>1 DEF LifeAt, AtN
<1>3. PICK w, b : w = [v0 |-> reg.v0] /\ b = reg.fp  OBVIOUS
<1>4. Updates(w, Scratch)
  <2>1. reg.v0 \in Int  BY DEF Typed, Regs, Scratch
  <2>2. QED  BY <1>3, <2>1 DEF Updates, Scratch
<1>5. b = -4  BY <1>2, <1>3, EntryTyped DEF InMain, Within
<1>6. Leave(GameSaves, b, w)  BY <1>1, <1>3
<1>7. Typed' /\ Home' /\ pc' = "caller" /\ UNCHANGED <<program, input, stack>>
  BY <1>2, <1>4, <1>5, <1>6, LifeRoom, MainLeft
<1>8. LifeMemory'  BY <1>1, <1>7 DEF LifeMemory, LifeLabels
<1>9. GameOver(n)'  BY <1>2, <1>7 DEF GameOver
<1>10. QED  BY <1>1, <1>2, <1>7, <1>8, <1>9 DEF LifeAt, Quiet

LEMMA DecideCellKeeps ==
  ASSUME Typed, LifeMemory, NEW n, LifeAt(n), DecideCell \/ IfFun1 \/ EndDecideCell
  PROVE  Typed' /\ LifeMemory' /\ LifeAt(n)' /\ Quiet /\ ~Copying'
<1>1. CASE DecideCell
  <2> DEFINE u == [s0 |-> reg.a0, s1 |-> reg.a1]
  <2>1. Call("decideCell", "if_fun1", u) /\ pc = "decideCell"
    BY <1>1 DEF DecideCell, Call, Enter
  <2>2. /\ InMain(GameSaves, reg) /\ CellOf(reg, n) /\ reg.ra = 3 /\ reg.t2 = Place(reg)
        /\ reg.a0 = Board[Place(reg)] /\ reg.a1 = Population(Board, reg.s1, reg.s2)
        /\ n \in 1 .. input + 1
    BY <2>1 DEF LifeAt, AskByte
  <2>3. Updates(u, Own(DecideSaves) \ {"ra"})
    <3>1. reg.a0 \in Int /\ reg.a1 \in Int  BY DEF Typed, Regs, Scratch
    <3>2. QED  BY <3>1, LifeSaves DEF Updates
  <2>4. PICK w, r : w = u /\ r = reg  OBVIOUS
  <2>5. "if_fun1" \in LifeLabels /\ DecideSaves = Saved("decideCell")
    BY DEF LifeLabels, DecideSaves
  <2>6. /\ Typed' /\ LifeMemory' /\ Called(GameSaves, DecideSaves, r.ra, r)'
        /\ Assigned(w, Regs \ {"fp", "sp"}, reg, reg') /\ pc' = "if_fun1" /\ Quiet
    BY <2>1, <2>2, <2>3, <2>4, <2>5, LifeRoom, CalleeEntered
  <2>7. CellOf(r, n)'  BY <2>2, <2>4, <2>6, CellStays
  <2>8. reg'.t2 = r.t2 /\ reg'.s0 = r.a0 /\ reg'.s1 = r.a1
    BY <2>4, <2>6 DEF Assigned, Regs, Scratch
  <2>9. InByte(r, n)'  BY <2>2, <2>4, <2>6, <2>7, <2>8 DEF InByte, Place
  <2>10. Deciding(n)'  BY <2>2, <2>4, <2>6, <2>8, <2>9 DEF Deciding, Quiet, Place
  <2>11. input' = input  BY <2>6 DEF Quiet
  <2>12. QED  BY <2>2, <2>6, <2>10, <2>11 DEF LifeAt, Copying
<1>2. CASE IfFun1
  <2>1. /\ Step("if_fun1", [t0 |-> Ret], "end_decideCell_fun1") /\ pc = "if_fun1"
        /\ UNCHANGED Memory
    BY <1>2 DEF IfFun1, Step
  <2>2. PICK r : /\ InByte(r, n) /\ reg.s0 = Board[Place(r)]
                 /\ reg.s1 = Population(Board, r.s1, r.s2)
    BY <2>1 DEF LifeAt, Deciding
  <2>3. n \in 1 .. input + 1  BY DEF LifeAt
  <2>4. Called(GameSaves, DecideSaves, 3, r) /\ CellOf(r, n) /\ reg.t2 = Place(r)
    BY <2>2 DEF InByte
  <2>5. Ret = NextByte(Board, r.s1, r.s2) /\ Ret \in {0, 1}
    BY <2>2 DEF Ret, NextByte, Decided, Place, CellOf, Playing, Game
  <2>6. PICK w : w = [t0 |-> Ret]  OBVIOUS
  <2>7. Updates(w, Own(DecideSaves)) /\ DOMAIN w = {"t0"} /\ w.t0 = Ret
    BY <2>5, <2>6, LifeSaves DEF Updates, Scratch
  <2>8. "end_decideCell_fun1" \in LifeLabels  BY DEF LifeLabels
  <2>9. /\ Typed' /\ LifeMemory' /\ Called(GameSaves, DecideSaves, 3, r)'
        /\ Assigned(w, Regs, reg, reg') /\ pc' = "end_decideCell_fun1" /\ Quiet
    BY <2>1, <2>4, <2>6, <2>7, <2>8, LifeRoom, CalleeStep
  <2>10. reg'.t2 = reg.t2 /\ reg'.t0 = Ret
    BY <2>7, <2>9 DEF Assigned, Regs, Scratch
  <2>11. InByte(r, n)'  BY <2>4, <2>9, <2>10, CellStays DEF InByte, Place
  <2>12. HasDecided(n)'  BY <2>5, <2>9, <2>10, <2>11 DEF HasDecided, Quiet
  <2>13. input' = input  BY <2>9 DEF Quiet
  <2>14. QED  BY <2>3, <2>9, <2>12, <2>13 DEF LifeAt, Copying
<1>3. CASE EndDecideCell
  <2>1. pc = "end_decideCell_fun1" /\ Return("decideCell", [v0 |-> reg.t0])
    BY <1>3 DEF EndDecideCell
  <2>2. PICK r : InByte(r, n) /\ reg.t0 = NextByte(Board, r.s1, r.s2)
    BY <2>1 DEF LifeAt, HasDecided
  <2>3. n \in 1 .. input + 1  BY DEF LifeAt
  <2>4. Called(GameSaves, DecideSaves, 3, r) /\ CellOf(r, n) /\ reg.t2 = Place(r)
    BY <2>2 DEF InByte
  <2>5. PICK w : w = [v0 |-> reg.t0]  OBVIOUS
  <2>6. Updates(w, Scratch) /\ DOMAIN w = {"v0"} /\ w.v0 = reg.t0
    <3>1. reg.t0 \in Int  BY DEF Typed, Regs, Scratch
    <3>2. QED  BY <2>5, <3>1 DEF Updates, Scratch
  <2>7. ReturnTo[3] = "after_decide" /\ "after_decide" \in LifeLabels
    BY DEF ReturnTo, LifeLabels
  <2>8. DecideSaves = Saved("decideCell")  BY DEF DecideSaves
  <2>9. ReturnTo[3] \in LifeLabels  BY <2>7
  <2>10. /\ Typed' /\ LifeMemory' /\ InMain(GameSaves, reg)' /\ Assigned(w, Scratch, reg, reg')
         /\ \A x \in Preserved : reg'[x] = r[x]
         /\ pc' = ReturnTo[3] /\ Quiet
    BY <2>1, <2>4, <2>5, <2>6, <2>8, <2>9, LifeRoom, CalleeLeft
  <2>11. /\ reg'.v0 = reg.t0 /\ reg'.t2 = reg.t2
         /\ \A x \in {"s0", "s1", "s2", "s3", "s4"} : reg'[x] = r[x]
    BY <2>6, <2>10 DEF Assigned, Scratch, Preserved, SRegs
  <2>12. CellOf(r, n)'  BY <2>4, <2>10, CellStays
  <2>13. CellOf(reg, n)'  BY <2>11, <2>12 DEF CellOf, Playing, Game, Place
  <2>14. HaveByte(n)'
    BY <2>2, <2>4, <2>10, <2>11, <2>13 DEF HaveByte, Place, Quiet
  <2>15. input' = input  BY <2>10 DEF Quiet
  <2>16. QED  BY <2>3, <2>7, <2>10, <2>14, <2>15 DEF LifeAt, Copying
<1>4. QED  BY <1>1, <1>2, <1>3

-----------------------------------------------------------------------------
(* The loops of neighbours.                                                *)

LEMMA NeighboursKeeps ==
  ASSUME Typed, LifeMemory, NEW n, LifeAt(n), Neighbours
  PROVE  Typed' /\ LifeMemory' /\ LifeAt(n)' /\ Quiet
<1> DEFINE u == [s0 |-> reg.a0, s1 |-> reg.a1, s4 |-> 0, s5 |-> N, s2 |-> -1]
<1>1. Call("neighbours", "x_cond_fun2", u) /\ pc = "neighbours"
  BY DEF Neighbours, Call, Enter
<1>2. /\ InMain(GameSaves, reg) /\ CellOf(reg, n) /\ reg.ra = 2
      /\ reg.a0 = reg.s1 /\ reg.a1 = reg.s2 /\ n \in 1 .. input + 1
  BY <1>1 DEF LifeAt, AskCount
<1>3. PICK w, r : w = u /\ r = reg  OBVIOUS
<1>4. /\ DOMAIN w = {"s0", "s1", "s4", "s5", "s2"} /\ w.s0 = r.s1 /\ w.s1 = r.s2
      /\ w.s4 = 0 /\ w.s5 = N /\ w.s2 = -1
  BY <1>2, <1>3
<1>5. Updates(w, Own(NearSaves) \ {"ra"})
  <2>1. reg.a0 \in Int /\ reg.a1 \in Int /\ N \in Int  BY Sizes DEF Typed, Regs, Scratch
  <2>2. \A x \in DOMAIN w : w[x] \in Int  BY <1>2, <1>3, <1>4, <2>1
  <2>3. w = [x \in DOMAIN w |-> w[x]]  BY <1>3
  <2>4. w \in [DOMAIN w -> Int]  BY <2>2, <2>3
  <2>5. QED  BY <1>4, <2>4, LifeSaves DEF Updates, SRegs
<1>6. "x_cond_fun2" \in LifeLabels /\ NearSaves = Saved("neighbours")
  BY DEF LifeLabels, NearSaves
<1>7. /\ Typed' /\ LifeMemory' /\ Called(GameSaves, NearSaves, r.ra, r)'
      /\ Assigned(w, Regs \ {"fp", "sp"}, reg, reg') /\ pc' = "x_cond_fun2" /\ Quiet
  BY <1>1, <1>2, <1>3, <1>5, <1>6, LifeRoom, CalleeEntered
<1>8. CellOf(r, n)'  BY <1>2, <1>3, <1>7, CellStays
<1>9. reg'.s0 = r.s1 /\ reg'.s1 = r.s2 /\ reg'.s4 = 0 /\ reg'.s5 = N /\ reg'.s2 = -1
  BY <1>4, <1>7 DEF Assigned
<1>10. InCount(r, n)'  BY <1>2, <1>3, <1>7, <1>8, <1>9 DEF InCount
<1>11. SoFar(reg.s2, -1)'  BY <1>9, CountFacts DEF SoFar
<1>12. AtX(n)'  BY <1>9, <1>10, <1>11 DEF AtX
<1>13. input' = input  BY <1>7 DEF Quiet
<1>14. QED  BY <1>2, <1>7, <1>12, <1>13 DEF LifeAt

\* A step in the loops.
Loops == Scratch \cup {"s2", "s3", "s4"}

LEMMA CountStep ==
  ASSUME Typed, LifeMemory, NEW n, NEW r, InCount(r, n), NEW u, Updates(u, Loops),
         NEW label, NEW to, to \in LifeLabels, Step(label, u, to), UNCHANGED Memory
  PROVE  /\ Typed' /\ LifeMemory' /\ InCount(r, n)' /\ reg'.s0 = reg.s0 /\ reg'.s1 = reg.s1
         /\ Assigned(u, Loops, reg, reg') /\ pc = label /\ pc' = to /\ Quiet
<1>1. Called(GameSaves, NearSaves, 2, r) /\ CellOf(r, n)  BY DEF InCount
<1>2. Updates(u, Own(NearSaves))
  BY LifeSaves DEF Updates, Loops, SRegs
<1>3. /\ Typed' /\ LifeMemory' /\ Called(GameSaves, NearSaves, 2, r)'
      /\ Assigned(u, Regs, reg, reg') /\ pc = label /\ pc' = to /\ Quiet
  BY <1>1, <1>2, LifeRoom, CalleeStep
<1>4. reg'.s0 = reg.s0 /\ reg'.s1 = reg.s1 /\ reg'.s5 = reg.s5
  BY <1>3 DEF Updates, Assigned, Loops, Regs, Preserved, SRegs, Scratch
<1>5. Assigned(u, Loops, reg, reg')
  BY <1>3 DEF Assigned, Loops, Regs, Preserved, SRegs
<1>6. InCount(r, n)'  BY <1>1, <1>3, <1>4, CellStays DEF InCount
<1>7. QED  BY <1>3, <1>4, <1>5, <1>6

LEMMA XCondKeeps ==
  ASSUME Typed, LifeMemory, NEW n, LifeAt(n), XCond
  PROVE  Typed' /\ LifeMemory' /\ LifeAt(n)' /\ Quiet
<1>1. /\ LoopHead("x_cond_fun2", reg.s2, 1, "y_cond_fun2", [s3 |-> -1], "x_finish_fun2")
      /\ UNCHANGED Memory
  BY DEF XCond
<1>2. pc = "x_cond_fun2" /\ n \in 1 .. input + 1  BY <1>1 DEF LoopHead, Step, LifeAt
<1>3. PICK r : InCount(r, n) /\ reg.s2 \in -1 .. 2 /\ SoFar(reg.s2, -1)
  BY <1>2 DEF LifeAt, AtX
<1>4. CASE reg.s2 > 1
  <2>1. Step("x_cond_fun2", <<>>, "x_finish_fun2")  BY <1>1, <1>4 DEF LoopHead
  <2>2. PICK w : w = <<>>  OBVIOUS
  <2>3. Updates(w, Loops) /\ DOMAIN w = {}  BY <2>2 DEF Updates
  <2>4. "x_finish_fun2" \in LifeLabels  BY DEF LifeLabels
  <2>5. /\ Typed' /\ LifeMemory' /\ InCount(r, n)' /\ reg'.s0 = reg.s0 /\ reg'.s1 = reg.s1
        /\ Assigned(w, Loops, reg, reg') /\ pc' = "x_finish_fun2" /\ Quiet
    BY <1>1, <1>3, <2>1, <2>2, <2>3, <2>4, CountStep
  <2>6. reg'.s4 = reg.s4  BY <2>3, <2>5 DEF Assigned, Loops
  <2>7. reg.s2 = 2  BY <1>3, <1>4
  <2>8. reg.s4 = Population(Board, reg.s0, reg.s1)
    BY <1>3, <2>7, CountFacts DEF SoFar
  <2>9. reg.s0 = r.s1 /\ reg.s1 = r.s2  BY <1>3 DEF InCount
  <2>10. AllTried(n)'  BY <2>5, <2>6, <2>8, <2>9 DEF AllTried, Quiet
  <2>11. input' = input  BY <2>5 DEF Quiet
  <2>12. QED  BY <1>2, <2>5, <2>10, <2>11 DEF LifeAt
<1>5. CASE ~(reg.s2 > 1)
  <2>1. Step("x_cond_fun2", [s3 |-> -1], "y_cond_fun2")  BY <1>1, <1>5 DEF LoopHead
  <2>2. PICK w : w = [s3 |-> -1]  OBVIOUS
  <2>3. Updates(w, Loops) /\ DOMAIN w = {"s3"} /\ w.s3 = -1  BY <2>2 DEF Updates, Loops
  <2>4. "y_cond_fun2" \in LifeLabels  BY DEF LifeLabels
  <2>5. /\ Typed' /\ LifeMemory' /\ InCount(r, n)' /\ reg'.s0 = reg.s0 /\ reg'.s1 = reg.s1
        /\ Assigned(w, Loops, reg, reg') /\ pc' = "y_cond_fun2" /\ Quiet
    BY <1>1, <1>3, <2>1, <2>2, <2>3, <2>4, CountStep
  <2>6. reg'.s4 = reg.s4 /\ reg'.s2 = reg.s2 /\ reg'.s3 = -1
    BY <2>3, <2>5 DEF Assigned, Loops
  <2>7. SoFar(reg.s2, reg.s3)'  BY <1>3, <2>5, <2>6 DEF SoFar, Quiet
  <2>8. AtY(n)'  BY <1>3, <1>5, <2>5, <2>6, <2>7 DEF AtY
  <2>9. input' = input  BY <2>5 DEF Quiet
  <2>10. QED  BY <1>2, <2>5, <2>8, <2>9 DEF LifeAt
<1>6. QED  BY <1>4, <1>5

LEMMA YCondKeeps ==
  ASSUME Typed, LifeMemory, NEW n, LifeAt(n), YCond
  PROVE  Typed' /\ LifeMemory' /\ LifeAt(n)' /\ Quiet
<1>1. pc = "y_cond_fun2" /\ n \in 1 .. input + 1 /\ UNCHANGED Memory
  BY DEF YCond, Step, LifeAt
<1>2. PICK r : /\ InCount(r, n) /\ reg.s2 \in -1 .. 1 /\ reg.s3 \in -1 .. 2
               /\ SoFar(reg.s2, reg.s3)
  BY <1>1 DEF LifeAt, AtY
<1>3. CASE reg.s3 > 1
  <2>1. Step("y_cond_fun2", [s2 |-> reg.s2 + 1], "x_cond_fun2")  BY <1>3 DEF YCond
  <2>2. PICK w : w = [s2 |-> reg.s2 + 1]  OBVIOUS
  <2>3. Updates(w, Loops) /\ DOMAIN w = {"s2"} /\ w.s2 = reg.s2 + 1
    BY <1>2, <2>2 DEF Updates, Loops
  <2>4. "x_cond_fun2" \in LifeLabels  BY DEF LifeLabels
  <2>5. /\ Typed' /\ LifeMemory' /\ InCount(r, n)' /\ reg'.s0 = reg.s0 /\ reg'.s1 = reg.s1
        /\ Assigned(w, Loops, reg, reg') /\ pc' = "x_cond_fun2" /\ Quiet
    BY <1>1, <1>2, <2>1, <2>2, <2>3, <2>4, CountStep
  <2>6. reg'.s4 = reg.s4 /\ reg'.s2 = reg.s2 + 1  BY <2>3, <2>5 DEF Assigned, Loops
  <2>7. reg.s3 = 2  BY <1>2, <1>3
  <2>8. reg.s4 = CountTo(Board, reg.s0, reg.s1, reg.s2 + 1, -1)
    BY <1>2, <2>7, CountFacts DEF SoFar
  <2>9. SoFar(reg.s2, -1)'  BY <2>5, <2>6, <2>8 DEF SoFar, Quiet
  <2>10. AtX(n)'  BY <1>2, <2>5, <2>6, <2>9 DEF AtX
  <2>11. input' = input  BY <2>5 DEF Quiet
  <2>12. QED  BY <1>1, <2>5, <2>10, <2>11 DEF LifeAt
<1>4. CASE ~(reg.s3 > 1)
  <2> DEFINE u == [t0 |-> reg.s0 + reg.s2, t1 |-> reg.s5 - 1, t2 |-> reg.s1 + reg.s3]
  <2>1. Step("y_cond_fun2", u, "first_if_fun2")  BY <1>4 DEF YCond
  <2>2. PICK w : w = u  OBVIOUS
  <2>3. /\ DOMAIN w = {"t0", "t1", "t2"} /\ w.t0 = reg.s0 + reg.s2
        /\ w.t1 = reg.s5 - 1 /\ w.t2 = reg.s1 + reg.s3
    BY <2>2
  <2>4. Updates(w, Loops)
    <3>1. reg.s0 \in Int /\ reg.s1 \in Int /\ reg.s5 \in Int
      BY DEF Typed, Regs, Preserved, SRegs
    <3>2. QED  BY <1>2, <2>2, <3>1 DEF Updates, Loops, Scratch
  <2>5. "first_if_fun2" \in LifeLabels  BY DEF LifeLabels
  <2>6. /\ Typed' /\ LifeMemory' /\ InCount(r, n)' /\ reg'.s0 = reg.s0 /\ reg'.s1 = reg.s1
        /\ Assigned(w, Loops, reg, reg') /\ pc' = "first_if_fun2" /\ Quiet
    BY <1>1, <1>2, <2>1, <2>2, <2>4, <2>5, CountStep
  <2>7. /\ reg'.s4 = reg.s4 /\ reg'.s2 = reg.s2 /\ reg'.s3 = reg.s3
        /\ reg'.t0 = reg.s0 + reg.s2 /\ reg'.t1 = reg.s5 - 1 /\ reg'.t2 = reg.s1 + reg.s3
    BY <2>3, <2>6 DEF Assigned, Loops
  <2>8. SoFar(reg.s2, reg.s3)'  BY <1>2, <2>6, <2>7 DEF SoFar, Quiet
  <2>9. AtOffset(r, n)'  BY <1>2, <1>4, <2>6, <2>7 DEF AtOffset
  <2>10. Looking'  BY <2>6, <2>7 DEF Looking
  <2>11. reg'.t1 = N - 1  BY <1>2, <2>7 DEF InCount
  <2>12. Trying(n)'  BY <2>8, <2>9, <2>10, <2>11 DEF Trying
  <2>13. input' = input  BY <2>6 DEF Quiet
  <2>14. QED  BY <1>1, <2>6, <2>12, <2>13 DEF LifeAt
<1>5. QED  BY <1>3, <1>4

LEMMA BesideIs ==
  ASSUME NEW bytes, NEW a, NEW b, NEW x \in -1 .. 1, NEW y \in -1 .. 1
  PROVE  <<x, y>> \in Beside(bytes, a, b)
           <=> /\ <<x, y>> # <<0, 0>> /\ a + x \in 0 .. N - 1 /\ b + y \in 0 .. N - 1
               /\ bytes[(a + x) * N + (b + y)] = 1
<1>1. <<x, y>> \in Offsets  BY DEF Offsets
<1>2. <<x, y>> \in Beside(bytes, a, b)
        <=> <<x, y>> # <<0, 0>> /\ <<a + x, b + y>> \in Alive(bytes)
  BY <1>1 DEF Beside
<1>3. PICK p, q : p = a + x /\ q = b + y  OBVIOUS
<1>4. <<p, q>> \in Alive(bytes) <=> p \in 0 .. N - 1 /\ q \in 0 .. N - 1 /\ bytes[p * N + q] = 1
  BY DEF Alive, Cells
<1>5. QED  BY <1>2, <1>3, <1>4

LEMMA IfsKeep ==
  ASSUME Typed, LifeMemory, NEW n, LifeAt(n), Ifs
  PROVE  Typed' /\ LifeMemory' /\ LifeAt(n)' /\ Quiet
<1> DEFINE skip == \/ reg.t0 < 0 \/ reg.t0 > reg.t1 \/ reg.t2 < 0 \/ reg.t2 > reg.t1
                   \/ reg.s2 = 0 /\ reg.s3 = 0
<1>1. /\ Step("first_if_fun2", <<>>, IF skip THEN "y_step_fun2" ELSE "end_third_if_fun2")
      /\ UNCHANGED Memory
  BY DEF Ifs
<1>2. pc = "first_if_fun2" /\ n \in 1 .. input + 1  BY <1>1 DEF Step, LifeAt
<1>3. PICK r : /\ InCount(r, n) /\ reg.s2 \in -1 .. 1 /\ reg.s3 \in -1 .. 1
               /\ SoFar(reg.s2, reg.s3) /\ Looking /\ reg.t1 = N - 1
  BY <1>2 DEF LifeAt, Trying, AtOffset
<1>4. /\ N \in Int /\ reg.t0 \in Int /\ reg.t2 \in Int
  BY Sizes DEF Typed, Regs, Scratch
<1>5. skip <=> ~(/\ reg.t0 \in 0 .. N - 1 /\ reg.t2 \in 0 .. N - 1
                 /\ <<reg.s2, reg.s3>> # <<0, 0>>)
  BY <1>3, <1>4
<1> HIDE DEF skip
<1>6. PICK w : w = <<>>  OBVIOUS
<1>7. Updates(w, Loops) /\ DOMAIN w = {}  BY <1>6 DEF Updates
<1>8. CASE skip
  <2>1. Step("first_if_fun2", <<>>, "y_step_fun2")  BY <1>1, <1>8
  <2>2. "y_step_fun2" \in LifeLabels  BY DEF LifeLabels
  <2>3. /\ Typed' /\ LifeMemory' /\ InCount(r, n)' /\ reg'.s0 = reg.s0 /\ reg'.s1 = reg.s1
        /\ Assigned(w, Loops, reg, reg') /\ pc' = "y_step_fun2" /\ Quiet
    BY <1>1, <1>3, <1>6, <1>7, <2>1, <2>2, CountStep
  <2>4. reg'.s4 = reg.s4 /\ reg'.s2 = reg.s2 /\ reg'.s3 = reg.s3
    BY <1>7, <2>3 DEF Assigned, Loops
  <2>5. <<reg.s2, reg.s3>> \notin Beside(Board, reg.s0, reg.s1)
    <3>1. PICK x \in -1 .. 1, y \in -1 .. 1 : x = reg.s2 /\ y = reg.s3  BY <1>3
    <3>2. ~(/\ reg.s0 + x \in 0 .. N - 1 /\ reg.s1 + y \in 0 .. N - 1 /\ <<x, y>> # <<0, 0>>)
      BY <1>3, <1>5, <1>8, <3>1 DEF Looking
    <3>3. PICK p, q : p = reg.s0 /\ q = reg.s1  OBVIOUS
    <3>4. <<x, y>> \in Beside(Board, p, q)
            => <<x, y>> # <<0, 0>> /\ p + x \in 0 .. N - 1 /\ q + y \in 0 .. N - 1
      BY BesideIs
    <3>5. <<x, y>> \notin Beside(Board, p, q)  BY <3>2, <3>3, <3>4
    <3>6. QED  BY <3>1, <3>3, <3>5
  <2>6. CountTo(Board, reg.s0, reg.s1, reg.s2, reg.s3 + 1)
          = CountTo(Board, reg.s0, reg.s1, reg.s2, reg.s3)
    <3>1. PICK p, q, x, y : p = reg.s0 /\ q = reg.s1 /\ x = reg.s2 /\ y = reg.s3  OBVIOUS
    <3>2. CountTo(Board, p, q, x, y) \in Nat  BY BesideFinite
    <3>3. x \in -1 .. 1 /\ y \in -1 .. 1 /\ <<x, y>> \notin Beside(Board, p, q)
      BY <1>3, <2>5, <3>1
    <3>4. CountTo(Board, p, q, x, y + 1) = CountTo(Board, p, q, x, y)
      BY <3>2, <3>3, CountFacts
    <3>5. QED  BY <3>1, <3>4
  <2>7. SoFar(reg.s2, reg.s3 + 1)'  BY <1>3, <2>3, <2>4, <2>6 DEF SoFar, Quiet
  <2>8. Tried(n)'  BY <1>3, <2>3, <2>4, <2>7 DEF Tried, AtOffset
  <2>9. input' = input  BY <2>3 DEF Quiet
  <2>10. QED  BY <1>2, <2>3, <2>8, <2>9 DEF LifeAt
<1>9. CASE ~skip
  <2>1. Step("first_if_fun2", <<>>, "end_third_if_fun2")  BY <1>1, <1>9
  <2>2. "end_third_if_fun2" \in LifeLabels  BY DEF LifeLabels
  <2>3. /\ Typed' /\ LifeMemory' /\ InCount(r, n)' /\ reg'.s0 = reg.s0 /\ reg'.s1 = reg.s1
        /\ Assigned(w, Loops, reg, reg') /\ pc' = "end_third_if_fun2" /\ Quiet
    BY <1>1, <1>3, <1>6, <1>7, <2>1, <2>2, CountStep
  <2>4. /\ reg'.s4 = reg.s4 /\ reg'.s2 = reg.s2 /\ reg'.s3 = reg.s3
        /\ reg'.t0 = reg.t0 /\ reg'.t2 = reg.t2
    BY <1>7, <2>3 DEF Assigned, Loops, Scratch
  <2>5. SoFar(reg.s2, reg.s3)'  BY <1>3, <2>3, <2>4 DEF SoFar, Quiet
  <2>6. Looking'  BY <1>3, <2>3, <2>4 DEF Looking
  <2>7. AtOffset(r, n)'  BY <1>3, <2>3, <2>4 DEF AtOffset
  <2>8. OnBoard(n)'  BY <1>5, <1>9, <2>4, <2>5, <2>6, <2>7 DEF OnBoard
  <2>9. input' = input  BY <2>3 DEF Quiet
  <2>10. QED  BY <1>2, <2>3, <2>8, <2>9 DEF LifeAt
<1>10. QED  BY <1>8, <1>9

LEMMA CountCellKeeps ==
  ASSUME Typed, LifeMemory, NEW n, LifeAt(n), CountCell
  PROVE  Typed' /\ LifeMemory' /\ LifeAt(n)' /\ Quiet
<1>1. PICK cell : cell = Board[reg.t0 * reg.s5 + reg.t2]  OBVIOUS
<1> DEFINE u == [a2 |-> 0, t3 |-> cell, s4 |-> reg.s4 + IF cell = 1 THEN 1 ELSE 0]
<1>2. Step("end_third_if_fun2", u, "y_step_fun2") /\ UNCHANGED Memory
  BY <1>1 DEF CountCell
<1>3. pc = "end_third_if_fun2" /\ n \in 1 .. input + 1  BY <1>2 DEF Step, LifeAt
<1>4. PICK r : /\ InCount(r, n) /\ reg.s2 \in -1 .. 1 /\ reg.s3 \in -1 .. 1
               /\ SoFar(reg.s2, reg.s3) /\ Looking
               /\ reg.t0 \in 0 .. N - 1 /\ reg.t2 \in 0 .. N - 1
               /\ <<reg.s2, reg.s3>> # <<0, 0>>
  BY <1>3 DEF LifeAt, OnBoard, AtOffset
<1>5. PICK a \in 0 .. N - 1, b \in 0 .. N - 1 : a = reg.t0 /\ b = reg.t2  BY <1>4
<1>6. reg.s5 = N  BY <1>4 DEF InCount
<1>7. cell = Board[a * N + b] /\ cell \in {0, 1}
  <2>1. cell = Board[a * N + b]  BY <1>1, <1>5, <1>6
  <2>2. PICK k : k = a * N + b  OBVIOUS
  <2>3. k \in Bytes  BY <2>2, CellAt
  <2>4. QED  BY <2>1, <2>2, <2>3 DEF LifeMemory, Board01
<1>8. <<reg.s2, reg.s3>> \in Beside(Board, reg.s0, reg.s1) <=> cell = 1
  <2>1. PICK x \in -1 .. 1, y \in -1 .. 1 : x = reg.s2 /\ y = reg.s3  BY <1>4
  <2>2. a = reg.s0 + x /\ b = reg.s1 + y  BY <1>4, <1>5, <2>1 DEF Looking
  <2>3. <<x, y>> \in Beside(Board, reg.s0, reg.s1)
          <=> /\ <<x, y>> # <<0, 0>> /\ reg.s0 + x \in 0 .. N - 1 /\ reg.s1 + y \in 0 .. N - 1
              /\ Board[(reg.s0 + x) * N + (reg.s1 + y)] = 1
    <3>1. PICK p, q : p = reg.s0 /\ q = reg.s1  OBVIOUS
    <3>2. <<x, y>> \in Beside(Board, p, q)
            <=> /\ <<x, y>> # <<0, 0>> /\ p + x \in 0 .. N - 1 /\ q + y \in 0 .. N - 1
                /\ Board[(p + x) * N + (q + y)] = 1
      BY BesideIs
    <3>3. QED  BY <3>1, <3>2, Zenon
  <2>4. <<x, y>> \in Beside(Board, reg.s0, reg.s1) <=> <<x, y>> # <<0, 0>> /\ cell = 1
    BY <1>7, <2>2, <2>3
  <2>5. QED  BY <1>4, <2>1, <2>4
<1>9. PICK sum : sum = reg.s4 + IF cell = 1 THEN 1 ELSE 0  OBVIOUS
<1>10. sum = CountTo(Board, reg.s0, reg.s1, reg.s2, reg.s3 + 1)
  BY <1>4, <1>8, <1>9, CountFacts DEF SoFar
<1>11. PICK w : w = u  OBVIOUS
<1>12. DOMAIN w = {"a2", "t3", "s4"} /\ w.a2 = 0 /\ w.t3 = cell /\ w.s4 = sum
  BY <1>9, <1>11
<1>13. Updates(w, Loops)
  <2>1. sum \in Int
    <3>1. PICK p, q, x, y : p = reg.s0 /\ q = reg.s1 /\ x = reg.s2 /\ y = reg.s3 + 1
      OBVIOUS
    <3>2. CountTo(Board, p, q, x, y) \in Nat  BY BesideFinite
    <3>3. sum = CountTo(Board, p, q, x, y)  BY <1>10, <3>1
    <3>4. QED  BY <3>2, <3>3
  <2>2. \A x \in DOMAIN w : w[x] \in Int  BY <1>7, <1>12, <2>1
  <2>3. w = [x \in DOMAIN w |-> w[x]]  BY <1>11
  <2>4. w \in [DOMAIN w -> Int]  BY <2>2, <2>3
  <2>5. QED  BY <1>12, <2>4 DEF Updates, Loops, Scratch
<1>14. "y_step_fun2" \in LifeLabels  BY DEF LifeLabels
<1>15. /\ Typed' /\ LifeMemory' /\ InCount(r, n)' /\ reg'.s0 = reg.s0 /\ reg'.s1 = reg.s1
       /\ Assigned(w, Loops, reg, reg') /\ pc' = "y_step_fun2" /\ Quiet
  BY <1>2, <1>4, <1>11, <1>13, <1>14, CountStep
<1>16. reg'.s4 = sum /\ reg'.s2 = reg.s2 /\ reg'.s3 = reg.s3
  BY <1>12, <1>15 DEF Assigned, Loops
<1>17. SoFar(reg.s2, reg.s3 + 1)'  BY <1>10, <1>15, <1>16 DEF SoFar, Quiet
<1>18. Tried(n)'  BY <1>4, <1>15, <1>16, <1>17 DEF Tried, AtOffset
<1>19. input' = input  BY <1>15 DEF Quiet
<1>20. QED  BY <1>3, <1>15, <1>18, <1>19 DEF LifeAt

LEMMA YStepKeeps ==
  ASSUME Typed, LifeMemory, NEW n, LifeAt(n), YStep
  PROVE  Typed' /\ LifeMemory' /\ LifeAt(n)' /\ Quiet
<1>1. Step("y_step_fun2", [s3 |-> reg.s3 + 1], "y_cond_fun2") /\ UNCHANGED Memory
  BY DEF YStep
<1>2. pc = "y_step_fun2" /\ n \in 1 .. input + 1  BY <1>1 DEF Step, LifeAt
<1>3. PICK r : /\ InCount(r, n) /\ reg.s2 \in -1 .. 1 /\ reg.s3 \in -1 .. 1
               /\ SoFar(reg.s2, reg.s3 + 1)
  BY <1>2 DEF LifeAt, Tried, AtOffset
<1>4. PICK w : w = [s3 |-> reg.s3 + 1]  OBVIOUS
<1>5. Updates(w, Loops) /\ DOMAIN w = {"s3"} /\ w.s3 = reg.s3 + 1
  BY <1>3, <1>4 DEF Updates, Loops
<1>6. "y_cond_fun2" \in LifeLabels  BY DEF LifeLabels
<1>7. /\ Typed' /\ LifeMemory' /\ InCount(r, n)' /\ reg'.s0 = reg.s0 /\ reg'.s1 = reg.s1
      /\ Assigned(w, Loops, reg, reg') /\ pc' = "y_cond_fun2" /\ Quiet
  BY <1>1, <1>3, <1>4, <1>5, <1>6, CountStep
<1>8. reg'.s4 = reg.s4 /\ reg'.s2 = reg.s2 /\ reg'.s3 = reg.s3 + 1
  BY <1>5, <1>7 DEF Assigned, Loops
<1>9. SoFar(reg.s2, reg.s3)'  BY <1>3, <1>7, <1>8 DEF SoFar, Quiet
<1>10. AtY(n)'  BY <1>3, <1>7, <1>8, <1>9 DEF AtY
<1>11. input' = input  BY <1>7 DEF Quiet
<1>12. QED  BY <1>2, <1>7, <1>10, <1>11 DEF LifeAt

LEMMA XFinishKeeps ==
  ASSUME Typed, LifeMemory, NEW n, LifeAt(n), XFinish
  PROVE  Typed' /\ LifeMemory' /\ LifeAt(n)' /\ Quiet /\ pc' = "after_neighbours"
<1>1. pc = "x_finish_fun2" /\ Return("neighbours", [v0 |-> reg.s4])
  BY DEF XFinish
<1>2. PICK r : InCount(r, n) /\ reg.s4 = Population(Board, r.s1, r.s2)
  BY <1>1 DEF LifeAt, AllTried
<1>3. n \in 1 .. input + 1  BY DEF LifeAt
<1>4. Called(GameSaves, NearSaves, 2, r) /\ CellOf(r, n)  BY <1>2 DEF InCount
<1>5. PICK w : w = [v0 |-> reg.s4]  OBVIOUS
<1>6. Updates(w, Scratch) /\ DOMAIN w = {"v0"} /\ w.v0 = reg.s4
  <2>1. reg.s4 \in Int  BY DEF Typed, Regs, Preserved, SRegs
  <2>2. QED  BY <1>5, <2>1 DEF Updates, Scratch
<1>7. ReturnTo[2] = "after_neighbours" /\ "after_neighbours" \in LifeLabels
  BY DEF ReturnTo, LifeLabels
<1>8. ReturnTo[2] \in LifeLabels /\ NearSaves = Saved("neighbours")  BY <1>7 DEF NearSaves
<1>9. /\ Typed' /\ LifeMemory' /\ InMain(GameSaves, reg)' /\ Assigned(w, Scratch, reg, reg')
      /\ \A x \in Preserved : reg'[x] = r[x]
      /\ pc' = ReturnTo[2] /\ Quiet
  BY <1>1, <1>4, <1>5, <1>6, <1>8, LifeRoom, CalleeLeft
<1>10. reg'.v0 = reg.s4 /\ \A x \in {"s0", "s1", "s2", "s3", "s4"} : reg'[x] = r[x]
  BY <1>6, <1>9 DEF Assigned, Preserved, SRegs
<1>11. CellOf(r, n)'  BY <1>4, <1>9, CellStays
<1>12. CellOf(reg, n)'  BY <1>10, <1>11 DEF CellOf, Playing, Game, Place
<1>13. HaveCount(n)'  BY <1>2, <1>9, <1>10, <1>12 DEF HaveCount, Quiet
<1>14. input' = input  BY <1>9 DEF Quiet
<1>15. QED  BY <1>3, <1>7, <1>9, <1>13, <1>14 DEF LifeAt

-----------------------------------------------------------------------------
(* copyBackAndShow.                                                        *)

LEMMA CopyEnters ==
  ASSUME Typed, LifeMemory, NEW n, LifeAt(n), CopyBackAndShow
  PROVE  Typed' /\ LifeMemory' /\ LifeAt(n)' /\ Quiet
<1>1. Call("copyBackAndShow", "i_cond_fun3", [s2 |-> N, s0 |-> 0]) /\ pc = "copyBackAndShow"
  BY DEF CopyBackAndShow, Call, Enter
<1>2. InMain(GameSaves, reg) /\ Playing(reg, n) /\ reg.ra = 4 /\ n \in 1 .. input + 1
  BY <1>1 DEF LifeAt, AskCopy
<1>3. PICK w, r : w = [s2 |-> N, s0 |-> 0] /\ r = reg  OBVIOUS
<1>4. N \in Int /\ N \in Nat  BY Sizes
<1>5. /\ Updates(w, Own(CopySaves) \ {"ra"}) /\ DOMAIN w = {"s2", "s0"}
      /\ w.s2 = N /\ w.s0 = 0
  BY <1>3, <1>4, LifeSaves DEF Updates
<1>6. "i_cond_fun3" \in LifeLabels /\ CopySaves = Saved("copyBackAndShow")
  BY DEF LifeLabels, CopySaves
<1>7. /\ Typed' /\ LifeMemory' /\ Called(GameSaves, CopySaves, r.ra, r)'
      /\ Assigned(w, Regs \ {"fp", "sp"}, reg, reg') /\ pc' = "i_cond_fun3" /\ Quiet
  BY <1>1, <1>2, <1>3, <1>5, <1>6, LifeRoom, CalleeEntered
<1>8. reg'.s2 = N /\ reg'.s0 = 0  BY <1>5, <1>7 DEF Assigned
<1>9. Playing(r, n)'  BY <1>2, <1>3, <1>7, CellStays
<1>10. InCopy(r, n)'  BY <1>2, <1>3, <1>7, <1>8, <1>9 DEF InCopy
<1>11. UpTo(Board, NewBoard, reg.s0 * N)'
  <2>1. reg'.s0 * N - 1 = -1  BY <1>4, <1>8
  <2>2. QED  BY <2>1 DEF UpTo
<1>12. CopyAtI(n)'  BY <1>4, <1>8, <1>10, <1>11 DEF CopyAtI
<1>13. input' = input  BY <1>7 DEF Quiet
<1>14. QED  BY <1>2, <1>7, <1>12, <1>13 DEF LifeAt

LEMMA ICond3Keeps ==
  ASSUME Typed, LifeMemory, NEW n, LifeAt(n), ICond3
  PROVE  Typed' /\ LifeMemory' /\ LifeAt(n)' /\ Quiet
<1>1. /\ LoopHead("i_cond_fun3", reg.s0, reg.s2 - 1, "j_cond_fun3", [s1 |-> 0],
                  "i_finish_fun3")
      /\ UNCHANGED Memory
  BY DEF ICond3
<1>2. pc = "i_cond_fun3" /\ n \in 1 .. input + 1  BY <1>1 DEF LoopHead, Step, LifeAt
<1>3. PICK r : InCopy(r, n) /\ reg.s0 \in 0 .. N /\ UpTo(Board, NewBoard, reg.s0 * N)
  BY <1>2 DEF LifeAt, CopyAtI
<1>4. Called(GameSaves, CopySaves, 4, r) /\ Playing(r, n) /\ reg.s2 = N
  BY <1>3 DEF InCopy
<1>5. N \in Int /\ N \in Nat \ {0}  BY Sizes
<1>6. CASE reg.s0 > N - 1
  <2>1. Step("i_cond_fun3", <<>>, "i_finish_fun3")  BY <1>1, <1>4, <1>6 DEF LoopHead
  <2>2. PICK w : w = <<>>  OBVIOUS
  <2>3. Updates(w, Own(CopySaves)) /\ DOMAIN w = {}  BY <2>2 DEF Updates
  <2>4. "i_finish_fun3" \in LifeLabels  BY DEF LifeLabels
  <2>5. /\ Typed' /\ LifeMemory' /\ Called(GameSaves, CopySaves, 4, r)'
        /\ Assigned(w, Regs, reg, reg') /\ pc' = "i_finish_fun3" /\ Quiet
    BY <1>1, <1>4, <2>1, <2>2, <2>3, <2>4, LifeRoom, CalleeStep
  <2>6. reg'.s2 = N  BY <1>4, <2>3, <2>5 DEF Assigned, Regs, Preserved, SRegs
  <2>7. Playing(r, n)'  BY <1>4, <2>5, CellStays
  <2>8. UpTo(Board, NewBoard, N * N)
    <3>1. reg.s0 = N  BY <1>3, <1>5, <1>6
    <3>2. QED  BY <1>3, <3>1
  <2>9. Board = NewBoard  BY <2>8, AllUpTo DEF LifeMemory, Board01
  <2>10. AllCopied(n)'  BY <2>5, <2>6, <2>7, <2>9 DEF AllCopied, InCopy, Quiet
  <2>11. input' = input  BY <2>5 DEF Quiet
  <2>12. QED  BY <1>2, <2>5, <2>10, <2>11 DEF LifeAt
<1>7. CASE ~(reg.s0 > N - 1)
  <2>1. Step("i_cond_fun3", [s1 |-> 0], "j_cond_fun3")  BY <1>1, <1>4, <1>7 DEF LoopHead
  <2>2. PICK w : w = [s1 |-> 0]  OBVIOUS
  <2>3. Updates(w, Own(CopySaves)) /\ DOMAIN w = {"s1"} /\ w.s1 = 0
    BY <2>2, LifeSaves DEF Updates
  <2>4. "j_cond_fun3" \in LifeLabels  BY DEF LifeLabels
  <2>5. /\ Typed' /\ LifeMemory' /\ Called(GameSaves, CopySaves, 4, r)'
        /\ Assigned(w, Regs, reg, reg') /\ pc' = "j_cond_fun3" /\ Quiet
    BY <1>1, <1>4, <2>1, <2>2, <2>3, <2>4, LifeRoom, CalleeStep
  <2>6. reg'.s2 = N /\ reg'.s0 = reg.s0 /\ reg'.s1 = 0
    BY <1>4, <2>3, <2>5 DEF Assigned, Regs, Preserved, SRegs
  <2>7. Playing(r, n)'  BY <1>4, <2>5, CellStays
  <2>8. InCopy(r, n)'  BY <2>5, <2>6, <2>7 DEF InCopy
  <2>9. reg'.s0 * N + reg'.s1 = reg.s0 * N  BY <1>3, <1>5, <2>6
  <2>10. UpTo(Board, NewBoard, reg.s0 * N + reg.s1)'  BY <1>3, <2>5, <2>9 DEF UpTo, Quiet
  <2>11. CopyAtJ(n)'  BY <1>3, <1>5, <1>7, <2>6, <2>8, <2>10 DEF CopyAtJ
  <2>12. input' = input  BY <2>5 DEF Quiet
  <2>13. QED  BY <1>2, <2>5, <2>11, <2>12 DEF LifeAt
<1>8. QED  BY <1>6, <1>7

LEMMA JCond3Keeps ==
  ASSUME Typed, LifeMemory, NEW n, LifeAt(n), JCond3
  PROVE  Typed' /\ LifeMemory' /\ LifeAt(n)' /\ UNCHANGED <<program, input, NewBoard>>
<1>1. pc = "j_cond_fun3" /\ n \in 1 .. input + 1  BY DEF JCond3, Step, LifeAt
<1>2. PICK r : /\ InCopy(r, n) /\ reg.s0 \in 0 .. N - 1 /\ reg.s1 \in 0 .. N
               /\ UpTo(Board, NewBoard, reg.s0 * N + reg.s1)
  BY <1>1 DEF LifeAt, CopyAtJ
<1>3. Called(GameSaves, CopySaves, 4, r) /\ Playing(r, n) /\ reg.s2 = N
  BY <1>2 DEF InCopy
<1>4. N \in Int /\ N \in Nat \ {0}  BY Sizes
<1>5. CASE reg.s1 >= N
  <2> DEFINE u == [s0 |-> reg.s0 + 1, a0 |-> 0, v0 |-> 11]
  <2>1. Step("j_cond_fun3", u, "i_cond_fun3") /\ UNCHANGED Memory
    BY <1>3, <1>5 DEF JCond3
  <2>2. Updates(u, Own(CopySaves))  BY <1>2, <1>4, LifeSaves DEF Updates, Scratch
  <2>3. PICK w : w = u  OBVIOUS
  <2>4. "i_cond_fun3" \in LifeLabels  BY DEF LifeLabels
  <2>5. /\ Typed' /\ LifeMemory' /\ Called(GameSaves, CopySaves, 4, r)'
        /\ Assigned(w, Regs, reg, reg') /\ pc' = "i_cond_fun3" /\ Quiet
    BY <1>3, <2>1, <2>2, <2>3, <2>4, LifeRoom, CalleeStep
  <2>6. reg'.s2 = N /\ reg'.s0 = reg.s0 + 1
    BY <1>3, <2>3, <2>5 DEF Assigned, Regs, Preserved, SRegs
  <2>7. Playing(r, n)'  BY <1>3, <2>5, CellStays
  <2>8. InCopy(r, n)'  BY <2>5, <2>6, <2>7 DEF InCopy
  <2>9. reg'.s0 * N = reg.s0 * N + reg.s1
    <3>1. reg.s1 = N  BY <1>2, <1>4, <1>5
    <3>2. (reg.s0 + 1) * N = reg.s0 * N + N  BY <1>2, <1>4
    <3>3. QED  BY <2>6, <3>1, <3>2
  <2>10. UpTo(Board, NewBoard, reg.s0 * N)'  BY <1>2, <2>5, <2>9 DEF UpTo, Quiet
  <2>11. CopyAtI(n)'  BY <1>2, <1>4, <2>6, <2>8, <2>10 DEF CopyAtI
  <2>12. UNCHANGED <<program, input, NewBoard>>  BY <2>5 DEF Quiet
  <2>13. QED  BY <1>1, <2>5, <2>11, <2>12 DEF LifeAt
<1>6. CASE ~(reg.s1 >= N)
  <2>1. PICK a \in 0 .. N - 1, b \in 0 .. N - 1 : a = reg.s0 /\ b = reg.s1
    BY <1>2, <1>4, <1>6
  <2>2. PICK p \in Nat : p = reg.s0 * reg.s2 + reg.s1 /\ p = reg.s0 * N + reg.s1
    BY <1>2, <1>3, <1>4
  <2>3. p \in Bytes
    <3>1. PICK k : k = a * N + b  OBVIOUS
    <3>2. k \in Bytes  BY <3>1, CellAt
    <3>3. QED  BY <2>1, <2>2, <3>1, <3>2
  <2>4. PICK v \in {0, 1} : v = NewBoard[p]  BY <2>3 DEF LifeMemory, Board01
  <2> DEFINE u == [t0 |-> p, t1 |-> v, t2 |-> 0, a0 |-> 0, v0 |-> 11, s1 |-> reg.s1 + 1]
  <2>5. /\ Step("j_cond_fun3", u, "j_cond_fun3")
        /\ Board' = [Board EXCEPT ![p] = v] /\ UNCHANGED NewBoard
    BY <1>6, <1>3, <2>2, <2>4 DEF JCond3
  <2>6. Updates(u, Own(CopySaves))
    BY <1>2, <1>4, LifeSaves DEF Updates, Scratch
  <2>7. PICK w : w = u  OBVIOUS
  <2>8. /\ Typed' /\ Called(GameSaves, CopySaves, 4, r)' /\ Assigned(w, Regs, reg, reg')
        /\ pc' = "j_cond_fun3" /\ UNCHANGED <<program, input, printed, stack>>
    BY <1>3, <2>5, <2>6, <2>7, LifeRoom, BodyStep
  <2>9. reg'.s2 = N /\ reg'.s0 = reg.s0 /\ reg'.s1 = reg.s1 + 1
    BY <1>3, <2>7, <2>8 DEF Assigned, Regs, Preserved, SRegs
  <2>10. Board01(Board)'  BY <2>3, <2>5 DEF LifeMemory, Board01
  <2>11. LifeMemory'  BY <2>5, <2>8, <2>10 DEF LifeMemory, LifeLabels
  <2>12. InCopy(r, n)'
    BY <1>3, <2>8, <2>9 DEF InCopy, Playing, Game
  <2>13. reg'.s0 * N + reg'.s1 = p + 1
    <3>1. PICK q \in Int : q = reg.s0 * N  BY <1>2, <1>4
    <3>2. reg'.s0 * N + reg'.s1 = q + (reg.s1 + 1) /\ p = q + reg.s1  BY <2>2, <2>9, <3>1
    <3>3. QED  BY <1>2, <3>2
  <2>14. UpTo(Board', NewBoard, p + 1)
    <3> SUFFICES ASSUME NEW l \in 0 .. (p + 1) - 1 PROVE Board'[l] = NewBoard[l]
      BY DEF UpTo
    <3>1. l \in Bytes  BY <1>4, <2>3 DEF Bytes
    <3>2. CASE l = p
      <4>1. Board'[l] = v  BY <2>5, <3>1, <3>2 DEF LifeMemory, Board01
      <4>2. QED  BY <2>4, <3>2, <4>1
    <3>3. CASE l # p
      <4>1. l \in 0 .. p - 1  BY <3>3
      <4>2. Board'[l] = Board[l]  BY <2>5, <3>1, <3>3 DEF LifeMemory, Board01
      <4>3. QED  BY <1>2, <2>2, <4>1, <4>2 DEF UpTo
    <3>4. QED  BY <3>2, <3>3
  <2>15. UpTo(Board, NewBoard, reg.s0 * N + reg.s1)'  BY <2>5, <2>13, <2>14
  <2>16. CopyAtJ(n)'
    <3>1. reg'.s0 \in 0 .. N - 1 /\ reg'.s1 \in 0 .. N  BY <1>2, <1>4, <1>6, <2>9
    <3>2. QED  BY <2>12, <2>15, <3>1 DEF CopyAtJ
  <2>17. QED  BY <1>1, <2>5, <2>8, <2>11, <2>16 DEF LifeAt
<1>7. QED  BY <1>5, <1>6

LEMMA IFinish3Keeps ==
  ASSUME Typed, LifeMemory, NEW n, LifeAt(n), IFinish3
  PROVE  Typed' /\ LifeMemory' /\ LifeAt(n)' /\ Quiet /\ pc' = "after_copy"
<1>1. pc = "i_finish_fun3" /\ Return("copyBackAndShow", [v0 |-> reg.v0])
  BY DEF IFinish3
<1>2. PICK r : InCopy(r, n) /\ Board = NewBoard  BY <1>1 DEF LifeAt, AllCopied
<1>3. n \in 1 .. input + 1  BY DEF LifeAt
<1>4. Called(GameSaves, CopySaves, 4, r) /\ Playing(r, n)  BY <1>2 DEF InCopy
<1>5. PICK w : w = [v0 |-> reg.v0]  OBVIOUS
<1>6. Updates(w, Scratch)
  <2>1. reg.v0 \in Int  BY DEF Typed, Regs, Scratch
  <2>2. QED  BY <1>5, <2>1 DEF Updates, Scratch
<1>7. ReturnTo[4] = "after_copy" /\ "after_copy" \in LifeLabels  BY DEF ReturnTo, LifeLabels
<1>8. ReturnTo[4] \in LifeLabels /\ CopySaves = Saved("copyBackAndShow")
  BY <1>7 DEF CopySaves
<1>9. /\ Typed' /\ LifeMemory' /\ InMain(GameSaves, reg)' /\ Assigned(w, Scratch, reg, reg')
      /\ \A x \in Preserved : reg'[x] = r[x]
      /\ pc' = ReturnTo[4] /\ Quiet
  BY <1>1, <1>4, <1>5, <1>6, <1>8, LifeRoom, CalleeLeft
<1>10. \A x \in {"s0", "s1", "s2", "s3", "s4"} : reg'[x] = r[x]
  BY <1>9 DEF Preserved, SRegs
<1>11. Playing(r, n)'  BY <1>4, <1>9, CellStays
<1>12. Playing(reg, n)'  BY <1>10, <1>11 DEF Playing, Game
<1>13. HaveCopy(n)'  BY <1>2, <1>9, <1>12 DEF HaveCopy, Quiet
<1>14. input' = input  BY <1>9 DEF Quiet
<1>15. QED  BY <1>3, <1>7, <1>9, <1>13, <1>14 DEF LifeAt

-----------------------------------------------------------------------------
(* prog.s as a whole, and the generations it goes through.                 *)

\* The board that shows the generation reached, and the number of that
\* generation in iteration n.
View == IF Copying THEN NewBoard ELSE Board
Reached(n) == IF Copying THEN n ELSE n - 1

\* But for two steps of main, a step changes neither.
SamePhase == View' = View /\ (Copying' <=> Copying)

\* The steps of main to the next cell.
LEMMA MainSteps ==
  ASSUME Typed, LifeMemory, NEW n, LifeAt(n),
         \/ Main \/ NCondMain \/ ICondMain \/ JCondMain \/ AfterNeighbours \/ NFinishMain
  PROVE  Typed' /\ LifeMemory' /\ LifeAt(n)' /\ UNCHANGED <<program, input>> /\ SamePhase
<1>1. Typed' /\ LifeMemory' /\ LifeAt(n)' /\ Quiet
  BY MainKeeps, NCondKeeps, ICondKeeps, JCondKeeps, AfterNeighboursKeeps, NFinishKeeps
<1>2. ~Copying /\ ~Copying'
  <2>1. CASE Main  BY <2>1 DEF Main, Call, Enter, Goto, Copying
  <2>2. CASE NCondMain  BY <2>2 DEF NCondMain, LoopHead, Step, Goto, Copying
  <2>3. CASE ICondMain  BY <2>3 DEF ICondMain, LoopHead, Step, Goto, Copying
  <2>4. CASE JCondMain  BY <2>4 DEF JCondMain, Step, Goto, Copying
  <2>5. CASE AfterNeighbours  BY <2>5 DEF AfterNeighbours, Step, Goto, Copying
  <2>6. CASE NFinishMain  BY <2>6, NFinishKeeps DEF NFinishMain, Copying
  <2>7. QED  BY <2>1, <2>2, <2>3, <2>4, <2>5, <2>6
<1>3. QED  BY <1>1, <1>2 DEF Quiet, SamePhase, View

\* The steps of neighbours and decideCell, and main's store of the byte.
LEMMA CellSteps ==
  ASSUME Typed, LifeMemory, NEW n, LifeAt(n),
         \/ DecideCell \/ IfFun1 \/ EndDecideCell \/ AfterDecide
         \/ Neighbours \/ XCond \/ YCond \/ Ifs \/ CountCell \/ YStep \/ XFinish
  PROVE  Typed' /\ LifeMemory' /\ LifeAt(n)' /\ UNCHANGED <<program, input>> /\ SamePhase
<1>1. Typed' /\ LifeMemory' /\ LifeAt(n)' /\ UNCHANGED <<program, input, Board>>
  BY DecideCellKeeps, AfterDecideKeeps, NeighboursKeeps, XCondKeeps, YCondKeeps, IfsKeep,
     CountCellKeeps, YStepKeeps, XFinishKeeps DEF Quiet
<1>2. ~Copying /\ ~Copying'
  <2>1. CASE DecideCell  BY <2>1, DecideCellKeeps DEF DecideCell, Call, Enter, Copying
  <2>2. CASE IfFun1  BY <2>2, DecideCellKeeps DEF IfFun1, Step, Copying
  <2>3. CASE EndDecideCell  BY <2>3, DecideCellKeeps DEF EndDecideCell, Copying
  <2>4. CASE AfterDecide  BY <2>4 DEF AfterDecide, Step, Goto, Copying
  <2>5. CASE Neighbours  BY <2>5 DEF Neighbours, Call, Enter, Goto, Copying
  <2>6. CASE XCond  BY <2>6 DEF XCond, LoopHead, Step, Goto, Copying
  <2>7. CASE YCond  BY <2>7 DEF YCond, Step, Goto, Copying
  <2>8. CASE Ifs  BY <2>8 DEF Ifs, Step, Goto, Copying
  <2>9. CASE CountCell  BY <2>9 DEF CountCell, Step, Goto, Copying
  <2>10. CASE YStep  BY <2>10 DEF YStep, Step, Goto, Copying
  <2>11. CASE XFinish  BY <2>11, XFinishKeeps DEF XFinish, Copying
  <2>12. QED
    BY <2>1, <2>2, <2>3, <2>4, <2>5, <2>6, <2>7, <2>8, <2>9, <2>10, <2>11
<1>3. QED  BY <1>1, <1>2 DEF SamePhase, View

\* The steps of copyBackAndShow.
LEMMA CopySteps ==
  ASSUME Typed, LifeMemory, NEW n, LifeAt(n), CopyBackAndShow \/ ICond3 \/ JCond3 \/ IFinish3
  PROVE  Typed' /\ LifeMemory' /\ LifeAt(n)' /\ UNCHANGED <<program, input>> /\ SamePhase
<1>1. Typed' /\ LifeMemory' /\ LifeAt(n)' /\ UNCHANGED <<program, input, NewBoard>>
  BY CopyEnters, ICond3Keeps, JCond3Keeps, IFinish3Keeps DEF Quiet
<1>2. Copying /\ Copying'
  <2>1. CASE CopyBackAndShow  BY <2>1 DEF CopyBackAndShow, Call, Enter, Goto, Copying
  <2>2. CASE ICond3  BY <2>2 DEF ICond3, LoopHead, Step, Goto, Copying
  <2>3. CASE JCond3  BY <2>3 DEF JCond3, Step, Goto, Copying
  <2>4. CASE IFinish3  BY <2>4, IFinish3Keeps DEF IFinish3, Copying
  <2>5. QED  BY <2>1, <2>2, <2>3, <2>4
<1>3. QED  BY <1>1, <1>2 DEF SamePhase, View

\* A step of prog.s leaves the generation as it is, or makes it the next one.
LEMMA LifeSteps ==
  ASSUME Typed, LifeMemory, NEW n, LifeAt(n), LifeNext
  PROVE  /\ Typed' /\ LifeMemory' /\ UNCHANGED <<program, input>>
         /\ \E k \in 1 .. input + 1 :
              /\ LifeAt(k)'
              /\ \/ View' = View /\ Reached(k)' = Reached(n)
                 \/ View' = NextBytes(View) /\ Reached(k)' = Reached(n) + 1
<1>1. n \in 1 .. input + 1 /\ input \in Nat  BY Sizes DEF LifeAt
<1>2. CASE IFinishMain
  <2>1. Typed' /\ LifeMemory' /\ LifeAt(n)' /\ Quiet /\ NewBoard = NextBytes(Board)
    BY <1>2, IFinishKeeps
  <2>2. ~Copying /\ Copying'  BY <1>2 DEF IFinishMain, Step, Goto, Copying
  <2>3. View' = NextBytes(View)  BY <2>1, <2>2 DEF View, Quiet
  <2>4. Reached(n)' = Reached(n) + 1  BY <1>1, <2>2 DEF Reached
  <2>5. QED  BY <1>1, <2>1, <2>3, <2>4 DEF Quiet
<1>3. CASE NStepMain
  <2>1. Typed' /\ LifeMemory' /\ LifeAt(n + 1)' /\ Quiet /\ Board = NewBoard
    BY <1>3, NStepKeeps
  <2>2. Copying /\ ~Copying'  BY <1>3 DEF NStepMain, Step, Goto, Copying
  <2>3. View' = View  BY <2>1, <2>2 DEF View, Quiet
  <2>4. Reached(n + 1)' = Reached(n)  BY <1>1, <2>2 DEF Reached
  <2>5. n + 1 \in 1 .. input + 1  BY <2>1 DEF LifeAt, Quiet
  <2>6. QED  BY <2>1, <2>3, <2>4, <2>5 DEF Quiet
<1>4. ASSUME Typed' /\ LifeMemory' /\ LifeAt(n)' /\ UNCHANGED <<program, input>> /\ SamePhase
      PROVE  /\ Typed' /\ LifeMemory' /\ UNCHANGED <<program, input>>
             /\ LifeAt(n)' /\ View' = View /\ Reached(n)' = Reached(n)
  BY <1>4 DEF SamePhase, Reached
<1>5. QED  BY <1>1, <1>2, <1>3, <1>4, MainSteps, CellSteps, CopySteps DEF LifeNext

LEMMA LifeBegins == LifeInit => Typed /\ LifeMemory /\ LifeAt(1)
<1> SUFFICES ASSUME LifeInit PROVE Typed /\ LifeMemory /\ LifeAt(1)  OBVIOUS
<1>1. /\ pc = "main" /\ reg = Entry /\ stack = [a \in Words |-> 0] /\ input \in 0 .. MaxIters
      /\ Board \in [0 .. N * N - 1 -> {0, 1}] /\ NewBoard = [b \in Bytes |-> 0]
  BY LifeAsmAssumption DEF LifeInit, Start
<1>2. Typed  BY <1>1, EntryTyped DEF Typed
<1>3. LifeMemory  BY <1>1 DEF LifeMemory, Board01, Bytes, LifeLabels
<1>4. 1 \in 1 .. input + 1  BY <1>1, LifeAsmAssumption
<1>5. QED  BY <1>1, <1>2, <1>3, <1>4 DEF LifeAt, AtEntry

\* Where the function called finds main's $s0 in its frame.
LEMMA NumberInFrame ==
  ASSUME NEW saved, saved \in {NearSaves, DecideSaves, CopySaves},
         NEW ra, NEW r, Called(GameSaves, saved, ra, r)
  PROVE  stack[reg.fp - 8] = r.s0
<1>1. 3 \in DOMAIN saved /\ saved[3] = "s0"  BY LifeSaves
<1>2. stack[r.sp - 4 * 3] = r.s0  BY <1>1 DEF Called, Frame
<1>3. reg.fp = r.sp - 4  BY DEF Called, Within
<1>4. r.sp \in Int  BY DEF Called, Regs, Preserved
<1>5. reg.fp - 8 = r.sp - 4 * 3  BY <1>3, <1>4
<1>6. QED  BY <1>2, <1>5, Zenon

LEMMA NumberOfMain ==
  ASSUME LifeMemory, NEW n, LifeAt(n), pc \notin {"main", "caller"}
  PROVE  nOfMain = n
<1>1. CASE pc \notin Callees
  <2>1. reg.s0 = n
    BY <1>1 DEF LifeMemory, LifeLabels, Callees, LifeAt, AtN, AtI, AtJ, AllDecided, AskCount,
                HaveCount, AskByte, HaveByte, AskCopy, HaveCopy, CellOf, Playing, Game
  <2>2. QED  BY <1>1, <2>1 DEF nOfMain
<1>2. CASE pc \in {"if_fun1", "end_decideCell_fun1"}
  <2>1. PICK r : InByte(r, n)  BY <1>2 DEF LifeAt, Deciding, HasDecided
  <2>2. Called(GameSaves, DecideSaves, 3, r) /\ r.s0 = n
    BY <2>1 DEF InByte, CellOf, Playing, Game
  <2>3. stack[reg.fp - 8] = n  BY <2>2, NumberInFrame
  <2>4. QED  BY <1>2, <2>3 DEF nOfMain, Callees
<1>3. CASE pc \in {"x_cond_fun2", "y_cond_fun2", "first_if_fun2", "end_third_if_fun2",
                   "y_step_fun2", "x_finish_fun2"}
  <2>1. PICK r : InCount(r, n)
    BY <1>3 DEF LifeAt, AtX, AtY, Trying, OnBoard, Tried, AllTried, AtOffset
  <2>2. Called(GameSaves, NearSaves, 2, r) /\ r.s0 = n
    BY <2>1 DEF InCount, CellOf, Playing, Game
  <2>3. stack[reg.fp - 8] = n  BY <2>2, NumberInFrame
  <2>4. QED  BY <1>3, <2>3 DEF nOfMain, Callees
<1>4. CASE pc \in {"i_cond_fun3", "j_cond_fun3", "i_finish_fun3"}
  <2>1. PICK r : InCopy(r, n)  BY <1>4 DEF LifeAt, CopyAtI, CopyAtJ, AllCopied
  <2>2. Called(GameSaves, CopySaves, 4, r) /\ r.s0 = n  BY <2>1 DEF InCopy, Playing, Game
  <2>3. stack[reg.fp - 8] = n  BY <2>2, NumberInFrame
  <2>4. QED  BY <1>4, <2>3 DEF nOfMain, Callees
<1>5. QED  BY <1>1, <1>2, <1>3, <1>4 DEF Callees

LEMMA GenerationReached ==
  ASSUME LifeMemory, NEW n, LifeAt(n), program = "life"
  PROVE  Generation = Reached(n)
<1>1. n \in 1 .. input + 1 /\ input \in Nat  BY Sizes DEF LifeAt
<1>2. CASE pc = "main"  BY <1>2 DEF LifeAt, Generation, Reached, Copying
<1>3. CASE pc = "caller"
  BY <1>1, <1>3 DEF LifeAt, GameOver, Generation, Reached, Copying
<1>4. CASE pc \notin {"main", "caller"}
  BY <1>4, NumberOfMain DEF Generation, Reached
<1>5. QED  BY <1>2, <1>3, <1>4

-----------------------------------------------------------------------------
(* The six programs.                                                       *)

\* One of the programs runs, and what holds at its labels holds.
PlaysLife == program = "life" /\ LifeMemory /\ \E n \in 1 .. input + 1 : LifeAt(n)
Multiplies == program \in {"fac1", "fac2", "fac3"} /\ FacState /\ NoBoards
Compares == program \in {"isi", "isi_review"} /\ IsiState /\ NoBoards

AsmState == Typed /\ (PlaysLife \/ Multiplies \/ Compares)

\* Where a step may begin: the labels of the programs are their own.
LEMMA LifeBeginsAt == LifeNext => pc \in LifeLabels \ {"caller"}
<1>1. Main => pc = "main"  BY DEF Main, Call, Enter
<1>2. DecideCell => pc = "decideCell"  BY DEF DecideCell, Call, Enter
<1>3. Neighbours => pc = "neighbours"  BY DEF Neighbours, Call, Enter
<1>4. CopyBackAndShow => pc = "copyBackAndShow"  BY DEF CopyBackAndShow, Call, Enter
<1>5. NCondMain \/ ICondMain \/ JCondMain \/ AfterNeighbours \/ AfterDecide \/ IFinishMain
        \/ NStepMain \/ NFinishMain => pc \in LifeLabels \ {"caller"}
  BY DEF NCondMain, ICondMain, JCondMain, AfterNeighbours, AfterDecide, IFinishMain,
         NStepMain, NFinishMain, LoopHead, Step, LifeLabels
<1>6. IfFun1 \/ EndDecideCell \/ XCond \/ YCond \/ Ifs \/ CountCell \/ YStep \/ XFinish
        => pc \in LifeLabels \ {"caller"}
  BY DEF IfFun1, EndDecideCell, XCond, YCond, Ifs, CountCell, YStep, XFinish, LoopHead, Step,
         LifeLabels
<1>7. ICond3 \/ JCond3 \/ IFinish3 => pc \in LifeLabels \ {"caller"}
  BY DEF ICond3, JCond3, IFinish3, LoopHead, Step, LifeLabels
<1>8. {"main", "decideCell", "neighbours", "copyBackAndShow"} \subseteq LifeLabels \ {"caller"}
  BY DEF LifeLabels
<1>9. QED  BY <1>1, <1>2, <1>3, <1>4, <1>5, <1>6, <1>7, <1>8 DEF LifeNext

LEMMA FacBeginsAt ==
  FacNext => pc \in FacLabels \ {"caller"} /\ UNCHANGED <<program, input>>
<1> USE DEF FacLabels
<1>1. Main1 \/ Main2 \/ Main3 \/ Fac2 \/ Fac3
        => pc \in FacLabels \ {"caller"} /\ UNCHANGED <<program, input>>
  BY DEF Main1, Main2, Main3, Fac2, Fac3, CallFac, Enter
<1>2. For1 \/ For2 => pc \in FacLabels \ {"caller"} /\ UNCHANGED <<program, input>>
  BY DEF For1, For2, LoopHead, Step, Set
<1>3. If3 \/ AfterRecursion => pc \in FacLabels \ {"caller"} /\ UNCHANGED <<program, input>>
  BY DEF If3, AfterRecursion, Step, Set
<1>4. EndFor1 \/ AfterFac2 \/ AfterFac3 \/ EndFor2 \/ Return3
        => pc \in FacLabels \ {"caller"} /\ UNCHANGED <<program, input>>
  BY DEF EndFor1, AfterFac2, AfterFac3, EndFor2, Return3, PrintAndReturn, ReturnFac, Leave
<1>5. QED  BY <1>1, <1>2, <1>3, <1>4 DEF FacNext

LEMMA IsiBeginsAt ==
  IsiNext => pc \in IsiLabels \ {"caller"} /\ UNCHANGED <<program, input>>
<1> USE DEF IsiLabels
<1>1. MainIsi \/ ShowMatrix \/ IsIdent
        => pc \in IsiLabels \ {"caller"} /\ UNCHANGED <<program, input>>
  BY DEF MainIsi, ShowMatrix, IsIdent, EnterRows, Push, Enter
<1>2. ShowRowCond \/ IsiRowCond \/ ShowColCond \/ IsiColCond
        => pc \in IsiLabels \ {"caller"} /\ UNCHANGED <<program, input>>
  BY DEF ShowRowCond, IsiRowCond, ShowColCond, IsiColCond, RowCond, LoopHead, Step, Set
<1>3. AfterShowMatrix \/ IsiIf \/ ReturnFalse \/ ReturnTrue
        => pc \in IsiLabels \ {"caller"} /\ UNCHANGED <<program, input>>
  BY DEF AfterShowMatrix, IsiIf, ReturnFalse, ReturnTrue, Step, Set
<1>4. AfterIsIdent \/ ShowEpi \/ EndFunc
        => pc \in IsiLabels \ {"caller"} /\ UNCHANGED <<program, input>>
  BY DEF AfterIsIdent, ShowEpi, EndFunc, Pop, Leave
<1>5. QED  BY <1>1, <1>2, <1>3, <1>4 DEF IsiNext

LEMMA LabelsApart ==
  /\ LifeLabels \cap FacLabels = {"caller"} /\ LifeLabels \cap IsiLabels = {"caller"}
  /\ FacLabels \cap IsiLabels = {"caller"}
BY DEF LifeLabels, FacLabels, IsiLabels

\* A step that changes nothing keeps it all.
LEMMA LifeStays ==
  ASSUME Typed, PlaysLife, UNCHANGED asmVars
  PROVE  Typed' /\ PlaysLife'
<1>1. UNCHANGED <<program, input, pc, reg, stack, Board, NewBoard>>
  BY DEF asmVars, machine, Memory
<1>2. Typed' /\ LifeMemory'  BY <1>1 DEF Typed, PlaysLife, LifeMemory
<1>3. PICK n \in 1 .. input + 1 : LifeAt(n)  BY DEF PlaysLife
<1>4. InMain(GameSaves, reg)' <=> InMain(GameSaves, reg)  BY <1>1 DEF InMain, Frame
<1>5. \A saved, ra, r : Called(GameSaves, saved, ra, r)' <=> Called(GameSaves, saved, ra, r)
  BY <1>1 DEF Called, InMain, Frame
<1>6. \A r : /\ Game(r, n)' <=> Game(r, n)
             /\ Playing(r, n)' <=> Playing(r, n)
             /\ CellOf(r, n)' <=> CellOf(r, n)
  BY <1>1 DEF Game, Playing, CellOf
<1>7. /\ Game(reg, n)' <=> Game(reg, n)
      /\ Playing(reg, n)' <=> Playing(reg, n)
      /\ CellOf(reg, n)' <=> CellOf(reg, n)
  BY <1>1 DEF Game, Playing, CellOf
<1>8. \A r : /\ InCount(r, n)' <=> InCount(r, n)
             /\ InByte(r, n)' <=> InByte(r, n)
             /\ InCopy(r, n)' <=> InCopy(r, n)
  BY <1>1, <1>5, <1>6 DEF InCount, InByte, InCopy
<1>9. \A r : AtOffset(r, n)' <=> AtOffset(r, n)  BY <1>1, <1>8 DEF AtOffset
<1>10. /\ AtEntry' <=> AtEntry
       /\ AtN(n)' <=> AtN(n)
       /\ AtI(n)' <=> AtI(n)
       /\ AtJ(n)' <=> AtJ(n)
       /\ AllDecided(n)' <=> AllDecided(n)
       /\ GameOver(n)' <=> GameOver(n)
  BY <1>1, <1>4, <1>7 DEF AtEntry, AtN, AtI, AtJ, AllDecided, GameOver, Home, UpTo
<1>11. /\ AskCount(n)' <=> AskCount(n)
       /\ HaveCount(n)' <=> HaveCount(n)
       /\ AskByte(n)' <=> AskByte(n)
       /\ HaveByte(n)' <=> HaveByte(n)
       /\ AskCopy(n)' <=> AskCopy(n)
       /\ HaveCopy(n)' <=> HaveCopy(n)
  BY <1>1, <1>4, <1>7 DEF AskCount, HaveCount, AskByte, HaveByte, AskCopy, HaveCopy
<1>12. /\ AtX(n)' <=> AtX(n)
       /\ AtY(n)' <=> AtY(n)
       /\ AllTried(n)' <=> AllTried(n)
  BY <1>1, <1>8 DEF AtX, AtY, AllTried, SoFar
<1>13. /\ Trying(n)' <=> Trying(n)
       /\ OnBoard(n)' <=> OnBoard(n)
       /\ Tried(n)' <=> Tried(n)
  BY <1>1, <1>9 DEF Trying, OnBoard, Tried, SoFar, Looking
<1>14. (Deciding(n)' <=> Deciding(n)) /\ (HasDecided(n)' <=> HasDecided(n))
  BY <1>1, <1>8 DEF Deciding, HasDecided
<1>15. /\ CopyAtI(n)' <=> CopyAtI(n)
       /\ CopyAtJ(n)' <=> CopyAtJ(n)
       /\ AllCopied(n)' <=> AllCopied(n)
  BY <1>1, <1>8 DEF CopyAtI, CopyAtJ, AllCopied, UpTo
<1>16. LifeAt(n)'
  BY <1>1, <1>3, <1>10, <1>11, <1>12, <1>13, <1>14, <1>15 DEF LifeAt
<1>17. QED  BY <1>1, <1>2, <1>3, <1>16 DEF PlaysLife

LEMMA FacStays ==
  ASSUME Typed, Multiplies, UNCHANGED asmVars
  PROVE  Typed' /\ Multiplies'
<1>1. UNCHANGED <<program, input, printed, pc, reg, stack, Board, NewBoard>>
  BY DEF asmVars, machine, Memory
<1>2. Typed' /\ NoBoards'  BY <1>1 DEF Typed, Multiplies, NoBoards
<1>3. (AtEntry' <=> AtEntry) /\ (FacDone' <=> FacDone)
  BY <1>1 DEF AtEntry, FacDone, FacRight, Home
<1>4. /\ Loop1' <=> Loop1
      /\ Ready1' <=> Ready1
      /\ Asked2' <=> Asked2
      /\ Answered' <=> Answered
  BY <1>1 DEF Loop1, Ready1, Asked2, Answered, InMain, Frame, Multiplying, Limit
<1>5. InFac2' <=> InFac2  BY <1>1 DEF InFac2, Called, InMain, Frame
<1>6. (Loop2' <=> Loop2) /\ (Ready2' <=> Ready2)
  BY <1>1, <1>5 DEF Loop2, Ready2, Multiplying, Limit
<1>7. \A d : Stacked(d)' <=> Stacked(d)  BY <1>1 DEF Stacked, Frame, CallRegs
<1>8. \A d : (AtCall(d)' <=> AtCall(d)) /\ (InCall(d)' <=> InCall(d))
  BY <1>1, <1>7 DEF AtCall, InCall, Depth, CallRegs
<1>9. \A d : Still(d)' = Still(d)  BY <1>1 DEF Still
<1>10. (Asked3' <=> Asked3) /\ (Asking3' <=> Asking3)
  BY <1>1, <1>8 DEF Asked3, Asking3
<1>11. (Back3' <=> Back3) /\ (Ready3' <=> Ready3)
  BY <1>1, <1>8, <1>9 DEF Back3, Ready3
<1>12. FacState'
  BY <1>1, <1>3, <1>4, <1>6, <1>10, <1>11 DEF Multiplies, FacState
<1>13. QED  BY <1>1, <1>2, <1>12 DEF Multiplies

LEMMA IsiStays ==
  ASSUME Typed, Compares, UNCHANGED asmVars
  PROVE  Typed' /\ Compares'
<1>1. UNCHANGED <<program, input, printed, pc, reg, stack, Board, NewBoard, m>>
  BY DEF asmVars, machine, Memory
<1>2. Typed' /\ NoBoards'  BY <1>1 DEF Typed, Compares, NoBoards
<1>3. \A ra : (Calling(ra)' <=> Calling(ra)) /\ (Returning(ra)' <=> Returning(ra))
  BY <1>1 DEF Calling, Returning, Called, InMain, Frame
<1>4. \A ra : (AtRow(ra)' <=> AtRow(ra)) /\ (AtColumn(ra)' <=> AtColumn(ra))
  BY <1>1 DEF AtRow, AtColumn, Called, InMain, Frame
<1>5. AtElement' <=> AtElement  BY <1>1, <1>4 DEF AtElement, At
<1>6. (Shown' <=> Shown) /\ (Tested' <=> Tested) /\ (Judged' <=> Judged)
  BY <1>1 DEF Shown, Tested, Judged, InMain, Frame
<1>7. /\ RowIdentical' <=> RowIdentical
      /\ ColumnIdentical' <=> ColumnIdentical
      /\ ElementIdentical' <=> ElementIdentical
  BY <1>1, <1>4, <1>5 DEF RowIdentical, ColumnIdentical, ElementIdentical, SameUpTo, At
<1>8. (AtEntry' <=> AtEntry) /\ (IsiDone' <=> IsiDone)
  BY <1>1 DEF AtEntry, IsiDone, IsiRight, Home
<1>9. IsiState'
  BY <1>1, <1>3, <1>4, <1>6, <1>7, <1>8 DEF Compares, IsiState
<1>10. QED  BY <1>1, <1>2, <1>9 DEF Compares

LEMMA InitAsm == AsmInit => AsmState
<1>1. CASE LifeInit /\ NoMatrix
  <2>1. Typed /\ LifeMemory /\ LifeAt(1) /\ program = "life"
    BY <1>1, LifeBegins DEF LifeInit, Start
  <2>2. 1 \in 1 .. input + 1  BY <2>1 DEF LifeAt
  <2>3. QED  BY <2>1, <2>2 DEF AsmState, PlaysLife
<1>2. CASE FacInit /\ NoBoards
  <2>1. program \in {"fac1", "fac2", "fac3"}  BY <1>2 DEF FacInit, Start
  <2>2. QED  BY <1>2, <2>1, FacBegins DEF AsmState, Multiplies
<1>3. CASE IsiInit /\ NoBoards
  <2>1. program \in {"isi", "isi_review"}  BY <1>3 DEF IsiInit, Start
  <2>2. QED  BY <1>3, <2>1, IsiBegins DEF AsmState, Compares
<1>4. QED  BY <1>1, <1>2, <1>3 DEF AsmInit

\* A program only takes steps of its own.
LEMMA OwnSteps ==
  ASSUME AsmNext
  PROVE  /\ PlaysLife => LifeNext
         /\ Multiplies => FacNext /\ UNCHANGED <<Memory, m>>
         /\ Compares => IsiNext /\ UNCHANGED Memory
<1>1. PlaysLife => pc \in LifeLabels  BY DEF PlaysLife, LifeMemory
<1>2. Multiplies => pc \in FacLabels  BY DEF Multiplies, FacState
<1>3. Compares => pc \in IsiLabels  BY DEF Compares, IsiState
<1>4. QED
  BY <1>1, <1>2, <1>3, LifeBeginsAt, FacBeginsAt, IsiBeginsAt, LabelsApart DEF AsmNext

LEMMA NextAsm == AsmState /\ [AsmNext]_asmVars => AsmState'
<1> SUFFICES ASSUME AsmState, [AsmNext]_asmVars PROVE AsmState'  OBVIOUS
<1>0. Typed  BY DEF AsmState
<1>1. CASE UNCHANGED asmVars
  BY <1>1, LifeStays, FacStays, IsiStays DEF AsmState
<1>2. CASE AsmNext /\ PlaysLife
  <2>1. PICK n \in 1 .. input + 1 : LifeAt(n)  BY <1>2 DEF PlaysLife
  <2>2. LifeMemory /\ LifeNext /\ program = "life"  BY <1>2, OwnSteps DEF PlaysLife
  <2>3. /\ Typed' /\ LifeMemory' /\ UNCHANGED <<program, input>>
        /\ \E k \in 1 .. input + 1 : LifeAt(k)'
    BY <1>0, <2>1, <2>2, LifeSteps
  <2>4. PlaysLife'  BY <2>2, <2>3 DEF PlaysLife
  <2>5. QED  BY <2>3, <2>4 DEF AsmState
<1>3. CASE AsmNext /\ Multiplies
  <2>1. FacNext /\ UNCHANGED <<Board, NewBoard>>  BY <1>3, OwnSteps DEF Memory
  <2>2. Typed' /\ FacState' /\ program' = program
    BY <1>0, <1>3, <2>1, FacKeeps, FacBeginsAt DEF Multiplies
  <2>3. NoBoards'  BY <1>3, <2>1 DEF Multiplies, NoBoards
  <2>4. QED  BY <1>3, <2>2, <2>3 DEF AsmState, Multiplies
<1>4. CASE AsmNext /\ Compares
  <2>1. IsiNext /\ UNCHANGED <<Board, NewBoard>>  BY <1>4, OwnSteps DEF Memory
  <2>2. Typed' /\ IsiState' /\ program' = program
    BY <1>0, <1>4, <2>1, IsiKeeps, IsiBeginsAt DEF Compares
  <2>3. NoBoards'  BY <1>4, <2>1 DEF Compares, NoBoards
  <2>4. QED  BY <1>4, <2>2, <2>3 DEF AsmState, Compares
<1>5. QED  BY <1>1, <1>2, <1>3, <1>4 DEF AsmState

\* Whatever the boards, the numbers and the matrices are, each of the six
\* programs comes back to its caller with $s0 to $s5, $fp, $sp and $ra as it
\* found them: in prog.s across the calls of its three functions, in fac3.s
\* from any depth of its recursion.
THEOREM RegistersAreRestored == AsmSpec => []RegistersRestored
<1>1. AsmState => RegistersRestored
  <2> SUFFICES ASSUME AsmState, pc = "caller" PROVE RegistersRestored  BY DEF RegistersRestored
  <2>1. Home
    BY DEF AsmState, PlaysLife, LifeAt, GameOver, Multiplies, FacState, FacDone, Compares,
           IsiState, IsiDone
  <2>2. QED  BY <2>1 DEF RegistersRestored, Home, Preserved, SRegs
<1>2. QED  BY <1>1, InitAsm, NextAsm, PTL DEF AsmSpec

\* The three factorial programs print n! as far as a word holds it, for every
\* n and every width of a word, and both versions of isi.s say rightly whether
\* the matrix is the identity, whatever its size and elements.
THEOREM AsmAnswersAreRight == AsmSpec => []AnswersRight
<1>1. AsmState => AnswersRight
  <2> SUFFICES ASSUME AsmState, pc = "caller", program # "life"
               PROVE  IF program \in {"isi", "isi_review"} THEN IsiRight ELSE FacRight
    BY DEF AnswersRight
  <2>1. CASE Multiplies  BY <2>1 DEF Multiplies, FacState, FacDone
  <2>2. CASE Compares  BY <2>2 DEF Compares, IsiState, IsiDone
  <2>3. QED  BY <2>1, <2>2 DEF AsmState, PlaysLife
<1>2. QED  BY <1>1, InitAsm, NextAsm, PTL DEF AsmSpec

-----------------------------------------------------------------------------
(* The refinement.                                                         *)

LEMMA LiveCellsAre == LiveCells = Alive(View)
BY DEF LiveCells, Alive, View, Cells

LEMMA LiveCellsBecome == LiveCells' = Alive(View')
BY DEF LiveCells, Alive, View, Cells, Copying

GenerationShown == \A n : LifeMemory /\ LifeAt(n) /\ program = "life" => Generation = Reached(n)

LEMMA GenerationIs == GenerationShown
BY GenerationReached DEF GenerationShown

LEMMA GenerationBecomes == GenerationShown'
BY GenerationIs, PTL

LEMMA InitAsmIsGrid == AsmInit => Grid!GridInit
<1> SUFFICES ASSUME AsmInit PROVE Grid!GridInit  OBVIOUS
<1>1. program # "life" \/ pc = "main"  BY DEF AsmInit, LifeInit, FacInit, IsiInit, Start
<1>2. Generation = 0  BY <1>1 DEF Generation
<1>3. LiveCells \in SUBSET Grid!Cells  BY DEF LiveCells, Grid!Cells
<1>4. QED  BY <1>2, <1>3 DEF Grid!GridInit

LEMMA NextAsmIsGrid == AsmState /\ [AsmNext]_asmVars => [Grid!GridNext]_<<LiveCells, Generation>>
<1> SUFFICES ASSUME AsmState, [AsmNext]_asmVars
             PROVE  Grid!GridNext \/ (LiveCells' = LiveCells /\ Generation' = Generation)
  OBVIOUS
<1>0. Typed  BY DEF AsmState
<1>1. CASE UNCHANGED asmVars
  <2>1. UNCHANGED <<program, input, pc, reg, stack, Board, NewBoard>>
    BY <1>1 DEF asmVars, machine, Memory
  <2>2. QED  BY <2>1 DEF LiveCells, Generation, nOfMain, Copying
<1>2. CASE AsmNext /\ PlaysLife
  <2>1. PICK n \in 1 .. input + 1 : LifeAt(n)  BY <1>2 DEF PlaysLife
  <2>2. LifeMemory /\ LifeNext /\ program = "life"  BY <1>2, OwnSteps DEF PlaysLife
  <2>3. PICK k \in 1 .. input + 1 :
          /\ LifeAt(k)'
          /\ \/ View' = View /\ Reached(k)' = Reached(n)
             \/ View' = NextBytes(View) /\ Reached(k)' = Reached(n) + 1
    BY <1>0, <2>1, <2>2, LifeSteps
  <2>4. LifeMemory' /\ program' = "life"  BY <1>0, <2>1, <2>2, LifeSteps
  <2>5. Generation = Reached(n)  BY <2>1, <2>2, GenerationIs DEF GenerationShown
  <2>6. Generation' = Reached(k)'  BY <2>3, <2>4, GenerationBecomes DEF GenerationShown
  <2>7. CASE View' = View /\ Reached(k)' = Reached(n)
    BY <2>5, <2>6, <2>7, LiveCellsAre, LiveCellsBecome
  <2>8. CASE View' = NextBytes(View) /\ Reached(k)' = Reached(n) + 1
    <3>1. LiveCells' = Grid!Successor(LiveCells)
      BY <2>8, LiveCellsAre, LiveCellsBecome, NextBytesAreSuccessor
    <3>2. QED  BY <2>5, <2>6, <2>8, <3>1 DEF Grid!GridNext
  <2>9. QED  BY <2>3, <2>7, <2>8
<1>3. CASE AsmNext /\ (Multiplies \/ Compares)
  <2>1. program # "life" /\ program' = program /\ UNCHANGED <<Board, NewBoard>> /\ NoBoards
    BY <1>3, OwnSteps, FacBeginsAt, IsiBeginsAt DEF Multiplies, Compares, Memory
  <2>2. Generation' = Generation  BY <2>1 DEF Generation
  <2>3. View' = View  BY <2>1 DEF View, NoBoards
  <2>4. QED  BY <2>2, <2>3, LiveCellsAre, LiveCellsBecome
<1>4. QED  BY <1>1, <1>2, <1>3 DEF AsmState

\* prog.s plays the Game of Life on a board of any size, for any number of
\* iterations: what its two boards go through byte by byte, across its calls
\* and whatever they do to its registers, are the generations of the grid, each
\* reached when main has stored the last byte of the new board.
THEOREM ProgIsTheGame == AsmSpec => ImplementsGrid
<1>1. AsmInit => AsmState /\ Grid!GridInit  BY InitAsm, InitAsmIsGrid
<1>2. AsmState /\ [AsmNext]_asmVars => AsmState'  BY NextAsm
<1>3. QED  BY <1>1, <1>2, NextAsmIsGrid, PTL DEF AsmSpec, ImplementsGrid, Grid!GridSpec
=============================================================================
