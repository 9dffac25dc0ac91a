---------------------------- MODULE ShellProofs ----------------------------
(***************************************************************************)
(* Theorems about labs/week08/mysh.c (module Shell), for any lines, any    *)
(* directories and any files, and inputs of any length.                    *)
(***************************************************************************)
EXTENDS Shell, FiniteSetTheorems, TLAPS

-----------------------------------------------------------------------------
(* The invariant.                                                          *)

Fates == {"none", "own", "forked", "exited", "ran", "died"}
Items == Printed \X (0 .. MaxLines) \X Dirs

Input ==
  /\ tty \in BOOLEAN /\ seekable \in BOOLEAN /\ (seekable => ~tty)
  /\ script \in Seq(Lines) /\ Len(script) <= MaxLines
  /\ off \in 0 .. Len(script) /\ line \in 0 .. Len(script)
  /\ buf \in Seq(1 .. Len(script))
  /\ log \in Seq([n : 1 .. Len(script), fate : Fates])

\* A child is there only while the parent waits for it, and the line that was
\* carried out last is the one it was forked for.
Processes ==
  /\ pc \in {"read", "wait", "over", "undefined"}
  /\ child \in {"none", "execute", "running", "exited"}
  /\ (child # "none") = (pc = "wait")
  /\ pc = "wait" => log # <<>> /\ log[Len(log)].fate # "own"
  /\ child = "execute" => log[Len(log)].fate = "forked"

Output ==
  /\ screen \in Seq(Items) /\ out \in Seq(Items) /\ cout \in Seq(Items)
  /\ cwd \in Dirs

OwnLines == {k \in DOMAIN log : log[k].fate = "own"}

\* What stdio holds is in order, behind what was carried out and within what
\* the kernel has handed out.
Ascending ==
  /\ OnlyOnce
  /\ \A j \in DOMAIN log : log[j].n <= off
  /\ \A k \in DOMAIN buf : buf[k] <= off
  /\ \A j \in DOMAIN log, k \in DOMAIN buf : log[j].n < buf[k]
  /\ \A j, k \in DOMAIN buf : j < k => buf[j] < buf[k]

Reread == seekable /\ \E k \in DOMAIN log : Ended(k)

\* What is printed is about a line that was carried out, or about none, and
\* a child speaks of the line it was forked for.
About(s) == {s[i][2] : i \in DOMAIN s}
Carried == {log[k].n : k \in DOMAIN log}
Speaking ==
  /\ About(screen) \cup About(out) \cup About(cout) \subseteq {0} \cup Carried
  /\ child \in {"execute", "running"} => log[Len(log)].n = line

\* How often a sequence of items has the answer to line n, and the children
\* that flushed a copy of what waited after the k-th line.
Shown(s, n) == Cardinality({i \in DOMAIN s : s[i][2] = n})
Copies(k) == Cardinality({j \in k + 1 .. Len(log) : ~tty /\ Ended(j)})

\* Where the answer to line n is when there were a of it.
Answered(n, a, copies) ==
  IF tty THEN /\ Shown(screen, n) = a /\ Shown(out, n) = 0
              /\ child = "execute" => Shown(cout, n) = 0
  ELSE IF pc = "over" THEN Shown(screen, n) = IF a = 0 THEN 0 ELSE 1 + copies
  ELSE /\ Shown(screen, n) = IF a = 0 THEN 0 ELSE copies
       /\ Shown(out, n) = a
       /\ child = "execute" => Shown(cout, n) = a

IsCd(n) == Comm(script[n])[1] = <<"cd">>
Answers ==
  OnlyOnce => \A k \in OwnLines : \E a \in {0, 1} :
                 /\ a = 0 => IsCd(log[k].n)
                 /\ Answered(log[k].n, a, Copies(k))

ShellInv ==
  /\ Input /\ Processes /\ Output
  /\ lists \in Int /\ ListsHeld
  /\ Reread \/ Ascending
  /\ Speaking /\ Answers

-----------------------------------------------------------------------------
(* The input and the two processes.                                        *)

LEMMA InitInput == ShellInit => Input /\ Processes
<1> SUFFICES ASSUME ShellInit PROVE Input /\ Processes
  OBVIOUS
<1>1. PICK m \in 0 .. MaxLines : script \in [1 .. m -> Lines]
  BY DEF ShellInit, BoundedSeq, SeqOf
<1>2. m \in Nat /\ m <= MaxLines  BY ShellAssumption
<1>3. script \in Seq(Lines) /\ Len(script) = m  BY <1>1, <1>2
<1>4. QED  BY <1>2, <1>3 DEF ShellInit, Input, Processes

\* A line that is carried out, and what becomes of it at once.
LEMMA FgetsInput ==
  ASSUME Input, NEW fate \in Fates, Fgets(fate)
  PROVE  /\ Input' /\ line' \in 1 .. Len(script)
         /\ log' # <<>> /\ Len(log') = Len(log) + 1
         /\ log'[Len(log')] = [n |-> line', fate |-> fate]
         /\ \A k \in DOMAIN log : log'[k] = log[k]
<1>1. /\ buf \in Seq(1 .. Len(script)) /\ buf # <<>>
      /\ line' = Head(buf) /\ buf' = Tail(buf)
      /\ Head(buf) \in 1 .. Len(script) /\ Tail(buf) \in Seq(1 .. Len(script))
  BY DEF Fgets, Input
<1>2. UNCHANGED <<tty, seekable, script, off>>  BY DEF Fgets, input
<1> DEFINE e == [n |-> Head(buf), fate |-> fate]
           E == [n : 1 .. Len(script), fate : Fates]
<1>3. e \in E /\ log \in Seq(E) /\ log' = Append(log, e)
  BY <1>1 DEF Fgets, Input
<1> HIDE DEF e, E
<1>4. /\ log' \in Seq(E) /\ log' # <<>> /\ Len(log') = Len(log) + 1
      /\ log'[Len(log')] = e
      /\ \A k \in DOMAIN log : log'[k] = log[k]
  BY <1>3
<1>5. Input'  BY <1>1, <1>2, <1>4 DEF Input, E
<1>6. QED  BY <1>1, <1>4, <1>5 DEF e

\* What execute makes of the line the child was forked for.
LEMMA ChildInput ==
  ASSUME Input, Processes, NEW fate \in Fates \ {"own"},
         NEW next \in {"exited", "running"}, Child(fate, next),
         off' \in 0 .. Len(script)
  PROVE  /\ Input' /\ Processes'
         /\ Len(log) \in DOMAIN log /\ log[Len(log)].fate = "forked"
         /\ DOMAIN log' = DOMAIN log
         /\ log'[Len(log)] = [log[Len(log)] EXCEPT !.fate = fate]
         /\ \A k \in DOMAIN log : k # Len(log) => log'[k] = log[k]
<1> DEFINE E == [n : 1 .. Len(script), fate : Fates]
           e == [log[Len(log)] EXCEPT !.fate = fate]
<1>1. /\ child = "execute" /\ pc = "wait" /\ child' = next
      /\ log # <<>> /\ log[Len(log)].fate = "forked"
  BY DEF Child, Processes
<1>2. Len(log) \in DOMAIN log /\ log[Len(log)] \in E /\ log \in Seq(E)
  <2>1. log \in Seq(E)  BY DEF Input
  <2> HIDE DEF E
  <2>2. QED  BY <1>1, <2>1
<1>3. e \in E /\ e.fate = fate  BY <1>2
<1>4. log' = [log EXCEPT ![Len(log)] = e]  BY DEF Child
<1> HIDE DEF e, E
<1>5. /\ log' \in Seq(E) /\ DOMAIN log' = DOMAIN log /\ Len(log') = Len(log)
      /\ log'[Len(log)] = e /\ log' # <<>>
      /\ \A k \in DOMAIN log : k # Len(log) => log'[k] = log[k]
  BY <1>1, <1>2, <1>3, <1>4
<1>6. Input'  BY <1>5 DEF Input, Child, input, E
<1>7. Processes'  BY <1>1, <1>3, <1>5 DEF Processes, Child
<1>8. QED  BY <1>1, <1>2, <1>5, <1>6, <1>7 DEF e

LEMMA SeekBackInput ==
  ASSUME Input, SeekBack PROVE off' \in 0 .. Len(script)
<1>1. Len(buf) \in Nat /\ off \in 0 .. Len(script) /\ Len(script) \in Nat
  BY DEF Input
<1>2. QED  BY <1>1 DEF SeekBack

LEMMA NextInput ==
  ASSUME Input, Processes, [Next]_shellVars PROVE Input' /\ Processes'
<1>1. CASE Fill
  <2>1. PICK n \in 1 .. Len(script) - off :
          off' = off + n /\ buf' = [k \in 1 .. n |-> off + k]
    BY <1>1 DEF Fill, Input
  <2>2. n \in Nat /\ off + n <= Len(script) /\ off \in Nat /\ Len(script) \in Nat
    BY <2>1 DEF Input
  <2>3. \A k \in 1 .. n : off + k \in 1 .. Len(script)  BY <2>2
  <2>4. buf' \in Seq(1 .. Len(script))  BY <2>1, <2>2, <2>3
  <2>5. QED  BY <1>1, <2>1, <2>2, <2>4 DEF Fill, Input, Processes, input
<1>2. CASE EndOfInput
  BY <1>2 DEF EndOfInput, Leave, Input, Processes, input
<1>3. CASE Exit \/ Blank
  <2>1. Fgets("none") /\ pc = "read" /\ child' = child /\ pc' \in {"read", "over"}
    BY <1>3 DEF Exit, Blank, Fgets, Leave
  <2>2. QED  BY <2>1, FgetsInput DEF Processes, Fates
<1>4. CASE Cd \/ CdUndefined \/ Pwd \/ ForkFails
  <2>1. /\ Fgets("own") /\ pc = "read" /\ child' = child
        /\ pc' \in {"read", "over", "undefined"}
    BY <1>4 DEF Cd, CdUndefined, Pwd, ForkFails, Builtin, Fgets, Fail
  <2>2. QED  BY <2>1, FgetsInput DEF Processes, Fates
<1>5. CASE Fork
  <2>1. Fgets("forked") /\ child' = "execute" /\ pc' = "wait"  BY <1>5 DEF Fork
  <2>2. QED  BY <2>1, FgetsInput DEF Processes, Fates
<1>6. CASE Wait
  BY <1>6 DEF Wait, Reap, Input, Processes, input
<1>7. CASE NotFound
  <2>1. Child("exited", "exited") /\ off' \in 0 .. Len(script)
    BY <1>7, SeekBackInput DEF NotFound
  <2>2. QED  BY <2>1, ChildInput DEF Fates
<1>8. CASE ExecFails
  <2>1. Child("exited", "exited") /\ off' \in 0 .. Len(script)
    BY <1>8, SeekBackInput DEF ExecFails
  <2>2. QED  BY <2>1, ChildInput DEF Fates
<1>9. CASE Exec
  <2>1. Child("ran", "running") /\ off' \in 0 .. Len(script)
    BY <1>9 DEF Exec, Input
  <2>2. QED  BY <2>1, ChildInput DEF Fates
<1>10. CASE Overruns
  <2>1. Child("died", "exited") /\ off' \in 0 .. Len(script)
    BY <1>10 DEF Overruns, Input
  <2>2. QED  BY <2>1, ChildInput DEF Fates
<1>11. CASE ProgramReads
  BY <1>11 DEF ProgramReads, Input, Processes, input
<1>12. CASE ProgramEnds
  BY <1>12 DEF ProgramEnds, Input, Processes, input
<1>13. CASE UNCHANGED shellVars
  BY <1>13 DEF shellVars, stdio, input, Input, Processes
<1>14. QED
  BY <1>1, <1>2, <1>3, <1>4, <1>5, <1>6, <1>7, <1>8, <1>9, <1>10, <1>11, <1>12,
     <1>13 DEF Next, Parent, Execute

-----------------------------------------------------------------------------
(* The output and the working directory.                                   *)

LEMMA ItemsAre ==
  /\ \A n \in 0 .. MaxLines, what \in Printed, d \in Dirs : <<what, n, d>> \in Items
  /\ \A i \in Items : Item(i)
<1> DEFINE N == 0 .. MaxLines
<1>1. Items = Printed \X N \X Dirs  BY DEF Items
<1>2. \A i : Item(i) <=> Len(i) = 3 /\ i[1] \in Printed /\ i[2] \in N /\ i[3] \in Dirs
  BY DEF Item
<1> HIDE DEF N
<1>3. \A n \in N, what \in Printed, d \in Dirs : <<what, n, d>> \in Items  BY <1>1
<1>4. \A i \in Items : Item(i)  BY <1>1, <1>2
<1>5. QED  BY <1>3, <1>4 DEF N

\* What is said about a line, and what is said about none.
LEMMA SayItems ==
  /\ \A n \in 0 .. MaxLines, what \in Printed : Say(n, what) \in Items
  /\ Prompt \in Items /\ Newline \in Items
<1>1. 0 \in 0 .. MaxLines /\ <<>> \in Dirs  BY ShellAssumption
<1>2. "mysh$ " \in Printed /\ "\n" \in Printed  BY DEF Printed
<1>3. QED  BY <1>1, <1>2, ItemsAre, Zenon DEF Prompt, Newline, Say

LEMMA ConcatItems ==
  ASSUME NEW s \in Seq(Items), NEW t \in Seq(Items) PROVE s \o t \in Seq(Items)
OBVIOUS

LEMMA ReplyOutput ==
  ASSUME screen \in Seq(Items), out \in Seq(Items), NEW items \in Seq(Items),
         Reply(items)
  PROVE  screen' \in Seq(Items) /\ out' \in Seq(Items)
<1> USE SayItems
<1> HIDE DEF Items, Prompt
<1>1. <<Prompt>> \in Seq(Items)  OBVIOUS
<1>2. CASE tty /\ items # <<>>
  <2>1. screen' = screen \o out \o items /\ out' = <<Prompt>>  BY <1>2 DEF Reply
  <2>2. QED  BY <1>1, <2>1
<1>3. CASE ~(tty /\ items # <<>>)
  <2>1. screen' = screen /\ out' = out \o items \o <<Prompt>>
    BY <1>3, Zenon DEF Reply
  <2>2. QED  BY <1>1, <2>1
<1>4. QED  BY <1>2, <1>3

LEMMA LeaveOutput ==
  ASSUME screen \in Seq(Items), out \in Seq(Items), NEW items \in Seq(Items),
         Leave(items) \/ Fail(items)
  PROVE  screen' \in Seq(Items) /\ out' \in Seq(Items)
<1> HIDE DEF Items
<1>1. CASE Leave(items)  BY <1>1, ConcatItems, SayItems DEF Leave
<1>2. CASE Fail(items)  BY <1>2, ConcatItems, SayItems DEF Fail
<1>3. QED  BY <1>1, <1>2

LEMMA NextOutput ==
  ASSUME Input, Processes, Output, [Next]_shellVars PROVE Output'
<1> USE DEF Output
<1>0. Input'  BY NextInput
<1>1. /\ \A what \in Printed : <<Say(line, what)>> \in Seq(Items)
                              /\ <<Say(line', what)>> \in Seq(Items)
      /\ <<Newline>> \in Seq(Items) /\ <<>> \in Seq(Items)
      /\ \A d \in Dirs : <<<<"dir", line', d>>>> \in Seq(Items)
  <2>1. line \in 0 .. MaxLines /\ line' \in 0 .. MaxLines
    BY <1>0, ShellAssumption DEF Input
  <2>2. \A what \in Printed : Say(line, what) \in Items /\ Say(line', what) \in Items
    BY <2>1, SayItems
  <2>3. "dir" \in Printed  BY DEF Printed
  <2>4. \A d \in Dirs : <<"dir", line', d>> \in Items
    BY <2>1, <2>3, ItemsAre
  <2>5. QED  BY <2>2, <2>4, SayItems
<1>2. CASE Fill
  <2>1. \/ screen' = screen \o out /\ out' = <<>>
        \/ screen' = screen /\ out' = out
    BY <1>2, Zenon DEF Fill
  <2>2. cout' = cout /\ cwd' = cwd  BY <1>2 DEF Fill
  <2>3. QED  BY <1>1, <2>1, <2>2, ConcatItems
<1>3. CASE EndOfInput
  BY <1>1, <1>3, LeaveOutput DEF EndOfInput
<1>4. CASE Exit
  BY <1>1, <1>4, LeaveOutput DEF Exit
<1>5. CASE Blank
  BY <1>1, <1>5, ReplyOutput DEF Blank
<1>6. CASE Cd
  <2>1. cout' = cout  BY <1>6 DEF Cd, Builtin
  <2>2. ASSUME NEW target, ChangeTo(target)
        PROVE  cwd' \in Dirs /\ screen' \in Seq(Items) /\ out' \in Seq(Items)
    BY <1>1, <2>2, ReplyOutput DEF ChangeTo, Printed
  <2>3. CASE Reply(<<>>) /\ cwd' = IF Home \in Dirs THEN Home ELSE cwd
    BY <1>1, <2>1, <2>3, ReplyOutput
  <2>4. \/ Reply(<<>>) /\ cwd' = IF Home \in Dirs THEN Home ELSE cwd
        \/ \E target : ChangeTo(target)
    BY <1>6 DEF Cd
  <2>5. QED  BY <2>1, <2>2, <2>3, <2>4
<1>7. CASE CdUndefined
  BY <1>7 DEF CdUndefined, Builtin
<1>8. CASE Pwd
  BY <1>1, <1>8, ReplyOutput, LeaveOutput DEF Pwd, Builtin, Printed
<1>9. CASE ForkFails
  BY <1>1, <1>9, ReplyOutput DEF ForkFails, Printed
<1>10. CASE Fork
  BY <1>10 DEF Fork
<1>11. CASE Wait
  BY <1>1, <1>11, ReplyOutput DEF Wait
<1>12. CASE NotFound
  BY <1>1, <1>12, ConcatItems DEF NotFound, Child, Flush, Printed
<1>13. CASE ExecFails
  <2>1. PICK said \in Seq(Items), error \in Seq(Items) :
          screen' = IF tty THEN screen \o cout \o (said \o error)
                    ELSE screen \o error \o cout \o said
    BY <1>1, <1>13 DEF ExecFails, Flush, Printed
  <2>2. screen' \in Seq(Items)  BY <2>1, ConcatItems
  <2>3. QED  BY <1>1, <1>13, <2>2 DEF ExecFails, Child
<1>14. CASE Exec
  BY <1>1, <1>14, ConcatItems DEF Exec, Child, Printed
<1>15. CASE Overruns
  BY <1>1, <1>15 DEF Overruns, Child
<1>16. CASE ProgramReads
  BY <1>16 DEF ProgramReads
<1>17. CASE ProgramEnds
  <2>1. line \in 0 .. MaxLines  BY ShellAssumption DEF Input
  <2>2. Say(line, "output") \in Items  BY <2>1, SayItems DEF Printed
  <2>3. screen' = Append(screen, Say(line, "output"))  BY <1>17 DEF ProgramEnds
  <2>4. screen' \in Seq(Items)  BY <2>2, <2>3
  <2>5. QED  BY <1>17, <2>4 DEF ProgramEnds
<1>18. CASE UNCHANGED shellVars
  BY <1>18 DEF shellVars, stdio
<1>19. QED
  BY <1>2, <1>3, <1>4, <1>5, <1>6, <1>7, <1>8, <1>9, <1>10, <1>11, <1>12, <1>13,
     <1>14, <1>15, <1>16, <1>17, <1>18 DEF Next, Parent, Execute

-----------------------------------------------------------------------------
(* The token lists.                                                        *)

LEMMA OwnLinesFinite ==
  ASSUME Input PROVE IsFiniteSet(OwnLines) /\ Cardinality(OwnLines) \in Nat
<1>1. DOMAIN log = 1 .. Len(log) /\ Len(log) \in Nat  BY DEF Input
<1>2. IsFiniteSet(1 .. Len(log))  BY <1>1, FS_Interval
<1>3. IsFiniteSet(OwnLines)  BY <1>1, <1>2, FS_Subset DEF OwnLines
<1>4. QED  BY <1>3, FS_CardinalityType

LEMMA FgetsOwnLines ==
  ASSUME Input, NEW fate \in Fates, Fgets(fate)
  PROVE  Cardinality(OwnLines') =
           Cardinality(OwnLines) + IF fate = "own" THEN 1 ELSE 0
<1>1. /\ Input' /\ Len(log') = Len(log) + 1
      /\ log'[Len(log')].fate = fate
      /\ \A k \in DOMAIN log : log'[k] = log[k]
  <2>1. log'[Len(log')] = [n |-> line', fate |-> fate]  BY FgetsInput
  <2>2. log'[Len(log')].fate = fate  BY <2>1
  <2>3. QED  BY <2>2, FgetsInput
<1>2. /\ DOMAIN log = 1 .. Len(log) /\ DOMAIN log' = 1 .. Len(log')
      /\ Len(log) \in Nat
  BY <1>1 DEF Input
<1>3. OwnLines' = IF fate = "own" THEN OwnLines \cup {Len(log')} ELSE OwnLines
  BY <1>1, <1>2 DEF OwnLines
<1>4. Len(log') \notin OwnLines  BY <1>1, <1>2 DEF OwnLines
<1>5. IsFiniteSet(OwnLines) /\ Cardinality(OwnLines) \in Nat  BY OwnLinesFinite
<1>6. Cardinality(OwnLines \cup {Len(log')}) = Cardinality(OwnLines) + 1
  BY <1>4, <1>5, FS_AddElement
<1>7. QED  BY <1>3, <1>5, <1>6

LEMMA ChildOwnLines ==
  ASSUME Input, Processes, NEW fate \in Fates \ {"own"},
         NEW next \in {"exited", "running"}, Child(fate, next),
         off' \in 0 .. Len(script)
  PROVE  OwnLines' = OwnLines
<1> DEFINE E == [n : 1 .. Len(script), fate : Fates]
<1>1. log[Len(log)] \in E
  <2>1. log \in Seq(E) /\ Len(log) \in DOMAIN log  BY ChildInput DEF Input
  <2> HIDE DEF E
  <2>2. QED  BY <2>1
<1>2. log'[Len(log)].fate = fate  BY <1>1, ChildInput
<1>3. QED  BY <1>2, ChildInput DEF OwnLines

LEMMA NextLists ==
  ASSUME Input, Processes, lists \in Int, ListsHeld, [Next]_shellVars
  PROVE  lists' \in Int /\ ListsHeld'
<1> DEFINE Held(k, waits, own) == k = 1 + (IF waits THEN 1 ELSE 0) + Cardinality(own)
<1>0. /\ ListsHeld <=> (pc \in {"read", "wait"} => Held(lists, pc = "wait", OwnLines))
      /\ ListsHeld' <=>
           (pc' \in {"read", "wait"} => Held(lists', pc' = "wait", OwnLines'))
  BY DEF ListsHeld, OwnLines
<1>1. Cardinality(OwnLines) \in Nat  BY OwnLinesFinite
<1>2. CASE Fill \/ ProgramReads \/ ProgramEnds \/ UNCHANGED shellVars
  <2>1. UNCHANGED <<pc, lists, log>>
    BY <1>2 DEF Fill, ProgramReads, ProgramEnds, shellVars
  <2>2. OwnLines' = OwnLines  BY <2>1 DEF OwnLines
  <2>3. QED  BY <1>0, <2>1, <2>2
<1>3. CASE EndOfInput
  BY <1>0, <1>3 DEF EndOfInput, Leave, FreeTokens
<1>4. CASE Exit \/ Blank
  <2>1. Fgets("none") /\ pc = "read"
    BY <1>4 DEF Exit, Blank, Fgets
  <2>2. (pc' = "over" /\ lists' = lists - 1) \/ (pc' = pc /\ lists' = lists)
    BY <1>4 DEF Exit, Blank, Leave, FreeTokens
  <2>3. Cardinality(OwnLines') = Cardinality(OwnLines)
    BY <1>1, <2>1, FgetsOwnLines DEF Fates
  <2>4. QED  BY <1>0, <1>1, <2>1, <2>2, <2>3
<1>5. CASE Cd \/ CdUndefined \/ Pwd \/ ForkFails
  <2>1. Fgets("own") /\ lists' = lists + 1 /\ pc = "read"
        /\ pc' \in {"read", "over", "undefined"}
    BY <1>5 DEF Cd, CdUndefined, Pwd, ForkFails, Builtin, Fgets, Fail
  <2>2. Cardinality(OwnLines') = Cardinality(OwnLines) + 1
    BY <1>1, <2>1, FgetsOwnLines DEF Fates
  <2>3. QED  BY <1>0, <1>1, <2>1, <2>2
<1>6. CASE Fork
  <2>1. Fgets("forked") /\ lists' = lists + 1 /\ pc = "read" /\ pc' = "wait"
    BY <1>6 DEF Fork, Fgets
  <2>2. Cardinality(OwnLines') = Cardinality(OwnLines)
    BY <1>1, <2>1, FgetsOwnLines DEF Fates
  <2>3. QED  BY <1>0, <1>1, <2>1, <2>2
<1>7. CASE Wait
  <2>1. pc = "wait" /\ pc' = "read" /\ lists' = lists - 1 /\ log' = log
    BY <1>7 DEF Wait, FreeTokens
  <2>2. OwnLines' = OwnLines  BY <2>1 DEF OwnLines
  <2>3. QED  BY <1>0, <1>1, <2>1, <2>2
<1>8. CASE Execute
  <2>1. /\ \E fate \in Fates \ {"own"}, next \in {"exited", "running"} : Child(fate, next)
        /\ UNCHANGED <<pc, lists>>
    BY <1>8 DEF Execute, NotFound, ExecFails, Exec, Overruns, Child, Fates
  <2>2. off' \in 0 .. Len(script)
    BY <1>8, SeekBackInput DEF Execute, NotFound, ExecFails, Exec, Overruns, Input
  <2>3. OwnLines' = OwnLines  BY <2>1, <2>2, ChildOwnLines
  <2>4. QED  BY <1>0, <2>1, <2>3
<1>9. QED
  BY <1>2, <1>3, <1>4, <1>5, <1>6, <1>7, <1>8 DEF Next, Parent

-----------------------------------------------------------------------------
(* The order of the lines.                                                 *)

LEMMA LineNumbers ==
  ASSUME Input
  PROVE  /\ off \in Nat /\ buf \in Seq(Nat)
         /\ \A k \in DOMAIN buf : buf[k] \in Nat
         /\ \A j \in DOMAIN log : /\ log[j] \in [n : 1 .. Len(script), fate : Fates]
                                  /\ log[j].n \in 1 .. Len(script)
                                  /\ log[j].n \in Nat
<1> DEFINE N == 1 .. Len(script)
           E == [n : N, fate : Fates]
<1>1. log \in Seq(E) /\ buf \in Seq(N) /\ off \in Nat  BY DEF Input
<1>2. N \subseteq Nat  BY DEF Input
<1>3. \A e \in E : e.n \in N  OBVIOUS
<1> HIDE DEF E, N
<1>4. buf \in Seq(Nat) /\ \A k \in DOMAIN buf : buf[k] \in Nat
  <2>1. /\ Len(buf) \in Nat /\ DOMAIN buf = 1 .. Len(buf)
        /\ \A k \in DOMAIN buf : buf[k] \in N
        /\ buf = [k \in 1 .. Len(buf) |-> buf[k]]
    BY <1>1
  <2>2. \A k \in DOMAIN buf : buf[k] \in Nat  BY <1>2, <2>1
  <2>3. buf \in Seq(Nat)  BY <2>1, <2>2
  <2>4. QED  BY <2>2, <2>3
<1>5. \A j \in DOMAIN log : log[j] \in E  BY <1>1
<1>6. QED  BY <1>1, <1>2, <1>3, <1>4, <1>5 DEF E, N

LEMMA FgetsOrder ==
  ASSUME Input, NEW fate \in Fates, Fgets(fate), Reread \/ Ascending
  PROVE  (Reread \/ Ascending)'
<1>1. /\ Input' /\ Len(log') = Len(log) + 1
      /\ log'[Len(log')].n = line'
      /\ \A k \in DOMAIN log : log'[k] = log[k]
  <2>1. log'[Len(log')] = [n |-> line', fate |-> fate]  BY FgetsInput
  <2>2. log'[Len(log')].n = line'  BY <2>1
  <2>3. QED  BY <2>2, FgetsInput
<1>2. /\ DOMAIN log = 1 .. Len(log) /\ DOMAIN log' = 1 .. Len(log')
      /\ Len(log) \in Nat
  BY <1>1 DEF Input
<1>3. /\ off' = off /\ seekable' = seekable
      /\ buf # <<>> /\ buf' = Tail(buf) /\ line' = Head(buf)
  BY DEF Fgets, input
<1>4. buf \in Seq(Nat) /\ off \in Nat /\ \A j \in DOMAIN log' : log'[j].n \in Nat
  <2>1. line' \in Nat
    <3>1. line' \in 1 .. Len(script)  BY FgetsInput
    <3>2. QED  BY <3>1 DEF Input
  <2>2. \A j \in DOMAIN log' : j \in DOMAIN log \/ j = Len(log')  BY <1>1, <1>2
  <2>3. QED  BY <1>1, <2>1, <2>2, LineNumbers
<1>5. CASE Reread
  BY <1>1, <1>2, <1>3, <1>5 DEF Reread, Ended
<1>6. CASE Ascending
  <2>1. /\ 1 \in DOMAIN buf /\ line' = buf[1]
        /\ \A k \in DOMAIN buf' : /\ k + 1 \in DOMAIN buf /\ k + 1 > 1
                                  /\ buf'[k] = buf[k + 1]
                                  /\ k \in Nat
    BY <1>3, <1>4
  <2>2. \A k \in DOMAIN buf' : line' < buf'[k] /\ buf'[k] <= off
    BY <2>1, <1>6 DEF Ascending
  <2>3. \A j \in DOMAIN log : log[j].n < line' /\ line' <= off
    BY <2>1, <1>6 DEF Ascending
  <2>4. OnlyOnce'  BY <1>1, <1>2, <1>6, <2>3 DEF OnlyOnce, Ascending
  <2>5. \A j \in DOMAIN log' : log'[j].n <= off
    BY <1>1, <1>2, <1>6, <2>1 DEF Ascending
  <2>6. \A j \in DOMAIN log', k \in DOMAIN buf' : log'[j].n < buf'[k]
    BY <1>1, <1>2, <1>6, <2>1, <2>2 DEF Ascending
  <2>7. \A j, k \in DOMAIN buf' : j < k => buf'[j] < buf'[k]
    BY <1>6, <2>1 DEF Ascending
  <2>8. QED  BY <1>3, <2>2, <2>4, <2>5, <2>6, <2>7 DEF Ascending
<1>7. QED  BY <1>5, <1>6

\* A line that stands in the log is the one it was when it is carried out
\* by a child.
LEMMA ChildOrder ==
  ASSUME Input, Processes, NEW fate \in Fates \ {"own"},
         NEW next \in {"exited", "running"}, Child(fate, next),
         off' = off \/ (seekable /\ fate = "exited" /\ off' \in 0 .. Len(script)),
         Reread \/ Ascending
  PROVE  (Reread \/ Ascending)'
<1> DEFINE last == Len(log)
<1>1. off' \in 0 .. Len(script)  BY DEF Input
<1>2. /\ last \in DOMAIN log /\ log[last].fate = "forked"
      /\ DOMAIN log' = DOMAIN log
      /\ log'[last] = [log[last] EXCEPT !.fate = fate]
      /\ \A k \in DOMAIN log : k # last => log'[k] = log[k]
  BY <1>1, ChildInput
<1>3. log'[last].fate = fate /\ log'[last].n = log[last].n
  <2>1. log[last] \in [n : 1 .. Len(script), fate : Fates]  BY <1>2, LineNumbers
  <2>2. QED  BY <1>2, <2>1
<1>4. UNCHANGED <<seekable, buf>>  BY DEF Child, input
<1> HIDE DEF last
<1>5. CASE Reread
  BY <1>2, <1>4, <1>5 DEF Reread, Ended
<1>6. CASE seekable /\ fate = "exited"
  BY <1>2, <1>3, <1>4, <1>6 DEF Reread, Ended
<1>7. CASE Ascending /\ off' = off
  <2>1. \A k \in DOMAIN log : log'[k].n = log[k].n  BY <1>2, <1>3
  <2>2. QED  BY <1>2, <1>4, <1>7, <2>1 DEF Ascending, OnlyOnce
<1>8. QED  BY <1>5, <1>6, <1>7

LEMMA NextOrder ==
  ASSUME Input, Processes, [Next]_shellVars, Reread \/ Ascending
  PROVE  (Reread \/ Ascending)'
<1>1. CASE Fill
  <2>1. PICK n \in 1 .. Len(script) - off :
          off' = off + n /\ buf' = [k \in 1 .. n |-> off + k]
    BY <1>1 DEF Fill, Input
  <2>2. n \in Nat /\ off \in Nat /\ log' = log /\ seekable' = seekable
    BY <1>1, <2>1 DEF Input, Fill, input
  <2>3. \A j \in DOMAIN log : log[j].n \in Nat  BY LineNumbers
  <2>4. CASE Reread  BY <2>2, <2>4 DEF Reread, Ended
  <2>5. CASE Ascending
    BY <2>1, <2>2, <2>3, <2>5 DEF Ascending, OnlyOnce
  <2>6. QED  BY <2>4, <2>5
<1>2. CASE ProgramReads
  <2>1. off \in Nat /\ off' = off + 1 /\ UNCHANGED <<log, buf, seekable>>
    BY <1>2 DEF ProgramReads, input, Input
  <2>2. /\ \A j \in DOMAIN log : log[j].n \in Nat
        /\ \A k \in DOMAIN buf : buf[k] \in Nat
    BY LineNumbers
  <2>3. QED  BY <2>1, <2>2 DEF Reread, Ended, Ascending, OnlyOnce
<1>3. CASE EndOfInput \/ Wait \/ ProgramEnds \/ UNCHANGED shellVars
  <2>1. UNCHANGED <<log, buf, off, seekable>>
    BY <1>3 DEF EndOfInput, Wait, ProgramEnds, shellVars, stdio, input
  <2>2. QED  BY <2>1 DEF Reread, Ended, Ascending, OnlyOnce
<1>4. CASE Exit \/ Blank \/ Cd \/ CdUndefined \/ Pwd \/ ForkFails \/ Fork
  <2>1. \E fate \in Fates : Fgets(fate)
    BY <1>4 DEF Exit, Blank, Cd, CdUndefined, Pwd, ForkFails, Fork, Builtin, Fates
  <2>2. QED  BY <2>1, FgetsOrder
<1>5. CASE Execute
  <2>1. PICK fate \in Fates \ {"own"}, next \in {"exited", "running"} :
          /\ Child(fate, next)
          /\ off' = off \/ (fate = "exited" /\ SeekBack)
    BY <1>5 DEF Execute, NotFound, ExecFails, Exec, Overruns, Fates
  <2>2. off' = off \/ (seekable /\ fate = "exited" /\ off' \in 0 .. Len(script))
    BY <2>1, SeekBackInput DEF SeekBack
  <2>3. QED  BY <2>1, <2>2, ChildOrder
<1>6. QED
  BY <1>1, <1>2, <1>3, <1>4, <1>5 DEF Next, Parent

-----------------------------------------------------------------------------
(* Counting answers.                                                       *)

LEMMA ShownType ==
  ASSUME NEW s \in Seq(Items), NEW n
  PROVE  /\ IsFiniteSet({i \in DOMAIN s : s[i][2] = n})
         /\ Shown(s, n) \in Nat
         /\ (\A i \in DOMAIN s : s[i][2] # n) => Shown(s, n) = 0
<1> DEFINE S == {i \in DOMAIN s : s[i][2] = n}
<1>1. DOMAIN s = 1 .. Len(s) /\ Len(s) \in Nat  OBVIOUS
<1>2. IsFiniteSet(1 .. Len(s))  BY <1>1, FS_Interval
<1>3. IsFiniteSet(S)  BY <1>1, <1>2, FS_Subset
<1>4. (\A i \in DOMAIN s : s[i][2] # n) => S = {}  OBVIOUS
<1>5. Shown(s, n) = Cardinality(S)  BY DEF Shown
<1> HIDE DEF S
<1>6. Cardinality(S) \in Nat /\ (S = {} => Cardinality(S) = 0)
  BY <1>3, FS_CardinalityType, FS_EmptySet
<1>7. QED  BY <1>3, <1>4, <1>5, <1>6 DEF S

LEMMA ShownConcat ==
  ASSUME NEW s \in Seq(Items), NEW t \in Seq(Items), NEW n
  PROVE  Shown(s \o t, n) = Shown(s, n) + Shown(t, n)
<1> DEFINE S == {i \in DOMAIN s : s[i][2] = n}
           T == {i \in DOMAIN t : t[i][2] = n}
           U == {i \in DOMAIN (s \o t) : (s \o t)[i][2] = n}
           V == {i \in Len(s) + 1 .. Len(s) + Len(t) : t[i - Len(s)][2] = n}
           f == [i \in T |-> i + Len(s)]
<1>1. /\ DOMAIN s = 1 .. Len(s) /\ DOMAIN t = 1 .. Len(t)
      /\ Len(s) \in Nat /\ Len(t) \in Nat
      /\ DOMAIN (s \o t) = 1 .. Len(s) + Len(t)
      /\ \A i \in 1 .. Len(s) : (s \o t)[i] = s[i]
      /\ \A i \in Len(s) + 1 .. Len(s) + Len(t) : (s \o t)[i] = t[i - Len(s)]
  OBVIOUS
<1>2. U = S \cup V /\ S \cap V = {}  BY <1>1
<1>3. f \in Bijection(T, V)
  <2>1. f \in [T -> V]  BY <1>1
  <2>2. \A i, j \in T : f[i] = f[j] => i = j  BY <1>1
  <2>3. \A j \in V : \E i \in T : f[i] = j
    <3>1. ASSUME NEW j \in V PROVE j - Len(s) \in T /\ f[j - Len(s)] = j
      BY <1>1
    <3>2. QED  BY <3>1
  <2>4. QED  BY <2>1, <2>2, <2>3, Zenon DEF Bijection, Injection, Surjection, IsInjective
<1>4. IsFiniteSet(S) /\ IsFiniteSet(T)  BY ShownType
<1>5. /\ Shown(s \o t, n) = Cardinality(U) /\ Shown(s, n) = Cardinality(S)
      /\ Shown(t, n) = Cardinality(T)
  BY DEF Shown
<1> HIDE DEF S, T, U, V, f
<1>6. IsFiniteSet(V) /\ Cardinality(V) = Cardinality(T)
  BY <1>3, <1>4, FS_Bijection DEF ExistsBijection
<1>7. Cardinality(S \cap V) = 0  BY <1>2, FS_EmptySet
<1>8. /\ Cardinality(U) = Cardinality(S) + Cardinality(V) - Cardinality(S \cap V)
      /\ Cardinality(S) \in Nat /\ Cardinality(V) \in Nat
  BY <1>2, <1>4, <1>6, FS_Union, FS_CardinalityType
<1>9. QED  BY <1>5, <1>6, <1>7, <1>8

LEMMA ShownThree ==
  ASSUME NEW s \in Seq(Items), NEW t \in Seq(Items), NEW u \in Seq(Items), NEW n
  PROVE  Shown(s \o t \o u, n) = Shown(s, n) + Shown(t, n) + Shown(u, n)
<1>1. s \o t \in Seq(Items)  BY ConcatItems
<1>2. Shown((s \o t) \o u, n) = Shown(s \o t, n) + Shown(u, n)  BY <1>1, ShownConcat
<1>3. Shown(s \o t, n) = Shown(s, n) + Shown(t, n)  BY ShownConcat
<1>4. QED  BY <1>2, <1>3

LEMMA ShownOne ==
  ASSUME NEW i \in Items, NEW n
  PROVE  Shown(<<i>>, n) = IF i[2] = n THEN 1 ELSE 0
<1>1. {k \in DOMAIN <<i>> : <<i>>[k][2] = n} = IF i[2] = n THEN {1} ELSE {}
  OBVIOUS
<1>2. QED  BY <1>1, FS_EmptySet, FS_Singleton DEF Shown

LEMMA ShownPrompt ==
  ASSUME NEW n \in Nat \ {0}
  PROVE  /\ Shown(<<>>, n) = 0 /\ Shown(<<Prompt>>, n) = 0 /\ Shown(<<Newline>>, n) = 0
         /\ \A m \in 0 .. MaxLines, what \in Printed :
              Shown(<<Say(m, what)>>, n) = IF m = n THEN 1 ELSE 0
<1>1. Prompt[2] = 0 /\ Newline[2] = 0  BY DEF Prompt, Newline
<1>2. {i \in DOMAIN <<>> : <<>>[i][2] = n} = {}  OBVIOUS
<1>3. Shown(<<>>, n) = 0  BY <1>2, FS_EmptySet DEF Shown
<1>4. \A m \in 0 .. MaxLines, what \in Printed : Say(m, what)[2] = m  BY DEF Say
<1>5. QED  BY <1>1, <1>3, <1>4, SayItems, ShownOne

\* Where an answer goes when the parent replies, and when it leaves.
LEMMA ReplyAnswered ==
  ASSUME Input, Output, NEW items \in Seq(Items), Reply(items),
         NEW n, NEW a \in {0, 1}, NEW copies \in Nat, Answered(n, a, copies),
         Shown(<<Prompt>>, n) = 0, Shown(<<>>, n) = 0,
         Shown(items, n) = 0 \/ (Shown(items, n) = 1 /\ a = 0 /\ copies = 0),
         pc # "over", pc' # "over", child' # "execute", tty' = tty
  PROVE  Answered(n, a + Shown(items, n), copies)'
<1> HIDE DEF Items, Prompt
<1>1. /\ screen \in Seq(Items) /\ out \in Seq(Items) /\ <<Prompt>> \in Seq(Items)
  BY SayItems DEF Output
<1>2. Shown(screen, n) \in Nat /\ Shown(out, n) \in Nat /\ Shown(items, n) \in Nat
  BY <1>1, ShownType
<1>3. CASE tty /\ items # <<>>
  <2>1. screen' = screen \o out \o items /\ out' = <<Prompt>>
    BY <1>3, Zenon DEF Reply
  <2>2. Shown(screen', n) = Shown(screen, n) + Shown(out, n) + Shown(items, n)
    BY <1>1, <2>1, ShownThree
  <2>3. Shown(screen, n) = a /\ Shown(out, n) = 0 /\ Shown(out', n) = 0
    BY <1>3, <2>1 DEF Answered
  <2>4. Shown(screen', n) = a + Shown(items, n)  BY <1>2, <2>2, <2>3
  <2>5. QED  BY <1>3, <2>3, <2>4 DEF Answered, Shown
<1>4. CASE ~(tty /\ items # <<>>)
  <2>1. screen' = screen /\ out' = out \o items \o <<Prompt>>
    BY <1>4, Zenon DEF Reply
  <2>2. Shown(out', n) = Shown(out, n) + Shown(items, n) + Shown(<<Prompt>>, n)
    <3> DEFINE p == <<Prompt>>
    <3>1. p \in Seq(Items)  BY <1>1
    <3> HIDE DEF p
    <3>2. Shown(out \o items \o p, n) = Shown(out, n) + Shown(items, n) + Shown(p, n)
      BY <1>1, <3>1, ShownThree
    <3>3. QED  BY <2>1, <3>2 DEF p
  <2>3. Shown(screen', n) = Shown(screen, n)
        /\ Shown(out', n) = Shown(out, n) + Shown(items, n)
    BY <1>2, <2>1, <2>2
  <2>4. CASE tty
    <3>1. Shown(items, n) = 0  BY <1>4, <2>4
    <3>2. Shown(screen, n) = a /\ Shown(out, n) = 0  BY <2>4 DEF Answered
    <3>3. Shown(screen', n) = a + Shown(items, n) /\ Shown(out', n) = 0
      BY <2>3, <3>1, <3>2
    <3>4. QED  BY <2>4, <3>3 DEF Answered, Shown
  <2>5. CASE ~tty
    <3>1. Shown(screen, n) = (IF a = 0 THEN 0 ELSE copies) /\ Shown(out, n) = a
      BY <2>5 DEF Answered
    <3>2. /\ Shown(screen', n) = IF a + Shown(items, n) = 0 THEN 0 ELSE copies
          /\ Shown(out', n) = a + Shown(items, n)
      BY <1>2, <2>3, <3>1
    <3>3. QED  BY <2>5, <3>2 DEF Answered, Shown
  <2>6. QED  BY <2>4, <2>5
<1>5. QED  BY <1>3, <1>4

LEMMA LeaveAnswered ==
  ASSUME Input, Output, NEW items \in Seq(Items),
         Leave(items) \/ Fail(items), NEW n, NEW a \in {0, 1}, NEW copies \in Nat, Answered(n, a, copies),
         Shown(<<>>, n) = 0,
         Shown(items, n) = 0 \/ (Shown(items, n) = 1 /\ a = 0 /\ copies = 0),
         pc # "over", child' # "execute", tty' = tty
  PROVE  Answered(n, a + Shown(items, n), copies)'
<1> HIDE DEF Items
<1>1. screen \in Seq(Items) /\ out \in Seq(Items)  BY DEF Output
<1>2. Shown(screen, n) \in Nat /\ Shown(out, n) \in Nat /\ Shown(items, n) \in Nat
  BY <1>1, ShownType
<1>3. /\ screen' = screen \o out \o items \/ screen' = screen \o items \o out
      /\ out' = <<>> /\ pc' = "over"
  BY DEF Leave, Fail
<1>4. Shown(screen', n) = Shown(screen, n) + Shown(out, n) + Shown(items, n)
      /\ Shown(out', n) = 0
  <2>1. /\ Shown(screen \o out \o items, n) =
             Shown(screen, n) + Shown(out, n) + Shown(items, n)
        /\ Shown(screen \o items \o out, n) =
             Shown(screen, n) + Shown(items, n) + Shown(out, n)
    BY <1>1, ShownThree
  <2>2. Shown(screen', n) \in {Shown(screen \o out \o items, n),
                              Shown(screen \o items \o out, n)}
    BY <1>3
  <2>3. Shown(out', n) = 0  BY <1>3
  <2>4. QED  BY <1>2, <2>1, <2>2, <2>3
<1>5. CASE tty
  <2>1. Shown(screen, n) = a /\ Shown(out, n) = 0  BY <1>5 DEF Answered
  <2>2. Shown(screen', n) = a + Shown(items, n)  BY <1>2, <1>4, <2>1
  <2>3. QED  BY <1>4, <1>5, <2>2 DEF Answered, Shown
<1>6. CASE ~tty
  <2>1. Shown(screen, n) = (IF a = 0 THEN 0 ELSE copies) /\ Shown(out, n) = a
    BY <1>6 DEF Answered
  <2>2. Shown(screen', n) = IF a + Shown(items, n) = 0 THEN 0 ELSE 1 + copies
    BY <1>2, <1>4, <2>1
  <2>3. QED  BY <1>3, <1>6, <2>2 DEF Answered, Shown
<1>7. QED  BY <1>5, <1>6

-----------------------------------------------------------------------------
(* What is printed is about lines that were carried out.                   *)

LEMMA AboutConcat ==
  ASSUME NEW s \in Seq(Items), NEW t \in Seq(Items)
  PROVE  About(s \o t) = About(s) \cup About(t)
<1>1. /\ DOMAIN s = 1 .. Len(s) /\ DOMAIN t = 1 .. Len(t)
      /\ Len(s) \in Nat /\ Len(t) \in Nat
      /\ DOMAIN (s \o t) = 1 .. Len(s) + Len(t)
      /\ \A i \in 1 .. Len(s) : (s \o t)[i] = s[i]
      /\ \A i \in Len(s) + 1 .. Len(s) + Len(t) : (s \o t)[i] = t[i - Len(s)]
  OBVIOUS
<1>2. ASSUME NEW i \in DOMAIN t
      PROVE  i + Len(s) \in DOMAIN (s \o t) /\ (s \o t)[i + Len(s)] = t[i]
  BY <1>1
<1>3. About(t) \subseteq About(s \o t)  BY <1>2 DEF About
<1>4. About(s) \subseteq About(s \o t)  BY <1>1 DEF About
<1>5. About(s \o t) \subseteq About(s) \cup About(t)
  <2>1. ASSUME NEW i \in DOMAIN (s \o t)
        PROVE  (s \o t)[i][2] \in About(s) \cup About(t)
    <3>1. CASE i \in DOMAIN s  BY <1>1, <3>1 DEF About
    <3>2. CASE i \notin DOMAIN s
      <4>1. i - Len(s) \in DOMAIN t /\ (s \o t)[i] = t[i - Len(s)]
        BY <1>1, <3>2
      <4>2. QED  BY <4>1 DEF About
    <3>3. QED  BY <3>1, <3>2
  <2>2. QED  BY <2>1 DEF About
<1>6. QED  BY <1>3, <1>4, <1>5

LEMMA AboutThree ==
  ASSUME NEW s \in Seq(Items), NEW t \in Seq(Items), NEW u \in Seq(Items)
  PROVE  About(s \o t \o u) = About(s) \cup About(t) \cup About(u)
<1>1. s \o t \in Seq(Items)  BY ConcatItems
<1>2. About((s \o t) \o u) = About(s \o t) \cup About(u)  BY <1>1, AboutConcat
<1>3. QED  BY <1>2, AboutConcat

LEMMA AboutOne ==
  /\ About(<<>>) = {} /\ About(<<Prompt>>) = {0} /\ About(<<Newline>>) = {0}
  /\ \A m, what : About(<<Say(m, what)>>) = {m}
  /\ \A m, d : About(<<<<"dir", m, d>>>>) = {m}
<1>1. \A i : About(<<i>>) = {i[2]}  BY DEF About
<1>2. Prompt[2] = 0 /\ Newline[2] = 0 /\ \A m, what : Say(m, what)[2] = m
  BY DEF Prompt, Newline, Say
<1>3. \A m, d : <<"dir", m, d>>[2] = m  OBVIOUS
<1>4. About(<<>>) = {}  BY DEF About
<1>5. QED  BY <1>1, <1>2, <1>3, <1>4, Zenon

LEMMA ReplyAbout ==
  ASSUME Output, NEW items \in Seq(Items), Reply(items)
  PROVE  About(screen') \cup About(out') \subseteq
           About(screen) \cup About(out) \cup About(items) \cup {0}
<1> DEFINE p == <<Prompt>>
<1>1. p \in Seq(Items) /\ About(p) = {0}  BY SayItems, AboutOne
<1>2. screen \in Seq(Items) /\ out \in Seq(Items)  BY DEF Output
<1>3. \/ screen' = screen \o out \o items /\ out' = p
      \/ screen' = screen /\ out' = out \o items \o p
  BY Zenon DEF Reply
<1> HIDE DEF p, Items
<1>4. /\ About(screen \o out \o items) = About(screen) \cup About(out) \cup About(items)
      /\ About(out \o items \o p) = About(out) \cup About(items) \cup About(p)
  BY <1>1, <1>2, AboutThree
<1>5. CASE screen' = screen \o out \o items /\ out' = p  BY <1>1, <1>4, <1>5
<1>6. CASE screen' = screen /\ out' = out \o items \o p  BY <1>1, <1>4, <1>6
<1>7. QED  BY <1>3, <1>5, <1>6

LEMMA LeaveAbout ==
  ASSUME Output, NEW items \in Seq(Items), Leave(items) \/ Fail(items)
  PROVE  About(screen') \cup About(out') \subseteq
           About(screen) \cup About(out) \cup About(items)
<1>1. screen \in Seq(Items) /\ out \in Seq(Items)  BY DEF Output
<1>2. /\ screen' = screen \o out \o items \/ screen' = screen \o items \o out
      /\ out' = <<>>
  BY DEF Leave, Fail
<1>3. /\ About(screen \o out \o items) = About(screen) \cup About(out) \cup About(items)
      /\ About(screen \o items \o out) = About(screen) \cup About(items) \cup About(out)
  BY <1>1, AboutThree
<1>4. QED  BY <1>2, <1>3, AboutOne

LEMMA FgetsCarried ==
  ASSUME Input, NEW fate \in Fates, Fgets(fate)
  PROVE  Carried' = Carried \cup {line'} /\ log'[Len(log')].n = line'
<1>1. /\ Input' /\ Len(log') = Len(log) + 1
      /\ \A k \in DOMAIN log : log'[k] = log[k]
  BY FgetsInput
<1>2. log'[Len(log')].n = line'
  <2>1. log'[Len(log')] = [n |-> line', fate |-> fate]  BY FgetsInput
  <2>2. QED  BY <2>1
<1>3. /\ DOMAIN log = 1 .. Len(log) /\ DOMAIN log' = 1 .. Len(log')
      /\ Len(log) \in Nat
  BY <1>1 DEF Input
<1>4. DOMAIN log' = DOMAIN log \cup {Len(log')}  BY <1>1, <1>3
<1>5. QED  BY <1>1, <1>2, <1>4 DEF Carried

LEMMA ChildCarried ==
  ASSUME Input, Processes, NEW fate \in Fates \ {"own"},
         NEW next \in {"exited", "running"}, Child(fate, next),
         off' \in 0 .. Len(script)
  PROVE  /\ Carried' = Carried /\ Len(log') = Len(log)
         /\ \A k \in DOMAIN log : log'[k].n = log[k].n
<1>1. Len(log) \in DOMAIN log /\ DOMAIN log' = DOMAIN log
  BY ChildInput
<1>2. log[Len(log)] \in [n : 1 .. Len(script), fate : Fates]
  BY <1>1, LineNumbers
<1>3. \A k \in DOMAIN log : log'[k].n = log[k].n  BY <1>1, <1>2, ChildInput
<1>4. Input' /\ Len(log') = Len(log)
  <2>1. Input'  BY ChildInput
  <2>2. QED  BY <1>1, <2>1 DEF Input
<1>5. QED  BY <1>1, <1>3, <1>4 DEF Carried

-----------------------------------------------------------------------------
(* The steps, by what they print.                                          *)

\* A line that is carried out without a child is answered by at most one
\* item, by none only if it is not the shell's own or a cd.
Replies(fate, items) ==
  \/ fate = "none" /\ items \in {<<>>, <<Newline>>}
  \/ /\ fate = "own"
     /\ \/ items = <<>> /\ IsCd(line')
        \/ \E i \in Items : i[2] = line' /\ items = <<i>>

Passes(items) ==
  \/ Reply(items) /\ pc' = pc
  \/ Leave(items) \/ Fail(items)
  \/ pc' = "undefined" /\ items = <<>> /\ UNCHANGED <<out, screen>>

LEMMA CarryOut ==
  ASSUME Input, Processes, Output, [Next]_shellVars,
         Exit \/ Blank \/ Cd \/ CdUndefined \/ Pwd \/ ForkFails
  PROVE  \E fate \in {"none", "own"}, items \in Seq(Items) :
           /\ Fgets(fate) /\ UNCHANGED <<child, cout>>
           /\ Replies(fate, items) /\ Passes(items)
<1>0. line' \in 0 .. MaxLines
  <2>1. Input'  BY NextInput
  <2>2. QED  BY <2>1, ShellAssumption DEF Input
<1>1. <<>> \in Seq(Items) /\ <<Newline>> \in Seq(Items)  BY SayItems
<1>2. \A i \in Items : <<i>> \in Seq(Items)  OBVIOUS
<1>3. CASE Exit
  <2>1. Replies("none", <<Newline>>) /\ Passes(<<Newline>>)
    BY <1>3 DEF Exit, Replies, Passes
  <2>2. QED  BY <1>1, <1>3, <2>1 DEF Exit
<1>4. CASE Blank
  <2>1. Replies("none", <<>>) /\ Passes(<<>>)
    BY <1>4 DEF Blank, Replies, Passes
  <2>2. QED  BY <1>1, <1>4, <2>1 DEF Blank
<1>5. ASSUME NEW what \in Printed, Passes(<<Say(line', what)>>)
      PROVE  \E items \in Seq(Items) : Replies("own", items) /\ Passes(items)
  <2>1. Say(line', what) \in Items /\ Say(line', what)[2] = line'
    BY <1>0, SayItems DEF Say
  <2>2. Replies("own", <<Say(line', what)>>)  BY <2>1 DEF Replies
  <2>3. QED  BY <1>2, <1>5, <2>1, <2>2
<1>6. ASSUME IsCd(line'), Passes(<<>>)
      PROVE  \E items \in Seq(Items) : Replies("own", items) /\ Passes(items)
  BY <1>1, <1>6 DEF Replies
<1>7. CASE Cd \/ CdUndefined
  <2>1. Fgets("own") /\ UNCHANGED <<child, cout>>
    BY <1>7 DEF Cd, CdUndefined, Builtin
  <2>2. IsCd(line')
    BY <1>7 DEF Cd, CdUndefined, Builtin, IsCd, text, Fgets
  <2>3. Passes(<<>>) \/ Passes(<<Say(line', "Command not found")>>)
    BY <1>7 DEF Cd, CdUndefined, ChangeTo, Passes
  <2>4. QED  BY <1>5, <1>6, <2>1, <2>2, <2>3 DEF Printed
<1>8. CASE Pwd
  <2>1. Fgets("own") /\ UNCHANGED <<child, cout>>
    BY <1>8 DEF Pwd, Builtin
  <2>2. CASE Len(cwd) <= MaxDepth
    <3>1. Passes(<<<<"dir", line', cwd>>>>)  BY <1>8, <2>2 DEF Pwd, Passes
    <3>2. <<"dir", line', cwd>> \in Items /\ <<"dir", line', cwd>>[2] = line'
      <4>1. "dir" \in Printed /\ cwd \in Dirs  BY DEF Printed, Output
      <4>2. QED  BY <1>0, <4>1, ItemsAre
    <3>3. Replies("own", <<<<"dir", line', cwd>>>>)  BY <3>2 DEF Replies
    <3>4. QED  BY <1>2, <2>1, <3>1, <3>2, <3>3
  <2>3. CASE ~(Len(cwd) <= MaxDepth)
    <3>1. Passes(<<Say(line', "getcwd")>>)  BY <1>8, <2>3 DEF Pwd, Passes
    <3>2. QED  BY <1>5, <2>1, <3>1 DEF Printed
  <2>4. QED  BY <2>2, <2>3
<1>9. CASE ForkFails
  <2>1. Passes(<<Say(line', "Error in fork()")>>)  BY <1>9 DEF ForkFails, Passes
  <2>2. QED  BY <1>5, <1>9, <2>1 DEF ForkFails, Printed
<1>10. QED  BY <1>3, <1>4, <1>7, <1>8, <1>9

\* What a child prints besides its copy is about its own line, and the copy
\* is flushed, on a terminal or when the child leaves by exit, or lost.
Flushes(fate) ==
  /\ About(screen') \subseteq About(screen) \cup About(cout) \cup {line}
  /\ \A n : LET before == Shown(screen, n) IN
       n # line =>
         Shown(screen', n) = IF (tty /\ fate # "died") \/ fate = "exited"
                             THEN before + Shown(cout, n) ELSE before

LEMMA ChildPrints ==
  ASSUME Input, Processes, Output, Execute
  PROVE  \E fate \in {"exited", "ran", "died"}, next \in {"exited", "running"} :
           Child(fate, next) /\ off' \in 0 .. Len(script) /\ Flushes(fate)
<1>0. /\ screen \in Seq(Items) /\ cout \in Seq(Items)
      /\ \A n : Shown(screen, n) \in Nat /\ Shown(cout, n) \in Nat
  BY ShownType DEF Output
<1>1. /\ \A what \in Printed : <<Say(line, what)>> \in Seq(Items)
      /\ \A what \in Printed : \A n : n # line => Shown(<<Say(line, what)>>, n) = 0
  <2>1. line \in 0 .. MaxLines  BY ShellAssumption DEF Input
  <2>2. \A what \in Printed : Say(line, what) \in Items /\ Say(line, what)[2] = line
    BY <2>1, SayItems DEF Say
  <2>3. QED  BY <2>2, ShownOne
<1>2. \A what : About(<<Say(line, what)>>) = {line}  BY AboutOne
<1>3. ASSUME NEW items \in Seq(Items), screen' = screen \o cout \o items,
             About(items) \subseteq {line}, \A n : n # line => Shown(items, n) = 0,
             NEW fate \in {"exited", "ran", "died"},
             (tty /\ fate # "died") \/ fate = "exited"
      PROVE  Flushes(fate)
  <2>1. About(screen') \subseteq About(screen) \cup About(cout) \cup {line}
    BY <1>0, <1>3, AboutThree
  <2>2. ASSUME NEW n, n # line
        PROVE  Shown(screen', n) = Shown(screen, n) + Shown(cout, n)
    <3>1. Shown(screen', n) = Shown(screen, n) + Shown(cout, n) + Shown(items, n)
      BY <1>0, <1>3, ShownThree
    <3>2. QED  BY <1>0, <1>3, <2>2, <3>1
  <2>3. QED  BY <1>3, <2>1, <2>2 DEF Flushes
<1>4. ASSUME screen' = screen, NEW fate, fate = "died" \/ (fate = "ran" /\ ~tty)
      PROVE  Flushes(fate)
  BY <1>4 DEF Flushes
<1>5. CASE NotFound
  <2>1. Flushes("exited")
    BY <1>1, <1>2, <1>3, <1>5 DEF NotFound, Flush, Printed
  <2>2. QED  BY <1>5, <2>1, SeekBackInput DEF NotFound
<1>6. CASE ExecFails
  <2> DEFINE said == <<Say(line, "Executing")>>
             error == <<Say(line, "error on exec")>>
  <2>1. /\ said \in Seq(Items) /\ error \in Seq(Items)
        /\ \A n : n # line => Shown(said, n) = 0 /\ Shown(error, n) = 0
        /\ About(said) = {line} /\ About(error) = {line}
    BY <1>1, <1>2 DEF Printed
  <2>2. screen' = IF tty THEN screen \o cout \o (said \o error)
                  ELSE screen \o error \o cout \o said
    BY <1>6 DEF ExecFails, Flush
  <2> HIDE DEF said, error
  <2>3. ASSUME tty PROVE Flushes("exited")
    <3>1. /\ said \o error \in Seq(Items) /\ About(said \o error) = {line}
          /\ \A n : n # line => Shown(said \o error, n) = 0
      BY <2>1, ConcatItems, AboutConcat, ShownConcat
    <3>2. QED  BY <1>3, <2>2, <2>3, <3>1
  <2>4. ASSUME ~tty PROVE Flushes("exited")
    <3> DEFINE head == screen \o error
    <3>1. /\ screen' = head \o cout \o said /\ head \in Seq(Items)
          /\ About(head) = About(screen) \cup About(error)
          /\ \A n : Shown(head, n) = Shown(screen, n) + Shown(error, n)
      BY <1>0, <2>1, <2>2, <2>4, ConcatItems, AboutConcat, ShownConcat
    <3> HIDE DEF head
    <3>2. About(screen') = About(head) \cup About(cout) \cup About(said)
      BY <1>0, <2>1, <3>1, AboutThree
    <3>3. ASSUME NEW n, n # line
          PROVE  Shown(screen', n) = Shown(screen, n) + Shown(cout, n)
      <4>1. Shown(screen', n) = Shown(head, n) + Shown(cout, n) + Shown(said, n)
        BY <1>0, <2>1, <3>1, ShownThree
      <4>2. QED  BY <1>0, <2>1, <3>1, <3>3, <4>1
    <3>4. About(screen') \subseteq About(screen) \cup About(cout) \cup {line}
      BY <2>1, <3>1, <3>2
    <3>5. QED  BY <3>3, <3>4 DEF Flushes
  <2>5. Flushes("exited")  BY <2>3, <2>4
  <2>6. QED  BY <1>6, <2>5, SeekBackInput DEF ExecFails
<1>7. CASE Exec
  <2>1. CASE tty
    <3>1. Flushes("ran")  BY <1>1, <1>2, <1>3, <1>7, <2>1 DEF Exec, Printed
    <3>2. QED  BY <1>7, <3>1 DEF Exec, Input
  <2>2. CASE ~tty
    <3>1. Flushes("ran")  BY <1>4, <1>7, <2>2 DEF Exec
    <3>2. QED  BY <1>7, <3>1 DEF Exec, Input
  <2>3. QED  BY <2>1, <2>2
<1>8. CASE Overruns
  <2>1. Flushes("died")  BY <1>4, <1>8 DEF Overruns
  <2>2. QED  BY <1>8, <2>1 DEF Overruns, Input
<1>9. QED  BY <1>5, <1>6, <1>7, <1>8 DEF Execute

LEMMA NextSpeaking ==
  ASSUME Input, Processes, Output, Speaking, [Next]_shellVars
  PROVE  Speaking'
<1>0. /\ screen \in Seq(Items) /\ out \in Seq(Items) /\ cout \in Seq(Items)
      /\ <<>> \in Seq(Items) /\ <<Newline>> \in Seq(Items)
      /\ About(screen) \cup About(out) \cup About(cout) \subseteq {0} \cup Carried
  BY SayItems DEF Output, Speaking
<1>1. CASE Fill
  <2>1. \/ screen' = screen \o out /\ out' = <<>>
        \/ screen' = screen /\ out' = out
    BY <1>1, Zenon DEF Fill
  <2>2. UNCHANGED <<log, child, line, cout>>  BY <1>1 DEF Fill
  <2>3. Carried' = Carried  BY <2>2 DEF Carried
  <2>4. About(screen') \cup About(out') \subseteq {0} \cup Carried
    <3>1. About(screen \o out) = About(screen) \cup About(out) /\ About(<<>>) = {}
      BY <1>0, AboutConcat, AboutOne
    <3>2. CASE screen' = screen \o out /\ out' = <<>>  BY <1>0, <3>1, <3>2
    <3>3. CASE screen' = screen /\ out' = out  BY <1>0, <3>3
    <3>4. QED  BY <2>1, <3>2, <3>3
  <2>5. QED  BY <1>0, <2>2, <2>3, <2>4 DEF Speaking, About
<1>2. CASE EndOfInput
  <2>1. Leave(<<Newline>>) /\ UNCHANGED <<log, child, line, cout>>
    BY <1>2 DEF EndOfInput
  <2>2. Carried' = Carried  BY <2>1 DEF Carried
  <2>3. About(screen') \cup About(out') \subseteq {0} \cup Carried
    BY <1>0, <2>1, LeaveAbout, AboutOne
  <2>4. QED  BY <1>0, <2>1, <2>2, <2>3 DEF Speaking, About
<1>3. CASE Exit \/ Blank \/ Cd \/ CdUndefined \/ Pwd \/ ForkFails
  <2>1. PICK fate \in {"none", "own"}, items \in Seq(Items) :
          /\ Fgets(fate) /\ UNCHANGED <<child, cout>>
          /\ Replies(fate, items) /\ Passes(items)
    BY <1>3, CarryOut
  <2>2. Carried' = Carried \cup {line'} /\ child' = "none"
    BY <2>1, FgetsCarried DEF Fates, Fgets, Processes
  <2>3. About(items) \subseteq {0, line'}
    <3>1. \A i : About(<<i>>) = {i[2]}  BY DEF About
    <3>2. QED  BY <2>1, <3>1, AboutOne DEF Replies
  <2>4. About(screen') \cup About(out') \subseteq
          About(screen) \cup About(out) \cup About(items) \cup {0}
    <3>1. CASE Reply(items)  BY <3>1, ReplyAbout
    <3>2. CASE Leave(items) \/ Fail(items)  BY <3>2, LeaveAbout
    <3>3. CASE UNCHANGED <<out, screen>>  BY <3>3 DEF About
    <3>4. QED  BY <2>1, <3>1, <3>2, <3>3 DEF Passes
  <2>5. About(cout') = About(cout)  BY <2>1 DEF About
  <2>6. QED  BY <1>0, <2>2, <2>3, <2>4, <2>5 DEF Speaking
<1>4. CASE Fork
  <2>1. Fgets("forked") /\ cout' = out /\ UNCHANGED <<out, screen>>
    BY <1>4 DEF Fork
  <2>2. Carried' = Carried \cup {line'} /\ log'[Len(log')].n = line'
    BY <2>1, FgetsCarried DEF Fates
  <2>3. /\ About(screen') = About(screen) /\ About(out') = About(out)
        /\ About(cout') = About(out)
    BY <2>1 DEF About
  <2>4. QED  BY <1>0, <2>2, <2>3 DEF Speaking
<1>5. CASE Wait
  <2>1. Reply(<<>>) /\ UNCHANGED <<log, line, cout>> /\ child' = "none"
    BY <1>5 DEF Wait, Reap
  <2>2. Carried' = Carried  BY <2>1 DEF Carried
  <2>3. About(screen') \cup About(out') \subseteq {0} \cup Carried
    BY <1>0, <2>1, ReplyAbout, AboutOne
  <2>4. About(cout') = About(cout)  BY <2>1 DEF About
  <2>5. QED  BY <1>0, <2>1, <2>2, <2>3, <2>4 DEF Speaking
<1>6. CASE Execute
  <2>1. PICK fate \in {"exited", "ran", "died"}, next \in {"exited", "running"} :
          Child(fate, next) /\ off' \in 0 .. Len(script) /\ Flushes(fate)
    BY <1>6, ChildPrints
  <2>2. /\ Carried' = Carried /\ Len(log') = Len(log)
        /\ \A k \in DOMAIN log : log'[k].n = log[k].n
    BY <2>1, ChildCarried DEF Fates
  <2>3. Len(log) \in DOMAIN log  BY <2>1, ChildInput DEF Fates
  <2>4. /\ child = "execute" /\ line' = line /\ out' = out /\ cout' = <<>>
    BY <2>1 DEF Child
  <2>5. log[Len(log)].n = line /\ line \in Carried
    BY <2>3, <2>4 DEF Speaking, Carried
  <2>6. About(screen') \subseteq {0} \cup Carried
    BY <1>0, <2>1, <2>5 DEF Flushes
  <2>7. About(out') = About(out) /\ About(cout') = {}  BY <2>4, AboutOne DEF About
  <2>8. log'[Len(log')].n = line'  BY <2>2, <2>3, <2>4, <2>5
  <2>9. About(screen') \cup About(out') \cup About(cout') \subseteq {0} \cup Carried'
    BY <1>0, <2>2, <2>6, <2>7
  <2>10. QED  BY <2>8, <2>9 DEF Speaking
<1>7. CASE ProgramReads \/ UNCHANGED shellVars
  <2>1. UNCHANGED <<log, child, line, cout, out, screen>>
    BY <1>7 DEF ProgramReads, shellVars, stdio
  <2>2. /\ Carried' = Carried /\ About(screen') = About(screen)
        /\ About(out') = About(out) /\ About(cout') = About(cout)
    BY <2>1 DEF Carried, About
  <2>3. QED  BY <2>1, <2>2 DEF Speaking
<1>8. CASE ProgramEnds
  <2> DEFINE said == <<Say(line, "output")>>
  <2>1. /\ child = "running" /\ child' = "exited"
        /\ screen' = Append(screen, Say(line, "output"))
        /\ UNCHANGED <<log, line, cout, out>>
    BY <1>8 DEF ProgramEnds
  <2>2. said \in Seq(Items)
    <3>1. Say(line, "output") \in Items
      <4>1. line \in 0 .. MaxLines  BY ShellAssumption DEF Input
      <4>2. QED  BY <4>1, SayItems DEF Printed
    <3>2. QED  BY <3>1
  <2>3. screen' = screen \o said
    <3>1. Say(line, "output") \in Items
      <4>1. line \in 0 .. MaxLines  BY ShellAssumption DEF Input
      <4>2. QED  BY <4>1, SayItems DEF Printed
    <3>2. QED  BY <1>0, <2>1, <3>1
  <2>4. About(said) = {line}  BY AboutOne
  <2> HIDE DEF said
  <2>5. About(screen') = About(screen) \cup {line}
    BY <1>0, <2>2, <2>3, <2>4, AboutConcat
  <2>6. line \in Carried
    <3>1. pc = "wait"  BY <2>1 DEF Processes
    <3>2. log # <<>>  BY <3>1 DEF Processes
    <3>3. Len(log) \in DOMAIN log  BY <3>2 DEF Input
    <3>4. QED  BY <2>1, <3>3 DEF Speaking, Carried
  <2>7. Carried' = Carried /\ About(out') = About(out) /\ About(cout') = About(cout)
    BY <2>1 DEF Carried, About
  <2>8. QED  BY <1>0, <2>1, <2>5, <2>6, <2>7 DEF Speaking
<1>9. QED
  BY <1>1, <1>2, <1>3, <1>4, <1>5, <1>6, <1>7, <1>8 DEF Next, Parent

-----------------------------------------------------------------------------
(* The answers.                                                            *)

LEMMA CopiesType ==
  ASSUME Input, NEW k \in DOMAIN log PROVE Copies(k) \in Nat /\ (tty => Copies(k) = 0)
<1> DEFINE C == {j \in k + 1 .. Len(log) : ~tty /\ Ended(j)}
<1>1. k + 1 \in Int /\ Len(log) \in Int  BY DEF Input
<1>2. IsFiniteSet(k + 1 .. Len(log))  BY <1>1, FS_Interval
<1>3. IsFiniteSet(C)  BY <1>2, FS_Subset
<1>4. tty => C = {}  OBVIOUS
<1>5. Copies(k) = Cardinality(C)  BY DEF Copies
<1> HIDE DEF C
<1>6. QED  BY <1>3, <1>4, <1>5, FS_CardinalityType, FS_EmptySet

\* The lines carried out so far stay, each with its copies, and a new line
\* has had no answer yet.
LEMMA FgetsCopies ==
  ASSUME Input, Processes, Output, Speaking, Answers,
         NEW fate \in Fates \ {"exited"}, Fgets(fate), OnlyOnce'
  PROVE  \A k \in OwnLines' : \E a \in {0, 1} :
           /\ Copies(k)' \in Nat
           /\ Answered(log'[k].n, a, Copies(k)')
           /\ \/ log'[k].n # line' /\ (a = 0 => IsCd(log'[k].n))
              \/ log'[k].n = line' /\ fate = "own" /\ a = 0 /\ Copies(k)' = 0
<1>1. /\ Input' /\ Len(log') = Len(log) + 1
      /\ \A k \in DOMAIN log : log'[k] = log[k]
  BY FgetsInput
<1>2. /\ DOMAIN log = 1 .. Len(log) /\ DOMAIN log' = 1 .. Len(log')
      /\ Len(log) \in Nat
  BY <1>1 DEF Input
<1>3. PICK last : last = Len(log') /\ log'[last].n = line' /\ log'[last].fate = fate
  <2>1. log'[Len(log')] = [n |-> line', fate |-> fate]  BY FgetsInput
  <2>2. QED  BY <2>1
<1>4. tty' = tty /\ pc = "read" /\ child = "none"
  BY DEF Fgets, input, Processes
<1>5. \A k \in DOMAIN log : log'[k].n < line'
  BY <1>1, <1>2, <1>3 DEF OnlyOnce
<1>6. OnlyOnce  BY <1>1, <1>2 DEF OnlyOnce
<1>7. ASSUME NEW k \in DOMAIN log
      PROVE  Copies(k)' = Copies(k)
  <2> DEFINE C == {j \in k + 1 .. Len(log) : ~tty /\ Ended(j)}
  <2>1. C' = C
    <3>1. \A j \in k + 1 .. Len(log) : j \in DOMAIN log  BY <1>2
    <3>2. k + 1 .. Len(log') = (k + 1 .. Len(log)) \cup {last}
      BY <1>1, <1>2, <1>3
    <3>3. \A j \in k + 1 .. Len(log) : Ended(j)' <=> Ended(j)
      BY <1>1, <3>1 DEF Ended
    <3>4. ~Ended(last)'  BY <1>3 DEF Ended
    <3>5. C' = {j \in k + 1 .. Len(log') : ~tty /\ Ended(j)'}  BY <1>4
    <3>6. QED  BY <3>2, <3>3, <3>4, <3>5 DEF Ended
  <2>2. Copies(k) = Cardinality(C) /\ Copies(k)' = Cardinality(C')  BY DEF Copies
  <2>3. QED  BY <2>1, <2>2
<1>8. Copies(last)' = 0
  <2>1. {j \in last + 1 .. Len(log') : ~tty' /\ Ended(j)'} = {}  BY <1>1, <1>2, <1>3
  <2>2. QED  BY <2>1, FS_EmptySet DEF Copies
<1>9. Answered(line', 0, 0)
  <2>1. line' \notin {0} \cup Carried
    <3>1. line' \in Nat \ {0}
      <4>1. line' \in 1 .. Len(script)  BY FgetsInput
      <4>2. QED  BY <4>1 DEF Input
    <3>2. \A n \in Carried : n \in Nat /\ n < line'
      BY <1>1, <1>5, LineNumbers DEF Carried
    <3>3. QED  BY <3>1, <3>2
  <2>2. Shown(screen, line') = 0 /\ Shown(out, line') = 0
    <3>1. /\ \A i \in DOMAIN screen : screen[i][2] # line'
          /\ \A i \in DOMAIN out : out[i][2] # line'
      BY <2>1 DEF Speaking, About
    <3>2. QED  BY <3>1, ShownType DEF Output
  <2>3. QED  BY <1>4, <2>2 DEF Answered
<1>10. ASSUME NEW k \in OwnLines'
       PROVE  \E a \in {0, 1} :
           /\ Copies(k)' \in Nat
           /\ Answered(log'[k].n, a, Copies(k)')
           /\ \/ log'[k].n # line' /\ (a = 0 => IsCd(log'[k].n))
              \/ log'[k].n = line' /\ fate = "own" /\ a = 0 /\ Copies(k)' = 0
  <2>1. CASE k \in DOMAIN log
    <3>1. k \in OwnLines /\ log'[k] = log[k]  BY <1>1, <1>10, <2>1 DEF OwnLines
    <3>2. PICK a \in {0, 1} : /\ a = 0 => IsCd(log[k].n)
                              /\ Answered(log[k].n, a, Copies(k))
      BY <1>6, <3>1 DEF Answers
    <3>3. Copies(k)' = Copies(k) /\ Copies(k) \in Nat  BY <1>7, <2>1, CopiesType
    <3>4. log'[k].n # line'
      <4>1. log'[k].n < line' /\ log'[k].n \in Nat  BY <1>5, <2>1, <3>1, LineNumbers
      <4>2. QED  BY <4>1
    <3>5. QED  BY <3>1, <3>2, <3>3, <3>4
  <2>2. CASE k = last
    BY <1>3, <1>8, <1>9, <1>10, <2>2 DEF OwnLines
  <2>3. k \in DOMAIN log \/ k = last  BY <1>1, <1>2, <1>3, <1>10 DEF OwnLines
  <2>4. QED  BY <2>1, <2>2, <2>3
<1>11. QED  BY <1>10

LEMMA ShownReplies ==
  ASSUME Input, NEW fate, NEW items \in Seq(Items), Replies(fate, items),
         NEW n \in Nat \ {0}
  PROVE  /\ Shown(items, n) \in {0, 1}
         /\ n # line' => Shown(items, n) = 0
         /\ n = line' /\ fate = "own" => Shown(items, n) = 1 \/ IsCd(line')
<1>1. Shown(<<>>, n) = 0 /\ Shown(<<Newline>>, n) = 0  BY ShownPrompt
<1>2. CASE fate = "none" /\ items \in {<<>>, <<Newline>>}
  <2>1. Shown(items, n) = 0 /\ fate # "own"  BY <1>1, <1>2
  <2>2. QED  BY <2>1
<1>3. CASE items = <<>> /\ IsCd(line')
  <2>1. Shown(items, n) = 0  BY <1>1, <1>3
  <2>2. QED  BY <1>3, <2>1
<1>4. CASE \E i \in Items : i[2] = line' /\ items = <<i>>
  <2>1. Shown(items, n) = IF n = line' THEN 1 ELSE 0  BY <1>4, ShownOne
  <2>2. QED  BY <2>1
<1>5. QED  BY <1>2, <1>3, <1>4 DEF Replies

LEMMA CarriedAnswers ==
  ASSUME Input, Processes, Output, Speaking, Answers, [Next]_shellVars, OnlyOnce',
         Exit \/ Blank \/ Cd \/ CdUndefined \/ Pwd \/ ForkFails,
         NEW k \in OwnLines'
  PROVE  \E a \in {0, 1} : /\ a = 0 => IsCd(log'[k].n)
                           /\ Answered(log[k].n, a, Copies(k))'
<1>1. PICK fate \in {"none", "own"}, items \in Seq(Items) :
        /\ Fgets(fate) /\ UNCHANGED <<child, cout>>
        /\ Replies(fate, items) /\ Passes(items)
  BY CarryOut
<1>2. /\ Input' /\ pc = "read" /\ child' = "none" /\ tty' = tty
  BY <1>1, NextInput DEF Fgets, Processes, input
<1>3. PICK n, copies : n = log'[k].n /\ copies = Copies(k)'
  OBVIOUS
<1>4. PICK a \in {0, 1} : /\ copies \in Nat /\ Answered(n, a, copies)
                          /\ \/ n # line' /\ (a = 0 => IsCd(n))
                             \/ n = line' /\ fate = "own" /\ a = 0 /\ copies = 0
  BY <1>1, <1>3, FgetsCopies DEF Fates
<1>5. n \in Nat \ {0}
  <2>1. \A j \in DOMAIN log' : log'[j].n \in 1 .. Len(script')
    <3> DEFINE E == [n : 1 .. Len(script'), fate : Fates]
    <3>1. log' \in Seq(E)  BY <1>2 DEF Input
    <3>2. \A e \in E : e.n \in 1 .. Len(script')  OBVIOUS
    <3> HIDE DEF E
    <3>3. QED  BY <3>1, <3>2
  <2>2. k \in DOMAIN log'  BY DEF OwnLines
  <2>3. QED  BY <1>2, <1>3, <2>1, <2>2 DEF Input
<1>6. /\ Shown(items, n) \in {0, 1} /\ (n # line' => Shown(items, n) = 0)
      /\ n = line' /\ fate = "own" => Shown(items, n) = 1 \/ IsCd(line')
      /\ Shown(<<>>, n) = 0 /\ Shown(<<Prompt>>, n) = 0
  BY <1>1, <1>5, ShownReplies, ShownPrompt
<1>7. PICK b \in {0, 1} : b = a + Shown(items, n) /\ (b = 0 => IsCd(n))
  BY <1>4, <1>6
<1>8. Shown(items, n) = 0 \/ (Shown(items, n) = 1 /\ a = 0 /\ copies = 0)
  BY <1>4, <1>6
<1>9. Answered(n, b, copies)'
  <2>1. CASE Reply(items) /\ pc' = pc
    BY <1>1, <1>2, <1>4, <1>6, <1>7, <1>8, <2>1, ReplyAnswered
  <2>2. CASE Leave(items) \/ Fail(items)
    BY <1>1, <1>2, <1>4, <1>6, <1>7, <1>8, <2>2, LeaveAnswered
  <2>3. CASE pc' = "undefined" /\ items = <<>> /\ UNCHANGED <<out, screen>>
    <3>1. b = a  BY <1>6, <1>7, <2>3
    <3>2. QED  BY <1>2, <1>4, <2>3, <3>1 DEF Answered, Shown
  <2>4. QED  BY <1>1, <2>1, <2>2, <2>3 DEF Passes
<1>10. QED  BY <1>3, <1>7, <1>9 DEF Answered

LEMMA ForkedAnswers ==
  ASSUME Input, Processes, Output, Speaking, Answers, [Next]_shellVars, OnlyOnce',
         Fork, NEW k \in OwnLines'
  PROVE  \E a \in {0, 1} : /\ a = 0 => IsCd(log'[k].n)
                           /\ Answered(log[k].n, a, Copies(k))'
<1>1. /\ Fgets("forked") /\ pc = "read" /\ pc' = "wait" /\ tty' = tty
      /\ cout' = out /\ UNCHANGED <<out, screen>>
  BY DEF Fork, Fgets, input
<1>2. PICK n, copies : n = log'[k].n /\ copies = Copies(k)'
  OBVIOUS
<1>3. PICK a \in {0, 1} : Answered(n, a, copies) /\ (a = 0 => IsCd(n))
  BY <1>1, <1>2, FgetsCopies DEF Fates
<1>4. Answered(n, a, copies)'  BY <1>1, <1>3 DEF Answered, Shown
<1>5. QED  BY <1>2, <1>3, <1>4 DEF Answered

\* What becomes of a line when none is carried out.
LEMMA OldAnswer ==
  ASSUME Input, Answers, UNCHANGED <<tty, script, log>>, OnlyOnce',
         NEW k \in OwnLines'
  PROVE  /\ k \in DOMAIN log /\ log[k].fate = "own" /\ log[k].n \in Nat \ {0}
         /\ Copies(k)' = Copies(k) /\ Copies(k) \in Nat
         /\ \E a \in {0, 1} : /\ a = 0 => IsCd(log[k].n)
                              /\ Answered(log[k].n, a, Copies(k))
<1>1. k \in DOMAIN log /\ k \in OwnLines /\ log[k].fate = "own"  BY DEF OwnLines
<1>2. OnlyOnce  BY DEF OnlyOnce
<1>3. log[k].n \in Nat \ {0}
  <2>1. log[k].n \in 1 .. Len(script)  BY <1>1, LineNumbers
  <2>2. QED  BY <2>1 DEF Input
<1>4. Copies(k)' = Copies(k)  BY DEF Copies, Ended
<1>5. QED  BY <1>1, <1>2, <1>3, <1>4, CopiesType DEF Answers

LEMMA StillAnswers ==
  ASSUME Input, Processes, Output, Speaking, Answers, [Next]_shellVars, OnlyOnce',
         Fill \/ EndOfInput \/ Wait \/ ProgramReads \/ ProgramEnds
              \/ UNCHANGED shellVars,
         NEW k \in OwnLines'
  PROVE  \E a \in {0, 1} : /\ a = 0 => IsCd(log'[k].n)
                           /\ Answered(log[k].n, a, Copies(k))'
<1>0. UNCHANGED <<tty, script, log>>
  BY DEF Fill, EndOfInput, Wait, ProgramReads, ProgramEnds, shellVars, input
<1>1. PICK n, copies :
        /\ n = log[k].n /\ n = log'[k].n /\ n \in Nat \ {0}
        /\ copies = Copies(k) /\ copies = Copies(k)' /\ copies \in Nat
  BY <1>0, OldAnswer
<1>2. PICK a \in {0, 1} : (a = 0 => IsCd(n)) /\ Answered(n, a, copies)
  BY <1>0, <1>1, OldAnswer
<1>3. Shown(<<>>, n) = 0 /\ Shown(<<Prompt>>, n) = 0 /\ Shown(<<Newline>>, n) = 0
  BY <1>1, ShownPrompt
<1>4. <<>> \in Seq(Items) /\ <<Newline>> \in Seq(Items)  BY SayItems
<1>5. Answered(n, a, copies)'
  <2>1. CASE Fill
    <3>1. /\ pc = "read" /\ child = "none" /\ UNCHANGED <<pc, child>>
      BY <2>1 DEF Fill, Processes
    <3>2. CASE tty
      <4>1. screen' = screen \o out /\ out' = <<>>  BY <2>1, <3>2 DEF Fill
      <4>2. Shown(screen', n) = Shown(screen, n) + Shown(out, n)
        BY <4>1, ShownConcat DEF Output
      <4>3. Shown(screen, n) = a /\ Shown(out, n) = 0  BY <1>2, <3>2 DEF Answered
      <4>4. Shown(screen', n) = a /\ Shown(out', n) = 0  BY <1>3, <4>1, <4>2, <4>3
      <4>5. QED  BY <1>0, <3>1, <3>2, <4>4 DEF Answered, Shown
    <3>3. CASE ~tty
      <4>1. UNCHANGED <<screen, out>>  BY <2>1, <3>3 DEF Fill
      <4>2. QED  BY <1>0, <1>2, <3>1, <4>1 DEF Answered, Shown
    <3>4. QED  BY <3>2, <3>3
  <2>2. CASE EndOfInput
    <3>1. /\ pc = "read" /\ child' = "none" /\ Leave(<<Newline>>)
      BY <2>2 DEF EndOfInput, Processes
    <3>2. Answered(n, a + Shown(<<Newline>>, n), copies)'
      BY <1>0, <1>1, <1>2, <1>3, <1>4, <3>1, LeaveAnswered
    <3>3. QED  BY <1>3, <3>2
  <2>3. CASE Wait
    <3>1. pc = "wait" /\ pc' = "read" /\ child' = "none" /\ Reply(<<>>)
      BY <2>3 DEF Wait, Reap
    <3>2. Answered(n, a + Shown(<<>>, n), copies)'
      BY <1>0, <1>1, <1>2, <1>3, <1>4, <3>1, ReplyAnswered
    <3>3. QED  BY <1>3, <3>2
  <2>4. CASE ProgramReads \/ UNCHANGED shellVars
    <3>1. UNCHANGED <<pc, child, screen, out, cout>>
      BY <2>4 DEF ProgramReads, shellVars, stdio
    <3>2. QED  BY <1>0, <1>2, <3>1 DEF Answered, Shown
  <2>5. CASE ProgramEnds
    <3> DEFINE said == <<Say(line, "output")>>
    <3>1. /\ child = "running" /\ child' = "exited"
          /\ screen' = Append(screen, Say(line, "output"))
          /\ UNCHANGED <<pc, out>>
      BY <2>5 DEF ProgramEnds
    <3>2. n # line /\ line \in Nat
      <4>1. log # <<>> /\ log[Len(log)].fate # "own"  BY <3>1 DEF Processes
      <4>2. /\ Len(log) \in DOMAIN log /\ k \in DOMAIN log /\ k < Len(log)
            /\ log[k].n \in Nat
        <5>1. k \in DOMAIN log /\ k # Len(log) /\ log[k].n \in Nat
          BY <1>0, <4>1, OldAnswer
        <5>2. QED  BY <4>1, <5>1 DEF Input
      <4>3. log[k].n < log[Len(log)].n  BY <1>0, <4>2 DEF OnlyOnce
      <4>4. log[Len(log)].n = line  BY <3>1 DEF Speaking
      <4>5. QED  BY <1>1, <4>2, <4>3, <4>4 DEF Input
    <3>3. Say(line, "output") \in Items /\ Say(line, "output")[2] = line
      <4>1. line \in 0 .. MaxLines  BY ShellAssumption DEF Input
      <4>2. QED  BY <4>1, SayItems DEF Printed, Say
    <3>4. screen \in Seq(Items) /\ said \in Seq(Items) /\ screen' = screen \o said
      BY <3>1, <3>3 DEF Output
    <3>5. Shown(said, n) = 0  BY <3>2, <3>3, ShownOne
    <3> HIDE DEF said
    <3>6. Shown(screen', n) = Shown(screen, n)
      <4>1. Shown(screen \o said, n) = Shown(screen, n) + Shown(said, n)
            /\ Shown(screen, n) \in Nat
        BY <3>4, ShownConcat, ShownType
      <4>2. QED  BY <3>4, <3>5, <4>1
    <3>7. QED  BY <1>0, <1>2, <3>1, <3>6 DEF Answered, Shown
  <2>6. QED  BY <2>1, <2>2, <2>3, <2>4, <2>5
<1>6. QED  BY <1>1, <1>2, <1>5 DEF Answered

LEMMA ChildAnswers ==
  ASSUME Input, Processes, Output, Speaking, Answers, OnlyOnce', Execute,
         NEW k \in OwnLines'
  PROVE  \E a \in {0, 1} : /\ a = 0 => IsCd(log'[k].n)
                           /\ Answered(log[k].n, a, Copies(k))'
<1>1. PICK fate \in {"exited", "ran", "died"}, next \in {"exited", "running"} :
        Child(fate, next) /\ off' \in 0 .. Len(script) /\ Flushes(fate)
  BY ChildPrints
<1>2. PICK last : last = Len(log)  OBVIOUS
<1>3. /\ last \in DOMAIN log /\ log[last].fate = "forked"
      /\ DOMAIN log' = DOMAIN log /\ log'[last].fate = fate
      /\ \A j \in DOMAIN log : j # last => log'[j] = log[j]
      /\ \A j \in DOMAIN log : log'[j].n = log[j].n
      /\ Len(log') = last /\ DOMAIN log = 1 .. last /\ last \in Nat
  <2>1. log[last] \in [n : 1 .. Len(script), fate : Fates] /\ last \in DOMAIN log
    BY <1>1, <1>2, ChildInput, LineNumbers DEF Fates
  <2>2. log'[last] = [log[last] EXCEPT !.fate = fate]
    BY <1>1, <1>2, ChildInput DEF Fates
  <2>3. log'[last].fate = fate  BY <2>1, <2>2
  <2>4. DOMAIN log = 1 .. last /\ last \in Nat  BY <1>2 DEF Input
  <2>5. QED  BY <1>1, <1>2, <2>3, <2>4, ChildInput, ChildCarried DEF Fates
<1>4. /\ child = "execute" /\ child' # "execute" /\ pc = "wait" /\ pc' = pc
      /\ out' = out /\ line' = line /\ tty' = tty /\ script' = script
  BY <1>1 DEF Child, Processes, input
<1>5. OnlyOnce  BY <1>3 DEF OnlyOnce
<1>6. k \in OwnLines /\ k \in DOMAIN log /\ k # last /\ k < last
  <2>1. k \in DOMAIN log /\ log'[k].fate = "own"  BY <1>3 DEF OwnLines
  <2>2. k # last  BY <1>1, <1>3, <2>1
  <2>3. QED  BY <1>3, <2>1, <2>2 DEF OwnLines
<1>7. PICK n, copies : n = log[k].n /\ copies = Copies(k)  OBVIOUS
<1>8. n = log'[k].n /\ n # line /\ copies \in Nat /\ (tty => copies = 0)
  <2>1. log[k].n < log[last].n /\ log[k].n \in Nat
    BY <1>3, <1>5, <1>6, LineNumbers DEF OnlyOnce
  <2>2. log[last].n = line  BY <1>2, <1>4 DEF Speaking
  <2>3. QED  BY <1>3, <1>6, <1>7, <2>1, <2>2, CopiesType
<1>9. PICK a \in {0, 1} : (a = 0 => IsCd(n)) /\ Answered(n, a, copies)
  BY <1>5, <1>6, <1>7 DEF Answers
<1>10. Copies(k)' = IF ~tty /\ fate = "exited" THEN copies + 1 ELSE copies
  <2> DEFINE C == {j \in k + 1 .. Len(log) : ~tty /\ Ended(j)}
             D == {j \in k + 1 .. Len(log') : ~tty' /\ Ended(j)'}
  <2>1. copies = Cardinality(C) /\ Copies(k)' = Cardinality(D)  BY <1>7 DEF Copies
  <2>2. IsFiniteSet(C)
    <3>1. IsFiniteSet(k + 1 .. last)  BY <1>3, <1>6, FS_Interval
    <3>2. QED  BY <1>2, <3>1, FS_Subset
  <2>3. last \notin C  BY <1>3 DEF Ended
  <2>4. \A j \in k + 1 .. last : j \in DOMAIN log  BY <1>3, <1>6
  <2>5. \A j \in k + 1 .. last : j # last => (Ended(j)' <=> Ended(j))
    BY <1>3, <2>4 DEF Ended
  <2>6. last \in k + 1 .. last  BY <1>3, <1>6
  <2>7. Ended(last)' <=> fate = "exited"  BY <1>3 DEF Ended
  <2>8. D = IF ~tty /\ fate = "exited" THEN C \cup {last} ELSE C
    <3>1. C = {j \in k + 1 .. last : ~tty /\ Ended(j)}
          /\ D = {j \in k + 1 .. last : ~tty /\ Ended(j)'}
      BY <1>2, <1>3, <1>4
    <3>2. ~Ended(last)  BY <1>3 DEF Ended
    <3>3. QED  BY <2>5, <2>6, <2>7, <3>1, <3>2
  <2> HIDE DEF C, D
  <2>9. Cardinality(C \cup {last}) = Cardinality(C) + 1  BY <2>2, <2>3, FS_AddElement
  <2>10. QED  BY <2>1, <2>8, <2>9
<1>11. Shown(screen, n) \in Nat /\ Shown(cout, n) \in Nat  BY ShownType DEF Output
<1>12. Shown(screen', n) = IF (tty /\ fate # "died") \/ fate = "exited"
                           THEN Shown(screen, n) + Shown(cout, n) ELSE Shown(screen, n)
  BY <1>1, <1>8 DEF Flushes
<1>13. PICK c : c = Copies(k)'  OBVIOUS
<1>14. Answered(n, a, c)'
  <2>1. CASE tty
    <3>1. Shown(screen, n) = a /\ Shown(out, n) = 0 /\ Shown(cout, n) = 0
      BY <1>4, <1>9, <2>1 DEF Answered
    <3>2. Shown(screen', n) = a  BY <1>11, <1>12, <3>1
    <3>3. QED  BY <1>4, <2>1, <3>1, <3>2 DEF Answered, Shown
  <2>2. CASE ~tty
    <3>1. /\ Shown(screen, n) = IF a = 0 THEN 0 ELSE copies
          /\ Shown(out, n) = a /\ Shown(cout, n) = a
      BY <1>4, <1>9, <2>2 DEF Answered
    <3>2. c = IF fate = "exited" THEN copies + 1 ELSE copies
      BY <1>10, <1>13, <2>2
    <3>3. Shown(screen', n) = IF a = 0 THEN 0 ELSE c
      BY <1>8, <1>12, <2>2, <3>1, <3>2
    <3>4. QED  BY <1>4, <2>2, <3>1, <3>3 DEF Answered, Shown
  <2>3. QED  BY <2>1, <2>2
<1>15. QED  BY <1>8, <1>9, <1>13, <1>14 DEF Answered

LEMMA NextAnswers ==
  ASSUME Input, Processes, Output, Speaking, Answers, [Next]_shellVars
  PROVE  Answers'
<1> SUFFICES ASSUME OnlyOnce', NEW k \in OwnLines'
             PROVE  \E a \in {0, 1} : /\ a = 0 => IsCd(log'[k].n)
                                      /\ Answered(log[k].n, a, Copies(k))'
  <2>1. script' = script
    BY DEF Next, Parent, Execute, Fill, EndOfInput, Exit, Blank, Cd, CdUndefined, Pwd,
           ForkFails, Fork, Wait, NotFound, ExecFails, Exec, Overruns, ProgramReads,
           ProgramEnds, Builtin, Fgets, Child, shellVars, input
  <2>2. \A n : IsCd(n)' <=> IsCd(n)  BY <2>1 DEF IsCd
  <2>3. QED  BY <2>2 DEF Answers
<1>1. CASE Exit \/ Blank \/ Cd \/ CdUndefined \/ Pwd \/ ForkFails
  BY <1>1, CarriedAnswers
<1>2. CASE Fork
  BY <1>2, ForkedAnswers
<1>3. CASE Execute
  BY <1>3, ChildAnswers
<1>4. CASE Fill \/ EndOfInput \/ Wait \/ ProgramReads \/ ProgramEnds
           \/ UNCHANGED shellVars
  BY <1>4, StillAnswers
<1>5. QED  BY <1>1, <1>2, <1>3, <1>4 DEF Next, Parent

-----------------------------------------------------------------------------
(* The theorems.                                                           *)

LEMMA InitInv == ShellInit => ShellInv
<1> SUFFICES ASSUME ShellInit PROVE ShellInv
  OBVIOUS
<1>1. Input /\ Processes  BY InitInput
<1>2. /\ log = <<>> /\ buf = <<>> /\ lists = 1 /\ pc = "read" /\ child = "none"
      /\ screen = <<>> /\ out = <<Prompt>> /\ cout = <<>> /\ cwd \in Dirs
  BY DEF ShellInit
<1>3. Output  BY <1>2, SayItems DEF Output
<1>4. OwnLines = {}  BY <1>2 DEF OwnLines
<1>5. ListsHeld  BY <1>2, <1>4, FS_EmptySet DEF ListsHeld, OwnLines
<1>6. Ascending  BY <1>2 DEF Ascending, OnlyOnce
<1>7. Speaking  BY <1>2, AboutOne DEF Speaking
<1>8. Answers  BY <1>4 DEF Answers
<1>9. QED  BY <1>1, <1>2, <1>3, <1>5, <1>6, <1>7, <1>8 DEF ShellInv

LEMMA NextInv == ShellInv /\ [Next]_shellVars => ShellInv'
BY NextInput, NextOutput, NextLists, NextOrder, NextSpeaking, NextAnswers DEF ShellInv

\* The invariant holds throughout.
THEOREM ShellInvariant == Spec => []ShellInv
BY InitInv, NextInv, PTL DEF Spec

\* Whatever is typed and whatever programs do, the lines handed out, the line
\* in hand, the directory and everything that was printed keep their range,
\* and there is a child exactly while the parent waits for one.
THEOREM ShellTypeCorrect == Spec => []ShellTypeOK
<1>1. ShellInv => ShellTypeOK
  <2> SUFFICES ASSUME ShellInv PROVE ShellTypeOK
    OBVIOUS
  <2> USE DEF ShellInv
  <2>1. ToSet(screen \o out \o cout) \subseteq Items
    <3>1. screen \o out \o cout \in Seq(Items)  BY ConcatItems DEF Output
    <3>2. QED  BY <3>1 DEF ToSet
  <2>2. \A i \in ToSet(screen \o out \o cout) : Item(i)  BY <2>1, ItemsAre
  <2>3. \A k \in DOMAIN buf : buf[k] \in 1 .. Len(script)  BY DEF Input
  <2>4. QED  BY <2>2, <2>3 DEF ShellTypeOK, Input, Processes, Output
<1>2. QED  BY <1>1, ShellInvariant, PTL

\* Only one token list at a time is released, that of a forked command: while
\* the shell runs it holds one for each of its own commands before.
THEOREM ListsAreHeld == Spec => []ListsHeld
<1>1. ShellInv => ListsHeld  BY DEF ShellInv
<1>2. QED  BY <1>1, ShellInvariant, PTL

\* The main loop carries each line out once and in order, whoever shares its
\* input, unless that is a file and a child has left by exit.
THEOREM LinesInOrder == Spec => []RereadOnlyAfterExit
<1>1. ShellInv => RereadOnlyAfterExit
  BY DEF ShellInv, Reread, Ascending, RereadOnlyAfterExit
<1>2. QED  BY <1>1, ShellInvariant, PTL

\* At the end every answer of the shell has been shown once on a terminal, and
\* otherwise once more for every later child that left by exit.
THEOREM AnswersAreShown == Spec => []AnswersShown
<1>1. ShellInv => AnswersShown
  <2> SUFFICES ASSUME ShellInv, pc = "over", OnlyOnce,
                      NEW k \in DOMAIN log, log[k].fate = "own"
               PROVE  \/ Shown(screen, log[k].n) = 1 + Copies(k)
                      \/ Shown(screen, log[k].n) = 0 /\ IsCd(log[k].n)
    BY DEF AnswersShown, Shown, Copies, IsCd
  <2>1. k \in OwnLines  BY DEF OwnLines
  <2>2. PICK a \in {0, 1} : /\ a = 0 => IsCd(log[k].n)
                            /\ Answered(log[k].n, a, Copies(k))
    BY <2>1 DEF ShellInv, Answers
  <2>3. tty => Copies(k) = 0  BY CopiesType DEF ShellInv
  <2>4. QED  BY <2>2, <2>3 DEF Answered
<1>2. QED  BY <1>1, ShellInvariant, PTL

-----------------------------------------------------------------------------
(* What a user at a terminal sees (module Session).                        *)

Cur == IF buf # <<>> THEN Head(buf) ELSE line
St == IF pc \in {"over", "undefined"} THEN pc
      ELSE IF child = "running" THEN "run"
      ELSE IF child = "execute" \/ buf # <<>> THEN "answer" ELSE "ask"

\* A line that names a program, and the word that does.
ForProgram(l) ==
  Terminal!Words(l) \notin {<<>>, <<"exit">>} /\ Terminal!First(l) \notin {"pwd", "cd"}

NamesProgram(l) ==
  Trimmed[l] \notin {<<>>, <<"exit">>} /\ Comm(l)[1] \notin {<<"cd">>, <<"pwd">>}

\* At a terminal a line is read when it is typed and what was printed is on
\* the screen by then; the entries of path are what they were.
Interactive ==
  tty => /\ buf = <<>> \/ (pc = "read" /\ Len(buf) = 1)
         /\ out = IF pc = "read" /\ buf = <<>> THEN <<Prompt>> ELSE <<>>
         /\ child = "execute" =>
              cout = <<>> /\ \E l \in Lines : l = script[line] /\ NamesProgram(l)
         /\ path = Directories

SessionInv == Input /\ Processes /\ Output /\ Interactive

\* Off the terminal nothing happens.
LEMMA NoTerminal ==
  ASSUME tty = FALSE, tty' = FALSE
  PROVE  UNCHANGED Terminal!sessionVars
BY DEF Terminal!sessionVars

LEMMA Unmoved ==
  ASSUME tty = TRUE, tty' = TRUE, script' = script, off' = off, Cur' = Cur, cwd' = cwd,
         screen' = screen, St' = St
  PROVE  UNCHANGED Terminal!sessionVars
BY DEF Terminal!sessionVars, Cur, St

LEMMA Asks ==
  ASSUME tty = TRUE, tty' = TRUE, script' = script, cwd' = cwd, St = "ask",
         \/ /\ off < Len(script) /\ screen' = screen \o <<Prompt>>
            /\ off' = off + 1 /\ Cur' = off + 1 /\ St' = "answer"
         \/ /\ ~(off < Len(script)) /\ screen' = screen \o <<Prompt, Newline>>
            /\ off' = off /\ Cur' = Cur /\ St' = "over"
  PROVE  Terminal!SessionNext
BY DEF Terminal!SessionNext, Terminal!Ask, Terminal!Show, Cur, St, Prompt, Newline

LEMMA Runs ==
  ASSUME tty = TRUE, tty' = TRUE, script' = script, cwd' = cwd, Cur' = Cur, St = "run",
         \/ off < Len(script) /\ off' = off + 1 /\ screen' = screen /\ St' = St
         \/ screen' = screen \o <<Say(Cur, "output")>> /\ off' = off /\ St' = "ask"
  PROVE  Terminal!SessionNext
BY DEF Terminal!SessionNext, Terminal!Running, Terminal!Show, Cur, St, Say

-----------------------------------------------------------------------------
(* The ways to answer the line in hand, in the words of Shell.             *)

Here(l) ==
  /\ tty = TRUE /\ tty' = TRUE /\ script' = script /\ off' = off /\ Cur' = Cur
  /\ St = "answer" /\ l = script[Cur]

LEMMA AnswerBlank ==
  ASSUME NEW l, Here(l), Terminal!Words(l) = <<>>,
         St' = "ask", cwd' = cwd, screen' = screen
  PROVE  Terminal!SessionNext
BY DEF Here, Terminal!SessionNext, Terminal!Answer, Cur, St

LEMMA AnswerExit ==
  ASSUME NEW l, Here(l), Terminal!Words(l) = <<"exit">>,
         St' = "over", cwd' = cwd, screen' = screen \o <<Newline>>
  PROVE  Terminal!SessionNext
BY DEF Here, Terminal!SessionNext, Terminal!Answer, Terminal!Show, Cur, St, Newline

LEMMA AnswerPwd ==
  ASSUME NEW l, Here(l), Terminal!Words(l) \notin {<<>>, <<"exit">>},
         Terminal!First(l) = "pwd", cwd' = cwd,
         IF Len(cwd) <= MaxDepth
         THEN screen' = screen \o <<<<"dir", Cur, cwd>>>> /\ St' = "ask"
         ELSE screen' = screen \o <<Say(Cur, "getcwd")>> /\ St' = "over"
  PROVE  Terminal!SessionNext
BY DEF Here, Terminal!SessionNext, Terminal!Answer, Terminal!Tell, Terminal!Show,
       Cur, St, Say

LEMMA AnswerCd ==
  ASSUME NEW l, Here(l), Terminal!Words(l) \notin {<<>>, <<"exit">>},
         Terminal!First(l) = "cd",
         \/ Terminal!ChangeDir(l) /\ St' = "ask"
         \/ Len(cwd) >= MaxDepth /\ St' = "undefined" /\ cwd' = cwd /\ screen' = screen
  PROVE  Terminal!SessionNext
BY DEF Here, Terminal!SessionNext, Terminal!Answer, Terminal!Move, Cur, St

LEMMA AnswerRun ==
  ASSUME NEW l, Here(l), ForProgram(l), cwd' = cwd, Terminal!Run(Terminal!First(l))
  PROVE  Terminal!SessionNext
BY DEF Here, ForProgram, Terminal!SessionNext, Terminal!Answer, Cur, St

-----------------------------------------------------------------------------
(* Each step of Shell.                                                     *)

\* What Shell makes of a line that both read alike.
LEMMA ReadsAs ==
  ASSUME NEW l \in Lines, ReadAlike(l)
  PROVE  /\ Trimmed[l] = <<>> <=> Terminal!Words(l) = <<>>
         /\ Trimmed[l] = <<"exit">> <=> Terminal!Words(l) = <<"exit">>
         /\ Terminal!Words(l) # <<>> =>
              /\ Comm(l)[1] = AsToken(Terminal!First(l))
              /\ Comm(l)[1] = <<"cd">> <=> Terminal!First(l) = "cd"
              /\ Comm(l)[1] = <<"pwd">> <=> Terminal!First(l) = "pwd"
         /\ Comm(l)[1] = <<"cd">> =>
              IF Terminal!Words(l) = <<"cd">> THEN Len(Comm(l)) = 1
              ELSE Len(Comm(l)) > 1 /\ Comm(l)[2] = AsToken(Terminal!Second(l))
<1>1. Comm(l) = Tokenise(CutLine(l), " ") /\ Trimmed[l] = Trim(l)
  BY DEF Comm, Tokens, Trimmed
<1>2. /\ Trim(l) = <<>> <=> Terminal!Words(l) = <<>>
      /\ Trim(l) = <<"exit">> <=> Terminal!Words(l) = <<"exit">>
      /\ Terminal!Words(l) # <<>> =>
           Tokenise(CutLine(l), " ")[1] = AsToken(Terminal!First(l))
  BY DEF ReadAlike
<1>3. Tokenise(CutLine(l), " ")[1] = <<"cd">> =>
         IF Terminal!Words(l) = <<"cd">> THEN Len(Tokenise(CutLine(l), " ")) = 1
         ELSE /\ Len(Tokenise(CutLine(l), " ")) > 1
              /\ Tokenise(CutLine(l), " ")[2] = AsToken(Terminal!Second(l))
  BY DEF ReadAlike
<1>4. \A w : /\ AsToken(w) = <<"cd">> <=> w = "cd"
             /\ AsToken(w) = <<"pwd">> <=> w = "pwd"
  BY DEF AsToken
<1>5. Terminal!Words(l) # <<>> =>
         /\ Comm(l)[1] = AsToken(Terminal!First(l))
         /\ Comm(l)[1] = <<"cd">> <=> Terminal!First(l) = "cd"
         /\ Comm(l)[1] = <<"pwd">> <=> Terminal!First(l) = "pwd"
  BY <1>1, <1>2, <1>4, Zenon
<1>6. QED  BY <1>1, <1>2, <1>3, <1>5, Zenon

\* A line is taken at a terminal.
LEMMA Takes ==
  ASSUME SessionInv, tty, NEW fate \in Fates, Fgets(fate)
  PROVE  /\ Here(text) /\ text \in Lines /\ Cur \in 1 .. Len(script)
         /\ buf' = <<>> /\ line' = Cur /\ out = <<>> /\ pc = "read" /\ child = "none"
         /\ path' = path /\ tty' = tty /\ script' = script
<1> USE DEF SessionInv
<1>1. pc = "read" /\ buf # <<>> /\ Len(buf) = 1 /\ out = <<>> /\ child = "none"
  BY DEF Fgets, Interactive, Processes
<1>2. buf' = <<>> /\ Head(buf) \in 1 .. Len(script) /\ line' = Head(buf)
  <2>1. line' = Head(buf) /\ buf' = Tail(buf)  BY DEF Fgets
  <2>2. PICK N : N = 1 .. Len(script)  OBVIOUS
  <2>3. buf \in Seq(N)  BY <2>2 DEF Input
  <2>4. Head(buf) \in N  BY <1>1, <2>3
  <2>5. Tail(buf) \in Seq(N) /\ Len(Tail(buf)) = 0  BY <1>1, <2>3
  <2>6. \A t \in Seq(N) : Len(t) = 0 => t = <<>>  OBVIOUS
  <2>7. QED  BY <2>1, <2>2, <2>4, <2>5, <2>6
<1>3. tty = TRUE /\ tty' = TRUE /\ UNCHANGED <<script, off, path>>
  BY DEF Fgets, input, Input
<1>4. Cur = Head(buf) /\ Cur' = Cur /\ St = "answer"
  BY <1>1, <1>2 DEF Cur, St
<1>5. text \in Lines  BY <1>2 DEF text, Input
<1>6. QED  BY <1>1, <1>2, <1>3, <1>4, <1>5 DEF Here, text

\* What the parent says at a terminal.
LEMMA RepliesAtOnce ==
  ASSUME tty, out = <<>>, screen \in Seq(Items), NEW items \in Seq(Items), Reply(items)
  PROVE  screen' = screen \o items /\ out' = <<Prompt>>
<1>1. /\ screen \o out \o items = screen \o items
      /\ out \o items \o <<Prompt>> = items \o <<Prompt>>
  OBVIOUS
<1>2. CASE items = <<>>
  <2>1. screen' = screen /\ out' = out \o items \o <<Prompt>>  BY <1>2 DEF Reply
  <2>2. QED  BY <1>2, <2>1
<1>3. CASE items # <<>>
  BY <1>1, <1>3 DEF Reply
<1>4. QED  BY <1>2, <1>3

LEMMA LeavesAtOnce ==
  ASSUME screen \in Seq(Items), out = <<>>, NEW items \in Seq(Items),
         Leave(items) \/ Fail(items)
  PROVE  screen' = screen \o items /\ out' = <<>> /\ pc' = "over"
BY DEF Leave, Fail

LEMMA SayingLine ==
  ASSUME Input, Output, NEW n \in 0 .. Len(script)
  PROVE  /\ <<Newline>> \in Seq(Items) /\ <<Prompt>> \in Seq(Items) /\ <<>> \in Seq(Items)
         /\ \A what \in Printed : <<Say(n, what)>> \in Seq(Items)
         /\ <<<<"dir", n, cwd>>>> \in Seq(Items)
<1>1. n \in 0 .. MaxLines  BY ShellAssumption DEF Input
<1>2. "dir" \in Printed /\ cwd \in Dirs  BY DEF Printed, Output
<1>3. <<"dir", n, cwd>> \in Items  BY <1>1, <1>2, ItemsAre
<1>4. \A what \in Printed : Say(n, what) \in Items  BY <1>1, SayItems
<1>5. QED  BY <1>3, <1>4, SayItems

LEMMA InteractiveReply ==
  ASSUME SessionInv, tty, NEW fate \in Fates, Fgets(fate), NEW items \in Seq(Items),
         Reply(items), pc' = pc, child' = child
  PROVE  /\ screen' = screen \o items /\ St' = "ask" /\ Interactive'
<1>1. out = <<>> /\ buf' = <<>> /\ pc' = "read" /\ child' = "none" /\ path' = path
  BY Takes
<1>2. screen' = screen \o items /\ out' = <<Prompt>>
  BY <1>1, RepliesAtOnce DEF SessionInv, Output
<1>3. St' = "ask"  BY <1>1 DEF St
<1>4. Prompt' = Prompt /\ Directories' = Directories  OBVIOUS
<1>5. Interactive'  BY <1>1, <1>2 DEF Interactive, SessionInv
<1>6. QED  BY <1>2, <1>3, <1>5

LEMMA InteractiveLeave ==
  ASSUME SessionInv, tty, NEW fate \in Fates, Fgets(fate), NEW items \in Seq(Items),
         Leave(items) \/ Fail(items), child' = child
  PROVE  /\ screen' = screen \o items /\ St' = "over" /\ Interactive'
<1>1. out = <<>> /\ buf' = <<>> /\ child' = "none" /\ path' = path
  BY Takes
<1>2. screen' = screen \o items /\ out' = <<>> /\ pc' = "over"
  BY <1>1, LeavesAtOnce DEF SessionInv, Output
<1>3. St' = "over"  BY <1>2 DEF St
<1>4. Interactive'  BY <1>1, <1>2 DEF Interactive, SessionInv
<1>5. QED  BY <1>2, <1>3, <1>4

\* Where cd goes.
LEMMA Changes ==
  ASSUME SessionInv, tty, Fgets("own"), NEW target, ChangeTo(target),
         pc' = pc, child' = child
  PROVE  /\ Terminal!MoveTo(target) /\ St' = "ask" /\ Interactive'
<1>1. Here(text) /\ Cur \in 1 .. Len(script) /\ line' = Cur
  BY Takes DEF Fates
<1>2. <<>> \in Seq(Items) /\ <<Say(line', "Command not found")>> \in Seq(Items)
  <2>1. PICK n \in 0 .. Len(script) : n = line'  BY <1>1
  <2>2. "Command not found" \in Printed  BY DEF Printed
  <2>3. QED  BY <2>1, <2>2, SayingLine DEF SessionInv
<1>3. CASE target \in Dirs
  <2>1. cwd' = target /\ Reply(<<>>)  BY <1>3 DEF ChangeTo
  <2>2. screen' = screen \o <<>> /\ St' = "ask" /\ Interactive'
    BY <1>2, <2>1, InteractiveReply DEF Fates
  <2>3. screen' = screen  BY <2>2 DEF SessionInv, Output
  <2>4. QED  BY <1>1, <1>3, <2>1, <2>2, <2>3 DEF Terminal!MoveTo, Here
<1>4. CASE target \notin Dirs
  <2>1. cwd' = cwd /\ Reply(<<Say(line', "Command not found")>>)  BY <1>4 DEF ChangeTo
  <2>2. /\ screen' = screen \o <<Say(line', "Command not found")>>
        /\ St' = "ask" /\ Interactive'
    BY <1>2, <2>1, InteractiveReply DEF Fates
  <2>3. Say(line', "Command not found") = <<"Command not found", Cur, <<>>>>
    BY <1>1 DEF Say
  <2>4. screen' = screen \o <<<<"Command not found", Cur, <<>>>>>>  BY <2>2, <2>3
  <2>5. QED
    BY <1>1, <1>4, <2>1, <2>2, <2>4 DEF Terminal!MoveTo, Terminal!Show, Here, Cur
<1>5. QED  BY <1>3, <1>4

\* A path that is put together is one name longer, or none.
LEMMA Behind ==
  ASSUME NEW d \in Dirs, NEW w
  PROVE  /\ Len(d) \in Nat
         /\ w = "" => d \o AsToken(w) = d
         /\ w # "" => d \o AsToken(w) = Append(d, w) /\ Len(d \o AsToken(w)) = Len(d) + 1
<1>1. d \in Seq(STRING)  BY ShellAssumption
<1>2. d \in Seq(STRING \cup {w}) /\ w \in STRING \cup {w}  BY <1>1
<1>3. PICK S : S = STRING \cup {w}  OBVIOUS
<1>4. d \in Seq(S) /\ w \in S  BY <1>2, <1>3
<1>5. Len(d) \in Nat /\ d \o <<>> = d /\ d \o <<w>> = Append(d, w)
      /\ Len(d \o <<w>>) = Len(d) + 1
  BY <1>4
<1>6. QED  BY <1>5 DEF AsToken

LEMMA Moving ==
  ASSUME tty = TRUE, tty' = TRUE, NEW l, Terminal!Words(l) # <<"cd">>,
         NEW to, to = Terminal!Second(l),
         \/ to = "" /\ cwd' = cwd /\ screen' = screen
         \/ to = "/" /\ Terminal!MoveTo(<<>>)
         \/ to = ".." /\ Terminal!MoveTo(CutLast)
         \/ to \notin {"", "/", ".."} /\ Terminal!MoveTo(Append(cwd, to))
  PROVE  Terminal!ChangeDir(l)
<1>1. ASSUME to # "", NEW target, Terminal!Target(to) = target, Terminal!MoveTo(target)
      PROVE  Terminal!ChangeDir(l)
  <2>1. Terminal!MoveTo(Terminal!Target(to))  BY <1>1, Zenon
  <2>2. QED  BY <1>1, <2>1, Zenon DEF Terminal!ChangeDir
<1>2. CASE to = "" /\ cwd' = cwd /\ screen' = screen
  BY <1>2 DEF Terminal!ChangeDir
<1>3. CASE to = "/" /\ Terminal!MoveTo(<<>>)
  <2>1. Terminal!Target(to) = <<>>  BY <1>3 DEF Terminal!Target
  <2>2. QED  BY <1>1, <1>3, <2>1
<1>4. CASE to = ".." /\ Terminal!MoveTo(CutLast)
  <2>1. to # "/" /\ to = ".."  BY <1>4
  <2>2. (IF tty THEN cwd ELSE <<>>) = cwd  OBVIOUS
  <2>3. /\ Terminal!Front(IF tty THEN cwd ELSE <<>>) = Front(cwd)
        /\ Len(IF tty THEN cwd ELSE <<>>) = Len(cwd)
    BY <2>2, Zenon DEF Front, Terminal!Front
  <2>5. Terminal!Target(to) = CutLast
    BY <2>1, <2>3 DEF Terminal!Target, CutLast
  <2>6. QED  BY <1>1, <1>4, <2>1, <2>5
<1>5. CASE to \notin {"", "/", ".."} /\ Terminal!MoveTo(Append(cwd, to))
  <2>1. Terminal!Target(to) = Append(cwd, to)  BY <1>5 DEF Terminal!Target
  <2>2. QED  BY <1>1, <1>5, <2>1
<1>6. QED  BY <1>2, <1>3, <1>4, <1>5

LEMMA CdStep ==
  ASSUME SessionInv, tty, \A l \in Lines : ReadAlike(l), Cd
  PROVE  Terminal!SessionNext /\ Interactive'
<1> DEFINE words == Terminal!Words(text)  second == Terminal!Second(text)
           comm == Comm(text)
<1>1. Fgets("own") /\ IsCommand /\ comm[1] = <<"cd">> /\ pc' = pc /\ child' = child
  BY DEF Cd, Builtin
<1>2. Here(text) /\ text \in Lines  BY <1>1, Takes DEF Fates
<1>3. /\ words \notin {<<>>, <<"exit">>} /\ Terminal!First(text) = "cd"
      /\ IF words = <<"cd">> THEN Len(comm) = 1
         ELSE Len(comm) > 1 /\ comm[2] = AsToken(second)
  BY <1>1, <1>2, ReadsAs DEF IsCommand
<1>4. \/ Len(comm) = 1 /\ Reply(<<>>) /\ cwd' = IF Home \in Dirs THEN Home ELSE cwd
      \/ Len(comm) > 1 /\ comm[2] = <<"/">> /\ ChangeTo(<<>>)
      \/ Len(comm) > 1 /\ comm[2] = <<"..">> /\ ChangeTo(CutLast)
      \/ /\ Len(comm) # 1 /\ ~(Len(comm) > 1 /\ comm[2] \in {<<"/">>, <<"..">>})
         /\ ChangeTo(cwd \o comm[2])
  <2>1. CASE Len(comm) = 1
    BY <2>1, Zenon DEF Cd
  <2>2. CASE Len(comm) # 1 /\ Len(comm) > 1 /\ comm[2] = <<"/">>
    <3>1. <<"/">> # <<"..">>  OBVIOUS
    <3>2. QED  BY <2>2, <3>1, Zenon DEF Cd
  <2>3. CASE Len(comm) # 1 /\ Len(comm) > 1 /\ comm[2] = <<"..">>
    <3>1. <<"/">> # <<"..">>  OBVIOUS
    <3>2. QED  BY <2>3, <3>1, Zenon DEF Cd
  <2>4. CASE Len(comm) # 1 /\ ~(Len(comm) > 1 /\ comm[2] \in {<<"/">>, <<"..">>})
    BY <2>4, Zenon DEF Cd
  <2>5. QED  BY <2>1, <2>2, <2>3, <2>4
<1>5. cwd \in Dirs /\ cwd' = cwd' /\ tty' = TRUE /\ screen \in Seq(Items)
  BY <1>2 DEF SessionInv, Output, Here
<1>6. \A w : /\ AsToken(w) = <<"/">> <=> w = "/"
             /\ AsToken(w) = <<"..">> <=> w = ".."
  BY DEF AsToken
<1> HIDE DEF words, second, comm
<1>7. CASE Len(comm) = 1 /\ Reply(<<>>) /\ cwd' = IF Home \in Dirs THEN Home ELSE cwd
  <2>1. words = <<"cd">>  BY <1>3, <1>7
  <2>2. <<>> \in Seq(Items)  OBVIOUS
  <2>3. screen' = screen \o <<>> /\ St' = "ask" /\ Interactive'
    BY <1>1, <1>7, <2>2, InteractiveReply DEF Fates
  <2>4. screen' = screen  BY <1>5, <2>3
  <2>5. Terminal!ChangeDir(text)
    BY <1>5, <1>7, <2>1, <2>4 DEF Terminal!ChangeDir, words
  <2>6. QED  BY <1>2, <1>3, <2>3, <2>5, AnswerCd DEF words
<1>8. ASSUME Len(comm) # 1, Terminal!ChangeDir(text), St' = "ask", Interactive'
      PROVE  Terminal!SessionNext /\ Interactive'
  BY <1>2, <1>3, <1>8, AnswerCd DEF words
<1>9. CASE Len(comm) > 1 /\ comm[2] = <<"/">> /\ ChangeTo(<<>>)
  <2>1. words # <<"cd">> /\ second = "/"  BY <1>3, <1>6, <1>9
  <2>2. Terminal!MoveTo(<<>>) /\ St' = "ask" /\ Interactive'
    BY <1>1, <1>9, Changes
  <2>3. Terminal!ChangeDir(text)  BY <1>5, <2>1, <2>2, Moving DEF words, second
  <2>4. QED  BY <1>8, <1>9, <2>2, <2>3
<1>10. CASE Len(comm) > 1 /\ comm[2] = <<"..">> /\ ChangeTo(CutLast)
  <2>1. words # <<"cd">> /\ second = ".."  BY <1>3, <1>6, <1>10
  <2>2. Terminal!MoveTo(CutLast) /\ St' = "ask" /\ Interactive'
    BY <1>1, <1>10, Changes
  <2>3. Terminal!ChangeDir(text)  BY <1>5, <2>1, <2>2, Moving DEF words, second
  <2>4. QED  BY <1>8, <1>10, <2>2, <2>3
<1>11. CASE /\ Len(comm) # 1 /\ ~(Len(comm) > 1 /\ comm[2] \in {<<"/">>, <<"..">>})
            /\ ChangeTo(cwd \o comm[2])
  <2>1. /\ words # <<"cd">> /\ comm[2] = AsToken(second)
        /\ second \notin {"/", ".."}
    BY <1>3, <1>6, <1>11
  <2>2. Terminal!MoveTo(cwd \o comm[2]) /\ St' = "ask" /\ Interactive'
    BY <1>1, <1>11, Changes
  <2>3. CASE second = ""
    <3>1. cwd \o comm[2] = cwd  BY <1>5, <2>1, <2>3, Behind
    <3>2. Terminal!MoveTo(cwd)  BY <2>2, <3>1, Zenon
    <3>3. cwd' = cwd /\ screen' = screen
      BY <1>2, <1>5, <3>2 DEF Terminal!MoveTo, Here
    <3>4. Terminal!ChangeDir(text)
      BY <1>2, <2>1, <2>3, <3>3, Moving DEF words, second, Here
    <3>5. QED  BY <1>8, <1>11, <2>2, <3>4
  <2>4. CASE second # ""
    <3>1. cwd \o comm[2] = Append(cwd, second)  BY <1>5, <2>1, <2>4, Behind
    <3>2. Terminal!MoveTo(Append(cwd, second))  BY <2>2, <3>1, Zenon
    <3>3. Terminal!ChangeDir(text)
      BY <1>2, <2>1, <2>4, <3>2, Moving DEF words, second, Here
    <3>4. QED  BY <1>8, <1>11, <2>2, <3>3
  <2>5. QED  BY <2>3, <2>4
<1>12. QED  BY <1>4, <1>7, <1>9, <1>10, <1>11

LEMMA CdUndefinedStep ==
  ASSUME SessionInv, tty, \A l \in Lines : ReadAlike(l), CdUndefined
  PROVE  Terminal!SessionNext /\ Interactive'
<1> DEFINE words == Terminal!Words(text)  second == Terminal!Second(text)
           comm == Comm(text)
<1>1. /\ Fgets("own") /\ IsCommand /\ comm[1] = <<"cd">> /\ child' = child
      /\ pc' = "undefined" /\ cwd' = cwd /\ out' = out /\ screen' = screen
      /\ Len(comm) > 1
  BY DEF CdUndefined, Builtin
<1>2. /\ Here(text) /\ text \in Lines /\ buf' = <<>> /\ child = "none" /\ out = <<>>
      /\ path' = path
  BY <1>1, Takes DEF Fates
<1>3. /\ words \notin {<<>>, <<"exit">>} /\ Terminal!First(text) = "cd"
      /\ IF words = <<"cd">> THEN Len(comm) = 1
         ELSE Len(comm) > 1 /\ comm[2] = AsToken(second)
  BY <1>1, <1>2, ReadsAs DEF IsCommand
<1>4. Len(cwd) > MaxDepth \/ Len(cwd \o comm[2]) > MaxDepth  BY DEF CdUndefined
<1> HIDE DEF words, second, comm
<1>5. comm[2] = AsToken(second)  BY <1>1, <1>3
<1>6. cwd \in Dirs /\ MaxDepth \in Nat  BY ShellAssumption DEF SessionInv, Output
<1>7. Len(cwd) >= MaxDepth
  <2>1. Len(cwd) \in Nat /\ Len(cwd \o comm[2]) \in {Len(cwd), Len(cwd) + 1}
    BY <1>5, <1>6, Behind
  <2>2. QED  BY <1>4, <1>6, <2>1
<1>8. St' = "undefined"  BY <1>1 DEF St
<1>9. Terminal!SessionNext
  BY <1>1, <1>2, <1>3, <1>7, <1>8, AnswerCd DEF words
<1>10. Interactive'  BY <1>1, <1>2 DEF Interactive, SessionInv
<1>11. QED  BY <1>9, <1>10

LEMMA OtherCommands ==
  ASSUME SessionInv, tty, \A l \in Lines : ReadAlike(l),
         Exit \/ Blank \/ Pwd
  PROVE  Terminal!SessionNext /\ Interactive'
<1>1. CASE Exit
  <2>1. Fgets("none") /\ Trimmed[text] = <<"exit">> /\ Leave(<<Newline>>)
        /\ child' = child /\ cwd' = cwd
    BY <1>1 DEF Exit
  <2>2. Here(text) /\ text \in Lines /\ <<Newline>> \in Seq(Items)
    BY <2>1, Takes, SayItems DEF Fates
  <2>3. screen' = screen \o <<Newline>> /\ St' = "over" /\ Interactive'
    BY <2>1, <2>2, InteractiveLeave DEF Fates
  <2>4. Terminal!Words(text) = <<"exit">>  BY <2>1, <2>2, ReadsAs
  <2>5. QED  BY <2>1, <2>2, <2>3, <2>4, AnswerExit
<1>2. CASE Blank
  <2>1. Fgets("none") /\ Trimmed[text] = <<>> /\ Reply(<<>>)
        /\ pc' = pc /\ child' = child /\ cwd' = cwd
    BY <1>2 DEF Blank
  <2>2. Here(text) /\ text \in Lines /\ <<>> \in Seq(Items)
    BY <2>1, Takes DEF Fates
  <2>3. screen' = screen \o <<>> /\ St' = "ask" /\ Interactive'
    BY <2>1, <2>2, InteractiveReply DEF Fates
  <2>4. screen' = screen  BY <2>3 DEF SessionInv, Output
  <2>5. Terminal!Words(text) = <<>>  BY <2>1, <2>2, ReadsAs
  <2>6. QED  BY <2>1, <2>2, <2>3, <2>4, <2>5, AnswerBlank
<1>3. CASE Pwd
  <2>1. Fgets("own") /\ IsCommand /\ Comm(text)[1] = <<"pwd">>
        /\ child' = child /\ cwd' = cwd
    BY <1>3 DEF Pwd, Builtin
  <2>2. Here(text) /\ text \in Lines /\ Cur \in 1 .. Len(script) /\ line' = Cur
    BY <2>1, Takes DEF Fates
  <2>3. /\ Terminal!Words(text) \notin {<<>>, <<"exit">>}
        /\ Terminal!First(text) = "pwd"
    BY <2>1, <2>2, ReadsAs DEF IsCommand
  <2>4. PICK n \in 0 .. Len(script) : n = Cur  BY <2>2
  <2>5. <<Say(Cur, "getcwd")>> \in Seq(Items) /\ <<<<"dir", Cur, cwd>>>> \in Seq(Items)
    <3>1. "getcwd" \in Printed  BY DEF Printed
    <3>2. QED  BY <2>4, <3>1, SayingLine DEF SessionInv
  <2>6. CASE Len(cwd) <= MaxDepth
    <3>1. Reply(<<<<"dir", Cur, cwd>>>>) /\ pc' = pc  BY <1>3, <2>2, <2>6 DEF Pwd
    <3>2. screen' = screen \o <<<<"dir", Cur, cwd>>>> /\ St' = "ask" /\ Interactive'
      BY <2>1, <2>5, <3>1, InteractiveReply DEF Fates
    <3>3. QED  BY <2>1, <2>2, <2>3, <2>6, <3>2, AnswerPwd
  <2>7. CASE ~(Len(cwd) <= MaxDepth)
    <3>1. Fail(<<Say(Cur, "getcwd")>>)  BY <1>3, <2>2, <2>7 DEF Pwd
    <3>2. screen' = screen \o <<Say(Cur, "getcwd")>> /\ St' = "over" /\ Interactive'
      BY <2>1, <2>5, <3>1, InteractiveLeave DEF Fates
    <3>3. QED  BY <2>1, <2>2, <2>3, <2>7, <3>2, AnswerPwd
  <2>8. QED  BY <2>6, <2>7
<1>4. QED  BY <1>1, <1>2, <1>3

LEMMA OneAndOne == \A a, b : <<a>> \o <<b>> = <<a, b>>
<1> SUFFICES ASSUME NEW S, NEW a \in S, NEW b \in S PROVE <<a>> \o <<b>> = <<a, b>>
  <2>1. \A a, b : a \in {a, b} /\ b \in {a, b}  OBVIOUS
  <2>2. QED  BY <2>1
<1>1. <<a>> \in Seq(S) /\ <<b>> \in Seq(S) /\ <<a, b>> \in Seq(S)  OBVIOUS
<1> DEFINE t == <<a>> \o <<b>>
<1>2. t \in Seq(S) /\ Len(t) = 2 /\ t[1] = a /\ t[2] = b  BY <1>1
<1> HIDE DEF t
<1>3. t = <<a, b>>  BY <1>2
<1>4. QED  BY <1>3 DEF t

\* Whether and how a program is run.
LEMMA RunsProgram ==
  ASSUME NEW w, tty = TRUE, tty' = TRUE, screen \in Seq(Items), Cur \in 0 .. Len(script),
         Input, Output, NEW n, n = Cur,
         LET verdict == Verdict(w) IN
         \/ /\ verdict = "Executing" /\ St' = "run"
            /\ screen' = screen \o <<Say(n, "Executing")>>
         \/ /\ \/ /\ verdict = "error on exec"
                  /\ screen' =
                       screen \o (<<Say(n, "Executing")>> \o <<Say(n, "error on exec")>>)
               \/ /\ verdict = "Command not found"
                  /\ screen' = screen \o <<Say(n, "Command not found")>>
               \/ screen' = screen \o <<Say(n, "Error in fork()")>>
               \/ screen' = screen
            /\ St' = "ask"
  PROVE  Terminal!Run(w)
<1> DEFINE verdict == Verdict(w)
<1>1. Outcome(Directories, IF w = "" THEN <<>> ELSE <<w>>) = verdict  BY DEF Verdict
<1>2. CASE /\ verdict = "Executing" /\ St' = "run"
           /\ screen' = screen \o <<Say(n, "Executing")>>
  BY <1>2 DEF Terminal!Run, Terminal!Show, Say, Cur, St
<1>3. CASE St' = "ask" /\ verdict = "error on exec"
           /\ screen' = screen \o (<<Say(n, "Executing")>> \o <<Say(n, "error on exec")>>)
  <2>1. screen' = screen \o <<Say(n, "Executing"), Say(n, "error on exec")>>
    BY <1>3, OneAndOne
  <2>2. QED  BY <1>3, <2>1 DEF Terminal!Run, Terminal!Show, Say, Cur, St
<1>4. CASE St' = "ask" /\ verdict = "Command not found"
           /\ screen' = screen \o <<Say(n, "Command not found")>>
  BY <1>4 DEF Terminal!Run, Terminal!Show, Say, Cur, St
<1>5. CASE St' = "ask" /\ screen' = screen \o <<Say(n, "Error in fork()")>>
  BY <1>5 DEF Terminal!Run, Terminal!Show, Say, Cur, St
<1>6. CASE St' = "ask" /\ screen' = screen
  BY <1>6 DEF Terminal!Run, Cur, St
<1>7. QED  BY <1>2, <1>3, <1>4, <1>5, <1>6

\* The same for the line in hand.
LEMMA ForkFailsStep ==
  ASSUME SessionInv, tty, \A l \in Lines : ReadAlike(l), ForkFails
  PROVE  Terminal!SessionNext /\ Interactive'
<1>1. /\ Fgets("own") /\ IsProgram /\ child' = child /\ pc' = pc /\ cwd' = cwd
      /\ Reply(<<Say(line', "Error in fork()")>>)
  BY DEF ForkFails
<1>2. /\ Here(text) /\ text \in Lines /\ Cur \in 1 .. Len(script) /\ line' = Cur
  BY <1>1, Takes DEF Fates
<1>3. ForProgram(text)
  BY <1>1, <1>2, ReadsAs DEF IsProgram, IsCommand, ForProgram
<1>4. PICK n \in 0 .. Len(script) : n = Cur  BY <1>2
<1>5. <<Say(n, "Error in fork()")>> \in Seq(Items)
  <2>1. "Error in fork()" \in Printed  BY DEF Printed
  <2>2. QED  BY <2>1, SayingLine DEF SessionInv
<1>6. /\ screen' = screen \o <<Say(n, "Error in fork()")>> /\ St' = "ask"
      /\ Interactive'
  BY <1>1, <1>2, <1>4, <1>5, InteractiveReply DEF Fates
<1>7. Terminal!Run(Terminal!First(text))
  BY <1>2, <1>4, <1>6, RunsProgram DEF SessionInv, Output, Here
<1>8. QED  BY <1>1, <1>2, <1>3, <1>6, <1>7, AnswerRun

\* A child is forked: to the user nothing has happened.
LEMMA ForkStep ==
  ASSUME SessionInv, tty, \A l \in Lines : ReadAlike(l), Fork
  PROVE  UNCHANGED Terminal!sessionVars /\ Interactive'
<1>1. /\ Fgets("forked") /\ IsProgram /\ pc' = "wait" /\ child' = "execute"
      /\ cout' = out /\ UNCHANGED <<out, screen, cwd>>
  BY DEF Fork
<1>2. /\ Here(text) /\ text \in Lines /\ Cur \in 1 .. Len(script) /\ line' = Cur
      /\ out = <<>> /\ buf' = <<>> /\ path' = path /\ script' = script
  BY <1>1, Takes DEF Fates
<1>3. NamesProgram(text)  BY <1>1 DEF IsProgram, IsCommand, NamesProgram
<1>4. St' = "answer"  BY <1>1 DEF St
<1>5. UNCHANGED Terminal!sessionVars
  BY <1>1, <1>2, <1>4, Unmoved DEF Here
<1>6. PICK l \in Lines : l = text  BY <1>2
<1>7. l = script'[line'] /\ NamesProgram(l)  BY <1>2, <1>3, <1>6, Zenon DEF Here
<1>8. NamesProgram(l)'  BY <1>7 DEF NamesProgram, Comm
<1>9. Interactive'  BY <1>1, <1>2, <1>7, <1>8 DEF Interactive, SessionInv
<1>10. QED  BY <1>5, <1>9

\* The child makes of the line in hand what Session does.
LEMMA ExecuteStep ==
  ASSUME SessionInv, tty, \A l \in Lines : ReadAlike(l), Execute
  PROVE  Terminal!SessionNext /\ Interactive'
<1>1. /\ child = "execute" /\ cout' = <<>> /\ child' \in {"exited", "running"}
      /\ UNCHANGED <<input, buf, out, line, pc, cwd>>
  BY DEF Execute, NotFound, ExecFails, Exec, Overruns, Child
<1>2. /\ pc = "wait" /\ buf = <<>> /\ out = <<>> /\ cout = <<>> /\ path = Directories
      /\ ~seekable
  BY <1>1 DEF SessionInv, Interactive, Processes, Input
<1>3. PICK l \in Lines : l = script[line] /\ NamesProgram(l)
  BY <1>1 DEF SessionInv, Interactive
<1>4. off' = off /\ path' = path
  BY <1>2 DEF Execute, NotFound, ExecFails, Exec, Overruns, SeekBack, Apart
<1>5. Here(l) /\ Cur = line /\ cwd' = cwd
  BY <1>1, <1>2, <1>3, <1>4 DEF Here, Cur, St, input, SessionInv, Input
<1>6. ForProgram(l) /\ Name = AsToken(Terminal!First(l))
  BY <1>3, ReadsAs DEF NamesProgram, ForProgram, Name
<1>7. Interactive'
  BY <1>1, <1>2, <1>4 DEF Interactive, SessionInv, input
<1>8. Outcome(path, Name) = Verdict(Terminal!First(l))
  BY <1>2, <1>6, Zenon DEF Verdict, AsToken
<1>9. screen \in Seq(Items) /\ (child' = "exited" => St' = "ask")
      /\ (child' = "running" => St' = "run")
  BY <1>1, <1>2 DEF SessionInv, Output, St
<1>10. PICK n \in 0 .. Len(script) : n = line  BY DEF SessionInv, Input
<1>11. \A s \in Seq(Items), t \in Seq(Items) : s \o <<>> \o t = s \o t  OBVIOUS
<1>12. \A what \in Printed : <<Say(n, what)>> \in Seq(Items)
  BY SayingLine DEF SessionInv
<1>13. Terminal!Run(Terminal!First(l))
  <2>1. CASE NotFound
    <3>1. screen' = screen \o <<Say(n, "Command not found")>>
      BY <1>2, <1>9, <1>10, <1>11, <1>12, <2>1 DEF NotFound, Flush, Printed
    <3>2. Verdict(Terminal!First(l)) = "Command not found" /\ St' = "ask"
      BY <1>8, <1>9, <2>1 DEF NotFound, Child
    <3>3. QED  BY <1>5, <1>9, <1>10, <3>1, <3>2, RunsProgram DEF SessionInv, Here
  <2>2. CASE ExecFails
    <3> DEFINE both == <<Say(n, "Executing")>> \o <<Say(n, "error on exec")>>
    <3>1. both \in Seq(Items)
      <4>1. "Executing" \in Printed /\ "error on exec" \in Printed  BY DEF Printed
      <4>2. QED  BY <1>12, <4>1, ConcatItems
    <3>2. screen' = screen \o <<>> \o both
      BY <1>2, <1>10, <2>2 DEF ExecFails, Flush
    <3>3. screen' = screen \o both  BY <1>9, <1>11, <3>1, <3>2
    <3>4. Verdict(Terminal!First(l)) = "error on exec" /\ St' = "ask"
      BY <1>8, <1>9, <2>2 DEF ExecFails, Child
    <3>5. QED  BY <1>5, <1>9, <1>10, <3>3, <3>4, RunsProgram DEF SessionInv, Here
  <2>3. CASE Exec
    <3>1. screen' = screen \o <<Say(n, "Executing")>>
      BY <1>2, <1>9, <1>10, <1>11, <1>12, <2>3 DEF Exec, Printed
    <3>2. Verdict(Terminal!First(l)) = "Executing" /\ St' = "run"
      BY <1>8, <1>9, <2>3 DEF Exec, Child
    <3>3. QED  BY <1>5, <1>9, <1>10, <3>1, <3>2, RunsProgram DEF SessionInv, Here
  <2>4. CASE Overruns
    <3>1. screen' = screen /\ St' = "ask"  BY <1>9, <2>4 DEF Overruns, Child
    <3>2. QED  BY <1>5, <1>9, <1>10, <3>1, RunsProgram DEF SessionInv, Here
  <2>5. QED  BY <2>1, <2>2, <2>3, <2>4 DEF Execute
<1>14. QED  BY <1>5, <1>6, <1>7, <1>13, AnswerRun

\* Prompts, the end of the input, and programs.
LEMMA OtherSteps ==
  ASSUME SessionInv, tty,
         Fill \/ EndOfInput \/ Wait \/ ProgramReads \/ ProgramEnds \/ UNCHANGED shellVars
  PROVE  [Terminal!SessionNext]_(Terminal!sessionVars) /\ Interactive'
<1>0. tty = TRUE /\ screen \in Seq(Items) /\ <<Prompt>> \in Seq(Items)
      /\ <<Newline>> \in Seq(Items)
  BY SayItems DEF SessionInv, Input, Output
<1>1. CASE Fill
  <2>1. /\ pc = "read" /\ buf = <<>> /\ off < Len(script) /\ child = "none"
        /\ out = <<Prompt>> /\ screen' = screen \o <<Prompt>> /\ out' = <<>>
        /\ UNCHANGED <<pc, child, path, tty, script, cwd, line>>
    BY <1>1 DEF Fill, SessionInv, Interactive, Processes, input
  <2>2. off' = off + 1 /\ buf' = <<off + 1>>
    <3>1. PICK n \in {1} : off' = off + n /\ buf' = [k \in 1 .. n |-> off + k]
      BY <1>1, <1>0 DEF Fill
    <3>2. n = 1  BY <3>1
    <3>3. [k \in 1 .. 1 |-> off + k] = <<off + 1>>  OBVIOUS
    <3>4. QED  BY <3>1, <3>2, <3>3
  <2>3. buf' # <<>> /\ Len(buf') = 1 /\ Head(buf') = off + 1  BY <2>2
  <2>4. St = "ask" /\ St' = "answer" /\ Cur' = off + 1
    BY <2>1, <2>3 DEF St, Cur
  <2>5. Terminal!SessionNext  BY <1>0, <2>1, <2>2, <2>4, Asks
  <2>6. Interactive'  BY <2>1, <2>3 DEF Interactive, SessionInv
  <2>7. QED  BY <2>5, <2>6
<1>2. CASE EndOfInput
  <2>1. /\ pc = "read" /\ buf = <<>> /\ off = Len(script) /\ child = "none"
        /\ out = <<Prompt>> /\ screen' = screen \o <<Prompt>> \o <<Newline>>
        /\ out' = <<>> /\ pc' = "over"
        /\ UNCHANGED <<off, buf, child, path, tty, script, cwd, line>>
    BY <1>2 DEF EndOfInput, Leave, SessionInv, Interactive, Processes, input
  <2>2. screen' = screen \o <<Prompt, Newline>>
    <3>1. \A s \in Seq(Items), t \in Seq(Items), u \in Seq(Items) :
            s \o t \o u = s \o (t \o u)
      OBVIOUS
    <3>2. screen' = screen \o (<<Prompt>> \o <<Newline>>)  BY <1>0, <2>1, <3>1
    <3>3. QED  BY <3>2, OneAndOne
  <2>3. St = "ask" /\ St' = "over" /\ Cur' = Cur  BY <2>1 DEF St, Cur
  <2>4. ~(off < Len(script))  BY <2>1 DEF SessionInv, Input
  <2>5. Terminal!SessionNext  BY <1>0, <2>1, <2>2, <2>3, <2>4, Asks
  <2>6. Interactive'  BY <2>1 DEF Interactive, SessionInv
  <2>7. QED  BY <2>5, <2>6
<1>3. CASE Wait
  <2>1. /\ pc = "wait" /\ pc' = "read" /\ child = "exited" /\ child' = "none"
        /\ buf = <<>> /\ out = <<>> /\ Reply(<<>>)
        /\ UNCHANGED <<off, buf, path, tty, script, cwd, line>>
    BY <1>3 DEF Wait, Reap, SessionInv, Interactive, input
  <2>2. screen' = screen \o <<>> /\ out' = <<Prompt>>
    <3>1. <<>> \in Seq(Items)  OBVIOUS
    <3>2. QED  BY <1>0, <2>1, <3>1, RepliesAtOnce
  <2>3. screen' = screen  BY <1>0, <2>2
  <2>4. St' = St /\ Cur' = Cur  BY <2>1 DEF St, Cur
  <2>5. UNCHANGED Terminal!sessionVars  BY <1>0, <2>1, <2>3, <2>4, Unmoved
  <2>6. Interactive'  BY <2>1, <2>2 DEF Interactive, SessionInv
  <2>7. QED  BY <2>5, <2>6
<1>4. CASE ProgramReads \/ ProgramEnds
  <2>1. /\ child = "running" /\ pc = "wait" /\ buf = <<>> /\ out = <<>>
        /\ UNCHANGED <<buf, out, pc, path, tty, script, cwd, line>>
        /\ \/ /\ off < Len(script) /\ off' = off + 1 /\ screen' = screen
              /\ child' = child
           \/ /\ screen' = Append(screen, Say(line, "output")) /\ off' = off
              /\ child' = "exited"
    BY <1>4 DEF ProgramReads, ProgramEnds, SessionInv, Interactive, Processes, input
  <2>2. Append(screen, Say(line, "output")) = screen \o <<Say(line, "output")>>
    <3>1. \A s \in Seq(Items), i \in Items : Append(s, i) = s \o <<i>>  OBVIOUS
    <3>2. PICK n \in 0 .. MaxLines : n = line
      BY ShellAssumption DEF SessionInv, Input
    <3>3. "output" \in Printed  BY DEF Printed
    <3>4. Say(n, "output") \in Items  BY <3>2, <3>3, SayItems
    <3>5. QED  BY <1>0, <3>1, <3>2, <3>4
  <2>3. /\ St = "run" /\ Cur = line /\ Cur' = Cur
        /\ child' = child => St' = St
        /\ child' = "exited" => St' = "ask"
    BY <2>1 DEF St, Cur
  <2>4. Terminal!SessionNext  BY <1>0, <2>1, <2>2, <2>3, Runs
  <2>5. Interactive'  BY <2>1 DEF Interactive, SessionInv
  <2>6. QED  BY <2>4, <2>5
<1>5. CASE UNCHANGED shellVars
  <2>1. UNCHANGED <<pc, child, buf, out, cout, path, tty, script, cwd, line, off, screen>>
    BY <1>5 DEF shellVars, stdio, input
  <2>2. St' = St /\ Cur' = Cur  BY <2>1 DEF St, Cur
  <2>3. UNCHANGED Terminal!sessionVars  BY <1>0, <2>1, <2>2, Unmoved
  <2>4. Interactive'
    <3>1. CASE child = "execute"
      <4>1. PICK l \in Lines : l = script[line] /\ NamesProgram(l)
        BY <3>1 DEF SessionInv, Interactive
      <4>2. NamesProgram(l)'  BY <4>1 DEF NamesProgram, Comm
      <4>3. QED  BY <2>1, <4>1, <4>2 DEF Interactive, SessionInv
    <3>2. CASE child # "execute"
      BY <2>1, <3>2 DEF Interactive, SessionInv
    <3>3. QED  BY <3>1, <3>2
  <2>5. QED  BY <2>3, <2>4
<1>6. QED  BY <1>1, <1>2, <1>3, <1>4, <1>5

-----------------------------------------------------------------------------
LEMMA SessionStep ==
  ASSUME \A l \in Lines : ReadAlike(l), SessionInv, [Next]_shellVars
  PROVE  [Terminal!SessionNext]_(Terminal!sessionVars) /\ Interactive'
<1>1. tty' = tty /\ tty \in BOOLEAN
  <2>1. Input /\ tty' = tty
    BY DEF SessionInv, Next, Parent, Execute, Fill, EndOfInput, Exit, Blank, Cd,
       CdUndefined, Pwd, ForkFails, Fork, Wait, Builtin, Fgets, NotFound, ExecFails, Exec,
       Overruns, Child, ProgramReads, ProgramEnds, shellVars, input
  <2>2. QED  BY <2>1 DEF Input
<1>2. CASE tty = FALSE
  <2>1. UNCHANGED Terminal!sessionVars  BY <1>1, <1>2, NoTerminal
  <2>2. QED  BY <1>1, <1>2, <2>1 DEF Interactive
<1>3. CASE tty = TRUE
  BY <1>3, CdStep, CdUndefinedStep, OtherCommands, ForkFailsStep, ForkStep, ExecuteStep,
     OtherSteps DEF Next, Parent
<1>4. QED  BY <1>1, <1>2, <1>3

\* On a terminal mysh does what Session promises, provided that both read each
\* line alike: one prompt and one answer per line, programs run to their end
\* before the next prompt, and a directory that only cd moves.
THEOREM MyshIsASession ==
  (\A l \in Lines : ReadAlike(l)) => (Spec => ImplementsSession)
<1> SUFFICES ASSUME \A l \in Lines : ReadAlike(l) PROVE Spec => ImplementsSession
  OBVIOUS
<1>1. ShellInit => Terminal!SessionInit /\ Interactive
  <2> SUFFICES ASSUME ShellInit PROVE Terminal!SessionInit /\ Interactive
    OBVIOUS
  <2>1. /\ off = 0 /\ buf = <<>> /\ line = 0 /\ pc = "read" /\ child = "none"
        /\ out = <<Prompt>> /\ screen = <<>> /\ cwd \in Dirs /\ path = Directories
        /\ <<>> \in Dirs
    BY ShellAssumption DEF ShellInit
  <2>2. Interactive  BY <2>1 DEF Interactive
  <2>3. Terminal!SessionInit  BY <2>1 DEF Terminal!SessionInit
  <2>4. QED  BY <2>2, <2>3
<1>2. ShellInv /\ Interactive /\ [Next]_shellVars
        => [Terminal!SessionNext]_(Terminal!sessionVars) /\ Interactive'
  BY SessionStep DEF ShellInv, SessionInv
<1>3. QED
  BY <1>1, <1>2, ShellInvariant, PTL DEF Spec, ImplementsSession, Terminal!SessionSpec
=============================================================================
