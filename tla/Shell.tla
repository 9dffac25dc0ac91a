------------------------------- MODULE Shell --------------------------------
(***************************************************************************)
(* labs/week08/mysh.c: a shell of two processes, the command loop and the  *)
(* child it forks for a program.                                           *)
(*                                                                         *)
(* A line is a sequence of words and blanks; off counts the lines the      *)
(* kernel has handed out of standard input and buf holds the ones stdio    *)
(* has read ahead.  What printf wrote waits in out until it is flushed.    *)
(* tty says that both ends are a terminal, where input comes line by line  *)
(* and output leaves with it; seekable that standard input is a file, in   *)
(* which exit(3) moves the offset, shared with the parent, back over what  *)
(* the process has not consumed (all lines are taken to be equally long).  *)
(***************************************************************************)
EXTENDS Naturals, FiniteSets, Sequences, SequencesExt

CONSTANTS
  Lines,       \* lines that may be typed
  MaxLines,    \* bound: lines in the input
  MaxCarried,  \* bound: lines carried out when the input is read again
  Dirs, Home,  \* directories, as sequences of names, and $HOME
  MaxDepth,    \* names in a path that fits the 255 bytes of pwd
  PathVar,     \* $PATH, or DEFAULT_PATH: directories separated by ":"
  Rooted,      \* the words that begin with / or .
  Files        \* path -> what stat and execve find there

ASSUME ShellAssumption ==
  /\ MaxLines \in Nat /\ MaxCarried \in Nat /\ MaxDepth \in Nat
  /\ <<>> \in Dirs /\ Dirs \subseteq Seq(STRING)
  /\ \A l \in Lines : l # <<>> /\ Last(l) = "\n"

VARIABLES
  tty, seekable, script,
  off, buf,
  line,     \* number of the line being carried out
  log,      \* the lines carried out so far: number, and what became of it
  pc,       \* the parent: "read", "wait", "over", or "undefined"
  child,    \* "none", "execute", "running" or "exited"
  out, cout,  \* printed and not flushed, by parent and child
  screen,   \* what has been written, by anybody
  cwd,
  path,     \* the parent's tokens of PATH
  lists     \* token lists the parent has in memory

input == <<tty, seekable, script>>
stdio == <<off, buf, out, screen>>
shellVars == <<input, stdio, line, log, pc, child, cout, cwd, path, lists>>

-----------------------------------------------------------------------------
\* strsep splits at every separator: two of them enclose an empty token.
Tokenise(str, sep) ==
  FoldLeft(LAMBDA toks, c : IF c = sep THEN Append(toks, <<>>)
                            ELSE Append(Front(toks), Append(Last(toks), c)),
           <<<<>>>>, str)

Space == {" ", "\n"}

\* The index of the last character that is no space, or 0.
Strrspn(str) == Max({0} \cup {i \in 1 .. Len(str) - 1 : str[i + 1] \notin Space})

\* trim cuts line_ itself; what it returns is behind the leading spaces.
CutLine(str) == SubSeq(str, 1, Strrspn(str) + 1)
Trim(str) ==
  LET cut == CutLine(str)
  IN SubSeq(cut, 1 + Max({k \in 0 .. Len(cut) : \A i \in 1 .. k : cut[i] \in Space}),
            Len(cut))

\* What main makes of each line: line, and comm, which it splits from line_.
Tokens == [l \in Lines |-> Tokenise(CutLine(l), " ")]
Comm(l) == Tokens[l]
Trimmed == [l \in Lines |-> Trim(l)]

\* isExecutable, and what the kernel lets this process execute.
IsExecutable(file) ==
  /\ file \in DOMAIN Files
  /\ LET s == Files[file] IN
     /\ s.reg
     /\ (s.mine /\ s.xusr) \/ (s.group /\ s.xgrp) \/ s.xoth

Executes(file) ==
  LET s == Files[file] IN
  s.image /\ IF s.mine THEN s.xusr ELSE IF s.group THEN s.xgrp ELSE s.xoth

-----------------------------------------------------------------------------
Prompt == <<"mysh$ ", 0, <<>>>>
Newline == <<"\n", 0, <<>>>>
Say(n, what) == <<what, n, <<>>>>

Directories == Tokenise(PathVar, ":")

ShellInit ==
  /\ tty \in BOOLEAN /\ seekable \in {b \in BOOLEAN : b => ~tty}
  /\ script \in BoundedSeq(Lines, MaxLines)
  /\ off = 0 /\ buf = <<>> /\ line = 0 /\ log = <<>>
  /\ pc = "read" /\ child = "none"
  /\ out = <<Prompt>> /\ cout = <<>> /\ screen = <<>>
  /\ cwd \in Dirs
  /\ path = Directories /\ lists = 1

\* The answer of a command and the next prompt.  On a terminal the newline
\* that ends an answer takes with it what waited before.
Reply(items) ==
  IF tty /\ items # <<>> THEN screen' = screen \o out \o items /\ out' = <<Prompt>>
  ELSE out' = out \o items \o <<Prompt>> /\ UNCHANGED screen

\* exit or return of the parent.
Leave(items) ==
  /\ screen' = screen \o out \o items /\ out' = <<>> /\ pc' = "over"

\* perror writes at once, and the return after it flushes what waited.
Fail(items) ==
  /\ screen' = screen \o items \o out /\ out' = <<>> /\ pc' = "over"

\* fgets with nothing read ahead: a terminal gives one line, after stdout was
\* flushed, a pipe what there is, a file all of it (it is shorter than BUFSIZ).
Fill ==
  /\ pc = "read" /\ buf = <<>> /\ off < Len(script)
  /\ \E n \in IF tty THEN {1} ELSE IF seekable THEN {Len(script) - off}
              ELSE 1 .. Len(script) - off :
       off' = off + n /\ buf' = [k \in 1 .. n |-> off + k]
  /\ IF tty THEN screen' = screen \o out /\ out' = <<>> ELSE UNCHANGED <<screen, out>>
  /\ UNCHANGED <<input, line, log, pc, child, cout, cwd, path, lists>>

\* Mutant: the token list is kept when a child has ended.
FreeUnlessWaited == lists' = IF pc = "wait" THEN lists ELSE lists - 1

FreeTokens == lists' = lists - 1

\* Mutant: the result of fgets is not looked at.
EndIgnored ==
  pc = "read" /\ buf = <<>> /\ off = Len(script) /\ UNCHANGED shellVars

EndOfInput ==
  /\ pc = "read" /\ buf = <<>> /\ off = Len(script)
  /\ Leave(<<Newline>>) /\ FreeTokens
  /\ UNCHANGED <<input, off, buf, line, log, child, cout, cwd, path>>

\* fgets gives the next line; text is what line_ holds.
Fgets(fate) ==
  /\ pc = "read" /\ buf # <<>> /\ Len(log) < MaxCarried
  /\ line' = Head(buf) /\ buf' = Tail(buf)
  /\ log' = Append(log, [n |-> Head(buf), fate |-> fate])
  /\ UNCHANGED <<input, off, path>>

text == script[Head(buf)]
IsCommand == Trimmed[text] \notin {<<>>, <<"exit">>}

Exit ==
  /\ Fgets("none") /\ Trimmed[text] = <<"exit">>
  /\ Leave(<<Newline>>) /\ FreeTokens
  /\ UNCHANGED <<child, cout, cwd>>

Blank ==
  /\ Fgets("none") /\ Trimmed[text] = <<>>
  /\ Reply(<<>>)
  /\ UNCHANGED <<pc, child, cout, cwd, lists>>

\* The shell's own commands leave their token list behind.
Builtin(name) ==
  /\ Fgets("own") /\ IsCommand /\ Comm(text)[1] = <<name>>
  /\ lists' = lists + 1
  /\ UNCHANGED <<child, cout>>

\* chdir to a path that was put together.
ChangeTo(target) ==
  IF target \in Dirs THEN cwd' = target /\ Reply(<<>>)
  ELSE Reply(<<Say(line', "Command not found")>>) /\ UNCHANGED cwd

\* "..": the last / and what follows is cut off; of /a nothing remains.
CutLast == IF Len(cwd) >= 2 THEN Front(cwd) ELSE <<"">>

Cd ==
  /\ Builtin("cd") /\ UNCHANGED pc
  /\ LET comm == Comm(text) IN
     CASE Len(comm) = 1 -> Reply(<<>>) /\ cwd' = IF Home \in Dirs THEN Home ELSE cwd
       [] Len(comm) > 1 /\ comm[2] = <<"/">>  -> ChangeTo(<<>>)
       [] Len(comm) > 1 /\ comm[2] = <<"..">> -> Len(cwd) <= MaxDepth /\ ChangeTo(CutLast)
       [] OTHER -> Len(cwd \o comm[2]) <= MaxDepth /\ ChangeTo(cwd \o comm[2])

\* getcwd failed and pwd was never set, or the name does not fit behind it:
\* nothing is claimed any more.
CdUndefined ==
  /\ Builtin("cd")
  /\ LET comm == Comm(text) IN
     /\ Len(comm) > 1 /\ comm[2] # <<"/">>
     /\ Len(IF comm[2] = <<"..">> THEN cwd ELSE cwd \o comm[2]) > MaxDepth
  /\ pc' = "undefined" /\ UNCHANGED <<cwd, out, screen>>

Pwd ==
  /\ Builtin("pwd") /\ UNCHANGED cwd
  /\ IF Len(cwd) <= MaxDepth THEN Reply(<<<<"dir", line', cwd>>>>) /\ UNCHANGED pc
     ELSE Fail(<<Say(line', "getcwd")>>)

IsProgram == IsCommand /\ Comm(text)[1] \notin {<<"cd">>, <<"pwd">>}

ForkFails ==
  /\ Fgets("own") /\ IsProgram
  /\ Reply(<<Say(line', "Error in fork()")>>) /\ lists' = lists + 1
  /\ UNCHANGED <<pc, child, cout, cwd>>

\* The child gets a copy of everything, output that waits included.
Fork ==
  /\ Fgets("forked") /\ IsProgram
  /\ pc' = "wait" /\ child' = "execute" /\ cout' = out /\ lists' = lists + 1
  /\ UNCHANGED <<out, screen, cwd>>

\* Mutant: the parent does not wait.
ReapNot == child' = child

Reap == child = "exited" /\ child' = "none"

Wait ==
  /\ pc = "wait" /\ Reap
  /\ pc' = "read" /\ Reply(<<>>) /\ FreeTokens
  /\ UNCHANGED <<input, off, buf, line, log, cout, cwd, path>>

-----------------------------------------------------------------------------
\* The files execute looks at, in order; the one found last is taken.
IsRooted(name) == name \in {<<w>> : w \in Rooted}
Tried(dirs, name) ==
  IF IsRooted(name) THEN <<name>> ELSE [i \in DOMAIN dirs |-> dirs[i] \o <<"/">> \o name]

Outcome(dirs, name) ==
  LET tried == Tried(dirs, name)
      found == {i \in DOMAIN tried : IsExecutable(tried[i])}
  IN IF found = {} THEN "Command not found"
     ELSE IF Executes(tried[Max(found)]) THEN "Executing" ELSE "error on exec"

Name == Comm(script[line])[1]

Child(fate, next) ==
  /\ child = "execute"
  /\ child' = next /\ cout' = <<>>
  /\ log' = [log EXCEPT ![Len(log)].fate = fate]
  /\ UNCHANGED <<input, buf, out, line, pc, cwd, lists>>

\* Mutant: the offset moves back in a pipe as well.
SeekBackAlways == off' = IF Len(buf) <= off THEN off - Len(buf) ELSE off

\* exit moves the offset back over what this process has read ahead.
SeekBack == off' = IF seekable /\ Len(buf) <= off THEN off - Len(buf) ELSE off

\* Mutant: the child leaves by _exit.
FlushNot(items) == UNCHANGED screen

\* exit flushes the child's copy of what the parent had printed.
Flush(items) == screen' = screen \o cout \o items

NotFound ==
  /\ Child("exited", "exited") /\ Outcome(path, Name) = "Command not found"
  /\ Flush(<<Say(line, "Command not found")>>)
  /\ SeekBack /\ UNCHANGED path

\* perror writes at once, before what a pipe keeps waiting.
ExecFails ==
  /\ Child("exited", "exited") /\ Outcome(path, Name) = "error on exec"
  /\ LET said == <<Say(line, "Executing")>>  error == <<Say(line, "error on exec")>>
     IN IF tty THEN Flush(said \o error)
        ELSE screen' = screen \o error \o cout \o said
  /\ SeekBack /\ UNCHANGED path

\* Mutant: the child works in the parent's memory.
Spoilt == path' = IF IsRooted(Name) THEN path ELSE Tried(path, Name)

\* What strcat puts behind the entries of path is in the child alone.
Apart == UNCHANGED path

\* The program takes the place of the child; what waited is lost.
Exec ==
  /\ Child("ran", "running") /\ Outcome(path, Name) = "Executing"
  /\ screen' = IF tty THEN screen \o cout \o <<Say(line, "Executing")>> ELSE screen
  /\ Apart /\ UNCHANGED off

\* strcat writes behind the entries of path: the child may not survive it.
Overruns ==
  /\ Child("died", "exited")
  /\ ~IsRooted(Name)
  /\ UNCHANGED <<off, screen, path>>

\* The program, of which nothing is known: it reads lines, prints, and ends.
ProgramReads ==
  /\ child = "running" /\ off < Len(script) /\ off' = off + 1
  /\ UNCHANGED <<input, buf, out, screen, line, log, pc, child, cout, cwd, path, lists>>

ProgramEnds ==
  /\ child = "running" /\ child' = "exited"
  /\ screen' = Append(screen, Say(line, "output"))
  /\ UNCHANGED <<input, off, buf, out, line, log, pc, cout, cwd, path, lists>>

Parent ==
  \/ Fill \/ EndOfInput \/ Exit \/ Blank \/ Cd \/ CdUndefined \/ Pwd
  \/ ForkFails \/ Fork \/ Wait
Execute == NotFound \/ ExecFails \/ Exec \/ Overruns
Next == Parent \/ Execute \/ ProgramReads \/ ProgramEnds

Spec == ShellInit /\ [][Next]_shellVars /\ WF_shellVars(Parent) /\ WF_shellVars(Execute)
-----------------------------------------------------------------------------
\* What is printed: words, the line they answer and a directory.
Printed == {"mysh$ ", "\n", "dir", "getcwd", "Command not found", "Error in fork()",
            "Executing", "error on exec", "output"}
Item(i) == Len(i) = 3 /\ i[1] \in Printed /\ i[2] \in 0 .. MaxLines /\ i[3] \in Dirs

\* The variables of both processes; a child is there only while the parent
\* waits for it.
ShellTypeOK ==
  /\ off \in 0 .. Len(script) /\ line \in 0 .. Len(script)
  /\ \A k \in DOMAIN buf : buf[k] \in 1 .. Len(script)
  /\ \A i \in ToSet(screen \o out \o cout) : Item(i)
  /\ cwd \in Dirs
  /\ (child # "none") = (pc = "wait")

Ended(k) == log[k].fate = "exited"
OnlyOnce == \A j, k \in DOMAIN log : j < k => log[j].n < log[k].n

\* Lines 48-52: the main loop reads each line once and in order, also when
\* children share its input, unless that is a file and a child has left by
\* exit: then, and only then, lines may be carried out again.
RereadOnlyAfterExit ==
  OnlyOnce \/ (seekable /\ \E k \in DOMAIN log : Ended(k))

\* Of the token lists only that of a forked command is released: the shell
\* grows by one for each of its own commands and each fork that failed.
ListsHeld ==
  pc \in {"read", "wait"} =>
    lists = 1 + (IF pc = "wait" THEN 1 ELSE 0)
              + Cardinality({k \in DOMAIN log : log[k].fate = "own"})

\* No answer is lost or shown too often: at the end an answer of the parent
\* is on a terminal once, and in a pipe once more for every later child that
\* left by exit with a copy of it.
AnswersShown ==
  pc = "over" /\ OnlyOnce =>
    \A k \in DOMAIN log : log[k].fate = "own" =>
      LET shown == Cardinality({i \in DOMAIN screen : screen[i][2] = log[k].n})
          copies == Cardinality({j \in k + 1 .. Len(log) : ~tty /\ Ended(j)})
      IN shown = 1 + copies \/ (shown = 0 /\ Comm(script[log[k].n])[1] = <<"cd">>)

\* On a terminal mysh is what Session promises; without one it may stutter.
Verdict(word) == Outcome(Directories, IF word = "" THEN <<>> ELSE <<word>>)

Terminal == INSTANCE Session WITH
  Verdict <- Verdict,
  script  <- IF tty THEN script ELSE <<>>,
  taken   <- IF tty THEN off ELSE 0,
  current <- IF ~tty THEN 0 ELSE IF buf # <<>> THEN Head(buf) ELSE line,
  dir     <- IF tty THEN cwd ELSE <<>>,
  shown   <- IF tty THEN screen ELSE <<>>,
  state   <- IF ~tty THEN "ask"
             ELSE IF pc \in {"over", "undefined"} THEN pc
             ELSE IF child = "running" THEN "run"
             ELSE IF child = "execute" \/ buf # <<>> THEN "answer" ELSE "ask"

ImplementsSession == Terminal!SessionSpec

\* Both read a line alike if it has a blank between any two words: mysh, which
\* cuts it into tokens, and Session, which only looks where the words are.
Spaced(l) ==
  \A k \in 1 .. Len(l) - 1 : Terminal!Blank(l[k]) \/ Terminal!Blank(l[k + 1])
AsToken(word) == IF word = "" THEN <<>> ELSE <<word>>
ReadAlike(l) ==
  LET comm == Tokenise(CutLine(l), " ")  words == Terminal!Words(l)
  IN /\ Trim(l) = <<>> <=> words = <<>>
     /\ Trim(l) = <<"exit">> <=> words = <<"exit">>
     /\ words # <<>> => comm[1] = AsToken(Terminal!First(l))
     /\ comm[1] = <<"cd">> =>
          IF words = <<"cd">> THEN Len(comm) = 1
          ELSE Len(comm) > 1 /\ comm[2] = AsToken(Terminal!Second(l))

\* Unless a program never ends, the shell gets to the end of its input, if
\* that is not a file.
ShellFinishes ==
  seekable \/ <>(pc \in {"over", "undefined"}) \/ <>[](child = "running")
=============================================================================
