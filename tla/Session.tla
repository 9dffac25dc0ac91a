------------------------------ MODULE Session -------------------------------
(***************************************************************************)
(* What mysh promises to somebody who sits at a terminal: a prompt before  *)
(* each line, one answer to it, programs run to their end before the next  *)
(* prompt, and a working directory that cd moves.  There are no processes, *)
(* buffers or lists here.                                                  *)
(***************************************************************************)
EXTENDS Naturals, Sequences, SequencesExt

CONSTANTS
  Dirs,      \* the directories there are: sequences of names from / down
  Home,      \* $HOME
  MaxDepth,  \* names in a path that fits the 255 bytes of pwd
  Verdict(_) \* whether a program can be run, in the words of the shell

VARIABLES
  script,    \* the lines that are typed
  taken,     \* how many have been typed
  current,   \* number of the line to answer or last answered
  dir,       \* the working directory
  shown,     \* what is on the screen
  state      \* "ask", "answer", "run", "over", or "undefined"

sessionVars == <<script, taken, current, dir, shown, state>>

Blank(c) == c \in {" ", "\n"}

\* The words of a line, the word it begins with, and the word one blank behind.
Words(l) == SelectSeq(l, LAMBDA c : ~Blank(c))
First(l) == IF Blank(l[1]) THEN "" ELSE l[1]
Second(l) == IF Len(l) >= 3 /\ l[2] = " " /\ ~Blank(l[3]) THEN l[3] ELSE ""

SessionInit ==
  /\ taken = 0 /\ current = 0 /\ dir \in Dirs /\ shown = <<>> /\ state = "ask"

Show(items) == shown' = shown \o items

Ask ==
  /\ state = "ask"
  /\ IF taken < Len(script)
     THEN /\ Show(<<<<"mysh$ ", 0, <<>>>>>>)
          /\ taken' = taken + 1 /\ current' = taken + 1 /\ state' = "answer"
     ELSE /\ Show(<<<<"mysh$ ", 0, <<>>>>, <<"\n", 0, <<>>>>>>)
          /\ state' = "over" /\ UNCHANGED <<taken, current>>
  /\ UNCHANGED dir

\* cd leaves the directory alone and says so when there is nothing to go to;
\* the parent of a directory below the root is not found either.
MoveTo(target) ==
  IF target \in Dirs THEN dir' = target /\ UNCHANGED shown
  ELSE Show(<<<<"Command not found", current, <<>>>>>>) /\ UNCHANGED dir

Target(name) ==
  IF name = "/" THEN <<>>
  ELSE IF name # ".." THEN Append(dir, name)
  ELSE IF Len(dir) >= 2 THEN Front(dir) ELSE <<"">>

ChangeDir(l) ==
  IF Words(l) = <<"cd">>
  THEN UNCHANGED shown /\ dir' = IF Home \in Dirs THEN Home ELSE dir
  ELSE IF Second(l) = "" THEN UNCHANGED <<dir, shown>>
  ELSE MoveTo(Target(Second(l)))

\* A program that runs says so first.  Whatever prevents it, the session goes
\* on, with a word about it or, if the child dies, without.
Run(program) ==
  \/ /\ Verdict(program) = "Executing"
     /\ Show(<<<<"Executing", current, <<>>>>>>) /\ state' = "run"
  \/ /\ \/ /\ Verdict(program) = "error on exec"
           /\ Show(<<<<"Executing", current, <<>>>>,
                     <<"error on exec", current, <<>>>>>>)
        \/ \E w \in {Verdict(program), "Error in fork()"} \ {"Executing", "error on exec"} :
             Show(<<<<w, current, <<>>>>>>)
        \/ UNCHANGED shown
     /\ state' = "ask"

Tell ==
  /\ UNCHANGED dir
  /\ IF Len(dir) <= MaxDepth
     THEN Show(<<<<"dir", current, dir>>>>) /\ state' = "ask"
     ELSE Show(<<<<"getcwd", current, <<>>>>>>) /\ state' = "over"

\* A name too long for the buffers of cd: nothing is promised.
Move(l) ==
  \/ ChangeDir(l) /\ state' = "ask"
  \/ Len(dir) >= MaxDepth /\ state' = "undefined" /\ UNCHANGED <<dir, shown>>

Answer ==
  /\ state = "answer" /\ UNCHANGED <<taken, current>>
  /\ LET l == script[current] IN
     \/ Words(l) = <<>> /\ state' = "ask" /\ UNCHANGED <<dir, shown>>
     \/ Words(l) = <<"exit">> /\ state' = "over" /\ UNCHANGED dir
        /\ Show(<<<<"\n", 0, <<>>>>>>)
     \/ /\ Words(l) \notin {<<>>, <<"exit">>}
        /\ \/ First(l) = "pwd" /\ Tell
           \/ First(l) = "cd" /\ Move(l)
           \/ First(l) \notin {"pwd", "cd"} /\ Run(First(l)) /\ UNCHANGED dir

\* A program may read lines meant for it, print, and end.
Running ==
  /\ state = "run"
  /\ \/ /\ taken < Len(script) /\ taken' = taken + 1 /\ UNCHANGED <<shown, state>>
     \/ /\ Show(<<<<"output", current, <<>>>>>>) /\ state' = "ask" /\ UNCHANGED taken
  /\ UNCHANGED <<current, dir>>

SessionNext == (Ask \/ Answer \/ Running) /\ UNCHANGED script
SessionSpec == SessionInit /\ [][SessionNext]_sessionVars
=============================================================================
