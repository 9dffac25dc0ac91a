------------------------------ MODULE MCShell -------------------------------
(***************************************************************************)
(* Small instances of Shell for TLC.                                       *)
(***************************************************************************)
EXTENDS Shell

\* Two directories below the root, one in the other, and one too deep for
\* pwd to name.
MCDirs == {<<>>, <<"a">>, <<"a", "b">>, <<"a", "b", "c">>}
MCHome == <<"a">>
MCPath == <<"/bin", ":", "/usr/bin">>
MCRooted == {"/x", ".."}

\* prog is in both directories, only one of which has it for us; the kernel
\* refuses /x, which has the bit for others and not for its owner.
MCFiles ==
  LET f == [reg |-> TRUE, mine |-> FALSE, group |-> FALSE, xusr |-> TRUE,
            xgrp |-> FALSE, xoth |-> TRUE, image |-> TRUE] IN
  [p \in {<<"/bin", "/", "prog">>, <<"/usr/bin", "/", "prog">>, <<"/x">>, <<"..">>,
          <<"/bin", "/">>, <<"/usr/bin", "/">>} |->
     CASE p = <<"/bin", "/", "prog">>     -> f
       [] p = <<"/usr/bin", "/", "prog">> -> [f EXCEPT !.xoth = FALSE]
       [] p = <<"/x">>  -> [f EXCEPT !.mine = TRUE, !.xusr = FALSE]
       [] OTHER -> [f EXCEPT !.reg = FALSE]]

MCLines == {<<"\n">>, <<" ", "exit", "\n">>, <<"cd", "\n">>, <<"cd", " ", "..", "\n">>,
            <<"cd", " ", "b", " ", "\n">>, <<"cd", " ", "/", "\n">>,
            <<"pwd", " ", "\n">>, <<" ", "pwd", "\n">>, <<"prog", "\n">>, <<"/x", "\n">>}

\* The lines above, and all spaced lines of up to six words and blanks.
MCTyped == BoundedSeq({" ", "cd", "exit", "pwd", "..", "x"}, 6)
MCSpaced == {l \in {Append(s, "\n") : s \in MCTyped} : Spaced(l)}

ASSUME MCReadAlike == \A l \in MCLines \cup MCSpaced : ReadAlike(l)
=============================================================================
