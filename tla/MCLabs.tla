------------------------------- MODULE MCLabs -------------------------------
(***************************************************************************)
(* Small instances of the programs of the labs for TLC.                    *)
(***************************************************************************)
EXTENDS Labs, TLC

\* Strings of up to three of the digits 0, 1, 8 and 9; 10 is no digit.
MCStrings == BoundedSeq({0, 1, 8, 9}, 3) \cup {<<10>>, <<1, 10, 9>>, <<10, 9, 9, 9>>}
MCNumArgs == {<<>>, <<<<1>>>>} \cup {<<s, t>> : s, t \in MCStrings}

MCBits(len) == [1 .. len -> {0, 1, 2}]
MCMafArgs ==
  LET good == {<<s, e, f>> : s \in MCBits(1), e \in MCBits(2), f \in MCBits(3)}
      bad == {<<>>, <<0>>, <<1, 0>>, <<1, 0, 1>>, <<0, 1, 0, 1>>}
  IN good \cup {SubSeq(a, 1, n) : a \in good, n \in 0 .. 2}
          \cup {<<s, e, f>> : s \in bad, e \in bad, f \in bad}

\* Paths of up to five characters, and a name that is too long, whose path
\* cut off is that of another file, or of none.
MCRecords ==
  LET r(type, perms, uid, size) == [type |-> type, perms |-> perms, uid |-> uid, size |-> size]
  IN <<"a", "b">> :> r("file", {1, 2, 4, 7}, 0, 1) @@ <<"a", "b", "c">> :> r("file", {1, 9}, 1, 2)
     @@ <<"d">> :> r("dir", 1 .. 9, 1, 3) @@ <<"x", "y", "z">> :> r("link", 1 .. 9, 2, 4)
     @@ <<".">> :> r("dir", {1}, 0, 5) @@ <<".", "h">> :> r("pipe", {1}, 0, 6)
MCEntries ==
  {SetToSeq(S) : S \in SUBSET DOMAIN MCRecords} \cup
  {Reverse(SetToSeq(S)) : S \in SUBSET DOMAIN MCRecords}
MCUsers == 0 :> <<"root">> @@ 1 :> <<"ivy">>
\* Two points of three bytes and a part of a third.
MCPoints == {SubSeq(<<x, y, 0, 1, 2, 1, z, y>>, 1, n) : x, y, z \in 0 .. 3, n \in 0 .. 8}
MCDirName == <<"t", "m">>
=============================================================================
