------------------------------ MODULE Listing -------------------------------
(***************************************************************************)
(* labs/week06/myls.c: a directory listing, while other processes may      *)
(* remove files from the directory.  Names are sequences of characters.    *)
(***************************************************************************)
EXTENDS Naturals, Sequences, SequencesExt

CONSTANTS
  DirName,   \* the directory that is listed: argv[1], or "."
  Entries,   \* what readdir may deliver: sequences of names
  Records,   \* name -> what lstat knows of the file
  Users,     \* uid -> name, for the ids there is a name for
  MaxName    \* MAXNAME

ASSUME ListingAssumption ==
  /\ MaxName \in Nat /\ DirName \in Seq(STRING) /\ DOMAIN Records \subseteq Seq(STRING)
  /\ Entries \subseteq Seq(DOMAIN Records)

VARIABLES
  lsPc,      \* "start", "read", "done", "error", "crashed", or "off"
  entries,   \* the entries of the directory
  next,      \* the one readdir gives next
  infom,     \* the record lstat filled last
  removed,   \* names that have been removed since
  listed     \* the lines printed: entry, and the record shown

lsVars == <<lsPc, entries, next, infom, removed, listed>>

\* What the stack held before.
Garbage == [type |-> "?", perms |-> {}, uid |-> 0, size |-> 0]

ListInit ==
  /\ lsPc = "start" /\ entries \in Entries /\ next = 1
  /\ infom = Garbage /\ removed = {} /\ listed = <<>>

\* stat fails or finds no directory; or opendir, whose result is not tested,
\* fails and readdir is given NULL.
Start ==
  /\ lsPc = "start" /\ lsPc' \in {"read", "error", "crashed"}
  /\ UNCHANGED <<entries, next, infom, removed, listed>>

Hidden(name) == name[1] = "."

SkipHidden ==
  /\ lsPc = "read" /\ next <= Len(entries) /\ Hidden(entries[next])
  /\ next' = next + 1
  /\ UNCHANGED <<lsPc, entries, infom, removed, listed>>

\* snprintf cuts the path to the MAXNAME characters of fileName.
FileName(name) ==
  LET whole == DirName \o <<"/">> \o name
  IN IF Len(whole) > MaxName THEN SubSeq(whole, 1, MaxName) ELSE whole

\* lstat of a path in the directory; infom stays what it was on failure.
Named(path) == {name \in DOMAIN Records \ removed : DirName \o <<"/">> \o name = path}
Lstat(path) ==
  IF Named(path) = {} THEN infom ELSE Records[CHOOSE name \in Named(path) : TRUE]

\* rwxmode, with "1" for a link, and username; the columns of printf are left
\* out.
Letters == <<"r", "w", "x", "r", "w", "x", "r", "w", "x">>
Rwxmode(r) ==
  <<CASE r.type = "dir" -> "d" [] r.type = "file" -> "-" [] r.type = "link" -> "1" [] OTHER -> "?">>
  \o [k \in 1 .. 9 |-> IF k \in r.perms THEN Letters[k] ELSE "-"]
Username(uid) == IF uid \in DOMAIN Users THEN Users[uid] ELSE <<uid, "?">>

Line(name, r) == [name |-> name, mode |-> Rwxmode(r), user |-> Username(r.uid), size |-> r.size]

\* Mutant: the line is printed from the record before.
ShowEarlier(name) == listed' = Append(listed, Line(name, infom))

Show(name) == listed' = Append(listed, Line(name, infom'))

PrintEntry ==
  /\ lsPc = "read" /\ next <= Len(entries) /\ ~Hidden(entries[next])
  /\ infom' = Lstat(FileName(entries[next]))
  /\ Show(entries[next])
  /\ next' = next + 1
  /\ UNCHANGED <<lsPc, entries, removed>>

EndOfDirectory ==
  /\ lsPc = "read" /\ next > Len(entries) /\ lsPc' = "done"
  /\ UNCHANGED <<entries, next, infom, removed, listed>>

\* Another process.
RemoveFile ==
  /\ lsPc \in {"start", "read"}
  /\ \E k \in DOMAIN entries : entries[k] \notin removed /\ removed' = removed \cup {entries[k]}
  /\ UNCHANGED <<lsPc, entries, next, infom, listed>>

ListNext == Start \/ SkipHidden \/ PrintEntry \/ EndOfDirectory \/ RemoveFile
-----------------------------------------------------------------------------
\* Lines 69-86: a line shows the record of its own file, unless the file was
\* removed before it was read or its path is longer than 24 characters; then
\* it shows the record of another one, or what was on the stack.
OwnRecordShown ==
  \A k \in DOMAIN listed :
    LET name == listed[k].name  own == Line(name, Records[name]) IN
    \/ listed[k] = own
    \/ /\ name \in removed \/ Len(DirName) + 1 + Len(name) > MaxName
       /\ \E r \in Range(Records) \cup {Garbage} : listed[k] = Line(name, r)
=============================================================================
