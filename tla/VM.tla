--------------------------------- MODULE VM ---------------------------------
(***************************************************************************)
(* labs/week07/vmsim.c: a simulator of demand paging with LRU replacement. *)
(*                                                                         *)
(* main reads memory references (R or W and a byte address) and asks       *)
(* physicalAddress to translate each; a reference to a page that is not    *)
(* loaded takes the first empty frame or, when there is none, the frame of *)
(* the least recently used page.  The clock ticks once per translated      *)
(* reference and its value is what the page table records.                 *)
(*                                                                         *)
(* The clock is an unsigned int and lastAccessed an int: UintMod stands    *)
(* for 2^32 and AsInt is the conversion between the two.  Lines of input   *)
(* that main ignores (79-82) change nothing and are stuttering steps.      *)
(***************************************************************************)
EXTENDS Integers, FiniteSets

CONSTANTS
  NPages,    \* argv[1]: process pages
  NFrames,   \* argv[2]: memory frames
  PageSize,  \* PAGESIZE
  UintMod,   \* 2^32, the number of values of an unsigned int
  VAddrs,    \* byte addresses that appear in the input
  MaxClock   \* bound: references translated before the input ends

ASSUME VMAssumption ==
  /\ NPages \in Nat \ {0}
  /\ NFrames \in Nat \ {0}
  /\ PageSize \in Nat \ {0}
  /\ UintMod \in Nat \ {0}
  /\ VAddrs \subseteq 0 .. UintMod - 1
  /\ MaxClock \in 0 .. UintMod - 1

VARIABLES
  PageTable,   \* page -> status bits, frame number, time of the last access
  MemFrames,   \* frame -> the page it holds, -1 if empty
  nLoads, nSaves, nReplaces,
  clock,
  out,         \* the translation main printed last
  status       \* how far the program is

counters == <<nLoads, nSaves, nReplaces>>
vars == <<PageTable, MemFrames, counters, clock, out, status>>

Pages   == 0 .. NPages - 1
Frames  == 0 .. NFrames - 1
Actions == {"R", "W"}

AsInt(n)   == IF 2 * n < UintMod THEN n ELSE n - UintMod
PageNo(va) == va \div PageSize
Offset(va) == va % PageSize

\* The bound test is made on an unsigned product, which may wrap.
OutOfRange(va) == (NPages * PageSize) % UintMod <= va

Resident == {p \in Pages : PageTable[p].loaded}

Init ==
  /\ PageTable = [p \in Pages |-> [loaded |-> FALSE, modified |-> FALSE,
                                   frameNo |-> -1, lastAccessed |-> -1]]
  /\ MemFrames = [f \in Frames |-> -1]
  /\ nLoads = 0 /\ nSaves = 0 /\ nReplaces = 0
  /\ clock = 0
  /\ out = [vA |-> 0, pA |-> -1]
  /\ status = "running"

-----------------------------------------------------------------------------
FirstEmpty(f) ==
  /\ MemFrames[f] = -1
  /\ \A g \in Frames : g < f => MemFrames[g] # -1

\* Mutant: least starts from 0 rather than from the clock.
LeastRecentFromZero(v) == PageTable[v].lastAccessed = 0

\* The page whose index the two scans of lines 137-151 arrive at.
LeastRecent(v) ==
  LET t == PageTable[v].lastAccessed IN
  /\ t # -1
  /\ t <= AsInt(clock)
  /\ \A q \in Pages : PageTable[q].lastAccessed # -1
                        => t <= PageTable[q].lastAccessed
  /\ \A q \in Pages : q < v => PageTable[q].lastAccessed # t

\* Mutant: a later read clears the modified bit.
TouchedForgets(entry, action) ==
  [entry EXCEPT !.modified = action = "W", !.lastAccessed = AsInt(clock)]

Touched(entry, action) ==
  [entry EXCEPT !.modified = @ \/ action = "W", !.lastAccessed = AsInt(clock)]

\* Mutant: frames counted from 1.
MappedFromOne(entry, f, action) ==
  [Touched(entry, action) EXCEPT !.loaded = TRUE, !.frameNo = f + 1]

Mapped(entry, f, action) ==
  [Touched(entry, action) EXCEPT !.loaded = TRUE, !.frameNo = f]

\* Mutants: a reset that is forgotten.
EvictedStillModified(entry) ==
  [entry EXCEPT !.loaded = FALSE, !.lastAccessed = -1, !.frameNo = -1]
EvictedStillLoaded(entry) ==
  [entry EXCEPT !.modified = FALSE, !.lastAccessed = -1, !.frameNo = -1]

Evicted(entry) ==
  [entry EXCEPT !.modified = FALSE, !.loaded = FALSE,
                !.lastAccessed = -1, !.frameNo = -1]

\* The end of physicalAddress and of main's loop: an address that turns
\* negative as an int makes main give up before the clock ticks.
Translate(va, f) ==
  LET pA == AsInt((PageSize * f + Offset(va)) % UintMod) IN
  IF pA < 0
  THEN status' = "invalid" /\ UNCHANGED <<clock, out>>
  ELSE clock' = clock + 1 /\ out' = [vA |-> va, pA |-> pA] /\ UNCHANGED status

Ready(va) == status = "running" /\ clock < MaxClock /\ ~OutOfRange(va)

InvalidAddress(va) ==
  /\ status = "running" /\ clock < MaxClock /\ OutOfRange(va)
  /\ status' = "invalid"
  /\ UNCHANGED <<PageTable, MemFrames, counters, clock, out>>

\* Mutant: only a fault records the time (first in, first out).
HitUnstamped(va, action) ==
  LET p == PageNo(va) IN
  /\ Ready(va) /\ PageTable[p].loaded
  /\ PageTable' = [PageTable EXCEPT ![p].modified = @ \/ action = "W"]
  /\ Translate(va, PageTable[p].frameNo)
  /\ UNCHANGED <<MemFrames, counters>>

Hit(va, action) ==
  LET p == PageNo(va) IN
  /\ Ready(va) /\ PageTable[p].loaded
  /\ PageTable' = [PageTable EXCEPT ![p] = Touched(@, action)]
  /\ Translate(va, PageTable[p].frameNo)
  /\ UNCHANGED <<MemFrames, counters>>

LoadEmpty(va, action) ==
  LET p == PageNo(va) IN
  /\ Ready(va) /\ ~PageTable[p].loaded
  /\ \E f \in Frames :
       /\ FirstEmpty(f)
       /\ MemFrames' = [MemFrames EXCEPT ![f] = p]
       /\ PageTable' = [PageTable EXCEPT ![p] = Mapped(@, f, action)]
       /\ Translate(va, f)
  /\ nLoads' = nLoads + 1
  /\ UNCHANGED <<nSaves, nReplaces>>

\* Mutant: the search for an empty frame stops at the first one.
FirstFrameTaken == MemFrames[0] # -1

MemoryFull == \A f \in Frames : MemFrames[f] # -1

Replace(va, action) ==
  LET p == PageNo(va) IN
  /\ Ready(va) /\ ~PageTable[p].loaded /\ MemoryFull
  /\ \E v \in Pages :
       LET f == PageTable[v].frameNo IN
       /\ LeastRecent(v)
       /\ nSaves' = IF PageTable[v].modified THEN nSaves + 1 ELSE nSaves
       /\ MemFrames' = [MemFrames EXCEPT ![f] = p]
       /\ PageTable' = [[PageTable EXCEPT ![v] = Evicted(@)]
                          EXCEPT ![p] = Mapped(@, f, action)]
       /\ Translate(va, f)
  /\ nReplaces' = nReplaces + 1
  /\ nLoads' = nLoads + 1

\* No page was accessed at a time the scan accepts: index stays -1 (or, when
\* the clock reads -1, names a page with no frame) and the code goes on
\* outside its tables.  Nothing is claimed about such a run.
NoVictim(va) ==
  /\ Ready(va) /\ ~PageTable[PageNo(va)].loaded /\ MemoryFull
  /\ \A v \in Pages : ~LeastRecent(v)
  /\ status' = "undefined"
  /\ UNCHANGED <<PageTable, MemFrames, counters, clock, out>>

\* fgets returns NULL: main prints the totals and exits.
EndOfInput ==
  /\ status = "running"
  /\ status' = "exited"
  /\ UNCHANGED <<PageTable, MemFrames, counters, clock, out>>

Reference(va, action) ==
  \/ InvalidAddress(va)
  \/ Hit(va, action)
  \/ LoadEmpty(va, action)
  \/ Replace(va, action)
  \/ NoVictim(va)

Next == EndOfInput \/ \E va \in VAddrs, action \in Actions : Reference(va, action)

Spec == Init /\ [][Next]_vars
-----------------------------------------------------------------------------
EntryType == [loaded : BOOLEAN, modified : BOOLEAN,
              frameNo : Frames \cup {-1}, lastAccessed : Int]

\* The values the variables of vmsim.c take, one type invariant.
TypeOK ==
  /\ PageTable \in [Pages -> EntryType]
  /\ MemFrames \in [Frames -> Pages \cup {-1}]
  /\ nLoads \in Nat /\ nSaves \in Nat /\ nReplaces \in Nat
  /\ clock \in 0 .. MaxClock
  /\ out \in [vA : Int, pA : Int]
  /\ status \in {"running", "invalid", "undefined", "exited"}

\* The page table and the frame table, which physicalAddress updates one
\* after the other, are inverse to each other; a page that is not loaded
\* has the blank entry that initPageTable gave it.
TablesInverse ==
  /\ \A p \in Pages :
       IF PageTable[p].loaded
       THEN /\ PageTable[p].frameNo \in Frames
            /\ MemFrames[PageTable[p].frameNo] = p
       ELSE /\ PageTable[p].frameNo = -1
            /\ PageTable[p].lastAccessed = -1
            /\ ~PageTable[p].modified
  /\ \A f \in Frames :
       MemFrames[f] # -1 => /\ PageTable[MemFrames[f]].loaded
                            /\ PageTable[MemFrames[f]].frameNo = f

\* The address main printed last is still where its page lives, and no other
\* page has been used since.
LastTranslationStands ==
  out.pA # -1 =>
    LET e == PageTable[PageNo(out.vA)] IN
    /\ e.loaded
    /\ out.pA = PageSize * e.frameNo + Offset(out.vA)
    /\ \A p \in Resident : PageTable[p].lastAccessed <= e.lastAccessed

\* The totals main prints agree with the tables: every load either filled an
\* empty frame or replaced a page, pages are replaced only once memory is
\* full, and only a replaced page is saved.
TotalsAgree ==
  /\ nLoads = nReplaces + Cardinality(Resident)
  /\ nReplaces > 0 => \A f \in Frames : MemFrames[f] # -1
  /\ nSaves <= nReplaces

\* A page stays in its frame for as long as it is loaded.
FramesStay ==
  [][\A p \in Resident : PageTable'[p].loaded
       => PageTable'[p].frameNo = PageTable[p].frameNo]_vars

\* physicalAddress "handles regular references, page faults and invalid
\* addresses" (line 109): a fault always finds a frame.
FaultsHandled == status # "undefined"

\* vmsim.c is an LRU memory of NFrames frames: the time stamps order the
\* loaded pages as they were used, modified marks those that differ from
\* disk, and the totals count the disk's reads and writes.
Memory == INSTANCE LRU WITH
  Capacity <- NFrames,
  resident <- Resident,
  older    <- {pair \in Resident \X Resident :
                 PageTable[pair[1]].lastAccessed < PageTable[pair[2]].lastAccessed},
  dirty    <- {p \in Resident : PageTable[p].modified},
  reads    <- nLoads,
  writes   <- nSaves

ImplementsLRU == Memory!LRUSpec
=============================================================================
