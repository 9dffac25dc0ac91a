------------------------------- MODULE VMPair -------------------------------
(***************************************************************************)
(* Two runs of labs/week07/vmsim.c on the same input: one of VM, and one   *)
(* with a memory frame less.  What giving the simulated process more       *)
(* memory can do to its page loads.                                        *)
(***************************************************************************)
EXTENDS VM

ASSUME PairAssumption == NFrames > 1

\* The variables of VM once more, for the run with the smaller memory.
VARIABLES
  smallTable, smallFrames, smallLoads, smallSaves, smallReplaces, smallClock,
  smallOut, smallStatus

Small == INSTANCE VM WITH
  NFrames <- NFrames - 1,
  PageTable <- smallTable, MemFrames <- smallFrames, nLoads <- smallLoads,
  nSaves <- smallSaves, nReplaces <- smallReplaces, clock <- smallClock,
  out <- smallOut, status <- smallStatus

pairVars == <<vars, Small!vars>>

PairInit == Init /\ Small!Init

\* Both programs read the same line, or both reach the end of the input.
PairNext ==
  \/ \E va \in VAddrs, action \in Actions :
       Reference(va, action) /\ Small!Reference(va, action)
  \/ EndOfInput /\ Small!EndOfInput

PairSpec == PairInit /\ [][PairNext]_pairVars
-----------------------------------------------------------------------------
\* physicalAddress finds a frame for every page fault (line 109), with either
\* size of memory.
BothHandleFaults == FaultsHandled /\ Small!FaultsHandled

\* LRU replacement is a stack algorithm: whatever physicalAddress keeps in
\* the smaller memory it keeps in the larger one too, last used at the same
\* time.
Inclusion ==
  \A p \in Small!Resident :
    /\ p \in Resident
    /\ smallTable[p].lastAccessed = PageTable[p].lastAccessed

\* Hence no Belady anomaly: with a frame more the totals main prints never
\* count more loads or more pages written back.
MoreMemoryNoWorse ==
  /\ nLoads <= smallLoads
  /\ nSaves <= smallSaves
=============================================================================
