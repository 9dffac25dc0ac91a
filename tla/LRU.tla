--------------------------------- MODULE LRU --------------------------------
(***************************************************************************)
(* What a memory of Capacity frames with least-recently-used replacement   *)
(* promises, with no page table, frame numbers or clock: which pages are   *)
(* resident, in which order they were last used, which of them differ from *)
(* their copy on disk, and how often the disk was read and written.        *)
(* labs/week07/vmsim.c (module VM) is shown to implement it.               *)
(***************************************************************************)
EXTENDS Integers, FiniteSets

CONSTANTS Pages, Capacity

VARIABLES
  resident,  \* pages in memory
  older,     \* <<p, q>>: both resident, p was last used before q
  dirty,     \* resident pages written since they were brought in
  reads,     \* pages read from disk
  writes     \* pages written back to disk

lruVars == <<resident, older, dirty, reads, writes>>

LRUInit ==
  /\ resident = {} /\ older = {} /\ dirty = {}
  /\ reads = 0 /\ writes = 0

\* p becomes the most recently used of the pages in R.
UsedNow(p, R) ==
  {pair \in older : pair[1] \in R \ {p} /\ pair[2] \in R \ {p}}
    \cup (R \ {p}) \X {p}

Write(p, D, write) == IF write THEN D \cup {p} ELSE D

Use(p, write) ==
  /\ p \in resident
  /\ older' = UsedNow(p, resident)
  /\ dirty' = Write(p, dirty, write)
  /\ UNCHANGED <<resident, reads, writes>>

BringIn(p, write) ==
  /\ p \notin resident /\ Cardinality(resident) < Capacity
  /\ resident' = resident \cup {p}
  /\ older' = UsedNow(p, resident)
  /\ dirty' = Write(p, dirty, write)
  /\ reads' = reads + 1
  /\ UNCHANGED writes

Exchange(p, write) ==
  /\ p \notin resident /\ Cardinality(resident) = Capacity
  /\ \E v \in resident :
       /\ \A q \in resident : <<q, v>> \notin older
       /\ resident' = (resident \ {v}) \cup {p}
       /\ older' = UsedNow(p, resident \ {v})
       /\ dirty' = Write(p, dirty \ {v}, write)
       /\ writes' = IF v \in dirty THEN writes + 1 ELSE writes
  /\ reads' = reads + 1

LRUNext ==
  \E p \in Pages, write \in BOOLEAN :
    Use(p, write) \/ BringIn(p, write) \/ Exchange(p, write)

LRUSpec == LRUInit /\ [][LRUNext]_lruVars
=============================================================================
