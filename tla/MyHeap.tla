------------------------------- MODULE MyHeap -------------------------------
(***************************************************************************)
(* assignment/assignment2/myHeap.c with its own myFree, under test3.c.     *)
(*                                                                         *)
(* A freed chunk goes to the end of the list, which the no-op sort leaves  *)
(* out of order; where it is found decides which neighbours it is merged   *)
(* with.  The merges work on h, the state of the heap inside myFree.       *)
(***************************************************************************)
EXTENDS Heap

Write(m, o, n) == [m EXCEPT ![o] = n]

\* A store to freeList[k]; k = -1 hits the word before the array.
Store(h, k, c) ==
  IF k \in Slots THEN [h EXCEPT !.list[k] = c] ELSE [h EXCEPT !.stray = TRUE]

FirstSlot(h, bound, c, i) ==
  /\ i \in 0 .. bound - 1 /\ i \in Slots
  /\ h.list[i] = c
  /\ \A j \in 0 .. i - 1 : h.list[j] # c

\* The heaps mergeWithRight may leave.  When the chunk after this one is not
\* listed, next_index is never set: the store can land in any slot.
MergeWithRight(h, chunk) ==
  LET next == chunk + h.mem[chunk + 4]
      found == {i \in Slots : FirstSlot(h, h.n, next, i)}
  IN IF h.end = "crashed" THEN {h}
     ELSE IF found = {}
     THEN {[Store(h, k, chunk) EXCEPT !.stray = TRUE] : k \in Slots \cup {-1}}
            \cup {[h EXCEPT !.end = "crashed"]}
     ELSE {Store([h EXCEPT !.mem[chunk + 4] = @ + h.mem[next + 4], !.n = @ - 1],
                 i - 1, chunk) : i \in found}

\* The heap mergeWithLeft leaves: the chunk listed before this one is taken
\* to be its neighbour.
MergeWithLeft(h, chunk) ==
  LET found == {i \in 0 .. h.n - 1 : i + 1 \in Slots /\ h.list[i + 1] = chunk
                   /\ \A j \in 0 .. i - 1 : h.list[j + 1] # chunk}
  IN IF found = {} THEN Store(h, 0, chunk)
     ELSE LET i == CHOOSE i \in found : TRUE
              prev == h.list[i]
          IN IF ~Valid(prev) THEN [h EXCEPT !.end = "crashed"]
             ELSE Store([h EXCEPT !.mem[prev + 4] = @ + h.mem[chunk + 4],
                                  !.n = @ - 1], i, chunk)

\* The heaps that merging the chunk found at a slot may leave.
Merged(h, index, chunk) ==
  IF h.n <= 1 THEN {h}
  ELSE IF index = 1 THEN MergeWithRight(h, chunk)
  ELSE IF index = h.n - 1 THEN {MergeWithLeft(h, chunk)}
  ELSE MergeWithRight(MergeWithLeft(h, chunk), chunk)

\* runFree and myFree.
MyFree(v) ==
  LET chunk == ChunkOf(v)
      h0 == [mem |-> Write(mem, chunk, FREE),
             list |-> [freeList EXCEPT ![nFree] = chunk],
             n |-> nFree + 1, stray |-> stray, end |-> "running"]
  IN
  /\ status = "running" /\ ~FreeRefused(v)
  /\ nFree \in Slots
  /\ \E index \in Slots :
       /\ FirstSlot(h0, FreeElems, chunk, index)
       /\ \E h \in Merged(h0, index, chunk) :
            /\ mem' = h.mem /\ freeList' = h.list /\ nFree' = h.n
            /\ stray' = h.stray
            /\ vars' = [vars EXCEPT ![v] = Null]
            /\ IF h.end = "crashed" THEN status' = "crashed" ELSE Dumped(h.mem)

\* No slot is left: the store goes past the array, into memory that is not
\* the heap's, and nothing is claimed about the run any more.
MyOverflows(v) ==
  /\ status = "running" /\ ~FreeRefused(v)
  /\ nFree \notin Slots
  /\ Stop("overflowed")

MyNext ==
  \/ \E v \in Vars :
       \/ \E size \in Sizes : Malloc(v, size)
       \/ RejectFree(v)
       \/ MyFree(v)
       \/ MyOverflows(v)
  \/ EndOfInput

MySpec == Init /\ [][MyNext]_heapVars
-----------------------------------------------------------------------------
\* Until a store to the free list goes astray, which the first free already
\* brings about, the heap is sound: its chunks tile it, live blocks are apart
\* and the list holds its free chunks, all of them.
SoundUntilStray ==
  ~stray => Tiled /\ BlocksApart /\ ListedAreFree /\ CountsFree
=============================================================================
