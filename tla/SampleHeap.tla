----------------------------- MODULE SampleHeap -----------------------------
(***************************************************************************)
(* assignment/sample2.c under test3.c: the heap of myHeap.c (module Heap,  *)
(* whose initHeap, myMalloc, sortFreeList and dumpHeap it repeats word for *)
(* word) with a myFree of its own, which looks for the two neighbours of   *)
(* the freed chunk and treats the four cases apart.                        *)
(***************************************************************************)
EXTENDS Heap

NextOf(chunk) == chunk + SizeOf(chunk)

\* The first slot that holds the chunk after this one.
NextSlot(chunk, i) ==
  /\ i \in Slots
  /\ freeList[i] = NextOf(chunk)
  /\ \A j \in 0 .. i - 1 : freeList[j] # NextOf(chunk)

After(chunk) == \E i \in Slots : NextSlot(chunk, i)

\* Mutant: the chunk before need not be free.
IsPrevAllocated(p, chunk) == p \in Chunks /\ NextOf(p) = chunk

\* The chunk before, found by walking the heap.
IsPrev(p, chunk) == p \in Chunks /\ NextOf(p) = chunk /\ mem[p] = FREE

Before(chunk) == \E p \in Chunks : IsPrev(p, chunk)

\* Where a chunk with no free neighbour goes in the list.
InsertAt(chunk, k) ==
  /\ k \in 0 .. nFree
  /\ \A i \in 0 .. k - 1 : freeList[i] <= chunk
  /\ k < nFree => freeList[k] > chunk

FreeAlone(v) ==
  LET chunk == ChunkOf(v) IN
  /\ ~Before(chunk) /\ ~After(chunk) /\ nFree \in Slots
  /\ mem' = [mem EXCEPT ![chunk] = FREE]
  /\ \E k \in 0 .. nFree :
       /\ InsertAt(chunk, k)
       /\ freeList' = [i \in Slots |-> IF i = k THEN chunk
                                       ELSE IF i \in k + 1 .. nFree
                                       THEN freeList[i - 1] ELSE freeList[i]]
  /\ nFree' = nFree + 1

\* Mutant: the merged chunk is counted once more.
FreeRightCounted(v) ==
  LET chunk == ChunkOf(v) IN
  /\ ~Before(chunk)
  /\ \E i \in Slots :
       /\ NextSlot(chunk, i)
       /\ freeList' = [freeList EXCEPT ![i] = chunk]
  /\ mem' = Header(mem, chunk, FREE, SizeOf(chunk) + SizeOf(NextOf(chunk)))
  /\ nFree' = nFree + 1

\* Mutant: the list goes on pointing to the chunk that was swallowed.
FreeRightUnlisted(v) ==
  LET chunk == ChunkOf(v) IN
  /\ ~Before(chunk) /\ After(chunk)
  /\ mem' = Header(mem, chunk, FREE, SizeOf(chunk) + SizeOf(NextOf(chunk)))
  /\ UNCHANGED <<freeList, nFree>>

FreeRight(v) ==
  LET chunk == ChunkOf(v) IN
  /\ ~Before(chunk)
  /\ \E i \in Slots :
       /\ NextSlot(chunk, i)
       /\ freeList' = [freeList EXCEPT ![i] = chunk]
  /\ mem' = Header(mem, chunk, FREE, SizeOf(chunk) + SizeOf(NextOf(chunk)))
  /\ UNCHANGED nFree

FreeLeft(v) ==
  LET chunk == ChunkOf(v) IN
  /\ ~After(chunk)
  /\ \E p \in Chunks :
       /\ IsPrev(p, chunk)
       /\ mem' = Header(mem, p, FREE, SizeOf(p) + SizeOf(chunk))
  /\ UNCHANGED <<freeList, nFree>>

\* The slots after the next chunk's move down, up to the first null one.
FreeBoth(v) ==
  LET chunk == ChunkOf(v) IN
  /\ After(chunk)
  /\ \E p \in Chunks :
       /\ IsPrev(p, chunk)
       /\ mem' = Header(mem, p, FREE,
                        SizeOf(p) + SizeOf(chunk) + SizeOf(NextOf(chunk)))
  /\ \E i \in Slots, last \in Slots :
       /\ NextSlot(chunk, i)
       /\ last >= i /\ \A j \in i + 1 .. last : freeList[j] # Null
       /\ last + 1 \in Slots => freeList[last + 1] = Null
       /\ freeList' = [j \in Slots |-> IF j = last THEN Null
                                       ELSE IF j \in i .. last - 1
                                       THEN freeList[j + 1] ELSE freeList[j]]
  /\ UNCHANGED nFree

\* runFree and myFree.
SampleFree(v) ==
  /\ status = "running" /\ ~FreeRefused(v)
  /\ FreeAlone(v) \/ FreeRight(v) \/ FreeLeft(v) \/ FreeBoth(v)
  /\ vars' = [vars EXCEPT ![v] = Null]
  /\ Dumped(mem')
  /\ UNCHANGED stray

\* Every slot is taken: the shift writes past the array.
SampleOverflows(v) ==
  /\ status = "running" /\ ~FreeRefused(v)
  /\ ~Before(ChunkOf(v)) /\ ~After(ChunkOf(v)) /\ nFree \notin Slots
  /\ Stop("overflowed")

SampleInit == Init

SampleMalloc(v, size) == Malloc(v, size)

SampleNext ==
  \/ \E v \in Vars :
       \/ \E size \in Sizes : SampleMalloc(v, size)
       \/ RejectFree(v)
       \/ SampleFree(v)
       \/ SampleOverflows(v)
  \/ EndOfInput

SampleSpec == SampleInit /\ [][SampleNext]_heapVars
=============================================================================
