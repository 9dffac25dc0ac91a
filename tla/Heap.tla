-------------------------------- MODULE Heap --------------------------------
(***************************************************************************)
(* assignment/assignment2/myHeap.c: the heap manager of assignment 2, less *)
(* myFree, and test3.c, the driver that runs malloc and free commands on   *)
(* the variables a..z.  MyHeap and SampleHeap add the two versions of      *)
(* myFree, myHeap.c's own and assignment/sample2.c's.                      *)
(*                                                                         *)
(* Memory is word addressed: mem maps the offset of each word from heapMem *)
(* to its contents, and a chunk is named by the offset of its header, whose*)
(* first word is the status and second the size in bytes.  The driver never*)
(* writes to the blocks it is given, so old headers stay where they were.  *)
(***************************************************************************)
EXTENDS Integers, FiniteSets

CONSTANTS
  InitSize,    \* argv[1]: the size asked of initHeap
  MinHeap,     \* MIN_HEAP
  MinChunk,    \* MIN_CHUNK
  Sizes,       \* sizes that appear in malloc commands
  Vars         \* the driver's variables

HeaderSize == 8           \* sizeof(header)
ALLOC == 1431655765       \* 0x55555555
FREE  == -1431655766      \* 0xAAAAAAAA, read as an int
Null  == -1               \* below every pointer; heapOffset's own choice

ASSUME HeapAssumption ==
  /\ InitSize \in Int /\ MinHeap \in Nat /\ MinChunk \in Nat
  /\ HeaderSize <= MinChunk /\ MinChunk + HeaderSize < MinHeap
  /\ MinHeap % 4 = 0 /\ MinChunk % 4 = 0
  /\ Sizes \subseteq Int

VARIABLES
  mem,       \* the words of heapMem; 0 stands for one never written
  freeList,  \* slot -> the chunk it points to
  nFree,     \* number of free chunks
  stray,     \* a store to freeList used an index outside it, or never set
  vars,      \* driver variable -> the block it points to
  status     \* how far the program is

heapVars == <<mem, freeList, nFree, stray, vars, status>>

AdjustSize(size) == IF size % 4 # 0 THEN 4 * (size \div 4 + 1) ELSE size

HeapSize  == IF InitSize < MinHeap THEN MinHeap ELSE AdjustSize(InitSize)
Words     == {o \in 0 .. HeapSize - 1 : o % 4 = 0}
FreeElems == HeapSize \div MinChunk
Slots     == 0 .. FreeElems - 1

\* Mutant: the cast to void * forgotten, the pointer counts in headers.
BlockOfScaled(c) == c + HeaderSize * HeaderSize

\* The block a chunk gives to the program, and the chunk of a variable's.
BlockOf(c) == c + HeaderSize
ChunkOf(v) == vars[v] - HeaderSize

SizeOf(c)         == mem[c + 4]
Valid(c)          == c \in Words /\ c + 4 \in Words
Header(m, c, s, n) == [m EXCEPT ![c] = s, ![c + 4] = n]

\* initHeap.  It is the first to call malloc: what it is given comes straight
\* from the system and holds zeros, so the slots it does not set are null.
Init ==
  /\ mem = Header([o \in Words |-> 0], 0, FREE, HeapSize)
  /\ freeList = [i \in Slots |-> IF i = 0 THEN 0 ELSE Null]
  /\ nFree = 1
  /\ stray = FALSE
  /\ vars = [v \in Vars |-> Null]
  /\ status = "running"

\* dumpHeap's walk, chunk by chunk, ends beyond the last word having met
\* only the two marks.
WalkEnds(m) ==
  LET walk[o \in Nat] ==
        \/ o >= HeapSize
        \/ m[o] \in {FREE, ALLOC} /\ m[o + 4] > 0 /\ walk[o + m[o + 4]]
  IN walk[0]

\* The driver dumps the heap after each command it survived.
Dumped(m) == status' = IF WalkEnds(m) THEN "running" ELSE "corrupted"

Stop(how) ==
  /\ status' = how
  /\ UNCHANGED <<mem, freeList, nFree, stray, vars>>

-----------------------------------------------------------------------------
\* sortFreeList swaps nothing: swap exchanges copies of the two pointers.
\* With no free chunk its bound, Heap.nFree - 1, is the largest unsigned int
\* and the comparisons run off the array.
SortCrashes(n) == n <= 0

\* myMalloc looks at every listed chunk but the last on its way to a best
\* fit, and then takes the first.
Chosen == freeList[0]

FitSearchCrashes ==
  \E i \in {0} \cup 0 .. nFree - 2 : i \in Slots /\ ~Valid(freeList[i])

TakesWhole(size) == SizeOf(Chosen) <= size + HeaderSize + MinChunk

Fits(size) == ~FitSearchCrashes /\ SizeOf(Chosen) >= AdjustSize(size)

MallocCrashes(v, size) ==
  /\ size >= 1
  /\ Fits(size) => SortCrashes(IF TakesWhole(AdjustSize(size))
                               THEN nFree - 1 ELSE nFree)
  /\ ~Fits(size) => FitSearchCrashes
  /\ Stop("crashed")

\* The driver gives up when myMalloc returns NULL.
MallocRefused(v, size) ==
  /\ \/ size < 1
     \/ ~FitSearchCrashes /\ ~Fits(size)
  /\ vars' = [vars EXCEPT ![v] = Null]
  /\ status' = "exited"
  /\ UNCHANGED <<mem, freeList, nFree, stray>>

MallocWhole(v, size) ==
  /\ size >= 1 /\ Fits(size)
  /\ TakesWhole(AdjustSize(size)) /\ ~SortCrashes(nFree - 1)
  /\ mem' = [mem EXCEPT ![Chosen] = ALLOC]
  /\ freeList' = [freeList EXCEPT ![0] = Null]
  /\ nFree' = nFree - 1
  /\ vars' = [vars EXCEPT ![v] = BlockOf(Chosen)]
  /\ Dumped(mem')
  /\ UNCHANGED stray

Lower(size) == AdjustSize(size) + HeaderSize

\* Mutant: the upper chunk keeps the size of the chunk that was split.
UpperSizeUncut(size) == SizeOf(Chosen)

UpperSize(size) == SizeOf(Chosen) - Lower(size)

\* Mutant: the lower chunk stays in the list.
RelistedLower(upper) == freeList

Relisted(upper) == [freeList EXCEPT ![0] = upper]

MallocSplit(v, size) ==
  LET upper == Chosen + Lower(size) IN
  /\ size >= 1 /\ Fits(size)
  /\ ~TakesWhole(AdjustSize(size)) /\ ~SortCrashes(nFree)
  /\ Valid(upper)
  /\ mem' = Header(Header(mem, Chosen, ALLOC, Lower(size)),
                   upper, FREE, UpperSize(size))
  /\ freeList' = Relisted(upper)
  /\ vars' = [vars EXCEPT ![v] = BlockOf(Chosen)]
  /\ Dumped(mem')
  /\ UNCHANGED <<nFree, stray>>

\* The size of the first listed chunk reaches past the heap, and so does the
\* new header: nothing is claimed about the run any more.
MallocOverflows(v, size) ==
  /\ size >= 1 /\ Fits(size)
  /\ ~TakesWhole(AdjustSize(size)) /\ ~SortCrashes(nFree)
  /\ ~Valid(Chosen + Lower(size))
  /\ Stop("overflowed")

\* A malloc command of the driver, runMalloc and myMalloc.  A variable that
\* already held a block forgets it.
Malloc(v, size) ==
  /\ status = "running"
  /\ \/ MallocCrashes(v, size)
     \/ MallocRefused(v, size)
     \/ MallocWhole(v, size)
     \/ MallocSplit(v, size)
     \/ MallocOverflows(v, size)

-----------------------------------------------------------------------------
\* The two checks at the head of myFree, the same in both versions.
FreeRefused(v) ==
  vars[v] # Null /\ vars[v] < HeapSize => mem[ChunkOf(v)] = FREE

RejectFree(v) == status = "running" /\ FreeRefused(v) /\ Stop("exited")

EndOfInput == status = "running" /\ Stop("exited")

-----------------------------------------------------------------------------
\* The chunks of the heap: where a walk from the first header goes.
Chunks ==
  LET from[o \in Nat] == IF ~Valid(o) THEN {}
                         ELSE IF SizeOf(o) <= 0 THEN {o}
                         ELSE {o} \cup from[o + SizeOf(o)]
  IN from[0]

Live == {v \in Vars : vars[v] # Null}

FreeChunks == {c \in Chunks : mem[c] = FREE}
Listed     == {freeList[i] : i \in Slots \cap 0 .. nFree - 1}

\* The values the variables of the two heaps take.
HeapTypeOK ==
  /\ mem \in [Words -> Int]
  /\ freeList \in [Slots -> Words \cup {Null}]
  /\ nFree \in 0 .. FreeElems
  /\ stray \in BOOLEAN
  /\ vars \in [Vars -> Words \cup {Null}]
  /\ status \in {"running", "exited", "crashed", "corrupted", "overflowed"}

\* The chunks tile the heap: the walk dumpHeap makes from the first one ends
\* exactly at the end of the heap and every chunk bears a mark.
Tiled ==
  /\ \A c \in Chunks : /\ mem[c] \in {ALLOC, FREE}
                       /\ c + SizeOf(c) \in Chunks \cup {HeapSize}
                       /\ SizeOf(c) > HeaderSize

\* What a program may rely on while it holds a block: the block is that of an
\* allocated chunk of the walk, and no other variable holds the same one.
BlocksApart ==
  /\ \A v \in Live : ChunkOf(v) \in Chunks /\ mem[ChunkOf(v)] = ALLOC
  /\ \A v, w \in Live : vars[v] = vars[w] => v = w

\* freeList is an "array of pointers to free chunks" (line 41): what it holds
\* below nFree are free chunks of the heap, or the holes that whole
\* allocations left, and none twice.
ListedAreFree ==
  /\ Listed \ {Null} \subseteq FreeChunks
  /\ \A i, j \in Slots \cap 0 .. nFree - 1 :
       freeList[i] = freeList[j] /\ freeList[i] # Null => i = j

\* nFree is the "number of free chunks" (line 43).
CountsFree == nFree = Cardinality(FreeChunks)

\* myMalloc returns "memory large enough to store `size' bytes" (line 102):
\* the block it hands out has the size asked for, as the walk reports it.
LargeEnough ==
  [][\A v \in Vars, size \in Sizes :
       MallocWhole(v, size) => SizeOf(Chosen) - HeaderSize >= size]_heapVars
=============================================================================
