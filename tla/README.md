# COMP1521 course work: specifications and proofs

TLA+ models of the programs of this repository, the TLC runs that check them on small
instances, and proofs checked by TLAPS. The repository holds the laboratory, assignment
and exam work of a computer systems course: many small programs in C and MIPS assembler.
They share no code except where one is a copy of another; each is a system of its own,
and a module models one program.

## The parts of the repository

| Part | State it keeps | Operations | What makes it correct |
|---|---|---|---|
| Virtual memory simulator, `labs/week07/vmsim.c` | page table, frame table, three totals, clock | translate a reference: hit, load, replace, reject | the two tables are inverse, replacement is LRU, totals agree with tables, all faults are handled |
| Heap manager, `assignment/assignment2/myHeap.c` | heap memory cut into chunks, list of free chunks, their count | init, malloc, free with merging, dump | chunks tile the heap, live blocks are apart, the list holds exactly the free chunks, in order |
| Heap manager, `assignment/sample2.c` | the same | the same, another `myFree` | the same |
| Heap drivers, `assignment2/test1.c`..`test3.c` | variables `a`..`z` | malloc and free commands, dump after each | a block is held by one variable |
| Game of Life in C, `assignment1/life.c` | two boards, loop counters | sweep, copy back and print | all cells change at once; the screen shows the board; it ends |
| Game of Life in MIPS, `assignment1/prog.s` | two boards, registers, stack | the same with three subroutines | plays the same game, keeps to the calling convention |
| Shell, `labs/week08/mysh.c` | path and token lists, working directory, standard input and output with their buffers, a child process | `exit`, `cd`, `pwd`, run a program by fork, wait and execve | one prompt and one answer per line, in order; each line carried out once; the parent waits for its child |
| Web server, `labs/week09/myhttpd.c` | listening socket, client socket, two counters | accept, receive, answer, close | every descriptor closed, counts that agree, the right page for everybody, it goes on while clients behave |
| `labs/week02` add, BigNum | digit arrays, a carry | add, scan, show | the number shown is the sum |
| `labs/week02/bits.c`, `labs/week03` maf, watb | a word with three fields | ranges of the types, bit fields, argument check | ranges are those of the types, the bits shown are those given |
| `labs/week04`, `week05` factorials in C and MIPS | registers, stack | compute n! | the result modulo 2^32; registers restored |
| `labs/week05/isi.*`, `Final Review` | matrix, registers, stack | show, identity test | the answer is right; registers restored |
| `labs/week06` myls, stat | a stat record | list, show | the record belongs to the name |
| `sample_exam/17S2/q2/q2.c` | a point, the extremes so far | read points, print their bounding box | the box is that of the points in the file |
| `labs/week01` cat1..cat4, process exercises, other exam and quiz programs | none to speak of | copy streams; a fork; single functions | not modelled |

The heap managers and test3 interact by calls and by the pointers the driver keeps;
fork, wait and the shared offset of standard input connect the processes of mysh; the
server and its clients meet in the kernel's queue and sockets; myls reads a directory
others change; everything else is one sequential program each. Nothing is persisted, so
there is no crash recovery. What is hard is elsewhere: long sequences of legal calls
(heaps, simulator), unsigned arithmetic at its limits (both), registers and frames
shared by caller and callee (MIPS), state that is read after something else changed it,
and, in mysh and myhttpd, processes.

## The modules

| Module | Code | Kind |
|---|---|---|
| `VM` | `vmsim.c` | detailed model |
| `LRU` | what a memory with LRU replacement promises | abstract specification |
| `VMPair` | two runs of `vmsim.c` on the same input, one with a frame less | extends `VM` by a second instance of it |
| `Heap` | `myHeap.c` less `myFree`, with `test3.c` | detailed model |
| `MyHeap`, `SampleHeap` | the two versions of `myFree`, each completing `Heap` | detailed models |
| `LifeGrid` | the synchronous Game of Life | abstract specification |
| `Life` | `life.c` | detailed model that implements `LifeGrid` |
| `Mips` | registers, stack and calls of the assembler programs | the machine the next three share |
| `LifeAsm`, `FacAsm`, `IsiAsm` | `prog.s`; `fac1.s`, `fac2.s`, `fac3.s`; the two `isi.s` | detailed models |
| `Asm` | one of them is called | composition, with what all promise |
| `Session` | what mysh promises at a terminal | abstract specification |
| `Shell` | `mysh.c`, parent and child | detailed model that implements `Session` |
| `Httpd` | `myhttpd.c` and its clients | detailed model |
| `Numerals` | powers of a base and the number that digits denote | what `BigNum` and `Bits` share |
| `BigNum`, `Bits`, `Listing`, `BoundBox` | `add.c` with `BigNum.c`; `bits.c` and `maf.c`; `myls.c`; `q2.c` of 17S2 | detailed models |
| `Labs` | one of these runs | composition |
| `MC...` | values of the constants for TLC | instances |
| `VMProofs`, `VMPairProofs` | theorems about `VM`, also that it implements `LRU`, and about `VMPair` | TLAPS |
| `HeapProofs` | theorems about `SampleHeap`, and about `MyHeap` from the same lemmas | TLAPS |
| `LifeProofs` | theorems about `Life`, also that it implements `LifeGrid` | TLAPS |
| `ShellProofs` | theorems about `Shell`, also that it implements `Session` | TLAPS |
| `HttpdProofs` | theorems about `Httpd` | TLAPS |
| `LabsProofs` | theorems about the programs of `Labs` | TLAPS |
| `AsmProofs` | theorems about the programs of `Asm`, also that `prog.s` implements `LifeGrid` | TLAPS |

A definition whose comment begins with "Mutant" is not part of the model. It is a
plausible mistake in the definition that follows it, used to see that a property would
notice.

### `VM`

`PageTable`, `MemFrames`, the totals and `clock` are the globals of the C file; `out` is
the translation `main` printed last, `status` whether the program still runs. A
reference read by `main` is one step, `Reference(va, action)`: everything
`physicalAddress` does to the tables and totals and `main`'s test of the result and
tick. `Hit`, `LoadEmpty`, `Replace` are the three paths of `physicalAddress`;
`InvalidAddress` its early return. `LeastRecent(v)` is the index the two scans of lines
137-151 arrive at. Two widths matter: the product of line 117 is unsigned, and the clock
and the physical address become `int` (`AsInt`). When no page qualifies as the victim
the program indexes `PageTable[-1]`; `NoVictim` ends the model there, with nothing
claimed about such a run.

`LRU` knows neither frames nor clock: it keeps the set of resident pages, the order in
which they were last used, the dirty ones and the numbers of disk transfers. `Memory` in
`VM` maps time stamps to that order.

`VMPair` runs the simulator twice on one input. Its variables are those of `VM`, for the
run with the larger memory, which is a run of `VM` like any other (`LargerIsVM`), and
the same again (`small...`), for the one with a frame less (`Small`). So every property
of `VM` is checked here, of the larger memory, beside those of the pair.

### `Heap`, `MyHeap`, `SampleHeap`

`mem` maps the offset of each word of the heap to its contents, so a header is where the
code puts it and an old one stays until it is overwritten. `freeList` has `freeElems`
slots. A `malloc` command (`runMalloc` and `myMalloc`) is one step, a `free` command
another, and each ends with the dump the driver makes, whose walk stops the program when
it meets a word that is no status (`Dumped`). The search of `myMalloc` for a best fit
never leaves its first entry, so it is modelled by `freeList[0]` and by the headers it
reads on the way; `sortFreeList` swaps copies of pointers, so it is modelled by the one
thing it can do: run off the list when its unsigned bound wraps. In `MyHeap` the store
through the index that `mergeWithRight` never set is a choice of any slot, or of a
crash. Statuses: `exited` (the program gave up or its input ended), `corrupted` (the
dump gave up), `crashed`, `overflowed` (a store beyond the heap or the list; nothing is
claimed after it).

### `Life`, `LifeGrid`

A step of `Life` decides or copies one cell. `LifeGrid` changes all cells at once: the
detailed steps between are stutters, and the generation is `board`'s until the sweep is
over and `newboard`'s from then on.

### `Mips`, `LifeAsm`, `FacAsm`, `IsiAsm`, `Asm`

A step executes the instructions from one label to the next jump that matters, with the
registers in `reg` and the words below the caller's `$sp` in `stack`; `Enter` and
`Leave` are the prologues and epilogues, `ReturnTo` the places `jal` comes back to. What
SPIM prints is left out, but for the answer (`printed`). A product is cut to a word of
`WordLimit` values on either side of 0 (`AsWord`). `Asm` starts any of the
programs and states what holds of all: registers restored, the right answer, and that it
returns; `LifeAsm` also implements `LifeGrid`. The model has `isIdent` as it is: after
the last row it jumps past `li $v0, 1`, and the result is whatever system call
`showMatrix` made last (11, or 4 when N is 0).

### `Shell`, `Session`

`pc` is where the parent is, `child` what its one child does; they interleave only where
the parent waits, but share what the kernel and the terminal keep: `off`, the offset of
standard input, and `screen`. Each has its own copy of the rest, so `out` and `cout` are
the two copies of stdout's buffer and only the parent's `buf` is ever read. A command is
one step: `Fgets` takes the next line from `buf`, and the action does what the loop
makes of it up to the next prompt. `Fill` is the read below `fgets`: from a terminal it
flushes stdout and gets one line, from a pipe it gets some lines, from a file all.
`NotFound` and `ExecFails` end the child by `exit`, which prints its copy of what the
parent had not printed and, in a file, moves the shared offset back over the lines it
has a copy of (POSIX asks for this, glibc does it). `Exec` puts an unknown program in
its place, which may read lines, prints, and ends or does not. Undefined behaviour is a
choice or an end: `Overruns` is `strcat` behind the entries of `path` when the child
does not survive it, `CdUndefined` the use of `pwd` after `getcwd` failed.

`Session` has a screen, a directory and no processes. A shell that is not on a terminal
maps to a session in which nothing happens; nothing but the other properties is claimed
of it. `mysh.c` tells its own commands by comparing the text of the line and `Session`
by the first word; `ReadAlike` says of a line that the two agree. TLC evaluates it on
the lines of the runs and on all lines of up to six words and blanks (`MCReadAlike`).

Lines are taken to be equally long and the whole input shorter than BUFSIZ, what waits
in stdout shorter than its buffer, and entries of PATH and words to be indivisible; "/"
as the argument of `cd` is in, other absolute names are not.

### `Httpd`

`Server` are the steps of the process, one per system call and what follows it up to the
next: `Accept`, `Recv`, `Respond`, `Send`, the three `...Fails`, and the two ways to be
ended by the kernel, reading NULL and SIGPIPE. A client connects once, sends its request
in up to `MaxPieces` pieces and may leave at any time. `Bodies` is the page for each
text that can be received, found with `Strtok` as the code does. Writing behind
`request` or `response` ends the model (`undefined`). Three things the model has that
the code's comments do not say: a page that is not there is an empty page and
`/nonexistent` an ordinary one, both with status 200; a failed `socket`, `bind` or
`listen` is noticed by `accept`; and a client that has gone may end the server, by
`accept` or by SIGPIPE. The address that is reported is not modelled: its buffer has
room for eleven characters.

### `BigNum`, `Bits`, `Listing`, `BoundBox`, `Labs`

`BigNum` adds digit by digit, with the carry of the code: it waits while the longer
number alone is copied and comes out in front (`CarryPasses`). Powers and numbers
of digits are recursive functions (`Numerals`), which the proofs can unfold. `Bits` has
the ten functions of `bits.c` as one step over a table of types, and `maf.c` from its
arguments to the bits it shows. `Listing` is the loop of `myls.c` with one `infom` for
all entries, names cut to `MaxName` characters, and another process that removes files.
The columns of the output are left out. `BoundBox` reads a file whose last point may be
incomplete: `read` then overwrites a part of `p`, and the loop takes that for a point.

## What the runs check

| Run | Instance | Shows |
|---|---|---|
| `VMWrap` | 3 pages of 5 bytes, 2 frames, good addresses and bad, unsigned int of 4 bits, 10 references | the totals agree with the tables while clock and addresses wrap, up to the fault that finds no victim (`NoVictim`) |
| `VMPair` | 4 pages of 2 bytes, 2 against 3 frames, 7 references | of the larger memory: types, inverse tables, the last translation, the totals, pages stay in their frames, it implements `LRU`; of both: all faults are handled, the larger includes the smaller, no Belady anomaly |
| `MyHeap` | 92 bytes, 2 variables | the heap is sound until a store to the list goes astray |
| `MyHeapList` | the same | fails: the list, below |
| `SampleHeap` | 96 bytes, 3 variables, 3 sizes | chunks tile the heap, live blocks are apart, listed chunks are free |
| `SampleHeapSmall` | the same | fails: short blocks, below |
| `Life` | all 512 boards of 3 by 3, up to 3 iterations | implements `LifeGrid`, the screen shows the board, it ends |
| `Asm` | 32 boards of 3 by 3, up to 2 iterations; n from -1 to 7 in words of 8 bits; all matrices of 2 by 2 over -1, 0, 1 | registers restored, right answers, all return; `prog.s` implements `LifeGrid` |
| `Shell` | 3 lines of 10, 4 carried out, 4 directories, 2 entries of PATH | implements `Session` at a terminal; answers shown once and once more per copy; lines carried out twice only after an exit in a file; token lists held; it ends |
| `Httpd` | 2 clients, ten and two requests in up to 2 pieces, a queue of 1 | descriptors closed, counts agree, right pages, well-behaved clients do not end it, all who wait are served |
| `Labs` | numbers of up to 3 digits of 0, 1, 8, 9; bytes of 3 bits; fields of 1, 2 and 3 bits; all directories of up to 6 entries, in two orders; files of up to two points of 3 bytes and a part of a third | sums so far, and shown when no carry passes on, ranges, bits, whose record a line shows, and the bounding box |
| `LabsSum` | the same | fails: a wrong sum, below |

Bounds. `MaxClock` bounds the number of references. Seven are enough to fill three
frames, replace more pages than there are frames, and come back to evicted and to
written pages; LRU keeps no other memory of the past than the order of the pages. In
`VMWrap` eight references bring the clock to half its range and the ninth is where a
fault finds no victim. The heaps are small because `MIN_HEAP` is a constant of the model
(44 bytes here and not 4096) while header, alignment and `MIN_CHUNK` are the code's; 96
bytes hold four chunks and three list slots, so that all four cases of `myFree`, splits,
whole-chunk allocations and a full list occur; the set of commands is not bounded. On a
board of three by three every cell but one is on the edge, and every count of neighbours
from none to eight occurs. `MaxWords` is the stack `prog.s` and the deepest recursion of
`fac3.s` need; 6! is the first factorial too large for a word of eight bits.
`MaxLines` = 3 lets a command be forked, one be read back and one follow; `MaxCarried`
ends a shell that reads the same lines for ever. `MaxDepth` = 2 names stands for the 255
bytes of `pwd`, with one directory beyond. In `Httpd` `QueueLen` = 0 leaves room for one
connection, `MaxPieces` = 2 makes the first piece any part of a request, and `BufSize` =
10 atoms has requests that fill it and names that overflow the response behind a header
of `HeaderLen` = 7. Three digits are the first length with a digit copied beyond the
carry; in `Bits` the fields are as wide as the strings TLC can enumerate, and the widest
type has 24 bits, below the limit of TLC's integers. `MaxName` = 5 leaves room for a
name of three.

Fairness. `Life` and the programs of `Asm` are sequential programs that read one number
and then compute: weak fairness of the next step says that the processor goes on. In
`Shell` it holds of the parent and, by itself, of the child up to `execve`
(`WF(Parent)`, `WF(Execute)`): they are processes the kernel schedules; of the program
nothing is assumed, and `ShellFinishes` allows one that never ends. In `Httpd` the
server is fair and the clients are not: `Served` allows one that says nothing and stays.
The other programs wait for input that need not come; no liveness is claimed for them.

Deadlock is not checked in any run because all of these programs end by themselves, at
the end of their input, with an error, or when they are done, and the server may be left
by all its clients.

## Where code and comments disagree

Each of these is a run in which TLC violates what a comment of the source says.

* `myHeap.c:302`, run `MyHeapList`: a freed chunk swallows the free chunk on its right,
  but its pointer goes to the slot before the one that must change, here outside the
  array; the list (line 41) goes on pointing into the middle of a free chunk, which the
  next `malloc` hands out.
* `sample2.c:128`, run `SampleHeapSmall`: a chunk that has room for the request only
  with its header is taken for it (line 105). `myMalloc` of `myHeap.c` is the same code.
* `BigNum.c:61`, run `LabsSum`: the carry out of the shorter number is not added to the
  next digit of the longer one; it waits until the rest is copied and comes out in
  front, so that 1 + 19 is shown as 110. `add.c:35` says "Add num1+num2, store result in
  sum" and `BigNum.c:21` "Add two BigNums". `SumUnlessCarryPasses` says what is right.

The others are part of the models, where the properties of the passing runs leave them
out or the model ends. A property named here holds of the program with the defect in it:
it would not notice the defect, only others.

* `vmsim.c:137`: the time stamps turn negative at half the range of the clock and a page
  fault finds no page to replace (`NoVictim`), where line 109 says that faults are
  handled. It takes 2^31 references. `FaultsHandled` is proved under `NoWrap` and
  checked, in `BothHandleFaults`, within bounds that exclude it.
* `myHeap.c:276`: with no free chunk left the bound of the sort wraps, and a `malloc`
  that takes the whole heap (line 130) brings the program down (`SortCrashes`).
* `sample2.c:270`: a free between two free chunks forgets `nFree--` (line 43); in the
  long run an insertion leaves the array (`SampleOverflows`).
* `swap` swaps its own copies, so `sortFreeList` sorts nothing (`myHeap.c:285` against
  the comment of line 272), and the search for the smallest chunk starts from a bound it
  can never improve on (`myHeap.c:115` against line 113), so that `myMalloc` takes the
  first listed chunk (`Chosen`).
* `mysh.c:159`: a child that ends by `exit` makes the parent carry out lines again when
  standard input is a file (`RereadOnlyAfterExit`), and output that waits comes out once
  more (`AnswersShown`). `mysh.c:78` leaves the empty path for the parent of `/a`, so
  that `cd ..` answers "Command not found" there.
* `mysh.c:59` splits `line_`, not `line`, the pointer behind the leading blanks that
  lines 52-54 look at. The first word of a line with a leading blank is therefore empty:
  `cd` and `pwd` are not recognised in it, and no program is found, while ` exit` ends
  the shell. `Session` has the same first word (`First`).
* `isi.s:287`: `isIdent` returns 11 or 4 for true and not 1 (line 294); `main` accepts
  it.
* `maf.c:127`: two arguments pass for three (line 123 asks for three) and the third is
  read. `BitsShown` allows that program to fail, and no other.
* `17S2/q2/q2.c:71`: an incomplete point counts as one; `BoxRight` counts it too.
* `myls.c:70`: the result of `lstat` is not looked at. `OwnRecordShown` excepts the two
  causes, a file that was removed and a path that was cut. Line 108 shows the digit 1
  for a link.
* `myhttpd.c:160`: a request without a second word, or without a name, ends the server
  (`RespondCrashes`), as does a client that leaves before `accept` (`AcceptFails`) or
  before `send` (`SendKills`). `SurvivesTheWellBehaved` is about clients that do none of
  this; it says that nothing else ends the server.

## What is proved

TLAPS checks every theorem to the last leaf, from the assumptions on the constants that
the modules state and TLC evaluates (sizes are positive, arguments are sequences of
strings, and the like). Nine theorems need more, as a hypothesis they name: `NoWrap`,
`SiteServed` or `ReadAlike`. Every safety invariant, action property and
refinement that a passing run checks is proved for all values of the constants.

### `VMProofs`: the simulator

For every number of pages and frames, page size, input, bound and width of an int.

* `TypeCorrect`: `TypeOK`. The step that needs thought is that line 117, a test on a
  product that may wrap, still keeps `pageNo` inside the table: a product modulo
  something is never larger than the product (`PageInTable`).
* `TablesStayInverse`: `TablesInverse` is inductive together with `TypeOK`. The three
  ways to change the tables (touch, load, evict) are lemmas about a pair of tables, and
  `Replace` is evict followed by load.
* `PagesStayInFrames`: an action property that follows from the same invariant.
* `TotalsCorrect`: the totals count, besides what the tables show, replacements; the
  cardinality of the loaded pages grows by one with each load into an empty frame and
  stays with a replacement. It holds while clock and addresses wrap.
* `EveryFaultHandled` and `LastTranslationCorrect`: under `NoWrap` (neither the clock
  nor a physical address reaches half the range of an unsigned int) every fault finds a
  victim and the address printed last stands. `VMInv` adds to the above that the loaded
  pages, and no others, carry the time of an earlier reference. That a victim exists is
  the argument that a nonempty set of natural numbers has a least element, twice: for
  the times and for the page numbers.
* `SimulatorIsLRU`: under `NoWrap` every step is a step of `LRU` or a stutter. Time
  stamps of loaded pages are distinct, so they order the pages as `LRU` orders them, and
  the page with the least stamp is the one that `LRU` may evict.

### `VMPairProofs`: one frame more

`LargerIsVM`: the larger memory is that of `VM`. `FaultsHandledInBoth`,
`LargerMemoryIncludes` and `NoAnomaly` hold under `NoWrap`, which for the larger memory
implies it for the smaller one. `Stacked` is what makes inclusion inductive: a page that
only the larger memory holds was used before every page of the smaller one, once that is
full. For the saves the invariant counts what the larger memory still owes: its saves
and its pages that are modified there alone are no more than the saves of the smaller.

### `HeapProofs`: the heaps

For every size of the heap and of a chunk (a header fits in `MIN_CHUNK`), every set of
requests and of variables.

* `HeapTypeCorrect`, `HeapIsTiled`, `BlocksAreApart`, `ListPointsToFree`, of
  `sample2.c`. The walk of `dumpHeap` is a recursive function whose existence is proved
  by a least set (`Onward`). The invariant `Sound` speaks of a set of chunks instead, no
  two of which overlap and each of which ends where another begins; `WalkIsTiling` says
  that this is the set the walk meets. Each step then says which chunks it adds and
  which it removes: a split, a whole chunk taken, and the four merges.
* `SoundBeforeStray`, of `myHeap.c`: the same with the exact count of free chunks, until
  a store through the unset index of `mergeWithRight` goes astray. The strengthening is
  that, as long as the program runs and nothing went astray, there is exactly one free
  chunk and it is listed in the first slot.

### `LifeProofs`: the Game of Life

For boards of every size and any number of iterations. `NeighboursAreAdjacent` shows
that the double loop of `neighbours` counts the adjacent cells of `LifeGrid`, and
`DecideIsSuccessor` that what `decideCell` answers is the grid's next generation.
`Sweeping` says that `newboard` holds it for the cells passed so far, and `Copying` that
`board` and the screen agree with `newboard` on the cells passed; `ScreenCorrect` and
`LifeIsTheGame` (each step is one of `LifeGrid` or a stutter) follow.

### `ShellProofs`: the shell

For any lines, directories and files, inputs of any length, and whatever programs do.

* `ShellInvariant` is the conjunction of what its parts say of the input that is shared
  (`Input`), of parent and child (`Processes`), of the two copies of stdout (`Output`),
  of the order of lines and of answers. From it: `ShellTypeCorrect`, `ListsAreHeld`,
  `LinesInOrder`, `AnswersAreShown`. The last needs what no single step shows: how often
  an answer is in a buffer or on the screen is determined by the fates of the commands
  behind it (`Speaking`, `Answers`).
* `MyshIsASession`: provided that all lines are `ReadAlike`, each step of a shell on a
  terminal is a step of `Session` or a stutter. The invariant (`Interactive`) says that
  at a terminal a line is read when it is typed, so that `buf` holds one at most, that
  stdout's buffer holds at most the prompt and the child's copy of it nothing when a
  program is started, and that the entries of `path` are what they were.

### `HttpdProofs`: the server

For every finite set of clients, requests, length of the queue and of the buffers.

* `HttpdTypeCorrect`, `DescriptorsAreClosed`, `CountersAgree`: the queue holds each
  waiting connection once and the one handled is the one open (`Connections`). For the
  counters, a response that is made but not sent is one that nobody has received, and a
  connection that nothing was read from is not counted (`Counting`).
* `AnswersAreRight` and `WellBehavedDoNotEndIt`: for sites that `SiteServed` describes
  (a request for a page fits the buffer, names a page and gets it), which TLC evaluates
  for the sites of the run.

### `LabsProofs`: the programs of the labs and of the exam

* `CarryIsKept` and `SumIsShown`, for numbers of any lengths. Once the digits of the
  shorter number are used up, the invariant keeps two equations apart: that of the sum
  up to there with the carry, and that of the digits copied since. What a number of
  digits is bounded by (`Bounded`) decides whether a carry is left. `SumShownOnlyThen`
  closes the gap to what `add.c` claims: the number shown is the sum if and only if no
  carry passes from the shorter number on to the longer.
* `RangesAreRight`, for any size of a byte, and `BitsAreShown`, for any widths of the
  fields: that `(n / 2^k) % 2` is the digit `k` of `n` (`DigitAt`) and that reading bits
  and showing them cancel (`FieldShown`).
* `BoxIsRight`: the extremes are those of the coordinates read so far, of whole points,
  or of a last one that is cut off.
* `OwnRecordIsShown`: a path belongs to one name only, so that `lstat` fills `infom`
  with the record of that name, or the file is gone or the path cut.

### `AsmProofs`: the assembler programs

For boards, numbers and matrices of every size and any width of a word. The assumptions
are that the stack has room for the deepest calls (`AsmAssumption`) and that n + 1 is
still a word (`FacAsmAssumption`: the loops count one past n).

* Frames. `Entered` and `Left` are about one function, whatever it saves: `Enter`
  writes only below the `$sp` it was called with, and `Leave` restores from there what
  it saved. `Called` says of a function and its `main` that both frames are intact and
  that the registers neither saved are untouched; updates to a function's own registers
  keep it (`BodyStep`, `MainStep`). For `fac3.s` `Stacked(d)` says it of `main` and the
  first d calls, each of which saved in `$s0` the number of the one above
  (`CallRegs`).
* The invariant, `AsmState`, is what holds at each label of the program that runs:
  `LifeAt`, `FacState` and `IsiState`, with a lemma for each action. Labels of different
  programs are different (`LabelsApart`), so that only the actions of that program can
  be taken. `RegistersAreRestored` is what it says of the label `caller`.
* `AsmAnswersAreRight`. In the factorials the register that holds the product is
  `AsWord` of the product so far. That cutting to a word at every multiplication gives
  the same as cutting n! once is `MulOfWord`, and that the recursive definition of
  `Factorial` has a meaning is proved by induction (`ProductsExist`). In the identity
  tests the elements passed are those of the identity, and `$v0` is not 0 until one was
  found that is not: what it is in the original version does not matter.
* `ProgIsTheGame`. `NextBytes` is the board that a sweep should arrive at, byte by byte,
  and `NextBytesAreSuccessor` says that it is the next generation of `LifeGrid`.
  `LifeAt(n)`, in iteration n, has the bytes that were decided (`CellOf`), in
  `neighbours` the number counted up to an offset (`CountTo`), in `copyBackAndShow` the
  bytes that were copied; the offset that `main` keeps in `$t2` across the call of
  `decideCell` stands because that function happens not to use it (`InByte`). Each step
  is then one of `LifeGrid`, when `main` has stored the last byte, or a stutter; the
  number of the iteration is found in the frame while a function runs
  (`NumberInFrame`).

Recursion over data comes in only as recursive functions. `Induction` (over the elements
of a set of numbers) and `Recursion` (such a function exists) are proved from the
well-foundedness of the naturals, and carry `Powers`, `FirstDigits` and the rest.

### Only model-checked

* Liveness (`Finishes`, `Returns`, `ShellFinishes`, `Served`) rests on fairness and
  ENABLED, which are out of the prover's reach.
* The hypotheses `SiteServed` and `ReadAlike` on their instances.

## Plan

Modelled and proved about: the simulator with its abstract specification, the heaps, the
Game of Life in two languages, the other assembler programs, the shell, the server, the
programs of weeks 2, 3 and 6, and the bounding box of an exam. No safety property is
left that only a run checks.

Models that could follow: `watb.c`, and a `Session` for a shell whose input is a pipe.

## Not modelled

Output other than what a property is about, command-line and syntax errors that change
no state, memory exhaustion, `freeHeap` (no driver modelled calls it), the fixed call
sequences of `test1.c` and `test2.c`, and the fragment `sample.c`, which does not
compile. `cat1` to `cat4` copy a stream in a loop, `stat.c` and `watb.c` print the
fields of one record or word, the C versions of the factorials and of the identity test
are a loop each whose assembler versions are modelled, and the process exercises are a
fork without state. The other exam and quiz programs are stubs to be filled in,
functions that do not compile (`Students.c` of A and B) or drivers of functions that are
not there. Binaries, test data and expected outputs hold no logic.
