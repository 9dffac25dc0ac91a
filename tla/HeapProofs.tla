----------------------------- MODULE HeapProofs -----------------------------
(***************************************************************************)
(* Theorems about the heaps of assignment/sample2.c (module SampleHeap)    *)
(* and of assignment2/myHeap.c (module MyHeap), for any sizes of the heap  *)
(* and of a chunk, any requests and any variables.                         *)
(*                                                                         *)
(* dumpHeap's walk is a recursive function; that it exists is proved by a  *)
(* least set (Onward).  A set of chunks that tiles the heap is the one it  *)
(* goes through (WalkIsTiling), so each step need only say which chunks it *)
(* adds and removes.                                                       *)
(***************************************************************************)
EXTENDS SampleHeap, MyHeap, FiniteSetTheorems, WellFoundedInduction, TLAPS

-----------------------------------------------------------------------------
(* The walk over the heap m.                                               *)

ChunksOf(m) ==
  LET from[o \in Nat] == IF ~Valid(o) THEN {}
                         ELSE IF m[o + 4] <= 0 THEN {o}
                         ELSE {o} \cup from[o + m[o + 4]]
  IN from[0]

\* The chunks C tile the heap m.
Tiling(m, C) ==
  /\ 0 \in C
  /\ \A c \in C : /\ Valid(c) /\ m[c] \in {ALLOC, FREE} /\ m[c + 4] > HeaderSize
                  /\ c + m[c + 4] \in C \cup {HeapSize}
  /\ \A c, d \in C : c < d => c + m[c + 4] <= d

\* What the walk can reach from o, as the least set that is closed under
\* going on to the next chunk.
Closed(m, S) ==
  \A c \in S : m[c + 4] > 0 /\ Valid(c + m[c + 4]) => c + m[c + 4] \in S
Onward(m, o) ==
  {c \in Words : \A S \in SUBSET Words : Closed(m, S) /\ (Valid(o) => o \in S) => c \in S}

LEMMA Unfold ==
  ASSUME NEW m \in [Words -> Int], NEW o \in Nat
  PROVE  Onward(m, o) = IF ~Valid(o) THEN {}
                        ELSE IF m[o + 4] <= 0 THEN {o}
                        ELSE {o} \cup Onward(m, o + m[o + 4])
<1>1. CASE ~Valid(o)
  <2>1. Closed(m, {})  BY DEF Closed
  <2>2. QED  BY <1>1, <2>1 DEF Onward
<1>2. CASE Valid(o) /\ m[o + 4] <= 0
  <2>1. Closed(m, {o}) /\ o \in Words  BY <1>2 DEF Closed, Valid, Words
  <2>2. QED  BY <1>2, <2>1 DEF Onward
<1>3. CASE Valid(o) /\ m[o + 4] > 0
  <2> DEFINE n == o + m[o + 4]
  <2>1. m[o + 4] \in Int /\ o \in Words  BY <1>3 DEF Valid
  <2>2. ASSUME NEW c \in Onward(m, n), NEW S \in SUBSET Words, Closed(m, S), o \in S
        PROVE  c \in S
    <3>1. Valid(n) => n \in S  BY <1>3, <2>2 DEF Closed
    <3> HIDE DEF n
    <3>2. QED  BY <2>2, <3>1 DEF Onward
  <2>3. Onward(m, n) \subseteq Onward(m, o)  BY <1>3, <2>2 DEF Onward
  <2>4. o \in Onward(m, o)  BY <1>3, <2>1 DEF Onward
  <2>5. ASSUME NEW c \in Onward(m, o), c # o, NEW S \in SUBSET Words, Closed(m, S),
               Valid(n) => n \in S
        PROVE  c \in S
    <3>1. Closed(m, S \cup {o})  BY <2>5 DEF Closed
    <3>2. S \cup {o} \in SUBSET Words /\ o \in S \cup {o}  BY <2>1
    <3> HIDE DEF n
    <3>3. QED  BY <2>5, <3>1, <3>2 DEF Onward
  <2>6. Onward(m, o) \subseteq {o} \cup Onward(m, n)
    <3> HIDE DEF n
    <3>1. Onward(m, o) \subseteq Words  BY DEF Onward
    <3>2. QED  BY <2>5, <3>1 DEF Onward
  <2>7. QED  BY <1>3, <2>1, <2>3, <2>4, <2>6
<1>4. m[o + 4] \in Int \/ ~Valid(o)  BY DEF Valid
<1>5. QED  BY <1>1, <1>2, <1>3, <1>4


\* f goes on from each offset as the walk does.
WalkFrom(m, f) ==
  f = [o \in Nat |-> IF ~Valid(o) THEN {}
                     ELSE IF m[o + 4] <= 0 THEN {o}
                     ELSE {o} \cup f[o + m[o + 4]]]

\* The walk is a function that satisfies its equation.
LEMMA WalkExists ==
  ASSUME NEW m \in [Words -> Int]
  PROVE  \E f : ChunksOf(m) = f[0] /\ WalkFrom(m, f)
<1> DEFINE W == [o \in Nat |-> Onward(m, o)]
<1>1. WalkFrom(m, W)
  <2>1. ASSUME NEW o \in Nat
        PROVE  Onward(m, o) = IF ~Valid(o) THEN {}
                              ELSE IF m[o + 4] <= 0 THEN {o}
                              ELSE {o} \cup W[o + m[o + 4]]
    <3>1. CASE Valid(o) /\ m[o + 4] > 0
      <4>1. o + m[o + 4] \in Nat  BY <3>1 DEF Valid
      <4>2. QED  BY <3>1, <4>1, Unfold
    <3>2. CASE ~(Valid(o) /\ m[o + 4] > 0)
      <4>1. m[o + 4] \in Int \/ ~Valid(o)  BY DEF Valid
      <4>2. QED  BY <3>2, <4>1, Unfold
    <3>3. QED  BY <3>1, <3>2
  <2>2. QED  BY <2>1 DEF WalkFrom
<1>2. PICK f : WalkFrom(m, f) /\ f = CHOOSE g : WalkFrom(m, g)
  BY <1>1, Zenon
<1>3. ChunksOf(m) = f[0]  BY <1>2, Zenon DEF ChunksOf, WalkFrom
<1>4. QED  BY <1>2, <1>3, Zenon

LEMMA Sizes4 ==
  /\ HeapSize \in Nat /\ HeapSize % 4 = 0 /\ HeapSize > MinChunk + HeaderSize
  /\ FreeElems \in Nat /\ 0 \in Slots
  /\ \A size \in Int : AdjustSize(size) \in Int /\ AdjustSize(size) % 4 = 0
                       /\ AdjustSize(size) >= size
<1>1. \A size \in Int : AdjustSize(size) \in Int /\ AdjustSize(size) % 4 = 0
                        /\ AdjustSize(size) >= size
  BY DEF AdjustSize
<1>2. HeapSize \in Nat /\ HeapSize % 4 = 0 /\ HeapSize > MinChunk + HeaderSize
  BY <1>1, HeapAssumption DEF HeapSize, HeaderSize
<1>3. FreeElems \in Nat /\ FreeElems > 0
  BY <1>2, HeapAssumption DEF FreeElems, HeaderSize
<1>4. QED  BY <1>1, <1>2, <1>3 DEF Slots

\* A walk over a heap that C tiles goes through C.
LEMMA WalkIsTiling ==
  ASSUME NEW m \in [Words -> Int], NEW C, Tiling(m, C)
  PROVE  ChunksOf(m) = C
<1>1. PICK f : ChunksOf(m) = f[0] /\ WalkFrom(m, f)  BY WalkExists
<1> DEFINE Rest(c) == {d \in C : d >= c}
           Bad == {c \in C : f[c] # Rest(c)}
           Far == {HeapSize - c : c \in Bad}
<1>2. C \subseteq Words /\ C \subseteq Nat /\ HeapSize \in Nat
  <2>1. Words \subseteq Nat  BY DEF Words
  <2>2. QED  BY <2>1, Sizes4 DEF Tiling, Valid
<1>3. \A o \in Nat : f[o] = IF ~Valid(o) THEN {}
                            ELSE IF m[o + 4] <= 0 THEN {o}
                            ELSE {o} \cup f[o + m[o + 4]]
  BY <1>1, Zenon DEF WalkFrom
<1>4. ASSUME NEW c \in Bad PROVE \E d \in Bad : d > c
  <2> DEFINE n == c + m[c + 4]
  <2>1. /\ Valid(c) /\ m[c + 4] \in Int /\ m[c + 4] > 8 /\ n \in C \cup {HeapSize}
        /\ c \in Nat /\ n \in Nat
    BY <1>2 DEF Tiling, Valid, HeaderSize
  <2>2. f[c] = {c} \cup f[n]
    <3>1. f[c] = IF ~Valid(c) THEN {} ELSE IF m[c + 4] <= 0 THEN {c} ELSE {c} \cup f[n]
      BY <1>3, <2>1
    <3>2. ~(m[c + 4] <= 0)  BY <2>1
    <3>3. QED  BY <2>1, <3>1, <3>2, Zenon
  <2>3. \A d \in C : d > c => d >= n
    BY <1>2, <2>1 DEF Tiling
  <2>4. CASE n = HeapSize
    <3>1. ~Valid(n)  BY <2>4, <1>2 DEF Valid, Words
    <3>2. f[c] = {c}  BY <1>3, <2>1, <2>2, <3>1
    <3>3. \A d \in C : d < HeapSize  BY <1>2 DEF Words
    <3>4. \A d \in C : d >= c => d = c  BY <1>2, <2>1, <2>3, <2>4, <3>3
    <3>5. c \in C /\ c >= c  BY <2>1
    <3>6. Rest(c) = {c}  BY <3>4, <3>5
    <3>7. QED  BY <3>2, <3>6
  <2>5. CASE n \in C
    <3>1. Rest(c) = {c} \cup Rest(n)
      <4>1. n > c  BY <2>1
      <4> HIDE DEF n
      <4>2. \A d \in C : d >= c <=> d = c \/ d >= n
        BY <1>2, <2>1, <2>3, <4>1
      <4>3. c \in C  OBVIOUS
      <4>4. QED  BY <4>2, <4>3
    <3>2. f[n] # Rest(n)  BY <2>2, <3>1
    <3>3. QED  BY <2>1, <2>5, <3>2
  <2>6. QED  BY <2>1, <2>4, <2>5
<1>5. Bad = {}
  <2>1. SUFFICES ASSUME Bad # {} PROVE FALSE  OBVIOUS
  <2>2. Far \subseteq Nat /\ Far # {}
    <3>1. \A c \in Bad : c \in C /\ c \in Words  BY <1>2
    <3> HIDE DEF Bad
    <3>2. QED  BY <1>2, <2>1, <3>1 DEF Words
  <2>3. PICK x \in Far : \A y \in Far : <<y, x>> \notin OpToRel(<, Nat)
    <3> HIDE DEF Far
    <3>1. QED  BY <2>2, NatLessThanWellFounded, WFMin
  <2>4. PICK c \in Bad : x = HeapSize - c  OBVIOUS
  <2>5. PICK d \in Bad : d > c  BY <1>4
  <2>6. HeapSize - d \in Far  OBVIOUS
  <2>7. c \in Int /\ d \in Int  BY <1>2
  <2>8. HeapSize - d < x /\ HeapSize - d \in Nat /\ x \in Nat
    BY <2>2, <2>4, <2>5, <2>6, <2>7, <1>2
  <2>9. QED  BY <2>3, <2>6, <2>8 DEF OpToRel
<1>6. f[0] = Rest(0)  BY <1>5 DEF Tiling
<1>7. Rest(0) = C
  <2>1. \A d \in C : d >= 0  BY <1>2
  <2>2. QED  BY <2>1, Zenon
<1>8. QED  BY <1>1, <1>6, <1>7

-----------------------------------------------------------------------------
(* What a change of headers does to a tiling.                              *)

\* The two words of a chunk's header are no other chunk's.
LEMMA Headers ==
  ASSUME NEW m \in [Words -> Int], NEW C, Tiling(m, C), NEW c \in C
  PROVE  /\ c \in Nat /\ c \in Words /\ c + 4 \in Words /\ c % 4 = 0
         /\ m[c + 4] \in Int /\ m[c + 4] > 8 /\ m[c + 4] % 4 = 0
         /\ c + m[c + 4] <= HeapSize
         /\ \A d \in C : d \in Nat /\ d # c => c # d + 4 /\ c + 4 # d
<1>1. /\ c \in Nat /\ c \in Words /\ c + 4 \in Words /\ c % 4 = 0
      /\ m[c + 4] \in Int /\ m[c + 4] > 8
  BY DEF Tiling, Valid, Words, HeaderSize
<1>2. ASSUME NEW d \in C
      PROVE  d \in Nat /\ d % 4 = 0 /\ d < HeapSize /\ m[d + 4] \in Int /\ m[d + 4] > 8
  <2>1. d \in Words /\ d + 4 \in Words /\ m[d + 4] > 8  BY DEF Tiling, Valid, HeaderSize
  <2>2. QED  BY <2>1, Sizes4 DEF Words
<1>3. c + m[c + 4] \in Nat /\ (c + m[c + 4]) % 4 = 0 /\ c + m[c + 4] <= HeapSize
  <2>1. c + m[c + 4] \in C \cup {HeapSize}  BY DEF Tiling
  <2>2. QED  BY <1>2, <2>1, Sizes4
<1>4. m[c + 4] % 4 = 0
  <2> DEFINE n == m[c + 4]
  <2>1. n \in Int /\ c \in Nat /\ c % 4 = 0 /\ (c + n) % 4 = 0  BY <1>1, <1>3
  <2> HIDE DEF n
  <2>2. n % 4 = 0  BY <2>1
  <2>3. QED  BY <2>2 DEF n
<1>5. ASSUME NEW d \in C, d # c PROVE c # d + 4 /\ c + 4 # d
  <2>1. /\ c < d => c + m[c + 4] <= d
        /\ d < c => d + m[d + 4] <= c
    BY DEF Tiling
  <2>2. QED  BY <1>1, <1>2, <1>5, <2>1
<1>6. QED  BY <1>1, <1>3, <1>4, <1>5

\* Another mark.
LEMMA Marked ==
  ASSUME NEW m \in [Words -> Int], NEW C, Tiling(m, C), NEW c \in C,
         NEW s \in {ALLOC, FREE}
  PROVE  Tiling([m EXCEPT ![c] = s], C)
<1> DEFINE n == [m EXCEPT ![c] = s]
<1>1. c \in Words  BY Headers
<1>2. ASSUME NEW d \in C PROVE n[d + 4] = m[d + 4] /\ n[d] \in {ALLOC, FREE} /\ Valid(d)
  <2>1. d \in Words /\ d + 4 \in Words /\ d + 4 # c  BY Headers
  <2>2. Valid(d) /\ m[d] \in {ALLOC, FREE}  BY DEF Tiling
  <2>3. QED  BY <1>1, <2>1, <2>2
<1> HIDE DEF n
<1>3. Tiling(n, C)  BY <1>2 DEF Tiling
<1>4. QED  BY <1>3 DEF n

\* A new header for a chunk.
LEMMA HeaderIs ==
  ASSUME NEW m \in [Words -> Int], NEW c \in Words, c + 4 \in Words, NEW s \in Int,
         NEW k \in Int
  PROVE  /\ Header(m, c, s, k) \in [Words -> Int]
         /\ Header(m, c, s, k)[c] = s /\ Header(m, c, s, k)[c + 4] = k
         /\ \A o \in Words : o # c /\ o # c + 4 => Header(m, c, s, k)[o] = m[o]
<1>1. c # c + 4  BY DEF Words
<1>2. QED  BY <1>1 DEF Header

\* A chunk is split in two.
LEMMA SplitTiles ==
  ASSUME NEW m \in [Words -> Int], NEW C, Tiling(m, C), NEW c \in C,
         NEW s \in {ALLOC, FREE}, NEW t \in {ALLOC, FREE},
         NEW k \in Int, k > 8, k % 4 = 0, m[c + 4] - k > 8
  PROVE  /\ Valid(c + k) /\ c + k \notin C
         /\ Tiling(Header(Header(m, c, s, k), c + k, t, m[c + 4] - k), C \cup {c + k})
<1> DEFINE u == c + k
           n1 == Header(m, c, s, k)
           n == Header(n1, u, t, m[c + 4] - k)
<1>1. /\ c \in Nat /\ c \in Words /\ c + 4 \in Words /\ c % 4 = 0
      /\ m[c + 4] \in Int /\ m[c + 4] > 8 /\ m[c + 4] % 4 = 0 /\ c + m[c + 4] <= HeapSize
  BY Headers
<1>2. u \in Words /\ u + 4 \in Words /\ Valid(u) /\ u > c + 8 /\ u + 8 < c + m[c + 4]
  <2> DEFINE z == m[c + 4]
  <2>1. z \in Int /\ c + z <= HeapSize /\ z - k > 8 /\ HeapSize \in Nat
    BY <1>1, Sizes4
  <2> HIDE DEF z
  <2>2. u \in Nat /\ u % 4 = 0 /\ (u + 4) % 4 = 0 /\ u + 4 < HeapSize
    BY <1>1, <2>1
  <2>3. u > c + 8 /\ u + 8 < c + z  BY <1>1, <2>1
  <2>4. QED  BY <2>1, <2>2, <2>3 DEF Words, Valid, z
<1>3. ASSUME NEW d \in C, d # c
      PROVE  /\ d \in Nat /\ d \in Words /\ d + 4 \in Words
             /\ c # d + 4 /\ c + 4 # d /\ d # u /\ d + 4 # u /\ u + 4 # d
             /\ (d < c => d + m[d + 4] <= c) /\ (c < d => c + m[c + 4] <= d)
             /\ m[d + 4] \in Int /\ m[d + 4] > 8
  <2>1. /\ d \in Nat /\ d \in Words /\ d + 4 \in Words /\ m[d + 4] \in Int
        /\ m[d + 4] > 8
    BY Headers
  <2>2. c # d + 4 /\ c + 4 # d  BY <1>3, <2>1, Headers
  <2>3. (d < c => d + m[d + 4] <= c) /\ (c < d => c + m[c + 4] <= d)
    BY DEF Tiling
  <2> HIDE DEF u
  <2>4. d # u /\ d + 4 # u /\ u + 4 # d
    BY <1>1, <1>2, <1>3, <2>1, <2>3 DEF Words
  <2>5. QED  BY <2>1, <2>2, <2>3, <2>4
<1>4. u \notin C
  <2> HIDE DEF u
  <2>1. u # c  BY <1>1, <1>2 DEF Words
  <2>2. QED  BY <1>3, <2>1
<1>5. /\ s \in Int /\ t \in Int /\ m[c + 4] - k \in Int
  BY <1>1 DEF ALLOC, FREE
<1>6. n1 \in [Words -> Int] /\ n1[c] = s /\ n1[c + 4] = k
      /\ \A o \in Words : o # c /\ o # c + 4 => n1[o] = m[o]
  BY <1>1, <1>5, HeaderIs
<1>7. n \in [Words -> Int] /\ n[u] = t /\ n[u + 4] = m[c + 4] - k
      /\ \A o \in Words : o # u /\ o # u + 4 => n[o] = n1[o]
  <2> HIDE DEF u, n1
  <2>1. QED  BY <1>2, <1>5, <1>6, HeaderIs
<1> HIDE DEF n, n1
<1>8. n[c] = s /\ n[c + 4] = k
  <2> HIDE DEF u
  <2>1. c # u /\ c # u + 4 /\ c + 4 # u /\ c + 4 # u + 4
    BY <1>1, <1>2 DEF Words
  <2>2. QED  BY <1>1, <1>6, <1>7, <2>1
<1>9. ASSUME NEW d \in C, d # c PROVE n[d] = m[d] /\ n[d + 4] = m[d + 4]
  <2> HIDE DEF u
  <2>1. d + 4 # u + 4 /\ d + 4 # c + 4  BY <1>1, <1>2, <1>3, <1>9 DEF Words
  <2>2. QED  BY <1>3, <1>6, <1>7, <1>9, <2>1
<1>10. Tiling(n, C \cup {u})
  <2> DEFINE D == C \cup {u}
  <2>1. 0 \in D  BY DEF Tiling
  <2>2. ASSUME NEW d \in D
        PROVE  /\ Valid(d) /\ n[d] \in {ALLOC, FREE} /\ n[d + 4] > HeaderSize
               /\ d + n[d + 4] \in D \cup {HeapSize}
    <3>1. CASE d = u
      <4>1. u + (m[c + 4] - k) = c + m[c + 4]  BY <1>1
      <4>2. c + m[c + 4] \in C \cup {HeapSize}  BY DEF Tiling
      <4>3. QED  BY <1>2, <1>7, <3>1, <4>1, <4>2 DEF HeaderSize
    <3>2. CASE d = c
      <4>1. Valid(c)  BY DEF Tiling
      <4>2. QED  BY <1>8, <3>2, <4>1 DEF HeaderSize
    <3>3. CASE d \in C /\ d # c
      <4>1. Valid(d) /\ m[d] \in {ALLOC, FREE} /\ m[d + 4] > HeaderSize
            /\ d + m[d + 4] \in C \cup {HeapSize}
        BY <3>3 DEF Tiling
      <4>2. n[d] = m[d] /\ n[d + 4] = m[d + 4]  BY <1>9, <3>3
      <4>3. QED  BY <4>1, <4>2
    <3>4. QED  BY <3>1, <3>2, <3>3
  <2>3. ASSUME NEW d \in D, NEW e \in D, d < e PROVE d + n[d + 4] <= e
    <3> HIDE DEF u
    <3>0. u \in Nat /\ u > c /\ m[c + 4] \in Int /\ u + 8 < c + m[c + 4] /\ c + k = u
      BY <1>1, <1>2 DEF Words, u
    <3>1. CASE d = u
      <4>1. e \in C /\ e # c  BY <1>1, <2>3, <3>0, <3>1
      <4>2. e \in Nat /\ c + m[c + 4] <= e
        BY <1>1, <1>3, <2>3, <3>0, <3>1, <4>1
      <4>3. d + n[d + 4] = c + m[c + 4]  BY <1>1, <1>7, <3>0, <3>1
      <4>4. QED  BY <4>2, <4>3
    <3>2. CASE d = c
      <4>1. CASE e = u  BY <1>8, <3>0, <3>2, <4>1
      <4>2. CASE e \in C /\ e # c
        BY <1>1, <1>3, <1>8, <2>3, <3>0, <3>2, <4>2
      <4>3. QED  BY <1>1, <2>3, <3>2, <4>1, <4>2
    <3>3. CASE d \in C /\ d # c
      <4>0. d \in Nat /\ n[d + 4] = m[d + 4] /\ m[d + 4] \in Int  BY <1>3, <1>9, <3>3
      <4>1. CASE e = u
        <5>1. d < c => d + m[d + 4] <= c  BY <1>3, <3>3
        <5>2. c < d => c + m[c + 4] <= d  BY <1>3, <3>3
        <5>3. QED  BY <1>1, <2>3, <3>0, <3>3, <4>0, <4>1, <5>1, <5>2
      <4>2. CASE e \in C  BY <2>3, <3>3, <4>0, <4>2 DEF Tiling
      <4>3. QED  BY <4>1, <4>2
    <3>4. QED  BY <3>1, <3>2, <3>3
  <2>4. QED  BY <2>1, <2>2, <2>3 DEF Tiling
<1>11. QED  BY <1>2, <1>4, <1>10 DEF n, n1

\* A chunk takes in the next.
LEMMA MergeTiles ==
  ASSUME NEW m \in [Words -> Int], NEW C, Tiling(m, C), NEW c \in C,
         NEW s \in {ALLOC, FREE}, c + m[c + 4] \in C
  PROVE  LET d == c + m[c + 4]
         IN  Tiling(Header(m, c, s, m[c + 4] + m[d + 4]), C \ {d})
<1> DEFINE d == c + m[c + 4]
           n == Header(m, c, s, m[c + 4] + m[d + 4])
<1>1. /\ c \in Nat /\ c \in Words /\ c + 4 \in Words
      /\ m[c + 4] \in Int /\ m[c + 4] > 8
  BY Headers
<1>2. d \in C /\ d \in Nat /\ m[d + 4] \in Int /\ m[d + 4] > 8
  <2>1. d \in C  OBVIOUS
  <2> HIDE DEF d
  <2>2. QED  BY <2>1, Headers
<1>3. s \in Int /\ m[c + 4] + m[d + 4] \in Int
  <2> HIDE DEF d
  <2>1. QED  BY <1>1, <1>2 DEF ALLOC, FREE
<1>4. n \in [Words -> Int] /\ n[c] = s /\ n[c + 4] = m[c + 4] + m[d + 4]
      /\ \A o \in Words : o # c /\ o # c + 4 => n[o] = m[o]
  <2> HIDE DEF d
  <2>1. QED  BY <1>1, <1>3, HeaderIs
<1> HIDE DEF n
<1>5. d > c /\ d # c /\ d = c + m[c + 4]  BY <1>1
<1> HIDE DEF d
<1>6. ASSUME NEW e \in C, e # c
      PROVE  n[e] = m[e] /\ n[e + 4] = m[e + 4] /\ e \in Nat /\ m[e + 4] \in Int
  <2>1. e \in Nat /\ e \in Words /\ e + 4 \in Words /\ m[e + 4] \in Int  BY Headers
  <2>2. c # e + 4 /\ c + 4 # e  BY <1>6, <2>1, Headers
  <2>3. e + 4 # c + 4  BY <1>1, <1>6, <2>1
  <2>4. QED  BY <1>4, <1>6, <2>1, <2>2, <2>3
<1>7. c + n[c + 4] = d + m[d + 4]  BY <1>1, <1>2, <1>4, <1>5
<1>8. ASSUME NEW e \in C, NEW g \in C, e < g PROVE e + m[e + 4] <= g
  BY <1>8 DEF Tiling
<1>9. ASSUME NEW e \in C, e # c, e # d PROVE e + m[e + 4] # d
  <2>1. CASE e < c
    <3>1. e + m[e + 4] <= c  BY <1>8, <2>1
    <3>2. QED  BY <1>1, <1>2, <1>5, <1>6, <1>9, <3>1
  <2>2. CASE c < e
    <3>1. d <= e  BY <1>5, <1>8, <2>2
    <3>2. m[e + 4] > 8  BY Headers
    <3>3. QED  BY <1>2, <1>6, <1>9, <3>1, <3>2
  <2>3. QED  BY <1>1, <1>6, <1>9, <2>1, <2>2
<1>10. 0 \in C \ {d}
  <2>1. 0 \in C  BY DEF Tiling
  <2>2. d # 0  BY <1>1, <1>2, <1>5
  <2>3. QED  BY <2>1, <2>2
<1>11. ASSUME NEW e \in C \ {d}
       PROVE  /\ Valid(e) /\ n[e] \in {ALLOC, FREE} /\ n[e + 4] > HeaderSize
              /\ e + n[e + 4] \in (C \ {d}) \cup {HeapSize}
  <2>1. Valid(e) /\ m[e] \in {ALLOC, FREE} /\ m[e + 4] > HeaderSize
        /\ e + m[e + 4] \in C \cup {HeapSize}
    BY DEF Tiling
  <2>2. CASE e = c
    <3>1. d + m[d + 4] \in C \cup {HeapSize}  BY <1>2 DEF Tiling
    <3>2. d + m[d + 4] # d  BY <1>2
    <3>3. QED  BY <1>1, <1>2, <1>4, <1>7, <2>1, <2>2, <3>1, <3>2 DEF HeaderSize
  <2>3. CASE e # c  BY <1>6, <1>9, <2>1, <2>3
  <2>4. QED  BY <2>2, <2>3
<1>12. ASSUME NEW e \in C \ {d}, NEW g \in C \ {d}, e < g PROVE e + n[e + 4] <= g
  <2>1. CASE e = c
    <3>1. g \in Nat /\ d <= g  BY <1>1, <1>5, <1>6, <1>8, <1>12, <2>1
    <3>2. d < g  BY <1>2, <3>1
    <3>3. d + m[d + 4] <= g  BY <1>2, <1>8, <3>2
    <3>4. QED  BY <1>7, <2>1, <3>3
  <2>2. CASE e # c  BY <1>6, <1>8, <1>12, <2>2
  <2>3. QED  BY <2>1, <2>2
<1>13. Tiling(n, C \ {d})  BY <1>10, <1>11, <1>12 DEF Tiling
<1>14. QED  BY <1>13 DEF d, n

-----------------------------------------------------------------------------
(* A sound heap: the chunks C tile the memory m, the list l points to free *)
(* chunks, none twice, and the variables vs to allocated ones, none twice. *)

Sound(m, C, l, vs) ==
  /\ m \in [Words -> Int] /\ l \in [Slots -> Words \cup {Null}]
  /\ vs \in [Vars -> Words \cup {Null}]
  /\ Tiling(m, C)
  /\ \A i \in Slots : l[i] # Null => l[i] \in C /\ m[l[i]] = FREE
  /\ \A i, j \in Slots : l[i] = l[j] /\ l[i] # Null => i = j
  /\ \A v \in Vars : vs[v] # Null => vs[v] - HeaderSize \in C
                                     /\ m[vs[v] - HeaderSize] = ALLOC
  /\ \A v, w \in Vars : vs[v] = vs[w] /\ vs[v] # Null => v = w

\* No variable holds the chunk, no slot points to it.
Unheld(vs, c) == \A v \in Vars : vs[v] # Null => vs[v] - HeaderSize # c
Unlisted(l, c) == \A i \in Slots : l[i] # c

LEMMA Marks == ALLOC # FREE /\ ALLOC \in Int /\ FREE \in Int
BY DEF ALLOC, FREE

LEMMA ChunkIsWord ==
  ASSUME NEW m, NEW C, NEW l, NEW vs, Sound(m, C, l, vs), NEW c \in C
  PROVE  c \in Words /\ c \in Nat /\ c # Null
         /\ c + HeaderSize \in Words /\ c + HeaderSize # Null
<1>1. Tiling(m, C) /\ m \in [Words -> Int]  BY DEF Sound
<1>2. /\ c \in Nat /\ c \in Words /\ c + 4 \in Words /\ c % 4 = 0
      /\ m[c + 4] \in Int /\ m[c + 4] > 8 /\ m[c + 4] % 4 = 0
      /\ c + m[c + 4] <= HeapSize
  BY <1>1, Headers
<1>3. c + 8 < HeapSize /\ (c + 8) % 4 = 0 /\ c + 8 \in Nat
  <2> DEFINE z == m[c + 4]
  <2>1. z \in Int /\ z > 8 /\ c + z <= HeapSize  BY <1>2
  <2> HIDE DEF z
  <2>2. QED  BY <1>2, <2>1, Sizes4
<1>4. c + 8 \in Words  BY <1>3, Sizes4 DEF Words
<1>5. QED  BY <1>2, <1>4 DEF HeaderSize, Null

\* A variable forgets its block.
LEMMA Forgotten ==
  ASSUME NEW m, NEW C, NEW l, NEW vs, Sound(m, C, l, vs), NEW v \in Vars
  PROVE  Sound(m, C, l, [vs EXCEPT ![v] = Null])
BY DEF Sound

LEMMA ForgottenUnheld ==
  ASSUME NEW m, NEW C, NEW l, NEW vs, Sound(m, C, l, vs), NEW v \in Vars, vs[v] # Null
  PROVE  /\ vs[v] - HeaderSize \in C /\ m[vs[v] - HeaderSize] = ALLOC
         /\ Unheld([vs EXCEPT ![v] = Null], vs[v] - HeaderSize)
         /\ Unlisted(l, vs[v] - HeaderSize)
<1> DEFINE c == vs[v] - HeaderSize
           us == [vs EXCEPT ![v] = Null]
<1>1. c \in C /\ m[c] = ALLOC  BY DEF Sound
<1>2. ASSUME NEW w \in Vars, us[w] # Null PROVE us[w] - HeaderSize # c
  <2>1. w # v /\ us[w] = vs[w]  BY <1>2 DEF Sound
  <2>2. vs[w] # vs[v]  BY <1>2, <2>1 DEF Sound
  <2>3. vs[w] \in Int /\ vs[v] \in Int  BY DEF Sound, Words, Null
  <2>4. QED  BY <2>1, <2>2, <2>3 DEF HeaderSize
<1>3. ASSUME NEW i \in Slots PROVE l[i] # c
  <2>1. c # Null  BY <1>1, ChunkIsWord
  <2>2. l[i] # Null => m[l[i]] = FREE  BY DEF Sound
  <2>3. QED  BY <1>1, <2>1, <2>2, Marks
<1>4. QED  BY <1>1, <1>2, <1>3 DEF Unheld, Unlisted

\* A free chunk of the list is taken whole.
LEMMA Taken ==
  ASSUME NEW m, NEW C, NEW l, NEW vs, Sound(m, C, l, vs), NEW v \in Vars,
         NEW i \in Slots, l[i] # Null
  PROVE  Sound([m EXCEPT ![l[i]] = ALLOC], C, [l EXCEPT ![i] = Null],
               [vs EXCEPT ![v] = l[i] + HeaderSize])
<1> DEFINE c == l[i]
           n == [m EXCEPT ![c] = ALLOC]
           k == [l EXCEPT ![i] = Null]
           us == [vs EXCEPT ![v] = c + HeaderSize]
<1>1. /\ m \in [Words -> Int] /\ l \in [Slots -> Words \cup {Null}]
      /\ vs \in [Vars -> Words \cup {Null}] /\ Tiling(m, C) /\ c \in C /\ m[c] = FREE
  BY DEF Sound
<1>2. c \in Nat /\ c \in Words /\ c # Null /\ c + HeaderSize \in Words
      /\ c + HeaderSize # Null
  BY <1>1, ChunkIsWord
<1>3. n \in [Words -> Int] /\ n[c] = ALLOC /\ \A o \in Words : o # c => n[o] = m[o]
  BY <1>1, <1>2, Marks
<1>4. k \in [Slots -> Words \cup {Null}] /\ us \in [Vars -> Words \cup {Null}]
  BY <1>1, <1>2
<1>5. Tiling(n, C)  BY <1>1, Marked
<1>6. C \subseteq Words  BY ChunkIsWord
<1>7. ASSUME NEW j \in Slots, k[j] # Null PROVE k[j] \in C /\ n[k[j]] = FREE
  <2>1. j # i /\ k[j] = l[j]  BY <1>1, <1>7
  <2>2. l[j] \in C /\ m[l[j]] = FREE /\ l[j] # c  BY <1>7, <2>1 DEF Sound
  <2>3. QED  BY <1>3, <1>6, <2>1, <2>2
<1>8. \A j1, j2 \in Slots : k[j1] = k[j2] /\ k[j1] # Null => j1 = j2
  BY <1>1 DEF Sound
<1>9. ASSUME NEW w \in Vars, us[w] # Null
      PROVE  us[w] - HeaderSize \in C /\ n[us[w] - HeaderSize] = ALLOC
  <2>1. CASE w = v
    <3>1. us[w] - HeaderSize = c  BY <1>1, <1>2, <2>1 DEF HeaderSize
    <3>2. QED  BY <1>1, <1>3, <3>1
  <2>2. CASE w # v
    <3>1. us[w] = vs[w] /\ vs[w] - HeaderSize \in C /\ m[vs[w] - HeaderSize] = ALLOC
      BY <1>1, <1>9, <2>2 DEF Sound
    <3>2. QED  BY <1>1, <1>3, <1>6, <3>1, Marks
  <2>3. QED  BY <2>1, <2>2
<1>10. ASSUME NEW w \in Vars, w # v, vs[w] # Null PROVE vs[w] # c + HeaderSize
  <2>1. m[vs[w] - HeaderSize] = ALLOC  BY <1>10 DEF Sound
  <2>2. vs[w] = c + HeaderSize => vs[w] - HeaderSize = c
    BY <1>2 DEF HeaderSize
  <2>3. m[c] # ALLOC  BY <1>1, Marks
  <2>4. QED  BY <2>1, <2>2, <2>3
<1>11. \A w1, w2 \in Vars : us[w1] = us[w2] /\ us[w1] # Null => w1 = w2
  BY <1>1, <1>10 DEF Sound
<1> HIDE DEF c, n, k, us
<1>12. Sound(n, C, k, us)  BY <1>3, <1>4, <1>5, <1>7, <1>8, <1>9, <1>11 DEF Sound
<1>13. QED  BY <1>12 DEF c, n, k, us

\* A free chunk of the list is split: the lower part is taken, the upper one
\* has its slot.
LEMMA SplitSound ==
  ASSUME NEW m, NEW C, NEW l, NEW vs, Sound(m, C, l, vs), NEW v \in Vars,
         NEW i \in Slots, l[i] # Null, NEW c, c = l[i],
         NEW z \in Int, z > 8, z % 4 = 0, m[c + 4] - z > 8, NEW u, u = c + z,
         NEW n, n = Header(Header(m, c, ALLOC, z), u, FREE, m[c + 4] - z)
  PROVE  /\ Valid(u) /\ u \notin C
         /\ Sound(n, C \cup {u}, [l EXCEPT ![i] = u], [vs EXCEPT ![v] = c + HeaderSize])
         /\ n[c] = ALLOC /\ n[u] = FREE
         /\ \A d \in C : d # c => n[d] = m[d]
<1> DEFINE n1 == Header(m, c, ALLOC, z)
           k == [l EXCEPT ![i] = u]
           us == [vs EXCEPT ![v] = c + HeaderSize]
           D == C \cup {u}
<1>1. /\ m \in [Words -> Int] /\ l \in [Slots -> Words \cup {Null}]
      /\ vs \in [Vars -> Words \cup {Null}] /\ Tiling(m, C) /\ c \in C /\ m[c] = FREE
  BY DEF Sound
<1>2. c \in Nat /\ c \in Words /\ c # Null /\ c + HeaderSize \in Words
      /\ c + HeaderSize # Null
  BY <1>1, ChunkIsWord
<1>3. Valid(u) /\ u \notin C /\ Tiling(n, D)
  BY <1>1, SplitTiles
<1>4. C \subseteq Words  BY ChunkIsWord
<1>5. c + 4 \in Words /\ m[c + 4] \in Int  BY <1>1, Headers
<1>6. n1 \in [Words -> Int] /\ n1[c] = ALLOC /\ \A o \in Words : o # c /\ o # c + 4 => n1[o] = m[o]
  BY <1>1, <1>2, <1>5, Marks, HeaderIs
<1>7. u \in Words /\ u + 4 \in Words /\ m[c + 4] - z \in Int  BY <1>3, <1>5 DEF Valid
<1>8. n \in [Words -> Int] /\ n[u] = FREE
      /\ \A o \in Words : o # u /\ o # u + 4 => n[o] = n1[o]
  <2>1. n = Header(n1, u, FREE, m[c + 4] - z)  OBVIOUS
  <2> HIDE DEF n1
  <2>2. QED  BY <1>6, <1>7, <2>1, Marks, HeaderIs
<1> HIDE DEF n1
<1>9. ASSUME NEW d \in C PROVE d # u /\ d # u + 4
  <2>1. d \in Words /\ d \in D /\ u \in D /\ d # u  BY <1>3, <1>4
  <2>2. \A e \in D : e \in Nat /\ e # u => u # e + 4 /\ u + 4 # e
    <3> HIDE DEF D
    <3>1. QED  BY <1>3, <1>8, <2>1, Headers
  <2>3. d \in Nat  BY ChunkIsWord
  <2>4. QED  BY <2>1, <2>2, <2>3
<1>10. n[c] = ALLOC  BY <1>1, <1>4, <1>6, <1>8, <1>9
<1>11. ASSUME NEW d \in C, d # c PROVE n[d] = m[d]
  <2>1. d \in Nat  BY ChunkIsWord
  <2>2. d # c + 4  BY <1>1, <1>11, <2>1, Headers
  <2>3. QED  BY <1>4, <1>6, <1>8, <1>9, <1>11, <2>2
<1>12. k \in [Slots -> Words \cup {Null}] /\ us \in [Vars -> Words \cup {Null}]
  <2>1. QED  BY <1>1, <1>2, <1>7
<1>13. ASSUME NEW j \in Slots, k[j] # Null PROVE k[j] \in D /\ n[k[j]] = FREE
  <2>1. CASE j = i  BY <1>1, <1>8, <2>1
  <2>2. CASE j # i
    <3>1. k[j] = l[j]  BY <1>1, <2>2
    <3>2. l[j] \in C /\ m[l[j]] = FREE /\ l[j] # c  BY <1>13, <2>2, <3>1 DEF Sound
    <3>3. QED  BY <1>11, <3>1, <3>2
  <2>3. QED  BY <2>1, <2>2
<1>14. \A j1, j2 \in Slots : k[j1] = k[j2] /\ k[j1] # Null => j1 = j2
  <2>1. \A j \in Slots : l[j] # Null => l[j] # u  BY <1>3 DEF Sound
  <2>2. QED  BY <1>1, <2>1 DEF Sound
<1>15. ASSUME NEW w \in Vars, us[w] # Null
       PROVE  us[w] - HeaderSize \in D /\ n[us[w] - HeaderSize] = ALLOC
  <2>1. CASE w = v
    <3>1. us[w] - HeaderSize = c  BY <1>1, <1>2, <2>1 DEF HeaderSize
    <3>2. QED  BY <1>1, <1>10, <3>1
  <2>2. CASE w # v
    <3>1. us[w] = vs[w] /\ vs[w] - HeaderSize \in C /\ m[vs[w] - HeaderSize] = ALLOC
      BY <1>1, <1>15, <2>2 DEF Sound
    <3>2. QED  BY <1>1, <1>11, <3>1, Marks
  <2>3. QED  BY <2>1, <2>2
<1>16. ASSUME NEW w \in Vars, w # v, vs[w] # Null PROVE vs[w] # c + HeaderSize
  <2>1. m[vs[w] - HeaderSize] = ALLOC  BY <1>16 DEF Sound
  <2>2. vs[w] = c + HeaderSize => vs[w] - HeaderSize = c
    BY <1>2 DEF HeaderSize
  <2>3. m[c] # ALLOC  BY <1>1, Marks
  <2>4. QED  BY <2>1, <2>2, <2>3
<1>17. \A w1, w2 \in Vars : us[w1] = us[w2] /\ us[w1] # Null => w1 = w2
  BY <1>1, <1>16 DEF Sound
<1>18. Sound(n, D, k, us)
  <2> HIDE DEF k, us, D
  <2>1. QED  BY <1>3, <1>8, <1>12, <1>13, <1>14, <1>15, <1>17 DEF Sound
<1>19. QED  BY <1>3, <1>8, <1>10, <1>11, <1>18

\* A chunk that no variable holds becomes free.
LEMMA Freed ==
  ASSUME NEW m, NEW C, NEW l, NEW vs, Sound(m, C, l, vs), NEW c \in C, Unheld(vs, c)
  PROVE  Sound([m EXCEPT ![c] = FREE], C, l, vs)
<1> DEFINE n == [m EXCEPT ![c] = FREE]
<1>1. m \in [Words -> Int] /\ Tiling(m, C)  BY DEF Sound
<1>2. Tiling(n, C)  BY <1>1, Marked
<1>3. C \subseteq Words  BY ChunkIsWord
<1>4. n \in [Words -> Int] /\ n[c] = FREE /\ \A o \in Words : o # c => n[o] = m[o]
  BY <1>1, <1>3, Marks
<1>5. \A i \in Slots : l[i] # Null => l[i] \in C /\ n[l[i]] = FREE
  BY <1>3, <1>4 DEF Sound
<1>6. \A v \in Vars : vs[v] # Null => vs[v] - HeaderSize \in C
                                      /\ n[vs[v] - HeaderSize] = ALLOC
  BY <1>3, <1>4 DEF Sound, Unheld
<1> HIDE DEF n
<1>7. Sound(n, C, l, vs)  BY <1>2, <1>4, <1>5, <1>6 DEF Sound
<1>8. QED  BY <1>7 DEF n

\* A free chunk gets a slot.
LEMMA Listing ==
  ASSUME NEW m, NEW C, NEW l, NEW vs, Sound(m, C, l, vs), NEW c \in C, m[c] = FREE,
         Unlisted(l, c), NEW i \in Slots
  PROVE  Sound(m, C, [l EXCEPT ![i] = c], vs)
<1> DEFINE k == [l EXCEPT ![i] = c]
<1>1. c \in Words /\ l \in [Slots -> Words \cup {Null}]  BY ChunkIsWord DEF Sound
<1>2. k \in [Slots -> Words \cup {Null}] /\ k[i] = c /\ \A j \in Slots : j # i => k[j] = l[j]
  BY <1>1
<1>3. \A j \in Slots : k[j] # Null => k[j] \in C /\ m[k[j]] = FREE
  BY <1>2 DEF Sound
<1>4. \A j1, j2 \in Slots : k[j1] = k[j2] /\ k[j1] # Null => j1 = j2
  BY <1>2 DEF Sound, Unlisted
<1> HIDE DEF k
<1>5. Sound(m, C, k, vs)  BY <1>2, <1>3, <1>4 DEF Sound
<1>6. QED  BY <1>5 DEF k

\* The list is rearranged: each slot is null or repeats one of the old slots,
\* no two the same.
LEMMA Shifted ==
  ASSUME NEW m, NEW C, NEW l, NEW vs, Sound(m, C, l, vs),
         NEW k \in [Slots -> Words \cup {Null}], NEW from \in [Slots -> Slots],
         \A j \in Slots : k[j] # Null => k[j] = l[from[j]],
         \A j1, j2 \in Slots : k[j1] # Null /\ k[j2] # Null /\ from[j1] = from[j2] => j1 = j2
  PROVE  Sound(m, C, k, vs)
<1>1. \A j \in Slots : k[j] # Null => k[j] \in C /\ m[k[j]] = FREE
  BY DEF Sound
<1>2. ASSUME NEW j1 \in Slots, NEW j2 \in Slots, k[j1] = k[j2], k[j1] # Null
      PROVE  j1 = j2
  <2>1. l[from[j1]] = l[from[j2]] /\ l[from[j1]] # Null  BY <1>2
  <2>2. from[j1] = from[j2]  BY <2>1 DEF Sound
  <2>3. QED  BY <1>2, <2>2
<1>3. QED  BY <1>1, <1>2 DEF Sound

\* A chunk that no variable holds takes in the next, which is held by none
\* and has no slot, and is free from now on.
LEMMA MergeSound ==
  ASSUME NEW m, NEW C, NEW l, NEW vs, Sound(m, C, l, vs), NEW c \in C,
         NEW d \in C, d = c + m[c + 4], Unheld(vs, c), Unheld(vs, d), Unlisted(l, d)
  PROVE  LET n == Header(m, c, FREE, m[c + 4] + m[d + 4])
         IN  /\ Sound(n, C \ {d}, l, vs)
             /\ c \in C \ {d} /\ d \in Nat /\ d > c
             /\ n[c] = FREE /\ n[c + 4] = m[c + 4] + m[d + 4]
             /\ \A e \in C : e # c => n[e] = m[e] /\ n[e + 4] = m[e + 4]
<1> DEFINE n == Header(m, c, FREE, m[c + 4] + m[d + 4])
<1>1. m \in [Words -> Int] /\ Tiling(m, C)  BY DEF Sound
<1>2. Tiling(n, C \ {d})  BY <1>1, MergeTiles
<1>3. /\ c \in Nat /\ c \in Words /\ c + 4 \in Words
      /\ m[c + 4] \in Int /\ m[c + 4] > 8 /\ m[d + 4] \in Int /\ d \in Nat
  BY <1>1, Headers
<1>4. /\ n \in [Words -> Int] /\ n[c] = FREE /\ n[c + 4] = m[c + 4] + m[d + 4]
      /\ \A o \in Words : o # c /\ o # c + 4 => n[o] = m[o]
  BY <1>1, <1>3, HeaderIs, Marks
<1> HIDE DEF n
<1>5. d > c  BY <1>3
<1>6. ASSUME NEW e \in C, e # c PROVE n[e] = m[e] /\ n[e + 4] = m[e + 4]
  <2>1. e \in Nat /\ e \in Words /\ e + 4 \in Words /\ c # e + 4 /\ c + 4 # e
    BY <1>1, <1>6, Headers
  <2>2. e + 4 # c + 4  BY <1>3, <1>6, <2>1
  <2>3. QED  BY <1>4, <1>6, <2>1, <2>2
<1>7. ASSUME NEW i \in Slots, l[i] # Null PROVE l[i] \in C \ {d} /\ n[l[i]] = FREE
  <2>1. l[i] \in C /\ m[l[i]] = FREE /\ l[i] # d  BY <1>7 DEF Sound, Unlisted
  <2>2. QED  BY <1>4, <1>6, <2>1
<1>8. ASSUME NEW v \in Vars, vs[v] # Null
      PROVE  vs[v] - HeaderSize \in C \ {d} /\ n[vs[v] - HeaderSize] = ALLOC
  <2>1. vs[v] - HeaderSize \in C /\ m[vs[v] - HeaderSize] = ALLOC  BY <1>8 DEF Sound
  <2>2. vs[v] - HeaderSize # d /\ vs[v] - HeaderSize # c  BY <1>8 DEF Unheld
  <2>3. QED  BY <1>6, <2>1, <2>2
<1>9. Sound(n, C \ {d}, l, vs)  BY <1>2, <1>4, <1>7, <1>8 DEF Sound
<1>10. QED  BY <1>3, <1>4, <1>5, <1>6, <1>9 DEF n

-----------------------------------------------------------------------------
(* The inductive invariant of SampleHeap, and what the two heaps share.    *)

HeapInv ==
  /\ Sound(mem, ChunksOf(mem), freeList, vars)
  /\ nFree \in 0 .. FreeElems /\ stray \in BOOLEAN
  /\ status \in {"running", "exited", "crashed", "corrupted", "overflowed"}

LEMMA SoundChunks ==
  ASSUME NEW m, NEW C, NEW l, NEW vs, Sound(m, C, l, vs)
  PROVE  ChunksOf(m) = C
BY WalkIsTiling DEF Sound

LEMMA ChunksNow == Chunks = ChunksOf(mem)
BY DEF Chunks, ChunksOf, SizeOf

LEMMA SoundImplied ==
  ASSUME Sound(mem, Chunks, freeList, vars)
  PROVE  Tiled /\ BlocksApart /\ ListedAreFree
<1>1. Tiled  BY DEF Tiled, Sound, Tiling, SizeOf
<1>2. BlocksApart  BY DEF BlocksApart, Sound, Live, ChunkOf
<1>3. ListedAreFree  BY DEF ListedAreFree, Sound, Listed, FreeChunks
<1>4. QED  BY <1>1, <1>2, <1>3

LEMMA HeapImplied ==
  ASSUME HeapInv
  PROVE  HeapTypeOK /\ Tiled /\ BlocksApart /\ ListedAreFree
<1>1. Sound(mem, Chunks, freeList, vars)  BY ChunksNow DEF HeapInv
<1>2. HeapTypeOK  BY <1>1 DEF HeapInv, HeapTypeOK, Sound
<1>3. QED  BY <1>1, <1>2, SoundImplied

LEMMA SoundAtFirst ==
  ASSUME Init
  PROVE  Sound(mem, {0}, freeList, vars) /\ mem[0] = FREE
<1>1. HeapSize \in Nat /\ HeapSize % 4 = 0 /\ HeapSize > 16
  BY Sizes4, HeapAssumption DEF HeaderSize
<1>2. 0 \in Words /\ 4 \in Words /\ 0 + 4 = 4  BY <1>1 DEF Words
<1>3. [o \in Words |-> 0] \in [Words -> Int]  OBVIOUS
<1>4. /\ mem \in [Words -> Int] /\ mem[0] = FREE /\ mem[4] = HeapSize
  <2>1. PICK zeros : zeros = [o \in Words |-> 0]  OBVIOUS
  <2>2. PICK c : c = 0  OBVIOUS
  <2>3. PICK z : z = HeapSize  OBVIOUS
  <2>4. zeros \in [Words -> Int] /\ c \in Words /\ c + 4 \in Words /\ z \in Int
    BY <1>1, <1>2, <1>3, <2>1, <2>2, <2>3
  <2>5. mem = Header(zeros, c, FREE, z)  BY <2>1, <2>2, <2>3 DEF Init
  <2>6. mem \in [Words -> Int] /\ mem[c] = FREE /\ mem[c + 4] = z
    BY <2>4, <2>5, HeaderIs, Marks
  <2>7. QED  BY <2>2, <2>3, <2>6
<1>5. Tiling(mem, {0})
  BY <1>1, <1>2, <1>4, Marks DEF Tiling, Valid, HeaderSize
<1>6. /\ freeList \in [Slots -> Words \cup {Null}] /\ freeList[0] = 0
      /\ \A i \in Slots : i # 0 => freeList[i] = Null
  BY <1>2, Sizes4 DEF Init
<1>7. /\ vars \in [Vars -> Words \cup {Null}] /\ \A v \in Vars : vars[v] = Null
  BY DEF Init
<1>8. QED  BY <1>4, <1>5, <1>6, <1>7 DEF Sound

\* A malloc that finds a fit has a free chunk of the list before it.
LEMMA ChosenIsFree ==
  ASSUME NEW C, Sound(mem, C, freeList, vars), ~FitSearchCrashes
  PROVE  /\ 0 \in Slots /\ freeList[0] # Null /\ Chosen = freeList[0]
         /\ Chosen \in C /\ mem[Chosen] = FREE /\ SizeOf(Chosen) \in Int
<1>1. 0 \in Slots  BY Sizes4
<1>2. Valid(freeList[0])  BY <1>1 DEF FitSearchCrashes
<1>3. freeList[0] # Null  BY <1>2 DEF Valid, Words, Null
<1>4. freeList[0] \in C /\ mem[freeList[0]] = FREE  BY <1>1, <1>3 DEF Sound
<1>5. SizeOf(Chosen) \in Int  BY <1>2 DEF SizeOf, Chosen, Valid, Sound
<1>6. QED  BY <1>1, <1>3, <1>4, <1>5 DEF Chosen

LEMMA WholeKeeps ==
  ASSUME NEW C, Sound(mem, C, freeList, vars), NEW v \in Vars, NEW size \in Sizes,
         MallocWhole(v, size)
  PROVE  Sound(mem', C, freeList', vars')
<1>1. ~FitSearchCrashes  BY DEF MallocWhole, Fits
<1>2. /\ 0 \in Slots /\ freeList[0] # Null /\ Chosen = freeList[0]
  BY <1>1, ChosenIsFree
<1>3. /\ mem' = [mem EXCEPT ![freeList[0]] = ALLOC]
      /\ freeList' = [freeList EXCEPT ![0] = Null]
      /\ vars' = [vars EXCEPT ![v] = freeList[0] + HeaderSize]
  BY <1>2 DEF MallocWhole, BlockOf
<1>4. QED  BY <1>2, <1>3, Taken

LEMMA SplitKeeps ==
  ASSUME NEW C, Sound(mem, C, freeList, vars), NEW v \in Vars, NEW size \in Sizes,
         MallocSplit(v, size)
  PROVE  LET upper == Chosen + Lower(size)
         IN  /\ Sound(mem', C \cup {upper}, freeList', vars')
             /\ upper \notin C /\ Chosen \in C /\ upper \in Words
             /\ freeList' = [freeList EXCEPT ![0] = upper] /\ 0 \in Slots
             /\ mem'[Chosen] = ALLOC /\ mem'[upper] = FREE
             /\ \A d \in C : d # Chosen => mem'[d] = mem[d]
<1> DEFINE upper == Chosen + Lower(size)
<1>1. ~FitSearchCrashes /\ size >= 1 /\ size \in Int
  BY HeapAssumption DEF MallocSplit, Fits
<1>2. /\ 0 \in Slots /\ freeList[0] # Null /\ Chosen = freeList[0] /\ Chosen \in C
      /\ SizeOf(Chosen) \in Int
  BY <1>1, ChosenIsFree
<1>3. AdjustSize(size) \in Int /\ AdjustSize(size) % 4 = 0 /\ AdjustSize(size) >= size
  BY <1>1, Sizes4
<1>4. ~(SizeOf(Chosen) <= AdjustSize(size) + HeaderSize + MinChunk)
  BY DEF MallocSplit, TakesWhole
<1>5. /\ Lower(size) \in Int /\ Lower(size) > 8 /\ Lower(size) % 4 = 0
      /\ SizeOf(Chosen) - Lower(size) > 8
  <2> DEFINE a == AdjustSize(size)
             z == SizeOf(Chosen)
  <2>1. a \in Int /\ a % 4 = 0 /\ a >= 1 /\ z \in Int /\ ~(z <= a + 8 + MinChunk)
        /\ MinChunk >= 8 /\ MinChunk \in Int
    BY <1>1, <1>2, <1>3, <1>4, HeapAssumption DEF HeaderSize
  <2> HIDE DEF a, z
  <2>2. a + 8 \in Int /\ a + 8 > 8 /\ (a + 8) % 4 = 0 /\ z - (a + 8) > 8
    BY <2>1
  <2>3. QED  BY <2>2 DEF Lower, HeaderSize, a, z
<1>6. mem[freeList[0] + 4] - Lower(size) > 8  BY <1>2, <1>5 DEF SizeOf
<1>7. /\ mem' = Header(Header(mem, freeList[0], ALLOC, Lower(size)),
                       freeList[0] + Lower(size), FREE, mem[freeList[0] + 4] - Lower(size))
      /\ freeList' = [freeList EXCEPT ![0] = freeList[0] + Lower(size)]
      /\ vars' = [vars EXCEPT ![v] = freeList[0] + HeaderSize]
  BY <1>2 DEF MallocSplit, BlockOf, Relisted, UpperSize, SizeOf
<1>8. upper = freeList[0] + Lower(size)  BY <1>2
<1> HIDE DEF upper
<1>9. /\ Sound(mem', C \cup {upper}, freeList', vars')
      /\ Valid(upper) /\ upper \notin C
      /\ mem'[freeList[0]] = ALLOC /\ mem'[upper] = FREE
      /\ \A d \in C : d # freeList[0] => mem'[d] = mem[d]
  <2>1. PICK c : c = freeList[0]  OBVIOUS
  <2>2. PICK z : z = Lower(size)  OBVIOUS
  <2>3. mem' = Header(Header(mem, c, ALLOC, z), upper, FREE, mem[c + 4] - z)
    BY <1>7, <1>8, <2>1, <2>2
  <2>4. /\ Valid(upper) /\ upper \notin C
        /\ Sound(mem', C \cup {upper}, [freeList EXCEPT ![0] = upper],
                 [vars EXCEPT ![v] = c + HeaderSize])
        /\ mem'[c] = ALLOC /\ mem'[upper] = FREE
        /\ \A d \in C : d # c => mem'[d] = mem[d]
    <3>1. /\ z \in Int /\ z > 8 /\ z % 4 = 0 /\ mem[c + 4] - z > 8 /\ upper = c + z
          /\ freeList[0] # Null /\ 0 \in Slots
      BY <1>2, <1>5, <1>6, <1>8, <2>1, <2>2
    <3>2. QED  BY <2>1, <2>3, <3>1, SplitSound
  <2>5. QED  BY <1>7, <1>8, <2>1, <2>4
<1>10. QED  BY <1>2, <1>7, <1>8, <1>9 DEF upper, Valid

\* A command that stops the program leaves the heap as it was.
LEMMA StopKeeps ==
  ASSUME NEW C, Sound(mem, C, freeList, vars), NEW how, Stop(how)
  PROVE  Sound(mem', C, freeList', vars')
BY DEF Stop

LEMMA RefusedKeeps ==
  ASSUME NEW C, Sound(mem, C, freeList, vars), NEW v \in Vars, NEW size,
         MallocRefused(v, size)
  PROVE  Sound(mem', C, freeList', vars')
BY Forgotten DEF MallocRefused

LEMMA MallocKeeps ==
  ASSUME HeapInv, NEW v \in Vars, NEW size \in Sizes, Malloc(v, size)
  PROVE  HeapInv'
<1>1. Sound(mem, ChunksOf(mem), freeList, vars)  BY DEF HeapInv
<1>2. \E C : Sound(mem', C, freeList', vars')
  <2>1. CASE MallocCrashes(v, size) \/ MallocOverflows(v, size)
    BY <1>1, <2>1, StopKeeps DEF MallocCrashes, MallocOverflows
  <2>2. CASE MallocRefused(v, size)  BY <1>1, <2>2, RefusedKeeps
  <2>3. CASE MallocWhole(v, size)  BY <1>1, <2>3, WholeKeeps
  <2>4. CASE MallocSplit(v, size)  BY <1>1, <2>4, SplitKeeps
  <2>5. QED  BY <2>1, <2>2, <2>3, <2>4 DEF Malloc
<1>3. Sound(mem', ChunksOf(mem'), freeList', vars')  BY <1>2, SoundChunks
<1>4. nFree' \in 0 .. FreeElems
  <2>1. nFree' = nFree \/ (nFree' = nFree - 1 /\ ~(nFree - 1 <= 0))
    BY DEF Malloc, MallocCrashes, MallocOverflows, MallocRefused, MallocWhole,
           MallocSplit, Stop, SortCrashes
  <2>2. QED  BY <2>1, Sizes4 DEF HeapInv
<1>5. stray' \in BOOLEAN
  BY DEF HeapInv, Malloc, MallocCrashes, MallocOverflows, MallocRefused, MallocWhole,
         MallocSplit, Stop
<1>6. status' \in {"running", "exited", "crashed", "corrupted", "overflowed"}
  BY DEF HeapInv, Malloc, MallocCrashes, MallocOverflows, MallocRefused, MallocWhole,
         MallocSplit, Stop, Dumped
<1>7. QED  BY <1>3, <1>4, <1>5, <1>6 DEF HeapInv

-----------------------------------------------------------------------------
(* The four cases of sample2.c's myFree.                                   *)

\* A free that is not refused is of a block that is held.
LEMMA HeldBlock ==
  ASSUME NEW C, Sound(mem, C, freeList, vars), NEW v \in Vars, ~FreeRefused(v)
  PROVE  LET us == [vars EXCEPT ![v] = Null]
         IN  /\ vars[v] # Null /\ ChunkOf(v) \in C /\ mem[ChunkOf(v)] = ALLOC
             /\ Unheld(us, ChunkOf(v)) /\ Unlisted(freeList, ChunkOf(v))
             /\ Sound(mem, C, freeList, us)
BY Forgotten, ForgottenUnheld DEF FreeRefused, ChunkOf

\* What the list points to is free, and free chunks are held by no variable.
LEMMA FreeUnheld ==
  ASSUME NEW m, NEW C, NEW l, NEW vs, Sound(m, C, l, vs), NEW c, m[c] = FREE
  PROVE  Unheld(vs, c)
BY Marks DEF Sound, Unheld

LEMMA AloneKeeps ==
  ASSUME NEW C, Sound(mem, C, freeList, vars), NEW v \in Vars, ~FreeRefused(v),
         nFree \in Nat, FreeAlone(v), vars' = [vars EXCEPT ![v] = Null]
  PROVE  Sound(mem', C, freeList', vars')
<1> DEFINE c == ChunkOf(v)
           us == [vars EXCEPT ![v] = Null]
           n == [mem EXCEPT ![c] = FREE]
<1>1. /\ c \in C /\ Unheld(us, c) /\ Unlisted(freeList, c)
      /\ Sound(mem, C, freeList, us)
  BY HeldBlock
<1>2. Sound(n, C, freeList, us)
  <2> HIDE DEF c, us
  <2>1. QED  BY <1>1, Freed
<1>3. n[c] = FREE  BY <1>1 DEF Sound, Tiling, Valid
<1>4. PICK k \in 0 .. nFree :
        freeList' = [i \in Slots |-> IF i = k THEN c
                                     ELSE IF i \in k + 1 .. nFree
                                     THEN freeList[i - 1] ELSE freeList[i]]
  BY DEF FreeAlone
<1>5. nFree \in Slots /\ mem' = n /\ vars' = us  BY DEF FreeAlone
<1> DEFINE rest == [i \in Slots |-> IF i = k THEN Null
                                    ELSE IF i \in k + 1 .. nFree
                                    THEN freeList[i - 1] ELSE freeList[i]]
           from == [i \in Slots |-> IF i \in k + 1 .. nFree THEN i - 1 ELSE i]
<1>6. k \in Slots /\ Slots \subseteq Nat /\ k \in Nat  BY <1>5, Sizes4 DEF Slots
<1>7. \A i \in Slots : from[i] \in Slots
                       /\ from[i] = IF i \in k + 1 .. nFree THEN i - 1 ELSE i
  BY <1>5, <1>6, Sizes4 DEF Slots
<1>8. freeList \in [Slots -> Words \cup {Null}]  BY <1>1 DEF Sound
<1>9. \A i \in Slots : rest[i] = IF i = k THEN Null ELSE freeList[from[i]]
  BY <1>7
<1>10. rest \in [Slots -> Words \cup {Null}] /\ from \in [Slots -> Slots]
  BY <1>7, <1>8, <1>9
<1>11. freeList' = [rest EXCEPT ![k] = c]  BY <1>4, <1>6
<1> HIDE DEF c, us, n, rest, from
<1>12. ASSUME NEW i \in Slots, NEW j \in Slots, rest[i] # Null, rest[j] # Null,
              from[i] = from[j]
       PROVE  i = j
  <2>1. i # k /\ j # k  BY <1>9, <1>12
  <2>2. i \in Nat /\ j \in Nat  BY <1>6
  <2>3. QED  BY <1>5, <1>6, <1>7, <1>12, <2>1, <2>2
<1>13. Sound(n, C, rest, us)
  <2>1. \A i \in Slots : rest[i] # Null => rest[i] = freeList[from[i]]  BY <1>9
  <2>2. QED  BY <1>2, <1>10, <1>12, <2>1, Shifted
<1>14. Unlisted(rest, c)
  <2>1. c # Null  BY <1>1, ChunkIsWord
  <2>2. QED  BY <1>1, <1>7, <1>9, <2>1 DEF Unlisted
<1>15. Sound(n, C, [rest EXCEPT ![k] = c], us)
  BY <1>1, <1>3, <1>6, <1>13, <1>14, Listing
<1>16. QED  BY <1>5, <1>11, <1>15

LEMMA RightKeeps ==
  ASSUME NEW C, Sound(mem, C, freeList, vars), NEW v \in Vars, ~FreeRefused(v),
         FreeRight(v), vars' = [vars EXCEPT ![v] = Null]
  PROVE  Sound(mem', C \ {NextOf(ChunkOf(v))}, freeList', vars')
<1> DEFINE c == ChunkOf(v)
           d == NextOf(c)
           us == [vars EXCEPT ![v] = Null]
           n == Header(mem, c, FREE, SizeOf(c) + SizeOf(d))
<1>1. /\ c \in C /\ Unheld(us, c) /\ Unlisted(freeList, c)
      /\ Sound(mem, C, freeList, us)
  BY HeldBlock
<1>2. PICK i \in Slots : NextSlot(c, i) /\ freeList' = [freeList EXCEPT ![i] = c]
  BY DEF FreeRight
<1>3. mem' = n /\ vars' = us  BY DEF FreeRight
<1>4. freeList[i] = d /\ d = c + mem[c + 4]  BY <1>2 DEF NextSlot, NextOf, SizeOf
<1>5. Tiling(mem, C) /\ mem \in [Words -> Int]  BY <1>1 DEF Sound
<1>6. c \in Nat /\ mem[c + 4] \in Int /\ mem[c + 4] > 8  BY <1>1, <1>5, Headers
<1>7. d # Null  BY <1>4, <1>6 DEF Null
<1>8. d \in C /\ mem[d] = FREE  BY <1>1, <1>2, <1>4, <1>7 DEF Sound
<1> DEFINE k == [freeList EXCEPT ![i] = Null]
<1>9. freeList \in [Slots -> Words \cup {Null}]  BY <1>1 DEF Sound
<1>10. Sound(mem, C, k, us)
  <2> DEFINE from == [j \in Slots |-> j]
  <2>1. k \in [Slots -> Words \cup {Null}]  BY <1>9
  <2>2. \A j \in Slots : k[j] # Null => k[j] = freeList[from[j]]  BY <1>9
  <2>3. from \in [Slots -> Slots] /\ \A j1, j2 \in Slots : from[j1] = from[j2] => j1 = j2
    OBVIOUS
  <2> HIDE DEF k, from, us
  <2>4. QED  BY <1>1, <2>1, <2>2, <2>3, Shifted
<1>11. Unlisted(k, d) /\ Unlisted(k, c)
  <2>1. c # Null  BY <1>1, ChunkIsWord
  <2>2. ASSUME NEW j \in Slots, k[j] = d PROVE FALSE
    <3>1. j # i /\ freeList[j] = d  BY <1>7, <1>9, <2>2
    <3>2. QED  BY <1>1, <1>4, <1>7, <3>1 DEF Sound
  <2>3. \A j \in Slots : k[j] # c  BY <1>1, <1>9, <2>1 DEF Unlisted
  <2>4. QED  BY <2>2, <2>3 DEF Unlisted
<1>12. [k EXCEPT ![i] = c] = freeList'  BY <1>2, <1>9
<1>13. n = Header(mem, c, FREE, mem[c + 4] + mem[d + 4])  BY DEF SizeOf
<1> HIDE DEF c, d, us, n, k
<1>14. Unheld(us, d)  BY <1>1, <1>8, FreeUnheld
<1>15. Sound(n, C \ {d}, k, us) /\ c \in C \ {d} /\ n[c] = FREE
  BY <1>1, <1>4, <1>8, <1>10, <1>11, <1>13, <1>14, MergeSound
<1>16. Sound(n, C \ {d}, [k EXCEPT ![i] = c], us)
  BY <1>11, <1>15, Listing
<1>17. QED  BY <1>3, <1>12, <1>16 DEF d, c

LEMMA LeftKeeps ==
  ASSUME NEW C, Sound(mem, C, freeList, vars), C = Chunks, NEW v \in Vars,
         ~FreeRefused(v), FreeLeft(v), vars' = [vars EXCEPT ![v] = Null]
  PROVE  Sound(mem', C \ {ChunkOf(v)}, freeList', vars')
<1> DEFINE c == ChunkOf(v)
           us == [vars EXCEPT ![v] = Null]
<1>1. /\ c \in C /\ Unheld(us, c) /\ Unlisted(freeList, c)
      /\ Sound(mem, C, freeList, us)
  BY HeldBlock
<1>2. PICK p \in C : IsPrev(p, c) /\ mem' = Header(mem, p, FREE, SizeOf(p) + SizeOf(c))
  BY DEF FreeLeft
<1>3. c = p + mem[p + 4] /\ mem[p] = FREE  BY <1>2 DEF IsPrev, NextOf, SizeOf
<1>4. mem' = Header(mem, p, FREE, mem[p + 4] + mem[c + 4])  BY <1>2 DEF SizeOf
<1>5. freeList' = freeList /\ vars' = us  BY DEF FreeLeft
<1> HIDE DEF c, us
<1>6. Unheld(us, p)  BY <1>1, <1>3, FreeUnheld
<1>7. Sound(mem', C \ {c}, freeList, us)
  BY <1>1, <1>3, <1>4, <1>6, MergeSound
<1>8. QED  BY <1>5, <1>7 DEF c

LEMMA BothKeeps ==
  ASSUME NEW C, Sound(mem, C, freeList, vars), C = Chunks, NEW v \in Vars,
         ~FreeRefused(v), FreeBoth(v), vars' = [vars EXCEPT ![v] = Null]
  PROVE  Sound(mem', (C \ {ChunkOf(v)}) \ {NextOf(ChunkOf(v))}, freeList', vars')
<1>1. PICK c : c = ChunkOf(v)  OBVIOUS
<1>2. PICK us : us = [vars EXCEPT ![v] = Null]  OBVIOUS
<1>3. /\ c \in C /\ Unheld(us, c) /\ Unlisted(freeList, c)
      /\ Sound(mem, C, freeList, us) /\ mem[c] = ALLOC
  BY <1>1, <1>2, HeldBlock
<1>4. PICK d : d = c + mem[c + 4]  OBVIOUS
<1>5. d = NextOf(c)  BY <1>4 DEF NextOf, SizeOf
<1>6. PICK p \in C : /\ IsPrev(p, c)
                     /\ mem' = Header(mem, p, FREE, SizeOf(p) + SizeOf(c) + SizeOf(d))
  BY <1>1, <1>5 DEF FreeBoth
<1>7. c = p + mem[p + 4] /\ mem[p] = FREE  BY <1>6 DEF IsPrev, NextOf, SizeOf
<1>8. PICK i \in Slots, last \in Slots :
        /\ freeList[i] = d /\ last >= i
        /\ freeList' = [j \in Slots |-> IF j = last THEN Null
                                        ELSE IF j \in i .. last - 1
                                        THEN freeList[j + 1] ELSE freeList[j]]
  BY <1>1, <1>5 DEF FreeBoth, NextSlot
<1>9. vars' = us  BY <1>2
<1>10. Tiling(mem, C) /\ mem \in [Words -> Int]  BY <1>3 DEF Sound
<1>11. c \in Nat /\ mem[c + 4] \in Int /\ mem[c + 4] > 8  BY <1>3, <1>10, Headers
<1>12. d # Null /\ d \in Nat /\ d > c  BY <1>4, <1>11 DEF Null
<1>13. d \in C /\ mem[d] = FREE  BY <1>3, <1>8, <1>12 DEF Sound
<1>14. freeList \in [Slots -> Words \cup {Null}]  BY <1>3 DEF Sound
<1> DEFINE from == [j \in Slots |-> IF j \in i .. last - 1 THEN j + 1 ELSE j]
<1>15. Slots \subseteq Nat /\ i \in Nat /\ last \in Nat  BY Sizes4 DEF Slots
<1>16. \A j \in Slots : from[j] \in Slots
                        /\ from[j] = IF j \in i .. last - 1 THEN j + 1 ELSE j
  BY <1>15, Sizes4 DEF Slots
<1>17. \A j \in Slots : freeList'[j] = IF j = last THEN Null ELSE freeList[from[j]]
  BY <1>8, <1>16
<1>18. from \in [Slots -> Slots] /\ freeList' \in [Slots -> Words \cup {Null}]
  <2>1. from \in [Slots -> Slots]  BY <1>16
  <2>2. freeList' = [j \in Slots |-> IF j = last THEN Null ELSE freeList[from[j]]]
    BY <1>8, <1>16
  <2> HIDE DEF from
  <2>3. QED  BY <1>14, <2>1, <2>2
<1> HIDE DEF from
<1>19. ASSUME NEW j1 \in Slots, NEW j2 \in Slots, j1 # last, j2 # last,
              from[j1] = from[j2]
       PROVE  j1 = j2
  BY <1>15, <1>16, <1>19
<1>20. ASSUME NEW j \in Slots, j # last PROVE from[j] # i
  BY <1>8, <1>15, <1>16, <1>20
<1>21. PICK l : l = freeList'  OBVIOUS
<1>22. Sound(mem, C, l, us)
  <2>1. \A j \in Slots : l[j] # Null => l[j] = freeList[from[j]] /\ j # last
    BY <1>17, <1>21
  <2>2. QED  BY <1>3, <1>18, <1>19, <1>21, <2>1, Shifted
<1>23. Unlisted(l, c) /\ Unlisted(l, d)
  <2>1. c # Null  BY <1>3, ChunkIsWord
  <2>2. ASSUME NEW j \in Slots, j # last PROVE freeList[from[j]] # c /\ freeList[from[j]] # d
    <3>1. freeList[from[j]] # c  BY <1>3, <1>16 DEF Unlisted
    <3>2. from[j] # i /\ from[j] \in Slots  BY <1>16, <1>20, <2>2
    <3>3. QED  BY <1>3, <1>8, <1>12, <3>1, <3>2 DEF Sound
  <2>3. QED  BY <1>12, <1>17, <1>21, <2>1, <2>2 DEF Unlisted
<1>24. Unheld(us, p) /\ Unheld(us, d)  BY <1>3, <1>7, <1>13, FreeUnheld
<1>25. PICK n : n = Header(mem, p, FREE, mem[p + 4] + mem[c + 4])  OBVIOUS
<1>26. /\ Sound(n, C \ {c}, l, us) /\ p \in C \ {c}
       /\ n[p + 4] = mem[p + 4] + mem[c + 4]
       /\ \A e \in C : e # p => n[e] = mem[e] /\ n[e + 4] = mem[e + 4]
       /\ c > p /\ p \in Nat
  <2>1. p \in Nat  BY ChunkIsWord
  <2>2. QED  BY <1>3, <1>7, <1>22, <1>23, <1>24, <1>25, <2>1, MergeSound
<1>27. mem[p + 4] \in Int /\ mem[d + 4] \in Int  BY <1>10, <1>13, Headers
<1>28. d # p /\ d # c /\ d \in C \ {c} /\ n[d + 4] = mem[d + 4]
  BY <1>11, <1>12, <1>13, <1>26
<1>29. d = p + n[p + 4]  BY <1>4, <1>7, <1>11, <1>26, <1>27
<1>30. mem' = Header(n, p, FREE, n[p + 4] + n[d + 4])
  <2>1. mem' = Header(mem, p, FREE, mem[p + 4] + mem[c + 4] + mem[d + 4])
    BY <1>6 DEF SizeOf
  <2>2. n[p + 4] + n[d + 4] = mem[p + 4] + mem[c + 4] + mem[d + 4]  BY <1>26, <1>28
  <2>3. PICK x, y : x = mem[p + 4] + mem[c + 4] /\ y = mem[p + 4] + mem[c + 4] + mem[d + 4]
    OBVIOUS
  <2>4. p \in Words /\ p + 4 \in Words /\ p # p + 4  BY <1>10, <1>26, Headers
  <2>5. Header(Header(mem, p, FREE, x), p, FREE, y) = Header(mem, p, FREE, y)
    BY <1>10, <2>4 DEF Header
  <2>6. QED  BY <1>25, <2>1, <2>2, <2>3, <2>5
<1>31. Sound(mem', (C \ {c}) \ {d}, l, us)
  BY <1>23, <1>24, <1>26, <1>28, <1>29, <1>30, MergeSound
<1>32. QED  BY <1>1, <1>5, <1>9, <1>21, <1>31

LEMMA FreeKeeps ==
  ASSUME HeapInv, NEW v \in Vars, SampleFree(v)
  PROVE  HeapInv'
<1>1. PICK C : C = Chunks  OBVIOUS
<1>2. Sound(mem, C, freeList, vars)  BY <1>1, ChunksNow DEF HeapInv
<1>3. ~FreeRefused(v) /\ vars' = [vars EXCEPT ![v] = Null] /\ nFree \in Nat
  BY Sizes4 DEF SampleFree, HeapInv
<1>4. \E D : Sound(mem', D, freeList', vars')
  <2>1. CASE FreeAlone(v)  BY <1>2, <1>3, <2>1, AloneKeeps
  <2>2. CASE FreeRight(v)  BY <1>2, <1>3, <2>2, RightKeeps
  <2>3. CASE FreeLeft(v)  BY <1>1, <1>2, <1>3, <2>3, LeftKeeps
  <2>4. CASE FreeBoth(v)  BY <1>1, <1>2, <1>3, <2>4, BothKeeps
  <2>5. QED  BY <2>1, <2>2, <2>3, <2>4 DEF SampleFree
<1>5. Sound(mem', ChunksOf(mem'), freeList', vars')  BY <1>4, SoundChunks
<1>6. nFree' \in 0 .. FreeElems
  <2>1. nFree' = nFree \/ (nFree' = nFree + 1 /\ nFree \in Slots)
    BY DEF SampleFree, FreeAlone, FreeRight, FreeLeft, FreeBoth
  <2>2. QED  BY <2>1, Sizes4 DEF HeapInv, Slots
<1>7. stray' \in BOOLEAN
      /\ status' \in {"running", "exited", "crashed", "corrupted", "overflowed"}
  BY DEF HeapInv, SampleFree, Dumped
<1>8. QED  BY <1>5, <1>6, <1>7 DEF HeapInv

LEMMA StoppedKeeps ==
  ASSUME HeapInv, NEW how \in {"exited", "crashed", "overflowed"}, Stop(how)
  PROVE  HeapInv'
<1>1. mem' = mem /\ UNCHANGED <<freeList, nFree, stray, vars>> /\ status' = how
  BY DEF Stop
<1>2. Sound(mem', ChunksOf(mem'), freeList', vars')
  <2>1. Sound(mem, ChunksOf(mem), freeList, vars)  BY DEF HeapInv
  <2>2. QED  BY <1>1, <2>1, SoundChunks
<1>3. QED  BY <1>1, <1>2 DEF HeapInv

\* Whatever malloc and free commands sample2.c's manager is given, its heap is
\* sound after each: chunks, list and the driver's variables agree.
THEOREM HeapInvariant == SampleSpec => []HeapInv
<1>1. SampleInit => HeapInv
  <2>1. SUFFICES ASSUME Init PROVE HeapInv  BY DEF SampleInit
  <2>2. Sound(mem, {0}, freeList, vars)  BY <2>1, SoundAtFirst
  <2>3. Sound(mem, ChunksOf(mem), freeList, vars)  BY <2>2, SoundChunks
  <2>4. nFree \in 0 .. FreeElems  BY <2>1, Sizes4 DEF Init, Slots
  <2>5. QED  BY <2>1, <2>3, <2>4 DEF HeapInv, Init
<1>2. HeapInv /\ [SampleNext]_heapVars => HeapInv'
  <2>1. SUFFICES ASSUME HeapInv, [SampleNext]_heapVars PROVE HeapInv'  OBVIOUS
  <2>2. CASE UNCHANGED heapVars
    <3>1. Sound(mem, ChunksOf(mem), freeList, vars)  BY <2>1 DEF HeapInv
    <3>2. mem' = mem /\ UNCHANGED <<freeList, nFree, stray, vars, status>>
      BY <2>2 DEF heapVars
    <3>3. Sound(mem', ChunksOf(mem'), freeList', vars')  BY <3>1, <3>2, SoundChunks
    <3>4. QED  BY <2>1, <3>2, <3>3 DEF HeapInv
  <2>3. ASSUME NEW v \in Vars, NEW size \in Sizes, SampleMalloc(v, size) PROVE HeapInv'
    BY <2>1, <2>3, MallocKeeps DEF SampleMalloc
  <2>4. ASSUME NEW v \in Vars, SampleFree(v) PROVE HeapInv'
    BY <2>1, <2>4, FreeKeeps
  <2>5. ASSUME NEW v \in Vars, RejectFree(v) \/ SampleOverflows(v) PROVE HeapInv'
    BY <2>1, <2>5, StoppedKeeps DEF RejectFree, SampleOverflows
  <2>6. CASE EndOfInput
    BY <2>1, <2>6, StoppedKeeps DEF EndOfInput
  <2>7. QED  BY <2>1, <2>2, <2>3, <2>4, <2>5, <2>6 DEF SampleNext
<1>3. QED  BY <1>1, <1>2, PTL DEF SampleSpec

\* Header words, list slots, nFree and variables keep to their ranges: nFree
\* never passes the slots that initHeap allocates.
THEOREM HeapTypeCorrect == SampleSpec => []HeapTypeOK
<1>1. HeapInv => HeapTypeOK  BY HeapImplied
<1>2. QED  BY <1>1, HeapInvariant, PTL

\* dumpHeap's walk meets only marked chunks larger than a header and ends at
\* the end of the heap, after every split and all four merges.
THEOREM HeapIsTiled == SampleSpec => []Tiled
<1>1. HeapInv => Tiled  BY HeapImplied
<1>2. QED  BY <1>1, HeapInvariant, PTL

\* A block that runMalloc stored in a variable stays an allocated chunk's
\* until it is freed, and no other variable is given it.
THEOREM BlocksAreApart == SampleSpec => []BlocksApart
<1>1. HeapInv => BlocksApart  BY HeapImplied
<1>2. QED  BY <1>1, HeapInvariant, PTL

\* Below nFree the list points to free chunks of the heap, none twice, besides
\* the holes that whole allocations left.
THEOREM ListPointsToFree == SampleSpec => []ListedAreFree
<1>1. HeapInv => ListedAreFree  BY HeapImplied
<1>2. QED  BY <1>1, HeapInvariant, PTL

-----------------------------------------------------------------------------
(* The heap of myHeap.c, with its own myFree.                              *)

\* Until a store goes astray the heap is sound and nFree counts its free
\* chunks; as long as the program runs there is exactly one, in the first slot.
MyInv ==
  /\ stray \in BOOLEAN
  /\ ~stray => /\ Sound(mem, Chunks, freeList, vars)
               /\ nFree = Cardinality(FreeChunks)
               /\ status = "running" => nFree = 1 /\ FreeChunks = {freeList[0]}

LEMMA MyImplied ==
  ASSUME MyInv
  PROVE  SoundUntilStray
BY SoundImplied DEF MyInv, CountsFree, SoundUntilStray

LEMMA MyInitially ==
  ASSUME Init
  PROVE  MyInv
<1>1. Sound(mem, {0}, freeList, vars) /\ mem[0] = FREE  BY SoundAtFirst
<1>2. Chunks = {0}  BY <1>1, SoundChunks, ChunksNow
<1>3. FreeChunks = {0}  BY <1>1, <1>2 DEF FreeChunks
<1>4. freeList[0] = 0 /\ nFree = 1 /\ stray = FALSE  BY Sizes4 DEF Init
<1>5. Cardinality(FreeChunks) = 1  BY <1>3, FS_Singleton
<1>6. QED  BY <1>1, <1>2, <1>3, <1>4, <1>5 DEF MyInv

\* A step that leaves the chunks as they are and stops the program.
LEMMA MyStopped ==
  ASSUME MyInv, mem' = mem, freeList' = freeList, nFree' = nFree, stray' = stray,
         vars' = vars \/ (\E v \in Vars : vars' = [vars EXCEPT ![v] = Null]),
         status' = status \/ status' # "running"
  PROVE  MyInv'
<1>1. Chunks' = Chunks
  <2>1. Chunks' = ChunksOf(mem')  BY DEF Chunks, ChunksOf, SizeOf
  <2>2. QED  BY <2>1, ChunksNow
<1>2. FreeChunks' = FreeChunks  BY <1>1 DEF FreeChunks
<1>3. ASSUME ~stray PROVE Sound(mem, Chunks, freeList, vars')
  <2>1. Sound(mem, Chunks, freeList, vars)  BY <1>3 DEF MyInv
  <2>2. QED  BY <2>1, Forgotten
<1>4. QED  BY <1>1, <1>2, <1>3 DEF MyInv

LEMMA MyMallocKeeps ==
  ASSUME MyInv, NEW v \in Vars, NEW size \in Sizes, Malloc(v, size)
  PROVE  MyInv'
<1>1. status = "running"  BY DEF Malloc
<1>2. CASE MallocCrashes(v, size) \/ MallocOverflows(v, size)
  <2>1. /\ mem' = mem /\ freeList' = freeList /\ nFree' = nFree /\ stray' = stray
        /\ vars' = vars /\ status' # "running"
    BY <1>2 DEF MallocCrashes, MallocOverflows, Stop
  <2>2. QED  BY <2>1, MyStopped
<1>3. CASE MallocRefused(v, size)
  <2>1. /\ mem' = mem /\ freeList' = freeList /\ nFree' = nFree /\ stray' = stray
        /\ vars' = [vars EXCEPT ![v] = Null] /\ status' # "running"
    BY <1>3 DEF MallocRefused
  <2>2. QED  BY <2>1, MyStopped
<1>4. CASE stray /\ (MallocWhole(v, size) \/ MallocSplit(v, size))
  BY <1>4 DEF MyInv, MallocWhole, MallocSplit
<1>5. CASE ~stray /\ MallocWhole(v, size)
  BY <1>1, <1>5 DEF MyInv, MallocWhole, SortCrashes
<1>6. CASE ~stray /\ MallocSplit(v, size)
  <2>1. /\ Sound(mem, Chunks, freeList, vars) /\ nFree = 1 /\ FreeChunks = {freeList[0]}
    BY <1>1, <1>6 DEF MyInv
  <2>2. PICK u : u = Chosen + Lower(size)  OBVIOUS
  <2>3. /\ Sound(mem', Chunks \cup {u}, freeList', vars')
        /\ u \notin Chunks /\ Chosen \in Chunks
        /\ freeList' = [freeList EXCEPT ![0] = u] /\ 0 \in Slots
        /\ mem'[Chosen] = ALLOC /\ mem'[u] = FREE
        /\ \A d \in Chunks : d # Chosen => mem'[d] = mem[d]
    BY <1>6, <2>1, <2>2, SplitKeeps
  <2>4. Chunks' = Chunks \cup {u}
    <3>1. Chunks' = ChunksOf(mem')  BY DEF Chunks, ChunksOf, SizeOf
    <3>2. QED  BY <2>3, <3>1, SoundChunks
  <2>5. FreeChunks' = {c \in Chunks \cup {u} : mem'[c] = FREE}
    BY <2>4 DEF FreeChunks
  <2>6. \A c \in Chunks : mem[c] = FREE => c = Chosen
    BY <2>1 DEF FreeChunks, Chosen
  <2>7. FreeChunks' = {u}  BY <2>3, <2>5, <2>6, Marks
  <2>8. freeList'[0] = u  BY <2>1, <2>3 DEF Sound
  <2>9. Cardinality(FreeChunks') = 1  BY <2>7, FS_Singleton
  <2>10. nFree' = nFree /\ stray' = stray  BY <1>6 DEF MallocSplit
  <2>11. QED  BY <2>1, <2>3, <2>4, <2>7, <2>8, <2>9, <2>10 DEF MyInv
<1>7. stray \in BOOLEAN  BY DEF MyInv
<1>8. QED  BY <1>2, <1>3, <1>4, <1>5, <1>6, <1>7 DEF Malloc

\* Once a store has gone astray that is not forgotten.
Strayed(h) == "stray" \in DOMAIN h /\ h.stray = TRUE

LEMMA StoreStrayed ==
  ASSUME NEW h, Strayed(h), NEW k, NEW c
  PROVE  Strayed(Store(h, k, c))
BY DEF Store, Strayed

LEMMA RightStrayed ==
  ASSUME NEW h, Strayed(h), NEW c, NEW g \in MergeWithRight(h, c)
  PROVE  Strayed(g)
<1>1. PICK next : next = c + h.mem[c + 4]  OBVIOUS
<1>2. PICK found : found = {i \in Slots : FirstSlot(h, h.n, next, i)}  OBVIOUS
<1>3. \/ g = h
      \/ \E k : g = [Store(h, k, c) EXCEPT !.stray = TRUE]
      \/ g = [h EXCEPT !.end = "crashed"]
      \/ \E i \in found :
           g = Store([h EXCEPT !.mem[c + 4] = @ + h.mem[next + 4], !.n = @ - 1], i - 1, c)
  BY <1>1, <1>2 DEF MergeWithRight
<1>4. ASSUME NEW k PROVE Strayed([Store(h, k, c) EXCEPT !.stray = TRUE])
  <2>1. PICK f : f = Store(h, k, c)  OBVIOUS
  <2>2. Strayed(f)  BY <2>1, StoreStrayed
  <2>3. QED  BY <2>1, <2>2 DEF Strayed
<1>5. ASSUME NEW i
      PROVE  Strayed(Store([h EXCEPT !.mem[c + 4] = @ + h.mem[next + 4], !.n = @ - 1], i - 1, c))
  <2>1. PICK f : f = [h EXCEPT !.mem[c + 4] = @ + h.mem[next + 4], !.n = @ - 1]  OBVIOUS
  <2>2. Strayed(f)  BY <2>1 DEF Strayed
  <2>3. QED  BY <2>1, <2>2, StoreStrayed
<1>6. Strayed([h EXCEPT !.end = "crashed"])  BY DEF Strayed
<1>7. QED  BY <1>3, <1>4, <1>5, <1>6

LEMMA LeftStrayed ==
  ASSUME NEW h, Strayed(h), NEW c
  PROVE  Strayed(MergeWithLeft(h, c))
<1>1. \/ MergeWithLeft(h, c) = Store(h, 0, c)
      \/ MergeWithLeft(h, c) = [h EXCEPT !.end = "crashed"]
      \/ \E i, prev :
           MergeWithLeft(h, c)
           = Store([h EXCEPT !.mem[prev + 4] = @ + h.mem[c + 4], !.n = @ - 1], i, c)
  BY Zenon DEF MergeWithLeft
<1>2. ASSUME NEW i, NEW prev
      PROVE  Strayed(Store([h EXCEPT !.mem[prev + 4] = @ + h.mem[c + 4], !.n = @ - 1], i, c))
  <2>1. PICK f : f = [h EXCEPT !.mem[prev + 4] = @ + h.mem[c + 4], !.n = @ - 1]  OBVIOUS
  <2>2. Strayed(f)  BY <2>1 DEF Strayed
  <2>3. QED  BY <2>1, <2>2, StoreStrayed
<1>3. Strayed([h EXCEPT !.end = "crashed"])  BY DEF Strayed
<1>4. Strayed(Store(h, 0, c))  BY StoreStrayed
<1>5. PICK g : g = MergeWithLeft(h, c)  OBVIOUS
<1>6. CASE g = Store(h, 0, c)  BY <1>4, <1>5, <1>6
<1>7. CASE g = [h EXCEPT !.end = "crashed"]  BY <1>3, <1>5, <1>7
<1>8. CASE \E i, prev :
             g = Store([h EXCEPT !.mem[prev + 4] = @ + h.mem[c + 4], !.n = @ - 1], i, c)
  <2>1. PICK i, prev :
          g = Store([h EXCEPT !.mem[prev + 4] = @ + h.mem[c + 4], !.n = @ - 1], i, c)
    BY <1>8
  <2>2. Strayed(Store([h EXCEPT !.mem[prev + 4] = @ + h.mem[c + 4], !.n = @ - 1], i, c))
    BY <1>2
  <2> HIDE DEF Strayed
  <2>3. Strayed(g)  BY <2>1, <2>2, Zenon
  <2>4. QED  BY <1>5, <2>3
<1>9. QED  BY <1>1, <1>5, <1>6, <1>7, <1>8, Zenon

LEMMA MergedStrayed ==
  ASSUME NEW h, Strayed(h), NEW index, NEW c, NEW g \in Merged(h, index, c)
  PROVE  Strayed(g)
<1>1. \/ g = h \/ g \in MergeWithRight(h, c) \/ g = MergeWithLeft(h, c)
      \/ g \in MergeWithRight(MergeWithLeft(h, c), c)
  BY DEF Merged
<1>2. QED  BY <1>1, RightStrayed, LeftStrayed

LEMMA MyFreeKeepsStray ==
  ASSUME NEW v \in Vars, MyFree(v), stray = TRUE
  PROVE  stray' = TRUE
<1>1. PICK h0 : h0 = [mem |-> Write(mem, ChunkOf(v), FREE),
                      list |-> [freeList EXCEPT ![nFree] = ChunkOf(v)],
                      n |-> nFree + 1, stray |-> stray, end |-> "running"]
  OBVIOUS
<1>2. Strayed(h0)  BY <1>1 DEF Strayed
<1>3. PICK index, h : h \in Merged(h0, index, ChunkOf(v)) /\ stray' = h.stray
  BY <1>1 DEF MyFree
<1>4. Strayed(h)  BY <1>2, <1>3, MergedStrayed
<1>5. QED  BY <1>3, <1>4 DEF Strayed

\* The first free: the store goes astray, or the search for the next chunk
\* ends the program with both chunks in the list.
LEMMA MyFirstFree ==
  ASSUME MyInv, NEW v \in Vars, MyFree(v), ~stray, stray' # TRUE
  PROVE  /\ mem' = [mem EXCEPT ![ChunkOf(v)] = FREE]
         /\ freeList' = [freeList EXCEPT ![1] = ChunkOf(v)]
         /\ nFree' = 2 /\ vars' = [vars EXCEPT ![v] = Null] /\ status' = "crashed"
         /\ 1 \in Slots /\ stray' = FALSE
<1>1. /\ status = "running" /\ ~FreeRefused(v) /\ nFree \in Slots
  BY DEF MyFree, FreeRefused, ChunkOf
<1>2. /\ Sound(mem, Chunks, freeList, vars) /\ nFree = 1 /\ 1 \in Slots
  BY <1>1 DEF MyInv
<1>3. PICK c : c = ChunkOf(v)  OBVIOUS
<1>4. /\ c \in Chunks /\ Unlisted(freeList, c)
  BY <1>1, <1>2, <1>3, HeldBlock
<1>5. PICK l : l = [freeList EXCEPT ![1] = c]  OBVIOUS
<1>6. PICK h0 : h0 = [mem |-> [mem EXCEPT ![c] = FREE], list |-> l, n |-> 2,
                      stray |-> FALSE, end |-> "running"]
  OBVIOUS
<1>7. PICK index \in Slots :
        /\ FirstSlot(h0, FreeElems, c, index)
        /\ \E h \in Merged(h0, index, c) :
             /\ mem' = h.mem /\ freeList' = h.list /\ nFree' = h.n
             /\ stray' = h.stray
             /\ vars' = [vars EXCEPT ![v] = Null]
             /\ h.end = "crashed" => status' = "crashed"
  <2>1. stray = FALSE  BY DEF MyInv
  <2>2. ChunkOf(v) = c  BY <1>3 DEF ChunkOf, ChunkOf
  <2>3. h0 = [mem |-> Write(mem, c, FREE), list |-> [freeList EXCEPT ![nFree] = c],
              n |-> nFree + 1, stray |-> stray, end |-> "running"]
    <3>1. Write(mem, c, FREE) = [mem EXCEPT ![c] = FREE]
      BY DEF Write
    <3>2. nFree = 1 /\ nFree + 1 = 2  BY <1>2
    <3>3. QED  BY <1>5, <1>6, <2>1, <3>1, <3>2, Zenon
  <2>4. \E index \in Slots :
          /\ FirstSlot(h0, FreeElems, c, index)
          /\ \E h \in Merged(h0, index, c) :
               /\ mem' = h.mem /\ freeList' = h.list /\ nFree' = h.n
               /\ stray' = h.stray
               /\ vars' = [vars EXCEPT ![v] = Null]
               /\ h.end = "crashed" => status' = "crashed"
    BY <2>2, <2>3 DEF MyFree
  <2>5. QED  BY <2>4
<1>8. freeList \in [Slots -> Words \cup {Null}] /\ Slots \subseteq Nat
  BY <1>2 DEF Sound, Slots
<1>9. l[1] = c /\ \A j \in Slots : j # 1 => l[j] = freeList[j] /\ l[j] # c
  BY <1>2, <1>4, <1>5, <1>8 DEF Unlisted
<1>10. index = 1
  <2>1. h0.list[index] = c  BY <1>7 DEF FirstSlot
  <2>2. l[index] = c  BY <1>6, <2>1
  <2>3. QED  BY <1>9, <2>2
<1>11. PICK h \in MergeWithRight(h0, c) :
        /\ mem' = h.mem /\ freeList' = h.list /\ nFree' = h.n
        /\ stray' = h.stray
        /\ vars' = [vars EXCEPT ![v] = Null]
        /\ h.end = "crashed" => status' = "crashed"
  <2>1. Merged(h0, 1, c) = MergeWithRight(h0, c)
    BY <1>6 DEF Merged
  <2>2. QED  BY <1>7, <1>10, <2>1
<1>12. PICK next : next = c + h0.mem[c + 4]  OBVIOUS
<1>13. PICK found : found = {i \in Slots : FirstSlot(h0, h0.n, next, i)}  OBVIOUS
<1>14. next # c
  <2>1. Tiling(mem, Chunks) /\ mem \in [Words -> Int]  BY <1>2 DEF Sound
  <2>2. c \in Nat /\ c \in Words /\ c + 4 \in Words /\ mem[c + 4] \in Int /\ mem[c + 4] > 8
    BY <1>4, <2>1, Headers
  <2>3. h0.mem[c + 4] = mem[c + 4]  BY <1>6, <2>1, <2>2
  <2>4. QED  BY <1>12, <2>2, <2>3
<1>15. found \subseteq {0}
  <2>1. SUFFICES ASSUME NEW i \in found PROVE i = 0  OBVIOUS
  <2>2. i \in Slots /\ i \in 0 .. h0.n - 1 /\ h0.list[i] = next
    BY <1>13 DEF FirstSlot
  <2>3. h0.n = 2 /\ l[i] = next  BY <1>6, <2>2
  <2>4. i # 1  BY <1>9, <1>14, <2>3
  <2>5. QED  BY <2>2, <2>3, <2>4
<1>16. h = [h0 EXCEPT !.end = "crashed"] \/ h.stray = TRUE
  <2>1. h0.end # "crashed"  BY <1>6
  <2>2. \/ h = [h0 EXCEPT !.end = "crashed"]
        \/ \E k : h = [Store(h0, k, c) EXCEPT !.stray = TRUE]
        \/ \E i \in found :
             h = Store([h0 EXCEPT !.mem[c + 4] = @ + h0.mem[next + 4], !.n = @ - 1],
                          i - 1, c)
    BY <1>12, <1>13, <2>1 DEF MergeWithRight
  <2>3. ASSUME NEW k PROVE [Store(h0, k, c) EXCEPT !.stray = TRUE].stray = TRUE
    <3>1. PICK f : f = Store(h0, k, c)  OBVIOUS
    <3>2. "stray" \in DOMAIN f  BY <1>6, <3>1 DEF Store
    <3>3. QED  BY <3>1, <3>2
  <2>4. ASSUME NEW i \in found
        PROVE  Store([h0 EXCEPT !.mem[c + 4] = @ + h0.mem[next + 4], !.n = @ - 1],
                        i - 1, c).stray = TRUE
    <3>1. PICK f : f = [h0 EXCEPT !.mem[c + 4] = @ + h0.mem[next + 4], !.n = @ - 1]
      OBVIOUS
    <3>2. "stray" \in DOMAIN f  BY <1>6, <3>1
    <3>3. i - 1 \notin Slots  BY <1>8, <1>15
    <3>4. Store(f, i - 1, c) = [f EXCEPT !.stray = TRUE]  BY <3>3 DEF Store
    <3>5. QED  BY <3>1, <3>2, <3>4
  <2>5. QED  BY <2>2, <2>3, <2>4
<1>17. h = [h0 EXCEPT !.end = "crashed"]  BY <1>11, <1>16
<1>18. /\ h.end = "crashed" /\ h.stray = FALSE /\ h.mem = [mem EXCEPT ![c] = FREE] /\ h.list = l /\ h.n = 2
  BY <1>6, <1>17
<1>19. QED  BY <1>2, <1>3, <1>5, <1>11, <1>18

LEMMA MyFreeKeeps ==
  ASSUME MyInv, NEW v \in Vars, MyFree(v)
  PROVE  MyInv'
<1>1. CASE stray
  <2>1. stray = TRUE  BY <1>1 DEF MyInv
  <2>2. stray' = TRUE  BY <2>1, MyFreeKeepsStray
  <2>3. QED  BY <2>2 DEF MyInv
<1>2. CASE ~stray /\ stray' = TRUE  BY <1>2 DEF MyInv
<1>3. CASE ~stray /\ stray' # TRUE
  <2>1. PICK c : c = ChunkOf(v)  OBVIOUS
  <2>2. /\ mem' = [mem EXCEPT ![c] = FREE]
        /\ freeList' = [freeList EXCEPT ![1] = c]
        /\ nFree' = 2 /\ vars' = [vars EXCEPT ![v] = Null] /\ status' = "crashed"
        /\ 1 \in Slots /\ stray' = FALSE
    BY <1>3, <2>1, MyFirstFree
  <2>3. /\ status = "running" /\ ~FreeRefused(v)
    BY DEF MyFree, FreeRefused, ChunkOf
  <2>4. /\ Sound(mem, Chunks, freeList, vars) /\ FreeChunks = {freeList[0]}
    BY <1>3, <2>3 DEF MyInv
  <2>5. PICK us : us = [vars EXCEPT ![v] = Null]  OBVIOUS
  <2>6. /\ c \in Chunks /\ Unheld(us, c) /\ Unlisted(freeList, c) /\ mem[c] = ALLOC
        /\ Sound(mem, Chunks, freeList, us)
    BY <2>1, <2>3, <2>4, <2>5, HeldBlock
  <2>7. Sound(mem', Chunks, freeList, us)  BY <2>2, <2>6, Freed
  <2>8. /\ mem'[c] = FREE /\ Chunks \subseteq Words
        /\ \A d \in Chunks : d # c => mem'[d] = mem[d]
    BY <2>2, <2>6, ChunkIsWord DEF Sound
  <2>9. Sound(mem', Chunks, freeList', us)  BY <2>2, <2>6, <2>7, <2>8, Listing
  <2>10. Chunks' = Chunks
    <3>1. Chunks' = ChunksOf(mem')  BY DEF Chunks, ChunksOf, SizeOf
    <3>2. QED  BY <2>9, <3>1, SoundChunks
  <2>11. FreeChunks' = FreeChunks \cup {c}
    BY <2>6, <2>8, <2>10 DEF FreeChunks
  <2>12. c # freeList[0]  BY <2>6, Sizes4 DEF Unlisted
  <2>13. Cardinality(FreeChunks') = 2
    <3>1. IsFiniteSet({freeList[0]}) /\ Cardinality({freeList[0]}) = 1  BY FS_Singleton
    <3>2. c \notin {freeList[0]}  BY <2>12
    <3>3. Cardinality({freeList[0]} \cup {c}) = 2  BY <3>1, <3>2, FS_AddElement
    <3>4. QED  BY <2>4, <2>11, <3>3
  <2>14. QED  BY <2>2, <2>5, <2>9, <2>10, <2>13 DEF MyInv
<1>4. QED  BY <1>1, <1>2, <1>3

LEMMA MyInvariant == MySpec => []MyInv
<1>1. Init => MyInv  BY MyInitially
<1>2. MyInv /\ [MyNext]_(heapVars) => MyInv'
  <2>1. SUFFICES ASSUME MyInv, [MyNext]_(heapVars) PROVE MyInv'  OBVIOUS
  <2>2. CASE UNCHANGED heapVars
    <3>1. /\ mem' = mem /\ freeList' = freeList /\ nFree' = nFree /\ stray' = stray
          /\ vars' = vars /\ status' = status
      BY <2>2 DEF heapVars
    <3>2. QED  BY <2>1, <3>1, MyStopped
  <2>3. ASSUME NEW v \in Vars, NEW size \in Sizes, Malloc(v, size) PROVE MyInv'
    BY <2>1, <2>3, MyMallocKeeps
  <2>4. ASSUME NEW v \in Vars, MyFree(v) PROVE MyInv'
    BY <2>1, <2>4, MyFreeKeeps
  <2>5. ASSUME NEW v \in Vars, RejectFree(v) \/ MyOverflows(v)
        PROVE  MyInv'
    <3>1. /\ mem' = mem /\ freeList' = freeList /\ nFree' = nFree /\ stray' = stray
          /\ vars' = vars /\ status' # "running"
      BY <2>5 DEF RejectFree, MyOverflows, Stop
    <3>2. QED  BY <2>1, <3>1, MyStopped
  <2>6. CASE EndOfInput
    <3>1. /\ mem' = mem /\ freeList' = freeList /\ nFree' = nFree /\ stray' = stray
          /\ vars' = vars /\ status' # "running"
      BY <2>6 DEF EndOfInput, Stop
    <3>2. QED  BY <2>1, <3>1, MyStopped
  <2>7. QED  BY <2>1, <2>2, <2>3, <2>4, <2>5, <2>6 DEF MyNext
<1>3. QED  BY <1>1, <1>2, PTL DEF MySpec

\* Under myHeap.c's own myFree the heap is sound, and nFree is the number of
\* its free chunks, until a store to the list goes astray.
THEOREM SoundBeforeStray == MySpec => []SoundUntilStray
<1>1. MyInv => SoundUntilStray  BY MyImplied
<1>2. QED  BY <1>1, MyInvariant, PTL
=============================================================================
