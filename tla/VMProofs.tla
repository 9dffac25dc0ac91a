------------------------------ MODULE VMProofs ------------------------------
(***************************************************************************)
(* Theorems about labs/week07/vmsim.c (module VM), for every number of     *)
(* pages and frames, every input and every width of int: what its tables,  *)
(* clock and output show, that its totals agree with its tables, and that  *)
(* it implements a memory with LRU replacement (module LRU).               *)
(***************************************************************************)
EXTENDS VM, FiniteSetTheorems, FunctionTheorems, WellFoundedInduction, TLAPS

-----------------------------------------------------------------------------
(* The bound test of line 117 protects the page table.                     *)

LEMMA QuotientBelow ==
  ASSUME NEW s \in Nat \ {0}, NEW n \in Nat, NEW q \in Int, NEW r \in Nat,
         s * q + r < n * s
  PROVE  q < n
<1>1. SUFFICES ASSUME q >= n PROVE FALSE  OBVIOUS
<1>2. s * q >= s * n  BY <1>1
<1>3. QED  BY <1>2

LEMMA ProductMod ==
  ASSUME NEW a \in Nat, NEW m \in Nat \ {0}
  PROVE  a % m <= a
OBVIOUS

\* A reference that physicalAddress does not reject is to a page of the table.
LEMMA PageInTable ==
  ASSUME NEW va \in VAddrs, ~OutOfRange(va)
  PROVE  PageNo(va) \in Pages /\ va \in Nat
<1> USE VMAssumption
<1> DEFINE q == va \div PageSize
           r == va % PageSize
           total == NPages * PageSize
<1>1. va \in Nat /\ total \in Nat  OBVIOUS
<1>2. q \in Int /\ q >= 0 /\ r \in Nat /\ va = PageSize * q + r
  BY <1>1
<1>3. total % UintMod <= total  BY <1>1, ProductMod
<1>4. va < total % UintMod /\ total % UintMod \in Int  BY <1>1 DEF OutOfRange
<1>5. PageSize * q + r < NPages * PageSize
  <2> HIDE DEF q, r, total
  <2>1. va < total  BY <1>1, <1>3, <1>4
  <2>2. QED  BY <2>1, <1>2 DEF total
<1>6. q < NPages
  <2> HIDE DEF q, r, total
  <2>1. QED  BY <1>2, <1>5, QuotientBelow
<1>7. QED  BY <1>1, <1>2, <1>6 DEF PageNo, Pages

-----------------------------------------------------------------------------
(* The type invariant.                                                     *)

LEMMA AsIntType == \A n \in Int : AsInt(n) \in Int
BY VMAssumption DEF AsInt

LEMMA TranslateType ==
  ASSUME TypeOK, NEW va \in VAddrs, NEW f \in Int, clock < MaxClock,
         Translate(va, f)
  PROVE  /\ clock' \in 0 .. MaxClock
         /\ out' \in [vA : Int, pA : Int]
         /\ status' \in {"running", "invalid", "undefined", "exited"}
<1> USE VMAssumption
<1> DEFINE pA == AsInt((PageSize * f + Offset(va)) % UintMod)
<1>1. pA \in Int /\ va \in Int  BY AsIntType DEF Offset
<1>2. CASE pA < 0
  BY <1>2 DEF Translate, TypeOK
<1>3. CASE ~(pA < 0)
  BY <1>1, <1>3 DEF Translate, TypeOK
<1>4. QED  BY <1>2, <1>3

\* What the three ways of updating a page table entry leave in its fields.
LEMMA TouchedFields ==
  ASSUME TypeOK, NEW e \in EntryType, NEW action \in Actions
  PROVE  /\ Touched(e, action) \in EntryType
         /\ Touched(e, action).loaded = e.loaded
         /\ Touched(e, action).frameNo = e.frameNo
         /\ Touched(e, action).lastAccessed = AsInt(clock)
<1> DEFINE t == [e EXCEPT !.modified = @ \/ action = "W", !.lastAccessed = AsInt(clock)]
<1>1. AsInt(clock) \in Int  BY AsIntType DEF TypeOK
<1>2. (e.modified \/ action = "W") \in BOOLEAN  BY Zenon
<1>3. ASSUME NEW b \in BOOLEAN, NEW n \in Int
      PROVE  LET u == [e EXCEPT !.modified = b, !.lastAccessed = n] IN
             /\ u \in EntryType
             /\ u.loaded = e.loaded /\ u.frameNo = e.frameNo
             /\ u.lastAccessed = n
  BY DEF EntryType
<1>4. QED  BY <1>1, <1>2, <1>3, Zenon DEF Touched

LEMMA MappedFields ==
  ASSUME TypeOK, NEW e \in EntryType, NEW f \in Frames \cup {-1},
         NEW action \in Actions
  PROVE  /\ Mapped(e, f, action) \in EntryType
         /\ Mapped(e, f, action).loaded
         /\ Mapped(e, f, action).frameNo = f
         /\ Mapped(e, f, action).lastAccessed = AsInt(clock)
<1>1. ASSUME NEW t \in EntryType, t.lastAccessed = AsInt(clock)
      PROVE  LET u == [t EXCEPT !.loaded = TRUE, !.frameNo = f] IN
             /\ u \in EntryType
             /\ u.loaded /\ u.frameNo = f /\ u.lastAccessed = AsInt(clock)
  BY <1>1 DEF EntryType
<1>2. QED  BY <1>1, TouchedFields, Zenon DEF Mapped

LEMMA EvictedFields ==
  ASSUME NEW e \in EntryType
  PROVE  /\ Evicted(e) \in EntryType
         /\ ~Evicted(e).loaded /\ ~Evicted(e).modified
         /\ Evicted(e).frameNo = -1 /\ Evicted(e).lastAccessed = -1
<1> DEFINE half == [e EXCEPT !.modified = FALSE, !.loaded = FALSE]
           whole == [half EXCEPT !.lastAccessed = -1, !.frameNo = -1]
<1>1. half \in EntryType /\ ~half.loaded /\ ~half.modified
  BY DEF EntryType
<1>2. /\ whole \in EntryType
      /\ whole.loaded = half.loaded /\ whole.modified = half.modified
      /\ whole.frameNo = -1 /\ whole.lastAccessed = -1
  <2> HIDE DEF half
  <2>1. whole \in EntryType
    <3>1. ASSUME NEW h \in EntryType, NEW f \in Frames \cup {-1}, NEW n \in Int
          PROVE  [h EXCEPT !.lastAccessed = n, !.frameNo = f] \in EntryType
      BY DEF EntryType
    <3>2. -1 \in Frames \cup {-1} /\ -1 \in Int  OBVIOUS
    <3>3. QED  BY <1>1, <3>1, <3>2, Zenon
  <2>2. whole.loaded = half.loaded  BY <1>1, Zenon DEF EntryType
  <2>3. whole.modified = half.modified  BY <1>1, Zenon DEF EntryType
  <2>4. whole.frameNo = -1 /\ whole.lastAccessed = -1  BY <1>1 DEF EntryType
  <2>5. QED  BY <2>1, <2>2, <2>3, <2>4
<1>3. whole = Evicted(e)  BY Zenon DEF Evicted
<1>4. QED  BY <1>1, <1>2, <1>3, Zenon

LEMMA InitType == Init => TypeOK
BY VMAssumption DEF Init, TypeOK, EntryType, Pages, Frames

LEMMA NextType == TypeOK /\ [Next]_vars => TypeOK'
<1> SUFFICES ASSUME TypeOK, [Next]_vars PROVE TypeOK'  OBVIOUS
<1> USE VMAssumption
<1>1. CASE UNCHANGED vars
  BY <1>1 DEF TypeOK, vars, counters
<1>2. CASE EndOfInput
  BY <1>2 DEF TypeOK, EndOfInput, counters
<1>3. ASSUME NEW va \in VAddrs, NEW action \in Actions, Reference(va, action)
      PROVE  TypeOK'
  <2> DEFINE p == PageNo(va)
  <2>1. CASE InvalidAddress(va)
    BY <2>1 DEF TypeOK, InvalidAddress, counters
  <2>2. CASE NoVictim(va)
    BY <2>2 DEF TypeOK, NoVictim, counters
  <2>3. CASE Hit(va, action)
    <3>1. p \in Pages /\ clock < MaxClock
      BY <2>3, PageInTable DEF Hit, Ready
    <3>2. PageTable[p] \in EntryType /\ PageTable[p].frameNo \in Int
      BY <3>1 DEF TypeOK, EntryType, Frames
    <3>3. Touched(PageTable[p], action) \in EntryType
      BY <3>2, TouchedFields
    <3>4. PageTable' \in [Pages -> EntryType]
      BY <2>3, <3>1, <3>3 DEF Hit, TypeOK
    <3>5. Translate(va, PageTable[p].frameNo)  BY <2>3 DEF Hit
    <3>6. QED  BY <2>3, <3>1, <3>2, <3>4, <3>5, TranslateType DEF Hit, TypeOK, counters
  <2>4. CASE LoadEmpty(va, action)
    <3>1. p \in Pages /\ clock < MaxClock
      BY <2>4, PageInTable DEF LoadEmpty, Ready
    <3>2. PICK f \in Frames :
            /\ MemFrames' = [MemFrames EXCEPT ![f] = p]
            /\ PageTable' = [PageTable EXCEPT ![p] = Mapped(@, f, action)]
            /\ Translate(va, f)
      BY <2>4 DEF LoadEmpty
    <3>3. Mapped(PageTable[p], f, action) \in EntryType /\ f \in Int
      BY <3>1, MappedFields DEF TypeOK, Frames
    <3>4. PageTable' \in [Pages -> EntryType] /\ MemFrames' \in [Frames -> Pages \cup {-1}]
      BY <3>1, <3>2, <3>3 DEF TypeOK
    <3>5. nLoads' \in Nat /\ nSaves' \in Nat /\ nReplaces' \in Nat
      BY <2>4 DEF LoadEmpty, TypeOK
    <3>6. QED  BY <3>1, <3>2, <3>3, <3>4, <3>5, TranslateType DEF TypeOK
  <2>5. CASE Replace(va, action)
    <3>1. p \in Pages /\ clock < MaxClock
      BY <2>5, PageInTable DEF Replace, Ready
    <3>2. PICK v \in Pages :
            LET f == PageTable[v].frameNo IN
            /\ nSaves' = IF PageTable[v].modified THEN nSaves + 1 ELSE nSaves
            /\ MemFrames' = [MemFrames EXCEPT ![f] = p]
            /\ PageTable' = [[PageTable EXCEPT ![v] = Evicted(@)]
                               EXCEPT ![p] = Mapped(@, f, action)]
            /\ Translate(va, f)
      BY <2>5 DEF Replace
    <3> DEFINE f == PageTable[v].frameNo
               mid == [PageTable EXCEPT ![v] = Evicted(@)]
    <3>3. f \in Frames \cup {-1} /\ f \in Int  BY DEF TypeOK, EntryType, Frames
    <3>4. mid \in [Pages -> EntryType]
      BY EvictedFields DEF TypeOK
    <3>5. Mapped(mid[p], f, action) \in EntryType
      BY <3>1, <3>3, <3>4, MappedFields
    <3>6. PageTable' \in [Pages -> EntryType]
      BY <3>1, <3>2, <3>4, <3>5
    <3>7. MemFrames' \in [Frames -> Pages \cup {-1}]
      BY <3>1, <3>2 DEF TypeOK
    <3>8. nLoads' \in Nat /\ nSaves' \in Nat /\ nReplaces' \in Nat
      BY <2>5, <3>2 DEF Replace, TypeOK
    <3>9. QED  BY <3>1, <3>2, <3>3, <3>6, <3>7, <3>8, TranslateType DEF TypeOK
  <2>6. QED  BY <1>3, <2>1, <2>2, <2>3, <2>4, <2>5 DEF Reference
<1>4. QED  BY <1>1, <1>2, <1>3 DEF Next

\* The tables of vmsim.c keep the types they are declared with, frame numbers
\* and page numbers their ranges, and the clock its bound.
THEOREM TypeCorrect == Spec => []TypeOK
BY InitType, NextType, PTL DEF Spec

-----------------------------------------------------------------------------
(* The page table and the frame table are inverse to each other.  The      *)
(* lemmas say so of any two tables T and M, so that a replacement can be   *)
(* taken as an eviction followed by a load.                                *)

Table == [Pages -> EntryType]
Map   == [Frames -> Pages \cup {-1}]

InverseOf(T, M) ==
  /\ \A p \in Pages :
       IF T[p].loaded
       THEN T[p].frameNo \in Frames /\ M[T[p].frameNo] = p
       ELSE T[p].frameNo = -1 /\ T[p].lastAccessed = -1 /\ ~T[p].modified
  /\ \A f \in Frames :
       M[f] # -1 => T[M[f]].loaded /\ T[M[f]].frameNo = f

LEMMA InverseIsTablesInverse == TablesInverse <=> InverseOf(PageTable, MemFrames)
BY Zenon DEF TablesInverse, InverseOf

LEMMA TouchKeepsInverse ==
  ASSUME NEW T \in Table, NEW M \in Map, InverseOf(T, M),
         NEW p \in Pages, T[p].loaded,
         NEW e \in EntryType, e.loaded, e.frameNo = T[p].frameNo
  PROVE  InverseOf([T EXCEPT ![p] = e], M)
BY DEF Table, Map, InverseOf

LEMMA LoadKeepsInverse ==
  ASSUME NEW T \in Table, NEW M \in Map, InverseOf(T, M),
         NEW p \in Pages, ~T[p].loaded,
         NEW f \in Frames, M[f] = -1,
         NEW e \in EntryType, e.loaded, e.frameNo = f
  PROVE  InverseOf([T EXCEPT ![p] = e], [M EXCEPT ![f] = p])
<1> DEFINE U == [T EXCEPT ![p] = e]
           N == [M EXCEPT ![f] = p]
<1>0. -1 \notin Pages /\ -1 \notin Frames  BY VMAssumption DEF Pages, Frames
<1>1. ASSUME NEW q \in Pages
      PROVE  IF U[q].loaded
             THEN U[q].frameNo \in Frames /\ N[U[q].frameNo] = q
             ELSE U[q].frameNo = -1 /\ U[q].lastAccessed = -1 /\ ~U[q].modified
  BY <1>0 DEF Table, Map, InverseOf
<1>2. ASSUME NEW g \in Frames, N[g] # -1
      PROVE  U[N[g]].loaded /\ U[N[g]].frameNo = g
  BY <1>0, <1>2 DEF Table, Map, InverseOf
<1>3. QED  BY <1>1, <1>2, Zenon DEF InverseOf

LEMMA EvictKeepsInverse ==
  ASSUME NEW T \in Table, NEW M \in Map, InverseOf(T, M),
         NEW v \in Pages, T[v].loaded,
         NEW e \in EntryType, ~e.loaded, ~e.modified,
         e.frameNo = -1, e.lastAccessed = -1
  PROVE  InverseOf([T EXCEPT ![v] = e], [M EXCEPT ![T[v].frameNo] = -1])
<1> DEFINE U == [T EXCEPT ![v] = e]
           N == [M EXCEPT ![T[v].frameNo] = -1]
<1>0. -1 \notin Pages /\ -1 \notin Frames  BY VMAssumption DEF Pages, Frames
<1>1. ASSUME NEW q \in Pages
      PROVE  IF U[q].loaded
             THEN U[q].frameNo \in Frames /\ N[U[q].frameNo] = q
             ELSE U[q].frameNo = -1 /\ U[q].lastAccessed = -1 /\ ~U[q].modified
  BY <1>0 DEF Table, Map, InverseOf
<1>2. ASSUME NEW g \in Frames, N[g] # -1
      PROVE  U[N[g]].loaded /\ U[N[g]].frameNo = g
  BY <1>0, <1>2 DEF Table, Map, InverseOf
<1>3. QED  BY <1>1, <1>2, Zenon DEF InverseOf

\* The steps that change the tables, in the terms of these lemmas.
Stamped(e, f) ==
  e \in EntryType /\ e.loaded /\ e.frameNo = f /\ e.lastAccessed = AsInt(clock)

Blank(e) ==
  /\ e \in EntryType /\ ~e.loaded /\ ~e.modified
  /\ e.frameNo = -1 /\ e.lastAccessed = -1

LEMMA HitStep ==
  ASSUME TypeOK, NEW va \in VAddrs, NEW action \in Actions, Hit(va, action)
  PROVE  LET p == PageNo(va) IN
         /\ p \in Pages /\ PageTable[p].loaded
         /\ \E e \in EntryType :
              /\ Stamped(e, PageTable[p].frameNo)
              /\ PageTable' = [PageTable EXCEPT ![p] = e]
         /\ MemFrames' = MemFrames
         /\ Translate(va, PageTable[p].frameNo)
<1> DEFINE p == PageNo(va)
           e == Touched(PageTable[p], action)
<1>1. p \in Pages /\ PageTable[p].loaded
  BY PageInTable DEF Hit, Ready
<1>2. Stamped(e, PageTable[p].frameNo)
  BY <1>1, TouchedFields, Zenon DEF Stamped, TypeOK
<1>3. PageTable' = [PageTable EXCEPT ![p] = e]  BY DEF Hit
<1>4. e \in EntryType  BY <1>2 DEF Stamped
<1>5. QED  BY <1>1, <1>2, <1>3, <1>4, Zenon DEF Hit

LEMMA LoadStep ==
  ASSUME TypeOK, NEW va \in VAddrs, NEW action \in Actions, LoadEmpty(va, action)
  PROVE  LET p == PageNo(va) IN
         /\ p \in Pages /\ ~PageTable[p].loaded
         /\ \E f \in Frames, e \in EntryType :
              /\ MemFrames[f] = -1 /\ Stamped(e, f)
              /\ PageTable' = [PageTable EXCEPT ![p] = e]
              /\ MemFrames' = [MemFrames EXCEPT ![f] = p]
              /\ Translate(va, f)
<1> DEFINE p == PageNo(va)
<1>1. p \in Pages /\ ~PageTable[p].loaded
  BY PageInTable DEF LoadEmpty, Ready
<1>2. PICK f \in Frames :
        /\ MemFrames[f] = -1
        /\ MemFrames' = [MemFrames EXCEPT ![f] = p]
        /\ PageTable' = [PageTable EXCEPT ![p] = Mapped(@, f, action)]
        /\ Translate(va, f)
  BY DEF LoadEmpty, FirstEmpty
<1>3. Stamped(Mapped(PageTable[p], f, action), f)
  <2>1. PageTable[p] \in EntryType /\ f \in Frames \cup {-1}
    BY <1>1 DEF TypeOK
  <2>2. QED  BY <2>1, MappedFields, Zenon DEF Stamped
<1>4. Mapped(PageTable[p], f, action) \in EntryType  BY <1>3 DEF Stamped
<1>5. QED  BY <1>1, <1>2, <1>3, <1>4, Zenon

LEMMA ReplaceStep ==
  ASSUME TypeOK, TablesInverse,
         NEW va \in VAddrs, NEW action \in Actions, Replace(va, action)
  PROVE  LET p == PageNo(va) IN
         /\ p \in Pages /\ ~PageTable[p].loaded
         /\ \E v \in Pages, b \in EntryType, e \in EntryType :
              LET f == PageTable[v].frameNo IN
              /\ LeastRecent(v) /\ PageTable[v].loaded /\ p # v /\ f \in Frames
              /\ Blank(b) /\ Stamped(e, f)
              /\ PageTable' = [[PageTable EXCEPT ![v] = b] EXCEPT ![p] = e]
              /\ MemFrames' = [[MemFrames EXCEPT ![f] = -1] EXCEPT ![f] = p]
              /\ Translate(va, f)
<1> DEFINE p == PageNo(va)
<1>1. p \in Pages /\ ~PageTable[p].loaded
  BY PageInTable DEF Replace, Ready
<1>2. PICK v \in Pages :
        LET f == PageTable[v].frameNo IN
        /\ LeastRecent(v)
        /\ MemFrames' = [MemFrames EXCEPT ![f] = p]
        /\ PageTable' = [[PageTable EXCEPT ![v] = Evicted(@)]
                           EXCEPT ![p] = Mapped(@, f, action)]
        /\ Translate(va, f)
  BY DEF Replace
<1> DEFINE f == PageTable[v].frameNo
           b == Evicted(PageTable[v])
           e == Mapped(PageTable[p], f, action)
<1>3. PageTable[v].loaded
  BY <1>2 DEF LeastRecent, TablesInverse
<1>4. p # v  BY <1>1, <1>3
<1>5. f \in Frames  BY <1>3 DEF TablesInverse
<1>6. Blank(b)  BY EvictedFields, Zenon DEF Blank, TypeOK
<1>7. Stamped(e, f)
  <2>1. PageTable[p] \in EntryType  BY <1>1 DEF TypeOK
  <2>2. f \in Frames \cup {-1}  BY <1>5
  <2>3. QED  BY <2>1, <2>2, MappedFields, Zenon DEF Stamped
<1>8. PageTable' = [[PageTable EXCEPT ![v] = b] EXCEPT ![p] = e]
  <2>1. [PageTable EXCEPT ![v] = b][p] = PageTable[p]
    BY <1>1, <1>4, Zenon DEF TypeOK
  <2>2. PageTable' = [[PageTable EXCEPT ![v] = b] EXCEPT
                        ![p] = Mapped([PageTable EXCEPT ![v] = b][p], f, action)]
    BY <1>1, <1>2 DEF TypeOK
  <2>3. QED  BY <2>1, <2>2, Zenon
<1>9. MemFrames' = [[MemFrames EXCEPT ![f] = -1] EXCEPT ![f] = p]
  BY <1>2, <1>5 DEF TypeOK
<1>10. b \in EntryType /\ e \in EntryType  BY <1>6, <1>7 DEF Blank, Stamped
<1>11. QED  BY <1>1, <1>2, <1>3, <1>4, <1>5, <1>6, <1>7, <1>8, <1>9, <1>10, Zenon

LEMMA InitInverse == Init => TablesInverse
BY DEF Init, TablesInverse

LEMMA NextInverse == TypeOK /\ TablesInverse /\ [Next]_vars => TablesInverse'
<1> SUFFICES ASSUME TypeOK, TablesInverse, [Next]_vars PROVE TablesInverse'
  OBVIOUS
<1>1. SUFFICES InverseOf(PageTable', MemFrames')
  BY Zenon DEF TablesInverse, InverseOf
<1>2. InverseOf(PageTable, MemFrames) /\ PageTable \in Table /\ MemFrames \in Map
  BY InverseIsTablesInverse DEF TypeOK, Table, Map
<1>3. CASE UNCHANGED <<PageTable, MemFrames>>
  BY <1>2, <1>3, Zenon
<1>4. ASSUME NEW va \in VAddrs, NEW action \in Actions, Hit(va, action)
      PROVE  InverseOf(PageTable', MemFrames')
  <2> DEFINE p == PageNo(va)
  <2>1. p \in Pages /\ PageTable[p].loaded /\ MemFrames' = MemFrames
    BY <1>4, HitStep
  <2>2. PICK e \in EntryType : /\ Stamped(e, PageTable[p].frameNo)
                               /\ PageTable' = [PageTable EXCEPT ![p] = e]
    BY <1>4, HitStep
  <2>3. QED  BY <1>2, <2>1, <2>2, TouchKeepsInverse DEF Stamped
<1>5. ASSUME NEW va \in VAddrs, NEW action \in Actions, LoadEmpty(va, action)
      PROVE  InverseOf(PageTable', MemFrames')
  <2> DEFINE p == PageNo(va)
  <2>1. p \in Pages /\ ~PageTable[p].loaded  BY <1>5, LoadStep
  <2>2. PICK f \in Frames, e \in EntryType :
          /\ MemFrames[f] = -1 /\ Stamped(e, f)
          /\ PageTable' = [PageTable EXCEPT ![p] = e]
          /\ MemFrames' = [MemFrames EXCEPT ![f] = p]
    BY <1>5, LoadStep
  <2>3. QED  BY <1>2, <2>1, <2>2, LoadKeepsInverse DEF Stamped
<1>6. ASSUME NEW va \in VAddrs, NEW action \in Actions, Replace(va, action)
      PROVE  InverseOf(PageTable', MemFrames')
  <2> DEFINE p == PageNo(va)
  <2>1. p \in Pages /\ ~PageTable[p].loaded  BY <1>6, ReplaceStep
  <2>2. PICK v \in Pages, b \in EntryType, e \in EntryType :
          LET f == PageTable[v].frameNo IN
          /\ PageTable[v].loaded /\ p # v /\ f \in Frames
          /\ Blank(b) /\ Stamped(e, f)
          /\ PageTable' = [[PageTable EXCEPT ![v] = b] EXCEPT ![p] = e]
          /\ MemFrames' = [[MemFrames EXCEPT ![f] = -1] EXCEPT ![f] = p]
    BY <1>6, ReplaceStep
  <2> DEFINE f == PageTable[v].frameNo
             T == [PageTable EXCEPT ![v] = b]
             M == [MemFrames EXCEPT ![f] = -1]
  <2>3. T \in Table /\ M \in Map /\ InverseOf(T, M)
    <3>1. InverseOf(T, M)  BY <1>2, <2>2, EvictKeepsInverse DEF Blank
    <3>2. T \in Table /\ M \in Map  BY <1>2, <2>2 DEF Table, Map
    <3>3. QED  BY <3>1, <3>2
  <2>4. ~T[p].loaded /\ M[f] = -1
    BY <1>2, <2>1, <2>2 DEF Table, Map
  <2> HIDE DEF T, M
  <2>5. QED  BY <2>1, <2>2, <2>3, <2>4, LoadKeepsInverse DEF Stamped, T, M
<1>7. CASE UNCHANGED vars
  BY <1>3, <1>7 DEF vars
<1>8. CASE EndOfInput
  BY <1>3, <1>8 DEF EndOfInput
<1>9. ASSUME NEW va \in VAddrs, NEW action \in Actions, Reference(va, action)
      PROVE  InverseOf(PageTable', MemFrames')
  <2>1. CASE InvalidAddress(va)  BY <1>3, <2>1 DEF InvalidAddress
  <2>2. CASE NoVictim(va)  BY <1>3, <2>2 DEF NoVictim
  <2>3. QED  BY <1>4, <1>5, <1>6, <1>9, <2>1, <2>2 DEF Reference
<1>10. QED  BY <1>7, <1>8, <1>9 DEF Next

\* Whatever the clock does, the page table and the frame table stay inverse to
\* each other, and a page that was evicted has a blank entry again.
THEOREM TablesStayInverse == Spec => []TablesInverse
<1>1. Init => TypeOK /\ TablesInverse  BY InitType, InitInverse
<1>2. TypeOK /\ TablesInverse /\ [Next]_vars => TypeOK' /\ TablesInverse'
  BY NextType, NextInverse
<1>3. QED  BY <1>1, <1>2, PTL DEF Spec

StayPut ==
  \A p \in Resident : PageTable'[p].loaded
    => PageTable'[p].frameNo = PageTable[p].frameNo

LEMMA StepsLeaveFrames == TypeOK /\ TablesInverse /\ [Next]_vars => [StayPut]_vars
<1> SUFFICES ASSUME TypeOK, TablesInverse, Next PROVE StayPut
  OBVIOUS
<1> USE DEF StayPut, Resident
<1>1. CASE UNCHANGED PageTable  BY <1>1
<1>2. CASE EndOfInput  BY <1>1, <1>2 DEF EndOfInput
<1>3. ASSUME NEW va \in VAddrs, NEW action \in Actions, Reference(va, action)
      PROVE  StayPut
  <2> DEFINE p == PageNo(va)
  <2>1. CASE InvalidAddress(va)  BY <1>1, <2>1 DEF InvalidAddress
  <2>2. CASE NoVictim(va)  BY <1>1, <2>2 DEF NoVictim
  <2>3. CASE Hit(va, action)
    <3>1. PICK e \in EntryType : /\ Stamped(e, PageTable[p].frameNo)
                                 /\ PageTable' = [PageTable EXCEPT ![p] = e]
      BY <2>3, HitStep
    <3>2. QED  BY <3>1 DEF TypeOK, Stamped
  <2>4. CASE LoadEmpty(va, action)
    <3>1. ~PageTable[p].loaded  BY <2>4, LoadStep
    <3>2. PICK e \in EntryType : PageTable' = [PageTable EXCEPT ![p] = e]
      BY <2>4, LoadStep
    <3>3. QED  BY <3>1, <3>2 DEF TypeOK
  <2>5. CASE Replace(va, action)
    <3>1. ~PageTable[p].loaded  BY <2>5, ReplaceStep
    <3>2. PICK v \in Pages, b \in EntryType, e \in EntryType :
            /\ Blank(b)
            /\ PageTable' = [[PageTable EXCEPT ![v] = b] EXCEPT ![p] = e]
      BY <2>5, ReplaceStep
    <3>3. QED  BY <3>1, <3>2 DEF TypeOK, Blank
  <2>6. QED  BY <1>3, <2>1, <2>2, <2>3, <2>4, <2>5 DEF Reference
<1>4. QED  BY <1>2, <1>3 DEF Next

\* Pages never move between frames while they are loaded.
THEOREM PagesStayInFrames == Spec => FramesStay
<1>1. Init => TypeOK /\ TablesInverse  BY InitType, InitInverse
<1>2. TypeOK /\ TablesInverse /\ [Next]_vars => TypeOK' /\ TablesInverse'
  BY NextType, NextInverse
<1>3. TypeOK /\ TablesInverse /\ [Next]_vars => [StayPut]_vars
  BY StepsLeaveFrames
<1>4. Spec => [][StayPut]_vars
  BY <1>1, <1>2, <1>3, PTL DEF Spec
<1>5. QED  BY <1>4 DEF FramesStay, StayPut

-----------------------------------------------------------------------------
(* From here on neither the clock nor a physical address turns negative as *)
(* an int.                                                                 *)

NoWrap == 2 * MaxClock <= UintMod /\ 2 * (NFrames * PageSize) <= UintMod

LEMMA ClockIsInt ==
  ASSUME NoWrap, TypeOK, clock < MaxClock
  PROVE  AsInt(clock) = clock
BY VMAssumption DEF NoWrap, TypeOK, AsInt

LEMMA ProductBound ==
  ASSUME NEW s \in Nat \ {0}, NEW n \in Nat, NEW f \in Nat, NEW r \in Nat,
         f < n, r < s
  PROVE  s * f + r < n * s /\ s * f + r \in Nat
<1>1. s * (f + 1) <= s * n  BY SMT
<1>2. QED  BY <1>1

\* Every translation is a proper address: the clock ticks and main prints it.
LEMMA TranslateProper ==
  ASSUME NoWrap, TypeOK, NEW va \in VAddrs, NEW f \in Frames, Translate(va, f)
  PROVE  /\ clock' = clock + 1 /\ status' = status
         /\ out' = [vA |-> va, pA |-> PageSize * f + Offset(va)]
<1> USE VMAssumption
<1> DEFINE a == PageSize * f + Offset(va)
<1>1. Offset(va) \in Nat /\ Offset(va) < PageSize /\ f \in Nat /\ f < NFrames
  BY DEF Offset, Frames
<1>2. a < NFrames * PageSize /\ a \in Nat
  <2> HIDE DEF a
  <2>1. QED  BY <1>1, ProductBound DEF a
<1>3. NFrames * PageSize \in Nat  OBVIOUS
<1>4. a % UintMod = a /\ 2 * a < UintMod
  <2> HIDE DEF a
  <2>1. 2 * a < UintMod  BY <1>2, <1>3 DEF NoWrap
  <2>2. QED  BY <1>2, <2>1
<1>5. AsInt(a % UintMod) = a /\ ~(a < 0)
  <2> HIDE DEF a
  <2>1. AsInt(a) = a  BY <1>4, Zenon DEF AsInt
  <2>2. ~(a < 0)  BY <1>2
  <2>3. QED  BY <1>4, <2>1, <2>2, Zenon
<1>6. QED  BY <1>5, Zenon DEF Translate

\* The strengthening: loaded pages, and no others, carry the time of an
\* earlier reference, and no scan has failed.
Recency ==
  /\ \A p \in Resident : PageTable[p].lastAccessed \in 0 .. clock - 1
  /\ status # "undefined"

VMInv == TypeOK /\ TablesInverse /\ Recency

\* When memory is full the scans find a victim: among the loaded pages, of
\* which there is one in every frame, those accessed longest ago, and among
\* these the first.
LEMMA VictimExists ==
  ASSUME NoWrap, VMInv, clock < MaxClock, MemoryFull
  PROVE  \E v \in Pages : LeastRecent(v)
<1> USE VMAssumption
<1> DEFINE T == {PageTable[p].lastAccessed : p \in Resident}
           Less == OpToRel(<, Nat)
<1>1. T \subseteq Nat  BY DEF VMInv, Recency, TypeOK
<1>2. T # {}
  <2>1. 0 \in Frames /\ -1 \notin Pages  BY DEF Frames, Pages
  <2>2. MemFrames[0] \in Pages /\ PageTable[MemFrames[0]].loaded
    BY <2>1 DEF MemoryFull, VMInv, TypeOK, TablesInverse
  <2>3. QED  BY <2>2 DEF Resident
<1>3. PICK t \in T : \A u \in T : ~ (<<u, t>> \in Less)
  <2> HIDE DEF T, Less
  <2>1. IsWellFoundedOn(Less, Nat)  BY NatLessThanWellFounded DEF Less
  <2>2. QED  BY <1>1, <1>2, <2>1, WFMin, Zenon
<1>4. \A u \in T : t <= u
  <2>1. SUFFICES ASSUME NEW u \in T PROVE t <= u  OBVIOUS
  <2>2. t \in Nat /\ u \in Nat  BY <1>1, <1>3, <2>1
  <2>3. ~(u < t)
    <3> HIDE DEF T
    <3>1. QED  BY <1>3, <2>1, <2>2 DEF Less, OpToRel
  <2>4. QED  BY <2>2, <2>3
<1> DEFINE S == {p \in Pages : PageTable[p].lastAccessed = t}
<1>5. S \subseteq Nat /\ S # {}
  <2>1. PICK p \in Resident : PageTable[p].lastAccessed = t  BY <1>3
  <2>2. p \in S  BY <2>1 DEF Resident
  <2>3. S \subseteq Nat  BY DEF Pages
  <2>4. QED  BY <2>2, <2>3
<1>6. PICK v \in S : \A q \in S : ~ (<<q, v>> \in Less)
  <2> HIDE DEF S, Less, T
  <2>1. IsWellFoundedOn(Less, Nat)  BY NatLessThanWellFounded DEF Less
  <2>2. QED  BY <1>5, <2>1, WFMin, Zenon
<1>7. \A q \in S : ~(q < v)
  <2>1. SUFFICES ASSUME NEW q \in S PROVE ~(q < v)  OBVIOUS
  <2>2. q \in Nat /\ v \in Nat  BY <1>5, <1>6, <2>1
  <2>3. QED
    <3> HIDE DEF S, T
    <3>1. QED  BY <1>6, <2>1, <2>2 DEF Less, OpToRel
<1>8. AsInt(clock) = clock  BY ClockIsInt DEF VMInv
<1>9. v \in Pages /\ PageTable[v].lastAccessed = t /\ t \in Nat
  BY <1>1, <1>3, <1>6
<1>10. t <= clock
  <2>1. PICK p \in Resident : PageTable[p].lastAccessed = t  BY <1>3
  <2>2. t \in 0 .. clock - 1  BY <2>1 DEF VMInv, Recency
  <2>3. clock \in Int  BY DEF VMInv, TypeOK
  <2>4. QED
    <3> HIDE DEF T, S
    <3>1. QED  BY <2>2, <2>3
<1>11. ASSUME NEW q \in Pages, PageTable[q].lastAccessed # -1
       PROVE  t <= PageTable[q].lastAccessed
  <2>1. q \in Resident  BY <1>11 DEF VMInv, TablesInverse, Resident
  <2>2. QED  BY <1>4, <2>1
<1>12. ASSUME NEW q \in Pages, q < v PROVE PageTable[q].lastAccessed # t
  BY <1>7, <1>12
<1>13. LeastRecent(v)
  <2> HIDE DEF S, T
  <2>1. t # -1  BY <1>9
  <2>2. QED  BY <1>8, <1>9, <1>10, <1>11, <1>12, <2>1 DEF LeastRecent
<1>14. QED  BY <1>9, <1>13

\* Every step that translates an address: the page table afterwards has only
\* entries it had before, blank ones, and one stamped with the clock.
LEMMA TranslationStep ==
  ASSUME NoWrap, VMInv, NEW va \in VAddrs, NEW action \in Actions,
         Hit(va, action) \/ LoadEmpty(va, action) \/ Replace(va, action)
  PROVE  LET p == PageNo(va) IN
         /\ p \in Pages /\ status = "running" /\ clock < MaxClock
         /\ clock' = clock + 1 /\ status' = status
         /\ PageTable'[p].loaded /\ PageTable'[p].lastAccessed = clock
         /\ out' = [vA |-> va,
                    pA |-> PageSize * PageTable'[p].frameNo + Offset(va)]
         /\ \A q \in Pages \ {p} :
              PageTable'[q] = PageTable[q] \/ Blank(PageTable'[q])
<1> DEFINE p == PageNo(va)
<1>1. TypeOK /\ TablesInverse  BY DEF VMInv
<1>2. status = "running" /\ clock < MaxClock
  BY DEF Hit, LoadEmpty, Replace, Ready
<1>3. AsInt(clock) = clock  BY <1>1, <1>2, ClockIsInt
<1>4. CASE Hit(va, action)
  <2>1. /\ p \in Pages /\ PageTable[p].frameNo \in Frames
        /\ Translate(va, PageTable[p].frameNo)
    BY <1>1, <1>4, HitStep DEF TablesInverse
  <2>2. PICK e \in EntryType : /\ Stamped(e, PageTable[p].frameNo)
                               /\ PageTable' = [PageTable EXCEPT ![p] = e]
    BY <1>1, <1>4, HitStep
  <2>3. PageTable'[p] = e /\ \A q \in Pages \ {p} : PageTable'[q] = PageTable[q]
    BY <1>1, <2>1, <2>2 DEF TypeOK
  <2>4. /\ clock' = clock + 1 /\ status' = status
        /\ out' = [vA |-> va, pA |-> PageSize * PageTable[p].frameNo + Offset(va)]
    BY <1>1, <2>1, TranslateProper, Zenon
  <2>5. QED
    BY <1>2, <1>3, <2>1, <2>2, <2>3, <2>4, Zenon DEF Stamped
<1>5. CASE LoadEmpty(va, action)
  <2>1. p \in Pages  BY <1>1, <1>5, LoadStep
  <2>2. PICK f \in Frames, e \in EntryType :
          /\ Stamped(e, f) /\ Translate(va, f)
          /\ PageTable' = [PageTable EXCEPT ![p] = e]
    BY <1>1, <1>5, LoadStep
  <2>3. PageTable'[p] = e /\ \A q \in Pages \ {p} : PageTable'[q] = PageTable[q]
    BY <1>1, <2>1, <2>2 DEF TypeOK
  <2>4. /\ clock' = clock + 1 /\ status' = status
        /\ out' = [vA |-> va, pA |-> PageSize * f + Offset(va)]
    BY <1>1, <2>2, TranslateProper, Zenon
  <2>5. QED
    BY <1>2, <1>3, <2>1, <2>2, <2>3, <2>4, Zenon DEF Stamped
<1>6. CASE Replace(va, action)
  <2>1. p \in Pages  BY <1>1, <1>6, ReplaceStep
  <2>2. PICK v \in Pages, b \in EntryType, e \in EntryType :
          LET f == PageTable[v].frameNo IN
          /\ p # v /\ f \in Frames
          /\ Blank(b) /\ Stamped(e, f) /\ Translate(va, f)
          /\ PageTable' = [[PageTable EXCEPT ![v] = b] EXCEPT ![p] = e]
    BY <1>1, <1>6, ReplaceStep
  <2> DEFINE f == PageTable[v].frameNo
  <2>3. /\ PageTable'[p] = e /\ PageTable'[v] = b
        /\ \A q \in Pages \ {p, v} : PageTable'[q] = PageTable[q]
    BY <1>1, <2>1, <2>2 DEF TypeOK
  <2>4. /\ clock' = clock + 1 /\ status' = status
        /\ out' = [vA |-> va, pA |-> PageSize * f + Offset(va)]
    BY <1>1, <2>2, TranslateProper, Zenon
  <2>5. \A q \in Pages \ {p} : PageTable'[q] = PageTable[q] \/ Blank(PageTable'[q])
    BY <2>2, <2>3, Zenon
  <2>6. QED
    BY <1>2, <1>3, <2>1, <2>2, <2>3, <2>4, <2>5, Zenon DEF Stamped
<1>7. QED  BY <1>4, <1>5, <1>6

LEMMA InitInv == Init => VMInv
<1>1. SUFFICES ASSUME Init PROVE Recency  BY InitType, InitInverse DEF VMInv
<1>2. \A p \in Pages : PageTable[p] =
        [loaded |-> FALSE, modified |-> FALSE, frameNo |-> -1, lastAccessed |-> -1]
  BY <1>1 DEF Init
<1>3. Resident = {}  BY <1>2 DEF Resident
<1>4. status # "undefined"  BY <1>1 DEF Init
<1>5. QED  BY <1>3, <1>4 DEF Recency

LEMMA NextInv == NoWrap /\ VMInv /\ [Next]_vars => VMInv'
<1> SUFFICES ASSUME NoWrap, VMInv, [Next]_vars PROVE VMInv'
  OBVIOUS
<1>1. TypeOK' /\ TablesInverse'
  BY NextType, NextInverse DEF VMInv
<1>2. SUFFICES Recency'  BY <1>1 DEF VMInv
<1>3. CASE UNCHANGED <<PageTable, clock>> /\ status' # "undefined"
  BY <1>3 DEF VMInv, Recency, Resident
<1>4. CASE UNCHANGED vars
  BY <1>3, <1>4 DEF vars, VMInv, Recency
<1>5. CASE EndOfInput
  BY <1>3, <1>5 DEF EndOfInput
<1>6. ASSUME NEW va \in VAddrs, NEW action \in Actions, Reference(va, action)
      PROVE  Recency'
  <2>1. CASE InvalidAddress(va)
    BY <1>3, <2>1 DEF InvalidAddress
  <2>2. CASE NoVictim(va)
    <3>1. MemoryFull /\ clock < MaxClock /\ ~ \E v \in Pages : LeastRecent(v)
      BY <2>2 DEF NoVictim, Ready
    <3>2. QED  BY <3>1, VictimExists
  <2>3. CASE Hit(va, action) \/ LoadEmpty(va, action) \/ Replace(va, action)
    <3> DEFINE p == PageNo(va)
    <3>1. /\ p \in Pages /\ status = "running"
          /\ clock' = clock + 1 /\ status' = status
          /\ PageTable'[p].lastAccessed = clock
          /\ \A q \in Pages \ {p} :
               PageTable'[q] = PageTable[q] \/ Blank(PageTable'[q])
      BY <2>3, TranslationStep, Zenon
    <3>2. clock \in Nat  BY VMAssumption DEF VMInv, TypeOK
    <3>3. ASSUME NEW q \in Pages, PageTable'[q].loaded
          PROVE  PageTable'[q].lastAccessed \in 0 .. clock' - 1
      <4>1. CASE q = p
        BY <3>1, <3>2, <4>1
      <4>2. CASE q # p
        <5>1. PageTable'[q] = PageTable[q] /\ PageTable[q].loaded
          BY <3>1, <3>3, <4>2 DEF Blank
        <5>2. PageTable[q].lastAccessed \in 0 .. clock - 1
          BY <5>1 DEF VMInv, Recency, Resident
        <5>3. QED  BY <3>1, <3>2, <5>1, <5>2
      <4>3. QED  BY <4>1, <4>2
    <3>4. QED  BY <3>1, <3>3 DEF Recency, Resident
  <2>4. QED  BY <1>6, <2>1, <2>2, <2>3 DEF Reference
<1>7. QED  BY <1>4, <1>5, <1>6 DEF Next

\* As long as the clock stays an int, physicalAddress handles every page
\* fault: it never goes on with an index it did not find.
THEOREM EveryFaultHandled == NoWrap => (Spec => []FaultsHandled)
<1> SUFFICES ASSUME NoWrap PROVE Spec => []FaultsHandled  OBVIOUS
<1>1. Init => VMInv  BY InitInv
<1>2. VMInv /\ [Next]_vars => VMInv'  BY NextInv
<1>3. VMInv => FaultsHandled  BY DEF VMInv, Recency, FaultsHandled
<1>4. QED  BY <1>1, <1>2, <1>3, PTL DEF Spec

\* What LastTranslationStands rests on besides: the address main printed last
\* is one of the input, in the page table.
OutInv == out.pA # -1 => PageNo(out.vA) \in Pages

LEMMA NextOut ==
  NoWrap /\ VMInv /\ OutInv /\ LastTranslationStands /\ [Next]_vars
    => OutInv' /\ LastTranslationStands'
<1> SUFFICES ASSUME NoWrap, VMInv, OutInv, LastTranslationStands, [Next]_vars
             PROVE  OutInv' /\ LastTranslationStands'
  OBVIOUS
<1>1. CASE UNCHANGED <<PageTable, out>>
  BY <1>1 DEF OutInv, LastTranslationStands, Resident
<1>2. CASE UNCHANGED vars
  BY <1>1, <1>2 DEF vars
<1>3. CASE EndOfInput
  BY <1>1, <1>3 DEF EndOfInput
<1>4. ASSUME NEW va \in VAddrs, NEW action \in Actions, Reference(va, action)
      PROVE  OutInv' /\ LastTranslationStands'
  <2>1. CASE InvalidAddress(va)
    BY <1>1, <2>1 DEF InvalidAddress
  <2>2. CASE NoVictim(va)
    BY <1>1, <2>2 DEF NoVictim
  <2>3. CASE Hit(va, action) \/ LoadEmpty(va, action) \/ Replace(va, action)
    <3> DEFINE p == PageNo(va)
    <3>1. /\ p \in Pages /\ PageTable'[p].loaded /\ PageTable'[p].lastAccessed = clock
          /\ out' = [vA |-> va, pA |-> PageSize * PageTable'[p].frameNo + Offset(va)]
          /\ \A q \in Pages \ {p} :
               PageTable'[q] = PageTable[q] \/ Blank(PageTable'[q])
      BY <2>3, TranslationStep, Zenon
    <3>2. out'.vA = va /\ out'.pA = PageSize * PageTable'[p].frameNo + Offset(va)
      BY <3>1
    <3>3. clock \in Nat  BY VMAssumption DEF VMInv, TypeOK
    <3>4. ASSUME NEW q \in Pages, PageTable'[q].loaded
          PROVE  PageTable'[q].lastAccessed <= clock
      <4>1. CASE q = p
        BY <3>1, <3>3, <4>1
      <4>2. CASE q # p
        <5>1. PageTable'[q] = PageTable[q] /\ PageTable[q].loaded
          BY <3>1, <3>4, <4>2 DEF Blank
        <5>2. PageTable[q].lastAccessed \in 0 .. clock - 1
          BY <5>1 DEF VMInv, Recency, Resident
        <5>3. QED  BY <3>3, <5>1, <5>2
      <4>3. QED  BY <4>1, <4>2
    <3>5. OutInv'  BY <3>1, <3>2 DEF OutInv, PageNo
    <3>6. LastTranslationStands'
      BY <3>1, <3>2, <3>4 DEF LastTranslationStands, Resident, PageNo, Offset
    <3>7. QED  BY <3>5, <3>6
  <2>4. QED  BY <1>4, <2>1, <2>2, <2>3 DEF Reference
<1>5. QED  BY <1>2, <1>3, <1>4 DEF Next

\* The address printed last remains a correct translation until another one
\* is printed, and its page the one used last.
THEOREM LastTranslationCorrect == NoWrap => (Spec => []LastTranslationStands)
<1> SUFFICES ASSUME NoWrap PROVE Spec => []LastTranslationStands  OBVIOUS
<1>1. Init => VMInv /\ OutInv /\ LastTranslationStands
  <2>1. Init => out.pA = -1  BY DEF Init
  <2>2. QED  BY <2>1, InitInv DEF OutInv, LastTranslationStands
<1>2. VMInv /\ OutInv /\ LastTranslationStands /\ [Next]_vars
        => VMInv' /\ OutInv' /\ LastTranslationStands'
  BY NextInv, NextOut
<1>3. QED  BY <1>1, <1>2, PTL DEF Spec

-----------------------------------------------------------------------------
(* The loaded pages are as many as the frames in use.                      *)

LEMMA ResidentFinite ==
  /\ IsFiniteSet(Resident) /\ Cardinality(Resident) \in Nat
  /\ IsFiniteSet(Frames) /\ Cardinality(Frames) = NFrames
<1>1. IsFiniteSet(Pages) /\ IsFiniteSet(Frames) /\ Cardinality(Frames) = NFrames
  BY VMAssumption, FS_Interval DEF Pages, Frames
<1>2. Resident \in SUBSET Pages  BY DEF Resident
<1>3. QED  BY <1>1, <1>2, FS_Subset, FS_CardinalityType

LEMMA FullMemory ==
  ASSUME TypeOK, TablesInverse, MemoryFull
  PROVE  Cardinality(Resident) = NFrames
<1>0. -1 \notin Pages /\ -1 \notin Frames  BY VMAssumption DEF Pages, Frames
<1> DEFINE held == [f \in Frames |-> MemFrames[f]]
<1>1. ASSUME NEW f \in Frames
      PROVE  MemFrames[f] \in Resident /\ PageTable[MemFrames[f]].frameNo = f
  BY <1>0 DEF MemoryFull, TypeOK, TablesInverse, Resident
<1>2. held \in Injection(Frames, Resident)
  <2>1. held \in [Frames -> Resident]  BY <1>1
  <2>2. \A f, g \in Frames : held[f] = held[g] => f = g  BY <1>1
  <2> HIDE DEF held
  <2>3. QED  BY <2>1, <2>2 DEF Injection, IsInjective
<1>3. held \in Surjection(Frames, Resident)
  <2>1. held \in [Frames -> Resident]  BY <1>1
  <2>2. \A p \in Resident : \E f \in Frames : held[f] = p
    BY DEF Resident, TablesInverse
  <2> HIDE DEF held
  <2>3. QED  BY <2>1, <2>2 DEF Surjection
<1> HIDE DEF held
<1>4. Cardinality(Frames) = Cardinality(Resident)
  BY <1>2, <1>3, ResidentFinite, FS_Injection
<1>5. QED  BY <1>4, ResidentFinite

LEMMA RoomInMemory ==
  ASSUME TypeOK, TablesInverse, NEW f \in Frames, MemFrames[f] = -1
  PROVE  Cardinality(Resident) < NFrames
<1>0. -1 \notin Pages /\ -1 \notin Frames  BY VMAssumption DEF Pages, Frames
<1> DEFINE placed == [p \in Resident |-> PageTable[p].frameNo]
<1>1. ASSUME NEW p \in Resident
      PROVE  PageTable[p].frameNo \in Frames \ {f} /\ MemFrames[PageTable[p].frameNo] = p
  BY <1>0 DEF TablesInverse, Resident
<1>2. placed \in Injection(Resident, Frames \ {f})
  <2>1. placed \in [Resident -> Frames \ {f}]  BY <1>1
  <2>2. \A p, q \in Resident : placed[p] = placed[q] => p = q  BY <1>1
  <2> HIDE DEF placed
  <2>3. QED  BY <2>1, <2>2 DEF Injection, IsInjective
<1> HIDE DEF placed
<1>3. IsFiniteSet(Frames \ {f}) /\ Cardinality(Frames \ {f}) = NFrames - 1
  BY ResidentFinite, FS_RemoveElement
<1>4. Cardinality(Resident) <= Cardinality(Frames \ {f})
  BY <1>2, <1>3, FS_Injection
<1>5. QED  BY <1>3, <1>4, ResidentFinite, VMAssumption

LEMMA ResidentBound ==
  ASSUME TypeOK, TablesInverse
  PROVE  Cardinality(Resident) <= NFrames
<1>1. CASE MemoryFull
  BY <1>1, FullMemory, VMAssumption
<1>2. CASE ~MemoryFull
  BY <1>2, RoomInMemory, ResidentFinite, VMAssumption DEF MemoryFull
<1>3. QED  BY <1>1, <1>2

-----------------------------------------------------------------------------
(* What the three paths of physicalAddress do to the loaded pages.         *)

LEMMA ModifiedFields ==
  ASSUME NEW e \in EntryType, NEW f \in Frames \cup {-1}, NEW action \in Actions
  PROVE  /\ Touched(e, action).modified <=> e.modified \/ action = "W"
         /\ Mapped(e, f, action).modified <=> e.modified \/ action = "W"
<1> DEFINE b == e.modified \/ action = "W"
<1>1. DOMAIN e = {"loaded", "modified", "frameNo", "lastAccessed"}
  BY DEF EntryType
<1>2. Touched(e, action).modified = b  BY <1>1, Zenon DEF Touched
<1>3. DOMAIN Touched(e, action) = DOMAIN e  BY Zenon DEF Touched
<1>4. Mapped(e, f, action).modified = Touched(e, action).modified
  BY <1>1, <1>3, Zenon DEF Mapped
<1>5. QED  BY <1>2, <1>4, Zenon

\* p is loaded afterwards, besides the pages of R, which are as they were.
Uses(p, R, write) ==
  /\ p \in Pages /\ R \subseteq Resident
  /\ Resident' = R \cup {p}
  /\ \A q \in R \ {p} : PageTable'[q] = PageTable[q]
  /\ PageTable'[p].lastAccessed = AsInt(clock)
  /\ PageTable'[p].modified <=> (PageTable[p].modified \/ write)

LEMMA HitUses ==
  ASSUME TypeOK, TablesInverse, NEW va \in VAddrs, NEW action \in Actions,
         Hit(va, action)
  PROVE  /\ Uses(PageNo(va), Resident, action = "W") /\ PageNo(va) \in Resident
         /\ UNCHANGED <<MemFrames, nLoads, nSaves, nReplaces>>
<1> DEFINE p == PageNo(va)
           e == Touched(PageTable[p], action)
<1>1. p \in Pages /\ PageTable[p].loaded
  BY PageInTable DEF Hit, Ready
<1>2. PageTable[p] \in EntryType  BY <1>1 DEF TypeOK
<1>3. e \in EntryType /\ e.loaded /\ e.lastAccessed = AsInt(clock)
  BY <1>1, <1>2, TouchedFields, Zenon
<1>4. -1 \in Frames \cup {-1}  OBVIOUS
<1>5. e.modified <=> PageTable[p].modified \/ action = "W"
  BY <1>2, <1>4, ModifiedFields, Zenon
<1>6. PageTable' = [PageTable EXCEPT ![p] = e]  BY DEF Hit
<1> HIDE DEF e
<1>7. PageTable'[p] = e /\ \A q \in Pages \ {p} : PageTable'[q] = PageTable[q]
  BY <1>1, <1>6 DEF TypeOK
<1>8. Resident' = Resident \cup {p} /\ p \in Resident
  BY <1>1, <1>3, <1>7, Zenon DEF Resident
<1>9. Resident \subseteq Pages  BY DEF Resident
<1>10. UNCHANGED <<MemFrames, nLoads, nSaves, nReplaces>>  BY DEF Hit, counters
<1>11. QED  BY <1>1, <1>3, <1>5, <1>7, <1>8, <1>9, <1>10, Zenon DEF Uses

LEMMA LoadUses ==
  ASSUME TypeOK, TablesInverse, NEW va \in VAddrs, NEW action \in Actions,
         LoadEmpty(va, action)
  PROVE  /\ Uses(PageNo(va), Resident, action = "W") /\ PageNo(va) \notin Resident
         /\ \E f \in Frames : MemFrames[f] = -1
         /\ nLoads' = nLoads + 1 /\ UNCHANGED <<nSaves, nReplaces>>
<1> DEFINE p == PageNo(va)
<1>1. p \in Pages /\ ~PageTable[p].loaded
  BY PageInTable DEF LoadEmpty, Ready
<1>2. PageTable[p] \in EntryType  BY <1>1 DEF TypeOK
<1>3. PICK f \in Frames :
        MemFrames[f] = -1 /\ PageTable' = [PageTable EXCEPT ![p] = Mapped(@, f, action)]
  BY DEF LoadEmpty, FirstEmpty
<1> DEFINE e == Mapped(PageTable[p], f, action)
<1>4. f \in Frames \cup {-1}  BY <1>3
<1>5. e \in EntryType /\ e.loaded /\ e.lastAccessed = AsInt(clock)
  BY <1>2, <1>4, MappedFields, Zenon
<1>6. e.modified <=> PageTable[p].modified \/ action = "W"
  <2>1. \A g \in Frames \cup {-1} :
          Mapped(PageTable[p], g, action).modified
            <=> PageTable[p].modified \/ action = "W"
    BY <1>2, ModifiedFields, Zenon
  <2>2. QED  BY <1>4, <2>1, Zenon
<1>7. PageTable' = [PageTable EXCEPT ![p] = e]  BY <1>3
<1> HIDE DEF e
<1>8. PageTable'[p] = e /\ \A q \in Pages \ {p} : PageTable'[q] = PageTable[q]
  BY <1>1, <1>7 DEF TypeOK
<1>9. Resident' = Resident \cup {p} /\ p \notin Resident
  BY <1>1, <1>5, <1>8, Zenon DEF Resident
<1>10. Resident \subseteq Pages  BY DEF Resident
<1>11. nLoads' = nLoads + 1 /\ UNCHANGED <<nSaves, nReplaces>>  BY DEF LoadEmpty
<1>12. QED  BY <1>1, <1>3, <1>5, <1>6, <1>8, <1>9, <1>10, <1>11, Zenon DEF Uses

LEMMA ReplaceUses ==
  ASSUME TypeOK, TablesInverse, NEW va \in VAddrs, NEW action \in Actions,
         Replace(va, action)
  PROVE  /\ PageNo(va) \notin Resident /\ MemoryFull /\ MemoryFull'
         /\ \E v \in Resident :
              /\ Uses(PageNo(va), Resident \ {v}, action = "W") /\ LeastRecent(v)
              /\ nSaves' = IF PageTable[v].modified THEN nSaves + 1 ELSE nSaves
         /\ nLoads' = nLoads + 1 /\ nReplaces' = nReplaces + 1
<1> DEFINE p == PageNo(va)
<1>1. p \in Pages /\ ~PageTable[p].loaded
  BY PageInTable DEF Replace, Ready
<1>2. PageTable[p] \in EntryType  BY <1>1 DEF TypeOK
<1>3. PICK v \in Pages :
        LET f == PageTable[v].frameNo IN
        /\ LeastRecent(v)
        /\ nSaves' = IF PageTable[v].modified THEN nSaves + 1 ELSE nSaves
        /\ MemFrames' = [MemFrames EXCEPT ![f] = p]
        /\ PageTable' = [[PageTable EXCEPT ![v] = Evicted(@)]
                           EXCEPT ![p] = Mapped(@, f, action)]
  BY DEF Replace
<1> DEFINE f == PageTable[v].frameNo
           b == Evicted(PageTable[v])
           e == Mapped(PageTable[p], f, action)
<1>4. PageTable[v].loaded  BY <1>3 DEF LeastRecent, TablesInverse
<1>5. p # v  BY <1>1, <1>4
<1>6. f \in Frames \cup {-1}  BY <1>4 DEF TablesInverse
<1>7. e \in EntryType /\ e.loaded /\ e.lastAccessed = AsInt(clock)
  BY <1>2, <1>6, MappedFields, Zenon
<1>8. e.modified <=> PageTable[p].modified \/ action = "W"
  <2>1. \A g \in Frames \cup {-1} :
          Mapped(PageTable[p], g, action).modified
            <=> PageTable[p].modified \/ action = "W"
    BY <1>2, ModifiedFields, Zenon
  <2>2. QED  BY <1>6, <2>1, Zenon
<1>9. PageTable[v] \in EntryType  BY DEF TypeOK
<1>10. b \in EntryType /\ ~b.loaded  BY <1>9, EvictedFields, Zenon
<1>11. PageTable' = [[PageTable EXCEPT ![v] = b] EXCEPT ![p] = e]
  <2>1. [PageTable EXCEPT ![v] = b][p] = PageTable[p]
    BY <1>1, <1>5, Zenon DEF TypeOK
  <2>2. PageTable' = [[PageTable EXCEPT ![v] = b] EXCEPT
                        ![p] = Mapped([PageTable EXCEPT ![v] = b][p], f, action)]
    BY <1>1, <1>3 DEF TypeOK
  <2>3. QED  BY <2>1, <2>2, Zenon
<1>12. MemoryFull /\ MemoryFull'
  <2>1. MemoryFull /\ p # -1  BY <1>1, VMAssumption DEF Replace, Pages
  <2>2. QED  BY <1>3, <2>1 DEF MemoryFull, TypeOK
<1> HIDE DEF e, b
<1>13. /\ PageTable'[p] = e /\ PageTable'[v] = b
       /\ \A q \in Pages \ {p, v} : PageTable'[q] = PageTable[q]
  BY <1>1, <1>5, <1>11 DEF TypeOK
<1>14. Resident' = (Resident \ {v}) \cup {p} /\ p \notin Resident /\ v \in Resident
  BY <1>1, <1>4, <1>7, <1>10, <1>13, Zenon DEF Resident
<1>15. \A q \in (Resident \ {v}) \ {p} : PageTable'[q] = PageTable[q]
  BY <1>13 DEF Resident
<1>16. Uses(p, Resident \ {v}, action = "W")
  BY <1>1, <1>7, <1>8, <1>13, <1>14, <1>15, Zenon DEF Uses
<1>17. nLoads' = nLoads + 1 /\ nReplaces' = nReplaces + 1  BY DEF Replace
<1>18. QED  BY <1>3, <1>12, <1>14, <1>16, <1>17, Zenon

-----------------------------------------------------------------------------
(* The totals.                                                             *)

LEMMA InitTotals == Init => TotalsAgree
<1> SUFFICES ASSUME Init PROVE TotalsAgree  OBVIOUS
<1>1. Resident = {}  BY DEF Init, Resident
<1>2. Cardinality(Resident) = 0  BY <1>1, FS_EmptySet
<1>3. nLoads = 0 /\ nReplaces = 0 /\ nSaves = 0  BY DEF Init
<1>4. QED  BY <1>2, <1>3 DEF TotalsAgree

LEMMA NextTotals ==
  TypeOK /\ TablesInverse /\ TotalsAgree /\ [Next]_vars => TotalsAgree'
<1> SUFFICES ASSUME TypeOK, TablesInverse, TotalsAgree, [Next]_vars
             PROVE  TotalsAgree'
  OBVIOUS
<1>0. nLoads \in Nat /\ nSaves \in Nat /\ nReplaces \in Nat
  BY DEF TypeOK
<1>1. CASE UNCHANGED <<PageTable, MemFrames, counters>>
  BY <1>1 DEF TotalsAgree, Resident, counters
<1>2. CASE UNCHANGED vars
  BY <1>1, <1>2 DEF vars
<1>3. CASE EndOfInput
  BY <1>1, <1>3 DEF EndOfInput
<1>4. ASSUME NEW va \in VAddrs, NEW action \in Actions, Reference(va, action)
      PROVE  TotalsAgree'
  <2> DEFINE p == PageNo(va)
  <2>1. CASE InvalidAddress(va)
    BY <1>1, <2>1 DEF InvalidAddress
  <2>2. CASE NoVictim(va)
    BY <1>1, <2>2 DEF NoVictim
  <2>3. CASE Hit(va, action)
    <3>1. Uses(p, Resident, action = "W") /\ p \in Resident
      BY <2>3, HitUses, Zenon
    <3>2. Resident' = Resident  BY <3>1 DEF Uses
    <3>3. UNCHANGED <<MemFrames, nLoads, nSaves, nReplaces>>
      BY <2>3, HitUses, Zenon
    <3>4. QED  BY <3>2, <3>3 DEF TotalsAgree
  <2>4. CASE LoadEmpty(va, action)
    <3>1. /\ Uses(p, Resident, action = "W") /\ p \notin Resident
          /\ \E f \in Frames : MemFrames[f] = -1
          /\ nLoads' = nLoads + 1 /\ nSaves' = nSaves /\ nReplaces' = nReplaces
      BY <2>4, LoadUses, Zenon
    <3>2. Cardinality(Resident') = Cardinality(Resident) + 1
      BY <3>1, ResidentFinite, FS_AddElement DEF Uses
    <3>3. nReplaces = 0  BY <1>0, <3>1 DEF TotalsAgree
    <3>4. QED  BY <1>0, <3>1, <3>2, <3>3, ResidentFinite DEF TotalsAgree
  <2>5. CASE Replace(va, action)
    <3>1. /\ p \notin Resident /\ MemoryFull'
          /\ nLoads' = nLoads + 1 /\ nReplaces' = nReplaces + 1
      BY <2>5, ReplaceUses, Zenon
    <3>2. PICK v \in Resident :
            /\ Uses(p, Resident \ {v}, action = "W")
            /\ nSaves' = IF PageTable[v].modified THEN nSaves + 1 ELSE nSaves
      BY <2>5, ReplaceUses, Zenon
    <3>3. /\ IsFiniteSet(Resident \ {v})
          /\ Cardinality(Resident \ {v}) = Cardinality(Resident) - 1
      BY ResidentFinite, FS_RemoveElement
    <3>4. Resident' = (Resident \ {v}) \cup {p} /\ p \notin Resident \ {v}
      BY <3>1, <3>2 DEF Uses
    <3>5. Cardinality(Resident') = Cardinality(Resident)
      <4>1. Cardinality((Resident \ {v}) \cup {p}) = Cardinality(Resident \ {v}) + 1
        BY <3>3, <3>4, FS_AddElement
      <4>2. QED  BY <3>3, <3>4, <4>1, ResidentFinite
    <3>6. nSaves' <= nReplaces'
      BY <1>0, <3>1, <3>2 DEF TotalsAgree
    <3>7. nLoads' = nReplaces' + Cardinality(Resident')
      BY <1>0, <3>1, <3>5, ResidentFinite DEF TotalsAgree
    <3>8. QED  BY <3>1, <3>6, <3>7 DEF TotalsAgree, MemoryFull
  <2>6. QED  BY <1>4, <2>1, <2>2, <2>3, <2>4, <2>5 DEF Reference
<1>5. QED  BY <1>2, <1>3, <1>4 DEF Next

\* Whatever the clock does, the totals main prints agree with the tables:
\* each load filled an empty frame or replaced a page, replacements come only
\* once memory is full, and only a replaced page is ever saved.
THEOREM TotalsCorrect == Spec => []TotalsAgree
<1>1. Init => TypeOK /\ TablesInverse /\ TotalsAgree
  BY InitType, InitInverse, InitTotals
<1>2. TypeOK /\ TablesInverse /\ TotalsAgree /\ [Next]_vars
        => TypeOK' /\ TablesInverse' /\ TotalsAgree'
  BY NextType, NextInverse, NextTotals
<1>3. QED  BY <1>1, <1>2, PTL DEF Spec

-----------------------------------------------------------------------------
(* vmsim.c is an LRU memory.                                               *)

\* What VM keeps for the variables older and dirty of LRU.
Older == {pair \in Resident \X Resident :
            PageTable[pair[1]].lastAccessed < PageTable[pair[2]].lastAccessed}
Dirty == {p \in Resident : PageTable[p].modified}

LEMMA OlderAfter ==
  ASSUME NoWrap, VMInv, clock < MaxClock,
         NEW p, NEW R, NEW write, Uses(p, R, write)
  PROVE  Older' = Memory!UsedNow(p, R)
<1> DEFINE before(q) == PageTable[q].lastAccessed
           after(q)  == PageTable'[q].lastAccessed
           Used      == {pair \in Older : pair[1] \in R \ {p} /\ pair[2] \in R \ {p}}
                          \cup (R \ {p}) \X {p}
<1>1. clock \in Nat /\ after(p) = clock
  BY ClockIsInt, VMAssumption DEF VMInv, TypeOK, Uses
<1>2. \A q \in R \ {p} : after(q) = before(q) /\ before(q) \in 0 .. clock - 1
  BY DEF Uses, VMInv, Recency
<1>3. Resident' = R \cup {p} /\ R \subseteq Resident  BY DEF Uses
<1>4. ASSUME NEW a \in Resident', NEW c \in Resident'
      PROVE  after(a) < after(c)
               <=> \/ a \in R \ {p} /\ c \in R \ {p} /\ before(a) < before(c)
                   \/ a \in R \ {p} /\ c = p
  <2> HIDE DEF after, before
  <2>1. CASE a = p /\ c = p
    BY <1>1, <2>1
  <2>2. CASE a = p /\ c \in R \ {p}
    BY <1>1, <1>2, <2>2
  <2>3. CASE a \in R \ {p} /\ c = p
    BY <1>1, <1>2, <2>3
  <2>4. CASE a \in R \ {p} /\ c \in R \ {p}
    BY <1>2, <2>4
  <2>5. QED  BY <1>3, <2>1, <2>2, <2>3, <2>4
<1>5. Older' = {pair \in Resident' \X Resident' : after(pair[1]) < after(pair[2])}
  BY DEF Older
<1>6. Older = {pair \in Resident \X Resident : before(pair[1]) < before(pair[2])}
  BY DEF Older
<1> HIDE DEF after, before
<1>7. Older' \subseteq Used
  <2> SUFFICES ASSUME NEW pair \in Older' PROVE pair \in Used  OBVIOUS
  <2>1. PICK a \in Resident', c \in Resident' : pair = <<a, c>> /\ after(a) < after(c)
    BY <1>5
  <2>2. QED  BY <1>3, <1>4, <1>6, <2>1
<1>8. Used \subseteq Older'
  <2> SUFFICES ASSUME NEW pair \in Used PROVE pair \in Older'  OBVIOUS
  <2>1. CASE pair \in (R \ {p}) \X {p}
    BY <1>3, <1>4, <1>5, <2>1
  <2>2. CASE pair \in Older /\ pair[1] \in R \ {p} /\ pair[2] \in R \ {p}
    <3>1. PICK a \in Resident, c \in Resident : pair = <<a, c>> /\ before(a) < before(c)
      BY <1>6, <2>2
    <3>2. a \in R \ {p} /\ c \in R \ {p}  BY <2>2, <3>1
    <3>3. after(a) < after(c)  BY <1>3, <1>4, <3>1, <3>2
    <3>4. QED  BY <1>3, <1>5, <3>1, <3>2, <3>3
  <2>3. QED  BY <2>1, <2>2
<1>9. Used = Memory!UsedNow(p, R)  BY Zenon DEF Memory!UsedNow, Older
<1>10. QED  BY <1>7, <1>8, <1>9

LEMMA DirtyAfter ==
  ASSUME NEW p, NEW R, NEW write \in BOOLEAN, Uses(p, R, write),
         p \in R \/ ~PageTable[p].modified
  PROVE  Dirty' = Memory!Write(p, Dirty \cap R, write)
<1>1. Dirty' = {q \in Resident' : PageTable'[q].modified}  BY DEF Dirty
<1>2. /\ Resident' = R \cup {p} /\ R \subseteq Resident
      /\ \A q \in R \ {p} : PageTable'[q] = PageTable[q]
      /\ PageTable'[p].modified <=> (PageTable[p].modified \/ write)
  BY DEF Uses
<1>3. p \in Dirty' <=> (p \in Dirty \cap R \/ write)
  BY <1>1, <1>2, Zenon DEF Dirty
<1>4. ASSUME NEW q, q # p
      PROVE  q \in Dirty' <=> q \in Dirty \cap R
  <2>1. CASE q \in R \ {p}
    <3>1. PageTable'[q] = PageTable[q] /\ q \in Resident' /\ q \in Resident
      BY <1>2, <2>1
    <3>2. q \in Dirty' <=> PageTable'[q].modified  BY <1>1, <3>1, Zenon
    <3>3. q \in Dirty <=> PageTable[q].modified  BY <3>1, Zenon DEF Dirty
    <3>4. QED  BY <2>1, <3>1, <3>2, <3>3, Zenon
  <2>2. CASE q \notin R \ {p}
    BY <1>1, <1>2, <1>4, <2>2, Zenon
  <2>3. QED  BY <2>1, <2>2
<1>5. CASE write
  <2>1. Dirty' = (Dirty \cap R) \cup {p}  BY <1>3, <1>4, <1>5
  <2>2. QED  BY <1>5, <2>1, Zenon DEF Memory!Write
<1>6. CASE ~write
  <2>1. Dirty' = Dirty \cap R  BY <1>3, <1>4, <1>6
  <2>2. QED  BY <1>6, <2>1, Zenon DEF Memory!Write
<1>7. QED  BY <1>5, <1>6

\* What one reference does to the loaded pages and the totals: the three ways
\* in which physicalAddress gets at a page.
Hits(p, write) ==
  /\ p \in Resident /\ Uses(p, Resident, write)
  /\ nLoads' = nLoads /\ nSaves' = nSaves

Loads(p, write) ==
  /\ p \notin Resident /\ Cardinality(Resident) < NFrames
  /\ Uses(p, Resident, write)
  /\ nLoads' = nLoads + 1 /\ nSaves' = nSaves

Replaces(p, v, write) ==
  /\ p \notin Resident /\ Cardinality(Resident) = NFrames /\ v \in Resident
  /\ \A q \in Resident : PageTable[v].lastAccessed <= PageTable[q].lastAccessed
  /\ Uses(p, Resident \ {v}, write)
  /\ nLoads' = nLoads + 1
  /\ nSaves' = IF PageTable[v].modified THEN nSaves + 1 ELSE nSaves

LEMMA ReferenceEffect ==
  ASSUME NoWrap, VMInv, NEW va \in VAddrs, NEW action \in Actions,
         Reference(va, action)
  PROVE  \/ /\ OutOfRange(va)
            /\ UNCHANGED <<PageTable, nLoads, nSaves, clock>>
         \/ /\ ~OutOfRange(va) /\ clock < MaxClock /\ clock' = clock + 1
            /\ \/ Hits(PageNo(va), action = "W")
               \/ Loads(PageNo(va), action = "W")
               \/ \E v \in Resident : Replaces(PageNo(va), v, action = "W")
<1> DEFINE p == PageNo(va)
           write == action = "W"
<1>1. TypeOK /\ TablesInverse  BY DEF VMInv
<1>2. CASE InvalidAddress(va)
  BY <1>2 DEF InvalidAddress, counters
<1>3. CASE NoVictim(va)
  <2>1. MemoryFull /\ clock < MaxClock /\ ~ \E v \in Pages : LeastRecent(v)
    BY <1>3 DEF NoVictim, Ready
  <2>2. QED  BY <2>1, VictimExists
<1>4. CASE Hit(va, action) \/ LoadEmpty(va, action) \/ Replace(va, action)
  <2>1. ~OutOfRange(va)  BY <1>4 DEF Hit, LoadEmpty, Replace, Ready
  <2>2. clock < MaxClock /\ clock' = clock + 1  BY <1>4, TranslationStep, Zenon
  <2>3. CASE Hit(va, action)
    <3>1. Hits(p, write)  BY <1>1, <2>3, HitUses, Zenon DEF Hits
    <3>2. QED  BY <2>1, <2>2, <3>1, Zenon
  <2>4. CASE LoadEmpty(va, action)
    <3>1. /\ Uses(p, Resident, write) /\ p \notin Resident
          /\ nLoads' = nLoads + 1 /\ nSaves' = nSaves
      BY <1>1, <2>4, LoadUses, Zenon
    <3>2. \E f \in Frames : MemFrames[f] = -1  BY <1>1, <2>4, LoadUses, Zenon
    <3>3. Cardinality(Resident) < NFrames  BY <1>1, <3>2, RoomInMemory
    <3>4. Loads(p, write)  BY <3>1, <3>3, Zenon DEF Loads
    <3>5. QED  BY <2>1, <2>2, <3>4, Zenon
  <2>5. CASE Replace(va, action)
    <3>1. p \notin Resident /\ MemoryFull /\ nLoads' = nLoads + 1
      BY <1>1, <2>5, ReplaceUses, Zenon
    <3>2. PICK v \in Resident :
            /\ Uses(p, Resident \ {v}, write) /\ LeastRecent(v)
            /\ nSaves' = IF PageTable[v].modified THEN nSaves + 1 ELSE nSaves
      BY <1>1, <2>5, ReplaceUses, Zenon
    <3>3. Cardinality(Resident) = NFrames  BY <1>1, <3>1, FullMemory
    <3>4. ASSUME NEW q \in Resident
          PROVE  PageTable[v].lastAccessed <= PageTable[q].lastAccessed
      <4>1. PageTable[q].lastAccessed \in 0 .. clock - 1 /\ q \in Pages
        BY DEF VMInv, Recency, Resident
      <4>2. PageTable[q].lastAccessed # -1  BY <1>1, <4>1, VMAssumption DEF TypeOK
      <4>3. QED  BY <3>2, <4>1, <4>2, Zenon DEF LeastRecent
    <3>5. Replaces(p, v, write)  BY <3>1, <3>2, <3>3, <3>4, Zenon DEF Replaces
    <3>6. QED  BY <2>1, <2>2, <3>5, Zenon
  <2>6. QED  BY <1>4, <2>3, <2>4, <2>5
<1>5. QED  BY <1>2, <1>3, <1>4 DEF Reference

LEMMA InitRefines == Init => Memory!LRUInit
<1> SUFFICES ASSUME Init PROVE Memory!LRUInit  OBVIOUS
<1>1. Resident = {}  BY DEF Init, Resident
<1>2. Older = {} /\ Dirty = {}  BY <1>1 DEF Older, Dirty
<1>3. nLoads = 0 /\ nSaves = 0  BY DEF Init
<1>4. QED  BY <1>1, <1>2, <1>3, Zenon DEF Memory!LRUInit, Older, Dirty

LEMMA HitRefines ==
  ASSUME NoWrap, VMInv, clock < MaxClock,
         NEW p, NEW write \in BOOLEAN, Hits(p, write)
  PROVE  Memory!Use(p, write)
<1>1. Dirty \cap Resident = Dirty  BY DEF Dirty
<1>2. Resident' = Resident  BY DEF Hits, Uses
<1>3. Older' = Memory!UsedNow(p, Resident)  BY OlderAfter DEF Hits
<1>4. Dirty' = Memory!Write(p, Dirty \cap Resident, write)  BY DirtyAfter DEF Hits
<1>5. Dirty' = Memory!Write(p, Dirty, write)  BY <1>1, <1>4
<1>6. QED  BY <1>2, <1>3, <1>5, Zenon DEF Hits, Memory!Use, Older, Dirty

\* LRU counts pages with the operator of its own copy of FiniteSets.
LEMMA SameCardinality == \A S : Memory!Cardinality(S) = Cardinality(S)
BY Zenon DEF Cardinality, Memory!Cardinality, IsFiniteSet, Memory!IsFiniteSet

LEMMA LoadRefines ==
  ASSUME NoWrap, VMInv, clock < MaxClock,
         NEW p, NEW write \in BOOLEAN, Loads(p, write)
  PROVE  Memory!BringIn(p, write)
<1>1. Dirty \cap Resident = Dirty  BY DEF Dirty
<1>2. Resident' = Resident \cup {p}  BY DEF Loads, Uses
<1>3. ~PageTable[p].modified
  BY DEF Loads, Uses, Resident, VMInv, TablesInverse
<1>4. Older' = Memory!UsedNow(p, Resident)  BY OlderAfter DEF Loads
<1>5. Dirty' = Memory!Write(p, Dirty \cap Resident, write)
  BY <1>3, DirtyAfter DEF Loads
<1>6. Dirty' = Memory!Write(p, Dirty, write)  BY <1>1, <1>5
<1>7. QED
  BY <1>2, <1>4, <1>6, SameCardinality, Zenon
     DEF Loads, Memory!BringIn, Older, Dirty

LEMMA ReplaceRefines ==
  ASSUME NoWrap, VMInv, clock < MaxClock,
         NEW p, NEW v, NEW write \in BOOLEAN, Replaces(p, v, write)
  PROVE  Memory!Exchange(p, write)
<1>1. Dirty \cap (Resident \ {v}) = Dirty \ {v}  BY DEF Dirty
<1>2. Resident' = (Resident \ {v}) \cup {p}  BY DEF Replaces, Uses
<1>3. ~PageTable[p].modified
  BY DEF Replaces, Uses, Resident, VMInv, TablesInverse
<1>4. Older' = Memory!UsedNow(p, Resident \ {v})  BY OlderAfter DEF Replaces
<1>5. Dirty' = Memory!Write(p, Dirty \cap (Resident \ {v}), write)
  BY <1>3, DirtyAfter DEF Replaces
<1>6. Dirty' = Memory!Write(p, Dirty \ {v}, write)  BY <1>1, <1>5
<1>7. \A q \in Resident : <<q, v>> \notin Older
  <2> SUFFICES ASSUME NEW q \in Resident
               PROVE  ~(PageTable[q].lastAccessed < PageTable[v].lastAccessed)
    BY DEF Older
  <2>1. /\ PageTable[q].lastAccessed \in 0 .. clock - 1
        /\ PageTable[v].lastAccessed \in 0 .. clock - 1
        /\ PageTable[v].lastAccessed <= PageTable[q].lastAccessed
    BY DEF VMInv, Recency, Replaces
  <2>2. clock \in Int  BY VMAssumption DEF VMInv, TypeOK
  <2>3. QED  BY <2>1, <2>2
<1>8. nSaves' = IF v \in Dirty THEN nSaves + 1 ELSE nSaves
  <2>1. v \in Dirty <=> PageTable[v].modified  BY Zenon DEF Dirty, Replaces
  <2>2. QED  BY <2>1, Zenon DEF Replaces
<1>9. QED
  BY <1>2, <1>4, <1>6, <1>7, <1>8, SameCardinality, Zenon
     DEF Replaces, Memory!Exchange, Older, Dirty

LEMMA NextRefines ==
  NoWrap /\ VMInv /\ [Next]_vars => [Memory!LRUNext]_Memory!lruVars
<1> SUFFICES ASSUME NoWrap, VMInv, [Next]_vars
             PROVE  [Memory!LRUNext]_Memory!lruVars
  OBVIOUS
<1>1. CASE UNCHANGED <<PageTable, nLoads, nSaves>>
  <2>1. Resident' = Resident /\ Older' = Older /\ Dirty' = Dirty
    BY <1>1 DEF Resident, Older, Dirty
  <2>2. nLoads' = nLoads /\ nSaves' = nSaves  BY <1>1
  <2>3. QED  BY <2>1, <2>2, Zenon DEF Memory!lruVars, Older, Dirty
<1>2. CASE UNCHANGED vars
  BY <1>1, <1>2 DEF vars, counters
<1>3. CASE EndOfInput
  BY <1>1, <1>3 DEF EndOfInput, counters
<1>4. ASSUME NEW va \in VAddrs, NEW action \in Actions, Reference(va, action)
      PROVE  [Memory!LRUNext]_Memory!lruVars
  <2> DEFINE p == PageNo(va)
             write == action = "W"
  <2>1. CASE UNCHANGED <<PageTable, nLoads, nSaves, clock>>
    BY <1>1, <2>1
  <2>2. CASE /\ ~OutOfRange(va) /\ clock < MaxClock
             /\ \/ Hits(p, write) \/ Loads(p, write)
                \/ \E v \in Resident : Replaces(p, v, write)
    <3>1. p \in Pages /\ write \in BOOLEAN  BY <2>2, PageInTable
    <3> HIDE DEF p, write
    <3>2. Memory!Use(p, write) \/ Memory!BringIn(p, write) \/ Memory!Exchange(p, write)
      BY <2>2, <3>1, HitRefines, LoadRefines, ReplaceRefines
    <3>3. Memory!LRUNext  BY <3>1, <3>2, Zenon DEF Memory!LRUNext
    <3>4. QED  BY <3>3
  <2>3. QED  BY <1>4, <2>1, <2>2, ReferenceEffect, Zenon
<1>5. QED  BY <1>2, <1>3, <1>4 DEF Next

\* As long as the clock stays an int, physicalAddress is LRU replacement: the
\* time stamps order the loaded pages as they were used, the page given up is
\* the one used longest ago, and the disk is written only for what changed.
THEOREM SimulatorIsLRU == NoWrap => (Spec => ImplementsLRU)
<1> SUFFICES ASSUME NoWrap PROVE Spec => ImplementsLRU  OBVIOUS
<1>1. Init => VMInv /\ Memory!LRUInit  BY InitInv, InitRefines
<1>2. VMInv /\ [Next]_vars => VMInv'  BY NextInv
<1>3. VMInv /\ [Next]_vars => [Memory!LRUNext]_Memory!lruVars  BY NextRefines
<1>4. QED  BY <1>1, <1>2, <1>3, PTL DEF Spec, ImplementsLRU, Memory!LRUSpec
=============================================================================
