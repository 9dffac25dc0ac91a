---------------------------- MODULE VMPairProofs ----------------------------
(***************************************************************************)
(* Theorems about two runs of labs/week07/vmsim.c on the same input        *)
(* (module VMPair): LRU replacement is a stack algorithm, so a frame more  *)
(* never costs a load or a save.                                           *)
(***************************************************************************)
EXTENDS VMPair, VMProofs

\* The theorems about one run, for the run with the smaller memory.
S == INSTANCE VMProofs WITH
  NFrames <- NFrames - 1,
  PageTable <- smallTable, MemFrames <- smallFrames, nLoads <- smallLoads,
  nSaves <- smallSaves, nReplaces <- smallReplaces, clock <- smallClock,
  out <- smallOut, status <- smallStatus

-----------------------------------------------------------------------------
(* The argument, about any two sets of pages, R held in a memory of n      *)
(* frames and H in one of n + 1, last used at the times t before c.        *)

Stacked(R, H, t, n, c) ==
  /\ R \subseteq H
  /\ \A q \in H : t[q] \in 0 .. c - 1
  /\ \A q, r \in H : t[q] = t[r] => q = r
  /\ \A q \in H \ R, r \in R : t[q] < t[r]
  /\ Cardinality(R) < n => R = H

\* Kept are the pages of M that a reference to p leaves in a memory of n frames.
Hitting(M, p, Kept)       == p \in M /\ Kept = M
Loading(M, p, n, Kept)    == p \notin M /\ Cardinality(M) < n /\ Kept = M
Giving(M, p, n, t, v, Kept) ==
  /\ p \notin M /\ Cardinality(M) = n /\ v \in M
  /\ \A q \in M : t[v] <= t[q]
  /\ Kept = M \ {v}

\* v is the page given up, if any; D are the modified pages of M, and a page
\* of D that is given up adds one to the saves s.
Serving(M, n, t, p, Kept, v) ==
  Hitting(M, p, Kept) \/ Loading(M, p, n, Kept) \/ Giving(M, p, n, t, v, Kept)

Saving(M, n, t, p, Kept, v, D, s, s1) ==
  /\ Serving(M, n, t, p, Kept, v)
  /\ s1 = IF Giving(M, p, n, t, v, Kept) /\ v \in D THEN s + 1 ELSE s

\* The page that the larger memory gives up is not in the smaller one.
LEMMA VictimIsExtra ==
  ASSUME NEW R, NEW H, NEW t, NEW n \in Nat, NEW c \in Nat,
         IsFiniteSet(H), Stacked(R, H, t, n, c), Cardinality(R) <= n,
         NEW v \in H, Cardinality(H) = n + 1, \A q \in H : t[v] <= t[q]
  PROVE  v \notin R
<1> SUFFICES ASSUME v \in R PROVE FALSE  OBVIOUS
<1>1. R # H  BY FS_CardinalityType
<1>2. PICK q \in H \ R : TRUE  BY <1>1 DEF Stacked
<1>3. t[q] < t[v] /\ t[v] <= t[q]  BY DEF Stacked
<1>4. t[q] \in Int /\ t[v] \in Int  BY DEF Stacked
<1>5. QED  BY <1>3, <1>4

LEMMA StackKept ==
  ASSUME NEW R, NEW H, NEW t, NEW u, NEW n \in Nat, NEW m, m = n + 1, NEW c \in Nat,
         IsFiniteSet(H), Stacked(R, H, t, n, c), Cardinality(R) <= n,
         NEW p, NEW K, NEW L, NEW v, NEW w,
         Serving(R, n, t, p, K, v), Serving(H, m, t, p, L, w),
         u[p] = c, \A q \in L \ {p} : u[q] = t[q]
  PROVE  Stacked(K \cup {p}, L \cup {p}, u, n, c + 1)
<1> DEFINE K1 == K \cup {p}
           L1 == L \cup {p}
<1>0. IsFiniteSet(R) /\ Cardinality(R) \in Nat /\ Cardinality(H) \in Nat
  BY FS_Subset, FS_CardinalityType DEF Stacked
<1>1. Giving(H, p, m, t, w, L) => w \notin R
  BY VictimIsExtra DEF Giving
<1>2. K \subseteq L /\ K \subseteq R /\ L \subseteq H
  BY <1>1 DEF Stacked, Serving, Hitting, Loading, Giving
<1>3. \A q \in L1 : u[q] \in 0 .. c
  BY <1>2 DEF Stacked
<1>4. \A q, r \in L1 : u[q] = u[r] => q = r
  BY <1>2 DEF Stacked
<1>5. ASSUME NEW q \in L1 \ K1, NEW r \in K1 PROVE u[q] < u[r]
  <2>1. q \in L \ {p} /\ q \in H /\ u[q] = t[q] /\ t[q] \in 0 .. c - 1
    BY <1>2 DEF Stacked
  <2>2. CASE r = p
    BY <2>1, <2>2
  <2>3. CASE r # p
    <3>1. r \in K /\ r \in R /\ r \in H /\ u[r] = t[r] /\ t[r] \in 0 .. c - 1
      BY <1>2, <2>3 DEF Stacked
    <3>2. CASE q \notin R
      BY <2>1, <3>1, <3>2 DEF Stacked
    <3>3. CASE q \in R
      <4>1. q = v /\ t[v] <= t[r]
        BY <2>1, <3>1, <3>3 DEF Serving, Hitting, Loading, Giving
      <4>2. t[q] # t[r]  BY <2>1, <3>1 DEF Stacked
      <4>3. QED  BY <2>1, <3>1, <4>1, <4>2
    <3>4. QED  BY <3>2, <3>3
  <2>4. QED  BY <2>2, <2>3
<1>6. ASSUME Cardinality(K1) < n PROVE K1 = L1
  <2>1. ~Giving(R, p, n, t, v, K)
    <3> SUFFICES ASSUME Giving(R, p, n, t, v, K) PROVE FALSE  OBVIOUS
    <3>1. /\ IsFiniteSet(R \ {v}) /\ Cardinality(R \ {v}) = n - 1
          /\ p \notin R \ {v}
      BY <1>0, FS_RemoveElement DEF Giving
    <3>2. Cardinality((R \ {v}) \cup {p}) = n  BY <3>1, FS_AddElement
    <3>3. QED  BY <1>6, <3>2 DEF Giving
  <2>2. K = R /\ R \cup {p} = K1  BY <2>1 DEF Serving, Hitting, Loading
  <2>3. Cardinality(R) < n
    <3>1. Cardinality(R) <= Cardinality(K1)
      <4>1. IsFiniteSet(K1)  BY <1>0, <2>2, FS_AddElement
      <4>2. QED  BY <2>2, <4>1, FS_Subset
    <3>2. Cardinality(K1) \in Nat  BY <1>0, <2>2, FS_AddElement, FS_CardinalityType
    <3>3. QED  BY <1>0, <1>6, <3>1, <3>2
  <2>4. R = H  BY <2>3 DEF Stacked
  <2>5. ~Giving(H, p, m, t, w, L)  BY <1>0, <2>3, <2>4 DEF Giving
  <2>6. QED  BY <2>2, <2>4, <2>5 DEF Serving, Hitting, Loading
<1>7. QED  BY <1>2, <1>3, <1>4, <1>5, <1>6 DEF Stacked

LEMMA OneMore ==
  ASSUME NEW A, IsFiniteSet(A), NEW v
  PROVE  /\ IsFiniteSet(A \cup {v}) /\ Cardinality(A \cup {v}) \in Nat
         /\ Cardinality(A \cup {v}) <= Cardinality(A) + 1
<1>1. IsFiniteSet(A \cup {v})  BY FS_AddElement
<1>2. \/ Cardinality(A \cup {v}) = Cardinality(A)
      \/ Cardinality(A \cup {v}) = Cardinality(A) + 1
  BY FS_AddElement
<1>3. Cardinality(A) \in Nat  BY FS_CardinalityType
<1>4. QED  BY <1>1, <1>2, <1>3

\* How a reference to p leaves the modified pages, E those of the smaller
\* memory and D those of the larger: if it writes, p is modified in both.
Written(E, K, E1, D, L, D1, p) ==
  /\ E \cap K \subseteq E1 /\ D1 \ {p} \subseteq D \cap L
  /\ p \in D1 /\ p \notin E1 => p \in D \cap L

\* D and E are the modified pages of H and R.  A page that is modified in the
\* larger memory only has been saved by the smaller one, and a page that the
\* larger one saves is one of these.
LEMMA OwedKept ==
  ASSUME NEW R, NEW H, NEW t, NEW n \in Nat, NEW m, m = n + 1, NEW c \in Nat,
         IsFiniteSet(H), Stacked(R, H, t, n, c), Cardinality(R) <= n,
         NEW p, NEW K, NEW L, NEW v, NEW w,
         NEW E \in SUBSET R, NEW D \in SUBSET H, NEW E1, NEW D1,
         Written(E, K, E1, D, L, D1, p),
         NEW rs \in Nat, NEW rs1, Saving(R, n, t, p, K, v, E, rs, rs1),
         NEW hs \in Nat, NEW hs1, Saving(H, m, t, p, L, w, D, hs, hs1),
         hs + Cardinality(D \ E) <= rs
  PROVE  hs1 + Cardinality(D1 \ E1) <= rs1
<1> DEFINE owed == D \ E
           X == (D \cap L) \ (E \cap K)
<1>1. IsFiniteSet(owed) /\ IsFiniteSet(X)
      /\ Cardinality(owed) \in Nat /\ Cardinality(X) \in Nat
  BY FS_Subset, FS_CardinalityType
<1>2. IsFiniteSet(D1 \ E1) /\ Cardinality(D1 \ E1) \in Nat
      /\ Cardinality(D1 \ E1) <= Cardinality(X)
  <2>1. D1 \ E1 \subseteq X  BY DEF Written
  <2>2. QED  BY <1>1, <2>1, FS_Subset, FS_CardinalityType
<1>3. Giving(H, p, m, t, w, L) => w \notin R /\ w \in H /\ w \notin L
  BY VictimIsExtra DEF Giving
<1>4. L \subseteq H /\ E \ K \subseteq {v}
  BY DEF Saving, Serving, Hitting, Loading, Giving
<1> DEFINE spends == Giving(H, p, m, t, w, L) /\ w \in D
           Y == IF spends THEN owed \ {w} ELSE owed
<1>5. /\ IsFiniteSet(Y) /\ Cardinality(Y) \in Nat
      /\ Cardinality(Y) + (hs1 - hs) = Cardinality(owed)
      /\ X \subseteq Y \cup (E \ K)
  <2>1. CASE spends
    <3>1. w \in owed /\ w \notin X  BY <1>3, <2>1
    <3>2. IsFiniteSet(Y) /\ Cardinality(Y) = Cardinality(owed) - 1
      BY <1>1, <2>1, <3>1, FS_RemoveElement
    <3>3. hs1 = hs + 1  BY <2>1 DEF Saving
    <3>4. X \subseteq Y \cup (E \ K)  BY <2>1, <3>1
    <3> HIDE DEF owed, X, Y, spends
    <3>5. QED  BY <1>1, <3>2, <3>3, <3>4, FS_CardinalityType
  <2>2. CASE ~spends
    <3>1. Y = owed /\ hs1 = hs /\ X \subseteq owed \cup (E \ K)  BY <2>2 DEF Saving
    <3> HIDE DEF owed, X, Y, spends
    <3>2. QED  BY <1>1, <3>1
  <2>3. QED  BY <2>1, <2>2
<1> HIDE DEF Y
<1>6. Cardinality(X) <= Cardinality(Y) + (rs1 - rs) /\ rs1 \in Nat
  <2>1. CASE Giving(R, p, n, t, v, K) /\ v \in E
    <3>1. X \subseteq Y \cup {v}  BY <1>4, <1>5
    <3>2. /\ IsFiniteSet(Y \cup {v}) /\ Cardinality(Y \cup {v}) \in Nat
          /\ Cardinality(Y \cup {v}) <= Cardinality(Y) + 1
      BY <1>5, OneMore
    <3>3. Cardinality(X) <= Cardinality(Y \cup {v})  BY <3>1, <3>2, FS_Subset
    <3>4. rs1 = rs + 1  BY <2>1 DEF Saving
    <3> HIDE DEF owed, X
    <3>5. QED  BY <1>1, <1>5, <3>2, <3>3, <3>4
  <2>2. CASE ~(Giving(R, p, n, t, v, K) /\ v \in E)
    <3>1. E \subseteq K  BY <2>2 DEF Saving, Serving, Hitting, Loading, Giving
    <3>2. X \subseteq Y  BY <1>5, <3>1
    <3>3. Cardinality(X) <= Cardinality(Y)  BY <1>5, <3>2, FS_Subset
    <3>4. rs1 = rs  BY <2>2 DEF Saving
    <3> HIDE DEF owed, X
    <3>5. QED  BY <1>1, <1>5, <3>3, <3>4
  <2>3. QED  BY <2>1, <2>2
<1>7. hs1 \in Int  BY DEF Saving
<1> HIDE DEF owed, X
<1>8. hs + Cardinality(owed) <= rs  BY DEF owed
<1>9. QED  BY <1>1, <1>2, <1>5, <1>6, <1>7, <1>8

-----------------------------------------------------------------------------
(* The two runs.                                                           *)

\* The constants of both runs.
LEMMA PairNumbers ==
  /\ NPages \in Nat \ {0} /\ PageSize \in Nat \ {0} /\ UintMod \in Nat \ {0}
  /\ NFrames \in Nat \ {0} /\ NFrames - 1 \in Nat \ {0} /\ NFrames = (NFrames - 1) + 1
  /\ VAddrs \subseteq 0 .. UintMod - 1
  /\ MaxClock \in 0 .. UintMod - 1
BY VMAssumption, PairAssumption

\* If clock and physical addresses do not turn negative in the larger memory
\* they do not in the smaller one.
LEMMA SmallNoWrap == NoWrap => S!NoWrap
<1>1. SUFFICES ASSUME NoWrap PROVE S!NoWrap  OBVIOUS
<1>2. NFrames * PageSize = (NFrames - 1) * PageSize + PageSize  BY PairNumbers
<1>3. NFrames * PageSize \in Nat /\ (NFrames - 1) * PageSize \in Nat  BY PairNumbers
<1>4. QED  BY <1>1, <1>2, <1>3, PairNumbers DEF NoWrap, S!NoWrap

\* VMPair and the theorems about the smaller run take their instances of VM
\* alike.
LEMMA SmallIsS ==
  /\ Small!Init => S!Init
  /\ Small!EndOfInput => S!EndOfInput
  /\ \A va \in VAddrs, action \in Small!Actions :
       action \in S!Actions /\ (Small!Reference(va, action) => S!Reference(va, action))
<1>1. Small!Init = S!Init
  BY DEF Small!Init, Small!Pages, Small!Frames, S!Init, S!Pages, S!Frames
<1>2. Small!EndOfInput = S!EndOfInput
  BY DEF Small!EndOfInput, Small!counters, S!EndOfInput, S!counters
<1>3. Small!Actions = S!Actions  BY DEF Small!Actions, S!Actions
<1>4. ASSUME NEW va \in VAddrs, NEW action \in Small!Actions
      PROVE  Small!Reference(va, action) = S!Reference(va, action)
  <2>1. Small!InvalidAddress(va) = S!InvalidAddress(va)
    BY DEF Small!InvalidAddress, Small!OutOfRange, Small!counters, S!InvalidAddress,
           S!OutOfRange, S!counters
  <2>2. Small!Ready(va) = S!Ready(va)
    BY DEF Small!Ready, Small!OutOfRange, S!Ready, S!OutOfRange
  <2>3. \A f : Small!Translate(va, f) = S!Translate(va, f)
    BY DEF Small!Translate, Small!Offset, Small!AsInt, S!Translate, S!Offset, S!AsInt
  <2>4. \A v : Small!LeastRecent(v) = S!LeastRecent(v)
    BY DEF Small!LeastRecent, Small!Pages, Small!AsInt, S!LeastRecent, S!Pages, S!AsInt
  <2>5. Small!Hit(va, action) = S!Hit(va, action)
    BY <2>2, <2>3 DEF Small!Hit, Small!Touched, Small!PageNo, Small!AsInt,
           Small!counters, S!Hit, S!Touched, S!PageNo, S!AsInt, S!counters
  <2>6. Small!LoadEmpty(va, action) = S!LoadEmpty(va, action)
    BY <2>2, <2>3 DEF Small!LoadEmpty, Small!FirstEmpty, Small!Mapped, Small!Touched,
           Small!PageNo, Small!AsInt, Small!Frames, S!LoadEmpty, S!FirstEmpty, S!Mapped,
           S!Touched, S!PageNo, S!AsInt, S!Frames
  <2>7. Small!Replace(va, action) = S!Replace(va, action)
    BY <2>2, <2>3, <2>4 DEF Small!Replace, Small!MemoryFull, Small!Mapped,
           Small!Touched, Small!Evicted, Small!PageNo, Small!AsInt, Small!Frames,
           Small!Pages, S!Replace, S!MemoryFull, S!Mapped, S!Touched, S!Evicted,
           S!PageNo, S!AsInt, S!Frames, S!Pages
  <2>8. Small!NoVictim(va) = S!NoVictim(va)
    BY <2>2, <2>4 DEF Small!NoVictim, Small!MemoryFull, Small!PageNo, Small!Frames,
           Small!Pages, Small!counters, S!NoVictim, S!MemoryFull, S!PageNo, S!Frames,
           S!Pages, S!counters
  <2>9. QED  BY <2>1, <2>5, <2>6, <2>7, <2>8 DEF Small!Reference, S!Reference
<1>5. QED  BY <1>1, <1>2, <1>3, <1>4

\* They count pages with their own copies of FiniteSets.
LEMMA SCardinality == \A X : S!Cardinality(X) = Cardinality(X)
BY Zenon DEF Cardinality, S!Cardinality

\* What one reference does to one run, in the terms of the argument above.
Times == [q \in Pages |-> PageTable[q].lastAccessed]

SameTimes == \A q \in S!Resident : smallTable[q].lastAccessed = PageTable[q].lastAccessed

SmallKeeps(p, K, v, write) ==
  LET R == S!Resident IN
  /\ K \subseteq R /\ v \in Pages
  /\ Saving(R, NFrames - 1, Times, p, K, v, S!Dirty, smallSaves, smallSaves')
  /\ S!Uses(p, K, write)
  /\ smallLoads' = IF p \in R THEN smallLoads ELSE smallLoads + 1

BigKeeps(p, K, v, write) ==
  LET R == Resident IN
  /\ K \subseteq R /\ v \in Pages
  /\ Saving(R, NFrames, Times, p, K, v, Dirty, nSaves, nSaves')
  /\ Uses(p, K, write)
  /\ nLoads' = IF p \in R THEN nLoads ELSE nLoads + 1

LEMMA SmallStep ==
  ASSUME S!NoWrap, S!VMInv, NEW va \in VAddrs, NEW action \in S!Actions,
         S!Reference(va, action), ~S!OutOfRange(va),
         \A q \in S!Resident : Times[q] = smallTable[q].lastAccessed
  PROVE  /\ smallClock' = smallClock + 1 /\ smallClock < MaxClock
         /\ \E K, v : SmallKeeps(S!PageNo(va), K, v, action = "W")
<1> DEFINE R == S!Resident
           p == S!PageNo(va)
           write == action = "W"
<1>0. NFrames - 1 \in Nat \ {0} /\ Cardinality(R) \in Nat
  <2>1. NFrames - 1 \in Nat \ {0}  BY PairNumbers
  <2>2. QED  BY <2>1, PairNumbers, S!ResidentFinite, SCardinality
<1>1. /\ smallClock' = smallClock + 1 /\ smallClock < MaxClock
      /\ \/ S!Hits(p, write) \/ S!Loads(p, write)
         \/ \E v \in R : S!Replaces(p, v, write)
  BY <1>0, PairNumbers, S!ReferenceEffect, Zenon
<1>2. R \subseteq Pages /\ S!Pages = Pages
  BY DEF S!Resident, S!Pages, Pages
<1>3. SUFFICES \E K, v : SmallKeeps(p, K, v, write)  BY <1>1, Zenon
<1> HIDE DEF p, R, write
<1>4. CASE S!Hits(p, write)
  <2>1. /\ p \in R /\ S!Uses(p, R, write)
        /\ smallLoads' = smallLoads /\ smallSaves' = smallSaves
    BY <1>4, Zenon DEF S!Hits, R
  <2>2. Hitting(R, p, R) /\ ~Giving(R, p, NFrames - 1, Times, p, R)
    BY <2>1 DEF Hitting, Giving
  <2>3. SmallKeeps(p, R, p, write)  BY <1>2, <2>1, <2>2 DEF SmallKeeps, Serving, Saving, R
  <2>4. QED  BY <2>3
<1>5. CASE S!Loads(p, write)
  <2>1. /\ p \notin R /\ Cardinality(R) < NFrames - 1 /\ S!Uses(p, R, write)
        /\ smallLoads' = smallLoads + 1 /\ smallSaves' = smallSaves
    BY <1>5, SCardinality DEF S!Loads, R
  <2>2. Loading(R, p, NFrames - 1, R) /\ ~Giving(R, p, NFrames - 1, Times, p, R)
    BY <1>0, <2>1 DEF Loading, Giving
  <2>3. p \in Pages  BY <1>2, <2>1, Zenon DEF S!Uses
  <2>4. SmallKeeps(p, R, p, write)  BY <2>1, <2>2, <2>3 DEF SmallKeeps, Serving, Saving, R
  <2>5. QED  BY <2>4
<1>6. ASSUME NEW v \in R, S!Replaces(p, v, write)
      PROVE  SmallKeeps(p, R \ {v}, v, write)
  <2>1. /\ p \notin R /\ Cardinality(R) = NFrames - 1
        /\ \A q \in R : smallTable[v].lastAccessed <= smallTable[q].lastAccessed
        /\ S!Uses(p, R \ {v}, write)
        /\ smallLoads' = smallLoads + 1
        /\ smallSaves' = IF smallTable[v].modified THEN smallSaves + 1 ELSE smallSaves
    BY <1>6, SCardinality DEF S!Replaces, R
  <2>2. Giving(R, p, NFrames - 1, Times, v, R \ {v})  BY <2>1 DEF Giving, R
  <2>3. v \in S!Dirty <=> smallTable[v].modified  BY Zenon DEF S!Dirty, R
  <2>4. v \in Pages  BY <1>2
  <2>5. QED  BY <2>1, <2>2, <2>3, <2>4, Zenon DEF SmallKeeps, Serving, Saving, R
<1>7. QED  BY <1>1, <1>4, <1>5, <1>6

LEMMA BigStep ==
  ASSUME NoWrap, VMInv, NEW va \in VAddrs, NEW action \in Actions,
         Reference(va, action), ~OutOfRange(va),
         \A q \in Resident : Times[q] = PageTable[q].lastAccessed
  PROVE  /\ clock' = clock + 1 /\ clock < MaxClock
         /\ \E K, v : BigKeeps(PageNo(va), K, v, action = "W")
<1> DEFINE R == Resident
           p == PageNo(va)
           write == action = "W"
<1>0. NFrames \in Nat \ {0} /\ Cardinality(R) \in Nat  BY PairNumbers, ResidentFinite
<1>1. /\ clock' = clock + 1 /\ clock < MaxClock
      /\ \/ Hits(p, write) \/ Loads(p, write)
         \/ \E v \in R : Replaces(p, v, write)
  BY <1>0, ReferenceEffect, Zenon
<1>2. R \subseteq Pages  BY DEF Resident
<1>3. SUFFICES \E K, v : BigKeeps(p, K, v, write)  BY <1>1, Zenon
<1> HIDE DEF p, R, write
<1>4. CASE Hits(p, write)
  <2>1. /\ p \in R /\ Uses(p, R, write)
        /\ nLoads' = nLoads /\ nSaves' = nSaves
    BY <1>4, Zenon DEF Hits, R
  <2>2. Hitting(R, p, R) /\ ~Giving(R, p, NFrames, Times, p, R)
    BY <2>1 DEF Hitting, Giving
  <2>3. BigKeeps(p, R, p, write)  BY <1>2, <2>1, <2>2 DEF BigKeeps, Serving, Saving, R
  <2>4. QED  BY <2>3
<1>5. CASE Loads(p, write)
  <2>1. /\ p \notin R /\ Cardinality(R) < NFrames /\ Uses(p, R, write)
        /\ nLoads' = nLoads + 1 /\ nSaves' = nSaves
    BY <1>5 DEF Loads, R
  <2>2. Loading(R, p, NFrames, R) /\ ~Giving(R, p, NFrames, Times, p, R)
    BY <1>0, <2>1 DEF Loading, Giving
  <2>3. p \in Pages  BY <1>2, <2>1, Zenon DEF Uses
  <2>4. BigKeeps(p, R, p, write)  BY <2>1, <2>2, <2>3 DEF BigKeeps, Serving, Saving, R
  <2>5. QED  BY <2>4
<1>6. ASSUME NEW v \in R, Replaces(p, v, write)
      PROVE  BigKeeps(p, R \ {v}, v, write)
  <2>1. /\ p \notin R /\ Cardinality(R) = NFrames
        /\ \A q \in R : PageTable[v].lastAccessed <= PageTable[q].lastAccessed
        /\ Uses(p, R \ {v}, write)
        /\ nLoads' = nLoads + 1
        /\ nSaves' = IF PageTable[v].modified THEN nSaves + 1 ELSE nSaves
    BY <1>6 DEF Replaces, R
  <2>2. Giving(R, p, NFrames, Times, v, R \ {v})  BY <2>1 DEF Giving, R
  <2>3. v \in Dirty <=> PageTable[v].modified  BY Zenon DEF Dirty, R
  <2>4. v \in Pages  BY <1>2
  <2>5. QED  BY <2>1, <2>2, <2>3, <2>4, Zenon DEF BigKeeps, Serving, Saving, R
<1>7. QED  BY <1>1, <1>4, <1>5, <1>6

-----------------------------------------------------------------------------
(* The invariant of the pair.                                              *)

PairInv ==
  /\ S!VMInv /\ VMInv /\ smallClock = clock
  /\ Stacked(S!Resident, Resident, Times, NFrames - 1, clock) /\ SameTimes
  /\ nLoads <= smallLoads
  /\ nSaves + Cardinality(Dirty \ S!Dirty) <= smallSaves

LEMMA PairFacts ==
  ASSUME S!VMInv, VMInv
  PROVE  /\ S!Pages = Pages /\ S!Resident \subseteq Pages /\ Resident \subseteq Pages
         /\ IsFiniteSet(Resident) /\ Cardinality(S!Resident) <= NFrames - 1
         /\ NFrames - 1 \in Nat \ {0} /\ clock \in Nat /\ smallClock \in Nat
         /\ smallLoads \in Nat /\ nLoads \in Nat
         /\ smallSaves \in Nat /\ nSaves \in Nat
<1>1. NFrames - 1 \in Nat \ {0} /\ NFrames \in Nat \ {0}  BY PairNumbers
<1>2. S!Pages = Pages  BY DEF S!Pages, Pages
<1>3. S!Resident \subseteq Pages /\ Resident \subseteq Pages
  BY <1>2 DEF S!Resident, Resident
<1>4. IsFiniteSet(Resident)
  <2>1. Pages = 0 .. NPages - 1 /\ NPages - 1 \in Int  BY PairNumbers DEF Pages
  <2>2. IsFiniteSet(Pages)  BY <2>1, FS_Interval
  <2>3. QED  BY <1>3, <2>2, FS_Subset
<1>5. Cardinality(S!Resident) <= NFrames - 1
  BY PairNumbers, S!ResidentBound, SCardinality DEF S!VMInv
<1>6. S!TypeOK /\ TypeOK  BY DEF S!VMInv, VMInv
<1>7. clock \in Nat /\ smallClock \in Nat
  BY <1>6, PairNumbers DEF S!TypeOK, TypeOK
<1>8. /\ smallLoads \in Nat /\ nLoads \in Nat
      /\ smallSaves \in Nat /\ nSaves \in Nat
  BY <1>6 DEF S!TypeOK, TypeOK
<1>9. QED  BY <1>1, <1>2, <1>3, <1>4, <1>5, <1>7, <1>8

LEMMA InitPair == PairInit => PairInv
<1> SUFFICES ASSUME PairInit PROVE PairInv  OBVIOUS
<1>1. S!Init /\ Init  BY SmallIsS DEF PairInit
<1>2. S!VMInv /\ VMInv
  <2>1. S!VMInv  BY <1>1, PairNumbers, S!InitInv
  <2>2. VMInv  BY <1>1, InitInv
  <2>3. QED  BY <2>1, <2>2
<1>3. S!Resident = {} /\ Resident = {}
  BY <1>1 DEF S!Init, Init, S!Resident, Resident
<1>4. Dirty \ S!Dirty = {}  BY <1>3 DEF Dirty
<1>5. Cardinality(Dirty \ S!Dirty) = 0  BY <1>4, FS_EmptySet
<1>6. /\ smallLoads = 0 /\ nLoads = 0 /\ smallSaves = 0 /\ nSaves = 0
      /\ smallClock = clock
  BY <1>1 DEF S!Init, Init
<1>7. Stacked(S!Resident, Resident, Times, NFrames - 1, clock) /\ SameTimes
  BY <1>3 DEF Stacked, SameTimes
<1>8. QED  BY <1>2, <1>5, <1>6, <1>7 DEF PairInv

\* A reference that both runs translate.
LEMMA PairTranslates ==
  ASSUME S!NoWrap, NoWrap, PairInv, NEW va \in VAddrs, NEW action \in S!Actions,
         S!Reference(va, action), Reference(va, action), ~S!OutOfRange(va),
         S!VMInv', VMInv'
  PROVE  PairInv'
<1> DEFINE R == S!Resident
           H == Resident
           write == action = "W"
<1>0. PICK p : p = S!PageNo(va) /\ p = PageNo(va)
  BY DEF S!PageNo, PageNo
<1>1. S!VMInv /\ VMInv /\ smallClock = clock /\ SameTimes
      /\ Stacked(R, H, Times, NFrames - 1, clock)
  BY DEF PairInv
<1>2. /\ S!Pages = Pages /\ R \subseteq Pages /\ H \subseteq Pages
      /\ IsFiniteSet(H) /\ Cardinality(R) <= NFrames - 1
      /\ NFrames - 1 \in Nat \ {0} /\ clock \in Nat
      /\ smallLoads \in Nat /\ nLoads \in Nat /\ smallSaves \in Nat /\ nSaves \in Nat
  BY <1>1, PairFacts
<1>3. /\ \A q \in R : Times[q] = smallTable[q].lastAccessed
      /\ \A q \in H : Times[q] = PageTable[q].lastAccessed
  BY <1>1, <1>2 DEF Times, SameTimes
<1>4. /\ smallClock' = smallClock + 1 /\ smallClock < MaxClock
      /\ \E K, v : SmallKeeps(p, K, v, write)
  <2>1. S!VMInv /\ \A q \in S!Resident : Times[q] = smallTable[q].lastAccessed
    BY <1>1, <1>3
  <2>2. /\ smallClock' = smallClock + 1 /\ smallClock < MaxClock
        /\ \E K, v : SmallKeeps(S!PageNo(va), K, v, action = "W")
    BY <2>1, SmallStep
  <2>3. QED  BY <1>0, <2>2
<1>5. /\ clock' = clock + 1 /\ clock < MaxClock
      /\ \E L, w : BigKeeps(p, L, w, write)
  <2>1. action \in Actions /\ ~OutOfRange(va)
    BY DEF S!Actions, Actions, S!OutOfRange, OutOfRange
  <2>2. QED  BY <1>0, <1>1, <1>3, <2>1, BigStep
<1>6. PICK K, v : SmallKeeps(p, K, v, write)  BY <1>4
<1>7. PICK L, w : BigKeeps(p, L, w, write)  BY <1>5
<1> HIDE DEF write
<1>8. /\ K \subseteq R /\ v \in Pages /\ S!Uses(p, K, write)
      /\ Saving(R, NFrames - 1, Times, p, K, v, S!Dirty, smallSaves, smallSaves')
      /\ smallLoads' = IF p \in R THEN smallLoads ELSE smallLoads + 1
  BY <1>6 DEF SmallKeeps
<1>9. /\ L \subseteq H /\ w \in Pages /\ Uses(p, L, write)
      /\ Saving(H, NFrames, Times, p, L, w, Dirty, nSaves, nSaves')
      /\ nLoads' = IF p \in H THEN nLoads ELSE nLoads + 1
  BY <1>7 DEF BigKeeps
<1>10. S!AsInt(smallClock) = clock /\ AsInt(clock) = clock
  <2>1. S!AsInt(smallClock) = smallClock
    BY <1>1, <1>2, <1>4, PairNumbers, S!ClockIsInt DEF S!VMInv
  <2>2. AsInt(clock) = clock
    BY <1>1, <1>5, ClockIsInt DEF VMInv
  <2>3. QED  BY <1>1, <2>1, <2>2
<1>11. /\ S!Resident' = K \cup {p} /\ Resident' = L \cup {p} /\ p \in Pages
       /\ smallTable'[p].lastAccessed = clock /\ PageTable'[p].lastAccessed = clock
       /\ \A q \in K \ {p} : smallTable'[q] = smallTable[q]
       /\ \A q \in L \ {p} : PageTable'[q] = PageTable[q]
  BY <1>2, <1>8, <1>9, <1>10, Zenon DEF S!Uses, Uses
<1>12. Stacked(S!Resident', Resident', Times', NFrames - 1, clock')
  <2>1. Times'[p] = clock /\ \A q \in L \ {p} : Times'[q] = Times[q]
    BY <1>2, <1>9, <1>11 DEF Times, Pages
  <2>2. Stacked(K \cup {p}, L \cup {p}, Times', NFrames - 1, clock + 1)
    BY <1>1, <1>2, <1>8, <1>9, <2>1, PairNumbers, StackKept DEF Saving
  <2>3. QED  BY <1>5, <1>11, <2>2
<1>13. SameTimes'
  <2>1. S!Resident' \subseteq Resident'  BY <1>12 DEF Stacked
  <2>2. SUFFICES ASSUME NEW q \in S!Resident'
                 PROVE  smallTable'[q].lastAccessed = PageTable'[q].lastAccessed
    BY DEF SameTimes
  <2>3. CASE q = p  BY <1>11, <2>3
  <2>4. CASE q # p
    <3>1. q \in K \ {p} /\ q \in L \ {p} /\ q \in R  BY <1>8, <1>11, <2>1, <2>2, <2>4
    <3>2. QED  BY <1>1, <1>11, <3>1, Zenon DEF SameTimes
  <2>5. QED  BY <2>3, <2>4
<1>14. nLoads' <= smallLoads'
  <2>1. nLoads <= smallLoads /\ R \subseteq H  BY <1>1 DEF PairInv, Stacked
  <2>2. QED  BY <1>2, <1>8, <1>9, <2>1
<1>15. smallClock' = clock'  BY <1>1, <1>4, <1>5
<1>16. nSaves' + Cardinality(Dirty' \ S!Dirty') <= smallSaves'
  <2>1. S!Dirty \in SUBSET R /\ Dirty \in SUBSET H  BY DEF S!Dirty, Dirty
  <2>2. S!Dirty \cap K \subseteq S!Dirty'
    <3> SUFFICES ASSUME NEW q \in S!Dirty \cap K PROVE q \in S!Dirty'  OBVIOUS
    <3>1. q \in S!Resident' /\ smallTable[q].modified  BY <1>11 DEF S!Dirty
    <3>2. smallTable'[q].modified
      <4>1. CASE q = p  BY <1>8, <3>1, <4>1, Zenon DEF S!Uses
      <4>2. CASE q # p  BY <1>11, <3>1, <4>2, Zenon
      <4>3. QED  BY <4>1, <4>2
    <3>3. QED  BY <3>1, <3>2, Zenon DEF S!Dirty
  <2>3. Dirty' \ {p} \subseteq Dirty \cap L
    <3> SUFFICES ASSUME NEW q \in Dirty', q # p PROVE q \in Dirty \cap L  OBVIOUS
    <3>1. q \in L /\ PageTable'[q].modified  BY <1>11, Zenon DEF Dirty
    <3>2. PageTable[q].modified /\ q \in H  BY <1>9, <1>11, <3>1, Zenon
    <3>3. QED  BY <3>1, <3>2, Zenon DEF Dirty
  <2>4. ASSUME p \in Dirty', p \notin S!Dirty' PROVE p \in Dirty \cap L
    <3>1. PageTable'[p].modified  BY <2>4 DEF Dirty
    <3>2. ~smallTable'[p].modified
      <4>1. p \in S!Resident'  BY <1>11
      <4>2. QED  BY <2>4, <4>1, Zenon DEF S!Dirty
    <3>3. PageTable[p].modified  BY <1>8, <1>9, <3>1, <3>2, Zenon DEF S!Uses, Uses
    <3>4. p \in H
      <4>1. TablesInverse  BY <1>1 DEF VMInv
      <4>2. PageTable[p].loaded  BY <1>11, <3>3, <4>1, Zenon DEF TablesInverse
      <4>3. QED  BY <1>11, <4>2, Zenon DEF Resident
    <3>5. p \in L  BY <1>9, <3>4 DEF Saving, Serving, Hitting, Loading, Giving
    <3>6. QED  BY <3>3, <3>4, <3>5, Zenon DEF Dirty
  <2>5. nSaves + Cardinality(Dirty \ S!Dirty) <= smallSaves  BY DEF PairInv
  <2> DEFINE E1 == S!Dirty'
             D1 == Dirty'
             rs1 == smallSaves'
             hs1 == nSaves'
             n == NFrames - 1
  <2>6. Written(S!Dirty, K, E1, Dirty, L, D1, p)
    BY <2>2, <2>3, <2>4 DEF Written
  <2>7. /\ Saving(R, n, Times, p, K, v, S!Dirty, smallSaves, rs1)
        /\ Saving(H, NFrames, Times, p, L, w, Dirty, nSaves, hs1)
    BY <1>8, <1>9
  <2>8. /\ n \in Nat /\ NFrames = n + 1 /\ Cardinality(R) <= n
        /\ Stacked(R, H, Times, n, clock)
    BY <1>1, <1>2, PairNumbers
  <2> HIDE DEF R, H, E1, D1, rs1, hs1, n
  <2>9. hs1 + Cardinality(D1 \ E1) <= rs1
    BY <1>2, <2>1, <2>5, <2>6, <2>7, <2>8, OwedKept
  <2>10. QED  BY <2>9 DEF E1, D1, rs1, hs1
<1>17. QED  BY <1>12, <1>13, <1>14, <1>15, <1>16 DEF PairInv

LEMMA NextPair == S!NoWrap /\ NoWrap /\ PairInv /\ [PairNext]_pairVars => PairInv'
<1> SUFFICES ASSUME S!NoWrap, NoWrap, PairInv, [PairNext]_pairVars PROVE PairInv'
  OBVIOUS
<1>1. S!VMInv /\ VMInv  BY DEF PairInv
<1>2. ASSUME UNCHANGED <<smallTable, smallLoads, smallSaves, smallClock>>,
             UNCHANGED <<PageTable, nLoads, nSaves, clock>>,
             S!VMInv', VMInv'
      PROVE  PairInv'
  <2>1. S!Resident' = S!Resident /\ Resident' = Resident
    BY <1>2 DEF S!Resident, Resident
  <2>2. S!Dirty' = S!Dirty /\ Dirty' = Dirty
    BY <1>2, <2>1 DEF S!Dirty, Dirty
  <2>3. Times' = Times  BY <1>2 DEF Times
  <2>4. SameTimes'  BY <1>2, <2>1 DEF PairInv, SameTimes
  <2>5. QED  BY <1>2, <2>1, <2>2, <2>3, <2>4 DEF PairInv
<1>3. CASE UNCHANGED pairVars
  <2>1. UNCHANGED Small!vars /\ UNCHANGED vars  BY <1>3 DEF pairVars
  <2>2. UNCHANGED S!vars
    BY <2>1 DEF Small!vars, Small!counters, S!vars, S!counters
  <2>3. S!VMInv'  BY <1>1, <2>2, PairNumbers, S!NextInv
  <2>4. VMInv'  BY <1>1, <2>1, NextInv
  <2>5. QED  BY <1>2, <2>1, <2>2, <2>3, <2>4 DEF S!vars, vars, S!counters, counters
<1>4. CASE EndOfInput /\ Small!EndOfInput
  <2>1. S!EndOfInput /\ EndOfInput  BY <1>4, SmallIsS
  <2>2. S!VMInv'  BY <1>1, <2>1, PairNumbers, S!NextInv DEF S!Next
  <2>3. VMInv'  BY <1>1, <2>1, NextInv DEF Next
  <2>4. QED  BY <1>2, <2>1, <2>2, <2>3 DEF S!EndOfInput, EndOfInput, S!counters, counters
<1>5. ASSUME NEW va \in VAddrs, NEW action \in Actions,
             Reference(va, action), Small!Reference(va, action)
      PROVE  PairInv'
  <2>1. action \in S!Actions /\ S!Reference(va, action)
    BY <1>5, SmallIsS DEF Small!Actions, Actions
  <2>2. S!VMInv'  BY <1>1, <2>1, PairNumbers, S!NextInv DEF S!Next
  <2>3. VMInv'  BY <1>1, <1>5, NextInv DEF Next
  <2>4. S!OutOfRange(va) <=> OutOfRange(va)
    BY DEF S!OutOfRange, OutOfRange
  <2>5. CASE S!OutOfRange(va)
    <3>1. UNCHANGED <<smallTable, smallLoads, smallSaves, smallClock>>
      BY <1>1, <2>1, <2>5, PairNumbers, S!ReferenceEffect
    <3>2. UNCHANGED <<PageTable, nLoads, nSaves, clock>>
      BY <1>1, <1>5, <2>4, <2>5, ReferenceEffect
    <3>3. QED  BY <1>2, <2>2, <2>3, <3>1, <3>2
  <2>6. CASE ~S!OutOfRange(va)
    BY <1>5, <2>1, <2>2, <2>3, <2>6, PairTranslates
  <2>7. QED  BY <2>5, <2>6
<1>6. QED  BY <1>3, <1>4, <1>5 DEF PairNext

LEMMA PairInvariant == NoWrap => (PairSpec => []PairInv)
<1> SUFFICES ASSUME NoWrap PROVE PairSpec => []PairInv  OBVIOUS
<1>1. PairInit => PairInv  BY InitPair
<1>2. PairInv /\ [PairNext]_pairVars => PairInv'  BY SmallNoWrap, NextPair
<1>3. QED  BY <1>1, <1>2, PTL DEF PairSpec

\* The run with the larger memory is a run of VM, so that every theorem about
\* VM holds in the pair.
THEOREM LargerIsVM == PairSpec => Spec
<1>1. PairInit => Init  BY DEF PairInit
<1>2. [PairNext]_pairVars => [Next]_vars  BY DEF PairNext, pairVars, Next
<1>3. QED  BY <1>1, <1>2, PTL DEF PairSpec, Spec

\* With either size of memory, and for every number of frames, a page fault
\* finds a frame.
THEOREM FaultsHandledInBoth == NoWrap => (PairSpec => []BothHandleFaults)
<1> SUFFICES ASSUME NoWrap PROVE PairSpec => []BothHandleFaults  OBVIOUS
<1>1. PairInv => BothHandleFaults
  BY DEF PairInv, BothHandleFaults, FaultsHandled, Small!FaultsHandled, VMInv, Recency,
         S!VMInv, S!Recency
<1>2. QED  BY <1>1, PairInvariant, PTL

\* LRU replacement is a stack algorithm, for memories of every size: the pages
\* of the smaller memory are always in the larger one, last used at the same
\* time.
THEOREM LargerMemoryIncludes == NoWrap => (PairSpec => []Inclusion)
<1> SUFFICES ASSUME NoWrap PROVE PairSpec => []Inclusion  OBVIOUS
<1>1. PairInv => Inclusion
  BY DEF PairInv, Stacked, SameTimes, Inclusion, Small!Resident, Small!Pages,
         S!Resident, S!Pages
<1>2. QED  BY <1>1, PairInvariant, PTL

\* There is no Belady anomaly: on every input, a frame more costs neither a
\* load nor a save.  Every page that is modified in the larger memory alone
\* was saved by the smaller one and is still owed by the larger.
THEOREM NoAnomaly == NoWrap => (PairSpec => []MoreMemoryNoWorse)
<1> SUFFICES ASSUME NoWrap PROVE PairSpec => []MoreMemoryNoWorse  OBVIOUS
<1>1. PairInv => MoreMemoryNoWorse
  <2> SUFFICES ASSUME PairInv PROVE MoreMemoryNoWorse  OBVIOUS
  <2>1. IsFiniteSet(Resident) /\ smallSaves \in Nat /\ nSaves \in Nat
    BY PairFacts DEF PairInv
  <2>2. Dirty \ S!Dirty \subseteq Resident  BY DEF Dirty
  <2>3. Cardinality(Dirty \ S!Dirty) \in Nat
    BY <2>1, <2>2, FS_Subset, FS_CardinalityType
  <2>4. QED  BY <2>1, <2>3 DEF PairInv, MoreMemoryNoWorse
<1>2. QED  BY <1>1, PairInvariant, PTL
=============================================================================
