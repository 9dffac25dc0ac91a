----------------------------- MODULE LabsProofs -----------------------------
(***************************************************************************)
(* Theorems about the small programs of module Labs: the addition of       *)
(* add.c, for numbers of any lengths, the ranges of bits.c and the bits of *)
(* maf.c, for any widths, the bounding box of 17S2/q2/q2.c, for any files, *)
(* size of a point and largest byte, and the directory listing of myls.c,  *)
(* for any directory, records and length of a name.                        *)
(***************************************************************************)
EXTENDS Labs, WellFoundedInduction, TLAPS

-----------------------------------------------------------------------------
(* Remainders of offsets in a file of points.                              *)

\* The remainder is the one number below n that is left.
LEMMA Remainder ==
  ASSUME NEW n \in Nat \ {0}, NEW q \in Int, NEW r \in 0 .. n - 1
  PROVE  (q * n + r) % n = r
<1> DEFINE a == q * n + r
           d == a \div n
           e == a % n
<1>1. a \in Int  OBVIOUS
<1>2. d \in Int /\ e \in 0 .. n - 1 /\ a = n * d + e
  <2> HIDE DEF a
  <2>1. QED  BY <1>1
<1>3. PICK k \in Int : k = q - d  BY <1>2
<1>4. k * n = e - r
  <2> HIDE DEF d, e
  <2>1. q = k + d  BY <1>2, <1>3
  <2>2. (k + d) * n + r = n * d + e  BY <1>2, <2>1
  <2>3. QED  BY <1>2, <2>2
<1>5. k = 0
  <2> HIDE DEF d, e
  <2>1. ~(k >= 1)
    <3>1. SUFFICES ASSUME k >= 1 PROVE FALSE  OBVIOUS
    <3>2. k * n >= n  BY <3>1
    <3>3. QED  BY <1>2, <1>4, <3>2
  <2>2. ~(k <= -1)
    <3>1. SUFFICES ASSUME k <= -1 PROVE FALSE  OBVIOUS
    <3>2. k * n <= -n  BY <3>1
    <3>3. QED  BY <1>2, <1>4, <3>2
  <2>3. QED  BY <2>1, <2>2
<1> HIDE DEF d, e, a
<1>6. e = r  BY <1>2, <1>4, <1>5
<1>7. QED  BY <1>6 DEF e, a

\* The offsets of a point are 1 .. n behind the end of the one before.
Aligned(n, b) == n \in Nat \ {0} /\ b \in Nat /\ b % n = 0

LEMMA Behind ==
  ASSUME NEW n, NEW b, Aligned(n, b)
  PROVE  \A k \in 1 .. n : (b + k) % n = (IF k = n THEN 0 ELSE k)
<1> SUFFICES ASSUME NEW k \in 1 .. n PROVE (b + k) % n = (IF k = n THEN 0 ELSE k)
  OBVIOUS
<1>0. n \in Nat \ {0} /\ b \in Nat /\ b % n = 0  BY DEF Aligned
<1>1. PICK q \in Int : b = q * n
  <2>1. b \div n \in Int /\ b = n * (b \div n) + (b % n)  BY <1>0
  <2>2. QED  BY <1>0, <2>1
<1>2. CASE k < n
  <2>1. (q * n + k) % n = k  BY <1>0, <1>2, Remainder
  <2>2. QED  BY <1>1, <1>2, <2>1
<1>3. CASE k = n
  <2>1. ((q + 1) * n + 0) % n = 0
    <3>1. 0 \in 0 .. n - 1 /\ q + 1 \in Int  BY <1>0
    <3>2. PICK z \in Int : z = q + 1  BY <3>1
    <3>3. (z * n + 0) % n = 0  BY <1>0, <3>1, Remainder
    <3>4. QED  BY <3>2, <3>3
  <2>2. (q + 1) * n + 0 = b + n  BY <1>0, <1>1
  <2>3. QED  BY <1>3, <2>1, <2>2
<1>4. QED  BY <1>0, <1>2, <1>3

-----------------------------------------------------------------------------
(* Induction over the natural numbers, for the elements of a set, and what *)
(* it gives of functions that are defined by recursion.                    *)

LEMMA Induction ==
  ASSUME NEW T, 0 \in T, \A n \in Nat : n \in T => n + 1 \in T
  PROVE  \A n \in Nat : n \in T
<1> SUFFICES ASSUME NEW m \in Nat, m \notin T PROVE FALSE
  OBVIOUS
<1> DEFINE R == OpToRel(<, Nat)
           Out == {n \in Nat : n \notin T}
<1>1. IsWellFoundedOn(R, Nat)  BY NatLessThanWellFounded
<1>2. Out \subseteq Nat /\ Out # {}  OBVIOUS
<1>3. PICK n \in Out : \A k \in Out : ~(<<k, n>> \in R)
  <2> HIDE DEF Out, R
  <2>1. QED  BY <1>1, <1>2, WFMin
<1>4. n \in Nat /\ n \notin T /\ n # 0  BY <1>3
<1>5. n - 1 \in Nat /\ n - 1 < n /\ (n - 1) + 1 = n  BY <1>4
<1>6. n - 1 \in T  BY <1>3, <1>5 DEF OpToRel
<1>7. QED  BY <1>4, <1>5, <1>6

\* A function that says how to go on from each number has a run.
Steps(N, S, step) == N \in Nat /\ step \in [(1 .. N) \X S -> S]
Follows(f, N, S, base, step) ==
  /\ f \in [0 .. N -> S] /\ f[0] = base
  /\ \A k \in 1 .. N : f[k] = step[<<k, f[k - 1]>>]

LEMMA Recursion ==
  ASSUME NEW N, NEW S, NEW base \in S, NEW step, Steps(N, S, step)
  PROVE  \E f : Follows(f, N, S, base, step)
<1>0. N \in Nat /\ step \in [(1 .. N) \X S -> S]  BY DEF Steps
<1> DEFINE Runs(n) == {f \in [0 .. n -> S] :
                        f[0] = base /\ \A k \in 1 .. n : f[k] = step[<<k, f[k - 1]>>]}
           T == {n \in Nat : n <= N => Runs(n) # {}}
<1>1. 0 \in T
  <2>1. [k \in 0 .. 0 |-> base] \in Runs(0)  OBVIOUS
  <2>2. QED  BY <2>1
<1>2. ASSUME NEW n \in Nat, n \in T PROVE n + 1 \in T
  <2> SUFFICES ASSUME n + 1 <= N PROVE Runs(n + 1) # {}
    OBVIOUS
  <2>1. PICK f \in [0 .. n -> S] :
          f[0] = base /\ \A k \in 1 .. n : f[k] = step[<<k, f[k - 1]>>]
    <3>1. n <= N  BY <1>0
    <3>2. PICK f \in Runs(n) : TRUE  BY <1>2, <3>1
    <3>3. QED  BY <3>2
  <2>2. PICK last \in S : last = step[<<n + 1, f[n]>>]
    <3>1. <<n + 1, f[n]>> \in (1 .. N) \X S  BY <1>0, <2>1
    <3>2. QED  BY <1>0, <3>1
  <2> DEFINE g == [k \in 0 .. n + 1 |-> IF k <= n THEN f[k] ELSE last]
  <2>3. g \in [0 .. n + 1 -> S] /\ g[0] = base  BY <2>1, <2>2
  <2>4. ASSUME NEW k \in 1 .. n + 1 PROVE g[k] = step[<<k, g[k - 1]>>]
    <3>1. g[k - 1] = f[k - 1]  OBVIOUS
    <3>2. CASE k <= n  BY <2>1, <3>1, <3>2
    <3>3. CASE k = n + 1
      <4>1. g[k] = last /\ k - 1 = n  BY <3>3
      <4>2. QED  BY <2>2, <3>1, <3>3, <4>1
    <3>4. QED  BY <3>2, <3>3
  <2> HIDE DEF g
  <2>5. g \in Runs(n + 1)  BY <2>3, <2>4
  <2>6. QED  BY <2>5
<1> HIDE DEF T
<1>3. N \in T  BY <1>0, <1>1, <1>2, Induction
<1>4. QED  BY <1>0, <1>3 DEF T, Follows

-----------------------------------------------------------------------------
Base(b) == b \in Nat /\ b >= 2

PowerRun(f, b, n) == f[0] = 1 /\ \A k \in 1 .. n : f[k] = b * f[k - 1]

LEMMA PowerRuns ==
  ASSUME NEW b, Base(b), NEW n \in Nat
  PROVE  \E f : PowerRun(f, b, n) /\ Power(b, n) = f[n]
<1> DEFINE S == Nat \ {0}
           step == [x \in (1 .. n) \X S |-> b * x[2]]
           Is(f) == f = [k \in 0 .. n |-> IF k = 0 THEN 1 ELSE b * f[k - 1]]
           power == CHOOSE f : Is(f)
<1>1. Steps(n, S, step)
  <2>1. \A x \in S : b * x \in S  BY DEF Base
  <2>2. QED  BY <2>1 DEF Steps
<1>2. PICK one \in S : one = 1  OBVIOUS
<1>3. PICK f : Follows(f, n, S, one, step)
  <2> HIDE DEF S, step
  <2>1. QED  BY <1>1, Recursion
<1>4. f \in [0 .. n -> S] /\ f[0] = 1
  BY <1>2, <1>3 DEF Follows
<1>5. \A k \in 1 .. n : f[k] = b * f[k - 1]
  <2> TAKE k \in 1 .. n
  <2>1. k - 1 \in 0 .. n /\ f[k - 1] \in S  BY <1>4
  <2>2. step[<<k, f[k - 1]>>] = b * f[k - 1]  BY <2>1
  <2>3. QED  BY <1>3, <2>2 DEF Follows
<1>6. Is(f)  BY <1>4, <1>5
<1>7. Is(power)  BY <1>6
<1>8. Power(b, n) = power[n]  BY DEF Power
<1> HIDE DEF power
<1>9. PowerRun(power, b, n)  BY <1>7 DEF PowerRun
<1>10. QED  BY <1>8, <1>9

LEMMA SamePower ==
  ASSUME NEW b, NEW n \in Nat, NEW f, NEW g, PowerRun(f, b, n), PowerRun(g, b, n)
  PROVE  f[n] = g[n]
<1> DEFINE T == {k \in Nat : k <= n => f[k] = g[k]}
<1>1. 0 \in T  BY DEF PowerRun
<1>2. ASSUME NEW k \in Nat, k \in T PROVE k + 1 \in T
  <2> SUFFICES ASSUME k + 1 <= n PROVE f[k + 1] = g[k + 1]
    OBVIOUS
  <2>1. PICK j \in 1 .. n : j = k + 1  OBVIOUS
  <2>2. f[j - 1] = g[j - 1]  BY <1>2, <2>1
  <2>3. QED  BY <2>1, <2>2 DEF PowerRun
<1> HIDE DEF T
<1>3. \A k \in Nat : k \in T  BY <1>1, <1>2, Induction
<1>4. QED  BY <1>3 DEF T

\* The powers of a base.
LEMMA Powers ==
  ASSUME NEW b, Base(b)
  PROVE  /\ Power(b, 0) = 1
         /\ \A n \in Nat : Power(b, n) \in Nat \ {0} /\ Power(b, n + 1) = b * Power(b, n)
<1>1. Power(b, 0) = 1
  <2>1. PICK zero \in Nat : zero = 0  OBVIOUS
  <2>2. PICK f : PowerRun(f, b, zero) /\ Power(b, zero) = f[zero]  BY PowerRuns
  <2>3. QED  BY <2>1, <2>2 DEF PowerRun
<1>2. ASSUME NEW n \in Nat PROVE Power(b, n + 1) = b * Power(b, n)
  <2>1. PICK m \in Nat : m = n + 1  OBVIOUS
  <2>2. PICK f : PowerRun(f, b, n) /\ Power(b, n) = f[n]  BY PowerRuns
  <2>3. PICK g : PowerRun(g, b, m) /\ Power(b, m) = g[m]  BY PowerRuns
  <2>4. PowerRun(g, b, n)  BY <2>1, <2>3 DEF PowerRun
  <2>5. f[n] = g[n]  BY <2>2, <2>4, SamePower
  <2>6. g[m] = b * g[n]
    <3>1. m \in 1 .. m /\ m - 1 = n  BY <2>1
    <3>2. QED  BY <2>3, <3>1 DEF PowerRun
  <2>7. QED  BY <2>1, <2>2, <2>3, <2>5, <2>6
<1> DEFINE T == {n \in Nat : Power(b, n) \in Nat \ {0}}
<1>3. 0 \in T  BY <1>1
<1>4. ASSUME NEW n \in Nat, n \in T PROVE n + 1 \in T
  <2>1. PICK q \in Nat \ {0} : q = Power(b, n)  BY <1>4
  <2>2. b * q \in Nat \ {0}  BY DEF Base
  <2>3. QED  BY <1>2, <2>1, <2>2
<1> HIDE DEF T
<1>5. \A n \in Nat : n \in T  BY <1>3, <1>4, Induction
<1>6. QED  BY <1>1, <1>2, <1>5 DEF T

-----------------------------------------------------------------------------
NumberRun(f, b, s, n) ==
  f[0] = 0 /\ \A k \in 1 .. n : f[k] = f[k - 1] + s[k] * Power(b, k - 1)

LEMMA NumberRuns ==
  ASSUME NEW b, Base(b), NEW s \in Seq(Int)
  PROVE  \E f : NumberRun(f, b, s, Len(s)) /\ Number(b, s) = f[Len(s)]
<1> DEFINE n == Len(s)
           value(k) == s[k] * Power(b, k - 1)
           step == [x \in (1 .. n) \X Int |-> x[2] + value(x[1])]
           Is(f) == f = [k \in 0 .. n |-> IF k = 0 THEN 0 ELSE f[k - 1] + value(k)]
           number == CHOOSE f : Is(f)
<1>1. n \in Nat /\ \A k \in 1 .. n : value(k) \in Int
  <2> SUFFICES ASSUME NEW k \in 1 .. n PROVE value(k) \in Int
    OBVIOUS
  <2>1. k - 1 \in Nat  OBVIOUS
  <2>2. Power(b, k - 1) \in Int  BY <2>1, Powers
  <2>3. s[k] \in Int  OBVIOUS
  <2>4. QED  BY <2>2, <2>3
<1> HIDE DEF value, n
<1>2. Steps(n, Int, step)
  <2>1. \A x \in Int, k \in 1 .. n : x + value(k) \in Int  BY <1>1
  <2>2. QED  BY <1>1, <2>1 DEF Steps
<1>3. PICK zero \in Int : zero = 0  OBVIOUS
<1>4. PICK f : Follows(f, n, Int, zero, step)
  <2> HIDE DEF step
  <2>1. QED  BY <1>2, Recursion
<1>5. f \in [0 .. n -> Int] /\ f[0] = 0
  BY <1>3, <1>4 DEF Follows
<1>6. \A k \in 1 .. n : f[k] = f[k - 1] + value(k)
  <2> TAKE k \in 1 .. n
  <2>1. k - 1 \in 0 .. n /\ f[k - 1] \in Int  BY <1>1, <1>5
  <2>2. step[<<k, f[k - 1]>>] = f[k - 1] + value(k)  BY <2>1
  <2>3. QED  BY <1>4, <2>2 DEF Follows
<1>7. Is(f)  BY <1>5, <1>6
<1>8. Is(number)  BY <1>7
<1>9. Number(b, s) = number[n]  BY DEF Number, value, n
<1> HIDE DEF number
<1>10. number[0] = 0 /\ \A k \in 1 .. n : number[k] = number[k - 1] + value(k)
  BY <1>1, <1>8
<1>11. NumberRun(number, b, s, n)  BY <1>10 DEF NumberRun, value
<1>12. QED  BY <1>9, <1>11 DEF n

\* The number that the first digits denote.
LEMMA FirstDigits ==
  ASSUME NEW b, Base(b), NEW s \in Seq(Int)
  PROVE  /\ Number(b, SubSeq(s, 1, 0)) = 0
         /\ Number(b, SubSeq(s, 1, Len(s))) = Number(b, s)
         /\ \A k \in 0 .. Len(s) : Number(b, SubSeq(s, 1, k)) \in Int
         /\ \A k \in 0 .. Len(s) - 1 :
              Number(b, SubSeq(s, 1, k + 1)) =
                Number(b, SubSeq(s, 1, k)) + s[k + 1] * Power(b, k)
<1>1. PICK f : NumberRun(f, b, s, Len(s)) /\ Number(b, s) = f[Len(s)]  BY NumberRuns
<1>2. ASSUME NEW n \in 0 .. Len(s) PROVE Number(b, SubSeq(s, 1, n)) = f[n]
  <2>0. n \in Nat /\ n <= Len(s) /\ Len(s) \in Nat  OBVIOUS
  <2>1. PICK t \in Seq(Int) : t = SubSeq(s, 1, n)
    <3>1. \A k \in 1 .. n : s[k] \in Int  BY <2>0
    <3>2. SubSeq(s, 1, n) \in Seq(Int)  BY <2>0, <3>1
    <3>3. QED  BY <3>2
  <2>2. Len(t) = n /\ \A k \in 1 .. n : t[k] = s[k]  BY <2>0, <2>1
  <2>3. PICK g : NumberRun(g, b, t, n) /\ Number(b, t) = g[n]  BY <2>2, NumberRuns
  <2> DEFINE T == {k \in Nat : k <= n => f[k] = g[k]}
  <2>4. 0 \in T  BY <1>1, <2>3 DEF NumberRun
  <2>5. ASSUME NEW k \in Nat, k \in T PROVE k + 1 \in T
    <3> SUFFICES ASSUME k + 1 <= n PROVE f[k + 1] = g[k + 1]
      OBVIOUS
    <3>1. PICK j \in 1 .. n : j = k + 1  OBVIOUS
    <3>2. f[j - 1] = g[j - 1]  BY <2>5, <3>1
    <3>3. f[j] = f[j - 1] + s[j] * Power(b, j - 1)
      BY <1>1 DEF NumberRun
    <3>4. g[j] = g[j - 1] + t[j] * Power(b, j - 1)
      BY <2>3 DEF NumberRun
    <3>5. QED  BY <2>2, <3>1, <3>2, <3>3, <3>4
  <2> HIDE DEF T
  <2>6. n \in T  BY <2>0, <2>4, <2>5, Induction
  <2>7. QED  BY <2>1, <2>3, <2>6 DEF T
<1> DEFINE N(k) == Number(b, SubSeq(s, 1, k))
<1>3. Len(s) \in Nat /\ \A n \in 0 .. Len(s) : N(n) = f[n]  BY <1>2
<1> HIDE DEF N
<1>4. f[0] = 0  BY <1>1 DEF NumberRun
<1>5. \A k \in 0 .. Len(s) - 1 : f[k + 1] = f[k] + s[k + 1] * Power(b, k)
  <2> TAKE k \in 0 .. Len(s) - 1
  <2>1. PICK j \in 1 .. Len(s) : j = k + 1  OBVIOUS
  <2>2. f[j] = f[j - 1] + s[j] * Power(b, j - 1)  BY <1>1 DEF NumberRun
  <2>3. j - 1 = k  BY <2>1
  <2>4. QED  BY <2>1, <2>2, <2>3
<1> DEFINE T == {k \in Nat : k <= Len(s) => f[k] \in Int}
<1>6. 0 \in T  BY <1>4
<1>7. ASSUME NEW k \in Nat, k \in T PROVE k + 1 \in T
  <2> SUFFICES ASSUME k + 1 <= Len(s) PROVE f[k + 1] \in Int
    OBVIOUS
  <2>1. f[k + 1] = f[k] + s[k + 1] * Power(b, k) /\ f[k] \in Int  BY <1>5, <1>7
  <2>2. PICK q \in Int : q = Power(b, k)  BY Powers
  <2>3. PICK d \in Int : d = s[k + 1]  OBVIOUS
  <2>4. QED  BY <2>1, <2>2, <2>3
<1> HIDE DEF T
<1>8. \A k \in Nat : k \in T  BY <1>6, <1>7, Induction
<1>9. \A k \in 0 .. Len(s) : f[k] \in Int  BY <1>8 DEF T
<1>10. QED  BY <1>1, <1>3, <1>4, <1>5, <1>9 DEF N

-----------------------------------------------------------------------------
(* The digits of a number.                                                 *)

First(b, s, k) == Number(b, SubSeq(s, 1, k))

LEMMA Firsts ==
  ASSUME NEW b, Base(b), NEW s \in Seq(Int)
  PROVE  /\ First(b, s, 0) = 0 /\ First(b, s, Len(s)) = Number(b, s)
         /\ \A k \in 0 .. Len(s) : First(b, s, k) \in Int
         /\ \A k \in 0 .. Len(s) - 1 :
              First(b, s, k + 1) = First(b, s, k) + s[k + 1] * Power(b, k)
BY FirstDigits DEF First

\* The first digits are all there is to it.
LEMMA SameFirst ==
  ASSUME NEW b, NEW S, NEW s \in Seq(S), NEW t \in Seq(S), NEW k \in Nat,
         k <= Len(s), k <= Len(t), \A j \in 1 .. k : s[j] = t[j]
  PROVE  First(b, s, k) = First(b, t, k)
<1>1. SubSeq(s, 1, k) = SubSeq(t, 1, k)  OBVIOUS
<1>2. QED  BY <1>1 DEF First

Digits(b) == 0 .. b - 1

LEMMA DigitsAreIntegers ==
  ASSUME NEW b, Base(b), NEW s \in Seq(Digits(b))
  PROVE  /\ s \in Seq(Int) /\ Len(s) \in Nat
         /\ \A k \in 1 .. Len(s) : s[k] \in Int /\ 0 <= s[k] /\ s[k] < b
BY DEF Base, Digits

LEMMA OneMoreDigit ==
  ASSUME NEW b \in Nat, NEW d \in Int, 0 <= d, d <= b - 1, NEW q \in Nat \ {0},
         NEW n \in Int, 0 <= n, n <= q - 1
  PROVE  n + d * q \in 0 .. b * q - 1
<1>1. PICK c \in Nat : b = c + 1 + d
  <2>1. (b - 1) - d \in Nat /\ b = ((b - 1) - d) + 1 + d  OBVIOUS
  <2>2. QED  BY <2>1
<1>2. b * q = c * q + q + d * q
  <2>1. (c + 1 + d) * q = c * q + q + d * q  OBVIOUS
  <2>2. QED  BY <1>1, <2>1
<1>3. PICK x \in Nat : x = d * q  OBVIOUS
<1>4. PICK z \in Nat : z = c * q  OBVIOUS
<1>5. b * q = z + q + x  BY <1>2, <1>3, <1>4
<1>6. n + x \in 0 .. (z + q + x) - 1  OBVIOUS
<1>7. QED  BY <1>3, <1>5, <1>6

\* Digits denote less than the power behind them.
LEMMA Bounded ==
  ASSUME NEW b, Base(b), NEW s \in Seq(Digits(b))
  PROVE  \A k \in 0 .. Len(s) : First(b, s, k) \in 0 .. Power(b, k) - 1
<1> DEFINE T == {k \in Nat : k <= Len(s) => First(b, s, k) \in 0 .. Power(b, k) - 1}
<1>1. s \in Seq(Int) /\ Len(s) \in Nat /\ b \in Nat
  BY DigitsAreIntegers DEF Base
<1>2. 0 \in T
  <2>1. First(b, s, 0) = 0 /\ Power(b, 0) = 1  BY <1>1, Firsts, Powers
  <2>2. QED  BY <2>1
<1>3. ASSUME NEW k \in Nat, k \in T PROVE k + 1 \in T
  <2> SUFFICES ASSUME k + 1 <= Len(s)
               PROVE  First(b, s, k + 1) \in 0 .. Power(b, k + 1) - 1
    OBVIOUS
  <2>1. PICK j \in 1 .. Len(s) : j = k + 1  BY <1>1
  <2>2. PICK d \in Int : d = s[j] /\ 0 <= d /\ d <= b - 1
    BY <1>1, DigitsAreIntegers
  <2>3. PICK q \in Nat \ {0} : q = Power(b, k)  BY Powers
  <2>4. PICK n \in Int : n = First(b, s, k) /\ 0 <= n /\ n <= q - 1
    BY <1>3, <2>1, <2>3
  <2>5. First(b, s, k + 1) = n + d * q
    BY <1>1, <2>1, <2>2, <2>3, <2>4, Firsts
  <2>6. Power(b, k + 1) = b * q  BY <2>3, Powers
  <2>7. n + d * q \in 0 .. b * q - 1  BY <1>1, <2>2, <2>3, <2>4, OneMoreDigit
  <2>8. QED  BY <2>5, <2>6, <2>7
<1> HIDE DEF T
<1>4. \A k \in Nat : k \in T  BY <1>2, <1>3, Induction
<1>5. QED  BY <1>1, <1>4 DEF T

\* Behind its first digits a number is a multiple of their power.
LEMMA Multiples ==
  ASSUME NEW b, Base(b), NEW s \in Seq(Digits(b)), NEW k \in 0 .. Len(s)
  PROVE  \E q \in Int : Number(b, s) = First(b, s, k) + q * Power(b, k)
<1> DEFINE Over(n) == \E q \in Int : First(b, s, n) = First(b, s, k) + q * Power(b, k)
           Under(n) == \E r \in Int : Power(b, n) = r * Power(b, k)
           T == {n \in Nat : k + n <= Len(s) => Over(k + n) /\ Under(k + n)}
<1>1. s \in Seq(Int) /\ Len(s) \in Nat /\ b \in Nat /\ k \in Nat /\ k <= Len(s)
  BY DigitsAreIntegers DEF Base
<1>2. PICK w \in Nat : w = Power(b, k)  BY <1>1, Powers
<1>3. PICK v \in Int : v = First(b, s, k)  BY <1>1, Firsts
<1>4. 0 \in T
  <2>1. v = v + 0 * w /\ w = 1 * w  BY <1>2, <1>3
  <2>2. Over(k) /\ Under(k)  BY <1>2, <1>3, <2>1
  <2>3. QED  BY <1>1, <2>2
<1>5. ASSUME NEW n \in Nat, n \in T PROVE n + 1 \in T
  <2> SUFFICES ASSUME k + (n + 1) <= Len(s) PROVE Over(k + (n + 1)) /\ Under(k + (n + 1))
    OBVIOUS
  <2>1. PICK m \in Nat : m = k + n /\ m + 1 <= Len(s) /\ m + 1 = k + (n + 1)  BY <1>1
  <2>2. Over(m) /\ Under(m)  BY <1>1, <1>5, <2>1
  <2>3. PICK q \in Int : First(b, s, m) = v + q * w  BY <1>2, <1>3, <2>2
  <2>4. PICK r \in Int : Power(b, m) = r * w  BY <1>2, <2>2
  <2>5. PICK d \in Int : d = s[m + 1]
    <3>1. m + 1 \in 1 .. Len(s)  BY <2>1
    <3>2. QED  BY <1>1, <3>1
  <2>6. First(b, s, m + 1) = First(b, s, m) + d * Power(b, m)
    <3>1. m \in 0 .. Len(s) - 1  BY <1>1, <2>1
    <3>2. QED  BY <1>1, <2>5, <3>1, Firsts
  <2>7. First(b, s, m + 1) = v + (q + d * r) * w
    <3>1. d * (r * w) = (d * r) * w  BY <1>2
    <3>2. PICK e \in Int : e = d * r  OBVIOUS
    <3>3. (q + e) * w = q * w + e * w  BY <1>2
    <3>4. q * w \in Int /\ e * w \in Int  BY <1>2
    <3>5. First(b, s, m + 1) = (v + q * w) + e * w  BY <2>3, <2>4, <2>6, <3>1, <3>2
    <3>6. QED  BY <3>2, <3>3, <3>4, <3>5
  <2>8. Power(b, m + 1) = (b * r) * w
    <3>1. Power(b, m + 1) = b * (r * w)  BY <2>1, <2>4, Powers
    <3>2. QED  BY <1>1, <1>2, <3>1
  <2>9. q + d * r \in Int /\ b * r \in Int  BY <1>1
  <2>10. QED  BY <1>2, <1>3, <2>1, <2>7, <2>8, <2>9
<1> HIDE DEF T
<1>6. \A n \in Nat : n \in T  BY <1>4, <1>5, Induction
<1>7. PICK n \in Nat : k + n = Len(s)
  <2>1. Len(s) - k \in Nat /\ k + (Len(s) - k) = Len(s)  BY <1>1
  <2>2. QED  BY <2>1
<1>8. Over(Len(s))  BY <1>1, <1>6, <1>7 DEF T
<1>9. QED  BY <1>1, <1>8, Firsts

LEMMA Quotient ==
  ASSUME NEW n \in Nat \ {0}, NEW q \in Int, NEW r \in 0 .. n - 1
  PROVE  (q * n + r) \div n = q
<1>1. PICK a \in Int : a = q * n + r  OBVIOUS
<1>2. a % n = r  BY <1>1, Remainder
<1>3. PICK d \in Int : d = a \div n  BY <1>1
<1>4. a = n * d + (a % n)  BY <1>1, <1>3
<1>5. q * n = d * n  BY <1>1, <1>2, <1>4
<1>6. PICK k \in Int : k = q - d  OBVIOUS
<1>7. k * n = 0
  <2>1. k * n = q * n - d * n  BY <1>6
  <2>2. q * n \in Int  OBVIOUS
  <2>3. QED  BY <1>5, <2>1, <2>2
<1>8. k = 0
  <2>1. k >= 1 => k * n >= n  OBVIOUS
  <2>2. k <= -1 => k * n <= -n  OBVIOUS
  <2>3. QED  BY <1>7, <2>1, <2>2
<1>9. QED  BY <1>1, <1>3, <1>6, <1>8

\* A digit of a number, from the number.
LEMMA DigitAt ==
  ASSUME NEW b, Base(b), NEW s \in Seq(Digits(b)), NEW k \in Nat, k < Len(s)
  PROVE  (Number(b, s) \div Power(b, k)) % b = s[k + 1]
<1>1. s \in Seq(Int) /\ Len(s) \in Nat /\ b \in Nat \ {0}
  BY DigitsAreIntegers DEF Base
<1>2. PICK j \in 1 .. Len(s) : j = k + 1  BY <1>1
<1>3. PICK d \in Digits(b) : d = s[j]  BY <1>2
<1>4. d \in 0 .. b - 1 /\ d \in Int  BY <1>1, <1>3 DEF Digits
<1>5. PICK n \in Nat \ {0} : n = Power(b, k)  BY Powers
<1>6. Power(b, j) = b * n  BY <1>2, <1>5, Powers
<1>7. PICK r \in 0 .. n - 1 : r = First(b, s, k)
  <2>1. k \in 0 .. Len(s)  BY <1>1
  <2>2. QED  BY <1>5, <2>1, Bounded
<1>8. First(b, s, j) = r + d * n
  <2>1. k \in 0 .. Len(s) - 1  BY <1>1
  <2>2. QED  BY <1>1, <1>2, <1>3, <1>5, <1>7, <2>1, Firsts
<1>9. PICK q \in Int : Number(b, s) = First(b, s, j) + q * Power(b, j)
  <2>1. j \in 0 .. Len(s)  BY <1>1
  <2>2. QED  BY <2>1, Multiples
<1>10. PICK e \in Int : e = q * b + d  BY <1>1, <1>4
<1>11. Number(b, s) = e * n + r
  <2>1. q * (b * n) = (q * b) * n  BY <1>1
  <2>2. PICK c \in Int : c = q * b  BY <1>1
  <2>3. (c + d) * n = c * n + d * n  BY <1>4
  <2>4. c * n \in Int /\ d * n \in Int /\ r \in Int  BY <1>4
  <2>5. Number(b, s) = (r + d * n) + c * n  BY <1>6, <1>8, <1>9, <2>1, <2>2
  <2>6. e = c + d  BY <1>10, <2>2
  <2>7. QED  BY <2>3, <2>4, <2>5, <2>6
<1>12. (e * n + r) \div n = e  BY Quotient
<1>13. (q * b + d) % b = d  BY <1>1, <1>4, Remainder
<1>14. QED  BY <1>2, <1>3, <1>5, <1>10, <1>11, <1>12, <1>13

\* Zeros behind the first digits do not count.
LEMMA ZerosBehind ==
  ASSUME NEW b, Base(b), NEW s \in Seq(Int), NEW k \in 0 .. Len(s),
         \A j \in k + 1 .. Len(s) : s[j] = 0
  PROVE  First(b, s, k) = Number(b, s)
<1> DEFINE T == {n \in Nat : k + n <= Len(s) => First(b, s, k + n) = First(b, s, k)}
<1>1. k \in Nat /\ Len(s) \in Nat /\ k <= Len(s)  OBVIOUS
<1>2. 0 \in T  BY <1>1
<1>3. ASSUME NEW n \in Nat, n \in T PROVE n + 1 \in T
  <2> SUFFICES ASSUME k + (n + 1) <= Len(s)
               PROVE  First(b, s, k + (n + 1)) = First(b, s, k)
    OBVIOUS
  <2>1. PICK m \in 0 .. Len(s) - 1 : m = k + n /\ m + 1 = k + (n + 1)  BY <1>1
  <2>2. First(b, s, m) = First(b, s, k)  BY <1>1, <1>3, <2>1
  <2>3. First(b, s, m + 1) = First(b, s, m) + s[m + 1] * Power(b, m)  BY Firsts
  <2>4. m + 1 \in k + 1 .. Len(s)  BY <1>1, <2>1
  <2>5. s[m + 1] = 0  BY <2>4
  <2>6. PICK q \in Int : q = Power(b, m)  BY <2>1, Powers
  <2>7. PICK x \in Int : x = First(b, s, m)
    <3>1. m \in 0 .. Len(s)  BY <1>1, <2>1
    <3>2. QED  BY <3>1, Firsts
  <2>8. x + 0 * q = x  OBVIOUS
  <2>9. QED  BY <2>1, <2>2, <2>3, <2>5, <2>6, <2>7, <2>8
<1> HIDE DEF T
<1>4. \A n \in Nat : n \in T  BY <1>2, <1>3, Induction
<1>5. PICK n \in Nat : k + n = Len(s)
  <2>1. Len(s) - k \in Nat /\ k + (Len(s) - k) = Len(s)  BY <1>1
  <2>2. QED  BY <2>1
<1>6. First(b, s, Len(s)) = First(b, s, k)  BY <1>1, <1>4, <1>5 DEF T
<1>7. QED  BY <1>6, Firsts

-----------------------------------------------------------------------------
(* Least and greatest elements.                                            *)

Least(x, S)    == x \in S /\ \A y \in S : x <= y
Greatest(x, S) == x \in S /\ \A y \in S : x >= y

LEMMA MinIsLeast ==
  ASSUME NEW S, S \subseteq Int, NEW x, Least(x, S)
  PROVE  Min(S) = x
<1>1. Least(Min(S), S)  BY Zenon DEF Min, Least
<1>2. PICK y : y = Min(S)  OBVIOUS
<1>3. y \in Int /\ x \in Int /\ x <= y /\ y <= x  BY <1>1, <1>2 DEF Least
<1>4. QED  BY <1>2, <1>3

LEMMA MaxIsGreatest ==
  ASSUME NEW S, S \subseteq Int, NEW x, Greatest(x, S)
  PROVE  Max(S) = x
<1>1. Greatest(Max(S), S)  BY Zenon DEF Max, Greatest
<1>2. PICK y : y = Max(S)  OBVIOUS
<1>3. y \in Int /\ x \in Int /\ x <= y /\ y <= x  BY <1>1, <1>2 DEF Greatest
<1>4. QED  BY <1>2, <1>3

LEMMA MinOfTwo ==
  ASSUME NEW x \in Int, NEW y \in Int
  PROVE  Min({x, y}) = IF x <= y THEN x ELSE y
<1>1. CASE x <= y
  <2>1. Least(x, {x, y})  BY <1>1 DEF Least
  <2>2. QED  BY <1>1, <2>1, MinIsLeast
<1>2. CASE ~(x <= y)
  <2>1. Least(y, {x, y})  BY <1>2 DEF Least
  <2>2. QED  BY <1>2, <2>1, MinIsLeast
<1>3. QED  BY <1>1, <1>2

LEMMA MaxOfTwo ==
  ASSUME NEW x \in Int, NEW y \in Int
  PROVE  Max({x, y}) = IF x >= y THEN x ELSE y
<1>1. CASE x >= y
  <2>1. Greatest(x, {x, y})  BY <1>1 DEF Greatest
  <2>2. QED  BY <1>1, <2>1, MaxIsGreatest
<1>2. CASE ~(x >= y)
  <2>1. Greatest(y, {x, y})  BY <1>2 DEF Greatest
  <2>2. QED  BY <1>2, <2>1, MaxIsGreatest
<1>3. QED  BY <1>1, <1>2

\* An element more.
LEMMA LeastMore ==
  ASSUME NEW S, S \subseteq Int, NEW l, Least(l, S), NEW x \in Int
  PROVE  Least(Min({l, x}), S \cup {x}) /\ (x \in S => Min({l, x}) = l)
<1>1. l \in Int  BY DEF Least
<1>2. PICK y : y = Min({l, x})  OBVIOUS
<1>3. y = IF l <= x THEN l ELSE x  BY <1>1, <1>2, MinOfTwo
<1>4. QED  BY <1>1, <1>2, <1>3 DEF Least

LEMMA GreatestMore ==
  ASSUME NEW S, S \subseteq Int, NEW l, Greatest(l, S), NEW x \in Int
  PROVE  Greatest(Max({l, x}), S \cup {x}) /\ (x \in S => Max({l, x}) = l)
<1>1. l \in Int  BY DEF Greatest
<1>2. PICK y : y = Max({l, x})  OBVIOUS
<1>3. y = IF l >= x THEN l ELSE x  BY <1>1, <1>2, MaxOfTwo
<1>4. QED  BY <1>1, <1>2, <1>3 DEF Greatest

-----------------------------------------------------------------------------
(* The addition of add.c.                                                  *)

Tens(k) == Power(10, k)
Up(s, k) == First(10, s, k)   \* what the first k digits of s denote

LEMMA DigitsUp ==
  ASSUME NEW s \in Seq(Digit)
  PROVE  /\ Len(s) \in Nat /\ Up(s, 0) = 0 /\ Up(s, Len(s)) = Denoted(s)
         /\ \A k \in 1 .. Len(s) : s[k] \in Int /\ 0 <= s[k] /\ s[k] <= 9
         /\ \A k \in 0 .. Len(s) :
              Up(s, k) \in Int /\ 0 <= Up(s, k) /\ Up(s, k) <= Tens(k) - 1
         /\ \A k \in 0 .. Len(s) - 1 : Up(s, k + 1) = Up(s, k) + s[k + 1] * Tens(k)
         /\ \A k \in 0 .. Len(s) :
              (\A j \in k + 1 .. Len(s) : s[j] = 0) => Up(s, k) = Denoted(s)
<1>1. PICK b : b = 10 /\ Base(b)  BY DEF Base
<1>2. Digit = Digits(b)  BY <1>1 DEF Digit, Digits
<1>3. s \in Seq(Digits(b))  BY <1>2
<1>4. /\ s \in Seq(Int) /\ Len(s) \in Nat
      /\ \A k \in 1 .. Len(s) : s[k] \in Int /\ 0 <= s[k] /\ s[k] < b
  BY <1>1, <1>3, DigitsAreIntegers
<1>5. \A k \in 0 .. Len(s) : First(b, s, k) \in 0 .. Power(b, k) - 1
  BY <1>1, <1>3, Bounded
<1>6. \A k \in 0 .. Len(s) : Power(b, k) \in Int  BY <1>1, Powers
<1>7. \A k \in 0 .. Len(s) :
        First(b, s, k) \in Int /\ 0 <= First(b, s, k) /\ First(b, s, k) <= Power(b, k) - 1
  BY <1>5, <1>6
<1>8. First(b, s, 0) = 0 /\ First(b, s, Len(s)) = Number(b, s)
      /\ \A k \in 0 .. Len(s) - 1 : First(b, s, k + 1) = First(b, s, k) + s[k + 1] * Power(b, k)
  BY <1>1, <1>4, Firsts
<1>9. \A k \in 0 .. Len(s) :
        (\A j \in k + 1 .. Len(s) : s[j] = 0) => First(b, s, k) = Number(b, s)
  BY <1>1, <1>4, ZerosBehind
<1>10. \A k \in 1 .. Len(s) : s[k] \in Int /\ 0 <= s[k] /\ s[k] <= 9  BY <1>1, <1>4
<1>11. QED  BY <1>1, <1>4, <1>7, <1>8, <1>9, <1>10, Zenon DEF Tens, Up, Denoted

LEMMA TensGrow ==
  /\ Tens(0) = 1
  /\ \A k \in Nat : Tens(k) \in Nat \ {0} /\ Tens(k + 1) = 10 * Tens(k)
<1>1. PICK b : b = 10 /\ Base(b)  BY DEF Base
<1>2. QED  BY <1>1, Powers DEF Tens

LEMMA SameUp ==
  ASSUME NEW s \in Seq(Digit), NEW t \in Seq(Digit), NEW k \in Nat,
         k <= Len(s), k <= Len(t), \A j \in 1 .. k : s[j] = t[j]
  PROVE  Up(s, k) = Up(t, k)
BY SameFirst DEF Up

\* One digit more is put down.
Put(s, k, d) == [s EXCEPT ![k + 1] = d]

LEMMA PutDigit ==
  ASSUME NEW s \in Seq(Digit), NEW k \in Nat, k < Len(s), NEW d \in Digit,
         NEW t, t = Put(s, k, d)
  PROVE  /\ t \in Seq(Digit) /\ Len(t) = Len(s) /\ Up(t, k + 1) = Up(s, k) + d * Tens(k)
         /\ \A j \in 0 .. k : Up(t, j) = Up(s, j)
<1>1. t \in Seq(Digit) /\ Len(t) = Len(s) /\ Len(s) \in Nat /\ t[k + 1] = d
      /\ \A j \in 1 .. Len(s) : j # k + 1 => t[j] = s[j]
  BY DEF Put
<1>2. \A j \in 0 .. k : Up(t, j) = Up(s, j)
  <2> TAKE j \in 0 .. k
  <2>1. j \in Nat /\ j <= Len(s) /\ j <= Len(t) /\ \A m \in 1 .. j : s[m] = t[m]
    BY <1>1
  <2>2. QED  BY <1>1, <2>1, SameUp
<1>3. Up(t, k + 1) = Up(t, k) + d * Tens(k)
  <2>1. k \in 0 .. Len(t) - 1  BY <1>1
  <2>2. QED  BY <1>1, <2>1, DigitsUp
<1>4. Up(t, k) = Up(s, k)
  <2>1. k \in 0 .. k  OBVIOUS
  <2>2. QED  BY <1>2, <2>1
<1>5. QED  BY <1>1, <1>2, <1>3, <1>4

LEMMA ZerosAreDigits ==
  ASSUME NEW n \in Nat
  PROVE  Zeros(n) \in Seq(Digit) /\ Len(Zeros(n)) = n /\ \A j \in 1 .. n : Zeros(n)[j] = 0
<1>1. 0 \in Digit  BY DEF Digit
<1>2. QED  BY <1>1 DEF Zeros

LEMMA ScannedDigits ==
  ASSUME NEW s \in Seq(Int)
  PROVE  ScanBigNum(s) \in Seq(Digit)
<1> DEFINE n == Len(s)
           S == Seq(Digit)
           step == [x \in (1 .. n) \X S |->
                     IF s[x[1]] \in Digit THEN <<s[x[1]]>> \o x[2] ELSE x[2]]
           Is(f) == f = [k \in 0 .. n |->
                          IF k = 0 THEN <<>>
                          ELSE IF s[k] \in Digit THEN <<s[k]>> \o f[k - 1] ELSE f[k - 1]]
           scanned == CHOOSE f : Is(f)
<1>1. Steps(n, S, step)
  <2>1. ASSUME NEW x \in (1 .. n) \X S
        PROVE  (IF s[x[1]] \in Digit THEN <<s[x[1]]>> \o x[2] ELSE x[2]) \in S
    <3>1. x[2] \in S  OBVIOUS
    <3>2. ASSUME NEW d \in Digit PROVE <<d>> \o x[2] \in S  BY <3>1
    <3>3. QED  BY <3>1, <3>2
  <2>2. n \in Nat  OBVIOUS
  <2>3. QED  BY <2>1, <2>2 DEF Steps
<1>2. PICK none \in S : none = <<>>
  <2>1. <<>> \in Seq(Digit)  OBVIOUS
  <2>2. QED  BY <2>1
<1>3. PICK f : Follows(f, n, S, none, step)
  <2> HIDE DEF S, step, n
  <2>1. QED  BY <1>1, <1>2, Recursion
<1>4. f \in [0 .. n -> S] /\ f[0] = <<>>  BY <1>2, <1>3 DEF Follows
<1>5. \A k \in 1 .. n :
        f[k] = IF s[k] \in Digit THEN <<s[k]>> \o f[k - 1] ELSE f[k - 1]
  <2> TAKE k \in 1 .. n
  <2>1. k - 1 \in 0 .. n /\ f[k - 1] \in S
    <3>1. n \in Nat  OBVIOUS
    <3> HIDE DEF n, S
    <3>2. k - 1 \in 0 .. n  BY <3>1
    <3>3. QED  BY <1>4, <3>2
  <2>2. step[<<k, f[k - 1]>>] = IF s[k] \in Digit THEN <<s[k]>> \o f[k - 1] ELSE f[k - 1]
    BY <2>1
  <2>3. QED  BY <1>3, <2>2 DEF Follows
<1>6. Is(f)
  <2>1. n \in Nat  OBVIOUS
  <2> HIDE DEF S, step, n
  <2>2. DOMAIN f = 0 .. n /\ f = [k \in 0 .. n |-> f[k]]  BY <1>4
  <2>3. \A k \in 0 .. n :
          f[k] = IF k = 0 THEN <<>>
                 ELSE IF s[k] \in Digit THEN <<s[k]>> \o f[k - 1] ELSE f[k - 1]
    <3>1. \A k \in 0 .. n : k = 0 \/ k \in 1 .. n  BY <2>1
    <3>2. QED  BY <1>4, <1>5, <3>1
  <2>4. QED  BY <2>2, <2>3
<1>7. Is(scanned)  BY <1>6, Zenon
<1>8. ScanBigNum(s) = scanned[n]  BY DEF ScanBigNum
<1> DEFINE T == {k \in Nat : k <= n => scanned[k] \in S}
<1>9. 0 \in T
  <2>1. n \in Nat  OBVIOUS
  <2>2. <<>> \in S  BY <1>2
  <2> HIDE DEF scanned, n, S
  <2>3. 0 \in 0 .. n  BY <2>1
  <2>4. scanned[0] = <<>>  BY <1>7, <2>3
  <2>5. QED  BY <2>2, <2>4
<1>10. ASSUME NEW k \in Nat, k \in T PROVE k + 1 \in T
  <2> SUFFICES ASSUME k + 1 <= n PROVE scanned[k + 1] \in S
    OBVIOUS
  <2>1. PICK j \in 1 .. n : j = k + 1  OBVIOUS
  <2>2. scanned[k] \in S  BY <1>10, <2>1
  <2>3. scanned[j] = IF s[j] \in Digit THEN <<s[j]>> \o scanned[k] ELSE scanned[k]
    <3>1. n \in Nat  OBVIOUS
    <3> HIDE DEF scanned, n
    <3>2. j - 1 = k /\ j # 0 /\ j \in 0 .. n  BY <2>1, <3>1
    <3>3. scanned[j] = IF j = 0 THEN <<>>
                       ELSE IF s[j] \in Digit THEN <<s[j]>> \o scanned[j - 1]
                       ELSE scanned[j - 1]
      BY <1>7, <3>2
    <3>4. QED  BY <3>2, <3>3, Zenon
  <2>4. ASSUME NEW d \in Digit PROVE <<d>> \o scanned[k] \in S
    <3> HIDE DEF scanned
    <3>1. QED  BY <2>2
  <2> HIDE DEF scanned, S
  <2>5. QED  BY <2>1, <2>2, <2>3, <2>4
<1> HIDE DEF T
<1>11. \A k \in Nat : k \in T  BY <1>9, <1>10, Induction
<1>12. n \in Nat  OBVIOUS
<1> HIDE DEF scanned, n, S
<1>13. scanned[n] \in S  BY <1>11, <1>12 DEF T
<1>14. QED  BY <1>8, <1>13 DEF S

Long  == IF Len(num1) > Len(num2) THEN num1 ELSE num2
Short == IF Len(num1) > Len(num2) THEN num2 ELSE num1

LEMMA Lengths ==
  ASSUME num1 \in Seq(Digit), num2 \in Seq(Digit)
  PROVE  /\ Long \in Seq(Digit) /\ Short \in Seq(Digit)
         /\ Longer \in Nat /\ Len(Long) \in Nat /\ Longer = Len(Long) + 1
         /\ Shorter \in Nat /\ Shorter = Len(Short) /\ Shorter <= Len(Long)
         /\ \/ Long = num1 /\ Short = num2
            \/ Long = num2 /\ Short = num1
<1>1. PICK x \in Nat : x = Len(num1)  OBVIOUS
<1>2. PICK y \in Nat : y = Len(num2)  OBVIOUS
<1>3. Max({x, y}) = (IF x >= y THEN x ELSE y) /\ Min({x, y}) = (IF x <= y THEN x ELSE y)
  BY MaxOfTwo, MinOfTwo
<1>4. Longer = Max({x, y}) + 1 /\ Shorter = Min({x, y})  BY <1>1, <1>2 DEF Longer, Shorter
<1>5. QED  BY <1>1, <1>2, <1>3, <1>4 DEF Long, Short

\* Until all digits of the shorter number are added, the result and the carry
\* are the sum so far; after it the digits are those of the longer number.
Adding ==
  /\ new \in Seq(Digit) /\ Len(new) = Longer + 1
  /\ i \in 0 .. Longer - 1 /\ tenth \in {0, 1}
  /\ \A j \in i + 1 .. Len(new) : new[j] = 0
  /\ i <= Shorter => Up(new, i) + tenth * Tens(i) = Up(num1, i) + Up(num2, i)
  /\ i >= Shorter =>
       /\ Up(new, Shorter) + tenth * Tens(Shorter) = Up(num1, Shorter) + Up(num2, Shorter)
       /\ Up(new, i) - Up(new, Shorter) = Up(Long, i) - Up(Long, Shorter)

Misplaced == IF CarryLeaves THEN Tens(Longer - 1) - Tens(Shorter) ELSE 0
Added ==
  /\ sum \in Seq(Digit) /\ Len(sum) = Longer
  /\ Denoted(sum) = Denoted(num1) + Denoted(num2) + Misplaced

AddInv ==
  /\ addPc = "scan" => argv \in NumArgs
  /\ addPc \in {"begin", "add", "show", "shown"} => num1 \in Seq(Digit) /\ num2 \in Seq(Digit)
  /\ addPc = "add" => Adding
  /\ addPc \in {"show", "shown"} => Added

LEMMA ScanKeeps ==
  ASSUME AddInv, Scan
  PROVE  AddInv'
<1>1. argv \in Seq(Seq(Int))  BY BigNumAssumption DEF AddInv, Scan
<1>2. addPc' \in {"usage", "invalid", "begin"}  BY DEF Scan
<1>3. ASSUME addPc' = "begin" PROVE num1' \in Seq(Digit) /\ num2' \in Seq(Digit)
  <2>1. ~(Len(argv) < 2) /\ num1' = ScanBigNum(argv[1]) /\ num2' = ScanBigNum(argv[2])
    BY <1>3 DEF Scan
  <2>2. argv[1] \in Seq(Int) /\ argv[2] \in Seq(Int)  BY <1>1, <2>1
  <2>3. QED  BY <2>1, <2>2, ScannedDigits
<1>4. QED  BY <1>2, <1>3 DEF AddInv

LEMMA BeginKeeps ==
  ASSUME AddInv, AddBegin
  PROVE  AddInv'
<1>1. /\ num1 \in Seq(Digit) /\ num2 \in Seq(Digit) /\ num1' = num1 /\ num2' = num2
      /\ addPc' = "add" /\ new' = Zeros(Longer + 1) /\ i' = 0 /\ tenth' = 0
  BY DEF AddInv, AddBegin
<1>2. Longer' = Longer /\ Shorter' = Shorter /\ Long' = Long
  BY <1>1 DEF Longer, Shorter, Long
<1>3. /\ Long \in Seq(Digit) /\ Longer \in Nat /\ Longer >= 1 /\ Longer + 1 \in Nat
      /\ Shorter \in Nat
  BY <1>1, Lengths
<1>4. PICK z : z = Zeros(Longer + 1)  OBVIOUS
<1>5. z \in Seq(Digit) /\ Len(z) = Longer + 1 /\ \A j \in 1 .. Longer + 1 : z[j] = 0
  BY <1>3, <1>4, ZerosAreDigits
<1>6. Up(z, 0) = 0 /\ Up(num1, 0) = 0 /\ Up(num2, 0) = 0 /\ Up(Long, 0) = 0
  BY <1>1, <1>3, <1>5, DigitsUp
<1>7. PICK q \in Nat : q = Tens(0)  BY TensGrow
<1>8. 0 + 0 * q = 0 + 0  OBVIOUS
<1>9. Adding'
  <2>1. Shorter <= 0 => Shorter = 0  BY <1>3
  <2>2. QED  BY <1>1, <1>2, <1>3, <1>4, <1>5, <1>6, <1>7, <1>8, <2>1 DEF Adding
<1>10. QED  BY <1>1, <1>9 DEF AddInv

\* The digit that is put down and the carry are the sum of two digits.
LEMMA TenthLeft ==
  ASSUME NEW total \in 0 .. 19
  PROVE  /\ total % 10 \in Digit /\ Over9(total) \in {0, 1}
         /\ total = (total % 10) + 10 * Over9(total)
BY DEF Digit, Over9

LEMMA AddDigitKeeps ==
  ASSUME AddInv, AddDigit
  PROVE  AddInv'
<1>1. /\ num1 \in Seq(Digit) /\ num2 \in Seq(Digit) /\ num1' = num1 /\ num2' = num2
      /\ addPc' = "add" /\ Adding
  BY DEF AddInv, AddDigit
<1>2. Longer' = Longer /\ Shorter' = Shorter /\ Long' = Long
  BY <1>1 DEF Longer, Shorter, Long
<1>3. /\ Long \in Seq(Digit) /\ Longer \in Nat /\ Shorter \in Nat /\ Shorter <= Longer - 1
      /\ Shorter <= Len(num1) /\ Shorter <= Len(num2)
  BY <1>1, Lengths
<1>4. PICK k \in Nat : k = i  BY <1>1, <1>3 DEF Adding
<1>5. k < Shorter /\ i' = k + 1  BY <1>4 DEF AddDigit
<1>6. PICK t \in {0, 1} : t = tenth  BY <1>1 DEF Adding
<1>7. PICK x \in Nat : x = num1[k + 1] /\ x <= 9
  <2>1. k + 1 \in 1 .. Len(num1)  BY <1>1, <1>3, <1>5
  <2>2. QED  BY <1>1, <2>1, DigitsUp
<1>8. PICK y \in Nat : y = num2[k + 1] /\ y <= 9
  <2>1. k + 1 \in 1 .. Len(num2)  BY <1>1, <1>3, <1>5
  <2>2. QED  BY <1>1, <2>1, DigitsUp
<1>9. PICK total \in 0 .. 19 : total = x + y + t  BY <1>6, <1>7, <1>8
<1>10. PICK d \in Digit : d = total % 10  BY TenthLeft
<1>11. PICK c \in {0, 1} : c = Over9(total)  BY TenthLeft
<1>12. total = d + 10 * c  BY <1>10, <1>11, TenthLeft
<1>13. new' = [new EXCEPT ![k + 1] = d] /\ tenth' = c
  BY <1>4, <1>6, <1>7, <1>8, <1>9, <1>10, <1>11 DEF AddDigit
<1>14. new \in Seq(Digit) /\ Len(new) = Longer + 1 /\ k < Len(new)
       /\ \A j \in k + 1 .. Len(new) : new[j] = 0
       /\ Up(new, k) + t * Tens(k) = Up(num1, k) + Up(num2, k)
  BY <1>1, <1>3, <1>4, <1>5, <1>6 DEF Adding
<1>15. PICK n : n = new'  OBVIOUS
<1>16. /\ n \in Seq(Digit) /\ Len(n) = Len(new) /\ Up(n, k + 1) = Up(new, k) + d * Tens(k)
       /\ \A j \in 1 .. Len(new) : j # k + 1 => n[j] = new[j]
  <2>1. n = Put(new, k, d)  BY <1>13, <1>15 DEF Put
  <2>2. n \in Seq(Digit) /\ Len(n) = Len(new)  BY <1>14, <2>1, PutDigit
  <2>3. \A j \in 1 .. Len(new) : j # k + 1 => n[j] = new[j]
    BY <1>14, <2>1 DEF Put
  <2>4. Up(n, k + 1) = Up(new, k) + d * Tens(k)  BY <1>14, <2>1, PutDigit
  <2>5. QED  BY <2>2, <2>3, <2>4
<1>17. \A j \in (k + 1) + 1 .. Len(n) : n[j] = 0  BY <1>14, <1>16
<1>18. /\ Up(num1, k + 1) = Up(num1, k) + x * Tens(k)
       /\ Up(num2, k + 1) = Up(num2, k) + y * Tens(k)
       /\ Up(num1, k) \in Int /\ Up(num2, k) \in Int /\ Up(new, k) \in Int
  <2>1. k \in 0 .. Len(num1) - 1 /\ k \in 0 .. Len(num2) - 1 /\ k \in 0 .. Len(new)
        /\ k \in 0 .. Len(num1) /\ k \in 0 .. Len(num2)
    BY <1>1, <1>3, <1>5, <1>14
  <2>2. QED  BY <1>1, <1>7, <1>8, <1>14, <2>1, DigitsUp
<1>19. PICK q \in Nat : q = Tens(k)  BY TensGrow
<1>20. Tens(k + 1) = 10 * q  BY <1>19, TensGrow
<1>21. Up(n, k + 1) + c * Tens(k + 1) = Up(num1, k + 1) + Up(num2, k + 1)
  <2>1. d \in Int /\ c \in Int /\ t \in Int  BY DEF Digit
  <2>2. x * q + y * q + t * q = d * q + c * (10 * q)
    <3>1. (x + y + t) * q = x * q + y * q + t * q  BY <2>1
    <3>2. (d + 10 * c) * q = d * q + c * (10 * q)  BY <2>1
    <3>3. x + y + t = d + 10 * c  BY <1>9, <1>12
    <3>4. QED  BY <3>1, <3>2, <3>3
  <2>3. PICK xq \in Int : xq = x * q  BY <1>19
  <2>4. PICK yq \in Int : yq = y * q  BY <1>19
  <2>5. PICK tq \in Int : tq = t * q  BY <1>19, <2>1
  <2>6. PICK dq \in Int : dq = d * q  BY <1>19, <2>1
  <2>7. PICK cq \in Int : cq = c * (10 * q)  BY <1>19, <2>1
  <2>8. xq + yq + tq = dq + cq  BY <2>2, <2>3, <2>4, <2>5, <2>6, <2>7
  <2>9. Up(new, k) + tq = Up(num1, k) + Up(num2, k)  BY <1>14, <1>19, <2>5
  <2>10. Up(n, k + 1) = Up(new, k) + dq  BY <1>16, <1>19, <2>6
  <2>11. Up(num1, k + 1) = Up(num1, k) + xq /\ Up(num2, k + 1) = Up(num2, k) + yq
    BY <1>18, <1>19, <2>3, <2>4
  <2>12. c * Tens(k + 1) = cq  BY <1>20, <2>7
  <2>13. QED  BY <1>18, <2>8, <2>9, <2>10, <2>11, <2>12
<1>22. PICK m \in Nat : m = k + 1  BY <1>4
<1>23. Adding'
  <2>1. m \in 0 .. Longer - 1 /\ m <= Shorter /\ (m >= Shorter => m = Shorter)
    BY <1>3, <1>5, <1>22
  <2>2. Up(n, m) - Up(n, m) = Up(Long, m) - Up(Long, m)
    <3>1. Len(Long) \in Nat /\ Longer = Len(Long) + 1  BY <1>1, Lengths
    <3>2. m \in 0 .. Len(n) /\ m \in 0 .. Len(Long)  BY <1>3, <1>14, <1>16, <2>1, <3>1
    <3>3. Up(n, m) \in Int /\ Up(Long, m) \in Int  BY <1>3, <1>16, <3>2, DigitsUp
    <3>4. QED  BY <3>3
  <2>3. i' = m /\ new' = n /\ tenth' = c  BY <1>5, <1>13, <1>15, <1>22
  <2>4. n \in Seq(Digit) /\ Len(n) = Longer + 1  BY <1>14, <1>16
  <2>5. \A j \in m + 1 .. Len(n) : n[j] = 0  BY <1>17, <1>22
  <2>6. Up(n, m) + c * Tens(m) = Up(num1, m) + Up(num2, m)  BY <1>21, <1>22
  <2>7. QED  BY <1>1, <1>2, <2>1, <2>2, <2>3, <2>4, <2>5, <2>6 DEF Adding
<1>24. QED  BY <1>1, <1>23 DEF AddInv

LEMMA CopyDigitKeeps ==
  ASSUME AddInv, CopyDigit
  PROVE  AddInv'
<1>1. /\ num1 \in Seq(Digit) /\ num2 \in Seq(Digit) /\ num1' = num1 /\ num2' = num2
      /\ addPc' = "add" /\ tenth' = tenth /\ Adding
  BY DEF AddInv, CopyDigit
<1>2. Longer' = Longer /\ Shorter' = Shorter /\ Long' = Long
  BY <1>1 DEF Longer, Shorter, Long
<1>3. /\ Long \in Seq(Digit) /\ Longer \in Nat /\ Shorter \in Nat /\ Shorter <= Longer - 1
      /\ Len(Long) = Longer - 1
  BY <1>1, Lengths
<1>4. PICK k \in Nat : k = i  BY <1>1, <1>3 DEF Adding
<1>5. k >= Shorter /\ k < Longer - 1 /\ i' = k + 1  BY <1>4 DEF CopyDigit
<1>6. PICK d \in Digit : d = Long[k + 1]
  <2>1. k + 1 \in 1 .. Len(Long)  BY <1>3, <1>5
  <2>2. QED  BY <1>3, <2>1
<1>7. new' = [new EXCEPT ![k + 1] = d]
  <2>1. d = IF Len(num1) > Len(num2) THEN num1[k + 1] ELSE num2[k + 1]
    BY <1>6 DEF Long
  <2>2. QED  BY <1>4, <2>1 DEF CopyDigit
<1>8. /\ new \in Seq(Digit) /\ Len(new) = Longer + 1 /\ k < Len(new)
      /\ \A j \in k + 1 .. Len(new) : new[j] = 0
      /\ Up(new, Shorter) + tenth * Tens(Shorter) = Up(num1, Shorter) + Up(num2, Shorter)
      /\ Up(new, k) - Up(new, Shorter) = Up(Long, k) - Up(Long, Shorter)
  BY <1>1, <1>3, <1>4, <1>5 DEF Adding
<1>9. PICK n : n = new'  OBVIOUS
<1>10. /\ n \in Seq(Digit) /\ Len(n) = Len(new) /\ Up(n, k + 1) = Up(new, k) + d * Tens(k)
       /\ \A j \in 1 .. Len(new) : j # k + 1 => n[j] = new[j]
       /\ Up(n, Shorter) = Up(new, Shorter)
  <2>1. n = Put(new, k, d)  BY <1>7, <1>9 DEF Put
  <2>2. Shorter \in 0 .. k  BY <1>3, <1>5
  <2>3. n \in Seq(Digit) /\ Len(n) = Len(new)  BY <1>8, <2>1, PutDigit
  <2>4. \A j \in 1 .. Len(new) : j # k + 1 => n[j] = new[j]
    BY <1>8, <2>1 DEF Put
  <2>5. Up(n, k + 1) = Up(new, k) + d * Tens(k)  BY <1>8, <2>1, PutDigit
  <2>6. Up(n, Shorter) = Up(new, Shorter)  BY <1>8, <2>1, <2>2, PutDigit
  <2>7. QED  BY <2>3, <2>4, <2>5, <2>6
<1>11. PICK m \in Nat : m = k + 1  OBVIOUS
<1>12. \A j \in m + 1 .. Len(n) : n[j] = 0  BY <1>8, <1>10, <1>11
<1>13. Up(n, m) - Up(n, Shorter) = Up(Long, m) - Up(Long, Shorter)
  <2>1. k \in 0 .. Len(Long) - 1 /\ k \in 0 .. Len(Long) /\ Shorter \in 0 .. Len(Long)
        /\ k \in 0 .. Len(new) /\ Shorter \in 0 .. Len(new)
    BY <1>3, <1>5, <1>8
  <2>2. Up(Long, k + 1) = Up(Long, k) + d * Tens(k)  BY <1>3, <1>6, <2>1, DigitsUp
  <2>3. /\ Up(Long, k) \in Int /\ Up(Long, Shorter) \in Int
        /\ Up(new, k) \in Int /\ Up(new, Shorter) \in Int
    BY <1>3, <1>8, <2>1, DigitsUp
  <2>4. PICK q \in Nat : q = Tens(k)  BY TensGrow
  <2>5. PICK e \in Int : e = d * q  BY DEF Digit
  <2>6. Up(Long, m) = Up(Long, k) + e /\ Up(n, m) = Up(new, k) + e
    BY <1>10, <1>11, <2>2, <2>4, <2>5
  <2>7. Up(new, k) - Up(new, Shorter) = Up(Long, k) - Up(Long, Shorter)  BY <1>8
  <2>8. Up(n, Shorter) = Up(new, Shorter)  BY <1>10
  <2>9. QED  BY <2>3, <2>6, <2>7, <2>8
<1>14. Adding'
  <2>1. m \in 0 .. Longer - 1 /\ m >= Shorter /\ ~(m <= Shorter)  BY <1>3, <1>5, <1>11
  <2>2. i' = m /\ new' = n /\ tenth' \in {0, 1}  BY <1>1, <1>5, <1>9, <1>11 DEF Adding
  <2>3. n \in Seq(Digit) /\ Len(n) = Longer + 1  BY <1>8, <1>10
  <2>4. QED  BY <1>1, <1>2, <1>8, <1>10, <1>12, <1>13, <2>1, <2>2, <2>3 DEF Adding
<1>15. QED  BY <1>1, <1>14 DEF AddInv

LEMMA LastDigitKeeps ==
  ASSUME AddInv, LastDigit
  PROVE  AddInv'
<1>1. /\ num1 \in Seq(Digit) /\ num2 \in Seq(Digit) /\ num1' = num1 /\ num2' = num2
      /\ addPc' = "show" /\ Adding
  BY DEF AddInv, LastDigit
<1>2. Longer' = Longer /\ Shorter' = Shorter /\ CarryLeaves' = CarryLeaves
  BY <1>1 DEF Longer, Shorter, CarryLeaves
<1>3. /\ Long \in Seq(Digit) /\ Short \in Seq(Digit)
      /\ Longer \in Nat /\ Shorter \in Nat /\ Shorter <= Longer - 1 /\ Len(Long) = Longer - 1
      /\ Shorter = Len(Short)
      /\ \/ Long = num1 /\ Short = num2
         \/ Long = num2 /\ Short = num1
  BY <1>1, Lengths
<1>4. PICK k \in Nat : k = i  BY <1>1, <1>3 DEF Adding
<1>5. k = Longer - 1 /\ k >= Shorter /\ Longer = k + 1 /\ k = Len(Long)
  BY <1>3, <1>4 DEF LastDigit
<1>6. PICK t \in {0, 1} : t = tenth  BY <1>1 DEF Adding
<1>7. /\ new \in Seq(Digit) /\ Len(new) = k + 2 /\ k < Len(new) /\ new[k + 1] = 0
      /\ Up(new, Shorter) + t * Tens(Shorter) = Up(num1, Shorter) + Up(num2, Shorter)
      /\ Up(new, k) - Up(new, Shorter) = Up(Long, k) - Up(Long, Shorter)
  <2>1. k + 1 \in k + 1 .. Len(new)  BY <1>1, <1>5 DEF Adding
  <2>2. QED  BY <1>1, <1>3, <1>4, <1>5, <1>6, <2>1 DEF Adding
<1>8. PICK n : n = new'  OBVIOUS
<1>9. t \in Digit  BY DEF Digit
<1>10. n = Put(new, k, t)
  <2>1. n = IF t = 1 THEN [new EXCEPT ![k + 1] = 1] ELSE new
    BY <1>4, <1>6, <1>8 DEF LastDigit
  <2>2. CASE t = 1  BY <2>1, <2>2 DEF Put
  <2>3. CASE t = 0  BY <1>7, <2>1, <2>3 DEF Put
  <2>4. QED  BY <2>2, <2>3
<1>11. n \in Seq(Digit) /\ Len(n) = k + 2 /\ Up(n, k + 1) = Up(new, k) + t * Tens(k)
  BY <1>7, <1>9, <1>10, PutDigit
<1>12. PICK m \in Nat : m = k + 1  OBVIOUS
<1>13. PICK total : total = sum'  OBVIOUS
<1>14. total = SubSeq(n, 1, m)  BY <1>5, <1>8, <1>12, <1>13 DEF LastDigit
<1>15. total \in Seq(Digit) /\ Len(total) = m /\ \A j \in 1 .. m : total[j] = n[j]
  BY <1>11, <1>12, <1>14
<1>16. Denoted(total) = Up(new, k) + t * Tens(k)
  <2>1. Denoted(total) = Up(total, m)  BY <1>15, DigitsUp
  <2>2. Up(total, m) = Up(n, m)  BY <1>11, <1>12, <1>15, SameUp
  <2>3. QED  BY <1>11, <1>12, <2>1, <2>2
<1>17. Up(Long, k) = Denoted(Long) /\ Up(Short, Shorter) = Denoted(Short)
  BY <1>3, <1>5, DigitsUp
<1>18. /\ Up(Long, Shorter) + Up(Short, Shorter) = Up(num1, Shorter) + Up(num2, Shorter)
       /\ Denoted(Long) + Denoted(Short) = Denoted(num1) + Denoted(num2)
       /\ Denoted(Long) \in Int /\ Denoted(Short) \in Int
       /\ Up(Long, Shorter) \in Int /\ Up(Short, Shorter) \in Int
       /\ Up(new, k) \in Int /\ Up(new, Shorter) \in Int
       /\ Up(new, Shorter) <= Tens(Shorter) - 1 /\ 0 <= Up(new, Shorter)
  <2>1. k \in 0 .. Len(Long) /\ Shorter \in 0 .. Len(Long) /\ Shorter \in 0 .. Len(Short)
        /\ k \in 0 .. Len(new) /\ Shorter \in 0 .. Len(new)
    BY <1>3, <1>5, <1>7
  <2>2. /\ Up(Long, k) \in Int /\ Up(Short, Shorter) \in Int /\ Up(Long, Shorter) \in Int
        /\ Up(new, k) \in Int /\ Up(new, Shorter) \in Int
        /\ Up(new, Shorter) <= Tens(Shorter) - 1 /\ 0 <= Up(new, Shorter)
    BY <1>3, <1>7, <2>1, DigitsUp
  <2>3. Denoted(Long) \in Int /\ Denoted(Short) \in Int  BY <1>17, <2>2
  <2>4. QED  BY <1>3, <2>2, <2>3
<1>19. PICK q \in Nat : q = Tens(Shorter)  BY <1>3, TensGrow
<1>20. PICK w \in Nat : w = Tens(k)  BY TensGrow
<1>21. CarryLeaves <=> t = 1
  <2>1. CarryLeaves <=> Up(num1, Shorter) + Up(num2, Shorter) >= q
    BY <1>19 DEF CarryLeaves, Up, First, Denoted, Tens
  <2>2. CASE t = 1
    <3>1. Up(new, Shorter) + q = Up(num1, Shorter) + Up(num2, Shorter)
      BY <1>7, <1>19, <2>2
    <3>2. QED  BY <1>18, <1>19, <2>1, <2>2, <3>1
  <2>3. CASE t = 0
    <3>1. Up(new, Shorter) = Up(num1, Shorter) + Up(num2, Shorter)
      BY <1>7, <1>18, <1>19, <2>3
    <3>2. QED  BY <1>18, <1>19, <2>1, <2>3, <3>1
  <2>4. QED  BY <2>2, <2>3
<1>22. PICK mis \in Int : mis = IF t = 1 THEN w - q ELSE 0  BY <1>19, <1>20
<1>23. Misplaced' = mis
  <2>1. Longer - 1 = k  BY <1>5
  <2>2. QED  BY <1>2, <1>19, <1>20, <1>21, <1>22, <2>1 DEF Misplaced
<1>24. Up(new, k) + t * w = Denoted(Long) + Denoted(Short) + mis
  <2>1. PICK a \in Int : a = Up(new, k)  BY <1>18
  <2>2. PICK a0 \in Int : a0 = Up(new, Shorter)  BY <1>18
  <2>3. PICK l \in Int : l = Denoted(Long)  BY <1>18
  <2>4. PICK l0 \in Int : l0 = Up(Long, Shorter)  BY <1>18
  <2>5. PICK r \in Int : r = Denoted(Short)  BY <1>18
  <2>6. a - a0 = l - l0
    <3>1. Up(new, k) - Up(new, Shorter) = Up(Long, k) - Up(Long, Shorter)  BY <1>7
    <3>2. QED  BY <1>17, <2>1, <2>2, <2>3, <2>4, <3>1, Zenon
  <2>7. a0 + t * q = l0 + r
    <3>1. Up(new, Shorter) + t * q = Up(num1, Shorter) + Up(num2, Shorter)
      BY <1>7, <1>19, Zenon
    <3>2. QED  BY <1>17, <1>18, <2>2, <2>4, <2>5, <3>1, Zenon
  <2>8. a + t * w = l + r + mis
    <3>1. CASE t = 1
      <4>1. mis = w - q /\ t * w = w /\ t * q = q  BY <1>22, <3>1
      <4>2. a + w = l + r + (w - q)
        <5>1. a0 + q = l0 + r  BY <2>7, <4>1
        <5>2. QED  BY <2>6, <5>1
      <4>3. QED  BY <4>1, <4>2
    <3>2. CASE t = 0
      <4>1. mis = 0 /\ t * w = 0 /\ t * q = 0  BY <1>22, <3>2
      <4>2. a0 = l0 + r  BY <2>7, <4>1
      <4>3. a + 0 = l + r + 0  BY <2>6, <4>2
      <4>4. QED  BY <4>1, <4>3
    <3>3. QED  BY <3>1, <3>2
  <2>9. QED  BY <2>1, <2>3, <2>5, <2>8
<1>25. Denoted(total) = Denoted(num1) + Denoted(num2) + mis
  BY <1>16, <1>18, <1>20, <1>24
<1>26. Added'
  BY <1>1, <1>2, <1>5, <1>12, <1>13, <1>15, <1>23, <1>25 DEF Added
<1>27. QED  BY <1>1, <1>26 DEF AddInv

LEMMA AddKeeps ==
  ASSUME AddInv, [LabsNext]_labsVars
  PROVE  AddInv'
<1>1. CASE UNCHANGED addVars
  <2>1. /\ addPc' = addPc /\ argv' = argv /\ num1' = num1 /\ num2' = num2 /\ sum' = sum
        /\ new' = new /\ i' = i /\ tenth' = tenth
    BY <1>1 DEF addVars
  <2>2. /\ Longer' = Longer /\ Shorter' = Shorter /\ Long' = Long /\ Misplaced' = Misplaced
    BY <2>1 DEF Longer, Shorter, Long, Misplaced, CarryLeaves
  <2>3. QED  BY <2>1, <2>2 DEF AddInv, Adding, Added
<1>2. CASE ShowSum
  <2>1. /\ addPc = "show" /\ addPc' = "shown" /\ num1' = num1 /\ num2' = num2 /\ sum' = sum
    BY <1>2 DEF ShowSum
  <2>2. Longer' = Longer /\ Misplaced' = Misplaced
    BY <2>1 DEF Longer, Shorter, Misplaced, CarryLeaves
  <2>3. QED  BY <2>1, <2>2 DEF AddInv, Added
<1>3. QED
  BY <1>1, <1>2, ScanKeeps, BeginKeeps, AddDigitKeeps, CopyDigitKeeps, LastDigitKeeps
     DEF LabsNext, labsVars, AddNext

LEMMA AddInvariant == LabsSpec => []AddInv
<1>1. LabsInit => AddInv  BY DEF LabsInit, AddInit, AddOff, AddInv
<1>2. AddInv /\ [LabsNext]_labsVars => AddInv'  BY AddKeeps
<1>3. QED  BY <1>1, <1>2, PTL DEF LabsSpec

\* After every digit that both numbers have, the digits put down and the carry
\* of addBigNums are the sum of the digits so far, for all numbers.
THEOREM CarryIsKept == LabsSpec => []SumSoFar
<1>1. AddInv => SumSoFar
  BY DEF AddInv, Adding, SumSoFar, Up, First, Tens, Denoted
<1>2. QED  BY <1>1, AddInvariant, PTL

LEMMA ReversedTwice ==
  ASSUME NEW S, NEW s \in Seq(S)
  PROVE  /\ Reverse(s) \in Seq(S) /\ Len(Reverse(s)) = Len(s)
         /\ \A k \in 1 .. Len(s) : Reverse(s)[k] = s[Len(s) - k + 1]
         /\ Reverse(Reverse(s)) = s
<1>1. PICK n \in Nat : n = Len(s)  OBVIOUS
<1>2. PICK t : t = Reverse(s)  OBVIOUS
<1>3. t \in Seq(S) /\ Len(t) = n /\ \A k \in 1 .. n : t[k] = s[n - k + 1]
  BY <1>1, <1>2 DEF Reverse
<1>4. PICK r : r = Reverse(t)  OBVIOUS
<1>5. r \in Seq(S) /\ Len(r) = n /\ \A k \in 1 .. n : r[k] = t[n - k + 1]
  BY <1>3, <1>4 DEF Reverse
<1>6. \A k \in 1 .. n : r[k] = s[k]
  <2> TAKE k \in 1 .. n
  <2>1. n - k + 1 \in 1 .. n /\ n - (n - k + 1) + 1 = k  OBVIOUS
  <2>2. QED  BY <1>3, <1>5, <2>1
<1>7. r = s  BY <1>1, <1>5, <1>6
<1>8. QED  BY <1>1, <1>2, <1>3, <1>4, <1>7

LEMMA GreatestExists ==
  ASSUME NEW n \in Nat, NEW S, S \subseteq 1 .. n, S # {}
  PROVE  \E x : Greatest(x, S)
<1> DEFINE T == {m \in Nat : \A R \in SUBSET (1 .. m) : R # {} => \E x : Greatest(x, R)}
<1>1. 0 \in T
  <2>1. 1 .. 0 = {}  OBVIOUS
  <2>2. \A R \in SUBSET (1 .. 0) : R = {}  BY <2>1
  <2>3. QED  BY <2>2
<1>2. ASSUME NEW m \in Nat, m \in T PROVE m + 1 \in T
  <2> SUFFICES ASSUME NEW R \in SUBSET (1 .. m + 1), R # {} PROVE \E x : Greatest(x, R)
    OBVIOUS
  <2>1. CASE m + 1 \in R  BY <2>1 DEF Greatest
  <2>2. CASE m + 1 \notin R
    <3>1. R \in SUBSET (1 .. m)  BY <2>2
    <3>2. QED  BY <1>2, <3>1
  <2>3. QED  BY <2>1, <2>2
<1> HIDE DEF T
<1>3. \A m \in Nat : m \in T  BY <1>1, <1>2, Induction
<1>4. n \in T  BY <1>3
<1>5. QED  BY <1>4 DEF T

\* What is shown of a number denotes it and has no leading zero.
LEMMA ShownWhole ==
  ASSUME NEW bn \in Seq(Digit), Len(bn) >= 1
  PROVE  /\ Denoted(Reverse(ShowBigNum(bn))) = Denoted(bn)
         /\ Len(ShowBigNum(bn)) > 1 => ShowBigNum(bn)[1] # 0
<1> DEFINE S == {1} \cup {k \in DOMAIN bn : bn[k] # 0}
<1>1. PICK n \in Nat : n = Len(bn) /\ n >= 1  OBVIOUS
<1>2. S \subseteq 1 .. n /\ S # {}  BY <1>1
<1>3. PICK h : Greatest(h, S)
  <2> HIDE DEF S
  <2>1. QED  BY <1>2, GreatestExists
<1>4. h = Max(S)
  <2> HIDE DEF S
  <2>1. S \subseteq Int  BY <1>2
  <2>2. QED  BY <1>3, <2>1, MaxIsGreatest
<1>5. h \in 1 .. n /\ \A j \in h + 1 .. n : bn[j] = 0
  <2>1. h \in S /\ \A j \in S : h >= j  BY <1>3 DEF Greatest
  <2>2. h \in 1 .. n
    <3> HIDE DEF S
    <3>1. QED  BY <1>2, <2>1
  <2>3. ASSUME NEW j \in h + 1 .. n PROVE bn[j] = 0
    <3>1. j \in 1 .. n /\ ~(h >= j)  BY <2>2
    <3>2. j \notin S  BY <2>1, <3>1
    <3>3. QED  BY <1>1, <3>1, <3>2
  <2>4. QED  BY <2>2, <2>3
<1>6. h > 1 => bn[h] # 0  BY <1>3 DEF Greatest
<1>7. PICK t : t = SubSeq(bn, 1, h)  OBVIOUS
<1>8. ShowBigNum(bn) = Reverse(t)  BY <1>4, <1>7 DEF ShowBigNum
<1> HIDE DEF S
<1>9. t \in Seq(Digit) /\ Len(t) = h /\ t[h] = bn[h]  BY <1>1, <1>5, <1>7
<1>10. Reverse(Reverse(t)) = t /\ Len(Reverse(t)) = h /\ Reverse(t)[1] = t[h]
  <2>1. 1 \in 1 .. Len(t) /\ Len(t) - 1 + 1 = h  BY <1>5, <1>9
  <2>2. QED  BY <1>9, <2>1, ReversedTwice
<1>11. Denoted(t) = Up(bn, h)  BY <1>7 DEF Up, First, Denoted
<1>12. Up(bn, h) = Denoted(bn)
  <2>1. h \in 0 .. Len(bn)  BY <1>1, <1>5
  <2>2. QED  BY <1>1, <1>5, <2>1, DigitsUp
<1>13. QED  BY <1>6, <1>8, <1>9, <1>10, <1>11, <1>12

\* What add shows has no leading zero; it is the sum of its two numbers, but
\* that a carry out of the shorter number stands in front of the longer one.
LEMMA WhatIsShown ==
  ASSUME AddInv, addPc = "shown"
  PROVE  /\ num1 \in Seq(Digit) /\ num2 \in Seq(Digit)
         /\ Denoted(num1) \in Int /\ Denoted(num2) \in Int
         /\ Denoted(Reverse(ShowBigNum(sum))) = Denoted(num1) + Denoted(num2) + Misplaced
         /\ Len(ShowBigNum(sum)) > 1 => ShowBigNum(sum)[1] # 0
<1>1. Added /\ num1 \in Seq(Digit) /\ num2 \in Seq(Digit)  BY DEF AddInv
<1>2. sum \in Seq(Digit) /\ Len(sum) >= 1
  <2>1. Longer \in Nat /\ Len(Long) \in Nat /\ Longer = Len(Long) + 1  BY <1>1, Lengths
  <2>2. QED  BY <1>1, <2>1 DEF Added
<1>3. \A n \in Seq(Digit) : Denoted(n) \in Int
  <2> TAKE n \in Seq(Digit)
  <2>1. Len(n) \in 0 .. Len(n)  OBVIOUS
  <2>2. Up(n, Len(n)) \in Int /\ Up(n, Len(n)) = Denoted(n)  BY <2>1, DigitsUp
  <2>3. QED  BY <2>2
<1>4. QED  BY <1>1, <1>2, <1>3, ShownWhole DEF Added

LEMMA TensIncrease ==
  ASSUME NEW a \in Nat, NEW b \in Nat, a < b
  PROVE  Tens(a) < Tens(b)
<1> DEFINE T == {n \in Nat : a < n => Tens(a) < Tens(n)}
<1>1. 0 \in T  OBVIOUS
<1>2. ASSUME NEW n \in Nat, n \in T PROVE n + 1 \in T
  <2>1. PICK q \in Nat \ {0} : q = Tens(n)  BY TensGrow
  <2>2. Tens(n + 1) = 10 * q  BY <2>1, TensGrow
  <2>3. PICK r \in Nat : r = Tens(a)  BY TensGrow
  <2>4. a < n + 1 => r <= q  BY <1>2, <2>1, <2>3
  <2>5. a < n + 1 => r < 10 * q  BY <2>1, <2>4
  <2>6. QED  BY <2>2, <2>3, <2>5
<1> HIDE DEF T
<1>3. \A n \in Nat : n \in T  BY <1>1, <1>2, Induction
<1>4. b \in T  BY <1>3
<1>5. QED  BY <1>4 DEF T

\* The carry is misplaced exactly if it has to pass into the longer number.
LEMMA MisplacedWhenPassing ==
  ASSUME num1 \in Seq(Digit), num2 \in Seq(Digit)
  PROVE  Misplaced \in Int /\ (Misplaced = 0 <=> ~CarryPasses)
<1>1. PICK m \in Nat : m = Longer - 1 /\ m = Len(Long)  BY Lengths
<1>2. Shorter \in Nat /\ Shorter <= m /\ (Shorter = m <=> Len(num1) = Len(num2))
  BY <1>1, Lengths
<1>3. PICK w \in Nat : w = Tens(m)  BY TensGrow
<1>4. PICK q \in Nat : q = Tens(Shorter)  BY <1>2, TensGrow
<1>5. Shorter < m => q < w  BY <1>2, <1>3, <1>4, TensIncrease
<1>6. Shorter = m => q = w  BY <1>3, <1>4
<1>7. Misplaced = IF CarryLeaves THEN w - q ELSE 0  BY <1>1, <1>3, <1>4 DEF Misplaced
<1>8. CarryPasses <=> Shorter # m /\ CarryLeaves  BY <1>2 DEF CarryPasses
<1>9. QED  BY <1>2, <1>5, <1>6, <1>7, <1>8

\* What add shows is the sum of its two numbers without leading zeros as long
\* as no carry has to pass into digits that only one of them has; for all
\* numbers of any lengths.
THEOREM SumIsShown == LabsSpec => []SumUnlessCarryPasses
<1>1. AddInv => SumUnlessCarryPasses
  BY WhatIsShown, MisplacedWhenPassing DEF SumUnlessCarryPasses
<1>2. QED  BY <1>1, AddInvariant, PTL

\* And it is the sum only then: whenever a carry has to pass into the longer
\* number, add shows another one.
THEOREM SumShownOnlyThen == LabsSpec => [](addPc = "shown" => (SumShown <=> ~CarryPasses))
<1>1. AddInv => (addPc = "shown" => (SumShown <=> ~CarryPasses))
  BY WhatIsShown, MisplacedWhenPassing DEF SumShown
<1>2. QED  BY <1>1, AddInvariant, PTL

-----------------------------------------------------------------------------
(* The ranges of bits.c.                                                   *)

Bits2(n) == Power(2, n)

LEMMA TwosGrow ==
  /\ Bits2(0) = 1
  /\ \A k \in Nat : Bits2(k) \in Nat \ {0} /\ Bits2(k + 1) = 2 * Bits2(k)
<1>1. PICK b : b = 2 /\ Base(b)  BY DEF Base
<1>2. QED  BY <1>1, Powers DEF Bits2

Wellformed(t) == t.bytes \in Nat \ {0} /\ t.signed \in BOOLEAN

LEMMA TypesKnown ==
  ASSUME NEW k \in DOMAIN Types
  PROVE  /\ Types[k].bytes \in Nat \ {0}
         /\ Types[k].signed \in BOOLEAN
<1>1. k \in 1 .. 10  BY DEF Types
<1>2. \A t : Wellformed(t) <=> t.bytes \in Nat \ {0} /\ t.signed \in BOOLEAN
  BY Zenon DEF Wellformed
<1>3. \A name :
        /\ Wellformed(Type(name, 1, TRUE)) /\ Wellformed(Type(name, 1, FALSE))
        /\ Wellformed(Type(name, 2, TRUE)) /\ Wellformed(Type(name, 2, FALSE))
        /\ Wellformed(Type(name, 4, TRUE)) /\ Wellformed(Type(name, 4, FALSE))
        /\ Wellformed(Type(name, 8, TRUE)) /\ Wellformed(Type(name, 8, FALSE))
  BY DEF Type, Wellformed
<1>4. Wellformed(Types[k])
  <2>1. /\ Wellformed(Types[1]) /\ Wellformed(Types[2]) /\ Wellformed(Types[3])
        /\ Wellformed(Types[4]) /\ Wellformed(Types[5]) /\ Wellformed(Types[6])
        /\ Wellformed(Types[7]) /\ Wellformed(Types[8]) /\ Wellformed(Types[9])
        /\ Wellformed(Types[10])
    BY <1>3, Zenon DEF Types
  <2>2. QED  BY <1>1, <2>1
<1>5. QED  BY <1>2, <1>4

RangeOf(t) == [type |-> t, min |-> Smallest(t), max |-> Largest(t)]

RightRange(t) ==
  /\ Largest(t) - Smallest(t) = Bits2(Width(t)) - 1
  /\ Smallest(t) = IF t.signed THEN -(Largest(t) + 1) ELSE 0

LEMMA RangeIsRight ==
  ASSUME NEW t, t.bytes \in Nat \ {0}, t.signed \in BOOLEAN
  PROVE  RightRange(t)
<1>1. PICK w \in Nat : Width(t) = w + 1
  <2>1. PICK y \in Nat \ {0} : y = t.bytes  OBVIOUS
  <2>2. PICK z \in Nat \ {0} : z = ByteBits  BY BitsAssumption
  <2>3. z * y \in Nat \ {0}  OBVIOUS
  <2>4. PICK x \in Nat \ {0} : x = Width(t)  BY <2>1, <2>2, <2>3 DEF Width
  <2>5. x - 1 \in Nat /\ x = (x - 1) + 1  OBVIOUS
  <2>6. QED  BY <2>4, <2>5
<1>2. PICK h \in Nat \ {0} : h = Bits2(w)  BY TwosGrow
<1>3. PICK n \in Nat \ {0} : n = 2 * h  OBVIOUS
<1>4. Bits2(Width(t)) = n /\ Bits2(Width(t) - 1) = h
  <2>1. Width(t) - 1 = w  BY <1>1
  <2>2. QED  BY <1>1, <1>2, <1>3, <2>1, TwosGrow
<1>5. \A v \in Int : Converted(t, v) =
                      IF t.signed /\ v % n >= h THEN (v % n) - n ELSE v % n
  <2>1. Power(2, Width(t)) = n /\ Power(2, Width(t) - 1) = h  BY <1>4 DEF Bits2
  <2>2. TAKE v \in Int
  <2>3. QED  BY <2>1 DEF Converted
<1>6. /\ h % n = h /\ 0 % n = 0 /\ (-1) % n = n - 1 /\ (-h - 1) % n = h - 1
      /\ (h - 1) % n = h - 1
  <2>1. \A r \in 0 .. n - 1 : r % n = r
    <3>1. SUFFICES ASSUME NEW r \in 0 .. n - 1 PROVE r % n = r  OBVIOUS
    <3>2. PICK zero \in Int : zero = 0  OBVIOUS
    <3>3. (zero * n + r) % n = r  BY Remainder
    <3>4. zero * n + r = r  BY <3>2
    <3>5. QED  BY <3>3, <3>4
  <2>2. \A r \in 0 .. n - 1 : (-n + r) % n = r
    <3>1. SUFFICES ASSUME NEW r \in 0 .. n - 1 PROVE (-n + r) % n = r  OBVIOUS
    <3>2. PICK minus \in Int : minus = -1  OBVIOUS
    <3>3. (minus * n + r) % n = r  BY Remainder
    <3>4. minus * n + r = -n + r  BY <3>2
    <3>5. QED  BY <3>3, <3>4
  <2>3. h \in 0 .. n - 1 /\ 0 \in 0 .. n - 1 /\ n - 1 \in 0 .. n - 1 /\ h - 1 \in 0 .. n - 1
    BY <1>3
  <2>4. -1 = -n + (n - 1) /\ -h - 1 = -n + (h - 1)  BY <1>3
  <2>5. PICK a : a = -1  OBVIOUS
  <2>6. PICK b : b = -h - 1  OBVIOUS
  <2>7. a % n = n - 1 /\ b % n = h - 1  BY <2>2, <2>3, <2>4, <2>5, <2>6
  <2>8. QED  BY <2>1, <2>3, <2>5, <2>6, <2>7
<1>7. PICK small : small = Smallest(t)  OBVIOUS
<1>8. PICK large : large = Largest(t)  OBVIOUS
<1>9. /\ t.signed => small = Converted(t, h)
      /\ ~t.signed => small = Converted(t, 0)
  <2>1. Power(2, Width(t) - 1) = h  BY <1>4 DEF Bits2
  <2>2. QED  BY <1>7, <2>1 DEF Smallest
<1>10. large = Converted(t, small - 1) \/ large = Converted(t, -small - 1)
  BY <1>7, <1>8 DEF Largest, Complement
<1>11. CASE t.signed
  <2>1. small = -h
    <3>1. small = IF h % n >= h THEN (h % n) - n ELSE h % n  BY <1>5, <1>9, <1>11
    <3>2. QED  BY <1>3, <1>6, <3>1
  <2>2. PICK v : (v = -h - 1 \/ v = h - 1) /\ large = Converted(t, v)
    <3>1. small - 1 = -h - 1 /\ -small - 1 = h - 1  BY <2>1
    <3>2. QED  BY <1>10, <3>1
  <2>3. v % n = h - 1  BY <1>6, <2>2
  <2>4. large = h - 1
    <3>1. v \in Int  BY <2>2
    <3>2. large = IF v % n >= h THEN (v % n) - n ELSE v % n
      BY <1>5, <1>11, <2>2, <3>1
    <3>3. QED  BY <2>3, <3>2
  <2>5. QED  BY <1>3, <1>4, <1>7, <1>8, <1>11, <2>1, <2>4 DEF RightRange
<1>12. CASE ~t.signed
  <2>1. small = 0
    <3>1. small = 0 % n  BY <1>5, <1>9, <1>12
    <3>2. QED  BY <1>6, <3>1
  <2>2. large = Converted(t, -1)
    <3>1. small - 1 = -1 /\ -small - 1 = -1  BY <2>1
    <3>2. QED  BY <1>10, <3>1
  <2>3. large = n - 1  BY <1>5, <1>6, <1>12, <2>2
  <2>4. QED  BY <1>3, <1>4, <1>7, <1>8, <1>12, <2>1, <2>3 DEF RightRange
<1>13. QED  BY <1>11, <1>12

Kinds == {Types[k] : k \in DOMAIN Types}
RangeLines == {RangeOf(t) : t \in Kinds}

RangesInv ==
  /\ ranges \in Seq(RangeLines)
  /\ bitsPc = "range" => Len(ranges) < Len(Types)

LEMMA RangesKept ==
  ASSUME RangesInv, [LabsNext]_labsVars
  PROVE  RangesInv'
<1>1. CASE UNCHANGED bitsVars  BY <1>1 DEF bitsVars, RangesInv
<1>2. CASE PrintRange
  <2>1. PICK n \in Nat : n = Len(ranges) /\ ranges \in Seq(RangeLines) /\ n < Len(Types)
    BY <1>2 DEF RangesInv, PrintRange
  <2>2. PICK r : r = RangeOf(Types[n + 1])  OBVIOUS
  <2>3. n + 1 \in DOMAIN Types  BY <2>1 DEF Types
  <2>4. r \in RangeLines  BY <2>2, <2>3 DEF RangeLines, Kinds
  <2>5. ranges' = Append(ranges, r)  BY <1>2, <2>1, <2>2 DEF PrintRange, RangeOf
  <2>6. ranges' \in Seq(RangeLines) /\ Len(ranges') = n + 1  BY <2>1, <2>4, <2>5
  <2>7. Len(Types) \in Nat  BY DEF Types
  <2>8. bitsPc' = "range" => n + 1 < Len(Types)
    <3>1. bitsPc' = IF n + 1 = Len(Types) THEN "done" ELSE "range"
      BY <1>2, <2>6 DEF PrintRange
    <3>2. QED  BY <2>1, <2>7, <3>1
  <2>9. QED  BY <2>6, <2>8 DEF RangesInv
<1>3. QED  BY <1>1, <1>2 DEF LabsNext, labsVars

\* Every range that bits.c prints is that of its type, for any size of a byte.
THEOREM RangesAreRight == LabsSpec => []RangesRight
<1>1. LabsInit => RangesInv
  <2>1. ASSUME ranges = <<>> PROVE ranges \in Seq(RangeLines) /\ Len(ranges) < Len(Types)
    BY <2>1 DEF Types
  <2>2. LabsInit => ranges = <<>>  BY DEF LabsInit, BitsInit, BitsOff
  <2>3. QED  BY <2>1, <2>2 DEF RangesInv
<1>2. RangesInv /\ [LabsNext]_labsVars => RangesInv'  BY RangesKept
<1>3. RangesInv => RangesRight
  <2>1. SUFFICES ASSUME RangesInv, NEW k \in DOMAIN ranges
                 PROVE  /\ ranges[k].max - ranges[k].min = Power(2, Width(ranges[k].type)) - 1
                        /\ ranges[k].min =
                             IF ranges[k].type.signed THEN -(ranges[k].max + 1) ELSE 0
    BY Zenon DEF RangesRight
  <2>2. ranges[k] \in RangeLines  BY <2>1 DEF RangesInv
  <2>3. PICK j \in DOMAIN Types : ranges[k] = RangeOf(Types[j])  BY <2>2 DEF RangeLines, Kinds
  <2>4. PICK t : t = Types[j]  OBVIOUS
  <2>5. RightRange(t)  BY <2>4, TypesKnown, RangeIsRight
  <2>6. ranges[k].type = t /\ ranges[k].min = Smallest(t) /\ ranges[k].max = Largest(t)
    BY <2>3, <2>4 DEF RangeOf
  <2>7. QED  BY <2>5, <2>6 DEF RightRange, Bits2
<1>4. QED  BY <1>1, <1>2, <1>3, PTL DEF LabsSpec

-----------------------------------------------------------------------------
(* The bits of maf.c.                                                      *)

\* A field shows the bits that it was made from.
LEMMA FieldShown ==
  ASSUME NEW len \in Nat \ {0}, NEW str \in Seq(Int), JustBits(str, len)
  PROVE  Masked(Strtol(str) % Power(2, len), len) = str
<1>1. PICK b : b = 2 /\ Base(b)  BY DEF Base
<1>2. Len(str) = len /\ \A k \in 1 .. len : str[k] \in {0, 1}  BY DEF JustBits
<1>3. PICK r : r = Reverse(str)  OBVIOUS
<1>4. r \in Seq(Int) /\ Len(r) = len /\ \A k \in 1 .. len : r[k] = str[len - k + 1]
  BY <1>2, <1>3, ReversedTwice
<1>5. r \in Seq(Digits(b))
  <2>1. \A k \in 1 .. len : len - k + 1 \in 1 .. len  OBVIOUS
  <2>2. \A k \in 1 .. len : r[k] \in Digits(b)  BY <1>1, <1>2, <1>4, <2>1 DEF Digits
  <2>3. QED  BY <1>4, <2>2
<1>6. PICK n : n = Number(b, r)  OBVIOUS
<1>7. PICK size \in Nat \ {0} : size = Power(b, len)  BY <1>1, Powers
<1>8. n \in 0 .. size - 1
  <2>1. len \in 0 .. Len(r)  BY <1>4
  <2>2. First(b, r, len) \in 0 .. size - 1  BY <1>1, <1>5, <1>7, <2>1, Bounded
  <2>3. First(b, r, len) = n  BY <1>1, <1>4, <1>6, Firsts
  <2>4. QED  BY <2>2, <2>3
<1>9. n % size = n
  <2>1. PICK zero \in Int : zero = 0  OBVIOUS
  <2>2. (zero * size + n) % size = n  BY <1>8, Remainder
  <2>3. zero * size + n = n  BY <1>8, <2>1
  <2>4. QED  BY <2>2, <2>3
<1>10. Strtol(str) % Power(2, len) = n  BY <1>1, <1>3, <1>6, <1>7, <1>9 DEF Strtol
<1>11. ASSUME NEW k \in 1 .. len PROVE (n \div Power(b, len - k)) % b = str[k]
  <2>1. PICK j \in Nat : j = len - k  OBVIOUS
  <2>2. j < Len(r)  BY <1>4, <2>1
  <2>3. (n \div Power(b, j)) % b = r[j + 1]  BY <1>1, <1>5, <1>6, <2>2, DigitAt
  <2>4. j + 1 \in 1 .. len /\ len - (j + 1) + 1 = k  BY <2>1
  <2>5. r[j + 1] = str[k]  BY <1>4, <2>4
  <2>6. QED  BY <2>1, <2>3, <2>5
<1>12. PICK m : m = Masked(n, len)  OBVIOUS
<1>13. m \in Seq(Int) /\ Len(m) = len /\ \A k \in 1 .. len : m[k] = str[k]
  <2>1. m = [k \in 1 .. len |-> str[k]]  BY <1>1, <1>11, <1>12, Zenon DEF Masked
  <2>2. QED  BY <1>2, <2>1
<1>14. m = str  BY <1>2, <1>13
<1>15. QED  BY <1>10, <1>12, <1>14

Fields == GetBits(args[1], args[2], args[3])

MafInv ==
  /\ mafPc # "off" => args \in MafArgs
  /\ mafPc \in {"show", "shown"} => CheckArgs = "show"
  /\ mafPc \notin {"check", "off", "show", "shown"} => mafPc = CheckArgs
  /\ mafPc = "show" => u = Fields
  /\ mafPc = "shown" => shownBits = ShowBits(Fields)

Accepted == JustBits(args[1], 1) /\ JustBits(args[2], ExpBits) /\ JustBits(args[3], FracBits)

LEMMA Checked ==
  /\ CheckArgs \notin {"check", "off", "shown"}
  /\ CheckArgs = "show" <=> ~(Len(args) < 2) /\ ~(Len(args) < 3) /\ Accepted
  /\ CheckArgs = "crashed" <=>
       ~(Len(args) < 2) /\ Len(args) < 3 /\ JustBits(args[1], 1) /\ JustBits(args[2], ExpBits)
BY DEF CheckArgs, Accepted

LEMMA MafKeeps ==
  ASSUME MafInv, [LabsNext]_labsVars
  PROVE  MafInv'
<1>1. CASE UNCHANGED mafVars
  <2>1. mafPc' = mafPc /\ args' = args /\ u' = u /\ shownBits' = shownBits
    BY <1>1 DEF mafVars
  <2>2. CheckArgs' = CheckArgs /\ Fields' = Fields  BY <2>1 DEF CheckArgs, Fields
  <2>3. QED  BY <2>1, <2>2 DEF MafInv
<1>2. CASE Check
  <2>1. /\ mafPc = "check" /\ mafPc' = CheckArgs /\ args' = args /\ args \in MafArgs
        /\ CheckArgs = "show" => u' = Fields
    BY <1>2 DEF Check, MafInv, Fields
  <2>2. CheckArgs' = CheckArgs /\ Fields' = Fields  BY <2>1 DEF CheckArgs, Fields
  <2>3. QED  BY <2>1, <2>2, Checked DEF MafInv
<1>3. CASE ShowFloat
  <2>1. /\ mafPc = "show" /\ mafPc' = "shown" /\ args' = args /\ shownBits' = ShowBits(u)
    BY <1>3 DEF ShowFloat
  <2>2. CheckArgs' = CheckArgs /\ Fields' = Fields  BY <2>1 DEF CheckArgs, Fields
  <2>3. QED  BY <2>1, <2>2 DEF MafInv
<1>4. QED  BY <1>1, <1>2, <1>3 DEF LabsNext, labsVars

LEMMA BitsAreThose ==
  ASSUME NEW str \in Seq(Int), NEW len
  PROVE  JustBits(str, len) <=> Len(str) = len /\ ToSet(str) \subseteq {0, 1}
BY DEF JustBits, ToSet

\* maf.c shows the bits that it was given, for any widths of the fields, and
\* ends at its missing third string only after two good ones.
THEOREM BitsAreShown == LabsSpec => []BitsShown
<1>1. LabsInit => MafInv  BY DEF LabsInit, MafInit, MafOff, MafInv
<1>2. MafInv /\ [LabsNext]_labsVars => MafInv'  BY MafKeeps
<1>3. MafInv => BitsShown
  <2>1. SUFFICES ASSUME MafInv PROVE BitsShown  OBVIOUS
  <2>2. ASSUME mafPc = "shown"
        PROVE  Len(args) >= 3 /\ Accepted /\ shownBits = SubSeq(args, 1, 3)
    <3>1. args \in Seq(Seq(Int))  BY <2>1, <2>2, BitsAssumption DEF MafInv
    <3>2. Len(args) >= 3 /\ Accepted  BY <2>1, <2>2, <3>1, Checked DEF MafInv
    <3>3. args[1] \in Seq(Int) /\ args[2] \in Seq(Int) /\ args[3] \in Seq(Int)
      BY <3>1, <3>2
    <3>4. <<Fields.sign>> = args[1]
      <4>1. Len(args[1]) = 1 /\ args[1][1] \in {0, 1}  BY <3>2, <3>3 DEF Accepted, JustBits
      <4>2. Fields.sign = IF args[1][1] = 1 THEN 1 ELSE 0  BY DEF Fields, GetBits
      <4>3. Fields.sign = args[1][1]  BY <4>1, <4>2
      <4>4. QED  BY <3>3, <4>1, <4>3
    <3>5. Masked(Fields.exp, ExpBits) = args[2]
      <4>1. Fields.exp = Strtol(args[2]) % Power(2, ExpBits)  BY DEF Fields, GetBits
      <4>2. QED  BY <3>2, <3>3, <4>1, FieldShown, BitsAssumption DEF Accepted
    <3>6. Masked(Fields.frac, FracBits) = args[3]
      <4>1. Fields.frac = Strtol(args[3]) % Power(2, FracBits)  BY DEF Fields, GetBits
      <4>2. QED  BY <3>2, <3>3, <4>1, FieldShown, BitsAssumption DEF Accepted
    <3>7. shownBits = <<args[1], args[2], args[3]>>
      BY <2>1, <2>2, <3>4, <3>5, <3>6, Zenon DEF MafInv, ShowBits
    <3>8. SubSeq(args, 1, 3) = <<args[1], args[2], args[3]>>
      <4>1. PICK three \in Nat : three = 3  OBVIOUS
      <4>2. PICK t : t = SubSeq(args, 1, three)  OBVIOUS
      <4>3. t \in Seq(Seq(Int)) /\ Len(t) = 3 /\ \A k \in 1 .. 3 : t[k] = args[k]
        BY <3>1, <3>2, <4>1, <4>2
      <4>4. t = <<t[1], t[2], t[3]>>  BY <4>3
      <4>5. QED  BY <4>1, <4>2, <4>3, <4>4
    <3>9. QED  BY <3>2, <3>7, <3>8
  <2>3. mafPc = "crashed" <=> mafPc \notin {"check", "off"} /\ CheckArgs = "crashed"
    BY <2>1, Checked DEF MafInv
  <2>4. mafPc # "off" => args \in Seq(Seq(Int)) /\ Len(args) \in Nat
    BY <2>1, BitsAssumption DEF MafInv
  <2> DEFINE good(k, len) == /\ k \in DOMAIN args /\ Len(args[k]) = len
                             /\ ToSet(args[k]) \subseteq {0, 1}
  <2>5. ASSUME mafPc # "off", NEW k \in Nat \ {0}, NEW len
        PROVE  good(k, len) <=> k <= Len(args) /\ JustBits(args[k], len)
    <3>1. k \in DOMAIN args <=> k <= Len(args)  BY <2>4, <2>5
    <3>2. ASSUME k \in DOMAIN args
          PROVE  JustBits(args[k], len) <=>
                   Len(args[k]) = len /\ ToSet(args[k]) \subseteq {0, 1}
      <4>1. args[k] \in Seq(Int)  BY <2>4, <2>5, <3>2
      <4>2. QED  BY <4>1, BitsAreThose
    <3>3. QED  BY <3>1, <3>2
  <2>6. ASSUME mafPc # "off"
        PROVE  /\ good(1, 1) <=> 1 <= Len(args) /\ JustBits(args[1], 1)
               /\ good(2, ExpBits) <=> 2 <= Len(args) /\ JustBits(args[2], ExpBits)
               /\ good(3, FracBits) <=> 3 <= Len(args) /\ JustBits(args[3], FracBits)
    <3> HIDE DEF good
    <3>1. PICK one \in Nat \ {0} : one = 1  OBVIOUS
    <3>2. PICK two \in Nat \ {0} : two = 2  OBVIOUS
    <3>3. PICK three \in Nat \ {0} : three = 3  OBVIOUS
    <3>4. /\ good(one, one) <=> one <= Len(args) /\ JustBits(args[one], one)
          /\ good(two, ExpBits) <=> two <= Len(args) /\ JustBits(args[two], ExpBits)
          /\ good(three, FracBits) <=> three <= Len(args) /\ JustBits(args[three], FracBits)
      BY <2>5, <2>6
    <3>5. QED  BY <3>1, <3>2, <3>3, <3>4
  <2> HIDE DEF good
  <2>7. mafPc = "shown" =>
          good(1, 1) /\ good(2, ExpBits) /\ good(3, FracBits) /\ shownBits = SubSeq(args, 1, 3)
    BY <2>2, <2>4, <2>6 DEF Accepted
  <2>8. mafPc = "crashed" <=>
          mafPc \notin {"check", "off"} /\ Len(args) = 2 /\ good(1, 1) /\ good(2, ExpBits)
    <3>1. ASSUME mafPc # "off"
          PROVE  CheckArgs = "crashed" <=> Len(args) = 2 /\ good(1, 1) /\ good(2, ExpBits)
      <4>1. CheckArgs = "crashed" <=>
              /\ ~(Len(args) < 2) /\ Len(args) < 3
              /\ JustBits(args[1], 1) /\ JustBits(args[2], ExpBits)
        BY Checked
      <4>2. Len(args) \in Nat  BY <2>4, <3>1
      <4>3. /\ Len(args) = 2 <=> ~(Len(args) < 2) /\ Len(args) < 3
            /\ Len(args) = 2 => 1 <= Len(args) /\ 2 <= Len(args)
        <5>1. \A n \in Nat : /\ n = 2 <=> ~(n < 2) /\ n < 3
                             /\ n = 2 => 1 <= n /\ 2 <= n
          OBVIOUS
        <5>2. QED  BY <4>2, <5>1, Zenon
      <4>4. /\ good(1, 1) <=> 1 <= Len(args) /\ JustBits(args[1], 1)
            /\ good(2, ExpBits) <=> 2 <= Len(args) /\ JustBits(args[2], ExpBits)
        BY <2>6, <3>1
      <4>5. QED  BY <4>1, <4>3, <4>4, Zenon
    <3>2. QED  BY <2>3, <3>1
  <2>9. QED  BY <2>7, <2>8, Zenon DEF BitsShown, good
<1>4. QED  BY <1>1, <1>2, <1>3, PTL DEF LabsSpec

-----------------------------------------------------------------------------
(* The bounding box.                                                       *)

\* The coordinates among the first n bytes.
Seen(n, c) == {file[k] : k \in {j \in 1 .. n : j % PointSize = c % PointSize}}

LEMMA Sizes == PointSize \in Nat /\ PointSize >= 2 /\ MaxByte \in Nat /\ 0 \in Byte
               /\ MaxByte \in Byte /\ Byte \subseteq Nat
BY BoundBoxAssumption DEF Byte

\* Whole points have been read, or all there is; the extremes are those of
\* the coordinates read, and the last y of whole points is one of them.  A
\* first byte alone is taken for a point whose y is on the stack.
Box ==
  /\ boxPc \in {"open", "read", "done", "error"}
  /\ file \in Seq(Byte) /\ pos \in 0 .. Len(file)
  /\ pos % PointSize = 0 \/ pos = Len(file)
  /\ \A c \in {1, 2} : p[c] \in Byte /\ low[c] \in Byte /\ high[c] \in Byte
  /\ Least(low[1], Seen(pos, 1) \cup {MaxByte})
  /\ Greatest(high[1], Seen(pos, 1) \cup {0})
  /\ pos # 1 => /\ Least(low[2], Seen(pos, 2) \cup {MaxByte})
                /\ Greatest(high[2], Seen(pos, 2) \cup {0})
  /\ pos = 1 => low[2] = high[2]
  /\ pos % PointSize = 0 /\ pos > 0 => p[2] \in Seen(pos, 2)
  /\ boxPc = "open" => pos = 0
  /\ boxPc = "done" => /\ pos = Len(file)
                       /\ box = <<<<low[1], high[2]>>, <<high[1], low[2]>>>>

BoxInv == boxPc = "off" \/ Box

LEMMA Bytes == \A x \in Byte : x \in Int /\ 0 <= x /\ x <= MaxByte
BY Sizes DEF Byte

LEMMA SeenBytes ==
  ASSUME file \in Seq(Byte), NEW n \in 0 .. Len(file), NEW c
  PROVE  Seen(n, c) \subseteq Byte
<1>1. \A k \in 1 .. n : file[k] \in Byte  OBVIOUS
<1>2. QED  BY <1>1 DEF Seen

\* Reading a point adds what there is of its coordinates.
LEMMA SeenMore ==
  ASSUME file \in Seq(Byte), NEW b \in 0 .. Len(file), b % PointSize = 0, b < Len(file),
         NEW c \in {1, 2}, NEW n,
         n = IF b + PointSize <= Len(file) THEN b + PointSize ELSE Len(file)
  PROVE  Seen(n, c) = Seen(b, c) \cup (IF b + c <= Len(file) THEN {file[b + c]} ELSE {})
<1>1. PICK z : z = PointSize  OBVIOUS
<1>2. z \in Nat \ {0} /\ z >= 2 /\ n \in Nat /\ b \in Nat /\ n <= b + z /\ n > b
      /\ Len(file) \in Nat /\ n <= Len(file)
  BY <1>1, Sizes
<1>3. ASSUME NEW j \in 1 .. z
      PROVE  (b + j) % z = c % z <=> j = c
  <2>1. Aligned(z, b)  BY <1>1, <1>2 DEF Aligned
  <2>2. (b + j) % z = (IF j = z THEN 0 ELSE j)
    <3>1. \A k \in 1 .. z : (b + k) % z = (IF k = z THEN 0 ELSE k)  BY <2>1, Behind
    <3>2. QED  BY <3>1, Zenon
  <2>3. PICK zero \in Nat : zero = 0  OBVIOUS
  <2>4. c \in 1 .. z /\ Aligned(z, zero)  BY <1>2, <2>3 DEF Aligned
  <2>5. (zero + c) % z = (IF c = z THEN 0 ELSE c)
    <3>1. \A k \in 1 .. z : (zero + k) % z = (IF k = z THEN 0 ELSE k)
      BY <2>4, Behind
    <3>2. QED  BY <2>4, <3>1, Zenon
  <2>6. zero + c = c  BY <2>3
  <2>7. c % z = (IF c = z THEN 0 ELSE c)  BY <2>5, <2>6, Zenon
  <2>8. QED  BY <1>2, <2>2, <2>4, <2>7
<1>4. ASSUME NEW k \in 1 .. n, k > b
      PROVE  k % z = c % z <=> k = b + c
  <2>1. PICK j \in 1 .. z : k = b + j
    <3>1. k - b \in 1 .. z /\ k = b + (k - b)  BY <1>2, <1>4
    <3>2. QED  BY <3>1
  <2>2. (b + j) % z = c % z <=> j = c  BY <1>3
  <2>3. j = c <=> k = b + c  BY <1>2, <2>1
  <2>4. QED  BY <2>1, <2>2, <2>3, Zenon
<1>5. b + c \in 1 .. n <=> b + c <= Len(file)
  BY <1>1, <1>2
<1>6. \A k : k \in {j \in 1 .. n : j % z = c % z}
             <=> k \in {j \in 1 .. b : j % z = c % z} \/ (k = b + c /\ b + c <= Len(file))
  <2>1. \A k : k \in 1 .. n <=> k \in 1 .. b \/ (k \in 1 .. n /\ k > b)
    BY <1>2
  <2>2. b + c > b  BY <1>2
  <2>3. ASSUME NEW k, k \in 1 .. n, k > b
        PROVE  k % z = c % z <=> (k = b + c /\ b + c <= Len(file))
    BY <1>4, <1>5, <2>3
  <2>4. QED  BY <1>4, <1>5, <2>1, <2>2, <2>3
<1>7. QED
  <2> DEFINE A == {j \in 1 .. n : j % z = c % z}
             B == {j \in 1 .. b : j % z = c % z}
  <2>1. Seen(n, c) = {file[k] : k \in A} /\ Seen(b, c) = {file[k] : k \in B}
    BY <1>1 DEF Seen
  <2>2. \A k : k \in A <=> k \in B \/ (k = b + c /\ b + c <= Len(file))  BY <1>6
  <2> HIDE DEF A, B
  <2>3. QED  BY <2>1, <2>2

LEMMA BoxAtFirst == BoxInit => Box
<1>1. SUFFICES ASSUME BoxInit PROVE Box  OBVIOUS
<1>2. file \in Seq(Byte) /\ pos = 0 /\ boxPc = "open"
  BY <1>1, BoundBoxAssumption DEF BoxInit, Byte
<1>3. \A c : Seen(0, c) = {}  BY DEF Seen
<1>4. 0 \in 0 .. Len(file)  BY <1>2
<1>5. 0 % PointSize = 0  BY Sizes
<1>6. \A c \in {1, 2} : p[c] \in Byte /\ low[c] = MaxByte /\ high[c] = 0
  BY <1>1 DEF BoxInit
<1>7. Least(MaxByte, {} \cup {MaxByte}) /\ Greatest(0, {} \cup {0})
  BY Sizes DEF Least, Greatest
<1>8. Seen(pos, 1) = {} /\ Seen(pos, 2) = {}  BY <1>2, <1>3
<1>9. /\ Least(low[1], Seen(pos, 1) \cup {MaxByte})
      /\ Least(low[2], Seen(pos, 2) \cup {MaxByte})
      /\ Greatest(high[1], Seen(pos, 1) \cup {0})
      /\ Greatest(high[2], Seen(pos, 2) \cup {0})
  BY <1>6, <1>7, <1>8
<1>10. QED  BY <1>2, <1>4, <1>5, <1>6, <1>9, Sizes DEF Box

\* The box that is printed is right.
LEMMA BoxImplied == BoxInv => BoxRight
<1>1. SUFFICES ASSUME Box, boxPc = "done"
               PROVE  /\ box[1][1] = Min(Coords(1) \cup {MaxByte})
                      /\ box[2][1] = Max(Coords(1) \cup {0})
                      /\ IF Len(file) = 1 THEN box[1][2] = box[2][2]
                         ELSE /\ box[1][2] = Max(Coords(2) \cup {0})
                              /\ box[2][2] = Min(Coords(2) \cup {MaxByte})
  BY DEF BoxInv, BoxRight
<1>2. pos = Len(file) /\ pos \in 0 .. Len(file) /\ file \in Seq(Byte)  BY <1>1 DEF Box
<1>3. \A c : Seen(pos, c) = Coords(c)  BY <1>2 DEF Seen, Coords
<1>4. \A c : Coords(c) \subseteq Int
  <2>1. \A c : Seen(pos, c) \subseteq Byte  BY <1>2, SeenBytes
  <2>2. \A c : Coords(c) \subseteq Byte  BY <1>3, <2>1, Zenon
  <2>3. QED  BY <2>2, Bytes
<1>5. MaxByte \in Int /\ 0 \in Int  BY Sizes
<1>6. /\ low[1] = Min(Coords(1) \cup {MaxByte}) /\ high[1] = Max(Coords(1) \cup {0})
  <2>1. Least(low[1], Coords(1) \cup {MaxByte}) /\ Greatest(high[1], Coords(1) \cup {0})
    BY <1>1, <1>3 DEF Box
  <2>2. Coords(1) \cup {MaxByte} \subseteq Int /\ Coords(1) \cup {0} \subseteq Int
    BY <1>4, <1>5
  <2>3. QED  BY <2>1, <2>2, MinIsLeast, MaxIsGreatest
<1>7. ASSUME Len(file) # 1
      PROVE  /\ low[2] = Min(Coords(2) \cup {MaxByte}) /\ high[2] = Max(Coords(2) \cup {0})
  <2>1. Least(low[2], Coords(2) \cup {MaxByte}) /\ Greatest(high[2], Coords(2) \cup {0})
    BY <1>1, <1>2, <1>3, <1>7 DEF Box
  <2>2. Coords(2) \cup {MaxByte} \subseteq Int /\ Coords(2) \cup {0} \subseteq Int
    BY <1>4, <1>5
  <2>3. QED  BY <2>1, <2>2, MinIsLeast, MaxIsGreatest
<1>8. Len(file) = 1 => low[2] = high[2]  BY <1>1, <1>2 DEF Box
<1>9. box[1][1] = low[1] /\ box[1][2] = high[2] /\ box[2][1] = high[1] /\ box[2][2] = low[2]
  BY <1>1 DEF Box
<1>10. QED  BY <1>6, <1>7, <1>8, <1>9

LEMMA ReadKeeps ==
  ASSUME Box, ReadPoint
  PROVE  Box'
<1>1. PICK b : b = pos  OBVIOUS
<1>2. PICK n : n = pos'  OBVIOUS
<1>3. PICK z : z = PointSize  OBVIOUS
<1>4. /\ boxPc = "read" /\ boxPc' = "read" /\ file' = file /\ file \in Seq(Byte)
      /\ b \in 0 .. Len(file) /\ b < Len(file) /\ b % z = 0 /\ Len(file) \in Nat
  BY <1>1, <1>3 DEF Box, ReadPoint
<1>5. z \in Nat \ {0} /\ z >= 2 /\ b \in Nat  BY <1>3, <1>4, Sizes
<1>6. n = IF b + z <= Len(file) THEN b + z ELSE Len(file)
  <2>1. PICK x \in Int : x = b + z  BY <1>5
  <2>2. n = Min({x, Len(file)})  BY <1>1, <1>2, <1>3, <2>1 DEF ReadPoint
  <2>3. QED  BY <1>4, <2>1, <2>2, MinOfTwo
<1>7. n \in 0 .. Len(file) /\ n > b /\ n <= b + z /\ (n # b + z => n = Len(file))
  BY <1>4, <1>5, <1>6
<1>8. \A k \in 1 .. z : (b + k) % z = (IF k = z THEN 0 ELSE k)
  <2>1. Aligned(z, b)  BY <1>4, <1>5 DEF Aligned
  <2>2. QED  BY <2>1, Behind
<1>9. n % z = 0 => n = b + z
  <2>1. PICK j \in 1 .. z : n = b + j
    <3>1. n - b \in 1 .. z /\ n = b + (n - b)  BY <1>5, <1>7
    <3>2. QED  BY <3>1
  <2>2. n % z = (IF j = z THEN 0 ELSE j)  BY <1>8, <2>1, Zenon
  <2>3. QED  BY <1>5, <2>1, <2>2
<1>10. n % z = 0 \/ n = Len(file)
  <2>1. z \in 1 .. z  BY <1>5
  <2>2. (b + z) % z = 0  BY <1>8, <2>1, Zenon
  <2>3. n = b + z => n % z = 0  BY <2>2, Zenon
  <2>4. QED  BY <1>7, <2>3
<1>11. b # 1
  <2>1. SUFFICES ASSUME b = 1 PROVE FALSE  OBVIOUS
  <2>2. PICK zero \in Nat : zero = 0  OBVIOUS
  <2>3. PICK one \in 1 .. z : one = 1  BY <1>5
  <2>4. zero % z = 0 /\ zero + one = b  BY <1>5, <2>1, <2>2, <2>3
  <2>5. (zero + one) % z = (IF one = z THEN 0 ELSE one)
    <3>1. Aligned(z, zero)  BY <1>5, <2>2, <2>4 DEF Aligned
    <3>2. \A k \in 1 .. z : (zero + k) % z = (IF k = z THEN 0 ELSE k)  BY <3>1, Behind
    <3>3. QED  BY <2>3, <3>2, Zenon
  <2>6. b % z = (IF one = z THEN 0 ELSE one)  BY <2>4, <2>5, Zenon
  <2>7. QED  BY <1>4, <1>5, <2>3, <2>6
<1>12. \A c \in {1, 2} :
         Seen(n, c) = Seen(b, c) \cup (IF b + c <= Len(file) THEN {file[b + c]} ELSE {})
  BY <1>3, <1>4, <1>6, SeenMore
<1>13. \A c \in {1, 2} :
         /\ Least(low[c], Seen(b, c) \cup {MaxByte})
         /\ Greatest(high[c], Seen(b, c) \cup {0})
         /\ p[c] \in Byte /\ low[c] \in Byte /\ high[c] \in Byte
  BY <1>1, <1>11 DEF Box
<1>14. \A c \in {1, 2} :
         /\ p'[c] = IF b + c <= Len(file) THEN file[b + c] ELSE p[c]
         /\ low'[c] = Min({low[c], p'[c]}) /\ high'[c] = Max({high[c], p'[c]})
  BY <1>1 DEF ReadPoint, Widened
<1>15. \A c \in {1, 2} : Seen(b, c) \subseteq Int /\ p'[c] \in Byte
  <2>1. \A c \in {1, 2} : Seen(b, c) \subseteq Byte  BY <1>4, SeenBytes
  <2>2. ASSUME NEW c \in {1, 2}, b + c <= Len(file) PROVE file[b + c] \in Byte
    <3>1. b + c \in 1 .. Len(file)  BY <1>5, <2>2
    <3>2. QED  BY <1>4, <3>1
  <2>3. \A c \in {1, 2} : Seen(b, c) \subseteq Int  BY <2>1, Bytes
  <2>4. QED  BY <1>13, <1>14, <2>2, <2>3
<1>16. ASSUME NEW c \in {1, 2}, b + c <= Len(file)
       PROVE  /\ Least(low'[c], Seen(n, c) \cup {MaxByte})
              /\ Greatest(high'[c], Seen(n, c) \cup {0})
              /\ p'[c] \in Seen(n, c)
  <2>1. PICK x : x = p'[c]  OBVIOUS
  <2>2. /\ x = file[b + c] /\ x \in Int
        /\ low'[c] = Min({low[c], x}) /\ high'[c] = Max({high[c], x})
    BY <1>14, <1>15, <1>16, <2>1, Bytes
  <2>3. Seen(n, c) = Seen(b, c) \cup {x}  BY <1>12, <1>16, <2>2
  <2>4. PICK S : S = Seen(b, c) \cup {MaxByte}  OBVIOUS
  <2>5. PICK T : T = Seen(b, c) \cup {0}  OBVIOUS
  <2>6. S \subseteq Int /\ T \subseteq Int  BY <1>15, <2>4, <2>5, Sizes
  <2>7. Least(low'[c], S \cup {x}) /\ Greatest(high'[c], T \cup {x})
    BY <1>13, <2>2, <2>4, <2>5, <2>6, LeastMore, GreatestMore
  <2>8. S \cup {x} = Seen(n, c) \cup {MaxByte} /\ T \cup {x} = Seen(n, c) \cup {0}
    BY <2>3, <2>4, <2>5
  <2>9. QED  BY <2>1, <2>3, <2>7, <2>8
<1>17. ASSUME b + 2 > Len(file)
       PROVE  /\ n # 1 => /\ Least(low'[2], Seen(n, 2) \cup {MaxByte})
                          /\ Greatest(high'[2], Seen(n, 2) \cup {0})
              /\ n = 1 => low'[2] = high'[2]
  <2>1. n = b + 1 /\ Seen(n, 2) = Seen(b, 2) /\ p'[2] = p[2]
    <3>1. ~(b + 2 <= Len(file)) /\ n = b + 1  BY <1>4, <1>5, <1>6, <1>17
    <3>2. QED  BY <1>12, <1>14, <3>1
  <2>2. PICK x \in Int : x = p[2]  BY <1>13, Bytes
  <2>3. low'[2] = Min({low[2], x}) /\ high'[2] = Max({high[2], x})  BY <1>14, <2>1, <2>2
  <2>4. CASE b = 0
    <3>1. Seen(b, 2) = {}  BY <2>4 DEF Seen
    <3>2. low[2] = MaxByte /\ high[2] = 0  BY <1>13, <3>1 DEF Least, Greatest
    <3>3. x >= 0 /\ x <= MaxByte  BY <1>13, <2>2 DEF Byte
    <3>4. low'[2] = x
      <4>1. Min({low[2], x}) = IF low[2] <= x THEN low[2] ELSE x  BY <3>2, Sizes, MinOfTwo
      <4>2. QED  BY <2>3, <3>2, <3>3, <4>1, Sizes
    <3>5. high'[2] = x
      <4>1. Max({high[2], x}) = IF high[2] >= x THEN high[2] ELSE x
        BY <1>13, Bytes, MaxOfTwo
      <4>2. QED  BY <2>3, <3>2, <3>3, <4>1, Sizes
    <3>6. QED  BY <2>1, <2>4, <3>4, <3>5
  <2>5. CASE b # 0
    <3>1. x \in Seen(b, 2)  BY <1>1, <1>3, <1>4, <1>5, <2>2, <2>5 DEF Box
    <3>2. PICK S : S = Seen(b, 2) \cup {MaxByte}  OBVIOUS
    <3>3. PICK T : T = Seen(b, 2) \cup {0}  OBVIOUS
    <3>4. S \subseteq Int /\ T \subseteq Int /\ x \in S /\ x \in T
          /\ Least(low[2], S) /\ Greatest(high[2], T)
      BY <1>13, <1>15, <3>1, <3>2, <3>3, Sizes
    <3>5. Min({low[2], x}) = low[2] /\ Max({high[2], x}) = high[2]
      <4>1. x \in S => Min({low[2], x}) = low[2]  BY <3>4, LeastMore
      <4>2. x \in T => Max({high[2], x}) = high[2]  BY <3>4, GreatestMore
      <4>3. QED  BY <3>4, <4>1, <4>2
    <3>6. n # 1  BY <1>5, <2>1, <2>5
    <3>7. low'[2] = low[2] /\ high'[2] = high[2]  BY <2>3, <3>5
    <3>8. QED  BY <2>1, <3>2, <3>3, <3>4, <3>6, <3>7
  <2>6. QED  BY <2>4, <2>5, Zenon
<1>18. b + 1 <= Len(file)  BY <1>4, <1>5
<1>19. n % z = 0 => b + 2 <= Len(file)  BY <1>4, <1>5, <1>7, <1>9
<1>20. \A c \in {1, 2} : low'[c] \in Byte /\ high'[c] \in Byte
  <2>1. SUFFICES ASSUME NEW c \in {1, 2} PROVE low'[c] \in Byte /\ high'[c] \in Byte
    OBVIOUS
  <2>2. p'[c] \in Int /\ low[c] \in Int /\ high[c] \in Int  BY <1>13, <1>15, Bytes
  <2>3. /\ Min({low[c], p'[c]}) = IF low[c] <= p'[c] THEN low[c] ELSE p'[c]
        /\ Max({high[c], p'[c]}) = IF high[c] >= p'[c] THEN high[c] ELSE p'[c]
    BY <2>2, MinOfTwo, MaxOfTwo
  <2>4. QED  BY <1>13, <1>14, <1>15, <2>3
<1>21. \A c : Seen(n, c)' = Seen(n, c)  BY <1>4 DEF Seen
<1>22. Least(low'[1], Seen(n, 1) \cup {MaxByte}) /\ Greatest(high'[1], Seen(n, 1) \cup {0})
  BY <1>16, <1>18
<1>23. /\ n # 1 => /\ Least(low'[2], Seen(n, 2) \cup {MaxByte})
                   /\ Greatest(high'[2], Seen(n, 2) \cup {0})
       /\ n = 1 => low'[2] = high'[2]
  <2>1. CASE b + 2 <= Len(file)
    <3>1. n # 1  BY <1>5, <1>7, <2>1
    <3>2. QED  BY <1>16, <2>1, <3>1
  <2>2. CASE ~(b + 2 <= Len(file))
    <3>1. b + 2 > Len(file)  BY <1>4, <1>5, <2>2
    <3>2. QED  BY <1>17, <3>1, Zenon
  <2>3. QED  BY <2>1, <2>2
<1>24. n % z = 0 /\ n > 0 => p'[2] \in Seen(n, 2)  BY <1>16, <1>19
<1>25. QED
  BY <1>2, <1>3, <1>4, <1>7, <1>10, <1>15, <1>20, <1>21, <1>22, <1>23, <1>24 DEF Box, Seen

LEMMA BoxKeeps ==
  ASSUME BoxInv, [LabsNext]_labsVars
  PROVE  BoxInv'
<1>1. CASE UNCHANGED boxVars
  <2>1. /\ boxPc' = boxPc /\ file' = file /\ pos' = pos /\ p' = p /\ low' = low /\ high' = high
        /\ box' = box
    BY <1>1 DEF boxVars
  <2>2. QED  BY <2>1 DEF BoxInv, Box, Seen
<1>2. CASE BoxNext
  <2>1. Box  BY <1>2 DEF BoxInv, BoxNext, Open, ReadPoint, EndOfPoints
  <2>2. CASE Open \/ EndOfPoints
    <3>1. /\ file' = file /\ pos' = pos /\ p' = p /\ low' = low /\ high' = high
          /\ boxPc' \in {"read", "done", "error"}
      BY <2>2 DEF Open, EndOfPoints
    <3>2. boxPc' = "done" => /\ pos = Len(file)
                            /\ box' = <<<<low[1], high[2]>>, <<high[1], low[2]>>>>
      BY <2>2 DEF Open, EndOfPoints
    <3>3. QED  BY <2>1, <3>1, <3>2 DEF BoxInv, Box, Seen
  <2>3. CASE ReadPoint  BY <2>1, <2>3, ReadKeeps DEF BoxInv
  <2>4. QED  BY <1>2, <2>2, <2>3 DEF BoxNext
<1>3. QED  BY <1>1, <1>2 DEF LabsNext, labsVars

LEMMA BoxInvariant == LabsSpec => []BoxInv
<1>1. LabsInit => BoxInv  BY BoxAtFirst DEF LabsInit, BoxOff, BoxInv
<1>2. BoxInv /\ [LabsNext]_labsVars => BoxInv'  BY BoxKeeps
<1>3. QED  BY <1>1, <1>2, PTL DEF LabsSpec

\* The box that q2.c prints is that of the coordinates in the file, as far as
\* they go, for every file and every size of a point of at least two bytes.
THEOREM BoxIsRight == LabsSpec => []BoxRight
<1>1. BoxInv => BoxRight  BY BoxImplied
<1>2. QED  BY <1>1, BoxInvariant, PTL

-----------------------------------------------------------------------------
(* The directory listing.                                                  *)

LEMMA CancelLeft ==
  ASSUME NEW S, NEW d \in Seq(S), NEW s \in Seq(S), NEW t \in Seq(S), d \o s = d \o t
  PROVE  s = t
<1>1. PICK n : n = Len(d)  OBVIOUS
<1>2. n \in Nat /\ Len(s) \in Nat /\ Len(t) \in Nat  BY <1>1
<1>3. Len(d \o s) = n + Len(s) /\ Len(d \o t) = n + Len(t)  BY <1>1
<1>4. Len(s) = Len(t)  BY <1>2, <1>3
<1>5. ASSUME NEW k \in 1 .. Len(s) PROVE s[k] = t[k]
  <2>1. (d \o s)[n + k] = s[k]  BY <1>1, <1>2
  <2>2. (d \o t)[n + k] = t[k]  BY <1>1, <1>2, <1>4
  <2>3. QED  BY <2>1, <2>2
<1>6. QED  BY <1>4, <1>5

Char == STRING \cup {"/"}
Names == DOMAIN Records

LEMMA NamesAreStrings ==
  /\ DirName \o <<"/">> \in Seq(Char) /\ Names \subseteq Seq(Char)
  /\ Len(DirName) \in Nat
  /\ \A name \in Names :
       /\ Len(name) \in Nat
       /\ Len(DirName \o <<"/">> \o name) = Len(DirName) + 1 + Len(name)
<1>1. \A s \in Seq(STRING) : s \in Seq(Char)  BY DEF Char
<1>2. "/" \in Char  BY DEF Char
<1>3. <<"/">> \in Seq(Char) /\ Len(<<"/">>) = 1  BY <1>2
<1>4. DirName \in Seq(Char)  BY <1>1, ListingAssumption
<1>5. DirName \o <<"/">> \in Seq(Char) /\ Len(DirName \o <<"/">>) = Len(DirName) + 1
  BY <1>3, <1>4
<1>6. ASSUME NEW name \in Names
      PROVE  /\ name \in Seq(Char) /\ Len(name) \in Nat
             /\ Len(DirName \o <<"/">> \o name) = Len(DirName) + 1 + Len(name)
  <2>1. name \in Seq(Char)  BY <1>1, ListingAssumption DEF Names
  <2>2. QED  BY <1>5, <2>1
<1>7. QED  BY <1>4, <1>5, <1>6

\* No two files of the directory have the same path.
LEMMA OnePath ==
  ASSUME NEW a \in Names, NEW b \in Names, DirName \o <<"/">> \o a = DirName \o <<"/">> \o b
  PROVE  a = b
BY NamesAreStrings, CancelLeft

\* The line shows the record of its file; or the file is gone or its path too
\* long, and the line shows another record.
Kept == Range(Records) \cup {Garbage}
Excused(name, gone) == name \in gone \/ Len(DirName) + 1 + Len(name) > MaxName
OwnOrExcused(line, gone) ==
  \E name \in Names :
    /\ line.name = name
    /\ \/ line = Line(name, Records[name])
       \/ Excused(name, gone) /\ \E r \in Kept : line = Line(name, r)

ListLines == {Line(name, r) : name \in Names, r \in Kept}

ListInv ==
  IF lsPc = "off" THEN listed = <<>>
  ELSE
    /\ entries \in Seq(Names) /\ next \in Nat \ {0} /\ infom \in Kept
    /\ listed \in Seq(ListLines)
    /\ \A k \in DOMAIN listed : OwnOrExcused(listed[k], removed)

LEMMA LstatFinds ==
  ASSUME NEW name \in Names, infom \in Kept
  PROVE  LET r == Lstat(FileName(name))
         IN r \in Kept /\ (r = Records[name] \/ Excused(name, removed))
<1>1. PICK path : path = FileName(name)  OBVIOUS
<1>2. PICK r : r = Lstat(path)  OBVIOUS
<1>3. \A other \in Names : Records[other] \in Kept  BY DEF Kept, Names, Range
<1>4. (r = infom /\ Named(path) = {}) \/ \E other \in Named(path) : r = Records[other]
  BY <1>2 DEF Lstat
<1>5. Named(path) \subseteq Names  BY DEF Named, Names
<1>6. r \in Kept  BY <1>3, <1>4, <1>5
<1>7. ASSUME ~Excused(name, removed) PROVE r = Records[name]
  <2>1. ~(Len(DirName \o <<"/">> \o name) > MaxName) /\ name \notin removed
    BY <1>7, NamesAreStrings DEF Excused
  <2>2. path = DirName \o <<"/">> \o name  BY <1>1, <2>1 DEF FileName
  <2>3. name \in Named(path)  BY <2>1, <2>2 DEF Named, Names
  <2>4. \A other \in Named(path) : other = name
    <3>1. SUFFICES ASSUME NEW other \in Named(path) PROVE other = name  OBVIOUS
    <3>2. DirName \o <<"/">> \o other = path /\ other \in Names  BY <1>5 DEF Named
    <3>3. QED  BY <2>2, <3>2, OnePath
  <2>5. QED  BY <1>4, <2>3, <2>4
<1>8. QED  BY <1>1, <1>2, <1>6, <1>7

\* A line stays excused whatever is removed after it.
LEMMA StillExcused ==
  ASSUME NEW line, NEW gone, OwnOrExcused(line, gone), NEW more, gone \subseteq more
  PROVE  OwnOrExcused(line, more)
BY DEF OwnOrExcused, Excused

LEMMA PrintKeeps ==
  ASSUME ListInv, PrintEntry
  PROVE  ListInv'
<1>1. PICK name : name = entries[next]  OBVIOUS
<1>2. PICK r : r = infom'  OBVIOUS
<1>3. PICK line : line = Line(name, r)  OBVIOUS
<1>4. /\ entries \in Seq(Names) /\ next \in Nat \ {0} /\ infom \in Kept
      /\ listed \in Seq(ListLines)
      /\ \A k \in DOMAIN listed : OwnOrExcused(listed[k], removed)
      /\ next <= Len(entries)
  BY DEF ListInv, PrintEntry
<1>5. name \in Names  BY <1>1, <1>4
<1>6. r = Lstat(FileName(name)) /\ listed' = Append(listed, line)
      /\ next' = next + 1 /\ entries' = entries /\ removed' = removed
  BY <1>1, <1>2, <1>3 DEF PrintEntry, Show
<1>7. r \in Kept /\ (r = Records[name] \/ Excused(name, removed))
  BY <1>4, <1>5, <1>6, LstatFinds
<1>8. line.name = name  BY <1>3 DEF Line
<1>9. OwnOrExcused(line, removed)
  <2>1. line = Line(name, Records[name]) \/ Excused(name, removed)  BY <1>3, <1>7
  <2>2. QED  BY <1>3, <1>5, <1>7, <1>8, <2>1 DEF OwnOrExcused
<1>10. line \in ListLines  BY <1>3, <1>5, <1>7 DEF ListLines
<1>11. listed' \in Seq(ListLines)  BY <1>4, <1>6, <1>10
<1>12. ASSUME NEW k \in DOMAIN listed' PROVE OwnOrExcused(listed'[k], removed)
  <2>1. k \in 1 .. Len(listed) + 1 /\ Len(listed) \in Nat  BY <1>4, <1>6, <1>11
  <2>2. CASE k = Len(listed) + 1
    <3>1. listed'[k] = line  BY <1>4, <1>6, <1>10, <2>2
    <3>2. QED  BY <1>9, <3>1
  <2>3. CASE k \in 1 .. Len(listed)
    <3>1. listed'[k] = listed[k] /\ k \in DOMAIN listed  BY <1>4, <1>6, <1>10, <2>3
    <3>2. QED  BY <1>4, <3>1
  <2>4. QED  BY <2>1, <2>2, <2>3
<1>13. lsPc' = "read"  BY DEF PrintEntry
<1>14. QED  BY <1>2, <1>4, <1>6, <1>7, <1>11, <1>12, <1>13 DEF ListInv

LEMMA ListKeeps ==
  ASSUME ListInv, [LabsNext]_labsVars
  PROVE  ListInv'
<1>1. CASE UNCHANGED lsVars  BY <1>1 DEF lsVars, ListInv
<1>2. CASE Start \/ SkipHidden \/ EndOfDirectory
  BY <1>2 DEF Start, SkipHidden, EndOfDirectory, ListInv
<1>3. CASE PrintEntry  BY <1>3, PrintKeeps
<1>4. CASE RemoveFile
  <2>1. /\ lsPc' = lsPc /\ entries' = entries /\ next' = next /\ infom' = infom
        /\ listed' = listed /\ lsPc # "off" /\ removed \subseteq removed'
    BY <1>4 DEF RemoveFile
  <2>2. QED  BY <2>1, StillExcused DEF ListInv
<1>5. QED  BY <1>1, <1>2, <1>3, <1>4 DEF LabsNext, labsVars, ListNext

LEMMA ListAtFirst == LabsInit => ListInv
<1>1. SUFFICES ASSUME ListInit PROVE ListInv  BY DEF LabsInit, ListOff, ListInv
<1>2. listed = <<>> /\ next = 1 /\ infom = Garbage /\ entries \in Seq(Names)
  BY <1>1, ListingAssumption DEF ListInit, Names
<1>3. QED  BY <1>2 DEF ListInv, Kept

LEMMA ListInvariant == LabsSpec => []ListInv
<1>1. ListInv /\ [LabsNext]_labsVars => ListInv'  BY ListKeeps
<1>2. QED  BY <1>1, ListAtFirst, PTL DEF LabsSpec

\* A line of myls shows the record of its own file, unless the file was
\* removed or its path is longer than fileName; then it shows another one, or
\* what was on the stack.  This holds for every directory, set of files and
\* length of fileName, whatever is removed when.
THEOREM OwnRecordIsShown == LabsSpec => []OwnRecordShown
<1>1. ListInv => OwnRecordShown
  <2>1. SUFFICES ASSUME ListInv, NEW k \in DOMAIN listed
                 PROVE  LET name == listed[k].name
                        IN \/ listed[k] = Line(name, Records[name])
                           \/ /\ name \in removed \/ Len(DirName) + 1 + Len(name) > MaxName
                              /\ \E r \in Range(Records) \cup {Garbage} : listed[k] = Line(name, r)
    BY Zenon DEF OwnRecordShown
  <2>2. lsPc # "off"  BY <2>1 DEF ListInv
  <2>3. OwnOrExcused(listed[k], removed)  BY <2>1, <2>2 DEF ListInv
  <2>4. QED  BY <2>3 DEF OwnOrExcused, Excused, Kept
<1>2. QED  BY <1>1, ListInvariant, PTL
=============================================================================
