------------------------------- MODULE BigNum -------------------------------
(***************************************************************************)
(* labs/week02: add.c, which adds two numbers given as strings, and the    *)
(* numbers of BigNum.c, digits with the lowest first.  A character is its  *)
(* value if it is a digit and something else, outside 0 .. 9, if not.      *)
(***************************************************************************)
EXTENDS Numerals, SequencesExt

CONSTANTS
  NumArgs,   \* the argument lists add may be called with
  NumBytes   \* bytes a number is initialised to: 20

ASSUME BigNumAssumption == NumBytes \in Nat \ {0} /\ NumArgs \subseteq Seq(Seq(Int))

VARIABLES
  addPc,             \* "scan", "begin", "add", "show", "usage", "invalid", "shown", or "off"
  argv,
  num1, num2, sum,
  new, i, tenth      \* the result, digit and carry of addBigNums

addVars == <<addPc, argv, num1, num2, sum, new, i, tenth>>

Digit == 0 .. 9
Zeros(n) == [k \in 1 .. n |-> 0]

\* The digits of a string, lowest first; what is no digit is passed over.
ScanBigNum(s) ==
  LET scanned[k \in 0 .. Len(s)] ==
        IF k = 0 THEN <<>>
        ELSE IF s[k] \in Digit THEN <<s[k]>> \o scanned[k - 1] ELSE scanned[k - 1]
  IN scanned[Len(s)]

\* The digits shown: from the highest that is not 0, and at least one.
ShowBigNum(bn) ==
  Reverse(SubSeq(bn, 1, Max({1} \cup {k \in DOMAIN bn : bn[k] # 0})))

AddInit ==
  /\ addPc = "scan" /\ argv \in NumArgs
  /\ num1 = Zeros(NumBytes) /\ num2 = Zeros(NumBytes) /\ sum = Zeros(NumBytes)
  /\ new = <<>> /\ i = 0 /\ tenth = 0

Scan ==
  /\ addPc = "scan"
  /\ IF Len(argv) < 2 THEN addPc' = "usage" /\ UNCHANGED <<num1, num2>>
     ELSE IF ScanBigNum(argv[1]) = <<>> THEN addPc' = "invalid" /\ UNCHANGED <<num1, num2>>
     ELSE /\ num1' = ScanBigNum(argv[1])
          /\ IF ScanBigNum(argv[2]) = <<>> THEN addPc' = "invalid" /\ UNCHANGED num2
             ELSE num2' = ScanBigNum(argv[2]) /\ addPc' = "begin"
  /\ UNCHANGED <<argv, sum, new, i, tenth>>

Longer == Max({Len(num1), Len(num2)}) + 1
Shorter == Min({Len(num1), Len(num2)})

AddBegin ==
  /\ addPc = "begin" /\ addPc' = "add"
  /\ new' = Zeros(Longer + 1) /\ i' = 0 /\ tenth' = 0
  /\ UNCHANGED <<argv, num1, num2, sum>>

\* Mutants: 10 is no carry; the carry stays after a sum below 10.
Over9Late(total) == IF total > 10 THEN 1 ELSE 0
Over9Kept(total) == IF total > 9 THEN 1 ELSE tenth

Over9(total) == IF total > 9 THEN 1 ELSE 0

\* A digit that both numbers have.
AddDigit ==
  /\ addPc = "add" /\ i < Shorter
  /\ LET total == num1[i + 1] + num2[i + 1] + tenth IN
     /\ new' = [new EXCEPT ![i + 1] = total % 10]
     /\ tenth' = Over9(total)
  /\ i' = i + 1
  /\ UNCHANGED <<addPc, argv, num1, num2, sum>>

\* Digits of the longer number alone are copied; the carry waits.
CopyDigit ==
  /\ addPc = "add" /\ i >= Shorter /\ i < Longer - 1
  /\ new' = [new EXCEPT ![i + 1] =
               IF Len(num1) > Len(num2) THEN num1[i + 1] ELSE num2[i + 1]]
  /\ i' = i + 1
  /\ UNCHANGED <<addPc, argv, num1, num2, sum, tenth>>

\* The last digit is the carry; the array has one more than the number.
LastDigit ==
  /\ addPc = "add" /\ i = Longer - 1
  /\ new' = IF tenth = 1 THEN [new EXCEPT ![i + 1] = 1] ELSE new
  /\ sum' = SubSeq(new', 1, Longer)
  /\ addPc' = "show"
  /\ UNCHANGED <<argv, num1, num2, i, tenth>>

ShowSum == addPc = "show" /\ addPc' = "shown" /\ UNCHANGED <<argv, num1, num2, sum, new, i, tenth>>

AddNext == Scan \/ AddBegin \/ AddDigit \/ CopyDigit \/ LastDigit \/ ShowSum
-----------------------------------------------------------------------------
Denoted(bn) == Number(10, bn)

\* Lines 38-60: after k digits the result and the carry are the sum of the
\* first k digits of both, as long as both have digits.
SumSoFar ==
  addPc = "add" /\ i <= Shorter =>
    Denoted(SubSeq(new, 1, i)) + tenth * Power(10, i) =
      Denoted(SubSeq(num1, 1, i)) + Denoted(SubSeq(num2, 1, i))

CarryLeaves ==
  Denoted(SubSeq(num1, 1, Shorter)) + Denoted(SubSeq(num2, 1, Shorter)) >= Power(10, Shorter)

\* A carry comes out of the last digit of the shorter number while the longer
\* one has more.
CarryPasses == Len(num1) # Len(num2) /\ CarryLeaves

\* add.c:35, "Add num1+num2, store result in sum": the number that is shown is
\* the sum of the two that were given.
SumShown ==
  addPc = "shown" => Denoted(Reverse(ShowBigNum(sum))) = Denoted(num1) + Denoted(num2)

\* Lines 42-67: as long as no carry has to go on into digits that only the
\* longer number has, what is shown is the sum, without leading zeros; the last
\* carry of two numbers of one length makes a digit more.
SumUnlessCarryPasses ==
  addPc = "shown" /\ ~CarryPasses =>
    LET said == ShowBigNum(sum)
    IN /\ Denoted(Reverse(said)) = Denoted(num1) + Denoted(num2)
       /\ Len(said) > 1 => said[1] # 0
=============================================================================
