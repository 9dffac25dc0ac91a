------------------------------ MODULE Numerals ------------------------------
(***************************************************************************)
(* Numbers to a base and their digits, lowest first.                       *)
(***************************************************************************)
EXTENDS Integers, Sequences

Power(b, n) ==
  LET power[k \in 0 .. n] == IF k = 0 THEN 1 ELSE b * power[k - 1] IN power[n]

\* The number that digits denote.
Number(b, digits) ==
  LET number[k \in 0 .. Len(digits)] ==
        IF k = 0 THEN 0 ELSE number[k - 1] + digits[k] * Power(b, k - 1)
  IN number[Len(digits)]
=============================================================================
