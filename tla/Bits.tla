-------------------------------- MODULE Bits --------------------------------
(***************************************************************************)
(* labs/week02/bits.c prints the range of every integer type, and          *)
(* labs/week03/maf.c makes a float of three strings of bits and shows its  *)
(* bits again.  A character is 0, 1 or something else.                     *)
(***************************************************************************)
EXTENDS Numerals, SequencesExt

CONSTANTS
  ByteBits,           \* bits in a byte: 8
  ExpBits, FracBits,  \* widths of the fields exp and frac: 8 and 23
  MafArgs             \* the argument lists maf may be called with

ASSUME BitsAssumption ==
  /\ ByteBits \in Nat \ {0} /\ ExpBits \in Nat \ {0} /\ FracBits \in Nat \ {0}
  /\ MafArgs \subseteq Seq(Seq(Int))

VARIABLES
  bitsPc,   \* "range", "done", or "off"
  ranges,   \* the ranges printed so far
  mafPc,    \* "check", "show", how maf ended, or "off"
  args,
  u,        \* the fields sign, exp and frac
  shownBits \* what showBits made of them

bitsVars == <<bitsPc, ranges>>
mafVars == <<mafPc, args, u, shownBits>>

-----------------------------------------------------------------------------
\* The types in the order of main, with their size in bytes.
Type(name, bytes, signed) == [name |-> name, bytes |-> bytes, signed |-> signed]
Types == <<
  Type("char", 1, TRUE),      Type("unsigned char", 1, FALSE),
  Type("short", 2, TRUE),     Type("unsigned short", 2, FALSE),
  Type("int", 4, TRUE),       Type("unsigned int", 4, FALSE),
  Type("long", 8, TRUE),      Type("unsigned long", 8, FALSE),
  Type("long long", 8, TRUE), Type("unsigned long long", 8, FALSE)>>

Width(t) == ByteBits * t.bytes

\* Assignment of v to a variable of type t.
Converted(t, v) ==
  LET size == Power(2, Width(t))
      n == v % size
  IN IF t.signed /\ n >= Power(2, Width(t) - 1) THEN n - size ELSE n

Complement(v) == -v - 1

\* Mutant: one bit is shifted too far.
SmallestShifted(t) == Converted(t, IF t.signed THEN Power(2, Width(t)) ELSE 0)

\* 1 << (b - 1), and 0 << (b - 1) for the unsigned types.
Smallest(t) == Converted(t, IF t.signed THEN Power(2, Width(t) - 1) ELSE 0)

\* The int overflows, and wraps; for the others all bits are inverted.
Largest(t) ==
  Converted(t, IF t.name \in {"int", "unsigned int"} THEN Smallest(t) - 1
               ELSE Complement(Smallest(t)))

BitsInit == bitsPc = "range" /\ ranges = <<>>

PrintRange ==
  /\ bitsPc = "range"
  /\ LET t == Types[Len(ranges) + 1]
     IN ranges' = Append(ranges, [type |-> t, min |-> Smallest(t), max |-> Largest(t)])
  /\ bitsPc' = IF Len(ranges') = Len(Types) THEN "done" ELSE "range"

-----------------------------------------------------------------------------
\* Mutant: a shorter string will do.
FewerBits(str, len) == Len(str) \in 1 .. len /\ \A k \in DOMAIN str : str[k] \in {0, 1}

JustBits(str, len) == Len(str) = len /\ \A k \in DOMAIN str : str[k] \in {0, 1}

\* checkArgs: the third string is looked at when there are two as well.
CheckArgs ==
  IF Len(args) < 2 THEN "usage"
  ELSE IF ~JustBits(args[1], 1) THEN "invalid Sign"
  ELSE IF ~JustBits(args[2], ExpBits) THEN "invalid Exp"
  ELSE IF Len(args) < 3 THEN "crashed"
  ELSE IF ~JustBits(args[3], FracBits) THEN "invalid Frac"
  ELSE "show"

Strtol(str) == Number(2, Reverse(str))

GetBits(sign, exp, frac) ==
  [sign |-> IF sign[1] = 1 THEN 1 ELSE 0,
   exp  |-> Strtol(exp) % Power(2, ExpBits),
   frac |-> Strtol(frac) % Power(2, FracBits)]

\* A mask runs from the highest bit down.
Masked(field, bits) == [k \in 1 .. bits |-> (field \div Power(2, bits - k)) % 2]
ShowBits(f) == <<<<f.sign>>, Masked(f.exp, ExpBits), Masked(f.frac, FracBits)>>

MafInit ==
  /\ mafPc = "check" /\ args \in MafArgs
  /\ u = [sign |-> 0, exp |-> 0, frac |-> 0] /\ shownBits = <<>>

Check ==
  /\ mafPc = "check"
  /\ mafPc' = CheckArgs
  /\ u' = IF CheckArgs = "show" THEN GetBits(args[1], args[2], args[3]) ELSE u
  /\ UNCHANGED <<args, shownBits>>

ShowFloat ==
  /\ mafPc = "show" /\ mafPc' = "shown"
  /\ shownBits' = ShowBits(u)
  /\ UNCHANGED <<args, u>>
-----------------------------------------------------------------------------
\* bits.c: each range printed is that of its type, 2^b consecutive numbers, as
\* many of them negative as not if it is signed, and none otherwise.
RangesRight ==
  \A k \in DOMAIN ranges :
    LET r == ranges[k] IN
    /\ r.max - r.min = Power(2, Width(r.type)) - 1
    /\ r.min = IF r.type.signed THEN -(r.max + 1) ELSE 0

\* maf.c: the bits shown are those that were given, and whatever is not three
\* strings of bits of the right lengths is refused, or crashes maf if it is
\* two good strings.
BitsShown ==
  LET good(k, len) == k \in DOMAIN args /\ Len(args[k]) = len /\ ToSet(args[k]) \subseteq {0, 1}
      all == good(1, 1) /\ good(2, ExpBits) /\ good(3, FracBits)
  IN /\ mafPc = "shown" => all /\ shownBits = SubSeq(args, 1, 3)
     /\ mafPc = "crashed" <=>
          mafPc \notin {"check", "off"} /\ Len(args) = 2 /\ good(1, 1) /\ good(2, ExpBits)
=============================================================================
