------------------------------ MODULE BoundBox ------------------------------
(***************************************************************************)
(* sample_exam/17S2/q2/q2.c: the bounding box of the points in a file.  A  *)
(* point is read into p with one read(2) of PointSize bytes, the first of  *)
(* which are its coordinates; at the end of the file there may be fewer.   *)
(***************************************************************************)
EXTENDS Naturals, Sequences, SequencesExt

CONSTANTS
  PointSize,  \* sizeof(Point): 5
  MaxByte,    \* 255
  Files       \* the bytes a file may hold

ASSUME BoundBoxAssumption ==
  PointSize \in Nat \ {0, 1} /\ MaxByte \in Nat /\ Files \subseteq Seq(0 .. MaxByte)

VARIABLES
  boxPc,      \* "open", "read", "done", "error", or "off"
  file, pos,  \* the bytes of the file, and how many have been read
  p,          \* the coordinates of the point: bytes 1 and 2 of Point
  low, high,  \* minX and minY, maxX and maxY
  box         \* what was printed: TL and BR, each an x and a y

boxVars == <<boxPc, file, pos, p, low, high, box>>

Byte == 0 .. MaxByte

\* p holds what the stack held before.
BoxInit ==
  /\ boxPc = "open" /\ file \in Files /\ pos = 0 /\ p \in Byte \X Byte
  /\ low = <<MaxByte, MaxByte>> /\ high = <<0, 0>> /\ box = <<>>

Open ==
  /\ boxPc = "open" /\ boxPc' \in {"read", "error"}
  /\ UNCHANGED <<file, pos, p, low, high, box>>

\* Mutant: a coordinate that is a new maximum is not looked at as a minimum.
WidenedElse ==
  /\ high' = [c \in {1, 2} |-> Max({high[c], p'[c]})]
  /\ low' = [c \in {1, 2} |-> IF p'[c] > high[c] THEN low[c] ELSE Min({low[c], p'[c]})]

Widened ==
  /\ high' = [c \in {1, 2} |-> Max({high[c], p'[c]})]
  /\ low' = [c \in {1, 2} |-> Min({low[c], p'[c]})]

\* read overwrites as much of p as there is left, and any of it will do.
ReadPoint ==
  /\ boxPc = "read" /\ pos < Len(file)
  /\ p' = [c \in {1, 2} |-> IF pos + c <= Len(file) THEN file[pos + c] ELSE p[c]]
  /\ Widened
  /\ pos' = Min({pos + PointSize, Len(file)})
  /\ UNCHANGED <<boxPc, file, box>>

EndOfPoints ==
  /\ boxPc = "read" /\ pos = Len(file)
  /\ boxPc' = "done"
  /\ box' = <<<<low[1], high[2]>>, <<high[1], low[2]>>>>
  /\ UNCHANGED <<file, pos, p, low, high>>

BoxNext == Open \/ ReadPoint \/ EndOfPoints
-----------------------------------------------------------------------------
\* The coordinates in the file, those of an incomplete last point included.
Coords(c) == {file[k] : k \in {k \in DOMAIN file : k % PointSize = c % PointSize}}

\* Lines 71-81: the box is that of the coordinates in the file, as far as
\* they go: an incomplete last point counts with what there is of it.  A box
\* of no points is inside out, and the first byte of a first point alone
\* leaves the rest of the box to what the stack held.
BoxRight ==
  boxPc = "done" =>
    LET tl == box[1]  br == box[2] IN
    /\ tl[1] = Min(Coords(1) \cup {MaxByte}) /\ br[1] = Max(Coords(1) \cup {0})
    /\ IF Len(file) = 1 THEN tl[2] = br[2]
       ELSE tl[2] = Max(Coords(2) \cup {0}) /\ br[2] = Min(Coords(2) \cup {MaxByte})
=============================================================================
