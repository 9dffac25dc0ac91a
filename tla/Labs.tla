-------------------------------- MODULE Labs --------------------------------
(***************************************************************************)
(* The small programs: add, bits, maf and myls of the labs, and the        *)
(* bounding box of an exam.  One of them runs, from its start to its end;  *)
(* the others are off.                                                     *)
(***************************************************************************)
EXTENDS BigNum, Bits, Listing, BoundBox

AddOff ==
  /\ addPc = "off" /\ argv = <<>> /\ num1 = <<>> /\ num2 = <<>> /\ sum = <<>>
  /\ new = <<>> /\ i = 0 /\ tenth = 0
BitsOff == bitsPc = "off" /\ ranges = <<>>
MafOff == mafPc = "off" /\ args = <<>> /\ u = <<>> /\ shownBits = <<>>
ListOff ==
  /\ lsPc = "off" /\ entries = <<>> /\ next = 0 /\ infom = Garbage
  /\ removed = {} /\ listed = <<>>
BoxOff ==
  /\ boxPc = "off" /\ file = <<>> /\ pos = 0 /\ p = <<>> /\ low = <<>> /\ high = <<>>
  /\ box = <<>>

LabsInit ==
  \/ AddInit /\ BitsOff /\ MafOff /\ ListOff /\ BoxOff
  \/ AddOff /\ BitsInit /\ MafOff /\ ListOff /\ BoxOff
  \/ AddOff /\ BitsOff /\ MafInit /\ ListOff /\ BoxOff
  \/ AddOff /\ BitsOff /\ MafOff /\ ListInit /\ BoxOff
  \/ AddOff /\ BitsOff /\ MafOff /\ ListOff /\ BoxInit

LabsNext ==
  \/ AddNext /\ UNCHANGED <<bitsVars, mafVars, lsVars, boxVars>>
  \/ PrintRange /\ UNCHANGED <<addVars, mafVars, lsVars, boxVars>>
  \/ (Check \/ ShowFloat) /\ UNCHANGED <<addVars, bitsVars, lsVars, boxVars>>
  \/ ListNext /\ UNCHANGED <<addVars, bitsVars, mafVars, boxVars>>
  \/ BoxNext /\ UNCHANGED <<addVars, bitsVars, mafVars, lsVars>>

labsVars == <<addVars, bitsVars, mafVars, lsVars, boxVars>>
LabsSpec == LabsInit /\ [][LabsNext]_labsVars
=============================================================================
