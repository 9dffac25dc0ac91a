-------------------------------- MODULE MCVM --------------------------------
(***************************************************************************)
(* A small instance of VM for TLC.                                         *)
(***************************************************************************)
EXTENDS VM

\* Pages of five bytes: the first and the fourth byte of each of three, and
\* the byte past the end.  With two frames and an int of four bits, the fourth
\* byte of the second frame is where physical addresses turn negative.
MCWrapAddrs == {0, 3, 5, 8, 10, 13, 15}
=============================================================================
