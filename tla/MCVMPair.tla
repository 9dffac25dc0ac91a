------------------------------ MODULE MCVMPair ------------------------------
(***************************************************************************)
(* A small instance of VMPair for TLC.                                     *)
(***************************************************************************)
EXTENDS VMPair

\* Pages of two bytes: one address in each of four pages, a second one in
\* the first page, and one past the end.
MCAddrs == {0, 1, 2, 5, 6, 8}
=============================================================================
