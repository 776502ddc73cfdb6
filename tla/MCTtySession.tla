---------------------------- MODULE MCTtySession ----------------------------
(***************************************************************************)
(* Values of the constants of TtySession for TLC.                          *)
(***************************************************************************)
EXTENDS TtySession, TLC

CONSTANTS g1, i1, i2

IdSymmetry == Permutations(Ids)
=============================================================================
