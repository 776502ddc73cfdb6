---------------------------- MODULE MCJobNotify ----------------------------
(***************************************************************************)
(* Values of the constants of JobNotify for TLC.                           *)
(***************************************************************************)
EXTENDS JobNotify

CONSTANTS t1, d1, d2

=============================================================================
