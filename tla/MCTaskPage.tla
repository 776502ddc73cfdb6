----------------------------- MODULE MCTaskPage -----------------------------
(***************************************************************************)
(* TaskPage for TLC, with the values of the constants in the configuration.*)
(***************************************************************************)
EXTENDS TaskPage
=============================================================================
