----------------------------- MODULE MCJobxTask -----------------------------
(***************************************************************************)
(* Values of the constants of JobxTask for TLC.                            *)
(***************************************************************************)
EXTENDS JobxTask

CONSTANTS u1, u2

AllHavePrev == [u \in Uuids |-> TRUE]
NoneHasPrev == [u \in Uuids |-> FALSE]
AllTasks    == Tasks
NoTasks     == {}
Deploys     == Uuids \X {"deploy"}
Rollbacks   == Uuids \X {"rollback"}
FirstBatch  == Deploys \X {1}
NoBatches   == {}
=============================================================================
