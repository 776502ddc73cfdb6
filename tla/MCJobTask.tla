----------------------------- MODULE MCJobTask -----------------------------
(***************************************************************************)
(* Values of the constants of JobTask for TLC.                             *)
(***************************************************************************)
EXTENDS JobTask, TLC

CONSTANTS t1, t2, t3, p1, p2, p3, n1, n2, j1, m1

AllInJob    == [t \in Tasks |-> TRUE]
LastLone    == [t \in Tasks |-> t # t3]
SameJob     == [t \in Tasks |-> j1]
NoMutexes   == [t \in Tasks |-> NoMutex]
SameMutex   == [t \in Tasks |-> m1]

CmdOnly     == [t \in Tasks |-> [k \in Steps |-> "cmd"]]
CmdAndScp   == [t \in Tasks |-> [k \in Steps |->
                 IF t = t2 THEN "scp" ELSE "cmd"]]
Pipeline    == [t \in Tasks |-> [k \in Steps |->
                 IF k = 1 THEN "approval" ELSE IF k = 2 THEN "cmd" ELSE "backup"]]
PrintsNone  == [t \in Tasks |-> {}]
PrintsCmd   == [t \in Tasks |-> {2}]
PrintsLone  == [t \in Tasks |-> IF t = t3 THEN {1} ELSE {}]
NoPause     == [k \in Steps |-> FALSE]
FirstPauses == [k \in Steps |-> k = 1]
AllPause    == [k \in Steps |-> TRUE]

PidSymmetry     == Permutations(Pids)
TaskPidSymmetry == Permutations(Tasks) \cup Permutations(Pids)
PidNodeSymmetry == Permutations(Pids) \cup Permutations(Nodes)
=============================================================================
