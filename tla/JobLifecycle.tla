---------------------------- MODULE JobLifecycle ----------------------------
(***************************************************************************)
(* What the JOB service promises of its tasks to whoever only reads the    *)
(* row: the pages, the /task API and the JOBX engine, which starts a task  *)
(* for every batch and polls its status (JOBX/code/subtaskv2).             *)
(*                                                                         *)
(* A task is taken by one worker once.  The worker alone moves it between  *)
(* running and waiting and gives it a result, with which it leaves.  Only  *)
(* when the worker is gone the service itself fails the task - also one    *)
(* that has a result by then.                                              *)
(***************************************************************************)
CONSTANT Tasks

VARIABLES
  phase,       \* the status in the row
  hand         \* the worker of the task: none yet, live or gone

vars == <<phase, hand>>

Ended == {"success", "fail", "refuse"}

Init ==
  /\ phase = [t \in Tasks |-> "init"]
  /\ hand  = [t \in Tasks |-> "none"]

\* A worker claims the row.
Take(t) ==
  /\ phase[t] = "init" /\ hand[t] = "none"
  /\ phase' = [phase EXCEPT ![t] = "running"]
  /\ hand'  = [hand EXCEPT ![t] = "live"]

\* The worker asks for a decision or reaches a pause.
Ask(t) ==
  /\ hand[t] = "live" /\ phase[t] = "running"
  /\ phase' = [phase EXCEPT ![t] = "waiting"]
  /\ UNCHANGED hand

GoOn(t) ==
  /\ hand[t] = "live" /\ phase[t] = "waiting"
  /\ phase' = [phase EXCEPT ![t] = "running"]
  /\ UNCHANGED hand

\* The worker writes its result and is gone.
Finish(t) ==
  /\ hand[t] = "live" /\ phase[t] \in {"running", "waiting"}
  /\ \E r \in Ended : phase' = [phase EXCEPT ![t] = r]
  /\ hand' = [hand EXCEPT ![t] = "gone"]

\* The worker dies or is killed.
Vanish(t) ==
  /\ hand[t] = "live"
  /\ hand' = [hand EXCEPT ![t] = "gone"]
  /\ UNCHANGED phase

\* The service fails a task without a worker.
Bury(t) ==
  /\ hand[t] = "gone"
  /\ phase' = [phase EXCEPT ![t] = "fail"]
  /\ UNCHANGED hand

Next == \E t \in Tasks : Take(t) \/ Ask(t) \/ GoOn(t) \/ Finish(t)
                         \/ Vanish(t) \/ Bury(t)

Spec == Init /\ [][Next]_vars
=============================================================================
