------------------------------ MODULE JobxTask ------------------------------
(***************************************************************************)
(* The JOBX task engine of open-c3: a release to a group of machines.      *)
(*                                                                         *)
(* A JOBX task is a row of openc3_jobx_task.  Its worker (JOBX/code/task)  *)
(* splits the machines into batches, one row of openc3_jobx_subtask each,  *)
(* and works on them one after the other: it has a JOB task made with the  *)
(* uuid of the batch and reads its row until it has a result               *)
(* (JOBX/code/subtaskv2, or JOBX/code/subtaskv1, which goes through the    *)
(* API).  After a failed batch it waits until a user has confirmed.  A     *)
(* deployment may be followed by one rollback, a task whose uuid differs   *)
(* in the case of its last letter (JOBX/lib/uuid.pm).  The column          *)
(* parent_uuid of a batch is compared without regard to case: statements   *)
(* that go by it reach the batches of both.                                *)
(*                                                                         *)
(* The JOB service is whatever JobLifecycle allows; JobTask shows that the *)
(* JOB engine allows no more.                                              *)
(*                                                                         *)
(* An operator named Bad... is a slip somebody could make in the           *)
(* definition that follows it; no action refers to it.                     *)
(***************************************************************************)
EXTENDS Integers, SequencesExt

CONSTANTS
  Uuids,        \* the deployments, by the uuid without the case of its end
  NumBatches,   \* batches the group of a deployment is split into
  NoTask        \* a daemon that handles no task

CONSTANTS
  HasPrev,      \* [Uuids -> BOOLEAN]: the variable names a _rollbackVersion_
  PrevOnline,   \* rollbacks restore the version that is online at first
  Online,       \* _jobtype_ is online: the version is recorded when it is out
  RollbackMode, \* column rollback_mode of openc3_ci_project
  ExitOnFail,   \* tasks whose variable _exit_ is set
  Api           \* batches run through the API (subtaskv1), not subtaskv2

CONSTANTS
  Refuses,      \* a JOB task may be refused
  Patient,      \* users roll back only once the deployment has a result
  Meddled,      \* bound: tasks users stop
  Hasty,        \* bound: batches users confirm unasked
  MaxPosts,     \* bound: requests the worker sends to have one JOB task made
  LongTasks     \* bound: tasks that may get older than seven days

Roles   == {"deploy", "rollback"}
Tasks   == Uuids \X Roles
Indices == 1..NumBatches
Batches == Tasks \X Indices
Posts   == 1..MaxPosts
Modes   == {"PartialForwardRollback", "PartialReverseRollback",
            "FullForwardRollback", "FullReverseRollback"}

ASSUME ConstantsAssumption ==
  /\ NumBatches \in Nat \ {0}
  /\ NoTask \notin Tasks
  /\ HasPrev \in [Uuids -> BOOLEAN]
  /\ PrevOnline \in BOOLEAN
  /\ Online \in BOOLEAN
  /\ RollbackMode \in Modes
  /\ ExitOnFail \subseteq Tasks
  /\ Api \in BOOLEAN
  /\ Refuses \in BOOLEAN
  /\ Patient \in BOOLEAN
  /\ Meddled \subseteq Tasks
  /\ Hasty \subseteq Batches
  /\ MaxPosts \in Nat \ {0}
  /\ LongTasks \subseteq Tasks

VARIABLES
  status,      \* openc3_jobx_task.status; "none": there is no row
  aged,        \* starttimems of the deployment is more than seven days back
  bstat,       \* openc3_jobx_subtask.status of each batch
  confirm,     \* openc3_jobx_subtask.confirm
  online       \* the task in openc3_jobx_flowline_version; NoTask: an older one

VARIABLES
  pc,          \* where the worker of a task is; "none": nobody has claimed it
  plan,        \* @group: the machines of each batch, by their batch in deploy
  idx,         \* the batch at work
  got,         \* $d->{status}, the result of the JOB task
  verdict      \* $status of JOBX/code/task

VARIABLES
  req,         \* requests to have a JOB task made, by batch and attempt
  made,        \* batches with a row in openc3_job_task
  jphase,      \* status of that row
  jhand        \* worker of that row

VARIABLES
  buryList,    \* rows the bury daemon has read and not handled yet
  burying,     \* the row whose worker bury found dead
  stopper      \* state of a DELETE /task/:projectid/:uuid request

rowVars  == <<status, aged, bstat, confirm, online>>
procVars == <<pc, plan, idx, got, verdict>>
jobVars  == <<made, jphase, jhand>>
buryVars == <<buryList, burying>>
vars     == <<rowVars, procVars, req, jobVars, buryVars, stopper>>

Job == INSTANCE JobLifecycle
         WITH Tasks <- Batches, phase <- jphase, hand <- jhand

Ended      == {"success", "fail", "refuse"}
BatchEnded == Ended \cup {"cancel"}

\* A worker that prepares its batches; one that works on a batch, where an
\* error is a failure of the task; one that has its verdict.
Preparing == {"load", "check", "plan", "rows"}
InBatch   == {"take", "post", "poll", "result", "confirm"}
Alive     == Preparing \cup InBatch \cup {"final", "version"}

Deploy(t) == <<t[1], "deploy">>
-----------------------------------------------------------------------------
Init ==
  /\ status   = [t \in Tasks |-> IF t[2] = "deploy" THEN "init" ELSE "none"]
  /\ aged     = [t \in Tasks |-> FALSE]
  /\ bstat    = [t \in Tasks |-> [i \in Indices |-> "none"]]
  /\ confirm  = [t \in Tasks |-> [i \in Indices |-> "null"]]
  /\ online   = NoTask
  /\ pc       = [t \in Tasks |-> "none"]
  /\ plan     = [t \in Tasks |-> <<>>]
  /\ idx      = [t \in Tasks |-> 1]
  /\ got      = [t \in Tasks |-> "none"]
  /\ verdict  = [t \in Tasks |-> "success"]
  /\ req      = [b \in Batches |-> [n \in Posts |-> "idle"]]
  /\ made     = {}
  /\ Job!Init
  /\ buryList = {}
  /\ burying  = NoTask
  /\ stopper  = [t \in Tasks |-> "idle"]
-----------------------------------------------------------------------------
(***************************************************************************)
(* Helpers.                                                                *)
(***************************************************************************)
Goto(t, l) == pc' = [pc EXCEPT ![t] = l]

SetBatch(t, i, s) == bstat' = [bstat EXCEPT ![t][i] = s]

\* The tasks and the running batches a condition on parent_uuid finds for t.
Alike(t) == {t[1]} \X Roles
Running(t) == {b \in Alike(t) \X Indices : bstat[b[1]][b[2]] = "running"}

\* After these results of a batch no other one is begun.
Stops(s) == s \in {"cancel", "refuse"}

\* The code of a batch gives its result s to the loop in JOBX/code/task.
BadReturn(t, s) ==
  /\ verdict' = [verdict EXCEPT ![t] =
       IF s \in {"fail", "cancel"} THEN "fail"
       ELSE IF s = "refuse" THEN "refuse" ELSE @]
  /\ Goto(t, IF Stops(s) \/ idx[t] > Len(plan[t]) THEN "final" ELSE "take")
  /\ idx' = [idx EXCEPT ![t] = @ + 1]

Return(t, s) ==
  LET last == Stops(s) \/ idx[t] = Len(plan[t]) IN
  /\ verdict' = [verdict EXCEPT ![t] =
       IF s \in {"fail", "cancel"} THEN "fail"
       ELSE IF s = "refuse" THEN "refuse" ELSE @]
  /\ Goto(t, IF last THEN "final" ELSE "take")
  /\ idx' = [idx EXCEPT ![t] = IF last THEN @ ELSE @ + 1]
-----------------------------------------------------------------------------
(***************************************************************************)
(* The worker before its batches.                                          *)
(***************************************************************************)

\* The call daemon forks processes for a waiting row until one of them claims
\* it; the others leave nothing but a reason (see JobTask).
Claim(t) ==
  /\ status[t] = "init" /\ pc[t] = "none"
  /\ status' = [status EXCEPT ![t] = "running"]
  /\ Goto(t, "load")
  /\ UNCHANGED <<aged, bstat, confirm, online, plan, idx, got, verdict, req,
                 jobVars, buryVars, stopper>>

\* A deployment that cannot be rolled back gets a rollback that is done.
Load(t) ==
  /\ pc[t] = "load"
  /\ \/ /\ t[2] = "deploy" /\ ~HasPrev[t[1]]
        /\ status' = [status EXCEPT ![<<t[1], "rollback">>] = "success"]
        /\ Goto(t, "plan")
     \/ /\ t[2] = "deploy" /\ HasPrev[t[1]]
        /\ Goto(t, "plan")
        /\ UNCHANGED status
     \/ /\ t[2] = "rollback"
        /\ Goto(t, "check")
        /\ UNCHANGED status
  /\ UNCHANGED <<aged, bstat, confirm, online, plan, idx, got, verdict, req,
                 jobVars, buryVars, stopper>>

\* A refused deployment is not rolled back: the worker dies otherwise.
BadCheckRefused(t) ==
  /\ pc[t] = "check"
  /\ Goto(t, "plan")
  /\ UNCHANGED <<rowVars, plan, idx, got, verdict, req, jobVars, buryVars,
                 stopper>>

CheckRefused(t) ==
  /\ pc[t] = "check"
  /\ Goto(t, IF status[Deploy(t)] = "refuse" THEN "dead" ELSE "plan")
  /\ UNCHANGED <<rowVars, plan, idx, got, verdict, req, jobVars, buryVars,
                 stopper>>

\* The rows of the deployment a rollback works on: all of them, or, if the
\* version to restore is still the one online and the mode is a partial one,
\* those something was done for.
BadWorkedOn(u) ==
  {i \in Indices : bstat[<<u, "deploy">>][i] \notin {"none", "init", "running"}}

WorkedOn(u) ==
  LET d == <<u, "deploy">>
      partial == /\ RollbackMode \in {"PartialForwardRollback",
                                      "PartialReverseRollback"}
                 /\ Online /\ PrevOnline
                 /\ online = NoTask \/ online[2] = "rollback"
  IN {i \in Indices : /\ bstat[d][i] # "none"
                      /\ partial => bstat[d][i] \notin {"init", "cancel"}}

\* The members of S in their order, or in the reverse one.
InOrder(S, reverse) ==
  {s \in Bijection(1..Cardinality(S), S) : \A j, k \in DOMAIN s :
     j < k => IF reverse THEN s[j] > s[k] ELSE s[j] < s[k]}

\* The version online and the rows are read by two statements.  They are one
\* step: a deployment that has its result changes its rows no more, but for
\* batches that are cancelled, which count like those that wait (Patient).
Plan(t) ==
  /\ pc[t] = "plan"
  /\ \E s \in IF t[2] = "deploy" THEN InOrder(Indices, FALSE)
             ELSE InOrder(WorkedOn(t[1]),
                          RollbackMode \in {"PartialReverseRollback",
                                            "FullReverseRollback"}) :
       plan' = [plan EXCEPT ![t] = s]
  /\ Goto(t, "rows")
  /\ UNCHANGED <<rowVars, idx, got, verdict, req, jobVars, buryVars, stopper>>

\* One insert per batch; the worker goes on when all are there.
InsertRow(t) ==
  /\ pc[t] = "rows"
  /\ \/ \E i \in 1..Len(plan[t]) :
          /\ \A j \in 1..Len(plan[t]) : bstat[t][j] = "none" <=> j >= i
          /\ SetBatch(t, i, "init")
          /\ UNCHANGED pc
     \/ /\ \A j \in 1..Len(plan[t]) : bstat[t][j] # "none"
        /\ Goto(t, IF plan[t] = <<>> THEN "final" ELSE "take")
        /\ UNCHANGED bstat
  /\ UNCHANGED <<status, aged, confirm, online, plan, idx, got, verdict, req,
                 jobVars, buryVars, stopper>>

\* $logs->die outside the eval: the row stays "running".
Die(t) ==
  /\ pc[t] \in Preparing
  /\ Goto(t, "dead")
  /\ UNCHANGED <<rowVars, plan, idx, got, verdict, req, jobVars, buryVars,
                 stopper>>
-----------------------------------------------------------------------------
(***************************************************************************)
(* One batch: subtaskv2, or subtaskv1 if Api.                              *)
(***************************************************************************)

\* update ... set status='running' where uuid='$uuid' and status='init', and a
\* read: a batch that was cancelled is over.
Take(t) ==
  /\ pc[t] = "take"
  /\ \/ /\ bstat[t][idx[t]] = "init"
        /\ SetBatch(t, idx[t], "running")
        /\ Goto(t, "post")
        /\ UNCHANGED <<idx, verdict>>
     \/ /\ bstat[t][idx[t]] \in BatchEnded
        /\ Return(t, bstat[t][idx[t]])
        /\ UNCHANGED bstat
  /\ UNCHANGED <<status, aged, confirm, online, plan, got, req, jobVars,
                 buryVars, stopper>>

\* The worker asks for a JOB task with the uuid of the batch: it runs the
\* command c3mc-job-task-run, once, or posts to /task/:projectid/job/byname and
\* posts again when there is no answer.
Send(t) ==
  LET b == <<t, idx[t]>> IN
  /\ pc[t] = "post"
  /\ \E n \in Posts :
       /\ \A m \in Posts : req[b][m] = "idle" <=> m >= n
       /\ n = 1 \/ Api
       /\ req' = [req EXCEPT ![b][n] = IF Api THEN "select" ELSE "insert"]
  /\ UNCHANGED <<rowVars, procVars, jobVars, buryVars, stopper>>

\* A request is handled: the API first looks whether the JOB task is there,
\* then both insert it, which fails if it is there or for a reason of its own;
\* it may be answered as an error although the row is written.  Neither knows
\* whether the worker still waits.
Make(b, n) ==
  /\ \/ /\ req[b][n] = "select"
        /\ req' = [req EXCEPT ![b][n] = IF b \in made THEN "ok" ELSE "insert"]
        /\ UNCHANGED made
     \/ /\ req[b][n] = "insert" /\ b \notin made
        /\ \E a \in {"ok", "no"} : req' = [req EXCEPT ![b][n] = a]
        /\ made' = made \cup {b}
     \/ /\ req[b][n] \in {"select", "insert"}
        /\ req' = [req EXCEPT ![b][n] = "no"]
        /\ UNCHANGED made
  /\ UNCHANGED <<rowVars, procVars, jphase, jhand, buryVars, stopper>>

\* The answer to the request sent last.
Answer(b) ==
  LET sent == {n \in Posts : req[b][n] # "idle"}
  IN IF sent = {} THEN "none" ELSE req[b][Max(sent)]

\* No JOB task: an error of the command ends the task, that of the API only
\* the batch, which nobody has to confirm.
Sent(t) ==
  LET b == <<t, idx[t]>> IN
  /\ pc[t] = "post"
  /\ \/ /\ Answer(b) = "ok"
        /\ Goto(t, "poll")
        /\ UNCHANGED <<bstat, confirm, idx, verdict>>
     \/ /\ Answer(b) = "no" /\ Api
        /\ SetBatch(t, idx[t], "fail")
        /\ confirm' = [confirm EXCEPT ![t][idx[t]] = "null"]
        /\ Return(t, "fail")
     \/ /\ Answer(b) = "no" /\ ~Api
        /\ verdict' = [verdict EXCEPT ![t] = "fail"]
        /\ Goto(t, "final")
        /\ UNCHANGED <<bstat, confirm, idx>>
  /\ UNCHANGED <<status, aged, online, plan, got, req, jobVars, buryVars,
                 stopper>>

\* The row of the JOB task is read every five seconds until it has a result.
BadPoll(t) ==
  LET b == <<t, idx[t]>> IN
  /\ pc[t] = "poll"
  /\ jphase[b] # "init"
  /\ got' = [got EXCEPT ![t] = IF jphase[b] \in Ended THEN jphase[b] ELSE "fail"]
  /\ Goto(t, "result")
  /\ UNCHANGED <<rowVars, plan, idx, verdict, req, jobVars, buryVars, stopper>>

Poll(t) ==
  LET b == <<t, idx[t]>> IN
  /\ pc[t] = "poll"
  /\ jphase[b] \in Ended
  /\ got' = [got EXCEPT ![t] = jphase[b]]
  /\ Goto(t, "result")
  /\ UNCHANGED <<rowVars, plan, idx, verdict, req, jobVars, buryVars, stopper>>

\* The result is written; a failed batch has to be confirmed, unless _exit_ is
\* set, which ends the task.
BadResult(t) ==
  /\ pc[t] = "result"
  /\ SetBatch(t, idx[t], got[t])
  /\ confirm' = [confirm EXCEPT ![t][idx[t]] =
                   IF got[t] = "fail" THEN "wait" ELSE "null"]
  /\ Return(t, got[t])
  /\ got' = [got EXCEPT ![t] = "none"]
  /\ UNCHANGED <<status, aged, online, plan, req, jobVars, buryVars, stopper>>

Result(t) ==
  /\ pc[t] = "result"
  /\ SetBatch(t, idx[t], got[t])
  /\ confirm' = [confirm EXCEPT ![t][idx[t]] =
                   IF got[t] = "fail" THEN "wait" ELSE "null"]
  /\ \/ /\ got[t] = "fail" /\ t \in ExitOnFail
        /\ verdict' = [verdict EXCEPT ![t] = "fail"]
        /\ Goto(t, "final")
        /\ UNCHANGED idx
     \/ /\ got[t] = "fail" /\ t \notin ExitOnFail
        /\ Goto(t, "confirm")
        /\ UNCHANGED <<idx, verdict>>
     \/ /\ got[t] # "fail"
        /\ Return(t, got[t])
  /\ got' = [got EXCEPT ![t] = "none"]
  /\ UNCHANGED <<status, aged, online, plan, req, jobVars, buryVars, stopper>>

Confirmed(t) ==
  /\ pc[t] = "confirm"
  /\ confirm[t][idx[t]] # "wait"
  /\ Return(t, "fail")
  /\ UNCHANGED <<rowVars, plan, got, req, jobVars, buryVars, stopper>>

\* An SQL error or a $logs->die inside the eval of JOBX/code/task.  The loop
\* that reads the row of the JOB task has none.
BatchDie(t) ==
  /\ \/ pc[t] \in {"take", "result", "confirm"}
     \/ pc[t] = "post" /\ Answer(<<t, idx[t]>>) = "none"
  /\ verdict' = [verdict EXCEPT ![t] = "fail"]
  /\ got' = [got EXCEPT ![t] = "none"]
  /\ Goto(t, "final")
  /\ UNCHANGED <<rowVars, plan, idx, req, jobVars, buryVars, stopper>>
-----------------------------------------------------------------------------
(***************************************************************************)
(* The end of a worker.                                                    *)
(***************************************************************************)
BadFinal(t) ==
  /\ pc[t] = "final"
  /\ status' = [status EXCEPT ![t] = verdict[t]]
  /\ Goto(t, IF Online THEN "version" ELSE "dead")
  /\ UNCHANGED <<aged, bstat, confirm, online, plan, idx, got, verdict, req,
                 jobVars, buryVars, stopper>>

Final(t) ==
  /\ pc[t] = "final"
  /\ status' = [status EXCEPT ![t] = verdict[t]]
  /\ Goto(t, IF Online /\ verdict[t] = "success" THEN "version" ELSE "dead")
  /\ UNCHANGED <<aged, bstat, confirm, online, plan, idx, got, verdict, req,
                 jobVars, buryVars, stopper>>

\* replace into openc3_jobx_flowline_version
RecordVersion(t) ==
  /\ pc[t] = "version"
  /\ online' = t
  /\ Goto(t, "dead")
  /\ UNCHANGED <<status, aged, bstat, confirm, plan, idx, got, verdict, req,
                 jobVars, buryVars, stopper>>

\* A worker dies; a command it has started goes on.
Crash(t) ==
  /\ pc[t] \in Alive
  /\ Goto(t, "dead")
  /\ UNCHANGED <<rowVars, plan, idx, got, verdict, req, jobVars, buryVars,
                 stopper>>
-----------------------------------------------------------------------------
(***************************************************************************)
(* The bury daemon.                                                        *)
(***************************************************************************)
Unfinished(t) == pc[t] # "none" /\ status[t] \notin Ended

BurySelect ==
  /\ buryList = {} /\ burying = NoTask
  /\ buryList' = {t \in Tasks : Unfinished(t)}
  /\ UNCHANGED <<rowVars, procVars, req, jobVars, burying, stopper>>

\* The JOB task of a running batch has succeeded, has failed or is not there.
BadSettled(b) == b \notin made \/ jphase[b] = "success"
Settled(b) == b \notin made \/ jphase[b] \in {"success", "fail"}

\* A task that takes more than seven days is killed first.  Its process may
\* still be there when bury looks.  Then it looks at one of the batches that
\* run, if there is any.
BadBuryCheck(t) ==
  /\ burying = NoTask /\ t \in buryList
  /\ buryList' = buryList \ {t}
  /\ \/ /\ Running(t) = {} \/ \E b \in Running(t) : Settled(b)
        /\ burying' = t
     \/ /\ \E b \in Running(t) : ~Settled(b)
        /\ UNCHANGED burying
  /\ UNCHANGED <<rowVars, procVars, req, jobVars, stopper>>

BuryCheck(t) ==
  /\ burying = NoTask /\ t \in buryList
  /\ buryList' = buryList \ {t}
  /\ IF aged[t] /\ pc[t] \in Alive THEN Goto(t, "dead") ELSE UNCHANGED pc
  /\ \/ /\ aged[t] \/ pc[t] = "dead"
        /\ Running(t) = {} \/ \E b \in Running(t) : Settled(b)
        /\ burying' = t
     \/ /\ pc[t] # "dead" \/ \E b \in Running(t) : ~Settled(b)
        /\ UNCHANGED burying
  /\ UNCHANGED <<rowVars, plan, idx, got, verdict, req, jobVars, stopper>>

\* The JOB service does not answer: the daemon dies and is started again.
BuryDie ==
  /\ buryList # {} \/ burying # NoTask
  /\ buryList' = {}
  /\ burying' = NoTask
  /\ UNCHANGED <<rowVars, procVars, req, jobVars, stopper>>

\* The row read at BurySelect is failed whatever it holds by now.
BuryFail ==
  /\ burying # NoTask
  /\ status' = [status EXCEPT ![burying] = "fail"]
  /\ burying' = NoTask
  /\ UNCHANGED <<aged, bstat, confirm, online, procVars, req, jobVars, buryList,
                 stopper>>

\* Seven days pass since the start of a deployment, whose rollback counts from
\* there too.
Age(u) ==
  LET ts == {<<u, r>> : r \in Roles} IN
  /\ ts \subseteq LongTasks
  /\ pc[<<u, "deploy">>] # "none" /\ ~aged[<<u, "deploy">>]
  /\ aged' = [t \in Tasks |-> aged[t] \/ t \in ts]
  /\ UNCHANGED <<status, bstat, confirm, online, procVars, req, jobVars,
                 buryVars, stopper>>
-----------------------------------------------------------------------------
(***************************************************************************)
(* Requests of users.                                                      *)
(***************************************************************************)

\* PUT /subtask/.../confirm: whatever the state of the batch.
UserConfirm(t, i) ==
  /\ bstat[t][i] # "none"
  /\ <<t, i>> \in Hasty \/ confirm[t][i] = "wait"
  /\ confirm' = [confirm EXCEPT ![t][i] = "stop"]
  /\ UNCHANGED <<status, aged, bstat, online, procVars, req, jobVars, buryVars,
                 stopper>>

\* PUT /task/.../rollback and .../norollback, for a deployment that has been
\* started in the last seven days and has a version to go back to.
Rollback(u) ==
  /\ pc[<<u, "deploy">>] # "none" /\ ~aged[<<u, "deploy">>]
  /\ Patient => status[<<u, "deploy">>] \in Ended
  /\ HasPrev[u]
  /\ status[<<u, "rollback">>] = "none"
  /\ \E s \in {"init", "success"} :
       status' = [status EXCEPT ![<<u, "rollback">>] = s]
  /\ UNCHANGED <<aged, bstat, confirm, online, procVars, req, jobVars, buryVars,
                 stopper>>

\* DELETE /task/:projectid/:uuid cancels the batches that wait, ...
BadStopCancel(t) ==
  /\ stopper[t] = "idle" /\ t \in Meddled
  /\ bstat' = [s \in Tasks |-> [i \in Indices |->
                 IF s \in Alike(t) /\ bstat[s][i] \in {"init", "running"}
                 THEN "cancel" ELSE bstat[s][i]]]
  /\ stopper' = [stopper EXCEPT ![t] = "cancelled"]
  /\ UNCHANGED <<status, aged, confirm, online, procVars, req, jobVars,
                 buryVars>>

StopCancel(t) ==
  /\ stopper[t] = "idle" /\ t \in Meddled
  /\ bstat' = [s \in Tasks |-> [i \in Indices |->
                 IF s \in Alike(t) /\ bstat[s][i] = "init"
                 THEN "cancel" ELSE bstat[s][i]]]
  /\ stopper' = [stopper EXCEPT ![t] = "cancelled"]
  /\ UNCHANGED <<status, aged, confirm, online, procVars, req, jobVars,
                 buryVars>>

\* ... confirms those that wait for it ...
StopConfirm(t) ==
  /\ stopper[t] = "cancelled"
  /\ confirm' = [s \in Tasks |-> [i \in Indices |->
                   IF s \in Alike(t) /\ confirm[s][i] = "wait"
                   THEN "stop" ELSE confirm[s][i]]]
  /\ stopper' = [stopper EXCEPT ![t] = "confirmed"]
  /\ UNCHANGED <<status, aged, bstat, online, procVars, req, jobVars, buryVars>>

\* ... and kills the worker of the JOB task of one that runs.
StopKill(t) ==
  /\ stopper[t] = "confirmed"
  /\ stopper' = [stopper EXCEPT ![t] = "idle"]
  /\ \/ \E b \in Running(t) \cap made : Job!Vanish(b)
     \/ UNCHANGED <<jphase, jhand>>
  /\ UNCHANGED <<rowVars, procVars, req, made, buryVars>>
-----------------------------------------------------------------------------
\* The JOB service.
JobStep(b) ==
  /\ b \in made
  /\ \/ Job!Take(b) \/ Job!Ask(b) \/ Job!GoOn(b)
     \/ Job!Finish(b) \/ Job!Vanish(b) \/ Job!Bury(b)
  /\ jphase'[b] = "refuse" => Refuses
  /\ UNCHANGED <<rowVars, procVars, req, made, buryVars, stopper>>

Work(t) ==
  \/ Claim(t) \/ Load(t) \/ CheckRefused(t) \/ Plan(t) \/ InsertRow(t)
  \/ Take(t) \/ Send(t) \/ Sent(t) \/ Poll(t) \/ Result(t) \/ Confirmed(t)
  \/ Final(t) \/ RecordVersion(t)

Mishap(t) == Die(t) \/ BatchDie(t) \/ Crash(t)

Bury == BurySelect \/ BuryFail \/ \E t \in Tasks : BuryCheck(t)

User ==
  \/ \E t \in Tasks : \/ StopCancel(t) \/ StopConfirm(t) \/ StopKill(t)
                      \/ \E i \in Indices : UserConfirm(t, i)
  \/ \E u \in Uuids : Rollback(u)

Next ==
  \/ \E t \in Tasks : Work(t) \/ Mishap(t)
  \/ \E b \in Batches : JobStep(b) \/ \E n \in Posts : Make(b, n)
  \/ Bury \/ BuryDie \/ User
  \/ \E u \in Uuids : Age(u)

Spec == Init /\ [][Next]_vars

\* A live worker goes on, requests are handled, bury loops and is not always
\* interrupted, and time passes.  Of the JOB service: a task is taken and gets
\* a result (TaskTaken and ClaimedEnds of JobTask).  Users owe nothing.
JobEnds(b) == /\ jphase[b] \notin Ended
              /\ JobStep(b)
              /\ jphase'[b] \in Ended

FairSpec ==
  /\ Spec
  /\ \A t \in Tasks : WF_vars(Work(t)) /\ SF_vars(BuryCheck(t))
  /\ WF_vars(Bury) /\ SF_vars(BuryFail)
  /\ \A b \in Batches : /\ WF_vars(\E n \in Posts : Make(b, n))
                        /\ WF_vars(jphase[b] = "init" /\ JobStep(b))
                        /\ WF_vars(JobEnds(b))
  /\ \A u \in Uuids : WF_vars(Age(u))
-----------------------------------------------------------------------------
(***************************************************************************)
(* Properties.                                                             *)
(***************************************************************************)

\* Type invariant of the rows, the workers, the JOB service and the daemon.
TypeOK ==
  /\ status \in [Tasks -> {"none", "init", "running"} \cup Ended]
  /\ aged \in [Tasks -> BOOLEAN]
  /\ bstat \in [Tasks -> [Indices -> {"none", "init", "running"} \cup BatchEnded]]
  /\ confirm \in [Tasks -> [Indices -> {"null", "wait", "stop"}]]
  /\ online \in Tasks \cup {NoTask}
  /\ pc \in [Tasks -> Alive \cup {"none", "dead"}]
  /\ plan \in [Tasks -> Seq(Indices)]
  /\ \A t \in Tasks : Len(plan[t]) <= NumBatches
  /\ idx \in [Tasks -> Indices]
  /\ got \in [Tasks -> {"none"} \cup Ended]
  /\ verdict \in [Tasks -> Ended]
  /\ req \in [Batches -> [Posts -> {"idle", "select", "insert", "ok", "no"}]]
  /\ made \subseteq Batches
  /\ jphase \in [Batches -> {"init", "running", "waiting"} \cup Ended]
  /\ jhand \in [Batches -> {"none", "live", "gone"}]
  /\ buryList \subseteq Tasks /\ burying \in Tasks \cup {NoTask}
  /\ stopper \in [Tasks -> {"idle", "cancelled", "confirmed"}]

\* The machines of at most one batch of a task are worked on at a time: a batch
\* begins when the JOB task of the one before has its result.
OneBatchAtATime ==
  \A t \in Tasks, i, j \in Indices :
    i < j /\ <<t, j>> \in made => <<t, i>> \notin made
                                  \/ jphase[<<t, i>>] \in Ended

\* A batch is begun only after every earlier one has succeeded, or has failed
\* and a user has looked at it (JOBX/code/task:225-236, subtaskv2:94-104).
NextNeedsConfirm ==
  \A t \in Tasks, i, j \in Indices : i < j /\ <<t, j>> \in made =>
    \/ bstat[t][i] = "success"
    \/ bstat[t][i] = "fail" /\ confirm[t][i] = "stop"

\* The batches of a task are worked on one after the other, and a failure is
\* seen by a user before the next.
BatchesInTurn == OneBatchAtATime /\ NextNeedsConfirm

\* No JOB task is ever made for a batch that was cancelled, and a batch for
\* which one was asked for is not cancelled any more: who stops a task knows
\* that the machines of the cancelled batches were not touched.
CancelledNeverRuns ==
  \A b \in Batches : bstat[b[1]][b[2]] = "cancel" =>
    \A n \in Posts : req[b][n] = "idle"

\* The result of a batch is that of its JOB task, but for a success that JOB
\* itself has made a failure since; a batch that failed is not at work.
BatchHonest ==
  \A t \in Tasks, i \in Indices :
    /\ bstat[t][i] \in {"success", "refuse"} =>
         jphase[<<t, i>>] \in {bstat[t][i], "fail"}
    /\ bstat[t][i] = "fail" /\ <<t, i>> \in made => jphase[<<t, i>>] = "fail"

\* A task succeeds only if each of its batches did, and it is refused only if
\* its last batch was.
ResultHonest ==
  \A t \in Tasks : pc[t] # "none" =>
    LET given == {bstat[t][i] : i \in 1..Len(plan[t])}
    IN  /\ status[t] = "success" => given \subseteq {"success"}
        /\ status[t] = "refuse" => bstat[t][idx[t]] = "refuse"

\* The results of batches and tasks say what happened to the machines.
VerdictHonest == BatchHonest /\ ResultHonest

\* What is recorded as the version online is that of a task that had succeeded
\* when it was recorded (JOBX/code/task:253-257).
VersionOfSuccess ==
  [][online' # online => status[online'] = "success"]_vars

\* A rollback that succeeds has gone over every batch of the deployment that
\* was begun, also when it leaves out those nothing was done for.
RollbackCovers ==
  \A u \in Uuids :
    LET r == <<u, "rollback">>
    IN  pc[r] # "none" /\ status[r] = "success" =>
          \A i \in Indices : <<<<u, "deploy">>, i>> \in made =>
            \E k \in 1..Len(plan[r]) : plan[r][k] = i

\* "The deploy task has been refused and should not be able to be run rollback
\* task" (JOBX/code/task:137): no batch of its rollback is begun.
RefusedNotRolledBack ==
  [][\A u \in Uuids : status[<<u, "deploy">>] = "refuse" =>
       \A i \in Indices : LET b == <<<<u, "rollback">>, i>>
                          IN  b \in made' => b \in made]_vars

\* Towards the pages a deployment behaves as a JOB task does: see JobLifecycle.
Hand(t) == IF pc[t] = "none" THEN "none"
           ELSE IF pc[t] \in {"dead", "version"} THEN "gone" ELSE "live"
Lifecycle == INSTANCE JobLifecycle
  WITH Tasks <- Uuids,
       phase <- [u \in Uuids |-> status[<<u, "deploy">>]],
       hand  <- [u \in Uuids |-> Hand(<<u, "deploy">>)]

\* A deployment keeps the promise of JobLifecycle.
KeepsLifecycle == Lifecycle!Spec

\* A task that was taken up gets a result, whatever becomes of its worker and
\* whether or not a user confirms.
ClaimedEnds ==
  \A t \in Tasks : (pc[t] # "none") ~> (status[t] \in Ended)
=============================================================================
