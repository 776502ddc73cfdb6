------------------------------- MODULE JobTask -------------------------------
(***************************************************************************)
(* The JOB task engine of open-c3.                                         *)
(*                                                                         *)
(* A task is a row of openc3_job_task.  On the slave the row names, the    *)
(* daemon "call" forks one worker process per waiting row                  *)
(* (JOB/code/server/call), the worker claims the row (JOB/code/task), runs *)
(* the steps of its job one after the other (JOB/code/jobs and the         *)
(* plugins plugin_cmd, plugin_scp, plugin_approval) and writes the result. *)
(* The daemon "bury" (JOB/code/server/bury) fails the rows whose worker    *)
(* died.  Users answer a failed step, lift a pause                         *)
(* (JOB/lib/api/subtask.pm) or kill a task (JOB/lib/api/slave.pm).         *)
(*                                                                         *)
(* All of them meet only in MySQL: an SQL statement is one atomic step,    *)
(* and anything may happen between two statements.                         *)
(*                                                                         *)
(* An operator named Bad... is a slip somebody could make in the           *)
(* definition that follows it.  No action refers to it: it shows that a    *)
(* property below notices the slip.                                        *)
(***************************************************************************)
EXTENDS Integers, FiniteSets

CONSTANTS
  Tasks,       \* uuids of openc3_job_task rows whose slave is this host
  Pids,        \* operating system processes that may become workers
  NoPid,       \* the SQL null of column pid
  NoTask,      \* a process or a daemon that handles no task
  Jobs,        \* uuids of openc3_job_jobs
  NumSteps,    \* number of plugins in the column uuids of a job
  Nodes,       \* machines a cmd or scp step works on
  Mutexes,     \* values of column mutex
  NoMutex      \* the empty mutex

CONSTANTS
  InJob,       \* [Tasks -> BOOLEAN]: jobtype is "jobs", not a lone plugin
  JobOf,       \* [Tasks -> Jobs]: column jobuuid
  MutexOf,     \* [Tasks -> Mutexes \cup {NoMutex}]: column mutex
  KindOf,      \* [Tasks -> [Steps -> Kinds]]: the plugins of the task
  StepPause,   \* [Steps -> BOOLEAN]: column pause of the plugin is not empty
  Filterable,  \* steps whose deployenv/action/batches filter may not match
  BuildinSteps,\* steps that run a buildin, which may flag refuse or fail
  ExitOnFail,  \* variable _exit_ of the job is set
  Versioned,   \* tasks whose variables version and ip name the target
  Prints,      \* [Tasks -> SUBSET Steps]: scripts that print VERSION:[v]
  JobLimit     \* 100 in JOB/code/task: waiting and running tasks of one job

CONSTANTS
  LongTasks,   \* bound: tasks that may get older than seven days
  Meddled,     \* bound: tasks users kill or answer out of turn
  Maintains,   \* bound: operators use the maintenance file at all
  MaxRetry,    \* bound: "running" answers a user gives to one step
  MaxLost      \* bound: writes that fail inside an eval nobody looks at

Steps == 1..NumSteps
Kinds == {"cmd", "scp", "backup", "approval"}

ASSUME ConstantsAssumption ==
  /\ NumSteps \in Nat \ {0}
  /\ NoPid \notin Pids
  /\ NoTask \notin Tasks
  /\ NoMutex \notin Mutexes
  /\ InJob \in [Tasks -> BOOLEAN]
  /\ JobOf \in [Tasks -> Jobs]
  /\ MutexOf \in [Tasks -> Mutexes \cup {NoMutex}]
  /\ KindOf \in [Tasks -> [Steps -> Kinds]]
  /\ StepPause \in [Steps -> BOOLEAN]
  /\ Filterable \subseteq Steps
  /\ BuildinSteps \subseteq Steps
  /\ ExitOnFail \in BOOLEAN
  /\ Versioned \subseteq Tasks
  /\ Prints \in [Tasks -> SUBSET Steps]
  /\ JobLimit \in Nat
  /\ LongTasks \subseteq Tasks
  /\ Meddled \subseteq Tasks
  /\ Maintains \in BOOLEAN
  /\ MaxRetry \in Nat
  /\ MaxLost \in Nat

VARIABLES
  status,      \* openc3_job_task.status
  pid,         \* openc3_job_task.pid
  reason,      \* openc3_job_task.reason, by class
  notify,      \* openc3_job_task.notify
  aged,        \* starttimems is more than seven days back
  sub,         \* rows of openc3_job_subtask: status, and pause not empty
  vv           \* the VERSION row of the target in openc3_job_vv

VARIABLES
  pc,          \* where a worker is
  tk,          \* the -uuid argument of a worker
  loc          \* its local variables, see Locals

VARIABLES
  callList,    \* rows the call daemon has read and not handled yet
  counted,     \* %count of the call daemon
  buryList,    \* rows the bury daemon has read and not handled yet
  burying,     \* the row whose worker bury found dead
  killer,      \* state of a DELETE /killtask/:uuid request
  maintain     \* file c3.maintain.flow exists

VARIABLES
  hist,        \* history of a step, read by properties only, see History
  lastRan,     \* history: the last task that ran a script to bring a version
               \* or whose script announced one
  lost         \* writes lost so far

rowVars  == <<status, pid, reason, notify, aged>>
procVars == <<pc, tk, loc>>
callVars == <<callList, counted>>
buryVars == <<buryList, burying>>
opsVars  == <<killer, maintain>>
histVars == <<hist, lastRan>>
dbVars   == <<rowVars, sub, vv>>
envVars  == <<callVars, buryVars, opsVars>>
vars     == <<dbVars, procVars, envVars, histVars, lost>>

Ended    == {"success", "fail", "refuse"}
Statuses == {"init", "running", "waiting"} \cup Ended
Reasons  == {"null", "error", "stopped", "killed", "unknown"}

\* Who wrote the VERSION row and why: a job about to bring its version ("Do_"
\* before it), a job that has brought it, a script that printed it.
Versions == {<<"none", NoTask>>} \cup ({"Do", "done", "said"} \X Tasks)
SubRow   == [status: {"null", "running", "decision", "ignore"} \cup Ended,
             pause: BOOLEAN]

\* step is $index of JOB/code/jobs, todo is @node of plugin_cmd and @dst of
\* plugin_scp, flag stands for $subtasksrefuse and $subtasksfail, ret for
\* $subtaskstatus and $tmpstatus, verdict for $jobstatus and the $status of
\* JOB/code/task.
Locals   == [step: Steps, todo: SUBSET Nodes,
             flag: {"none", "refuse", "fail"},
             ret: {"none", "running", "ignore"} \cup Ended,
             verdict: {"none", "ignore"} \cup Ended]

\* What the plugin of a step returned, the nodes its script succeeded on, how
\* often the script was started and how often a user answered "running".
History  == [outcome: {"none", "ignore"} \cup Ended, ok: SUBSET Nodes,
             runs: Nat, grants: Nat]

\* A worker before it claims its row; after it; the places of a plugin.
Fresh    == {"start", "claim"}
InPlugin == {"begin", "script", "decide", "wait", "poll", "resume",
             "close", "pause", "hold", "unpause"}
InBody   == {"init", "mark", "record"} \cup InPlugin
Working  == {"load", "limit", "mutex", "final"} \cup InBody
Alive    == Fresh \cup Working
-----------------------------------------------------------------------------
IdleLocals == [step |-> 1, todo |-> {}, flag |-> "none", ret |-> "none",
               verdict |-> "none"]

Init ==
  /\ status   = [t \in Tasks |-> "init"]
  /\ pid      = [t \in Tasks |-> NoPid]
  /\ reason   = [t \in Tasks |-> "null"]
  /\ notify   = [t \in Tasks |-> 0]
  /\ aged     = [t \in Tasks |-> FALSE]
  /\ sub      = [t \in Tasks |-> [k \in Steps |->
                   [status |-> "null", pause |-> FALSE]]]
  /\ vv       = <<"none", NoTask>>
  /\ pc       = [p \in Pids |-> "free"]
  /\ tk       = [p \in Pids |-> NoTask]
  /\ loc      = [p \in Pids |-> IdleLocals]
  /\ callList = {}
  /\ counted  = {}
  /\ buryList = {}
  /\ burying  = NoTask
  /\ killer   = [t \in Tasks |-> "idle"]
  /\ maintain = FALSE
  /\ hist     = [t \in Tasks |-> [k \in Steps |->
                   [outcome |-> "none", ok |-> {}, runs |-> 0, grants |-> 0]]]
  /\ lastRan  = NoTask
  /\ lost     = 0
-----------------------------------------------------------------------------
(***************************************************************************)
(* Helpers.                                                                *)
(***************************************************************************)

\* update ... set reason='r' where uuid='t' and reason is null
SetReason(t, r) ==
  reason' = [reason EXCEPT ![t] = IF @ = "null" THEN r ELSE @]

\* update openc3_job_task set status='s',notify='0' where uuid='t'
SetTask(t, s) ==
  /\ status' = [status EXCEPT ![t] = s]
  /\ notify' = [notify EXCEPT ![t] = 0]
  /\ UNCHANGED <<pid, reason, aged>>

Goto(p, l) ==
  /\ pc' = [pc EXCEPT ![p] = l]
  /\ UNCHANGED tk

\* The processes in S are gone.  A process that never claimed a row leaves no
\* trace and its pid may be used again; the pid of a worker stays in the row.
Exit(S) ==
  /\ pc' = [p \in Pids |-> IF p \notin S THEN pc[p]
                           ELSE IF pc[p] \in Fresh THEN "free" ELSE "dead"]
  /\ tk' = [p \in Pids |-> IF p \in S /\ pc[p] \in Fresh
                           THEN NoTask ELSE tk[p]]
  /\ loc' = [p \in Pids |-> IF p \in S THEN IdleLocals ELSE loc[p]]

\* The body of the task gives its result r to JOB/code/task.
Finish(p, r) ==
  /\ Goto(p, "final")
  /\ loc' = [loc EXCEPT ![p] = [IdleLocals EXCEPT !.verdict = r]]

\* After these results of a step the job goes on.  (No plugin returns the
\* "skipSameVersion" that JOB/code/jobs:95-99 would take for a success.)
BadGoesOn(r) == r # "fail"
GoesOn(r) == r \in {"success", "ignore"}

\* The plugin of the current step returns r: a lone plugin to JOB/code/task,
\* any other one to the loop in JOB/code/jobs, which goes on after "success"
\* and "ignore" and stops after "fail" and "refuse".
Return(p, r) ==
  LET t == tk[p]
      k == loc[p].step
  IN  /\ hist' = [hist EXCEPT ![t][k].outcome = r]
      /\ UNCHANGED lastRan
      /\ \/ /\ InJob[t] /\ GoesOn(r) /\ k < NumSteps
            /\ Goto(p, "begin")
            /\ loc' = [loc EXCEPT ![p] = [IdleLocals EXCEPT !.step = k + 1]]
         \/ /\ InJob[t] /\ GoesOn(r) /\ k = NumSteps
            /\ t \in Versioned
            /\ Goto(p, "record")
            /\ loc' = [loc EXCEPT ![p] = IdleLocals]
         \/ /\ InJob[t] /\ GoesOn(r) /\ k = NumSteps
            /\ t \notin Versioned
            /\ Finish(p, "success")
         \/ /\ ~InJob[t] \/ ~GoesOn(r)
            /\ Finish(p, r)
-----------------------------------------------------------------------------
(***************************************************************************)
(* The call daemon: every second it reads the rows nobody has claimed and  *)
(* forks a worker for each one it has not handled in the current window of *)
(* ten seconds.                                                            *)
(***************************************************************************)

\* The top of the loop; c is %count, emptied when a new window has begun.
BadCallSelect(c) ==
  /\ callList = {}
  /\ callList' = {t \in Tasks : status[t] = "init" /\ pid[t] = NoPid}
  /\ UNCHANGED <<dbVars, procVars, counted, buryVars, opsVars, histVars, lost>>

CallSelect(c) ==
  /\ callList = {}
  /\ callList' = {t \in Tasks : status[t] = "init" /\ pid[t] = NoPid}
  /\ counted' = c
  /\ UNCHANGED <<dbVars, procVars, buryVars, opsVars, histVars, lost>>

CallSkip(t) ==
  /\ t \in callList \cap counted
  /\ callList' = callList \ {t}
  /\ UNCHANGED <<dbVars, procVars, counted, buryVars, opsVars, histVars, lost>>

CallFork(t, p) ==
  /\ t \in callList \ counted
  /\ pc[p] = "free"
  /\ callList' = callList \ {t}
  /\ counted' = counted \cup {t}
  /\ pc' = [pc EXCEPT ![p] = "start"]
  /\ tk' = [tk EXCEPT ![p] = t]
  /\ UNCHANGED <<dbVars, loc, buryVars, opsVars, histVars, lost>>
-----------------------------------------------------------------------------
(***************************************************************************)
(* The worker before the body of the task: JOB/code/task.                  *)
(***************************************************************************)

\* Nothing is started while the platform is in maintenance.
Start(p) ==
  /\ pc[p] = "start"
  /\ \/ /\ maintain
        /\ SetReason(tk[p], "error")
        /\ Exit({p})
     \/ /\ ~maintain
        /\ Goto(p, "claim")
        /\ UNCHANGED <<reason, loc>>
  /\ UNCHANGED <<status, pid, notify, aged, sub, vv, envVars, histVars, lost>>

\* update ... set pid='$$',status='running' ... where pid is null
BadClaim(p) ==
  /\ pc[p] = "claim"
  /\ pid' = [pid EXCEPT ![tk[p]] = p]
  /\ status' = [status EXCEPT ![tk[p]] = "running"]
  /\ Goto(p, "load")
  /\ UNCHANGED <<reason, notify, aged, sub, vv, loc, envVars, histVars, lost>>

Claim(p) ==
  LET t == tk[p] IN
  /\ pc[p] = "claim"
  /\ pid[t] = NoPid
  /\ pid' = [pid EXCEPT ![t] = p]
  /\ status' = [status EXCEPT ![t] = "running"]
  /\ Goto(p, "load")
  /\ UNCHANGED <<reason, notify, aged, sub, vv, loc, envVars, histVars, lost>>

\* The update matched no row: "task $uuid Already running".
ClaimTaken(p) ==
  /\ pc[p] = "claim"
  /\ pid[tk[p]] # NoPid
  /\ SetReason(tk[p], "error")
  /\ Exit({p})
  /\ UNCHANGED <<status, pid, notify, aged, sub, vv, envVars, histVars, lost>>

\* The row and its variable are read outside the eval: an error there ends the
\* process and leaves the row "running".
Load(p) ==
  LET t == tk[p] IN
  /\ pc[p] = "load"
  /\ Goto(p, IF InJob[t] THEN "limit"
             ELSE IF MutexOf[t] # NoMutex THEN "mutex" ELSE "begin")
  /\ UNCHANGED <<dbVars, loc, envVars, histVars, lost>>

LoadDie(p) ==
  /\ pc[p] = "load"
  /\ SetReason(tk[p], "error")
  /\ Exit({p})
  /\ UNCHANGED <<status, pid, notify, aged, sub, vv, envVars, histVars, lost>>

\* The tasks of t's job that count against the limit, t among them.
BadLiveOfJob(t) ==
  {u \in Tasks : InJob[u] /\ JobOf[u] = JobOf[t] /\ status[u] = "running"}

LiveOfJob(t) ==
  {u \in Tasks : /\ InJob[u] /\ JobOf[u] = JobOf[t]
                 /\ status[u] \in {"running", "waiting"}}

Limit(p) ==
  LET t == tk[p] IN
  /\ pc[p] = "limit"
  /\ Cardinality(LiveOfJob(t)) < JobLimit
  /\ Goto(p, IF MutexOf[t] # NoMutex THEN "mutex" ELSE "init")
  /\ UNCHANGED <<dbVars, loc, envVars, histVars, lost>>

LimitReached(p) ==
  LET t == tk[p] IN
  /\ pc[p] = "limit"
  /\ Cardinality(LiveOfJob(t)) >= JobLimit
  /\ SetReason(t, "error")
  /\ Finish(p, "fail")
  /\ UNCHANGED <<status, pid, notify, aged, sub, vv, envVars, histVars, lost>>

\* select * from openc3_job_task where status='running' and uuid<>'$uuid' ...
BadMutexHolders(t) ==
  {u \in Tasks \ {t} : MutexOf[u] = MutexOf[t] /\ status[u] = "waiting"}

MutexHolders(t) ==
  {u \in Tasks \ {t} : MutexOf[u] = MutexOf[t] /\ status[u] = "running"}

Mutex(p) ==
  LET t == tk[p] IN
  /\ pc[p] = "mutex"
  /\ MutexHolders(t) = {}
  /\ Goto(p, IF InJob[t] THEN "init" ELSE "begin")
  /\ UNCHANGED <<dbVars, loc, envVars, histVars, lost>>

MutexTaken(p) ==
  LET t == tk[p] IN
  /\ pc[p] = "mutex"
  /\ MutexHolders(t) # {}
  /\ SetReason(t, "error")
  /\ Finish(p, "fail")
  /\ UNCHANGED <<status, pid, notify, aged, sub, vv, envVars, histVars, lost>>
-----------------------------------------------------------------------------
(***************************************************************************)
(* The body of a job: JOB/code/jobs.                                       *)
(***************************************************************************)

\* One "replace into openc3_job_subtask" per step; an error after m of them
\* fails the task and leaves m fresh rows.
InitRows(p) ==
  LET t == tk[p]
      FreshRows(m) == [k \in Steps |->
        IF k <= m THEN [status |-> "null", pause |-> FALSE] ELSE sub[t][k]]
  IN
  /\ pc[p] = "init"
  /\ \/ /\ sub' = [sub EXCEPT ![t] = FreshRows(NumSteps)]
        /\ Goto(p, IF t \in Versioned THEN "mark" ELSE "begin")
        /\ UNCHANGED <<reason, loc>>
     \/ /\ \E m \in 0..(NumSteps - 1) : sub' = [sub EXCEPT ![t] = FreshRows(m)]
        /\ SetReason(t, "error")
        /\ Finish(p, "fail")
  /\ UNCHANGED <<status, pid, notify, aged, vv, envVars, histVars, lost>>

\* The target is said to be on its way to the version ("Do_$vvv").
BadMarkVersion(p) ==
  /\ pc[p] = "mark"
  /\ Goto(p, "begin")
  /\ UNCHANGED <<dbVars, loc, envVars, histVars, lost>>

MarkVersion(p) ==
  /\ pc[p] = "mark"
  /\ vv' = <<"Do", tk[p]>>
  /\ Goto(p, "begin")
  /\ UNCHANGED <<rowVars, sub, loc, envVars, histVars, lost>>

\* Every step went well: the target is said to run the version.
RecordVersion(p) ==
  /\ pc[p] = "record"
  /\ vv' = <<"done", tk[p]>>
  /\ Finish(p, "success")
  /\ UNCHANGED <<rowVars, sub, envVars, histVars, lost>>

\* $logs->die between the claim and the final update, outside a plugin of a
\* job: the eval in JOB/code/task catches it.
BodyDie(p) ==
  LET t == tk[p] IN
  /\ \/ pc[p] \in {"limit", "mutex", "mark", "record"}
     \/ pc[p] \in {"begin", "script"} /\ ~InJob[t]
  /\ SetReason(t, "error")
  /\ Finish(p, "fail")
  /\ UNCHANGED <<status, pid, notify, aged, sub, vv, envVars, histVars, lost>>
-----------------------------------------------------------------------------
(***************************************************************************)
(* One step: plugin_cmd, plugin_scp, plugin_approval and pause.  A lone    *)
(* plugin (InJob false) writes no subtask row, does not ask and does not   *)
(* pause.                                                                  *)
(***************************************************************************)

\* The filter on deployenv, action and batches does not match: the step counts
\* as done and its row is not touched.
StepFiltered(p) ==
  /\ pc[p] = "begin"
  /\ loc[p].step \in Filterable
  /\ Return(p, "success")
  /\ UNCHANGED <<dbVars, envVars, lost>>

\* The row becomes "running" and gets the pause flag of the plugin.  A scp of a
\* backup file copies nothing.
Begin(p) ==
  LET t == tk[p]
      k == loc[p].step
      row == [status |-> "running", pause |-> StepPause[k]]
  IN
  /\ pc[p] = "begin"
  /\ sub' = IF InJob[t] THEN [sub EXCEPT ![t][k] = row] ELSE sub
  /\ \/ /\ KindOf[t][k] # "backup"
        /\ Goto(p, "script")
        /\ loc' = [loc EXCEPT ![p].todo = Nodes]
        /\ UNCHANGED histVars
     \/ /\ KindOf[t][k] = "backup" /\ InJob[t]
        /\ Goto(p, "close")
        /\ loc' = [loc EXCEPT ![p].ret = "ignore"]
        /\ UNCHANGED histVars
     \/ /\ KindOf[t][k] = "backup" /\ ~InJob[t]
        /\ Return(p, "ignore")
  /\ UNCHANGED <<rowVars, vv, envVars, lost>>

\* refuse wins over fail, and a flag only changes "success".
BadFlagged(f, r) == IF r = "success" THEN f ELSE r
Flagged(f, r) == IF r = "success" /\ f # "none" THEN f ELSE r

\* The nodes a retry works on.
BadNodesLeft(done, failed) == failed \cup done
NodesLeft(done, failed) == failed

\* A script of t has run; said: its output on the target holds VERSION:[v].
\* plugin_cmd copies that to the VERSION row, also from nodes it failed on.
Printed(t, k, said) ==
  /\ said => KindOf[t][k] = "cmd" /\ k \in Prints[t]
  /\ vv' = IF said THEN <<"said", t>> ELSE vv
  /\ lastRan' = IF said \/ (InJob[t] /\ t \in Versioned) THEN t ELSE lastRan

\* The history of a step after one more run that succeeded on good.
AfterRun(h, good) == [h EXCEPT !.runs = @ + 1, !.ok = @ \cup good]

\* The script runs on the nodes left to do and fails on some of them.
Script(p) ==
  LET t == tk[p]
      k == loc[p].step
  IN
  /\ pc[p] = "script"
  /\ KindOf[t][k] \in {"cmd", "scp"}
  /\ \E said \in BOOLEAN : Printed(t, k, said)
  /\ \E failed \in SUBSET loc[p].todo,
        f \in IF k \in BuildinSteps THEN {"none", "refuse", "fail"}
              ELSE {"none"} :
       LET flag == IF loc[p].flag = "refuse" \/ f = "none"
                   THEN loc[p].flag ELSE f
           nh   == AfterRun(hist[t][k], loc[p].todo \ failed)
       IN  \/ /\ InJob[t] /\ failed # {}
              /\ Goto(p, "decide")
              /\ loc' = [loc EXCEPT ![p].flag = flag,
                         ![p].todo = NodesLeft(loc[p].todo, failed)]
              /\ hist' = [hist EXCEPT ![t][k] = nh]
           \/ /\ InJob[t] /\ failed = {}
              /\ Goto(p, "close")
              /\ loc' = [loc EXCEPT ![p].todo = {}, ![p].flag = flag,
                                    ![p].ret = Flagged(flag, "success")]
              /\ hist' = [hist EXCEPT ![t][k] = nh]
           \/ LET r == Flagged(flag, IF failed = {} THEN "success"
                                     ELSE "fail")
              IN /\ ~InJob[t]
                 /\ Finish(p, r)
                 /\ hist' = [hist EXCEPT ![t][k] = [nh EXCEPT !.outcome = r]]
  /\ UNCHANGED <<rowVars, sub, envVars, lost>>

\* What a script printed cannot be written: the plugin dies after the nodes
\* have run it, with some of the rows of openc3_job_vv written or none.
ScriptDies(p) ==
  LET t == tk[p]
      k == loc[p].step
  IN
  /\ pc[p] = "script"
  /\ KindOf[t][k] = "cmd"
  /\ \E said \in BOOLEAN : Printed(t, k, said)
  /\ \E failed \in SUBSET loc[p].todo :
       hist' = [hist EXCEPT ![t][k] =
                  [AfterRun(@, loc[p].todo \ failed) EXCEPT !.outcome = "fail"]]
  /\ SetReason(t, "error")
  /\ Finish(p, "fail")
  /\ UNCHANGED <<status, pid, notify, aged, sub, envVars, lost>>

\* The approvers agree, one refuses, or the time is over.
ApprovalEnds(p) ==
  LET t == tk[p]
      k == loc[p].step
  IN
  /\ pc[p] = "script"
  /\ KindOf[t][k] = "approval"
  /\ \E r \in Ended :
       \/ /\ InJob[t]
          /\ Goto(p, "close")
          /\ loc' = [loc EXCEPT ![p].todo = {}, ![p].ret = r]
          /\ UNCHANGED histVars
       \/ /\ ~InJob[t]
          /\ Return(p, r)
  /\ UNCHANGED <<dbVars, envVars, lost>>

\* Some nodes failed: the row asks for a decision ...
Decide(p) ==
  /\ pc[p] = "decide"
  /\ sub' = [sub EXCEPT ![tk[p]][loc[p].step].status = "decision"]
  /\ Goto(p, "wait")
  /\ UNCHANGED <<rowVars, vv, loc, envVars, histVars, lost>>

\* ... and the task waits.
Wait(p) ==
  /\ pc[p] = "wait"
  /\ SetTask(tk[p], "waiting")
  /\ Goto(p, "poll")
  /\ UNCHANGED <<sub, vv, loc, envVars, histVars, lost>>

\* What a user may make of a row that asks.
IsAnswer(s) == s \in {"fail", "ignore", "running"}

\* With _exit_ the step fails at once, otherwise the worker reads the row every
\* three seconds until a user has answered.
Poll(p) ==
  LET t == tk[p]
      answer == sub[t][loc[p].step].status
  IN
  /\ pc[p] = "poll"
  /\ \/ /\ ExitOnFail
        /\ SetReason(t, "stopped")
        /\ loc' = [loc EXCEPT ![p].ret = "fail"]
     \/ /\ ~ExitOnFail
        /\ IsAnswer(answer)
        /\ loc' = [loc EXCEPT ![p].ret = answer]
        /\ UNCHANGED reason
  /\ Goto(p, "resume")
  /\ UNCHANGED <<status, pid, notify, aged, sub, vv, envVars, histVars, lost>>

AfterResume(p) ==
  \/ /\ loc[p].ret = "running"
     /\ Goto(p, "script")
     /\ loc' = [loc EXCEPT ![p].ret = "none"]
  \/ /\ loc[p].ret # "running"
     /\ Goto(p, "close")
     /\ loc' = [loc EXCEPT ![p].todo = {}]

Resume(p) ==
  /\ pc[p] = "resume"
  /\ SetTask(tk[p], "running")
  /\ AfterResume(p)
  /\ UNCHANGED <<sub, vv, envVars, histVars, lost>>

\* An approval pauses only when it was granted, cmd and scp always.
AfterClose(p) ==
  LET t == tk[p]
      k == loc[p].step
      pauses == /\ StepPause[k]
                /\ KindOf[t][k] = "approval" => loc[p].ret = "success"
  IN  \/ pauses /\ Goto(p, "pause") /\ UNCHANGED <<loc, histVars>>
      \/ ~pauses /\ Return(p, loc[p].ret)

\* The result of the step is written to its row.
Close(p) ==
  /\ pc[p] = "close"
  /\ sub' = [sub EXCEPT ![tk[p]][loc[p].step].status = loc[p].ret]
  /\ AfterClose(p)
  /\ UNCHANGED <<rowVars, vv, envVars, lost>>

\* JOB/code/pause: the task waits until the pause flag of the row is empty.
Pause(p) ==
  /\ pc[p] = "pause"
  /\ SetTask(tk[p], "waiting")
  /\ Goto(p, "hold")
  /\ UNCHANGED <<sub, vv, loc, envVars, histVars, lost>>

Hold(p) ==
  /\ pc[p] = "hold"
  /\ ~sub[tk[p]][loc[p].step].pause
  /\ Goto(p, "unpause")
  /\ UNCHANGED <<dbVars, loc, envVars, histVars, lost>>

BadUnpause(p) ==
  /\ pc[p] = "unpause"
  /\ Return(p, loc[p].ret)
  /\ UNCHANGED <<dbVars, envVars, lost>>

Unpause(p) ==
  /\ pc[p] = "unpause"
  /\ SetTask(tk[p], "running")
  /\ Return(p, loc[p].ret)
  /\ UNCHANGED <<sub, vv, envVars, lost>>

\* $logs->die inside a plugin of a job: the eval in JOB/code/jobs makes it a
\* failed step.  The rows stay as they are.
StepDie(p) ==
  /\ pc[p] \in {"begin", "script", "poll", "pause", "hold", "unpause"}
  /\ InJob[tk[p]]
  /\ SetReason(tk[p], "error")
  /\ Return(p, "fail")
  /\ UNCHANGED <<status, pid, notify, aged, sub, vv, envVars, lost>>

\* The statements of Decide, Wait, Resume and Close stand in an eval whose
\* error is not looked at: the worker goes on as if the row were written.
LostWrite(p) ==
  /\ lost < MaxLost
  /\ lost' = lost + 1
  /\ \/ pc[p] = "decide" /\ Goto(p, "wait") /\ UNCHANGED <<loc, histVars>>
     \/ pc[p] = "wait"   /\ Goto(p, "poll") /\ UNCHANGED <<loc, histVars>>
     \/ pc[p] = "resume" /\ AfterResume(p)  /\ UNCHANGED histVars
     \/ pc[p] = "close"  /\ AfterClose(p)
  /\ UNCHANGED <<dbVars, envVars>>
-----------------------------------------------------------------------------
(***************************************************************************)
(* The end of a worker.                                                    *)
(***************************************************************************)

\* Anything but success and refuse is a failure.
RowStatus(v) == IF v \in {"success", "refuse"} THEN v ELSE "fail"

\* The unconditional last update of JOB/code/task; then the process exits.
Final(p) ==
  /\ pc[p] = "final"
  /\ status' = [status EXCEPT ![tk[p]] = RowStatus(loc[p].verdict)]
  /\ Exit({p})
  /\ UNCHANGED <<pid, reason, notify, aged, sub, vv, envVars, histVars, lost>>

\* A worker dies: a signal, the host, or an SQL error in the claim or in the
\* last update.
Crash(p) ==
  /\ pc[p] \in Alive
  /\ Exit({p})
  /\ UNCHANGED <<dbVars, envVars, histVars, lost>>
-----------------------------------------------------------------------------
(***************************************************************************)
(* The bury daemon: every three seconds it reads the claimed rows that     *)
(* have no result and looks whether their worker is alive.                 *)
(***************************************************************************)
WorkersOf(t) == {p \in Pids : tk[p] = t /\ pc[p] \in Alive}

\* A claimed row without a result.
BadUnfinished(t) == status[t] = "running"
Unfinished(t) == pid[t] # NoPid /\ status[t] \notin Ended

BurySelect ==
  /\ buryList = {} /\ burying = NoTask
  /\ buryList' = {t \in Tasks : Unfinished(t)}
  /\ UNCHANGED <<dbVars, procVars, callVars, burying, opsVars, histVars, lost>>

\* kill( 0, $pid ) fails.
BadGone(t) == TRUE
Gone(t) == pc[pid[t]] = "dead"

BuryCheck(t) ==
  /\ burying = NoTask /\ t \in buryList
  /\ ~aged[t]
  /\ buryList' = buryList \ {t}
  /\ burying' = IF Gone(t) THEN t ELSE NoTask
  /\ UNCHANGED <<dbVars, procVars, callVars, opsVars, histVars, lost>>

\* Before it kills or fails a task, bury gives it a reason if it has none.
BuryReason(t) ==
  /\ reason[t] = "null"
  /\ \/ burying = t /\ SetReason(t, "unknown")
     \/ /\ burying = NoTask /\ t \in buryList /\ aged[t]
        /\ SetReason(t, "killed")
  /\ UNCHANGED <<status, pid, notify, aged, sub, vv, procVars, envVars,
                 histVars, lost>>

\* A task older than seven days is killed by name first; a process just killed
\* may still answer the probe.
BuryTimeout(t) ==
  /\ burying = NoTask /\ t \in buryList
  /\ aged[t] /\ reason[t] # "null"
  /\ buryList' = buryList \ {t}
  /\ Exit(WorkersOf(t))
  /\ \/ burying' = t
     \/ ~Gone(t) /\ UNCHANGED burying
  /\ UNCHANGED <<dbVars, callVars, opsVars, histVars, lost>>

\* The row read at BurySelect is failed whatever it holds by now.
BuryFail ==
  LET t == burying IN
  /\ t # NoTask /\ reason[t] # "null"
  /\ status' = [status EXCEPT ![t] = "fail"]
  /\ burying' = NoTask
  /\ UNCHANGED <<pid, reason, notify, aged, sub, vv, procVars, callVars,
                 buryList, opsVars, histVars, lost>>

\* Seven days pass.
Age(t) ==
  /\ t \in LongTasks /\ pid[t] # NoPid /\ ~aged[t]
  /\ aged' = [aged EXCEPT ![t] = TRUE]
  /\ UNCHANGED <<status, pid, reason, notify, sub, vv, procVars, envVars,
                 histVars, lost>>
-----------------------------------------------------------------------------
(***************************************************************************)
(* Requests of users and operators.                                        *)
(***************************************************************************)

\* POST /subtask with control "next": any row whose pause flag is set.
LiftPause(t, k) ==
  /\ sub[t][k].pause
  /\ sub' = [sub EXCEPT ![t][k].pause = FALSE]
  /\ UNCHANGED <<rowVars, vv, procVars, envVars, histVars, lost>>

\* POST /subtask with control "running", "ignore" or "fail": any row that asks
\* for a decision.
Answer(t, k, c) ==
  /\ sub[t][k].status = "decision"
  /\ c = "running" => hist[t][k].grants < MaxRetry
  /\ sub' = [sub EXCEPT ![t][k].status = c]
  /\ hist' = IF c = "running" THEN [hist EXCEPT ![t][k].grants = @ + 1]
             ELSE hist
  /\ UNCHANGED <<rowVars, vv, procVars, envVars, lastRan, lost>>

\* The second statement of a request "fail"; it is sent whether or not the row
\* asked for a decision.
AnswerReason(t) ==
  /\ t \in Meddled \/ \E k \in Steps : sub[t][k].status = "fail"
  /\ reason[t] = "null"
  /\ SetReason(t, "stopped")
  /\ UNCHANGED <<status, pid, notify, aged, sub, vv, procVars, envVars,
                 histVars, lost>>

\* DELETE /killtask/:uuid reads the row, probes the pid, ...
KillRead(t) ==
  /\ t \in Meddled
  /\ killer[t] = "idle"
  /\ status[t] \notin {"success", "fail"}
  /\ pid[t] # NoPid
  /\ killer' = [killer EXCEPT ![t] = "read"]
  /\ UNCHANGED <<dbVars, procVars, callVars, buryVars, maintain, histVars,
                 lost>>

\* ... kills every process of that name, ...
Kill(t) ==
  /\ killer[t] = "read"
  /\ \/ /\ Gone(t)
        /\ killer' = [killer EXCEPT ![t] = "idle"]
        /\ UNCHANGED procVars
     \/ /\ ~Gone(t)
        /\ killer' = [killer EXCEPT ![t] = "killed"]
        /\ Exit(WorkersOf(t))
  /\ UNCHANGED <<dbVars, callVars, buryVars, maintain, histVars, lost>>

\* ... and writes the reason.
KillReason(t) ==
  /\ killer[t] = "killed"
  /\ killer' = [killer EXCEPT ![t] = "idle"]
  /\ SetReason(t, "killed")
  /\ UNCHANGED <<status, pid, notify, aged, sub, vv, procVars, callVars,
                 buryVars, maintain, histVars, lost>>

\* An operator creates or removes c3.maintain.flow.
Maintain ==
  /\ Maintains
  /\ maintain' = ~maintain
  /\ UNCHANGED <<dbVars, procVars, callVars, buryVars, killer, histVars, lost>>
-----------------------------------------------------------------------------
\* What a worker does by itself; Mishap is what may befall it.
Work(p) ==
  \/ Start(p) \/ Claim(p) \/ ClaimTaken(p)
  \/ Load(p) \/ Limit(p) \/ LimitReached(p) \/ Mutex(p) \/ MutexTaken(p)
  \/ InitRows(p) \/ MarkVersion(p) \/ RecordVersion(p)
  \/ StepFiltered(p) \/ Begin(p) \/ Script(p) \/ ApprovalEnds(p)
  \/ Decide(p) \/ Wait(p) \/ Poll(p) \/ Resume(p) \/ Close(p)
  \/ Pause(p) \/ Hold(p) \/ Unpause(p) \/ Final(p)

Mishap(p) == \/ LoadDie(p) \/ BodyDie(p) \/ StepDie(p) \/ ScriptDies(p)
             \/ LostWrite(p) \/ Crash(p)

Call == \/ CallSelect(counted) \/ CallSelect({})
        \/ \E t \in Tasks : CallSkip(t) \/ \E p \in Pids : CallFork(t, p)

Bury == \/ BurySelect \/ BuryFail
        \/ \E t \in Tasks : BuryCheck(t) \/ BuryReason(t) \/ BuryTimeout(t)

User == \E t \in Tasks :
          \/ \E k \in Steps :
               \/ LiftPause(t, k)
               \/ \E c \in {"running", "ignore", "fail"} : Answer(t, k, c)
          \/ AnswerReason(t) \/ KillRead(t) \/ Kill(t) \/ KillReason(t)

Next ==
  \/ \E p \in Pids : Work(p) \/ Mishap(p)
  \/ Call \/ Bury \/ User \/ Maintain
  \/ \E t \in Tasks : Age(t)

Spec == Init /\ [][Next]_vars

\* The daemons loop for ever, %count is emptied every ten seconds and time
\* passes; a live worker goes on, and not every process forked for a row dies
\* in the moments before it has claimed it.  Users and operators owe nothing.
FairSpec ==
  /\ Spec
  /\ WF_vars(Call) /\ SF_vars(CallSelect({})) /\ WF_vars(Bury)
  /\ \A p \in Pids : WF_vars(Work(p)) /\ SF_vars(Start(p)) /\ SF_vars(Claim(p))
  /\ \A t \in Tasks : WF_vars(Age(t))
-----------------------------------------------------------------------------
(***************************************************************************)
(* Properties.                                                             *)
(***************************************************************************)

\* Type invariant of the rows, the processes and the daemons.
TypeOK ==
  /\ status \in [Tasks -> Statuses]
  /\ pid \in [Tasks -> Pids \cup {NoPid}]
  /\ reason \in [Tasks -> Reasons]
  /\ notify \in [Tasks -> 0..4]
  /\ aged \in [Tasks -> BOOLEAN]
  /\ sub \in [Tasks -> [Steps -> SubRow]]
  /\ vv \in Versions
  /\ pc \in [Pids -> Alive \cup {"free", "dead"}]
  /\ tk \in [Pids -> Tasks \cup {NoTask}]
  /\ loc \in [Pids -> Locals]
  /\ callList \subseteq Tasks /\ counted \subseteq Tasks
  /\ buryList \subseteq Tasks /\ burying \in Tasks \cup {NoTask}
  /\ killer \in [Tasks -> {"idle", "read", "killed"}]
  /\ maintain \in BOOLEAN
  /\ hist \in [Tasks -> [Steps -> History]]
  /\ lastRan \in Tasks \cup {NoTask}
  /\ lost \in 0..MaxLost

\* call forks a second worker for a row whose first worker is slow to claim it
\* (JOB/code/server/call:38-56).  However many are forked, only the one whose
\* pid the row holds ever gets past the claim (JOB/code/task:43-45).
OneWorker ==
  \A p \in Pids : pc[p] \in Working => pid[tk[p]] = p

\* JOB/code/jobs runs the steps in the order of the job and stops at the first
\* that fails: a worker at step k has success or ignore for every step before
\* k, and nothing was run of a step after k.
StepsInOrder ==
  \A p \in Pids : pc[p] \in InPlugin =>
    \A k \in Steps :
      /\ k < loc[p].step => hist[tk[p]][k].outcome \in {"success", "ignore"}
      /\ k > loc[p].step => /\ hist[tk[p]][k].outcome = "none"
                            /\ hist[tk[p]][k].runs = 0

\* A retry works on the failed nodes only (JOB/code/plugin_cmd:278,
\* JOB/code/plugin_scp:391): no script runs again where it succeeded.
NoRepeatOnSuccess ==
  \A p \in Pids : pc[p] = "script" =>
    loc[p].todo \cap hist[tk[p]][loc[p].step].ok = {}

\* A failed script is started again only for a user who answered "running"
\* (JOB/code/plugin_cmd:293-309, JOB/lib/api/subtask.pm:137-141).  If the write
\* that asks is lost, the worker may read the answer given before.
RetryNeedsAnswer ==
  lost = 0 =>
    \A t \in Tasks, k \in Steps : hist[t][k].runs <= hist[t][k].grants + 1

\* What a retry may do: it is asked for, and leaves alone what has succeeded.
RetryDiscipline == NoRepeatOnSuccess /\ RetryNeedsAnswer

\* The result in the row is the result of the steps: success only if every
\* step gave success or ignore, refuse only if one was refused.
ResultHonest ==
  \A t \in Tasks :
    LET given == {hist[t][k].outcome : k \in Steps}
    IN  /\ status[t] = "success" /\ InJob[t] =>
             given \subseteq {"success", "ignore"}
        /\ status[t] = "success" /\ ~InJob[t] => hist[t][1].outcome = "success"
        /\ status[t] = "refuse" => "refuse" \in given /\ "fail" \notin given

\* The steps of a job run in turn and decide its result.
StepProtocol == StepsInOrder /\ ResultHonest

\* A task is waiting exactly while its worker asks for a decision or holds a
\* pause, unless the worker died there: this is what the users are notified of
\* (JOB/code/server/notify:55-56) and where they must act.  A write that is lost
\* breaks it.
WaitingMeansAsking ==
  lost = 0 => \A t \in Tasks : pid[t] # NoPid =>
    LET place == pc[pid[t]] IN
    /\ place \in {"poll", "hold"} => status[t] = "waiting"
    /\ status[t] = "waiting" =>
         place \in {"poll", "resume", "hold", "unpause", "final", "dead"}

\* At most JobLimit - 1 tasks of one job are past the check of
\* JOB/code/task:72-77 at a time, whatever the order of claims and checks.
LimitKept ==
  \A j \in Jobs :
    LET past == {p \in Pids : /\ pc[p] \in InBody \cup {"mutex"}
                              /\ InJob[tk[p]] /\ JobOf[tk[p]] = j}
    IN  past = {} \/ Cardinality(past) < JobLimit

\* The VERSION row says a job brought its version to the target only if every
\* step of that job went well (JOB/code/jobs:109-113).  Of a version a script
\* printed this is not so (JOB/code/plugin_cmd:255-264): all it says is that a
\* step that prints one was run, after the steps before it had gone well.
VersionHonest ==
  \A t \in Tasks :
    LET well(k) == hist[t][k].outcome \in {"success", "ignore"}
    IN  /\ vv = <<"done", t>> => \A k \in Steps : well(k)
        /\ vv = <<"said", t>> =>
             \E k \in Prints[t] : /\ hist[t][k].runs > 0
                                  /\ \A i \in 1..(k - 1) : well(i)

\* Two tasks with the same mutex do not run scripts at the same time
\* (JOB/code/task:79-86).
MutexExclusive ==
  \A p, q \in Pids :
    /\ p # q /\ pc[p] = "script" /\ pc[q] = "script"
    /\ MutexOf[tk[p]] # NoMutex
    => MutexOf[tk[p]] # MutexOf[tk[q]]

\* When the VERSION row holds a version without "Do_", no other job that brings
\* a version and no other script that printed one has run on the target since
\* (JOB/code/jobs:55-70 and 109-113, JOB/code/plugin_cmd:255-264).  A job
\* without the variables version and ip leaves no mark in the row.
VersionIsLastRun ==
  vv[1] \in {"done", "said"} => lastRan = vv[2]

\* A result is final: what the worker wrote is not changed later.
ResultFinal ==
  [][\A t \in Tasks : status[t] \in Ended => status'[t] = status[t]]_vars

\* A task that ended is never set going again, by a second worker, a late
\* answer or a lifted pause; all that can happen to a result is that bury
\* turns it into a failure.
NeverReopened ==
  [][\A t \in Tasks : status[t] \in Ended /\ status'[t] # status[t] =>
       burying = t /\ status'[t] = "fail"]_vars

\* The places of a worker that write the status of its task, and what.
Writes == [claim |-> {"running"}, wait |-> {"waiting"}, resume |-> {"running"},
           pause |-> {"waiting"}, unpause |-> {"running"}, final |-> Ended]

\* A status is written by the step of the worker whose pid the row holds or
\* comes to hold, and only what belongs to the place the worker is at; or by
\* bury, for a row it holds, whose worker is dead.  Nobody else writes it: not a
\* second worker forked for the row, no answer to a step
\* (JOB/lib/api/subtask.pm:125-150) and no kill (JOB/lib/api/slave.pm:188-232).
OwnerWrites ==
  [][\A t \in Tasks : status'[t] # status[t] =>
       \/ /\ burying = t /\ burying' = NoTask
          /\ pc[pid[t]] = "dead" /\ status'[t] = "fail"
       \/ \E p \in Pids : /\ tk[p] = t /\ pid[t] \in {NoPid, p} /\ pid'[t] = p
                          /\ pc[p] \in DOMAIN Writes /\ pc'[p] # pc[p]
                          /\ status'[t] \in Writes[pc[p]]]_vars

\* What the rest of open-c3 may rely on: see JobLifecycle.
Hand == [t \in Tasks |-> IF pid[t] = NoPid THEN "none"
                        ELSE IF pc[pid[t]] = "dead" THEN "gone" ELSE "live"]
Lifecycle == INSTANCE JobLifecycle WITH phase <- status, hand <- Hand

\* The task engine keeps the promise of JobLifecycle.
KeepsLifecycle == Lifecycle!Spec

\* Whatever happens to its worker and whether or not a user ever answers, a
\* claimed task gets a result: bury fails it at the latest seven days on.
ClaimedEnds ==
  \A t \in Tasks : (pid[t] # NoPid) ~> (status[t] \in Ended)

\* A row is claimed sooner or later once maintenance is over, whatever becomes
\* of the first workers forked for it.
TaskTaken ==
  \A t \in Tasks : <>[]~maintain => <>(pid[t] # NoPid)
=============================================================================
