# Formal models of open-c3

open-c3 releases software to machines and operates them. This directory holds
TLA+ models of its engines, the TLC runs that check them on small instances,
and proofs of the most important facts for every size, checked by TLAPS.

The services are Perl processes. They share no memory and send each other no
messages: they meet in MySQL rows, in the process table (`kill(0, pid)`) and in
a few files. An SQL statement is one atomic step; anything may happen between
two statements, and nearly every statement runs without a transaction. That is
why the code can be modelled well: state is columns, a step is a statement,
and what is hard is what happens in between.

The pages in the browser and the server of the web shell are JavaScript. A
handler there runs to its end before the next one begins, so a step is one
handler. What is hard is what lies between them: requests that are answered in
any order or never, intervals that go on with what was read before, connections
that break with messages on their way.

## 1. Inventory

| Part | State it keeps | Operations | Modelled in |
|---|---|---|---|
| **JOB call daemon** (`JOB/code/server/call`) | `%count` of the rows it forked for, in memory | every second: read rows in `init` of this slave, fork a worker for each new one, forget them all every ten seconds | JobTask |
| **JOB worker** (`JOB/code/task`, `jobs`, `pause`) | `openc3_job_task` (status, pid, reason, notify), `openc3_job_subtask`, `openc3_job_vv` | maintenance switch, claim, limit of a job, mutex, subtask rows, steps in order, pause, VERSION row, result | JobTask |
| **JOB plugins** (`plugin_cmd`, `plugin_scp`) | their row of `openc3_job_subtask`, the nodes still to do | filter, run on nodes, ask for a decision, retry on the failed nodes, buildin flags | JobTask |
| **JOB approval** (`plugin_approval`, `lib/api/approval.pm`, `approve.pm`, `adminapproval.pm`) | `openc3_job_approval`, `openc3_job_plugin_approval_record` | ask the approvers, count answers, time out; answer from four pages | JobApproval; the outcome in JobTask |
| **JOB bury daemon** (`JOB/code/server/bury`) | list read, row in hand | fail rows whose worker is gone; after seven days also live ones | JobTask |
| **JOB subtask and slave API** | the same rows; kill requests | answer a decision, lift a pause, kill | JobTask |
| **JOB notify daemon** (`JOB/code/server/notify`) | column notify | claim a row, tell the users, mark it | JobNotify |
| **JOB cron** (`server/crontab`, `crontask`, `keepalive`) | `openc3_job_crontab_lock`, `openc3_job_keepalive` | one run per minute over all slaves | planned: JobCron |
| **JOBX worker** (`JOBX/code/task`, `subtaskv1`, `subtaskv2`) | `openc3_jobx_task`, `openc3_jobx_subtask`, `openc3_jobx_flowline_version` | plan the batches, have one JOB task made per batch, poll it, wait for confirmation, result, version | JobxTask |
| **JOBX bury, API** | the same rows | fail abandoned tasks; stop (cancel, confirm, kill), confirm, roll back | JobxTask |
| **JOBX grouping** (`group.plugin/percent`) | none (a function of the node list) | split machines into batches | planned: GroupPercent |
| **CI** (`CI/code/...`) | `openc3_ci_version`, `openc3_ci_project` | find tags, build, bury | planned: CiBuild |
| **Web shell** (`web-shell/private/tty.js`: `static/tty.js` in the page, `lib/tty.js` on the server) | tabs and `tty.terms` of a page; sessions, their terminals, the ptys | open, close, type, connect again; create, data, kill, disconnect; shells that end | TtySession |
| **Task pages** (`c3-front/.../history/jobx/detail/detail.controller.js`) | the two rows as last read, intervals, loops, requests on their way | read the rows again and again, stop, ask for a rollback | TaskPage |
| **Forms that check themselves** (`bpm.controller.js`, `createdeployment.controller.js`) | one timer and one error for all fields; counters of what is loaded | check a field while it is typed, send | planned: BpmForm, DeploymentForm |
| AGENT, Connector, ticket system, other pages, exporters | configuration and presentation | see `PROJECT.json`, components | not modelled |

How they interact: a user creates a JOBX task (or rolls one back). Its worker
inserts one row per batch and asks JOB for a task with the uuid of the batch,
by a command (v2) or through the API (v1). The JOB call daemon forks a worker
for that row; its steps may ask people (decision, pause, approval), who answer
through the API into the same rows. The notify daemon tells them. The JOBX
worker reads the status of the JOB row until it is a result, and waits for a
confirmation if it is a failure. A bury daemon in each service ends what lost
its worker. The page of a deployment reads its row and that of its rollback
through the JOBX API, and writes through it: it stops what runs and asks for the
rollback. The web shell stands beside all this: a page and its server talk over
one socket, to terminals on the machines.

What is hard, per part, is listed under `hazards` in `PROJECT.json`, each at
its line. In short:

* two workers forked for one row; rows read early and written late by bury;
* counts and mutexes that are looked at once, outside any transaction;
* decisions, answers, lifted pauses and kills that come late or twice;
* four statements in `eval`s whose error nobody looks at;
* crashes between any two statements, in particular between a result and what
  should follow it (version row, notification);
* JOBX requests that are lost, repeated or outlive the process that sent them;
* stop, confirm and rollback racing with the worker they are aimed at;
* answers to an approval given by two statements without a transaction;
* ids of terminals that the kernel gives away again, tabs closed before the
  answer to their create, kills that arrive on the next connection;
* a page that acts on an answer that has overtaken a newer one, or goes on in an
  interval nobody cancels.

## 2. Modules

    JobLifecycle            what a task row promises to whoever only reads it
      ^ implemented by   JobTask    (TLC, and proved: Refinement)
      ^ implemented by   JobxTask   (TLC, and proved: Refinement)
      ^ assumed by       JobxTask   (the JOB tasks of its batches)
      ^ assumed by       JobNotify  (the tasks it tells of)
      ^ assumed by       TaskPage   (the deployment and its rollback)
    JobApproval             one approval step and the people who answer it
    TtySession              pages and the server of the web shell
    MC<Module>              constants for TLC
    <Module>Proofs          proofs; those of JobTask are in JobTaskProofs and
                            JobTaskStepProofs, those of TtySession in
                            TtyViewProofs and TtySessionProofs

The composition is assume-guarantee. `JobTask` in full below `JobxTask` in full
would be too large for TLC and is not needed: JobxTask contains, for each
batch, an instance of JobLifecycle (action `JobStep`), and JobTask is shown to
do nothing that JobLifecycle does not allow. In the same way TaskPage contains an
instance of it for the deployment and one for the rollback, and JobxTask is shown
to implement it. What JobxTask assumes of the page in turn, that a rollback is
asked for only once the deployment has ended (`Patient`), is `RollbackAfterEnd`
of TaskPage; the case in which that fails is named there and in section 5.

An operator named `Bad...` before a definition is a slip somebody could make in
that code: a dropped condition, a forgotten reset, a swapped order. No action
refers to one. Every property of every passing run is violated when the
definition named in `PROJECT.json` (`mutants`) is replaced by such a slip.

### JobTask

One slave. Variables named like columns are the columns (`status`, `pid`,
`reason`, `notify`, `sub`, `vv`; `aged` stands for `starttimems` lying more
than seven days back). `pc`, `tk`, `loc` are the place, the argument and the
local variables of each worker process; `callList`, `counted`, `buryList`,
`burying` those of the daemons; `killer` a kill request between its three
steps. `vv` is the VERSION row of the one target: which task wrote it, and
whether as a job about to bring its version ("Do"), as one that has brought it
("done"), or because a script printed VERSION:[v] ("said"). `hist`, `lastRan` and
`lost` are read by properties and bounds only; `lastRan` is the last task that ran
a script to bring a version, or whose script printed one.

| Code | Actions |
|---|---|
| `server/call:33-57` | CallSelect (with the ten second window as a set of rows forgotten), CallSkip, CallFork |
| `task:35-86` | Start, Claim, ClaimTaken, Load, LoadDie, Limit, LimitReached, Mutex, MutexTaken |
| `jobs:27-115` | InitRows, MarkVersion, Return (next step, or the end), RecordVersion, StepDie, BodyDie |
| `plugin_cmd:66-326`, `plugin_scp:362-410` | StepFiltered, Begin, Script, ScriptDies, Decide, Wait, Poll, Resume, Close |
| `plugin_approval` | ApprovalEnds: the outcome only, see JobApproval |
| `pause:19-49` | Pause, Hold, Unpause |
| `task:95-104` | Final; Crash is a death anywhere |
| `server/bury:28-60` | BurySelect, BuryCheck, BuryReason, BuryTimeout, BuryFail |
| `lib/api/subtask.pm` | LiftPause, Answer, AnswerReason |
| `lib/api/slave.pm` | KillRead, Kill, KillReason |
| unchecked `eval`s | LostWrite, up to `MaxLost` |

The data is abstracted: a script is "some subset of the nodes fails"; an error
message is its class; formatting is left out. Of the output of a script only the
version it may print is kept (`Prints` says which scripts may): plugin_cmd copies
it to the VERSION row after every run, also from nodes that failed, and dies if it
cannot (`Printed`, `ScriptDies`). Of the variables, `version` and `ip` are kept, per
task (`Versioned`), and `_exit_`. Other names a script may print, and `_appname_`,
which renames the row for all jobs of an application, are left out. Pids are
not used again after they were written to a row: a pid that is used again only
delays bury (section 5).

### JobxTask

`status`, `bstat`, `confirm`, `online` are columns; `plan` is `@group` and names
the machines of a batch by the batch of the deployment they belong to, so that
a rollback, which reorders batches and leaves some out, can be compared with it.
`req` is a request to make the JOB task of a batch: it is a process of its own,
may be repeated by v1, may be answered as an error although the row is there, and
goes on when the worker dies. The uuids of a deployment and its rollback differ in the
case of one letter, and `parent_uuid` is compared without case: the three
statements of a stop and the select of bury reach the batches of both (`Alike`,
`Running`), as they do in the code, which uses `binary` only where it lists batches
(`JOBX/lib/api/subtask.pm:55`). `stopper` is a stop
request between its three statements (cancel, confirm, kill). The four values of
`rollback_mode` are in `Plan`; the runs use PartialReverseRollback, the mode in
which the plan depends on what the deployment did. The two reads behind the plan
(`JOBX/code/task:165`, `175`) are one step: with `Patient` the deployment has its
result by then, and only a stop still changes its rows, from waiting to cancelled,
which `WorkedOn` does not tell apart.

### JobNotify

Several slaves run the daemon over one table. Select, Claim, Send, Mark and
Sleep are its statements; Change and End are what workers and bury do to the
row (they are steps of JobLifecycle, with what the code does to `notify`). A
message counts as told when it is handed to `$notify->run`. `mishaps` counts
deaths and lost statements; `dropped` remembers what was claimed and is told to
nobody: the daemon died, or its claim was written and the answer to it lost.

### JobApproval

A row per approver; `closing` holds the second statement of each answer while it
is still to come. Anybody may send a request for any row: the first statement answers
it only if it is open and the sender's own, the second closes what is open in any
case (`JOB/lib/api/approve.pm:55`, `56`). `rule` holds what the plugin
read from its row (`relaxed`, `everyone`) and whether the page behind
`approve.pm` is in use, which leaves a remark the loop does not leave out. It is
chosen in Init and never changes, so that one run covers all twelve rules.

### TtySession

`tabs` and `terms` are what a page keeps, `session`, `listed` and `pty` what the
server keeps, `buffer`, `up` and `down` what is on its way. A connection that is
made again is a new session. Messages carry, for the properties only, the tab
they are about; no action of the server reads it but to put it into the answer to
create, which goes to the callback of that tab.

| Code | Actions |
|---|---|
| `static/tty.js`: `new Tab`, `Tab.destroy`, `Tab.handler` | OpenTab, AutoOpen, CloseTab, Type |
| `static/tty.js`: socket handlers | Connect with Reset, Answered, Killed, Output |
| `lib/tty.js`: `Session.handle...` | HandleCreate, HandleData, HandleKill, HandleDisconnect |
| `lib/tty.js`: events of a terminal | ShellExits, PtyClose, PtyOutput |
| socket.io (external) | LinkLost; order and loss of messages |

`ShellExits` and the time between `Destroy` and `PtyClose` are pty.js and the
kernel: a terminal closes some time after it is told to, and only then is its
name free.

### TaskPage

One window of the page. `exist`, `show`, `detail`, `timer` are variables of the
controller, `loops` the intervals its three Kill functions run, `get` and `put`
the requests on their way, each with its answer once it was served. `late` is
read by properties only: it remembers that an answer has overtaken a newer one.

| Code | Actions |
|---|---|
| `vm.reload`, `vm.reloaXd`, intervals F5 and FX5 | Refresh, Tick, Serve, Answer |
| `isRollback` | Open, IsRollback |
| `killTaskDeploy`, `killTaskRollback`, `rollbackJudge` | Kill, KillTick |
| `rollbackJudge`, `vm.rollback` | Judge, Put, PutFails, Asked |
| `$destroy` | Leave |
| `JOBX/lib/api/task.pm` (rollback of another page) | OtherPut |
| `JOBX/code/task`, `bury` | Engine: steps of JobLifecycle |

A stopped deployment is not made to end here: whether and how stopping ends it is
JobxTask's subject, and for the page a deployment may end at any time.

## 3. Runs

The bounds are constants named `Max...` or sets (`LongTasks`: which tasks may
grow older than seven days; `Meddled`: which tasks users kill, stop or answer
out of turn; `Hasty`: which batches they confirm unasked; `Maintains`), so that
each run pays for the behaviour it is about. Why the instances are large enough: the code compares at most two tasks (mutex, limit)
or two processes (claim) at a time, a step only looks at itself and at the
verdict so far, and bury and call treat rows independently.

| Run | Instance | Question |
|---|---|---|
| JobTask_steps | 1 task, 2 processes; an approval with a pause, a filterable cmd that is a buildin, a backup; 2 nodes, the cmd prints a version, kills, late answers, two lost writes | order of steps, no repeated work, honest result and version, one worker, who writes the status, refinement of JobLifecycle |
| JobTask_jobs | 2 tasks of one job (a cmd that brings a version, an scp that does not) and a lone plugin that prints one, one mutex, limit 2, `_exit_` set | the count after the claim keeps the limit; scripts exclude each other; VERSION names who brought or printed it last |
| JobTask_live | 1 task, 2 processes, pause, maintenance, fairness | a row is claimed, a claimed task ends |
| JobTask_mutex_pause, JobTask_bury_race | violations | findings 1 and 2 |
| JobxTask_batches | 2 batches (subtaskv2) that wait for a confirmation when they fail, and their rollback with `_exit_`, a version before, a stop any time, refusals, the first batch confirmed unasked | one batch at a time, confirmation, cancel, honest results, version row, what a rollback covers and when it may run, refinement |
| JobxTask_live | 2 batches (subtaskv1), requests posted twice, timeouts, nobody confirms, fairness | a task gets a result |
| JobxTask_refused | violation | finding 3 |
| JobNotify | 1 task that waits or goes on 3 times, 2 daemons, 2 mishaps, fairness | told once; a waiting task and a plain result are told |
| JobApproval | 3 approvers, the submitter and his leader among them, 3 rounds, every rule | granted and refused by those who answered; answers kept and heard; the step ends |
| TtySession | 1 page, 3 tabs, 2 connections, 2 ids, one thing said | input and output stay with their tab; page and server agree at rest; no shell is forgotten |
| TaskPage | 2 requests for rows and 1 for a rollback at a time, 1 loop, deployments that fail, another page, fairness | no rollback before the end; the page shows the results; stopping ends |

A page of TtySession needs two connections so that a kill can arrive on the wrong
one, and fewer ids than tabs so that an id is used again while the old tab is
still known; ids of different pages differ as those of one page do, so one page is
enough. In TaskPage two requests on their way are what it takes for one to overtake
the other; the results differ in nothing the loops look at, so "fail" stands for
them in the run, while the proofs have all of them.

JobTask_steps has no maintenance, which ends before the claim and meets nothing that
comes after it; JobTask_live and JobTask_bury_race have it. JobxTask_batches has no
task older than seven days, JobxTask_live has: what bury does to a live worker ends
in the state a crash leaves. The largest runs are JobTask_jobs (3.7 million distinct
states), JobTask_steps and JobxTask_batches (1.5 million each).

Deadlock: a JOBX deployment, an approval, a table in which nothing is left to
tell, a web shell whose connection is gone and a page that was closed really come
to rest, so their configurations switch the deadlock check off; in JobTask the
daemons always can go on, and deadlock is checked.

Symmetry (processes, nodes, tasks, ids of ptys) is used in runs without liveness
only, and only where no other constant tells the permuted values apart.

### Fairness

* JobTask `FairSpec`: the daemons are loops, so call and bury are weakly fair;
  a process that can go on does; time passes (`Age`). `SF` of `CallSelect({})`
  is the ten second emptying of `%count`, whose clock goes on whatever call
  does. `SF` of Start and Claim says that not every process dies in the moments
  before its claim: the code retries without limit, but no retry helps if all of
  them die. Users and operators owe nothing: nobody has to answer, lift a pause
  or end the maintenance.
* JobxTask `FairSpec`: the worker, requests and bury are weakly fair; `SF` of
  BuryCheck and BuryFail says that a daemon which may be interrupted at each row
  is not interrupted there for ever. Of JOB it assumes that a task that exists
  is taken and ends, which are `TaskTaken` and `ClaimedEnds` of JobTask.
* JobNotify `FairSpec`: the daemons loop. Deaths and lost statements are bounded
  by `MaxMishaps`; a row claimed by a daemon that died, or that did not get the
  answer of its update, is not claimed again, so its message is lost
  (a choice of the code: at most once), and the liveness properties leave such messages out by name (`dropped`).
* JobApproval `FairSpec`: the plugin loops; nobody has to answer.
* TaskPage `FairSpec`: the engine ends a task (`TaskTaken` and `ClaimedEnds`
  again), a request is served and its answer handled, which is weak fairness.
  `SF` of Tick and KillTick says that intervals fire again and again
  (`$interval`): that one may have to wait until fewer than `MaxGets` requests
  are on their way is a bound of the model and not of the page. Users owe nothing.

## 4. Proofs

Every proof is about all values of the constants that the module's own named
assumption allows; where more is assumed it is said below. No proof assumes
fairness.

`JobTaskProofs` proves, for any number of tasks, processes, steps, nodes and
jobs, who may change a task:

* **TypeCorrect**: `Spec => []TypeOK`. The invariant that is inductive is
  `TypeInv == TypeOK /\ RetOK`: the type of what a plugin returns depends on
  where the worker is (`Resume` copies the answer of a user into `ret`, and
  `Return` needs that it is a result), which `RetOK` says.
* **OnlyOneWorker**: `Spec => []OneWorker`. `OneWorker` is not inductive: a
  process that leaves could, for all it says, be the one another row names.
  `OwnerInv` adds that a pid in a row is that of a process that claimed this
  row and is past the claim or dead; that a row is `init` exactly while it has
  no pid; that a row with a result, and a row bury has in hand, has a dead
  worker.
* **ResultsStay**, **OwnersWrite**: the action properties NeverReopened and
  OwnerWrites follow from `Inv == TypeInv /\ OwnerInv` step by step. OwnerWrites
  says of every write of a status whose step it is: that of the worker whose pid
  the row holds or comes to hold, which is at one of the six places that write a
  status (`Writes`), writes what belongs there and moves on; or that of bury, which
  has the row in hand, lets it go, and writes "fail" over a worker that is dead. A
  second worker, an answer or a kill that wrote a status would violate it.
* **Refinement**: `Spec => KeepsLifecycle`, the refinement of JobLifecycle under
  `phase <- status`, `hand <- Hand`.

The actions are first sorted (lemma `Shapes`) by what they do to status,
pid, place and bury's list: a worker moves, starts, leaves, or nothing the
argument is about changes; only Claim, Final, Crash, Kill and bury are treated
one by one. The same sorting serves the invariant, the action properties and
the refinement.

`JobTaskStepProofs` goes on from there with what a worker does to the steps of
its task. Each invariant is a statement about one task, the place and the local
variables of its worker, and the history of its steps (`OrderAt`, `RetryAt`,
`WaitAt`, `RunningAt`); lemma `WorkerOwn` says that a step of a worker changes
nothing of another's task, and lemma `StepKinds` sorts the other actions, so that
what remains is one worker and one task at a time.

* **StepsDecide** (StepProtocol), from `OrderInv`. StepsInOrder is not inductive:
  that nothing was done of the next step when it begins, and that the result
  about to be written is honest, depend on where the worker is. `OrderInv` says
  of a worker before its first step that no step was touched; of one in step k
  that those before went well, k has no result and those after are untouched; of
  one that ends that what it will write is what the steps deserve. It also keeps
  `RanAt`, that a step which went well has run its script, for the last theorem.
* **RetriesAsked** (RetryDiscipline), from `RetryInv`: a worker that has an answer
  "running" in hand, or whose row holds one, has more answers than runs but the
  first, and its nodes left to do are disjoint from those that succeeded. A lost
  write makes the worker read an old answer, hence the condition in it.
* **WaitingTasksAsk** (WaitingMeansAsking), from `WaitInv`, the same statement for
  the worker instead of the row.
* **VersionIsHonest** (VersionHonest), from `VersionInv`: a job writes "done" when
  all its steps went well, and what went well is not changed any more. Of a version
  a script printed it says what is true of it: the step that printed it was run,
  after those before it went well. It may have failed, see section 5.
* **LimitIsKept** (LimitKept), by counting. `LimitInv` says the property and that
  finitely many tasks are claimed. A worker that reads the count finds every
  worker past the check among the tasks it counts, one task each (lemma
  `OneEach`, an injection), and itself; nothing else brings a worker past it.
  The set of tasks need not be finite.
* **MutexIsExclusive** (MutexExclusive) under `ASSUME NothingWaits`: `_exit_` is
  set and no step pauses. Without it the statement is false, which is finding 1.
  `MutexInv` says it of every place from the check of the mutex to the last
  script, and that the row is "running" there, so that the check sees it; a task
  that fails waits for a moment even with `_exit_`, and runs no script after.
* **VersionNamesLastRun** (VersionIsLastRun) under `NothingWaits` and `OneTarget`:
  all tasks that may write the row (jobs that bring a version, scripts that print
  one) share a mutex, and each job that brings a version has a cmd or scp step that
  no filter leaves out. `LastRunInv` says that while such a job may still run a
  script the row reads "Do" and its own task, or what its own script printed, and
  that the last of these scripts was its own or it has not run one yet; and that a
  row without "Do" names the last one. Both assumptions hold in JobTask_jobs.
  Without a common mutex another of them may run between the last script and the
  row, and a job that runs no script has no last run to name. Jobs without the
  variables `version` and `ip` are free: they run on the target, with or without a
  mutex, and leave no mark, so the row does not speak of them.

`JobApprovalProofs` proves, for any approvers, rules and number of rounds:

* **TypeCorrect**: `Spec => []TypeOK`.
* **AnswersStay**: an answer given in time is never overwritten (VoiceKept).
* **OnlyVotersGrant**: a step that ends in success has the agreement of all those
  who must agree, or, where one is enough and the mobile page is not in use, of one
  who was asked (GrantedByVoters), whoever else sends requests. On the mobile page
  nothing of the kind holds where one is enough, see section 5.
* **RefusalIsFinal**: a refusal given in time stands (RefusalStands).
* **OnlyVotersRefuse**: a step that fails by refusal was refused by somebody who
  may refuse (RefusedByVoter).
* **VoicesHeard**: where one voice is enough, the step does not run out of time
  over an answer that was given (VoiceHeard).

None of these is inductive. `Inv` adds what the plugin knows between its
steps: rows are inserted in order and before the loop; a row nobody has answered
carries no remark, so the "closed" mark of a later statement cannot hide an
answer; away from the mobile page an agreement is somebody's own or marked as a
closing, and where everybody must agree it is always somebody's own; and who is no
longer in `%approver` has agreed. The last one needs lemma HeardAgreement: away from
the mobile page an agreement the loop hears is somebody's own.

OnlyVotersRefuse has an invariant of its own, `RefusalsBehind`: away from the
mobile page a refusal the loop reads is somebody's own. VoicesHeard has `AllAsked`:
where one voice is enough, everybody is in `%approver` until the step has ended.

`JobNotifyProofs` proves **TypeCorrect** and **NobodyToldTwice** (ToldOnce) for
any number of daemons and tasks. A claim is remembered with the number of times
the worker had set `notify` back by then; the invariant says that no claim lies in
the future, and that a column that still may be claimed has no claim of its time
(`ClaimsOld`), and that two daemons about to tell of one task claimed it at
different times (`ClaimsDiffer`).

`JobxTaskProofs` proves, for any number of deployments and batches:

* **TypeCorrect**, with `PlaceInv`: a batch in hand is one of the plan, and a worker
  that has not begun with its batches is at the first, with nothing against it.
* **CancelHonoured** (CancelledNeverRuns), **Refinement** (KeepsLifecycle) and
  **VersionsSucceed** (VersionOfSuccess), from `RowInv` (the status in a row
  against the place of its worker) and `BatchInv` (nothing is asked for a batch
  that was not taken up, and a worker takes them up one after the other).
* **VerdictsHonest** (ResultHonest, which VerdictHonest contains), from
  `VerdictInv`: the verdict so far is that of the batches so far, and so is the
  result in the row. This one holds for both ways to make a JOB task.
* **TurnsKept** (BatchesInTurn) and **ResultsHonest** (VerdictHonest) under
  `ASSUME ~Api`: the batches are run by the command (subtaskv2). Through the API
  they do not hold, see section 5. `TurnInv` says of each batch that it has one request
  at most, which is answered when the JOB task is there, and of each task that no
  batch is taken up before those in front are over and their JOB tasks have ended.
* **RollbacksCover** (RollbackCovers) and **RefusalsStand** (RefusedNotRolledBack)
  under `ASSUME Patient`: a rollback is asked for only once the deployment has
  ended, as the page does it unless an answer was overtaken (RollbackWaits below).
  `RollInv` says that every batch of the deployment
  for which something was asked is in the plan of the rollback, and that the
  rollback of a refused deployment asks for nothing.

`TaskPageProofs` proves **TypeCorrect** and **RollbackWaits** (RollbackAfterEnd)
for any number of requests and loops. `NotAhead` says that nothing on the page
or on its way to it is further than the row it was read from; `LoopsBegan` that a
loop that will ask for a rollback began when the page showed a running deployment,
and that nothing older is shown since, unless `late` says so. From both: when the
status shown is not "running" any more, the deployment has ended.

`TtyViewProofs` and `TtySessionProofs` prove all of TtySession for any number of
pages, tabs, connections and ids: **TypeCorrect**, **TypedReachesOwn**
(OwnTerminal), **AgreeWhenQuiet** (AgreeAtRest) and **NoneForgotten**
(NoShellForgotten). The invariant of a connected page is `View`, a statement about
its tabs, its map of ids, the two queues, and the terminals of its session; it
says how far each terminal has got on its way from create to kill, and that
messages about an id come in turn: answer, data, kill, and the answer for the next
tab only after that. `TtyViewProofs` has one lemma for each thing that can happen
to these values; `TtySessionProofs` shows that each handler does one of them to one
page and nothing to the others, and adds what a page without a connection keeps
to send (`Kept`) and that a live terminal is listed by a session that is open
(`SessInv`).

Every safety property of the passing runs is proved. What is only model-checked
is liveness: TaskTaken of JobTask, ClaimedEnds of JobTask and of JobxTask,
StepEnds of JobApproval, UsersTold of JobNotify, SettledPage and KillEnds of
TaskPage. The prover does not reason about ENABLED, and so not about fairness. No
proof needs induction over data, and no module declares a RECURSIVE operator.

## 5. Findings

Three runs end in a violation: the code does not do what a comment or a column
comment of the repository says. Lines and quotes are in `PROJECT.json`.

1. `JobTask_mutex_pause`: a task that waits does not count as a holder of its
   mutex and resumes without looking again; two tasks with one mutex run.
2. `JobTask_bury_race`: bury fails a row it read before the worker wrote success.
3. `JobxTask_refused`: a worker that dies while its JOB task is refused leaves a
   task that runs for ever.

Further behaviour the models have, which is why some properties are stated with
a condition:

* The second worker of a row leaves "Already running" (`JOB/code/task:45`) as
  the reason, shown as the error, of a task that may then succeed.
* A rollback requested through the API while the deployment still runs looks at
  its status once and goes on when the deployment is refused later
  (`JOBX/code/task:133`). `RefusedNotRolledBack` holds with `Patient = TRUE`,
  which is what the page offers, and fails with `FALSE`.
* With `Api = TRUE` and `MaxPosts = 2`, a request posted again may come back as
  an error because the first one inserts the row in between
  (`JOB/lib/api/task.pm:428`): `BatchesInTurn` and `VerdictHonest` fail there.
* The command that makes a JOB task outlives its worker: after bury has failed
  the task, the JOB task may still be made (`JOBX/code/server/bury:101`).
* `notify` is not set back when a result is written, so that the failure of a
  task that died while it waited is told to nobody (`JOB/code/task:101`,
  `JOB/code/server/bury:57`). `UsersTold` asks it of tasks that never waited.
* The mobile page leaves 'close by' (`JOB/lib/api/approve.pm:56`), which the loop
  of `plugin_approval:289` does not leave out, and this second statement asks
  neither whose row the request names nor whether the first found it open. Where
  one approver is enough, a request sent for a row of somebody else, or a second
  one for a row already answered, therefore counts as an answer nobody who was
  asked has given. `RefusedByVoter` excludes this page, `GrantedByVoters` where one
  is enough.
* A version a script prints is written to the VERSION row after every run, before
  the failed nodes are even looked at (`JOB/code/plugin_cmd:255`): the row may name
  a version whose step, and job, failed. The same write may end a plugin whose
  script went well (`plugin_cmd:262`).
* A stop and the bury daemon of JOBX go by `parent_uuid` without regard to case
  (`JOBX/lib/api/task.pm:328`, `331`, `338`, `JOBX/code/server/bury:93`): stopping a
  rollback also cancels the batches of its deployment that still wait and confirms
  those that ask, and bury, which looks at one running batch, may look at that of
  the other. No property checked here changes its truth by it.
* A stop confirms every batch that waits and then kills the JOB task that runs,
  whose failure waits again: the deployment hangs until somebody presses the
  button a second time (`JOBX/lib/api/task.pm:331`).
* Requests of a page are not numbered. An 'init' that was read before the
  deployment began and comes after a 'running' counts as "not running", and
  `rollbackJudge` asks for the rollback (`detail.controller.js:538`).
* The loop that stops a rollback reads the row of the deployment
  (`detail.controller.js:490`), and leaving the page cancels FX5 and not the loop:
  it then sends DELETE every time it fires. `Stranded` in `KillEnds`.
* The result of a batch's task and its steps are read by two requests; if the
  steps were served before their last change and the result after it,
  `jobReloadStatus` stops the reading and a step stays at work on the screen
  (`detail.controller.js:254`). In the same way the list of batches is not read
  again once F5 was cancelled (`detail.controller.js:175`).
* The shell of a tab that was closed before the answer to its create goes on until
  the connection ends (`static/tty.js:607`, `728`): the kill the tab sent named no
  terminal. `AgreeAtRest` has it as "dropped".
* Any process that knows the uuid may write the reason of a task, and the first
  one wins (`JOB/lib/Logs.pm:57`). A die inside a plugin leaves its subtask row
  'running' (`JOB/code/jobs:78`). A pid that is used again by another process keeps
  bury away for up to seven days (`JOB/code/server/bury:48`).

## 6. Not modelled

* The transport to the machines, the MyDan tools, kubectl, git, mail and SMS:
  from here they succeed or fail.
* The second half of the notify daemon (approvals): the same four statements on
  another column.
* The filter of `plugin_cmd` and `plugin_approval` by environment, action and
  batch: whether a step is filtered is a free choice in JobTask.
* `skipSameVersion` (`JOB/code/jobs:95`), which would end a job at once with
  success: no plugin of the repository returns it.
* Creation of tasks through the API: a task in `init` is the initial state.
* The race of the JOBX call daemon for one row: the claim (`JOBX/code/task:40`)
  is that of `JOB/code/task:43`, which JobTask has in full.
* MySQL itself: a statement is atomic, and a connection that breaks shows as a
  die or as a lost write.
* Sessions shared by several pages (`syncSession`, off in `config.json`), the
  layout and the keys of windows, the size of terminals. socket.io and pty.js are
  not part of the repository; TtySession takes of them what it says in its head.
* The lists of batches and steps on the page of a deployment: they are displayed
  and nothing is decided by them.
* Vendored libraries in the front ends (the editor, the calendar, the tree): most
  of the lines of JavaScript in the repository, and none of its own.
* Everything listed as not_modelled in `PROJECT.json`, with the reason.

## 7. Plan

In this order:

1. **ApprovalGate**: when an approval is asked at all (`plugin_approval:93-161`):
   action and batch filter, the record of earlier approvals, deployment and
   rollback in one flow. Property: no batch passes a step that is due in its
   flow without a grant. Composes with JobxTask (batches) and JobApproval
   (outcome).
2. **GroupPercent**: the split of machines into batches as a step machine over
   the node list; batches so far and the rest are the machines picked, in order;
   no empty batch; the loop ends. Written with recursive functions, and proved.
3. **JobCron**: lock row per minute, several slaves, a death between lock and
   task; keepalive and the choice of a slave.
4. **CiBuild**: tag found, version row, claim, build, bury, and the automatic
   release that follows.
5. **BpmForm** (`bpm.controller.js:359`): fields that check themselves by requests
   which share a timer and an error; a form that may be sent has no field whose
   last check failed.
6. **DeploymentForm** (`createdeployment.controller.js:491`): the YAML of
   a deployment and that of its service are made by requests of their own, and one
   of them alone says that all is loaded; what is sent is what the form shows.
7. Abstract specifications worth stating beside JobLifecycle: a release (each
   machine at most once at a time, in the order of the batches), implemented by
   JobxTask; an approval (decided once, by somebody who was asked).
8. Proofs of the specifications in 7: a step of JobxTask maps to a step of a
   release or to a stutter, from `TurnInv`; a step of JobApproval to a decision,
   from the invariant of OnlyVotersGrant.
