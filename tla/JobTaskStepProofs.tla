-------------------------- MODULE JobTaskStepProofs --------------------------
(***************************************************************************)
(* What a worker does to the steps of its task, for every value of the     *)
(* constants: the steps run in order and decide the result, a script is    *)
(* run again only when it is asked for and only where it failed, a task    *)
(* waits exactly while its worker waits, a job keeps its limit, and a      *)
(* mutex does what it is for where nothing makes a task wait.              *)
(*                                                                         *)
(* Every invariant is a statement about one task and the worker that has   *)
(* it.  OneWorker says that the step of one worker leaves the task of      *)
(* every other one alone, so a proof is about one worker at a time.        *)
(***************************************************************************)
EXTENDS JobTaskProofs, FiniteSetTheorems

\* The places of a worker that has its row and has not begun a step; where it
\* has an answer of the script or waits for one; after the first script.
Preparing   == {"load", "limit", "mutex", "init", "mark"}
Retrying    == {"script", "decide", "wait", "poll", "resume"}
AfterScript == {"decide", "wait", "poll", "resume",
                "close", "pause", "hold", "unpause"}

\* A step nobody has begun.
Untouched(h) == h.outcome = "none" /\ h.runs = 0 /\ h.ok = {}

\* A step whose result says that a script was run.
MustRun(t, k) == KindOf[t][k] \in {"cmd", "scp"}

\* The status s is what the steps h of t deserve.
HonestAt(t, s, h) ==
  /\ s = "success" /\ InJob[t] => \A k \in Steps : GoesOn(h[k].outcome)
  /\ s = "success" /\ ~InJob[t] => h[1].outcome = "success"
  /\ s = "refuse" => /\ \E k \in Steps : h[k].outcome = "refuse"
                     /\ \A k \in Steps : h[k].outcome # "fail"

\* A worker of t at the place x with the local variables l while h is the
\* history of its steps.
OrderAt(t, x, l, h) ==
  /\ x \in Fresh \cup Preparing \cup {"free"} => l.step = 1
  /\ x \in Preparing => \A k \in Steps : Untouched(h[k])
  /\ x \in InPlugin =>
       /\ \A k \in Steps : /\ k < l.step => GoesOn(h[k].outcome)
                           /\ k > l.step => Untouched(h[k])
       /\ h[l.step].outcome = "none"
       /\ ~InJob[t] => l.step = 1
  /\ x = "begin" => Untouched(h[l.step])
  /\ x \in AfterScript /\ MustRun(t, l.step) => h[l.step].runs > 0
  /\ x = "record" => InJob[t] /\ \A k \in Steps : GoesOn(h[k].outcome)
  /\ x = "final" => HonestAt(t, RowStatus(l.verdict), h)

\* A step that went well without being filtered has run its script.
RanAt(t, h) ==
  \A k \in Steps \ Filterable :
    MustRun(t, k) /\ GoesOn(h[k].outcome) => h[k].runs > 0

OrderInv ==
  /\ \A p \in Pids : OrderAt(tk[p], pc[p], loc[p], hist[tk[p]])
  /\ \A t \in Tasks :
       /\ pid[t] = NoPid => \A k \in Steps : Untouched(hist[t][k])
       /\ HonestAt(t, status[t], hist[t])
       /\ RanAt(t, hist[t])

\* A worker at x with the local variables l, the history h and the row r of its
\* step, after n lost writes: it works on what is left to do and has an answer
\* for each run but the first.
RetryAt(n, x, l, h, r) ==
  /\ x \in Retrying => l.todo \cap h.ok = {}
  /\ n = 0 =>
       /\ x = "script" => h.runs <= h.grants
       /\ x \in {"wait", "poll"} /\ r.status = "running" => h.runs <= h.grants
       /\ x = "resume" /\ l.ret = "running" => h.runs <= h.grants

RetryInv ==
  /\ \A p \in Pids : pc[p] \in Retrying =>
       RetryAt(lost, pc[p], loc[p], hist[tk[p]][loc[p].step],
               sub[tk[p]][loc[p].step])
  /\ RetryNeedsAnswer

\* A worker at x whose row has the status s.
WaitAt(x, s) ==
  /\ x \in {"poll", "hold"} => s = "waiting"
  /\ s = "waiting" => x \in {"poll", "resume", "hold", "unpause", "final"}

WaitInv ==
  lost = 0 => \A p \in Pids : pc[p] \in Working => WaitAt(pc[p], status[tk[p]])

\* A script of t that prints a version was run after the steps before it.
SaidAt(t, h) ==
  \E k \in Prints[t] : /\ h[k].runs > 0
                       /\ \A i \in 1..(k - 1) : GoesOn(h[i].outcome)

VersionInv ==
  \A t \in Tasks :
    /\ vv = <<"done", t>> => \A k \in Steps : GoesOn(hist[t][k].outcome)
    /\ vv = <<"said", t>> => SaidAt(t, hist[t])

Claimed == {t \in Tasks : pid[t] # NoPid}
PastLimit(j) == {p \in Pids : /\ pc[p] \in InBody \cup {"mutex"}
                              /\ InJob[tk[p]] /\ JobOf[tk[p]] = j}

LimitInv ==
  /\ IsFiniteSet(Claimed)
  /\ \A j \in Jobs : PastLimit(j) = {} \/ Cardinality(PastLimit(j)) < JobLimit

\* Nothing makes a task wait: a failed step ends it and no step pauses.
NothingWaits == ExitOnFail /\ \A k \in Steps : ~StepPause[k]

\* A worker at x with the local variables l that has the mutex of its task and
\* may still run a script; one that has marked the target, too.
RunsAt(x, l) ==
  \/ x \in {"init", "mark", "begin", "script", "record"}
  \/ x = "close" /\ GoesOn(l.ret)

MarkedAt(x, l) ==
  \/ x \in {"begin", "script", "record"}
  \/ x = "close" /\ GoesOn(l.ret)

MayRun(p) == RunsAt(pc[p], loc[p])

\* A worker of t at x with the local variables l whose row has the status s,
\* where nothing waits: it is running from the claim to the last script.
RunningAt(t, x, l, s) ==
  /\ x \notin {"pause", "hold", "unpause"}
  /\ x = "resume" => l.ret = "fail"
  /\ x \in {"load", "limit", "mutex"} \/ RunsAt(x, l) => s = "running"
  /\ x \in {"limit", "init", "mark"} => InJob[t]
  /\ x \in {"mark", "record"} => t \in Versioned

MutexInv ==
  /\ \A p \in Pids : RunningAt(tk[p], pc[p], loc[p], status[tk[p]])
  /\ \A p, q \in Pids :
       /\ p # q /\ MayRun(p) /\ MayRun(q)
       /\ MutexOf[tk[p]] # NoMutex
       => MutexOf[tk[p]] # MutexOf[tk[q]]

\* Jobs that bring a version; tasks that may write the VERSION row at all.
Brings(t)  == InJob[t] /\ t \in Versioned
WriteRow   == {t \in Tasks : Brings(t) \/ Prints[t] # {}}

\* One target: what writes its VERSION row shares a mutex, and a job that brings
\* a version runs at least one script.
OneTarget ==
  /\ \E m \in Mutexes : \A t \in WriteRow : MutexOf[t] = m
  /\ \A t \in Tasks : Brings(t) => \E k \in Steps \ Filterable : MustRun(t, k)

LastRunInv ==
  /\ \A p \in Pids : MayRun(p) /\ Brings(tk[p]) =>
       /\ MarkedAt(pc[p], loc[p]) =>
            vv \in {<<"Do", tk[p]>>, <<"said", tk[p]>>}
       /\ lastRan = tk[p] \/ \A k \in Steps : hist[tk[p]][k].runs = 0
  /\ vv[1] \in {"done", "said"} => lastRan = vv[2]
-----------------------------------------------------------------------------
(***************************************************************************)
(* What a step may touch.                                                  *)
(***************************************************************************)

\* The steps of a worker that has its row, up to its last update.
WorkerStep(p) ==
  \/ Load(p) \/ Limit(p) \/ LimitReached(p) \/ Mutex(p) \/ MutexTaken(p)
  \/ InitRows(p) \/ MarkVersion(p) \/ RecordVersion(p) \/ BodyDie(p)
  \/ StepFiltered(p) \/ Begin(p) \/ Script(p) \/ ApprovalEnds(p)
  \/ Decide(p) \/ Wait(p) \/ Poll(p) \/ Resume(p) \/ Close(p)
  \/ Pause(p) \/ Hold(p) \/ Unpause(p) \/ StepDie(p) \/ ScriptDies(p)
  \/ LostWrite(p)

\* It touches its own variables and the rows of its own task.
Touches(p) ==
  /\ \A q \in Pids \ {p} : loc'[q] = loc[q]
  /\ \A u \in Tasks \ {tk[p]} : sub'[u] = sub[u] /\ hist'[u] = hist[u]
  /\ lost' = 0 => lost = 0

Own(p) ==
  /\ pc[p] \in Working /\ pc'[p] \in Working
  /\ UNCHANGED <<pid, tk>>
  /\ \A q \in Pids \ {p} : pc'[q] = pc[q] /\ loc'[q] = loc[q]
  /\ \A u \in Tasks \ {tk[p]} :
       status'[u] = status[u] /\ sub'[u] = sub[u] /\ hist'[u] = hist[u]
  /\ status'[tk[p]] \in {"waiting", "running", status[tk[p]]}
  /\ lost' = 0 => lost = 0

\* What the plugin of a step leaves behind when it returns r.
LEMMA ReturnEffect ==
  ASSUME TypeInv, NEW p \in Pids, pc[p] # "free", NEW r, Return(p, r)
  PROVE  /\ tk' = tk /\ lastRan' = lastRan
         /\ hist' = [hist EXCEPT ![tk[p]][loc[p].step].outcome = r]
         /\ \A q \in Pids \ {p} : pc'[q] = pc[q] /\ loc'[q] = loc[q]
         /\ \/ /\ InJob[tk[p]] /\ GoesOn(r) /\ loc[p].step < NumSteps
               /\ pc'[p] = "begin" /\ loc'[p].step = loc[p].step + 1
            \/ /\ InJob[tk[p]] /\ GoesOn(r) /\ loc[p].step = NumSteps
               /\ pc'[p] = "record" /\ tk[p] \in Versioned
            \/ /\ InJob[tk[p]] /\ GoesOn(r) /\ loc[p].step = NumSteps
               /\ pc'[p] = "final" /\ loc'[p].verdict = "success"
            \/ /\ ~InJob[tk[p]] \/ ~GoesOn(r)
               /\ pc'[p] = "final" /\ loc'[p].verdict = r
<1>1. pc \in [Pids -> Alive \cup {"free", "dead"}] /\ loc \in [Pids -> Locals]
  BY DEF TypeInv, TypeOK
<1> QED
  BY <1>1 DEF Return, Goto, Finish, IdleLocals

\* The histories a plugin that returns leaves behind.
LEMMA ReturnHist ==
  ASSUME TypeInv, NEW p \in Pids, pc[p] # "free", NEW r, Return(p, r)
  PROVE  /\ \A u \in Tasks \ {tk[p]} : hist'[u] = hist[u]
         /\ \A k \in Steps \ {loc[p].step} : hist'[tk[p]][k] = hist[tk[p]][k]
         /\ hist'[tk[p]][loc[p].step] =
              [hist[tk[p]][loc[p].step] EXCEPT !.outcome = r]
         /\ hist'[tk[p]][loc[p].step].outcome = r
         /\ \A k \in Steps : /\ hist'[tk[p]][k].runs = hist[tk[p]][k].runs
                             /\ hist'[tk[p]][k].ok = hist[tk[p]][k].ok
                             /\ hist'[tk[p]][k].grants = hist[tk[p]][k].grants
<1>1. /\ hist \in [Tasks -> [Steps -> History]]
      /\ tk[p] \in Tasks /\ loc[p].step \in Steps
  BY LocalType DEF TypeInv, TypeOK
<1>2. hist' = [hist EXCEPT ![tk[p]][loc[p].step].outcome = r]
  BY ReturnEffect
<1>3. hist[tk[p]] \in [Steps -> History]
  BY <1>1
<1>4. hist'[tk[p]] = [hist[tk[p]] EXCEPT
        ![loc[p].step] = [hist[tk[p]][loc[p].step] EXCEPT !.outcome = r]]
  BY <1>1, <1>2
<1>5. \A k \in Steps : hist[tk[p]][k] \in History
  BY <1>3
<1> QED
  BY <1>1, <1>2, <1>3, <1>4, <1>5 DEF History

\* Every one of these steps keeps to its own task.
LEMMA WorkerTouches ==
  ASSUME TypeInv, NEW p \in Pids, WorkerStep(p)
  PROVE  Touches(p)
<1>0. /\ loc \in [Pids -> Locals]
      /\ sub \in [Tasks -> [Steps -> SubRow]]
      /\ hist \in [Tasks -> [Steps -> History]]
      /\ lost \in Nat
  BY ConstantsAssumption DEF TypeInv, TypeOK
<1>r. ASSUME NEW r, Return(p, r), pc[p] # "free"
      PROVE  /\ \A q \in Pids \ {p} : loc'[q] = loc[q]
             /\ \A u \in Tasks \ {tk[p]} : hist'[u] = hist[u]
  BY <1>r, ReturnEffect, ReturnHist
<1> USE DEF Touches, dbVars, rowVars, histVars
<1>1. CASE Load(p) \/ Limit(p) \/ Mutex(p) \/ MarkVersion(p) \/ Hold(p)
           \/ Wait(p) \/ Pause(p)
  BY <1>0, <1>1 DEF Load, Limit, Mutex, MarkVersion, Hold, Wait, Pause
<1>2. CASE LimitReached(p) \/ MutexTaken(p) \/ RecordVersion(p) \/ BodyDie(p)
  BY <1>0, <1>2 DEF LimitReached, MutexTaken, RecordVersion, BodyDie, Finish
<1>3. CASE InitRows(p)
  BY <1>0, <1>3 DEF InitRows, Finish
<1>4. CASE StepFiltered(p) \/ StepDie(p) \/ Unpause(p)
  <2>1. PICK r : Return(p, r)
    BY <1>4 DEF StepFiltered, StepDie, Unpause
  <2>2. pc[p] # "free"
    BY <1>4 DEF StepFiltered, StepDie, Unpause
  <2> QED
    BY <1>0, <1>4, <2>1, <2>2, <1>r
    DEF StepFiltered, StepDie, Unpause
<1>5. CASE Begin(p)
  BY <1>0, <1>5, <1>r DEF Begin
<1>6. CASE Script(p) \/ ScriptDies(p)
  BY <1>0, <1>6 DEF Script, ScriptDies, Finish
<1>7. CASE ApprovalEnds(p)
  BY <1>0, <1>7, <1>r DEF ApprovalEnds
<1>8. CASE Decide(p)
  BY <1>0, <1>8 DEF Decide
<1>9. CASE Poll(p) \/ Resume(p)
  BY <1>0, <1>9 DEF Poll, Resume, AfterResume
<1>10. CASE Close(p)
  BY <1>0, <1>10, <1>r DEF Close, AfterClose
<1>11. CASE LostWrite(p)
  BY <1>0, <1>11, <1>r DEF LostWrite, AfterClose, AfterResume
<1> QED
  BY <1>1, <1>2, <1>3, <1>4, <1>5, <1>6, <1>7, <1>8, <1>9, <1>10, <1>11
  DEF WorkerStep

LEMMA WorkerOwn ==
  ASSUME TypeInv, NEW p \in Pids, WorkerStep(p)
  PROVE  Own(p) /\ Moves(p)
<1>1. Moves(p)
  BY OpeningMoves, StepShapes DEF WorkerStep
<1>2. Touches(p)
  BY WorkerTouches
<1>3. /\ tk[p] \in Tasks /\ status \in [Tasks -> Statuses]
      /\ pc \in [Pids -> Alive \cup {"free", "dead"}]
  BY <1>1, PlaceSets DEF Moves, TypeInv, TypeOK, RetOK
<1>4. PICK l \in Working : pc' = [pc EXCEPT ![p] = l] /\ tk' = tk
  BY <1>1 DEF Moves, Goto
<1>5. pc'[p] \in Working /\ \A q \in Pids \ {p} : pc'[q] = pc[q]
  BY <1>3, <1>4
<1>6. /\ \A u \in Tasks \ {tk[p]} : status'[u] = status[u]
      /\ status'[tk[p]] \in {"waiting", "running", status[tk[p]]}
      /\ pid' = pid /\ pc[p] \in Working
  BY <1>1, <1>3 DEF Moves
<1> QED
  BY <1>1, <1>2, <1>4, <1>5, <1>6 DEF Own, Touches
-----------------------------------------------------------------------------
(***************************************************************************)
(* The other steps.                                                        *)
(***************************************************************************)

\* No row of a step, no history and no version is written.
Calm == UNCHANGED <<sub, vv, hist, lastRan, lost>>

\* A process gets a task or finds that there is no maintenance.
Forked(p) ==
  /\ pc[p] \in Fresh \cup {"free"}
  /\ \E l \in Fresh : pc' = [pc EXCEPT ![p] = l]
  /\ \A q \in Pids \ {p} : tk'[q] = tk[q]
  /\ UNCHANGED <<status, pid, loc>> /\ Calm

\* The processes in S are gone.
Departs(S) ==
  /\ \A p \in S : pc[p] \in Alive
  /\ Exit(S)
  /\ UNCHANGED <<status, pid>> /\ Calm

\* A user answers or lifts a pause.
Request ==
  \E t \in Tasks, k \in Steps :
    \/ LiftPause(t, k)
    \/ \E c \in {"running", "ignore", "fail"} : Answer(t, k, c)

\* Nothing changes but what the invariants of this module do not mention.
Idle == UNCHANGED <<status, pid, procVars>> /\ Calm

\* The steps of the daemons.
LEMMA DaemonKinds ==
  ASSUME Call \/ Bury \/ Maintain \/ \E t \in Tasks : Age(t)
  PROVE  \/ \E p \in Pids : Forked(p)
         \/ \E t \in Tasks : Departs(WorkersOf(t))
         \/ BuryFail \/ Idle
<1> USE DEF Idle, Calm, dbVars, rowVars, procVars, envVars, callVars, buryVars,
            opsVars, histVars
<1>1. ASSUME NEW t \in Tasks, NEW p \in Pids, CallFork(t, p) PROVE Forked(p)
  <2>1. pc[p] \in Fresh \cup {"free"} /\ "start" \in Fresh
    BY <1>1 DEF CallFork, Fresh
  <2>2. \A q \in Pids \ {p} : tk'[q] = tk[q]
    BY <1>1 DEF CallFork
  <2> QED
    BY <1>1, <2>1, <2>2 DEF CallFork, Forked
<1>2. CASE CallSelect(counted) \/ CallSelect({}) \/ \E t \in Tasks : CallSkip(t)
  BY <1>2 DEF CallSelect, CallSkip
<1>3. CASE BurySelect \/ \E t \in Tasks : BuryCheck(t)
  BY <1>3 DEF BurySelect, BuryCheck
<1>4. ASSUME NEW t \in Tasks, BuryTimeout(t) PROVE Departs(WorkersOf(t))
  BY <1>4 DEF BuryTimeout, Departs, WorkersOf
<1>5. CASE Maintain \/ \E t \in Tasks : Age(t) \/ BuryReason(t)
  BY <1>5 DEF Maintain, Age, BuryReason
<1> QED
  BY <1>1, <1>2, <1>3, <1>4, <1>5 DEF Call, Bury

\* The requests.
LEMMA UserKinds ==
  ASSUME User
  PROVE  Request \/ Idle \/ \E t \in Tasks : Departs(WorkersOf(t))
<1> USE DEF Idle, Calm, dbVars, rowVars, procVars, envVars, histVars
<1>1. ASSUME NEW t \in Tasks, AnswerReason(t) PROVE Idle
  BY <1>1 DEF AnswerReason
<1>2. ASSUME NEW t \in Tasks, KillRead(t) \/ KillReason(t) PROVE Idle
  BY <1>2 DEF KillRead, KillReason
<1>3. ASSUME NEW t \in Tasks, Kill(t) PROVE Idle \/ Departs(WorkersOf(t))
  BY <1>3 DEF Kill, Departs, WorkersOf
<1> QED
  BY <1>1, <1>2, <1>3 DEF User, Request

\* The end of a worker and its beginning.
LEMMA EndKinds ==
  ASSUME TypeInv, NEW p \in Pids,
         Start(p) \/ ClaimTaken(p) \/ LoadDie(p) \/ Crash(p)
  PROVE  Forked(p) \/ Departs({p})
<1> USE DEF Calm, dbVars, rowVars, histVars
<1>1. CASE Start(p) /\ ~maintain
  BY <1>1 DEF Start, Forked, Goto, Fresh
<1>2. CASE Start(p) /\ maintain
  BY <1>2 DEF Start, Departs, Alive, Fresh
<1>3. CASE ClaimTaken(p) \/ LoadDie(p) \/ Crash(p)
  BY <1>3 DEF ClaimTaken, LoadDie, Crash, Departs, Alive, Fresh, Working
<1> QED
  BY <1>1, <1>2, <1>3

\* Every step is of one of these kinds.
LEMMA StepKinds ==
  ASSUME TypeInv, [Next]_vars
  PROVE  \/ \E p \in Pids : WorkerStep(p) \/ Claim(p) \/ Final(p) \/ Forked(p)
         \/ \E S \in SUBSET Pids : Departs(S)
         \/ BuryFail \/ Request \/ Idle
<1>1. /\ \A t \in Tasks : WorkersOf(t) \in SUBSET Pids
      /\ \A p \in Pids : {p} \in SUBSET Pids
  BY DEF WorkersOf
<1>2. CASE Call \/ Bury \/ Maintain \/ \E t \in Tasks : Age(t)
  BY <1>1, <1>2, DaemonKinds
<1>3. CASE User
  BY <1>1, <1>3, UserKinds
<1>4. ASSUME NEW p \in Pids, Work(p) \/ Mishap(p)
      PROVE  WorkerStep(p) \/ Claim(p) \/ Final(p) \/ Forked(p) \/ Departs({p})
  BY <1>4, EndKinds DEF Work, Mishap, WorkerStep
<1>5. CASE UNCHANGED vars
  BY <1>5 DEF vars, dbVars, rowVars, procVars, histVars, Idle, Calm
<1>6. CASE \E p \in Pids : Work(p) \/ Mishap(p)
  BY <1>1, <1>4, <1>6
<1> QED
  BY <1>2, <1>3, <1>5, <1>6 DEF Next

\* What a request writes.
LEMMA RequestHist ==
  ASSUME TypeInv, Request
  PROVE  /\ UNCHANGED <<status, pid, pc, tk, loc, vv, lastRan, lost>>
         /\ \A u \in Tasks, k \in Steps :
              /\ hist'[u][k].outcome = hist[u][k].outcome
              /\ hist'[u][k].runs = hist[u][k].runs
              /\ hist'[u][k].ok = hist[u][k].ok
<1>1. UNCHANGED <<status, pid, pc, tk, loc, vv, lastRan, lost>>
  BY DEF Request, LiftPause, Answer, rowVars, procVars, histVars
<1>2. PICK t \in Tasks, k \in Steps :
        \/ hist' = hist
        \/ hist' = [hist EXCEPT ![t][k].grants = @ + 1]
  BY DEF Request, LiftPause, Answer, histVars
<1> DEFINE v == [hist[t][k] EXCEPT !.grants = @ + 1]
<1>3. hist \in [Tasks -> [Steps -> History]]
  BY DEF TypeInv, TypeOK
<1>4. /\ v.outcome = hist[t][k].outcome
      /\ v.runs = hist[t][k].runs /\ v.ok = hist[t][k].ok
  BY <1>3 DEF History
<1>5. hist' = hist \/ hist' = [hist EXCEPT ![t][k] = v]
  BY <1>2
<1> HIDE DEF v
<1> QED
  BY <1>1, <1>3, <1>4, <1>5

\* The invariant of JobTaskProofs holds on.
LEMMA NextInv == Inv /\ [Next]_vars => Inv'
BY NextType, NextOwner DEF Inv
-----------------------------------------------------------------------------
(***************************************************************************)
(* The steps of a task run in order and decide its result.                 *)
(***************************************************************************)

\* A plugin returns: the order of the steps is kept.
LEMMA ReturnOrder ==
  ASSUME TypeInv, NEW p \in Pids, pc[p] \in InPlugin,
         OrderAt(tk[p], pc[p], loc[p], hist[tk[p]]), RanAt(tk[p], hist[tk[p]]),
         NEW r \in Results, Return(p, r),
         \/ loc[p].step \in Filterable \/ ~GoesOn(r)
         \/ ~MustRun(tk[p], loc[p].step)
         \/ hist[tk[p]][loc[p].step].runs > 0
  PROVE  /\ OrderAt(tk[p], pc'[p], loc'[p], hist'[tk[p]])
         /\ RanAt(tk[p], hist'[tk[p]])
<1> DEFINE t == tk[p]
           k == loc[p].step
           h == hist[t]
           g == hist'[t]
<1>1. t \in Tasks /\ k \in Steps /\ k \in 1..NumSteps /\ NumSteps \in Nat
  BY LocalType, PlaceSets, ConstantsAssumption DEF Steps
<1>2. /\ \A j \in Steps \ {k} : g[j] = h[j]
      /\ g[k].outcome = r /\ g[k].runs = h[k].runs
  <2>1. pc[p] # "free"
    BY PlaceSets
  <2> QED
    BY <1>1, <2>1, ReturnHist
<1>3. /\ \A j \in Steps : j < k => GoesOn(h[j].outcome)
      /\ \A j \in Steps : j > k => Untouched(h[j])
      /\ ~InJob[t] => k = 1
  BY DEF OrderAt
<1>4. RanAt(t, g)
  BY <1>1, <1>2 DEF RanAt
<1>5. \/ /\ InJob[t] /\ GoesOn(r) /\ k < NumSteps
         /\ pc'[p] = "begin" /\ loc'[p].step = k + 1
      \/ /\ InJob[t] /\ GoesOn(r) /\ k = NumSteps /\ pc'[p] = "record"
      \/ /\ InJob[t] /\ GoesOn(r) /\ k = NumSteps
         /\ pc'[p] = "final" /\ loc'[p].verdict = "success"
      \/ /\ ~InJob[t] \/ ~GoesOn(r)
         /\ pc'[p] = "final" /\ loc'[p].verdict = r
  BY ReturnEffect, PlaceSets
<1> HIDE DEF t, k, h, g
<1>6. CASE /\ InJob[t] /\ GoesOn(r) /\ k < NumSteps
           /\ pc'[p] = "begin" /\ loc'[p].step = k + 1
  <2>1. k + 1 \in Steps /\ \A j \in Steps : j \in Nat
    BY <1>1, <1>6 DEF Steps
  <2>2. \A j \in Steps : j < k + 1 => GoesOn(g[j].outcome)
    <3>1. \A j \in Steps : j < k + 1 => j < k \/ j = k
      BY <1>1, <2>1 DEF Steps
    <3>2. \A j \in Steps : j < k => g[j] = h[j]
      BY <1>1, <1>2 DEF Steps
    <3>3. g[k].outcome = r
      BY <1>2
    <3>4. \A j \in Steps : j < k => GoesOn(h[j].outcome)
      BY <1>3
    <3> QED
      BY <1>6, <3>1, <3>2, <3>3, <3>4
  <2>3. \A j \in Steps : j >= k + 1 => Untouched(g[j])
    BY <1>1, <1>2, <1>3, <2>1
  <2>4. g[k + 1].outcome = "none"
    BY <2>1, <2>3 DEF Untouched
  <2>5. OrderAt(t, "begin", loc'[p], g)
    BY <1>6, <2>1, <2>2, <2>3, <2>4
    DEF OrderAt, Fresh, Preparing, InPlugin, AfterScript
  <2> QED
    BY <1>4, <1>6, <2>5 DEF t, g
<1>7. \A j \in Steps : GoesOn(r) /\ k = NumSteps => GoesOn(g[j].outcome)
  BY <1>1, <1>2, <1>3 DEF Steps
<1>8. CASE InJob[t] /\ GoesOn(r) /\ k = NumSteps /\ pc'[p] = "record"
  <2>1. OrderAt(t, "record", loc'[p], g)
    BY <1>7, <1>8 DEF OrderAt, Fresh, Preparing, InPlugin, AfterScript
  <2> QED
    BY <1>4, <1>8, <2>1 DEF t, g
<1>9. CASE /\ InJob[t] /\ GoesOn(r) /\ k = NumSteps
           /\ pc'[p] = "final" /\ loc'[p].verdict = "success"
  <2>1. HonestAt(t, "success", g)
    BY <1>7, <1>9 DEF HonestAt
  <2>2. OrderAt(t, "final", loc'[p], g)
    BY <1>9, <2>1
    DEF OrderAt, Fresh, Preparing, InPlugin, AfterScript, RowStatus
  <2> QED
    BY <1>4, <1>9, <2>2 DEF t, g
<1>10. CASE /\ ~InJob[t] \/ ~GoesOn(r)
            /\ pc'[p] = "final" /\ loc'[p].verdict = r
  <2>1. \A j \in Steps : GoesOn(h[j].outcome) \/ Untouched(h[j]) \/ j = k
    BY <1>1, <1>3 DEF Steps
  <2>2. \A j \in Steps : g[j].outcome = "fail" => j = k /\ r = "fail"
    BY <1>1, <1>2, <2>1 DEF GoesOn, Untouched
  <2>3. HonestAt(t, RowStatus(r), g)
    BY <1>1, <1>2, <1>3, <1>10, <2>2 DEF HonestAt, RowStatus, GoesOn
  <2>4. OrderAt(t, "final", loc'[p], g)
    BY <1>10, <2>3 DEF OrderAt, Fresh, Preparing, InPlugin, AfterScript
  <2> QED
    BY <1>4, <1>10, <2>4 DEF t, g
<1> QED
  BY <1>5, <1>6, <1>8, <1>9, <1>10

\* The body gives up: a failure needs no reason.
LEMMA FailOrder ==
  ASSUME TypeInv, NEW p \in Pids, Finish(p, "fail"), NEW h
  PROVE  OrderAt(tk[p], pc'[p], loc'[p], h)
<1>1. pc'[p] = "final" /\ loc'[p].verdict = "fail"
  BY DEF Finish, Goto, IdleLocals, TypeInv, TypeOK
<1> QED
  BY <1>1 DEF OrderAt, Fresh, Preparing, InPlugin, AfterScript, RowStatus,
              HonestAt

\* The worker goes from a place in a step to a later one of the same step.
LEMMA WithinOrder ==
  ASSUME TypeInv, NEW p \in Pids, pc[p] \in InPlugin,
         pc'[p] \in AfterScript \cup {"script"}, loc'[p].step = loc[p].step,
         OrderAt(tk[p], pc[p], loc[p], hist[tk[p]]),
         \A k \in Steps \ {loc[p].step} : hist'[tk[p]][k] = hist[tk[p]][k],
         hist'[tk[p]][loc[p].step].outcome = hist[tk[p]][loc[p].step].outcome,
         \/ ~MustRun(tk[p], loc[p].step) \/ pc'[p] = "script"
         \/ /\ pc[p] \in AfterScript
            /\ hist'[tk[p]][loc[p].step].runs = hist[tk[p]][loc[p].step].runs
         \/ hist'[tk[p]][loc[p].step].runs > 0
  PROVE  OrderAt(tk[p], pc'[p], loc'[p], hist'[tk[p]])
<1> DEFINE t == tk[p]
           k == loc[p].step
           h == hist[t]
           g == hist'[t]
<1>1. k \in Steps /\ k \in 1..NumSteps /\ t \in Tasks
  BY LocalType, PlaceSets DEF Steps
<1>2. /\ \A j \in Steps : j < k => GoesOn(h[j].outcome)
      /\ \A j \in Steps : j > k => Untouched(h[j])
      /\ h[k].outcome = "none"
      /\ ~InJob[t] => k = 1
      /\ pc[p] \in AfterScript /\ MustRun(t, k) => h[k].runs > 0
  BY DEF OrderAt
<1>3. pc'[p] # "script" /\ MustRun(t, k) => g[k].runs > 0
  BY <1>2
<1>4. \A j \in Steps : j > k => Untouched(g[j])
  BY <1>1, <1>2 DEF Steps
<1> QED
  BY <1>1, <1>2, <1>3, <1>4
  DEF OrderAt, Fresh, Preparing, InPlugin, AfterScript

\* The script of a lone plugin ends it with a result that is its own.
LEMMA LoneOrder ==
  ASSUME TypeInv, NEW p \in Pids, pc[p] = "script", ~InJob[tk[p]],
         OrderAt(tk[p], pc[p], loc[p], hist[tk[p]]),
         NEW r \in Results, Finish(p, r),
         \A k \in Steps \ {loc[p].step} : hist'[tk[p]][k] = hist[tk[p]][k],
         hist'[tk[p]][loc[p].step].outcome = r
  PROVE  OrderAt(tk[p], pc'[p], loc'[p], hist'[tk[p]])
<1> DEFINE t == tk[p]
           k == loc[p].step
           h == hist[t]
           g == hist'[t]
<1>1. k \in Steps /\ k = 1
  BY LocalType DEF OrderAt, InPlugin
<1>2. \A j \in Steps : j > k => Untouched(h[j])
  BY DEF OrderAt, InPlugin
<1>3. pc'[p] = "final" /\ loc'[p].verdict = r
  BY DEF Finish, Goto, IdleLocals, TypeInv, TypeOK
<1>4. \A j \in Steps \ {k} : g[j].outcome = "none"
  BY <1>1, <1>2 DEF Steps, Untouched
<1>5. HonestAt(t, RowStatus(r), g)
  BY <1>1, <1>4 DEF HonestAt, RowStatus
<1> QED
  BY <1>3, <1>5 DEF OrderAt, Fresh, Preparing, InPlugin, AfterScript

\* A run of the script that fails on the nodes "failed".
Ran(p, failed) ==
  LET h == hist[tk[p]][loc[p].step]
      g == hist'[tk[p]][loc[p].step]
  IN  /\ g.runs = h.runs + 1 /\ g.grants = h.grants
      /\ g.ok = h.ok \cup (loc[p].todo \ failed)
      /\ \/ /\ InJob[tk[p]] /\ pc'[p] = "decide"
            /\ loc'[p].step = loc[p].step
            /\ loc'[p].todo = failed
            /\ g.outcome = h.outcome
         \/ /\ InJob[tk[p]] /\ pc'[p] = "close"
            /\ loc'[p].step = loc[p].step
            /\ g.outcome = h.outcome
         \/ /\ ~InJob[tk[p]] /\ pc'[p] = "final"
            /\ g.outcome \in Results /\ Finish(p, g.outcome)
         \/ /\ pc'[p] = "final"
            /\ g.outcome = "fail" /\ Finish(p, "fail")

\* What one run of a script adds to the history of its step.
LEMMA AfterRunIs ==
  ASSUME NEW h \in History, NEW good
  PROVE  /\ AfterRun(h, good).runs = h.runs + 1
         /\ AfterRun(h, good).grants = h.grants
         /\ AfterRun(h, good).ok = h.ok \cup good
         /\ AfterRun(h, good).outcome = h.outcome
         /\ \A r : LET g == [AfterRun(h, good) EXCEPT !.outcome = r]
                   IN  /\ g.runs = h.runs + 1 /\ g.grants = h.grants
                       /\ g.ok = h.ok \cup good /\ g.outcome = r
BY DEF AfterRun, History

\* What one run of a script leaves behind, if the plugin lives to see its end.
LEMMA LiveScriptEffect ==
  ASSUME TypeInv, NEW p \in Pids, Script(p)
  PROVE  /\ tk' = tk
         /\ \A k \in Steps \ {loc[p].step} : hist'[tk[p]][k] = hist[tk[p]][k]
         /\ \A u \in Tasks \ {tk[p]} : hist'[u] = hist[u]
         /\ \E failed \in SUBSET loc[p].todo : Ran(p, failed)
<1> DEFINE t == tk[p]
           k == loc[p].step
           h == hist[t][k]
<1>1. /\ t \in Tasks /\ k \in Steps /\ loc[p] \in Locals
      /\ h \in History /\ pc[p] = "script"
  BY LocalType DEF Script, TypeInv, TypeOK
<1>2. /\ hist \in [Tasks -> [Steps -> History]]
      /\ loc \in [Pids -> Locals]
      /\ pc \in [Pids -> Alive \cup {"free", "dead"}]
  BY DEF TypeInv, TypeOK
<1>3. PICK failed \in SUBSET loc[p].todo, f \in {"none", "refuse", "fail"} :
        LET flag == IF loc[p].flag = "refuse" \/ f = "none"
                    THEN loc[p].flag ELSE f
            nh   == AfterRun(h, loc[p].todo \ failed)
        IN  \/ /\ InJob[t] /\ failed # {}
               /\ Goto(p, "decide")
               /\ loc' = [loc EXCEPT ![p].flag = flag,
                          ![p].todo = NodesLeft(loc[p].todo, failed)]
               /\ hist' = [hist EXCEPT ![t][k] = nh]
            \/ /\ InJob[t] /\ failed = {}
               /\ Goto(p, "close")
               /\ loc' = [loc EXCEPT ![p].todo = {}, ![p].flag = flag,
                                     ![p].ret = Flagged(flag, "success")]
               /\ hist' = [hist EXCEPT ![t][k] = nh]
            \/ LET r == Flagged(flag, IF failed = {} THEN "success"
                                      ELSE "fail")
               IN /\ ~InJob[t]
                  /\ Finish(p, r)
                  /\ hist' = [hist EXCEPT ![t][k] =
                                [nh EXCEPT !.outcome = r]]
  BY ZenonT(30) DEF Script
<1> DEFINE flag == IF loc[p].flag = "refuse" \/ f = "none"
                   THEN loc[p].flag ELSE f
           nh   == AfterRun(h, loc[p].todo \ failed)
           r    == Flagged(flag, IF failed = {} THEN "success" ELSE "fail")
           nl   == [nh EXCEPT !.outcome = r]
<1>4. /\ nh.runs = h.runs + 1 /\ nh.grants = h.grants
      /\ nh.ok = h.ok \cup (loc[p].todo \ failed) /\ nh.outcome = h.outcome
      /\ nl.runs = h.runs + 1 /\ nl.grants = h.grants
      /\ nl.ok = h.ok \cup (loc[p].todo \ failed) /\ nl.outcome = r
  BY <1>1, AfterRunIs
<1>5. flag \in {"none", "refuse", "fail"} /\ r \in Results
  BY <1>1 DEF Locals, Results, Ended, Flagged
<1> HIDE DEF h, flag, nh, r, nl
<1>6. ASSUME NEW v, hist' = [hist EXCEPT ![t][k] = v]
      PROVE  /\ hist'[t][k] = v
             /\ \A j \in Steps \ {k} : hist'[t][j] = hist[t][j]
             /\ \A u \in Tasks \ {t} : hist'[u] = hist[u]
  BY <1>1, <1>2, <1>6
<1>7. CASE /\ InJob[t] /\ Goto(p, "decide")
           /\ loc' = [loc EXCEPT ![p].flag = flag,
                                 ![p].todo = NodesLeft(loc[p].todo, failed)]
           /\ hist' = [hist EXCEPT ![t][k] = nh]
  <2>1. loc'[p].step = loc[p].step /\ loc'[p].todo = failed
    BY <1>1, <1>2, <1>7 DEF Locals, NodesLeft
  <2>2. pc'[p] = "decide" /\ tk' = tk
    BY <1>2, <1>7 DEF Goto
  <2>3. Ran(p, failed)
    BY <1>4, <1>6, <1>7, <2>1, <2>2 DEF h, Ran
  <2> QED
    BY <1>3, <1>6, <1>7, <2>2, <2>3
<1>8. CASE /\ InJob[t] /\ Goto(p, "close")
           /\ loc' = [loc EXCEPT ![p].todo = {}, ![p].flag = flag,
                                 ![p].ret = Flagged(flag, "success")]
           /\ hist' = [hist EXCEPT ![t][k] = nh]
  <2>1. loc'[p].step = loc[p].step
    BY <1>1, <1>2, <1>8 DEF Locals
  <2>2. pc'[p] = "close" /\ tk' = tk
    BY <1>2, <1>8 DEF Goto
  <2>3. Ran(p, failed)
    BY <1>4, <1>6, <1>8, <2>1, <2>2 DEF h, Ran
  <2> QED
    BY <1>3, <1>6, <1>8, <2>2, <2>3
<1>9. CASE ~InJob[t] /\ Finish(p, r) /\ hist' = [hist EXCEPT ![t][k] = nl]
  <2>1. pc'[p] = "final" /\ tk' = tk
    BY <1>2, <1>9 DEF Finish, Goto
  <2>2. Ran(p, failed)
    BY <1>4, <1>5, <1>6, <1>9, <2>1 DEF h, Ran
  <2> QED
    BY <1>3, <1>6, <1>9, <2>1, <2>2
<1>10. \/ /\ InJob[t] /\ Goto(p, "decide")
          /\ loc' = [loc EXCEPT ![p].flag = flag,
                                ![p].todo = NodesLeft(loc[p].todo, failed)]
          /\ hist' = [hist EXCEPT ![t][k] = nh]
       \/ /\ InJob[t] /\ Goto(p, "close")
          /\ loc' = [loc EXCEPT ![p].todo = {}, ![p].flag = flag,
                                ![p].ret = Flagged(flag, "success")]
          /\ hist' = [hist EXCEPT ![t][k] = nh]
       \/ ~InJob[t] /\ Finish(p, r) /\ hist' = [hist EXCEPT ![t][k] = nl]
  BY <1>3 DEF flag, nh, r, nl
<1> QED
  BY <1>7, <1>8, <1>9, <1>10

\* ... and if it dies of what the script printed.
LEMMA DeadScriptEffect ==
  ASSUME TypeInv, NEW p \in Pids, ScriptDies(p)
  PROVE  /\ tk' = tk
         /\ \A k \in Steps \ {loc[p].step} : hist'[tk[p]][k] = hist[tk[p]][k]
         /\ \A u \in Tasks \ {tk[p]} : hist'[u] = hist[u]
         /\ \E failed \in SUBSET loc[p].todo : Ran(p, failed)
<1> DEFINE t == tk[p]
           k == loc[p].step
           h == hist[t][k]
<1>1. /\ t \in Tasks /\ k \in Steps /\ h \in History
      /\ hist \in [Tasks -> [Steps -> History]]
      /\ pc \in [Pids -> Alive \cup {"free", "dead"}]
  BY LocalType DEF ScriptDies, TypeInv, TypeOK
<1>2. PICK failed \in SUBSET loc[p].todo :
        hist' = [hist EXCEPT ![t][k] =
                   [AfterRun(@, loc[p].todo \ failed)
                      EXCEPT !.outcome = "fail"]]
  BY DEF ScriptDies
<1> DEFINE v == [AfterRun(h, loc[p].todo \ failed) EXCEPT !.outcome = "fail"]
<1>3. /\ v.runs = h.runs + 1 /\ v.grants = h.grants
      /\ v.ok = h.ok \cup (loc[p].todo \ failed) /\ v.outcome = "fail"
  BY <1>1, AfterRunIs
<1>4. hist' = [hist EXCEPT ![t][k] = v]
  BY <1>2
<1> HIDE DEF h, v
<1>5. /\ hist'[t][k] = v
      /\ \A j \in Steps \ {k} : hist'[t][j] = hist[t][j]
      /\ \A u \in Tasks \ {t} : hist'[u] = hist[u]
  BY <1>1, <1>4
<1>6. Finish(p, "fail") /\ pc'[p] = "final" /\ tk' = tk
  BY <1>1 DEF ScriptDies, Finish, Goto
<1>7. Ran(p, failed)
  BY <1>3, <1>5, <1>6 DEF h, Ran
<1> QED
  BY <1>5, <1>6, <1>7

LEMMA ScriptEffect ==
  ASSUME TypeInv, NEW p \in Pids, Script(p) \/ ScriptDies(p)
  PROVE  /\ tk' = tk /\ pc[p] = "script"
         /\ \E said \in BOOLEAN : Printed(tk[p], loc[p].step, said)
         /\ KindOf[tk[p]][loc[p].step] \in {"cmd", "scp"}
         /\ \A k \in Steps \ {loc[p].step} : hist'[tk[p]][k] = hist[tk[p]][k]
         /\ \A u \in Tasks \ {tk[p]} : hist'[u] = hist[u]
         /\ \E failed \in SUBSET loc[p].todo : Ran(p, failed)
<1>1. /\ pc[p] = "script" /\ KindOf[tk[p]][loc[p].step] \in {"cmd", "scp"}
      /\ \E said \in BOOLEAN : Printed(tk[p], loc[p].step, said)
  BY DEF Script, ScriptDies
<1> QED
  BY <1>1, LiveScriptEffect, DeadScriptEffect

\* Every step of a worker keeps the order of the steps of its task.
LEMMA WorkerOrder ==
  ASSUME TypeInv, NEW p \in Pids, WorkerStep(p),
         OrderAt(tk[p], pc[p], loc[p], hist[tk[p]]), RanAt(tk[p], hist[tk[p]])
  PROVE  /\ OrderAt(tk[p], pc'[p], loc'[p], hist'[tk[p]])
         /\ RanAt(tk[p], hist'[tk[p]])
<1> DEFINE t == tk[p]
           k == loc[p].step
           Goal == /\ OrderAt(t, pc'[p], loc'[p], hist'[t])
                   /\ RanAt(t, hist'[t])
<1> SUFFICES Goal
  OBVIOUS
<1>0. /\ pc[p] \in Working /\ t \in Tasks /\ k \in Steps /\ tk' = tk
      /\ loc[p] \in Locals
      /\ loc \in [Pids -> Locals]
      /\ pc \in [Pids -> Alive \cup {"free", "dead"}]
      /\ pc[p] \in {"close", "pause", "hold", "unpause"} =>
           loc[p].ret \in Results
  BY WorkerOwn, LocalType, PlaceSets DEF Own, TypeInv, TypeOK
<1>a. {"success", "ignore", "fail"} \subseteq Results /\ Ended \subseteq Results
  BY DEF Results, Ended
\* A step in which nothing is written to the history, from place to place.
<1>b. ASSUME pc[p] \in InPlugin, pc'[p] \in AfterScript \cup {"script"},
             loc'[p].step = k, hist' = hist,
             \/ pc[p] \in AfterScript \/ ~MustRun(t, k) \/ pc'[p] = "script"
      PROVE  Goal
  <2>1. \A j \in Steps \ {k} : hist'[t][j] = hist[t][j]
    BY <1>b
  <2>2. OrderAt(t, pc'[p], loc'[p], hist'[t])
    BY <1>b, <2>1, WithinOrder
  <2> QED
    BY <1>b, <2>2
\* The step is over, after its script or without one to run.
<1>c. ASSUME pc[p] \in AfterScript, Return(p, loc[p].ret),
             pc[p] \in {"close", "unpause"}
      PROVE  Goal
  <2>1. ~MustRun(t, k) \/ hist[t][k].runs > 0
    BY <1>c DEF OrderAt
  <2>2. pc[p] \in InPlugin /\ loc[p].ret \in Results
    BY <1>0, <1>c DEF InPlugin
  <2> QED
    BY <1>c, <2>1, <2>2, ReturnOrder
<1>d. ASSUME Finish(p, "fail"), hist' = hist PROVE Goal
  BY <1>d, FailOrder
<1>1. CASE Load(p) \/ Limit(p) \/ Mutex(p) \/ MarkVersion(p)
           \/ (/\ InitRows(p) /\ loc' = loc
               /\ Goto(p, "mark") \/ Goto(p, "begin"))
  <2>1. /\ pc[p] \in Preparing /\ pc'[p] \in Preparing \cup {"begin"}
        /\ loc' = loc /\ hist' = hist
    <3>1. CASE Load(p)
      BY <1>0, <3>1 DEF Load, Goto, Preparing, histVars
    <3>2. CASE Limit(p) \/ Mutex(p)
      BY <1>0, <3>2 DEF Limit, Mutex, Goto, Preparing, histVars
    <3>3. CASE MarkVersion(p)
      BY <1>0, <3>3 DEF MarkVersion, Goto, Preparing, histVars
    <3>4. CASE /\ InitRows(p) /\ loc' = loc
               /\ Goto(p, "mark") \/ Goto(p, "begin")
      BY <1>0, <3>4 DEF InitRows, Goto, Preparing, histVars
    <3> QED
      BY <1>1, <3>1, <3>2, <3>3, <3>4
  <2>2. k = 1 /\ \A j \in Steps : Untouched(hist[t][j])
    BY <2>1 DEF OrderAt
  <2>3. \A j \in Steps : ~(j < 1)
    BY DEF Steps
  <2>4. pc'[p] \notin Fresh \cup AfterScript \cup {"free", "record", "final"}
    BY <2>1 DEF Preparing, Fresh, AfterScript
  <2>5. OrderAt(t, pc'[p], loc[p], hist[t])
    BY <1>0, <2>1, <2>2, <2>3, <2>4 DEF OrderAt, Untouched
  <2> QED
    BY <2>1, <2>5
<1>2. CASE LimitReached(p) \/ MutexTaken(p) \/ BodyDie(p)
           \/ (InitRows(p) /\ Finish(p, "fail"))
  BY <1>2, <1>d DEF LimitReached, MutexTaken, BodyDie, InitRows, histVars
<1>3. CASE RecordVersion(p)
  <2>1. /\ pc'[p] = "final" /\ loc'[p].verdict = "success" /\ hist' = hist
        /\ pc[p] = "record"
    BY <1>0, <1>3 DEF RecordVersion, Finish, Goto, IdleLocals, histVars
  <2>2. HonestAt(t, "success", hist[t])
    BY <2>1 DEF OrderAt, HonestAt
  <2>3. OrderAt(t, "final", loc'[p], hist[t])
    BY <2>1, <2>2
    DEF OrderAt, Fresh, Preparing, InPlugin, AfterScript, RowStatus
  <2> QED
    BY <2>1, <2>3
<1>4. CASE StepFiltered(p)
  BY <1>4, <1>a, ReturnOrder DEF StepFiltered, InPlugin
<1>5. CASE StepDie(p)
  BY <1>5, <1>a, ReturnOrder DEF StepDie, InPlugin, GoesOn
<1>6. CASE Begin(p)
  <2>1. CASE /\ \/ Goto(p, "script") /\ loc' = [loc EXCEPT ![p].todo = Nodes]
                \/ /\ Goto(p, "close") /\ KindOf[t][k] = "backup"
                   /\ loc' = [loc EXCEPT ![p].ret = "ignore"]
             /\ hist' = hist
    <3>1. loc'[p].step = k /\ pc'[p] \in {"script", "close"}
      BY <1>0, <2>1 DEF Goto, Locals
    <3>2. pc'[p] = "script" \/ ~MustRun(t, k)
      BY <1>0, <2>1 DEF Goto, MustRun
    <3> QED
      BY <1>6, <1>b, <2>1, <3>1, <3>2 DEF Begin, InPlugin, AfterScript
  <2>2. CASE Return(p, "ignore") /\ KindOf[t][k] = "backup"
    BY <1>6, <1>a, <2>2, ReturnOrder DEF Begin, InPlugin, MustRun
  <2> QED
    BY <1>6, <2>1, <2>2 DEF Begin, histVars
<1>7. CASE Script(p) \/ ScriptDies(p)
  <2> DEFINE h == hist[t][k]
             g == hist'[t][k]
  <2>1. PICK failed \in SUBSET loc[p].todo : Ran(p, failed)
    BY <1>7, ScriptEffect
  <2>2. /\ \A j \in Steps \ {k} : hist'[t][j] = hist[t][j]
        /\ pc[p] = "script"
    BY <1>7, ScriptEffect
  <2>3. g.runs > 0
    <3>1. h.runs \in Nat /\ g.runs = h.runs + 1
      BY <1>0, <2>1 DEF Ran, TypeInv, TypeOK, History
    <3> QED
      BY <3>1
  <2>4. CASE /\ InJob[t] /\ pc'[p] \in {"decide", "close"}
             /\ loc'[p].step = k /\ g.outcome = h.outcome
    <3>1. OrderAt(t, pc'[p], loc'[p], hist'[t])
      <4>1. pc[p] \in InPlugin /\ pc'[p] \in AfterScript \cup {"script"}
        BY <2>2, <2>4 DEF InPlugin, AfterScript
      <4> QED
        BY <2>2, <2>3, <2>4, <4>1, WithinOrder
    <3>2. RanAt(t, hist'[t])
      BY <2>2, <2>3 DEF RanAt
    <3> QED
      BY <3>1, <3>2
  <2>5. CASE ~InJob[t] /\ g.outcome \in Results /\ Finish(p, g.outcome)
    <3>1. OrderAt(t, pc'[p], loc'[p], hist'[t])
      BY <2>2, <2>5, LoneOrder
    <3>2. RanAt(t, hist'[t])
      BY <2>2, <2>3 DEF RanAt
    <3> QED
      BY <3>1, <3>2
  <2>6. CASE g.outcome = "fail" /\ Finish(p, "fail")
    <3>1. RanAt(t, hist'[t])
      BY <2>2, <2>3 DEF RanAt
    <3> QED
      BY <2>6, <3>1, FailOrder
  <2> QED
    BY <2>1, <2>4, <2>5, <2>6 DEF Ran
<1>8. CASE ApprovalEnds(p)
  <2>1. KindOf[t][k] = "approval" /\ pc[p] = "script"
    BY <1>8 DEF ApprovalEnds
  <2>2. PICK r \in Ended :
          \/ /\ Goto(p, "close")
             /\ loc' = [loc EXCEPT ![p].todo = {}, ![p].ret = r]
             /\ UNCHANGED histVars
          \/ Return(p, r)
    BY <1>8 DEF ApprovalEnds
  <2>3. CASE Return(p, r)
    BY <1>a, <2>1, <2>3, ReturnOrder DEF InPlugin, MustRun
  <2>4. CASE /\ Goto(p, "close")
             /\ loc' = [loc EXCEPT ![p].todo = {}, ![p].ret = r]
             /\ UNCHANGED histVars
    <3>1. loc'[p].step = k /\ pc'[p] = "close" /\ hist' = hist
      BY <1>0, <2>4 DEF Goto, Locals, histVars
    <3> QED
      BY <1>b, <2>1, <3>1 DEF InPlugin, MustRun, AfterScript
  <2> QED
    BY <2>2, <2>3, <2>4
<1>9. CASE Decide(p) \/ Wait(p) \/ Poll(p) \/ Pause(p) \/ Hold(p)
  <2>1. /\ pc[p] \in AfterScript /\ pc'[p] \in AfterScript
        /\ loc'[p].step = k /\ hist' = hist
    BY <1>0, <1>9 DEF Decide, Wait, Poll, Pause, Hold, Goto, AfterScript,
                      Locals, histVars
  <2> QED
    BY <1>b, <2>1 DEF InPlugin, AfterScript
<1>e. ASSUME pc[p] = "resume", AfterResume(p), hist' = hist PROVE Goal
  <2>1. pc'[p] \in {"script", "close"} /\ loc'[p].step = k
    BY <1>0, <1>e DEF AfterResume, Goto, Locals
  <2> QED
    BY <1>b, <1>e, <2>1 DEF InPlugin, AfterScript
<1>f. ASSUME pc[p] = "close", AfterClose(p) PROVE Goal
  <2>1. CASE Return(p, loc[p].ret)
    BY <1>c, <1>f, <2>1 DEF AfterScript
  <2>2. CASE Goto(p, "pause") /\ UNCHANGED <<loc, histVars>>
    <3>1. pc'[p] = "pause" /\ loc'[p].step = k /\ hist' = hist
      BY <1>0, <2>2 DEF Goto, histVars
    <3> QED
      BY <1>b, <1>f, <3>1 DEF InPlugin, AfterScript
  <2> QED
    BY <1>f, <2>1, <2>2 DEF AfterClose
<1>10. CASE Resume(p)
  BY <1>e, <1>10 DEF Resume, histVars
<1>11. CASE Close(p)
  BY <1>f, <1>11 DEF Close
<1>12. CASE Unpause(p)
  BY <1>c, <1>12 DEF Unpause, AfterScript
<1>13. CASE LostWrite(p)
  <2>1. CASE /\ pc[p] \in {"decide", "wait"} /\ UNCHANGED <<loc, histVars>>
             /\ Goto(p, "wait") \/ Goto(p, "poll")
    <3>1. pc'[p] \in {"wait", "poll"} /\ loc'[p].step = k /\ hist' = hist
      BY <1>0, <2>1 DEF Goto, histVars
    <3> QED
      BY <1>b, <2>1, <3>1 DEF InPlugin, AfterScript
  <2> QED
    BY <1>13, <1>e, <1>f, <2>1 DEF LostWrite, histVars
<1>14. InitRows(p) =>
         \/ Finish(p, "fail")
         \/ loc' = loc /\ (Goto(p, "mark") \/ Goto(p, "begin"))
  BY DEF InitRows
<1> HIDE DEF Goal, t, k
<1>15. CASE \/ Load(p) \/ Limit(p) \/ Mutex(p) \/ MarkVersion(p)
            \/ InitRows(p) \/ LimitReached(p) \/ MutexTaken(p)
            \/ BodyDie(p) \/ RecordVersion(p)
  BY <1>15, <1>1, <1>2, <1>3, <1>14
<1> QED
  BY <1>4, <1>5, <1>6, <1>7, <1>8, <1>9, <1>10, <1>11, <1>12, <1>13, <1>15
  DEF WorkerStep

\* No step has begun at first.
LEMMA InitOrder == Init => OrderInv
<1> SUFFICES ASSUME Init PROVE OrderInv
  OBVIOUS
<1>1. \A p \in Pids : pc[p] = "free" /\ loc[p].step = 1
  BY DEF Init, IdleLocals
<1>2. \A t \in Tasks : \A k \in Steps :
        Untouched(hist[t][k]) /\ hist[t][k].outcome = "none"
  BY DEF Init, Untouched
<1>3. \A t \in Tasks : status[t] = "init"
  BY DEF Init
<1>4. \A p \in Pids : OrderAt(tk[p], pc[p], loc[p], hist[tk[p]])
  BY <1>1 DEF OrderAt, Fresh, Preparing, InPlugin, AfterScript
<1> QED
  BY <1>2, <1>3, <1>4 DEF OrderInv, HonestAt, RanAt, GoesOn

\* What is said of a task holds as long as its row, its history or its worker
\* are left alone.
LEMMA AwayOrder ==
  ASSUME NEW t, NEW x, x \notin Working, NEW l, l.step = 1, NEW h
  PROVE  OrderAt(t, x, l, h)
BY DEF OrderAt, Working, InBody, Preparing, InPlugin, AfterScript

\* A worker goes on.
LEMMA OwnOrder ==
  ASSUME Inv, Inv', OrderInv, NEW p \in Pids, WorkerStep(p)
  PROVE  OrderInv'
<1>1. Own(p)
  BY WorkerOwn DEF Inv
<1>2. /\ tk[p] \in Tasks /\ pid[tk[p]] = p
      /\ status[tk[p]] \in {"running", "waiting"}
  BY <1>1, WorkerFacts DEF Own
<1>3. /\ OrderAt(tk[p], pc'[p], loc'[p], hist'[tk[p]])
      /\ RanAt(tk[p], hist'[tk[p]])
  BY <1>2, WorkerOrder DEF Inv, OrderInv
<1>4. ASSUME NEW q \in Pids
      PROVE  OrderAt(tk'[q], pc'[q], loc'[q], hist'[tk'[q]])
  <2>1. CASE q = p
    BY <1>1, <1>3, <2>1 DEF Own
  <2>2. CASE q # p /\ pc[q] \in Working
    <3>1. tk[q] \in Tasks \ {tk[p]}
      BY <1>2, <2>2, WorkerFacts
    <3>2. OrderAt(tk[q], pc[q], loc[q], hist[tk[q]])
      BY DEF OrderInv
    <3> QED
      BY <1>1, <2>2, <3>1, <3>2 DEF Own
  <2>3. CASE q # p /\ pc[q] \notin Working
    <3>1. OrderAt(tk[q], pc[q], loc[q], hist[tk[q]])
      BY DEF OrderInv
    <3>2. OrderAt(tk[q], pc[q], loc[q], hist'[tk[q]])
      BY <2>3, <3>1 DEF OrderAt, Working, InBody, Preparing, InPlugin,
                        AfterScript
    <3> QED
      BY <1>1, <2>3, <3>2 DEF Own
  <2> QED
    BY <2>1, <2>2, <2>3
<1>5. ASSUME NEW u \in Tasks
      PROVE  /\ pid'[u] = NoPid => \A k \in Steps : Untouched(hist'[u][k])
             /\ HonestAt(u, status'[u], hist'[u])
             /\ RanAt(u, hist'[u])
  <2>1. CASE u = tk[p]
    <3>1. pid'[u] # NoPid /\ status'[u] \in {"running", "waiting"}
      BY <1>1, <1>2, <2>1, ConstantsAssumption DEF Own
    <3> QED
      BY <1>3, <2>1, <3>1 DEF HonestAt
  <2>2. CASE u # tk[p]
    BY <1>1, <2>2 DEF Own, OrderInv
  <2> QED
    BY <2>1, <2>2
<1> QED
  BY <1>4, <1>5 DEF OrderInv

\* Every step keeps the order.
LEMMA NextOrder == Inv /\ Inv' /\ OrderInv /\ [Next]_vars => OrderInv'
<1> SUFFICES ASSUME Inv, Inv', OrderInv, [Next]_vars PROVE OrderInv'
  OBVIOUS
<1>0. /\ TypeInv /\ pc \in [Pids -> Alive \cup {"free", "dead"}]
      /\ status \in [Tasks -> Statuses]
      /\ hist \in [Tasks -> [Steps -> History]]
  BY DEF Inv, TypeInv, TypeOK
<1>1. ASSUME NEW p \in Pids, WorkerStep(p) PROVE OrderInv'
  BY <1>1, OwnOrder
<1>2. ASSUME NEW p \in Pids, Claim(p) PROVE OrderInv'
  <2> DEFINE t == tk[p]
  <2>1. /\ t \in Tasks /\ pid[t] = NoPid /\ pc[p] = "claim"
        /\ pid' = [pid EXCEPT ![t] = p]
        /\ status' = [status EXCEPT ![t] = "running"]
        /\ pc' = [pc EXCEPT ![p] = "load"]
        /\ tk' = tk /\ loc' = loc /\ hist' = hist
    BY <1>0, <1>2 DEF Claim, Goto, TypeInv, RetOK, histVars
  <2>2. \A k \in Steps : Untouched(hist[t][k])
    BY <2>1 DEF OrderInv
  <2>3. loc[p].step = 1
    BY <2>1 DEF OrderInv, OrderAt, Fresh
  <2>4. OrderAt(t, "load", loc[p], hist[t])
    BY <2>2, <2>3 DEF OrderAt, Fresh, Preparing, InPlugin, AfterScript
  <2>5. \A q \in Pids : OrderAt(tk'[q], pc'[q], loc'[q], hist'[tk'[q]])
    BY <1>0, <2>1, <2>4 DEF OrderInv
  <2>6. \A u \in Tasks : HonestAt(u, status'[u], hist[u])
    BY <1>0, <2>1 DEF OrderInv, HonestAt
  <2>7. \A u \in Tasks : pid'[u] = NoPid => pid[u] = NoPid
    BY <1>0, <2>1 DEF TypeInv, TypeOK
  <2> QED
    BY <2>1, <2>5, <2>6, <2>7 DEF OrderInv
<1>3. ASSUME NEW S \in SUBSET Pids, Exit(S), hist' = hist
      PROVE  \A q \in Pids : OrderAt(tk'[q], pc'[q], loc'[q], hist'[tk'[q]])
  <2>1. ASSUME NEW q \in Pids
        PROVE  OrderAt(tk'[q], pc'[q], loc'[q], hist'[tk'[q]])
    <3>1. CASE q \in S
      <4>1. pc'[q] \in {"free", "dead"} /\ loc'[q] = IdleLocals
        BY <1>3, <3>1 DEF Exit
      <4>2. pc'[q] \notin Working /\ loc'[q].step = 1
        BY <4>1, PlaceSets DEF IdleLocals
      <4> QED
        BY <4>2, AwayOrder
    <3>2. CASE q \notin S
      BY <1>3, <3>2 DEF Exit, OrderInv
    <3> QED
      BY <3>1, <3>2
  <2> QED
    BY <2>1
<1>4. ASSUME NEW p \in Pids, Final(p) PROVE OrderInv'
  <2> DEFINE t == tk[p]
  <2>1. /\ pc[p] = "final" /\ Exit({p}) /\ hist' = hist /\ pid' = pid
        /\ status' = [status EXCEPT ![t] = RowStatus(loc[p].verdict)]
    BY <1>4 DEF Final, histVars
  <2>2. HonestAt(t, RowStatus(loc[p].verdict), hist[t])
    BY <2>1 DEF OrderInv, OrderAt
  <2>3. \A u \in Tasks : HonestAt(u, status'[u], hist[u])
    BY <1>0, <2>1, <2>2 DEF OrderInv
  <2> QED
    BY <1>3, <2>1, <2>3 DEF OrderInv
<1>5. ASSUME NEW p \in Pids, Forked(p) PROVE OrderInv'
  <2>1. /\ pc'[p] \in Fresh /\ \A q \in Pids \ {p} : pc'[q] = pc[q]
        /\ \A q \in Pids \ {p} : tk'[q] = tk[q]
        /\ loc' = loc /\ hist' = hist /\ status' = status /\ pid' = pid
    BY <1>0, <1>5 DEF Forked, Calm
  <2>2. loc[p].step = 1
    BY <1>5 DEF Forked, OrderInv, OrderAt
  <2>3. OrderAt(tk'[p], pc'[p], loc[p], hist'[tk'[p]])
    BY <2>1, <2>2, AwayOrder, PlaceSets
  <2>4. \A q \in Pids : OrderAt(tk'[q], pc'[q], loc'[q], hist'[tk'[q]])
    BY <2>1, <2>3 DEF OrderInv
  <2> QED
    BY <2>1, <2>4 DEF OrderInv
<1>6. ASSUME NEW S \in SUBSET Pids, Departs(S) PROVE OrderInv'
  BY <1>3, <1>6 DEF Departs, Calm, OrderInv
<1>7. CASE BuryFail
  <2>1. /\ UNCHANGED <<pid, pc, tk, loc, hist>>
        /\ status' = [status EXCEPT ![burying] = "fail"]
    BY <1>7 DEF BuryFail, procVars, histVars
  <2>2. \A u \in Tasks : HonestAt(u, status'[u], hist[u])
    BY <1>0, <2>1 DEF OrderInv, HonestAt
  <2> QED
    BY <2>1, <2>2 DEF OrderInv
<1>8. CASE Request
  <2>1. UNCHANGED <<status, pid, pc, tk, loc>>
    BY <1>0, <1>8, RequestHist
  <2>2. \A u \in Tasks, k \in Steps :
          /\ hist'[u][k].outcome = hist[u][k].outcome
          /\ hist'[u][k].runs = hist[u][k].runs
          /\ hist'[u][k].ok = hist[u][k].ok
    BY <1>0, <1>8, RequestHist
  <2>3. \A u \in Tasks, k \in Steps :
          Untouched(hist'[u][k]) <=> Untouched(hist[u][k])
    BY <2>2 DEF Untouched
  <2>4. 1 \in Steps
    BY ConstantsAssumption DEF Steps
  <2>5. \A u \in Tasks : /\ HonestAt(u, status[u], hist'[u])
                         /\ RanAt(u, hist'[u])
    BY <2>2, <2>4 DEF OrderInv, HonestAt, RanAt
  <2>6. ASSUME NEW q \in Pids PROVE OrderAt(tk[q], pc[q], loc[q], hist'[tk[q]])
    <3>1. OrderAt(tk[q], pc[q], loc[q], hist[tk[q]])
      BY DEF OrderInv
    <3>2. CASE pc[q] \in Working
      <4>1. tk[q] \in Tasks /\ loc[q].step \in Steps
        BY <3>2, WorkerFacts, LocalType DEF Inv
      <4> QED
        BY <2>2, <2>3, <2>4, <3>1, <4>1 DEF OrderAt, HonestAt
    <3>3. CASE pc[q] \notin Working
      BY <3>1, <3>3 DEF OrderAt, Working, InBody, Preparing, InPlugin,
                        AfterScript
    <3> QED
      BY <3>2, <3>3
  <2> QED
    BY <2>1, <2>3, <2>5, <2>6 DEF OrderInv
<1>9. CASE Idle
  BY <1>9 DEF Idle, Calm, procVars, OrderInv
<1>10. CASE \E p \in Pids : WorkerStep(p) \/ Claim(p) \/ Final(p) \/ Forked(p)
  BY <1>1, <1>2, <1>4, <1>5, <1>10
<1>11. CASE \E S \in SUBSET Pids : Departs(S)
  BY <1>6, <1>11
<1> QED
  BY <1>0, <1>7, <1>8, <1>9, <1>10, <1>11, StepKinds

\* JOB/code/jobs runs the steps of a job in turn and stops at the first that
\* fails (JOB/code/jobs:73-106), and the status it leaves in the row is the
\* result of these steps, whoever crashes, is killed or answers meanwhile.
THEOREM StepsDecide == Spec => []StepProtocol
<1>1. Init => Inv /\ OrderInv
  BY InitType, InitOwner, InitOrder DEF Inv
<1>2. Inv /\ OrderInv /\ [Next]_vars => (Inv /\ OrderInv)'
  <2> SUFFICES ASSUME Inv, OrderInv, [Next]_vars PROVE Inv' /\ OrderInv'
    OBVIOUS
  <2>1. Inv'
    BY NextInv
  <2> QED
    BY <2>1, NextOrder
<1>3. ASSUME Inv, OrderInv PROVE StepProtocol
  <2>1. StepsInOrder
    <3> SUFFICES ASSUME NEW p \in Pids, pc[p] \in InPlugin, NEW k \in Steps
                 PROVE  /\ k < loc[p].step =>
                             hist[tk[p]][k].outcome \in {"success", "ignore"}
                        /\ k > loc[p].step =>
                             /\ hist[tk[p]][k].outcome = "none"
                             /\ hist[tk[p]][k].runs = 0
      BY DEF StepsInOrder
    <3>1. OrderAt(tk[p], pc[p], loc[p], hist[tk[p]])
      BY <1>3 DEF OrderInv
    <3> QED
      BY <3>1 DEF OrderAt, GoesOn, Untouched
  <2>2. ResultHonest
    <3> SUFFICES ASSUME NEW t \in Tasks
                 PROVE  LET given == {hist[t][k].outcome : k \in Steps}
                        IN  /\ status[t] = "success" /\ InJob[t] =>
                                 given \subseteq {"success", "ignore"}
                            /\ status[t] = "success" /\ ~InJob[t] =>
                                 hist[t][1].outcome = "success"
                            /\ status[t] = "refuse" =>
                                 "refuse" \in given /\ "fail" \notin given
      BY DEF ResultHonest
    <3>1. HonestAt(t, status[t], hist[t])
      BY <1>3 DEF OrderInv
    <3> QED
      BY <3>1 DEF HonestAt, GoesOn
  <2> QED
    BY <2>1, <2>2 DEF StepProtocol
<1> QED
  BY <1>1, <1>2, <1>3, PTL DEF Spec
-----------------------------------------------------------------------------
(***************************************************************************)
(* A script is run again only when it is asked for, and where it failed.   *)
(***************************************************************************)

\* What the history of a task says of its retries.
Asked(n, h) == n = 0 => \A k \in Steps : h[k].runs <= h[k].grants + 1

\* The step of a worker keeps what is said of its retries.
LEMMA WorkerRetry ==
  ASSUME Inv, OrderInv, RetryInv, NEW p \in Pids, WorkerStep(p)
  PROVE  /\ pc'[p] \in Retrying =>
              RetryAt(lost', pc'[p], loc'[p], hist'[tk[p]][loc'[p].step],
                      sub'[tk[p]][loc'[p].step])
         /\ Asked(lost', hist'[tk[p]])
<1> DEFINE t == tk[p]
           k == loc[p].step
           h == hist[t][k]
           Goal == /\ pc'[p] \in Retrying =>
                        RetryAt(lost', pc'[p], loc'[p], hist'[t][loc'[p].step],
                                sub'[t][loc'[p].step])
                   /\ Asked(lost', hist'[t])
<1> SUFFICES Goal
  OBVIOUS
<1>0. /\ pc[p] \in Working /\ t \in Tasks /\ k \in Steps /\ tk' = tk
      /\ loc[p] \in Locals /\ loc \in [Pids -> Locals]
      /\ pc \in [Pids -> Alive \cup {"free", "dead"}]
      /\ sub \in [Tasks -> [Steps -> SubRow]]
      /\ h \in History
      /\ TypeInv
      /\ lost' = 0 => lost = 0
  BY WorkerOwn, LocalType, PlaceSets DEF Own, Inv, TypeInv, TypeOK
<1>a. Asked(lost, hist[t])
  BY <1>0 DEF RetryInv, RetryNeedsAnswer, Asked
<1>b. pc[p] \in Retrying => RetryAt(lost, pc[p], loc[p], h, sub[t][k])
  BY DEF RetryInv
\* The worker leaves the places of a retry or does not come to them.
<1>c. ASSUME hist' = hist, pc'[p] \notin Retrying PROVE Goal
  BY <1>0, <1>a, <1>c DEF Asked
<1>d. ASSUME NEW r, Return(p, r) PROVE Goal
  <2>1. pc[p] # "free"
    BY <1>0, PlaceSets
  <2>2. pc'[p] \notin Retrying
    BY <1>0, <1>d, <2>1, ReturnEffect DEF Retrying
  <2>3. \A j \in Steps : /\ hist'[t][j].runs = hist[t][j].runs
                         /\ hist'[t][j].grants = hist[t][j].grants
    BY <1>0, <1>d, <2>1, ReturnHist
  <2> QED
    BY <1>0, <1>a, <2>2, <2>3 DEF Asked
\* It goes on with the same step.
<1>e. ASSUME hist' = hist, loc'[p].step = k,
             RetryAt(lost', pc'[p], loc'[p], h, sub'[t][k])
      PROVE  Goal
  BY <1>0, <1>a, <1>e DEF Asked
<1>1. CASE \/ Load(p) \/ Limit(p) \/ Mutex(p) \/ MarkVersion(p)
           \/ LimitReached(p) \/ MutexTaken(p) \/ RecordVersion(p)
           \/ BodyDie(p) \/ Pause(p) \/ Hold(p)
  <2>1. hist' = hist
    BY <1>1 DEF Load, Limit, Mutex, MarkVersion, LimitReached, MutexTaken,
                RecordVersion, BodyDie, Pause, Hold, histVars
  <2>2. \E y \in {"limit", "mutex", "init", "begin", "final", "hold",
                  "unpause"} : Goto(p, y)
    BY <1>1 DEF Load, Limit, Mutex, MarkVersion, LimitReached, MutexTaken,
                RecordVersion, BodyDie, Pause, Hold, Finish
  <2>3. pc'[p] \notin Retrying
    BY <1>0, <2>2 DEF Goto, Retrying
  <2> QED
    BY <1>c, <2>1, <2>3
<1>2. CASE InitRows(p)
  <2>1. hist' = hist /\ \E y \in {"mark", "begin", "final"} : Goto(p, y)
    BY <1>2 DEF InitRows, Finish, histVars
  <2>2. pc'[p] \notin Retrying
    BY <1>0, <2>1 DEF Goto, Retrying
  <2> QED
    BY <1>c, <2>1, <2>2
<1>3. CASE StepFiltered(p) \/ StepDie(p) \/ Unpause(p)
  BY <1>3, <1>d DEF StepFiltered, StepDie, Unpause
<1>4. CASE Begin(p)
  <2>1. CASE /\ Goto(p, "script") /\ loc' = [loc EXCEPT ![p].todo = Nodes]
             /\ hist' = hist
    <3>1. pc[p] = "begin"
      BY <1>4 DEF Begin
    <3>2. Untouched(h)
      BY <3>1 DEF OrderInv, OrderAt
    <3>3. loc'[p].step = k /\ loc'[p].todo = Nodes /\ pc'[p] = "script"
      BY <1>0, <2>1 DEF Goto, Locals
    <3>4. h.runs <= h.grants /\ h.ok = {}
      BY <1>0, <3>2 DEF Untouched, History
    <3>5. RetryAt(lost', pc'[p], loc'[p], h, sub'[t][k])
      BY <3>3, <3>4 DEF RetryAt
    <3> QED
      BY <1>e, <2>1, <3>3, <3>5
  <2>2. CASE Goto(p, "close") /\ hist' = hist
    <3>1. pc'[p] \notin Retrying
      BY <1>0, <2>2 DEF Goto, Retrying
    <3> QED
      BY <1>c, <2>2, <3>1
  <2>3. CASE Return(p, "ignore")
    BY <1>d, <2>3
  <2> QED
    BY <1>4, <2>1, <2>2, <2>3 DEF Begin, histVars
<1>5. CASE Script(p) \/ ScriptDies(p)
  <2>1. PICK failed \in SUBSET loc[p].todo : Ran(p, failed)
    BY <1>0, <1>5, ScriptEffect
  <2>2. /\ \A j \in Steps \ {k} : hist'[t][j] = hist[t][j]
        /\ pc[p] = "script" /\ sub' = sub /\ lost' = lost
    BY <1>0, <1>5, ScriptEffect DEF Script, ScriptDies
  <2>3. /\ hist'[t][k].runs = h.runs + 1 /\ hist'[t][k].grants = h.grants
        /\ hist'[t][k].ok = h.ok \cup (loc[p].todo \ failed)
    BY <2>1 DEF Ran
  <2>4. RetryAt(lost, "script", loc[p], h, sub[t][k])
    BY <1>b, <2>2 DEF Retrying
  <2>5. h.runs \in Nat /\ h.grants \in Nat
    BY <1>0 DEF History
  <2>6. lost' = 0 => hist'[t][k].runs <= hist'[t][k].grants + 1
    <3>1. lost = 0 => h.runs <= h.grants
      BY <2>4 DEF RetryAt
    <3>2. lost = 0 => h.runs + 1 <= h.grants + 1
      BY <2>5, <3>1
    <3> QED
      BY <2>2, <2>3, <3>2
  <2>7. Asked(lost', hist'[t])
    BY <1>a, <2>2, <2>6 DEF Asked
  <2>8. CASE pc'[p] = "decide" /\ loc'[p].step = k /\ loc'[p].todo = failed
    <3>1. failed \cap hist'[t][k].ok = {}
      BY <2>1, <2>3, <2>4 DEF RetryAt, Retrying
    <3>2. RetryAt(lost', pc'[p], loc'[p], hist'[t][k], sub'[t][k])
      BY <2>8, <3>1 DEF RetryAt
    <3> QED
      BY <2>7, <2>8, <3>2
  <2>9. CASE pc'[p] \in {"close", "final"}
    BY <2>7, <2>9 DEF Retrying
  <2> QED
    BY <2>1, <2>8, <2>9 DEF Ran
<1>6. CASE ApprovalEnds(p)
  <2>1. CASE Goto(p, "close") /\ hist' = hist
    <3>1. pc'[p] \notin Retrying
      BY <1>0, <2>1 DEF Goto, Retrying
    <3> QED
      BY <1>c, <2>1, <3>1
  <2>2. CASE \E r \in Ended : Return(p, r)
    BY <1>d, <2>2
  <2> QED
    BY <1>6, <2>1, <2>2 DEF ApprovalEnds, histVars
<1>7. CASE Decide(p)
  <2>1. /\ pc[p] = "decide" /\ pc'[p] = "wait" /\ loc' = loc /\ hist' = hist
        /\ sub'[t][k].status = "decision"
    BY <1>0, <1>7 DEF Decide, Goto, histVars, SubRow
  <2>2. loc[p].todo \cap h.ok = {}
    BY <1>b, <2>1 DEF RetryAt, Retrying
  <2>3. RetryAt(lost', "wait", loc[p], h, sub'[t][k])
    BY <2>1, <2>2 DEF RetryAt
  <2> QED
    BY <1>e, <2>1, <2>3
<1>8. CASE Wait(p)
  <2>1. /\ pc[p] = "wait" /\ pc'[p] = "poll" /\ loc' = loc /\ hist' = hist
        /\ sub' = sub /\ lost' = lost
    BY <1>0, <1>8 DEF Wait, Goto, histVars
  <2>2. RetryAt(lost', "poll", loc[p], h, sub'[t][k])
    BY <1>b, <2>1 DEF RetryAt, Retrying
  <2> QED
    BY <1>e, <2>1, <2>2
<1>9. CASE Poll(p)
  <2>1. /\ pc[p] = "poll" /\ pc'[p] = "resume" /\ hist' = hist
        /\ sub' = sub /\ lost' = lost
    BY <1>0, <1>9 DEF Poll, Goto, histVars
  <2>2. /\ loc'[p].step = k /\ loc'[p].todo = loc[p].todo
        /\ loc'[p].ret \in {"fail", sub[t][k].status}
    BY <1>0, <1>9 DEF Poll, Locals
  <2>3. RetryAt(lost', "resume", loc'[p], h, sub'[t][k])
    BY <1>b, <2>1, <2>2 DEF RetryAt, Retrying
  <2> QED
    BY <1>e, <2>1, <2>2, <2>3
<1>10. CASE pc[p] = "resume" /\ AfterResume(p) /\ hist' = hist
  <2>1. CASE loc[p].ret = "running" /\ pc'[p] = "script"
    <3>1. loc'[p].step = k /\ loc'[p].todo = loc[p].todo
      BY <1>0, <1>10, <2>1 DEF AfterResume, Locals
    <3>2. RetryAt(lost', "script", loc'[p], h, sub'[t][k])
      BY <1>0, <1>b, <1>10, <2>1, <3>1 DEF RetryAt, Retrying
    <3> QED
      BY <1>e, <1>10, <2>1, <3>1, <3>2
  <2>2. CASE pc'[p] = "close"
    BY <1>c, <1>10, <2>2 DEF Retrying
  <2> QED
    BY <1>0, <1>10, <2>1, <2>2 DEF AfterResume, Goto
<1>11. CASE pc[p] = "close" /\ AfterClose(p)
  <2>1. CASE Goto(p, "pause") /\ hist' = hist
    <3>1. pc'[p] \notin Retrying
      BY <1>0, <2>1 DEF Goto, Retrying
    <3> QED
      BY <1>c, <2>1, <3>1
  <2> QED
    BY <1>d, <1>11, <2>1 DEF AfterClose, histVars
<1>12. CASE LostWrite(p)
  <2>1. CASE /\ pc[p] \in {"decide", "wait"} /\ UNCHANGED <<loc, histVars>>
             /\ Goto(p, "wait") \/ Goto(p, "poll")
    <3>1. pc'[p] \in Retrying /\ loc' = loc /\ hist' = hist
      BY <1>0, <2>1 DEF Goto, Retrying, histVars
    <3>2. lost' # 0
      BY <1>0, <1>12, ConstantsAssumption
      DEF LostWrite, Inv, TypeInv, TypeOK
    <3>3. loc[p].todo \cap h.ok = {}
      BY <1>b, <2>1 DEF RetryAt, Retrying
    <3>4. RetryAt(lost', pc'[p], loc[p], h, sub'[t][k])
      BY <3>2, <3>3 DEF RetryAt
    <3> QED
      BY <1>e, <3>1, <3>4
  <2> QED
    BY <1>10, <1>11, <1>12, <2>1 DEF LostWrite, histVars
<1>13. CASE Resume(p) \/ Close(p)
  BY <1>10, <1>11, <1>13 DEF Resume, Close, histVars
<1> HIDE DEF Goal, t, k, h
<1> QED
  BY <1>1, <1>2, <1>3, <1>4, <1>5, <1>6, <1>7, <1>8, <1>9, <1>12, <1>13
  DEF WorkerStep

LEMMA InitRetry == Init => RetryInv
BY DEF Init, RetryInv, RetryNeedsAnswer, Retrying

\* An answer is a grant, or does not ask for another run.
LEMMA RequestRetry ==
  ASSUME Inv, RetryInv, Request
  PROVE  RetryInv'
<1>0. /\ hist \in [Tasks -> [Steps -> History]]
      /\ sub \in [Tasks -> [Steps -> SubRow]]
  BY DEF Inv, TypeInv, TypeOK
<1>1. UNCHANGED <<pc, tk, loc, lost>>
  BY DEF Request, LiftPause, Answer, procVars
<1>2. PICK t \in Tasks, k \in Steps :
        \/ LiftPause(t, k)
        \/ \E c \in {"running", "ignore", "fail"} : Answer(t, k, c)
  BY DEF Request
<1>3. \A u \in Tasks, j \in Steps :
        u # t \/ j # k => hist'[u][j] = hist[u][j] /\ sub'[u][j] = sub[u][j]
  BY <1>0, <1>2 DEF LiftPause, Answer, histVars
<1>4. /\ hist'[t][k].runs = hist[t][k].runs
      /\ hist'[t][k].ok = hist[t][k].ok
      /\ hist'[t][k].grants \in {hist[t][k].grants, hist[t][k].grants + 1}
      /\ sub'[t][k].status = "running" =>
           \/ sub[t][k].status = "running"
           \/ hist'[t][k].grants = hist[t][k].grants + 1
  <2>1. hist[t][k] \in History /\ sub[t][k] \in SubRow
    BY <1>0
  <2>2. CASE LiftPause(t, k)
    <3>1. hist' = hist
      BY <2>2 DEF LiftPause, histVars
    <3>2. sub'[t][k] = [sub[t][k] EXCEPT !.pause = FALSE]
      BY <1>0, <2>2 DEF LiftPause
    <3> QED
      BY <2>1, <3>1, <3>2 DEF SubRow
  <2>3. ASSUME NEW c \in {"running", "ignore", "fail"}, Answer(t, k, c)
        PROVE  /\ hist'[t][k].runs = hist[t][k].runs
               /\ hist'[t][k].ok = hist[t][k].ok
               /\ hist'[t][k].grants \in {hist[t][k].grants,
                                          hist[t][k].grants + 1}
               /\ sub'[t][k].status = "running" =>
                    hist'[t][k].grants = hist[t][k].grants + 1
    <3> DEFINE v == [hist[t][k] EXCEPT !.grants = @ + 1]
    <3>1. /\ v.runs = hist[t][k].runs /\ v.ok = hist[t][k].ok
          /\ v.grants = hist[t][k].grants + 1
      BY <2>1 DEF History
    <3>2. hist' = IF c = "running" THEN [hist EXCEPT ![t][k] = v] ELSE hist
      BY <2>3 DEF Answer
    <3> HIDE DEF v
    <3>3. hist'[t][k] = IF c = "running" THEN v ELSE hist[t][k]
      BY <1>0, <3>2
    <3>4. sub'[t][k].status = c
      <4>1. sub'[t][k] = [sub[t][k] EXCEPT !.status = c]
        BY <1>0, <2>3 DEF Answer
      <4> QED
        BY <2>1, <4>1 DEF SubRow
    <3> QED
      BY <3>1, <3>3, <3>4
  <2> QED
    BY <1>2, <2>2, <2>3
<1>5. \A u \in Tasks, j \in Steps :
        hist[u][j].runs \in Nat /\ hist[u][j].grants \in Nat
  BY <1>0 DEF History
<1>6. RetryNeedsAnswer'
  <2> SUFFICES ASSUME lost = 0, NEW u \in Tasks, NEW j \in Steps
               PROVE  hist'[u][j].runs <= hist'[u][j].grants + 1
    BY <1>1 DEF RetryNeedsAnswer
  <2>1. hist[u][j].runs <= hist[u][j].grants + 1
    BY DEF RetryInv, RetryNeedsAnswer
  <2> QED
    BY <1>3, <1>4, <1>5, <2>1
<1>7. ASSUME NEW q \in Pids, pc[q] \in Retrying
      PROVE  RetryAt(lost, pc[q], loc[q], hist'[tk[q]][loc[q].step],
                     sub'[tk[q]][loc[q].step])
  <2> DEFINE u == tk[q]
             j == loc[q].step
  <2>1. u \in Tasks /\ j \in Steps
    <3>1. pc[q] # "free"
      BY <1>7 DEF Retrying
    <3> QED
      BY <3>1, LocalType DEF Inv
  <2>2. RetryAt(lost, pc[q], loc[q], hist[u][j], sub[u][j])
    BY <1>7 DEF RetryInv
  <2>3. lost = 0 => hist[u][j].runs <= hist[u][j].grants + 1
    BY <2>1 DEF RetryInv, RetryNeedsAnswer
  <2> HIDE DEF u, j
  <2>4. CASE u # t \/ j # k
    BY <1>3, <2>1, <2>2, <2>4 DEF u, j
  <2>5. CASE u = t /\ j = k
    BY <1>4, <1>5, <2>1, <2>2, <2>3, <2>5 DEF RetryAt, u, j
  <2> QED
    BY <2>4, <2>5
<1> QED
  BY <1>1, <1>6, <1>7 DEF RetryInv

\* Every step keeps what is said of the retries.
LEMMA NextRetry ==
  Inv /\ Inv' /\ OrderInv /\ RetryInv /\ [Next]_vars => RetryInv'
<1> SUFFICES ASSUME Inv, Inv', OrderInv, RetryInv, [Next]_vars
             PROVE  RetryInv'
  OBVIOUS
<1>0. TypeInv /\ pc \in [Pids -> Alive \cup {"free", "dead"}]
  BY DEF Inv, TypeInv, TypeOK
<1>1. ASSUME NEW p \in Pids, WorkerStep(p) PROVE RetryInv'
  <2>1. Own(p)
    BY <1>0, <1>1, WorkerOwn
  <2>2. tk[p] \in Tasks /\ pid[tk[p]] = p
    BY <2>1, WorkerFacts DEF Own
  <2>3. /\ pc'[p] \in Retrying =>
              RetryAt(lost', pc'[p], loc'[p], hist'[tk[p]][loc'[p].step],
                      sub'[tk[p]][loc'[p].step])
        /\ Asked(lost', hist'[tk[p]])
    BY <1>1, WorkerRetry
  <2>4. ASSUME NEW q \in Pids \ {p}, pc'[q] \in Retrying
        PROVE  RetryAt(lost', pc'[q], loc'[q], hist'[tk'[q]][loc'[q].step],
                       sub'[tk'[q]][loc'[q].step])
    <3>1. /\ pc'[q] = pc[q] /\ loc'[q] = loc[q] /\ tk'[q] = tk[q]
          /\ lost' = 0 => lost = 0
      BY <2>1 DEF Own
    <3>2. tk[q] \in Tasks \ {tk[p]}
      BY <2>2, <2>4, <3>1, WorkerFacts
      DEF Retrying, Working, InBody, InPlugin
    <3>3. /\ hist'[tk[q]] = hist[tk[q]]
          /\ sub'[tk[q]] = sub[tk[q]]
      BY <2>1, <3>2 DEF Own
    <3>4. RetryAt(lost, pc[q], loc[q], hist[tk[q]][loc[q].step],
                  sub[tk[q]][loc[q].step])
      BY <2>4, <3>1 DEF RetryInv
    <3> QED
      BY <3>1, <3>3, <3>4 DEF RetryAt
  <2>5. RetryNeedsAnswer'
    <3> SUFFICES ASSUME lost' = 0, NEW u \in Tasks, NEW k \in Steps
                 PROVE  hist'[u][k].runs <= hist'[u][k].grants + 1
      BY DEF RetryNeedsAnswer
    <3>1. CASE u = tk[p]
      BY <2>3, <3>1 DEF Asked
    <3>2. CASE u # tk[p]
      BY <2>1, <3>2 DEF Own, RetryInv, RetryNeedsAnswer
    <3> QED
      BY <3>1, <3>2
  <2>6. tk' = tk
    BY <2>1 DEF Own
  <2> QED
    BY <2>3, <2>4, <2>5, <2>6 DEF RetryInv
\* Where no row and no history is written.
<1>2. ASSUME Calm,
             \A q \in Pids : pc'[q] \in Retrying =>
               pc'[q] = pc[q] /\ loc'[q] = loc[q] /\ tk'[q] = tk[q]
      PROVE  RetryInv'
  BY <1>2 DEF RetryInv, RetryNeedsAnswer, Calm
<1>3. ASSUME NEW p \in Pids, Claim(p) PROVE RetryInv'
  BY <1>0, <1>2, <1>3 DEF Claim, Calm, Goto, Retrying, histVars
<1>4. ASSUME NEW S \in SUBSET Pids, Exit(S), Calm PROVE RetryInv'
  BY <1>2, <1>4 DEF Exit, Retrying
<1>5. ASSUME NEW p \in Pids, Final(p) PROVE RetryInv'
  BY <1>4, <1>5 DEF Final, Calm, histVars
<1>6. ASSUME NEW p \in Pids, Forked(p) PROVE RetryInv'
  BY <1>0, <1>2, <1>6 DEF Forked, Fresh, Retrying
<1>7. CASE BuryFail \/ Idle
  BY <1>2, <1>7 DEF BuryFail, Idle, Calm, procVars, histVars
<1>8. CASE Request
  BY <1>8, RequestRetry
<1>9. CASE \E p \in Pids : WorkerStep(p) \/ Claim(p) \/ Final(p) \/ Forked(p)
  BY <1>1, <1>3, <1>5, <1>6, <1>9
<1>10. CASE \E S \in SUBSET Pids : Departs(S)
  BY <1>4, <1>10 DEF Departs
<1> QED
  BY <1>0, <1>7, <1>8, <1>9, <1>10, StepKinds

\* No script runs again where it succeeded (JOB/code/plugin_cmd:278), and none
\* runs again unless a user answered "running", once for each run after the
\* first (JOB/code/plugin_cmd:293-309), as long as no write of the worker is
\* lost.
THEOREM RetriesAsked == Spec => []RetryDiscipline
<1>1. Init => Inv /\ OrderInv /\ RetryInv
  BY InitType, InitOwner, InitOrder, InitRetry DEF Inv
<1>2. Inv /\ OrderInv /\ RetryInv /\ [Next]_vars
        => (Inv /\ OrderInv /\ RetryInv)'
  <2> SUFFICES ASSUME Inv, OrderInv, RetryInv, [Next]_vars
               PROVE  Inv' /\ OrderInv' /\ RetryInv'
    OBVIOUS
  <2>1. Inv'
    BY NextInv
  <2> QED
    BY <2>1, NextOrder, NextRetry
<1>3. Inv /\ RetryInv => RetryDiscipline
  <2> SUFFICES ASSUME RetryInv PROVE RetryDiscipline
    OBVIOUS
  <2>1. NoRepeatOnSuccess
    BY DEF RetryInv, RetryAt, NoRepeatOnSuccess, Retrying
  <2> QED
    BY <2>1 DEF RetryInv, RetryDiscipline
<1> QED
  BY <1>1, <1>2, <1>3, PTL DEF Spec
-----------------------------------------------------------------------------
(***************************************************************************)
(* A task waits exactly while its worker does.                             *)
(***************************************************************************)

\* What a worker does to the status of its task.
LEMMA WorkerWait ==
  ASSUME Inv, NEW p \in Pids, WorkerStep(p), lost' = 0,
         WaitAt(pc[p], status[tk[p]])
  PROVE  WaitAt(pc'[p], status'[tk[p]])
<1> DEFINE t == tk[p]
<1>0. /\ pc[p] \in Working /\ t \in Tasks
      /\ status[t] \in {"running", "waiting"}
      /\ status \in [Tasks -> Statuses]
      /\ pc \in [Pids -> Alive \cup {"free", "dead"}]
      /\ pc[p] # "free" /\ TypeInv
  BY WorkerOwn, WorkerFacts, PlaceSets DEF Own, Inv, TypeInv, TypeOK
\* From a place where the task runs, to one where it runs or is about to end.
<1>a. ASSUME pc[p] \notin {"poll", "resume", "hold", "unpause", "final"},
             status' = status, pc'[p] \notin {"poll", "hold"}
      PROVE  WaitAt(pc'[p], status'[t])
  BY <1>0, <1>a DEF WaitAt
<1>b. ASSUME NEW r, Return(p, r)
      PROVE  /\ pc'[p] \in {"begin", "record", "final"}
             /\ ~GoesOn(r) => pc'[p] = "final"
  BY <1>0, <1>b, ReturnEffect
<1>1. CASE \/ Load(p) \/ Limit(p) \/ Mutex(p) \/ MarkVersion(p)
           \/ LimitReached(p) \/ MutexTaken(p) \/ RecordVersion(p)
           \/ BodyDie(p) \/ InitRows(p) \/ Decide(p)
  <2>1. status' = status
    BY <1>1 DEF Load, Limit, Mutex, MarkVersion, LimitReached, MutexTaken,
                RecordVersion, BodyDie, InitRows, Decide, dbVars, rowVars
  <2>2. \E y \in {"limit", "mutex", "init", "mark", "begin", "final", "wait"} :
          Goto(p, y)
    BY <1>1 DEF Load, Limit, Mutex, MarkVersion, LimitReached, MutexTaken,
                RecordVersion, BodyDie, InitRows, Decide, Finish
  <2>3. pc[p] \notin {"poll", "resume", "hold", "unpause", "final"}
    BY <1>1 DEF Load, Limit, Mutex, MarkVersion, LimitReached, MutexTaken,
                RecordVersion, BodyDie, InitRows, Decide
  <2>4. pc'[p] \notin {"poll", "hold"}
    BY <1>0, <2>2 DEF Goto
  <2> QED
    BY <1>a, <2>1, <2>3, <2>4
<1>2. CASE StepFiltered(p) \/ Begin(p) \/ Script(p) \/ ScriptDies(p)
           \/ ApprovalEnds(p) \/ Close(p)
  <2>1. status' = status /\ pc[p] \in {"begin", "script", "close"}
    BY <1>2 DEF StepFiltered, Begin, Script, ScriptDies, ApprovalEnds, Close,
                dbVars, rowVars
  <2>2. \/ \E r : Return(p, r)
        \/ \E y \in {"script", "close", "decide", "final", "pause"} : Goto(p, y)
    BY <1>2 DEF StepFiltered, Begin, Script, ScriptDies, ApprovalEnds, Close,
                AfterClose, Finish
  <2>3. pc'[p] \notin {"poll", "hold"}
    BY <1>0, <1>b, <2>2 DEF Goto
  <2> QED
    BY <1>a, <2>1, <2>3
<1>3. CASE StepDie(p)
  <2>1. pc'[p] = "final"
    BY <1>3, <1>b DEF StepDie, GoesOn
  <2> QED
    BY <2>1 DEF WaitAt
<1>4. CASE Wait(p) \/ Pause(p)
  <2>1. pc'[p] \in {"poll", "hold"} /\ status'[t] = "waiting"
    BY <1>0, <1>4 DEF Wait, Pause, Goto, SetTask
  <2> QED
    BY <2>1 DEF WaitAt
<1>5. CASE Poll(p) \/ Hold(p)
  <2>1. pc'[p] \in {"resume", "unpause"}
    BY <1>0, <1>5 DEF Poll, Hold, Goto
  <2> QED
    BY <2>1 DEF WaitAt
<1>6. CASE Resume(p)
  <2>1. status'[t] = "running" /\ pc'[p] \in {"script", "close"}
    BY <1>0, <1>6 DEF Resume, SetTask, AfterResume, Goto
  <2> QED
    BY <2>1 DEF WaitAt
<1>7. CASE Unpause(p)
  <2>1. status'[t] = "running" /\ pc'[p] \in {"begin", "record", "final"}
    BY <1>0, <1>7, <1>b DEF Unpause, SetTask
  <2> QED
    BY <2>1 DEF WaitAt
<1>8. CASE LostWrite(p)
  BY <1>8, ConstantsAssumption DEF LostWrite, Inv, TypeInv, TypeOK
<1> QED
  BY <1>1, <1>2, <1>3, <1>4, <1>5, <1>6, <1>7, <1>8 DEF WorkerStep

\* A worker that is not the owner of u keeps what it has while the status of u
\* changes.
LEMMA OthersWait ==
  ASSUME Inv, WaitInv, lost' = 0 => lost = 0, tk' = tk,
         NEW u, \A t \in Tasks \ {u} : status'[t] = status[t],
         NEW q \in Pids, pc[q] \in Working, pc'[q] = pc[q], tk[q] # u
  PROVE  lost' = 0 => WaitAt(pc'[q], status'[tk'[q]])
BY WorkerFacts DEF WaitInv

\* Every step keeps the tasks waiting while their workers wait.
LEMMA NextWait == Inv /\ WaitInv /\ [Next]_vars => WaitInv'
<1> SUFFICES ASSUME Inv, WaitInv, [Next]_vars, lost' = 0,
                    NEW q \in Pids, pc'[q] \in Working
             PROVE  WaitAt(pc'[q], status'[tk'[q]])
  BY DEF WaitInv
<1>0. /\ TypeInv /\ pc \in [Pids -> Alive \cup {"free", "dead"}]
      /\ status \in [Tasks -> Statuses]
  BY DEF Inv, TypeInv, TypeOK
<1>1. ASSUME NEW p \in Pids, WorkerStep(p)
      PROVE  WaitAt(pc'[q], status'[tk'[q]])
  <2>1. Own(p)
    BY <1>0, <1>1, WorkerOwn
  <2>2. tk[p] \in Tasks /\ pid[tk[p]] = p /\ lost = 0 /\ tk' = tk
    BY <2>1, WorkerFacts DEF Own
  <2>3. CASE q = p
    <3>1. WaitAt(pc[p], status[tk[p]])
      BY <2>1, <2>2 DEF Own, WaitInv
    <3> QED
      BY <1>1, <2>2, <2>3, <3>1, WorkerWait
  <2>4. CASE q # p
    <3>1. pc'[q] = pc[q] /\ \A u \in Tasks \ {tk[p]} : status'[u] = status[u]
      BY <2>1, <2>4 DEF Own
    <3>2. tk[q] # tk[p]
      BY <2>2, <2>4, <3>1, WorkerFacts
    <3> QED
      BY <2>2, <3>1, <3>2, OthersWait
  <2> QED
    BY <2>3, <2>4
<1>2. ASSUME NEW p \in Pids, Claim(p) PROVE WaitAt(pc'[q], status'[tk'[q]])
  <2> DEFINE t == tk[p]
  <2>1. /\ t \in Tasks /\ pid[t] = NoPid
        /\ status' = [status EXCEPT ![t] = "running"]
        /\ pc' = [pc EXCEPT ![p] = "load"] /\ tk' = tk /\ lost' = lost
    BY <1>0, <1>2 DEF Claim, Goto, TypeInv, RetOK
  <2>2. CASE q = p
    BY <1>0, <2>1, <2>2 DEF WaitAt
  <2>3. CASE q # p
    <3>1. pc'[q] = pc[q] /\ tk[q] # t
      BY <1>0, <2>1, <2>3, WorkerFacts, ConstantsAssumption
    <3> QED
      BY <1>0, <2>1, <3>1, OthersWait
  <2> QED
    BY <2>2, <2>3
<1>3. ASSUME NEW S \in SUBSET Pids, Exit(S)
      PROVE  q \notin S /\ pc'[q] = pc[q] /\ tk'[q] = tk[q]
  BY <1>3, PlaceSets DEF Exit
<1>4. ASSUME NEW p \in Pids, Final(p) PROVE WaitAt(pc'[q], status'[tk'[q]])
  <2>1. /\ q # p /\ pc'[q] = pc[q] /\ tk'[q] = tk[q] /\ pc[p] = "final"
        /\ status' = [status EXCEPT ![tk[p]] = RowStatus(loc[p].verdict)]
        /\ lost' = lost
    BY <1>3, <1>4 DEF Final
  <2>2. tk[p] \in Tasks /\ tk[q] \in Tasks /\ tk[q] # tk[p]
    BY <2>1, WorkerFacts DEF Working
  <2> QED
    BY <1>0, <2>1, <2>2 DEF WaitInv
<1>5. ASSUME NEW p \in Pids, Forked(p) PROVE WaitAt(pc'[q], status'[tk'[q]])
  <2>1. q # p
    BY <1>0, <1>5, PlaceSets DEF Forked
  <2> QED
    BY <1>0, <1>5, <2>1 DEF Forked, Calm, WaitInv
<1>6. ASSUME NEW S \in SUBSET Pids, Departs(S)
      PROVE  WaitAt(pc'[q], status'[tk'[q]])
  BY <1>3, <1>6 DEF Departs, Calm, WaitInv
<1>7. CASE BuryFail
  <2>1. /\ UNCHANGED <<pc, tk, lost>> /\ burying \in Tasks
        /\ status' = [status EXCEPT ![burying] = "fail"]
        /\ pc[pid[burying]] = "dead"
    BY <1>0, <1>7 DEF BuryFail, procVars, Inv, OwnerInv, TypeInv, TypeOK
  <2>2. tk[q] # burying
    BY <2>1, WorkerFacts, PlaceSets
  <2> QED
    BY <1>0, <2>1, <2>2, OthersWait
<1>8. CASE Request \/ Idle
  <2>1. UNCHANGED <<pc, tk, status, lost>>
    BY <1>8 DEF Request, LiftPause, Answer, Idle, Calm, procVars, rowVars
  <2> QED
    BY <2>1 DEF WaitInv
<1>9. CASE \E p \in Pids : WorkerStep(p) \/ Claim(p) \/ Final(p) \/ Forked(p)
  BY <1>1, <1>2, <1>4, <1>5, <1>9
<1>10. CASE \E S \in SUBSET Pids : Departs(S)
  BY <1>6, <1>10
<1> QED
  BY <1>0, <1>7, <1>8, <1>9, <1>10, StepKinds

\* Users see a task waiting exactly while its worker asks for a decision or
\* holds a pause, so that notify tells them of it when there is something to do
\* (JOB/code/plugin_cmd:280-309, JOB/code/pause:32-49), unless the worker died
\* there or a write of it was lost.
THEOREM WaitingTasksAsk == Spec => []WaitingMeansAsking
<1>1. Init => Inv /\ WaitInv
  BY InitType, InitOwner, PlaceSets DEF Inv, Init, WaitInv
<1>2. Inv /\ WaitInv /\ [Next]_vars => (Inv /\ WaitInv)'
  BY NextInv, NextWait
<1>3. ASSUME Inv, WaitInv PROVE WaitingMeansAsking
  <2> SUFFICES ASSUME lost = 0, NEW t \in Tasks, pid[t] # NoPid
               PROVE  LET place == pc[pid[t]] IN
                      /\ place \in {"poll", "hold"} => status[t] = "waiting"
                      /\ status[t] = "waiting" =>
                           place \in {"poll", "resume", "hold", "unpause",
                                      "final", "dead"}
    BY DEF WaitingMeansAsking
  <2>1. /\ pid[t] \in Pids /\ tk[pid[t]] = t
        /\ pc[pid[t]] \in Working \cup {"dead"}
    BY <1>3 DEF Inv, OwnerInv, TypeInv, TypeOK
  <2> QED
    BY <1>3, <2>1 DEF WaitInv, WaitAt
<1> QED
  BY <1>1, <1>2, <1>3, PTL DEF Spec
-----------------------------------------------------------------------------
(***************************************************************************)
(* What the VERSION row says of a task.                                    *)
(***************************************************************************)

\* Apart from its scripts a worker writes the history when a plugin returns.
LEMMA WorkerHist ==
  ASSUME NEW p \in Pids, WorkerStep(p), ~Script(p), ~ScriptDies(p)
  PROVE  \/ UNCHANGED <<hist, lastRan>>
         \/ pc[p] \in InPlugin /\ \E r : Return(p, r)
<1> USE DEF histVars
<1>1. CASE \/ Load(p) \/ Limit(p) \/ LimitReached(p) \/ Mutex(p)
           \/ MutexTaken(p) \/ InitRows(p) \/ MarkVersion(p)
           \/ RecordVersion(p) \/ BodyDie(p)
  BY <1>1 DEF Load, Limit, LimitReached, Mutex, MutexTaken, InitRows,
              MarkVersion, RecordVersion, BodyDie
<1>2. CASE StepFiltered(p) \/ Begin(p) \/ ApprovalEnds(p) \/ Decide(p)
           \/ Wait(p) \/ Poll(p) \/ Resume(p)
  BY <1>2 DEF StepFiltered, Begin, ApprovalEnds, Decide, Wait, Poll, Resume,
              InPlugin
<1>3. CASE \/ Close(p) \/ Pause(p) \/ Hold(p) \/ Unpause(p) \/ StepDie(p)
           \/ LostWrite(p)
  BY <1>3 DEF Close, Pause, Hold, Unpause, StepDie, LostWrite, AfterClose,
              InPlugin
<1> QED
  BY <1>1, <1>2, <1>3 DEF WorkerStep

\* A step in which no script is run leaves the count of the runs alone.
LEMMA WorkerRuns ==
  ASSUME TypeInv, NEW p \in Pids, WorkerStep(p), ~Script(p), ~ScriptDies(p)
  PROVE  /\ lastRan' = lastRan
         /\ \A k \in Steps : hist'[tk[p]][k].runs = hist[tk[p]][k].runs
<1>1. pc[p] # "free"
  BY WorkerOwn, PlaceSets DEF Own
<1>2. ASSUME NEW r, Return(p, r)
      PROVE  /\ lastRan' = lastRan
             /\ \A k \in Steps : hist'[tk[p]][k].runs = hist[tk[p]][k].runs
  <2>1. lastRan' = lastRan
    BY <1>1, <1>2, ReturnEffect
  <2>2. \A k \in Steps : hist'[tk[p]][k].runs = hist[tk[p]][k].runs
    BY <1>1, <1>2, ReturnHist
  <2> QED
    BY <2>1, <2>2
<1> QED
  BY <1>2, WorkerHist

\* What went well and what was run stays so.
Keeps(h, g) ==
  \A k \in Steps : /\ GoesOn(h[k].outcome) => g[k].outcome = h[k].outcome
                   /\ h[k].runs > 0 => g[k].runs > 0

LEMMA WorkerKeeps ==
  ASSUME TypeInv, NEW p \in Pids, WorkerStep(p),
         OrderAt(tk[p], pc[p], loc[p], hist[tk[p]])
  PROVE  Keeps(hist[tk[p]], hist'[tk[p]])
<1> DEFINE t == tk[p]
           k == loc[p].step
<1>1. /\ pc[p] # "free" /\ t \in Tasks /\ k \in Steps
      /\ hist \in [Tasks -> [Steps -> History]]
  BY WorkerOwn, LocalType, PlaceSets DEF Own, TypeInv, TypeOK
<1>2. pc[p] \in InPlugin => ~GoesOn(hist[t][k].outcome)
  BY DEF OrderAt, GoesOn
<1>3. CASE Script(p) \/ ScriptDies(p)
  <2>1. PICK failed \in SUBSET loc[p].todo : Ran(p, failed)
    BY <1>3, ScriptEffect
  <2>2. /\ \A j \in Steps \ {k} : hist'[t][j] = hist[t][j]
        /\ pc[p] \in InPlugin
    BY <1>3, ScriptEffect DEF InPlugin
  <2>3. hist'[t][k].runs = hist[t][k].runs + 1 /\ hist[t][k].runs \in Nat
    BY <1>1, <2>1 DEF Ran, History
  <2>4. hist'[t][k].runs > 0
    BY <2>3
  <2> QED
    BY <1>2, <2>2, <2>4 DEF Keeps
<1>4. CASE ~Script(p) /\ ~ScriptDies(p)
  <2>1. CASE hist' = hist
    BY <2>1 DEF Keeps
  <2>2. ASSUME NEW r, Return(p, r), pc[p] \in InPlugin
        PROVE  Keeps(hist[t], hist'[t])
    <3>1. /\ \A j \in Steps \ {k} : hist'[t][j] = hist[t][j]
          /\ \A j \in Steps : hist'[t][j].runs = hist[t][j].runs
      BY <1>1, <2>2, ReturnHist
    <3> QED
      BY <1>2, <2>2, <3>1 DEF Keeps
  <2> QED
    BY <1>4, <2>1, <2>2, WorkerHist
<1> QED
  BY <1>3, <1>4

\* Three steps write the version, none of them the last update.
LEMMA WorkerVersion ==
  ASSUME NEW p \in Pids, WorkerStep(p)
  PROVE  /\ pc[p] # "final"
         /\ \/ vv' = vv \/ MarkVersion(p) \/ RecordVersion(p)
            \/ /\ Script(p) \/ ScriptDies(p)
               /\ vv' = <<"said", tk[p]>> /\ loc[p].step \in Prints[tk[p]]
<1> USE DEF dbVars
<1>1. CASE \/ Load(p) \/ Limit(p) \/ LimitReached(p) \/ Mutex(p)
           \/ MutexTaken(p) \/ InitRows(p) \/ BodyDie(p)
  BY <1>1 DEF Load, Limit, LimitReached, Mutex, MutexTaken, InitRows, BodyDie
<1>2. CASE MarkVersion(p) \/ RecordVersion(p)
  BY <1>2 DEF MarkVersion, RecordVersion
<1>3. CASE StepFiltered(p) \/ Begin(p) \/ ApprovalEnds(p) \/ Decide(p)
           \/ Wait(p)
  BY <1>3 DEF StepFiltered, Begin, ApprovalEnds, Decide, Wait
<1>4. CASE Poll(p) \/ Resume(p) \/ Close(p) \/ Pause(p) \/ Hold(p)
           \/ Unpause(p) \/ StepDie(p) \/ LostWrite(p)
  BY <1>4 DEF Poll, Resume, Close, Pause, Hold, Unpause, StepDie, LostWrite
<1>5. CASE Script(p) \/ ScriptDies(p)
  <2>1. pc[p] # "final" /\ \E said \in BOOLEAN :
                             Printed(tk[p], loc[p].step, said)
    BY <1>5 DEF Script, ScriptDies
  <2> QED
    BY <1>5, <2>1 DEF Printed
<1> QED
  BY <1>1, <1>2, <1>3, <1>4, <1>5 DEF WorkerStep

\* The row stays true as long as it is not written.
LEMMA VersionKept ==
  ASSUME VersionInv, vv' = vv,
         \A t \in Tasks : Keeps(hist[t], hist'[t])
  PROVE  VersionInv'
<1>1. ASSUME NEW t \in Tasks, vv = <<"done", t>>
      PROVE  \A k \in Steps : GoesOn(hist'[t][k].outcome)
  BY <1>1 DEF VersionInv, Keeps
<1>2. ASSUME NEW t \in Tasks, vv = <<"said", t>>
      PROVE  SaidAt(t, hist'[t])
  <2>1. PICK k \in Prints[t] :
               /\ hist[t][k].runs > 0
               /\ \A i \in 1..(k - 1) : GoesOn(hist[t][i].outcome)
    BY <1>2 DEF VersionInv, SaidAt
  <2>2. k \in Steps /\ \A i \in 1..(k - 1) : i \in Steps
    BY ConstantsAssumption DEF Steps
  <2> QED
    BY <2>1, <2>2 DEF Keeps, SaidAt
<1> QED
  BY <1>1, <1>2 DEF VersionInv

\* Every step keeps it true.
LEMMA NextVersion == Inv /\ OrderInv /\ VersionInv /\ [Next]_vars => VersionInv'
<1> SUFFICES ASSUME Inv, OrderInv, VersionInv, [Next]_vars PROVE VersionInv'
  OBVIOUS
<1>0. TypeInv
  BY DEF Inv
<1>1. ASSUME NEW p \in Pids, WorkerStep(p) PROVE VersionInv'
  <2> DEFINE t == tk[p]
             k == loc[p].step
  <2>1. Own(p) /\ t \in Tasks
    BY <1>0, <1>1, WorkerOwn, WorkerFacts DEF Own
  <2>2. Keeps(hist[t], hist'[t])
    BY <1>0, <1>1, WorkerKeeps DEF OrderInv
  <2>3. \A u \in Tasks : Keeps(hist[u], hist'[u])
    BY <2>1, <2>2 DEF Own, Keeps
  <2>4. CASE vv' = vv
    BY <2>3, <2>4, VersionKept
  <2>5. CASE MarkVersion(p)
    BY <2>5 DEF MarkVersion, VersionInv
  <2>6. CASE RecordVersion(p)
    <3>1. vv' = <<"done", t>> /\ hist' = hist /\ pc[p] = "record"
      BY <2>6 DEF RecordVersion, histVars
    <3>2. \A j \in Steps : GoesOn(hist[t][j].outcome)
      BY <3>1 DEF OrderInv, OrderAt
    <3> QED
      BY <3>1, <3>2 DEF VersionInv
  <2>7. CASE /\ Script(p) \/ ScriptDies(p)
             /\ vv' = <<"said", t>> /\ k \in Prints[t]
    <3>1. PICK failed \in SUBSET loc[p].todo : Ran(p, failed)
      BY <1>0, <2>7, ScriptEffect
    <3>2. hist[t][k].runs \in Nat /\ k \in 1..NumSteps /\ NumSteps \in Nat
      <4>1. k \in Steps
        BY <2>1, <2>7, ConstantsAssumption
      <4> QED
        BY <1>0, <2>1, <4>1, ConstantsAssumption
        DEF TypeInv, TypeOK, History, Steps
    <3>3. hist'[t][k].runs > 0
      <4>1. hist'[t][k].runs = hist[t][k].runs + 1
        BY <3>1 DEF Ran
      <4> QED
        BY <3>2, <4>1
    <3>4. \A i \in 1..(k - 1) : GoesOn(hist[t][i].outcome)
      <4>1. pc[p] \in InPlugin
        BY <1>0, <2>7, ScriptEffect DEF InPlugin
      <4> QED
        BY <3>2, <4>1 DEF OrderInv, OrderAt, Steps
    <3>5. \A i \in 1..(k - 1) : GoesOn(hist'[t][i].outcome)
      BY <2>2, <3>2, <3>4 DEF Keeps, Steps
    <3>6. SaidAt(t, hist'[t])
      BY <2>7, <3>3, <3>5 DEF SaidAt
    <3> QED
      BY <2>7, <3>6 DEF VersionInv
  <2> QED
    BY <1>1, <2>4, <2>5, <2>6, <2>7, WorkerVersion
<1>2. CASE vv' = vv /\ hist' = hist
  BY <1>2, VersionKept DEF Keeps
<1>3. ASSUME NEW p \in Pids, Claim(p) \/ Final(p) \/ Forked(p)
      PROVE  vv' = vv /\ hist' = hist
  BY <1>3 DEF Claim, Final, Forked, Calm, histVars
<1>4. CASE (\E S \in SUBSET Pids : Departs(S)) \/ BuryFail \/ Idle
  BY <1>2, <1>4 DEF Departs, BuryFail, Idle, Calm, histVars
<1>5. CASE Request
  BY <1>0, <1>5, RequestHist, VersionKept DEF Keeps
<1> QED
  BY <1>0, <1>1, <1>2, <1>3, <1>4, <1>5, StepKinds

\* The VERSION row says a job brought its version to the target only if every
\* step of that job went well: it is written after the last of them
\* (JOB/code/jobs:109-113).  A version that a script printed
\* (JOB/code/plugin_cmd:255-264) says less: the step was run, and those before
\* it had gone well, whatever becomes of the task.
THEOREM VersionIsHonest == Spec => []VersionHonest
<1>1. Init => Inv /\ OrderInv /\ VersionInv
  BY InitType, InitOwner, InitOrder DEF Inv, Init, VersionInv
<1>2. Inv /\ OrderInv /\ VersionInv /\ [Next]_vars
        => (Inv /\ OrderInv /\ VersionInv)'
  BY NextInv, NextOrder, NextVersion
<1>3. VersionInv => VersionHonest
  BY DEF VersionInv, VersionHonest, SaidAt, GoesOn
<1> QED
  BY <1>1, <1>2, <1>3, PTL DEF Spec
-----------------------------------------------------------------------------
(***************************************************************************)
(* The limit of a job.  The workers past the check are counted by the      *)
(* tasks they have, one each.                                              *)
(***************************************************************************)

\* Workers are no more than their tasks.
LEMMA OneEach ==
  ASSUME Inv, NEW S \in SUBSET Pids, NEW U, IsFiniteSet(U),
         \A q \in S : pc[q] \in Working /\ tk[q] \in U
  PROVE  IsFiniteSet(S) /\ Cardinality(S) <= Cardinality(U)
<1> DEFINE f == [q \in S |-> tk[q]]
<1>1. \A q \in S : pid[tk[q]] = q
  BY WorkerFacts
<1>2. f \in [S -> U] /\ \A a, b \in S : f[a] = f[b] => a = b
  BY <1>1
<1>3. f \in Injection(S, U)
  BY <1>2 DEF Injection, IsInjective
<1> QED
  BY <1>3, FS_Injection

\* What counts against the limit of a job is claimed.
LEMMA LiveClaimed ==
  ASSUME Inv, NEW t \in Tasks
  PROVE  LiveOfJob(t) \subseteq Claimed
BY DEF Inv, OwnerInv, LiveOfJob, Claimed

\* Of the steps of a worker only the check takes the worker of a job past it.
LEMMA WorkerPast ==
  ASSUME TypeInv, NEW p \in Pids, WorkerStep(p), ~Limit(p), InJob[tk[p]],
         pc'[p] \in InBody \cup {"mutex"}
  PROVE  pc[p] \in InBody \cup {"mutex"}
<1>1. pc \in [Pids -> Alive \cup {"free", "dead"}] /\ pc[p] \in Working
  BY WorkerOwn DEF TypeInv, TypeOK, Own
<1>2. pc[p] # "final"
  BY WorkerVersion
<1>3. ~Load(p)
  BY <1>1 DEF Load, Goto, InBody, InPlugin
<1>4. ~LimitReached(p) /\ ~(BodyDie(p) /\ pc[p] = "limit")
  BY <1>1 DEF LimitReached, BodyDie, Finish, Goto, InBody, InPlugin
<1>5. pc[p] # "load"
  BY <1>3 DEF WorkerStep, Limit, LimitReached, Mutex, MutexTaken, InitRows,
              MarkVersion, RecordVersion, BodyDie, StepFiltered, Begin, Script,
              ApprovalEnds, Decide, Wait, Poll, Resume, Close, Pause, Hold,
              Unpause, StepDie, ScriptDies, LostWrite
<1>6. pc[p] # "limit"
  BY <1>4 DEF WorkerStep, Load, Limit, Mutex, MutexTaken, InitRows,
              MarkVersion, RecordVersion, BodyDie, StepFiltered, Begin, Script,
              ApprovalEnds, Decide, Wait, Poll, Resume, Close, Pause, Hold,
              Unpause, StepDie, ScriptDies, LostWrite
<1> QED
  BY <1>1, <1>2, <1>5, <1>6 DEF Working

\* No step but the check brings a worker of a job past it.
LEMMA NextPast ==
  ASSUME TypeInv, [Next]_vars, NEW q \in Pids, ~Limit(q), InJob[tk'[q]],
         pc'[q] \in InBody \cup {"mutex"}
  PROVE  pc[q] \in InBody \cup {"mutex"} /\ tk[q] = tk'[q]
<1>0. /\ pc \in [Pids -> Alive \cup {"free", "dead"}]
      /\ pc'[q] \notin Fresh /\ pc'[q] \notin {"free", "dead", "load"}
  BY DEF TypeInv, TypeOK, Fresh, InBody, InPlugin
<1> DEFINE Goal == pc[q] \in InBody \cup {"mutex"} /\ tk[q] = tk'[q]
<1> SUFFICES Goal
  OBVIOUS
<1>1. ASSUME NEW p \in Pids, WorkerStep(p) PROVE Goal
  <2>1. Own(p)
    BY <1>1, WorkerOwn
  <2>2. CASE q = p
    BY <1>1, <2>1, <2>2, WorkerPast DEF Own
  <2>3. CASE q # p
    BY <2>1, <2>3 DEF Own
  <2> QED
    BY <2>2, <2>3
<1>2. ASSUME NEW p \in Pids, Claim(p) PROVE Goal
  BY <1>0, <1>2 DEF Claim, Goto
<1>3. ASSUME NEW S \in SUBSET Pids, Exit(S) PROVE Goal
  BY <1>0, <1>3 DEF Exit
<1>4. ASSUME NEW p \in Pids, Forked(p) PROVE Goal
  BY <1>0, <1>4 DEF Forked
<1>5. CASE BuryFail \/ Request \/ Idle
  BY <1>5, RequestHist DEF BuryFail, Idle, procVars
<1>6. CASE \E p \in Pids : WorkerStep(p) \/ Claim(p) \/ Final(p) \/ Forked(p)
  <2>1. \A p \in Pids : Final(p) => Exit({p})
    BY DEF Final
  <2> QED
    BY <1>1, <1>2, <1>3, <1>4, <1>6, <2>1
<1>7. CASE \E S \in SUBSET Pids : Departs(S)
  BY <1>3, <1>7 DEF Departs
<1> QED
  BY <1>5, <1>6, <1>7, StepKinds

\* A step claims one task at the most.
LEMMA NextClaimed ==
  ASSUME TypeInv, [Next]_vars
  PROVE  \E t : Claimed' \subseteq Claimed \cup {t}
<1>0. pid \in [Tasks -> Pids \cup {NoPid}]
  BY DEF TypeInv, TypeOK
<1>1. ASSUME NEW p \in Pids, Claim(p)
      PROVE  \E t : Claimed' \subseteq Claimed \cup {t}
  <2>1. pid' = [pid EXCEPT ![tk[p]] = p]
    BY <1>1 DEF Claim
  <2>2. Claimed' \subseteq Claimed \cup {tk[p]}
    BY <1>0, <2>1 DEF Claimed
  <2> QED
    BY <2>2
<1>2. CASE pid' = pid
  BY <1>2 DEF Claimed
<1>3. ASSUME NEW p \in Pids, WorkerStep(p) \/ Final(p) \/ Forked(p)
      PROVE  pid' = pid
  BY <1>3, WorkerOwn DEF Own, Final, Forked
<1>4. CASE (\E S \in SUBSET Pids : Departs(S)) \/ BuryFail \/ Request \/ Idle
  BY <1>4, <1>2, RequestHist DEF Departs, BuryFail, Idle
<1> QED
  BY <1>1, <1>2, <1>3, <1>4, StepKinds

\* Every step keeps to the limit.
LEMMA NextLimit == Inv /\ LimitInv /\ [Next]_vars => LimitInv'
<1> SUFFICES ASSUME Inv, LimitInv, [Next]_vars PROVE LimitInv'
  OBVIOUS
<1>0. TypeInv /\ pc \in [Pids -> Alive \cup {"free", "dead"}]
  BY DEF Inv, TypeInv, TypeOK
<1>1. IsFiniteSet(Claimed')
  <2>1. PICK t : Claimed' \subseteq Claimed \cup {t}
    BY <1>0, NextClaimed
  <2>2. IsFiniteSet(Claimed \cup {t})
    BY FS_AddElement DEF LimitInv
  <2> QED
    BY <2>1, <2>2, FS_Subset
<1>2. ASSUME NEW j \in Jobs
      PROVE  PastLimit(j)' = {} \/ Cardinality(PastLimit(j)') < JobLimit
  <2> DEFINE N == {q \in Pids : /\ pc'[q] \in InBody \cup {"mutex"}
                                /\ InJob[tk'[q]] /\ JobOf[tk'[q]] = j}
  <2>0. PastLimit(j)' = N
    BY DEF PastLimit
  <2>a. JobLimit \in Nat
    BY ConstantsAssumption
  <2>1. CASE \E p \in N : Limit(p)
    <3>1. PICK p \in N : Limit(p)
      BY <2>1
    <3> DEFINE t == tk[p]
    <3>2. /\ pc[p] = "limit" /\ tk' = tk
          /\ Cardinality(LiveOfJob(t)) < JobLimit
          /\ \A q \in Pids \ {p} : pc'[q] = pc[q]
      BY <1>0, <3>1 DEF Limit, Goto
    <3>3. JobOf[t] = j /\ t \in Tasks
      BY <1>0, <3>1, <3>2 DEF TypeInv, RetOK
    <3>4. ASSUME NEW q \in N PROVE pc[q] \in Working /\ tk[q] \in LiveOfJob(t)
      <4>1. pc[q] \in Working
        BY <3>2, PlaceSets DEF Working
      <4>2. InJob[tk[q]] /\ JobOf[tk[q]] = JobOf[t]
        BY <3>2, <3>3
      <4> QED
        BY <4>1, <4>2, WorkerFacts DEF LiveOfJob
    <3>5. IsFiniteSet(LiveOfJob(t)) /\ LiveOfJob(t) \in SUBSET Claimed
      BY <3>3, LiveClaimed, FS_Subset DEF LimitInv
    <3>6. N \in SUBSET Pids
      OBVIOUS
    <3> HIDE DEF N
    <3>7. IsFiniteSet(N) /\ Cardinality(N) <= Cardinality(LiveOfJob(t))
      BY <3>4, <3>5, <3>6, OneEach
    <3> QED
      BY <2>0, <2>a, <3>2, <3>5, <3>7, FS_CardinalityType
  <2>2. CASE \A p \in N : ~Limit(p)
    <3>1. N \in SUBSET PastLimit(j)
      BY <1>0, <2>2, NextPast DEF PastLimit
    <3>2. \A q \in PastLimit(j) : pc[q] \in Working /\ tk[q] \in Claimed
      <4>1. ASSUME NEW q \in PastLimit(j)
            PROVE  pc[q] \in Working /\ tk[q] \in Claimed
        <5>1. q \in Pids /\ pc[q] \in Working
          BY PlaceSets DEF PastLimit, Working
        <5> QED
          BY <5>1, WorkerFacts, ConstantsAssumption DEF Claimed
      <4> QED
        BY <4>1
    <3>3. PastLimit(j) \in SUBSET Pids /\ IsFiniteSet(Claimed)
      BY DEF PastLimit, LimitInv
    <3>4. IsFiniteSet(PastLimit(j))
      BY <3>2, <3>3, OneEach
    <3> HIDE DEF N
    <3>5. Cardinality(N) <= Cardinality(PastLimit(j)) /\ IsFiniteSet(N)
      BY <3>1, <3>4, FS_Subset
    <3>6. PastLimit(j) = {} \/ Cardinality(PastLimit(j)) < JobLimit
      BY DEF LimitInv
    <3> QED
      BY <2>0, <2>a, <3>1, <3>4, <3>5, <3>6, FS_CardinalityType
  <2> QED
    BY <2>1, <2>2
<1> QED
  BY <1>1, <1>2 DEF LimitInv

\* The count of JOB/code/task:72-77 is read before the worker goes on, and any
\* number of workers may have claimed their rows by then: still, fewer than the
\* limit ever get past it, because each of them counts the others that have
\* claimed before it reads.
THEOREM LimitIsKept == Spec => []LimitKept
<1>1. Init => Inv /\ LimitInv
  <2> SUFFICES ASSUME Init PROVE Inv /\ LimitInv
    OBVIOUS
  <2>1. Inv
    BY InitType, InitOwner DEF Inv
  <2>2. Claimed = {} /\ \A j \in Jobs : PastLimit(j) = {}
    BY DEF Init, Claimed, PastLimit, InBody, InPlugin
  <2> QED
    BY <2>1, <2>2, FS_EmptySet DEF LimitInv
<1>2. Inv /\ LimitInv /\ [Next]_vars => (Inv /\ LimitInv)'
  BY NextInv, NextLimit
<1>3. LimitInv => LimitKept
  BY DEF LimitInv, LimitKept, PastLimit
<1> QED
  BY <1>1, <1>2, <1>3, PTL DEF Spec
-----------------------------------------------------------------------------
(***************************************************************************)
(* A mutex, where nothing makes a task wait.                               *)
(***************************************************************************)

\* What a worker does about the mutex.  It may run scripts from the check of
\* the mutex on, or at once if its task has none, and not after a failed step.
LEMMA WorkerMutex ==
  ASSUME NothingWaits, Inv, NEW p \in Pids, WorkerStep(p),
         RunningAt(tk[p], pc[p], loc[p], status[tk[p]])
  PROVE  /\ RunningAt(tk[p], pc'[p], loc'[p], status'[tk[p]])
         /\ RunsAt(pc'[p], loc'[p]) =>
              \/ RunsAt(pc[p], loc[p])
              \/ /\ pc[p] \in {"load", "limit", "mutex"}
                 /\ MutexOf[tk[p]] = NoMutex \/ MutexHolders(tk[p]) = {}
         /\ MarkedAt(pc'[p], loc'[p]) /\ Brings(tk[p]) =>
              MarkedAt(pc[p], loc[p]) \/ MarkVersion(p)
<1> DEFINE t == tk[p]
           k == loc[p].step
           Goal == /\ RunningAt(t, pc'[p], loc'[p], status'[t])
                   /\ RunsAt(pc'[p], loc'[p]) =>
                        \/ RunsAt(pc[p], loc[p])
                        \/ /\ pc[p] \in {"load", "limit", "mutex"}
                           /\ MutexOf[t] = NoMutex \/ MutexHolders(t) = {}
                   /\ MarkedAt(pc'[p], loc'[p]) /\ Brings(t) =>
                        MarkedAt(pc[p], loc[p]) \/ MarkVersion(p)
<1> SUFFICES Goal
  OBVIOUS
<1>0. /\ TypeInv /\ pc[p] # "free" /\ t \in Tasks /\ k \in Steps
      /\ loc[p] \in Locals /\ loc \in [Pids -> Locals]
      /\ pc \in [Pids -> Alive \cup {"free", "dead"}]
  BY WorkerOwn, WorkerFacts, LocalType, PlaceSets
  DEF Own, Inv, TypeInv, TypeOK
\* A worker that has marked the target goes on or stops.
<1>a. ASSUME status' = status, MarkedAt(pc[p], loc[p]),
             pc'[p] \in {"begin", "script", "record", "final", "decide",
                         "close"},
             pc'[p] = "record" => t \in Versioned
      PROVE  Goal
  BY <1>a DEF RunningAt, RunsAt, MarkedAt
\* A worker that will not run a script any more.
<1>b. ASSUME pc'[p] \in {"final", "wait", "poll", "decide"} PROVE Goal
  BY <1>b DEF RunningAt, RunsAt, MarkedAt
<1>r. ASSUME NEW r, Return(p, r)
      PROVE  /\ pc'[p] \in {"begin", "record", "final"}
             /\ pc'[p] = "record" => t \in Versioned
             /\ ~GoesOn(r) => pc'[p] = "final"
  BY <1>0, <1>r, ReturnEffect
<1>f. ASSUME NEW r, Finish(p, r) PROVE pc'[p] = "final"
  BY <1>0, <1>f DEF Finish, Goto
\* A step is closed.
<1>c. ASSUME pc[p] = "close", AfterClose(p), status' = status PROVE Goal
  <2>1. Return(p, loc[p].ret)
    BY <1>0, <1>c DEF AfterClose, NothingWaits
  <2>2. CASE GoesOn(loc[p].ret)
    <3>1. MarkedAt(pc[p], loc[p])
      BY <1>c, <2>2 DEF MarkedAt
    <3>2. pc'[p] \in {"begin", "record", "final"}
          /\ (pc'[p] = "record" => t \in Versioned)
      BY <1>r, <2>1
    <3> QED
      BY <1>a, <1>c, <3>1, <3>2
  <2>3. CASE ~GoesOn(loc[p].ret)
    BY <1>b, <1>r, <2>1, <2>3
  <2> QED
    BY <2>2, <2>3
\* An answer: with _exit_ it is always "fail".
<1>d. ASSUME pc[p] = "resume", AfterResume(p) PROVE Goal
  <2>1. loc[p].ret = "fail"
    BY <1>d DEF RunningAt
  <2>2. pc'[p] = "close" /\ loc'[p].ret = "fail"
    BY <1>0, <1>d, <2>1 DEF AfterResume, Goto, Locals
  <2> QED
    BY <2>2 DEF RunningAt, RunsAt, MarkedAt, GoesOn
<1>1. CASE Load(p)
  <2>1. /\ pc[p] = "load" /\ status' = status
        /\ pc'[p] = (IF InJob[t] THEN "limit"
                     ELSE IF MutexOf[t] # NoMutex THEN "mutex" ELSE "begin")
    BY <1>0, <1>1 DEF Load, Goto, dbVars, rowVars
  <2> QED
    BY <2>1 DEF RunningAt, RunsAt, MarkedAt, Brings
<1>2. CASE Limit(p)
  <2>1. /\ pc[p] = "limit" /\ status' = status
        /\ pc'[p] = (IF MutexOf[t] # NoMutex THEN "mutex" ELSE "init")
    BY <1>0, <1>2 DEF Limit, Goto, dbVars, rowVars
  <2> QED
    BY <2>1 DEF RunningAt, RunsAt, MarkedAt
<1>3. CASE Mutex(p)
  <2>1. /\ pc[p] = "mutex" /\ status' = status /\ MutexHolders(t) = {}
        /\ pc'[p] = (IF InJob[t] THEN "init" ELSE "begin")
    BY <1>0, <1>3 DEF Mutex, Goto, dbVars, rowVars
  <2> QED
    BY <2>1 DEF RunningAt, RunsAt, MarkedAt, Brings
<1>4. CASE LimitReached(p) \/ MutexTaken(p) \/ BodyDie(p) \/ RecordVersion(p)
  <2>1. pc'[p] = "final"
    BY <1>4, <1>f DEF LimitReached, MutexTaken, BodyDie, RecordVersion
  <2> QED
    BY <1>b, <2>1
<1>5. CASE InitRows(p)
  <2>1. \/ pc'[p] = "final"
        \/ /\ pc[p] = "init" /\ status' = status
           /\ pc'[p] = (IF t \in Versioned THEN "mark" ELSE "begin")
    BY <1>0, <1>5, <1>f DEF InitRows, Goto
  <2> QED
    BY <1>b, <2>1 DEF RunningAt, RunsAt, MarkedAt, Brings
<1>6. CASE MarkVersion(p)
  <2>1. pc[p] = "mark" /\ status' = status /\ pc'[p] = "begin"
    BY <1>0, <1>6 DEF MarkVersion, Goto, rowVars
  <2> QED
    BY <1>6, <2>1 DEF RunningAt, RunsAt, MarkedAt
<1>7. CASE StepFiltered(p) \/ Begin(p) \/ Script(p) \/ ScriptDies(p)
           \/ ApprovalEnds(p)
  <2>1. status' = status /\ MarkedAt(pc[p], loc[p])
    BY <1>7 DEF StepFiltered, Begin, Script, ScriptDies, ApprovalEnds,
                MarkedAt, dbVars, rowVars
  <2>2. \/ \E r : Return(p, r) \/ Finish(p, r)
        \/ \E y \in {"script", "close", "decide"} : Goto(p, y)
    BY <1>7 DEF StepFiltered, Begin, Script, ScriptDies, ApprovalEnds
  <2>3. pc'[p] \in {"begin", "script", "record", "final", "decide", "close"}
        /\ (pc'[p] = "record" => t \in Versioned)
    BY <1>0, <1>f, <1>r, <2>2 DEF Goto
  <2> QED
    BY <1>a, <2>1, <2>3
<1>8. CASE Decide(p) \/ Wait(p)
  <2>1. pc'[p] \in {"wait", "poll"}
    BY <1>0, <1>8 DEF Decide, Wait, Goto
  <2> QED
    BY <1>b, <2>1
<1>9. CASE Poll(p)
  <2>1. pc'[p] = "resume" /\ loc'[p].ret = "fail"
    BY <1>0, <1>9 DEF Poll, Goto, NothingWaits, Locals
  <2> QED
    BY <2>1 DEF RunningAt, RunsAt, MarkedAt
<1>10. CASE Resume(p)
  BY <1>d, <1>10 DEF Resume
<1>11. CASE Close(p)
  BY <1>c, <1>11 DEF Close, rowVars
<1>12. CASE StepDie(p)
  BY <1>b, <1>r, <1>12 DEF StepDie, GoesOn
<1>13. CASE Pause(p) \/ Hold(p) \/ Unpause(p)
  BY <1>13 DEF Pause, Hold, Unpause, RunningAt
<1>14. CASE LostWrite(p)
  <2>1. CASE pc[p] \in {"decide", "wait"}
    <3>1. pc'[p] \in {"wait", "poll"}
      BY <1>0, <1>14, <2>1 DEF LostWrite, Goto
    <3> QED
      BY <1>b, <3>1
  <2>2. CASE pc[p] \in {"resume", "close"}
    BY <1>c, <1>d, <1>14, <2>2 DEF LostWrite, dbVars, rowVars
  <2> QED
    BY <1>14, <2>1, <2>2 DEF LostWrite
<1> QED
  BY <1>1, <1>2, <1>3, <1>4, <1>5, <1>6, <1>7, <1>8, <1>9, <1>10, <1>11, <1>12,
     <1>13, <1>14 DEF WorkerStep

\* A process whose row is not its own to change stays as it is.
Rests(q) == /\ pc'[q] = pc[q] /\ loc'[q] = loc[q] /\ tk'[q] = tk[q]
            /\ status'[tk[q]] = status[tk[q]]

LEMMA OthersRest ==
  ASSUME Inv, [Next]_vars, NEW q \in Pids, pc'[q] \in Working
  PROVE  WorkerStep(q) \/ Claim(q) \/ Rests(q)
<1>0. /\ TypeInv /\ pc \in [Pids -> Alive \cup {"free", "dead"}]
      /\ status \in [Tasks -> Statuses]
  BY DEF Inv, TypeInv, TypeOK
<1> DEFINE Goal == WorkerStep(q) \/ Claim(q) \/ Rests(q)
<1> SUFFICES Goal
  OBVIOUS
<1>1. ASSUME NEW p \in Pids, WorkerStep(p) PROVE Goal
  <2>1. Own(p)
    BY <1>0, <1>1, WorkerOwn
  <2>2. CASE q # p
    <3>1. pc'[q] = pc[q] /\ loc'[q] = loc[q] /\ tk' = tk
      BY <2>1, <2>2 DEF Own
    <3>2. tk[q] \in Tasks \ {tk[p]}
      BY <2>1, <2>2, <3>1, WorkerFacts DEF Own
    <3> QED
      BY <2>1, <3>1, <3>2 DEF Own, Rests
  <2> QED
    BY <1>1, <2>2
<1>2. ASSUME NEW p \in Pids, Claim(p) PROVE Goal
  <2>1. /\ pid[tk[p]] = NoPid /\ tk' = tk /\ loc' = loc
        /\ status' = [status EXCEPT ![tk[p]] = "running"]
        /\ pc' = [pc EXCEPT ![p] = "load"]
    BY <1>2 DEF Claim, Goto
  <2>2. CASE q # p
    <3>1. pc'[q] = pc[q]
      BY <1>0, <2>1, <2>2
    <3>2. tk[q] \in Tasks /\ tk[q] # tk[p]
      BY <2>1, <3>1, WorkerFacts, ConstantsAssumption
    <3> QED
      BY <1>0, <2>1, <3>1, <3>2 DEF Rests
  <2> QED
    BY <1>2, <2>2
<1>3. ASSUME NEW S \in SUBSET Pids, Exit(S)
      PROVE  /\ q \notin S /\ pc'[q] = pc[q] /\ loc'[q] = loc[q]
             /\ tk'[q] = tk[q]
  BY <1>3, PlaceSets DEF Exit
<1>4. ASSUME NEW p \in Pids, Final(p) PROVE Goal
  <2>1. /\ q # p /\ pc'[q] = pc[q] /\ loc'[q] = loc[q] /\ tk'[q] = tk[q]
        /\ pc[p] \in Working
        /\ status' = [status EXCEPT ![tk[p]] = RowStatus(loc[p].verdict)]
    BY <1>3, <1>4 DEF Final, Working
  <2>2. tk[q] \in Tasks /\ tk[q] # tk[p]
    BY <2>1, WorkerFacts
  <2> QED
    BY <1>0, <2>1, <2>2 DEF Rests
<1>5. ASSUME NEW p \in Pids, Forked(p) PROVE Goal
  <2>1. q # p
    BY <1>0, <1>5, PlaceSets DEF Forked
  <2> QED
    BY <1>0, <1>5, <2>1 DEF Forked, Rests
<1>6. CASE \E S \in SUBSET Pids : Departs(S)
  BY <1>3, <1>6 DEF Departs, Rests
<1>7. CASE BuryFail
  <2>1. /\ UNCHANGED <<pc, tk, loc>> /\ pc[pid[burying]] = "dead"
        /\ status' = [status EXCEPT ![burying] = "fail"]
    BY <1>0, <1>7 DEF BuryFail, procVars, Inv, OwnerInv, TypeInv, TypeOK
  <2>2. tk[q] \in Tasks /\ tk[q] # burying
    BY <2>1, WorkerFacts, PlaceSets
  <2> QED
    BY <1>0, <2>1, <2>2 DEF Rests
<1>8. CASE Request \/ Idle
  BY <1>0, <1>8, RequestHist DEF Idle, procVars, Rests
<1>9. CASE \E p \in Pids : WorkerStep(p) \/ Claim(p) \/ Final(p) \/ Forked(p)
  BY <1>1, <1>2, <1>4, <1>5, <1>9
<1> QED
  BY <1>0, <1>6, <1>7, <1>8, <1>9, StepKinds

\* A worker that may run a script could do so before or has checked its mutex.
LEMMA MayRunSince ==
  ASSUME NothingWaits, Inv, MutexInv, [Next]_vars, NEW q \in Pids,
         RunsAt(pc'[q], loc'[q])
  PROVE  /\ tk'[q] = tk[q] /\ tk[q] \in Tasks
         /\ \/ MayRun(q)
            \/ /\ WorkerStep(q) /\ pc[q] \in {"load", "limit", "mutex"}
               /\ MutexOf[tk[q]] = NoMutex \/ MutexHolders(tk[q]) = {}
<1>1. pc'[q] \in Working
  BY DEF RunsAt, Working, InBody, InPlugin
<1>2. CASE WorkerStep(q)
  <2>1. tk'[q] = tk[q] /\ tk[q] \in Tasks
    BY <1>2, WorkerOwn, WorkerFacts DEF Own, Inv
  <2>2. RunningAt(tk[q], pc[q], loc[q], status[tk[q]])
    BY DEF MutexInv
  <2> QED
    BY <1>2, <2>1, <2>2, WorkerMutex DEF MayRun
<1>3. ~Claim(q)
  BY DEF Inv, TypeInv, TypeOK, Claim, Goto, RunsAt
<1>4. CASE Rests(q)
  <2>1. tk[q] \in Tasks
    BY <1>1, <1>4, WorkerFacts DEF Rests
  <2> QED
    BY <1>4, <2>1 DEF Rests, MayRun
<1> QED
  BY <1>1, <1>2, <1>3, <1>4, OthersRest

\* Every step keeps the mutex.
LEMMA NextMutex == NothingWaits /\ Inv /\ MutexInv /\ [Next]_vars => MutexInv'
<1> SUFFICES ASSUME NothingWaits, Inv, MutexInv, [Next]_vars PROVE MutexInv'
  OBVIOUS
<1>0. TypeInv /\ pc \in [Pids -> Alive \cup {"free", "dead"}]
      /\ status \in [Tasks -> Statuses]
  BY DEF Inv, TypeInv, TypeOK
<1>1. ASSUME NEW q \in Pids
      PROVE  RunningAt(tk'[q], pc'[q], loc'[q], status'[tk'[q]])
  <2>0. RunningAt(tk[q], pc[q], loc[q], status[tk[q]])
    BY DEF MutexInv
  <2>1. CASE pc'[q] \notin Working
    BY <2>1 DEF RunningAt, RunsAt, Working, InBody, InPlugin
  <2>2. CASE WorkerStep(q)
    BY <1>0, <2>0, <2>2, WorkerMutex, WorkerOwn DEF Own
  <2>3. CASE Claim(q)
    <3>1. pc'[q] = "load" /\ status'[tk'[q]] = "running"
      BY <1>0, <2>3 DEF Claim, Goto, TypeInv, RetOK
    <3> QED
      BY <3>1 DEF RunningAt, RunsAt
  <2>4. CASE Rests(q)
    BY <2>0, <2>4 DEF Rests
  <2> QED
    BY <2>1, <2>2, <2>3, <2>4, OthersRest
\* The others with its mutex had gone when a worker checked it.
<1>2. ASSUME NEW p \in Pids, NEW q \in Pids, p # q, WorkerStep(p),
             RunsAt(pc'[q], loc'[q]), MutexOf[tk[p]] # NoMutex,
             MutexOf[tk[p]] = NoMutex \/ MutexHolders(tk[p]) = {}
      PROVE  MutexOf[tk[p]] # MutexOf[tk[q]]
  <2>1. Own(p)
    BY <1>0, <1>2, WorkerOwn
  <2>2. MayRun(q) /\ pc[q] \in Working
    BY <1>2, <2>1 DEF Own, MayRun, RunsAt, Working, InBody, InPlugin
  <2>3. status[tk[q]] = "running"
    BY <2>2 DEF MutexInv, RunningAt, MayRun
  <2>4. tk[q] \in Tasks /\ tk[q] # tk[p]
    BY <1>2, <2>1, <2>2, WorkerFacts DEF Own
  <2> QED
    BY <1>2, <2>3, <2>4 DEF MutexHolders
<1>3. ASSUME NEW p \in Pids, NEW q \in Pids, p # q,
             RunsAt(pc'[p], loc'[p]), RunsAt(pc'[q], loc'[q]),
             MutexOf[tk'[p]] # NoMutex
      PROVE  MutexOf[tk'[p]] # MutexOf[tk'[q]]
  <2>1. tk'[p] = tk[p] /\ tk'[q] = tk[q]
    BY <1>3, MayRunSince
  <2>2. CASE MayRun(p) /\ MayRun(q)
    BY <1>3, <2>1, <2>2 DEF MutexInv
  <2>3. CASE ~MayRun(p)
    <3>1. /\ WorkerStep(p)
          /\ MutexOf[tk[p]] = NoMutex \/ MutexHolders(tk[p]) = {}
      BY <1>3, <2>3, MayRunSince
    <3> QED
      BY <1>2, <1>3, <2>1, <3>1
  <2>4. CASE ~MayRun(q)
    <3>1. /\ WorkerStep(q)
          /\ MutexOf[tk[q]] = NoMutex \/ MutexHolders(tk[q]) = {}
      BY <1>3, <2>4, MayRunSince
    <3> QED
      BY <1>2, <1>3, <2>1, <3>1
  <2> QED
    BY <2>2, <2>3, <2>4
<1> QED
  BY <1>1, <1>3 DEF MutexInv, MayRun

\* No worker of the first state runs anything.
LEMMA InitMutex == Init => MutexInv
BY DEF Init, MutexInv, MayRun, RunsAt, RunningAt

\* Two tasks with the same mutex do not run scripts at the same time
\* (JOB/code/task:79-86), whatever the order in which they are claimed and
\* check, if no task ever waits.  A task that waits is not counted by the check:
\* the run JobTask_mutex_pause shows what becomes of the mutex then.
THEOREM MutexIsExclusive ==
  ASSUME NothingWaits
  PROVE  Spec => []MutexExclusive
<1>1. Init => Inv /\ MutexInv
  BY InitType, InitOwner, InitMutex DEF Inv
<1>2. Inv /\ MutexInv /\ [Next]_vars => (Inv /\ MutexInv)'
  BY NextInv, NextMutex
<1>3. MutexInv => MutexExclusive
  BY DEF MutexInv, MutexExclusive, MayRun, RunsAt
<1> QED
  BY <1>1, <1>2, <1>3, PTL DEF Spec
-----------------------------------------------------------------------------
(***************************************************************************)
(* The version of a target, where nothing makes a task wait and all jobs   *)
(* work on the one target.                                                 *)
(***************************************************************************)

\* Nobody but a worker runs a script or writes the version.
LEMMA RestRuns ==
  ASSUME TypeInv, [Next]_vars, \A p \in Pids : ~WorkerStep(p)
  PROVE  /\ lastRan' = lastRan /\ vv' = vv
         /\ \A u \in Tasks, k \in Steps : hist'[u][k].runs = hist[u][k].runs
<1>1. ASSUME NEW p \in Pids, Claim(p) \/ Final(p) \/ Forked(p)
      PROVE  UNCHANGED <<histVars, vv>>
  BY <1>1 DEF Claim, Final, Forked, Calm, histVars
<1>2. CASE (\E S \in SUBSET Pids : Departs(S)) \/ BuryFail \/ Idle
  BY <1>2 DEF Departs, BuryFail, Idle, Calm, histVars
<1>3. CASE Request
  BY <1>3, RequestHist
<1> QED
  BY <1>1, <1>2, <1>3, StepKinds DEF histVars

\* Of the tasks that write the row one at the most may run scripts.
LEMMA OneWriter ==
  ASSUME OneTarget, Inv, MutexInv, NEW p \in Pids, NEW q \in Pids, p # q,
         MayRun(p), MayRun(q), tk[p] \in WriteRow, tk[q] \in WriteRow
  PROVE  FALSE
BY ConstantsAssumption DEF OneTarget, MutexInv

\* A run of a script that prints no version, of a task that brings none, leaves
\* no mark.
LEMMA PrintedIs ==
  ASSUME NEW t \in Tasks, NEW k, NEW said \in BOOLEAN, Printed(t, k, said)
  PROVE  /\ lastRan' = t \/ (lastRan' = lastRan /\ ~Brings(t))
         /\ \/ vv' = <<"said", t>> /\ lastRan' = t
            \/ vv' = vv /\ (lastRan' = t => Brings(t) \/ lastRan = t)
         /\ t \notin WriteRow => vv' = vv /\ lastRan' = lastRan
BY DEF Printed, Brings, WriteRow

\* A worker that may run scripts and brings a version, when it goes on itself.
LEMMA OwnLastRun ==
  ASSUME NothingWaits, Inv, OrderInv, MutexInv, LastRunInv, [Next]_vars,
         NEW p \in Pids, WorkerStep(p), RunsAt(pc'[p], loc'[p]), Brings(tk[p])
  PROVE  /\ MarkedAt(pc'[p], loc'[p]) =>
              vv' \in {<<"Do", tk[p]>>, <<"said", tk[p]>>}
         /\ \/ lastRan' = tk[p]
            \/ \A k \in Steps : hist'[tk[p]][k].runs = 0
<1>0. /\ TypeInv /\ pc \in [Pids -> Alive \cup {"free", "dead"}]
      /\ tk[p] \in Tasks
      /\ RunningAt(tk[p], pc[p], loc[p], status[tk[p]])
  BY WorkerOwn, WorkerFacts DEF Own, Inv, TypeInv, TypeOK, MutexInv
<1>1. ASSUME MarkedAt(pc'[p], loc'[p])
      PROVE  vv' \in {<<"Do", tk[p]>>, <<"said", tk[p]>>}
  <2>1. CASE MarkVersion(p)
    BY <2>1 DEF MarkVersion
  <2>2. CASE MarkedAt(pc[p], loc[p])
    <3>1. vv \in {<<"Do", tk[p]>>, <<"said", tk[p]>>}
      BY <1>1, <2>2 DEF LastRunInv, MayRun, RunsAt, MarkedAt
    <3>2. ~RecordVersion(p)
      BY <1>0 DEF RecordVersion, Finish, Goto, RunsAt
    <3>3. ~MarkVersion(p)
      BY <2>2 DEF MarkVersion, MarkedAt
    <3> QED
      BY <3>1, <3>2, <3>3, WorkerVersion
  <2> QED
    BY <1>0, <1>1, <2>1, <2>2, WorkerMutex
<1>2. \/ lastRan' = tk[p]
      \/ \A k \in Steps : hist'[tk[p]][k].runs = 0
  <2>1. CASE Script(p) \/ ScriptDies(p)
    BY <1>0, <2>1, ScriptEffect, PrintedIs
  <2>2. CASE ~Script(p) /\ ~ScriptDies(p) /\ MayRun(p)
    BY <1>0, <2>2, WorkerRuns DEF LastRunInv
  <2>3. CASE ~Script(p) /\ ~ScriptDies(p) /\ ~MayRun(p)
    <3>1. pc[p] \in Preparing
      BY <2>3, MayRunSince DEF Preparing
    <3>2. \A k \in Steps : hist[tk[p]][k].runs = 0
      BY <3>1 DEF OrderInv, OrderAt, Untouched
    <3> QED
      BY <1>0, <2>3, <3>2, WorkerRuns
  <2> QED
    BY <2>1, <2>2, <2>3
<1> QED
  BY <1>1, <1>2

\* ... and while another worker goes on.
LEMMA OtherLastRun ==
  ASSUME OneTarget, Inv, OrderInv, MutexInv, LastRunInv,
         NEW p \in Pids, WorkerStep(p), NEW q \in Pids, q # p,
         MayRun(q), Brings(tk[q])
  PROVE  /\ vv' = vv /\ lastRan' = lastRan
         /\ hist'[tk[q]] = hist[tk[q]]
<1>0. /\ TypeInv /\ Own(p) /\ tk[p] \in Tasks /\ tk[q] \in Tasks \ {tk[p]}
      /\ RunningAt(tk[p], pc[p], loc[p], status[tk[p]])
  BY WorkerOwn, WorkerFacts
  DEF Own, Inv, MutexInv, MayRun, RunsAt, Working, InBody, InPlugin
<1>1. MayRun(p) => tk[p] \notin WriteRow
  BY <1>0, OneWriter DEF WriteRow
<1>2. ~MarkVersion(p)
  BY <1>0, <1>1 DEF MarkVersion, RunningAt, MayRun, RunsAt, WriteRow, Brings
<1>3. ~RecordVersion(p)
  <2>1. RecordVersion(p) => InJob[tk[p]] /\ pc[p] = "record"
    BY DEF RecordVersion, OrderInv, OrderAt
  <2> QED
    BY <1>0, <1>1, <2>1 DEF RunningAt, MayRun, RunsAt, WriteRow, Brings
<1>4. hist'[tk[q]] = hist[tk[q]]
  BY <1>0 DEF Own
<1>5. CASE Script(p) \/ ScriptDies(p)
  <2>1. pc[p] = "script" /\ \E said \in BOOLEAN :
                              Printed(tk[p], loc[p].step, said)
    BY <1>0, <1>5, ScriptEffect
  <2>2. tk[p] \notin WriteRow
    BY <1>1, <2>1 DEF MayRun, RunsAt
  <2> QED
    BY <1>0, <1>4, <2>1, <2>2, PrintedIs
<1>6. CASE ~Script(p) /\ ~ScriptDies(p)
  BY <1>0, <1>2, <1>3, <1>4, <1>6, WorkerRuns, WorkerVersion
<1> QED
  BY <1>5, <1>6

\* The version a worker writes is that of the last script.
LEMMA WorkerLastRun ==
  ASSUME OneTarget, Inv, OrderInv, MutexInv, LastRunInv,
         NEW p \in Pids, WorkerStep(p)
  PROVE  vv'[1] \in {"done", "said"} => lastRan' = vv'[2]
<1> DEFINE t == tk[p]
<1>0. /\ TypeInv /\ t \in Tasks
      /\ RunningAt(t, pc[p], loc[p], status[t])
  BY WorkerOwn, WorkerFacts DEF Own, Inv, MutexInv
<1>1. CASE MarkVersion(p)
  BY <1>1 DEF MarkVersion
<1>2. CASE RecordVersion(p)
  <2>1. /\ pc[p] = "record" /\ vv' = <<"done", t>> /\ lastRan' = lastRan
    BY <1>2 DEF RecordVersion, histVars
  <2>2. /\ Brings(t) /\ RanAt(t, hist[t])
        /\ \A k \in Steps : GoesOn(hist[t][k].outcome)
    BY <1>0, <2>1 DEF RunningAt, OrderInv, OrderAt, Brings
  <2>3. PICK k \in Steps \ Filterable : MustRun(t, k)
    BY <1>0, <2>2 DEF OneTarget
  <2>4. hist[t][k].runs > 0
    BY <2>2, <2>3 DEF RanAt
  <2>5. hist[t][k].runs # 0
    BY <2>4
  <2>6. lastRan = t
    BY <2>1, <2>2, <2>5 DEF LastRunInv, MayRun, RunsAt
  <2> QED
    BY <2>1, <2>6
<1>3. CASE Script(p) \/ ScriptDies(p)
  <2>1. pc[p] = "script" /\ \E said \in BOOLEAN :
                              Printed(t, loc[p].step, said)
    BY <1>0, <1>3, ScriptEffect
  <2>2. Brings(t) => vv \in {<<"Do", t>>, <<"said", t>>}
    BY <2>1 DEF LastRunInv, MayRun, RunsAt, MarkedAt
  <2>3. vv[1] \in {"done", "said"} => lastRan = vv[2]
    BY DEF LastRunInv
  <2>4. \/ vv' = <<"said", t>> /\ lastRan' = t
        \/ vv' = vv /\ lastRan' = t /\ Brings(t)
        \/ vv' = vv /\ lastRan' = lastRan
    BY <1>0, <2>1, PrintedIs
  <2> QED
    BY <2>2, <2>3, <2>4
<1>4. CASE vv' = vv /\ ~Script(p) /\ ~ScriptDies(p)
  BY <1>0, <1>4, WorkerRuns DEF LastRunInv
<1> QED
  BY <1>1, <1>2, <1>3, <1>4, WorkerVersion

\* Every step keeps the version true to the last script.
LEMMA NextLastRun ==
  ASSUME NothingWaits, OneTarget
  PROVE  Inv /\ OrderInv /\ MutexInv /\ LastRunInv /\ [Next]_vars
           => LastRunInv'
<1> SUFFICES ASSUME Inv, OrderInv, MutexInv, LastRunInv, [Next]_vars
             PROVE  LastRunInv'
  OBVIOUS
<1>0. TypeInv
  BY DEF Inv
<1>1. ASSUME NEW q \in Pids, RunsAt(pc'[q], loc'[q]), Brings(tk'[q])
      PROVE  /\ MarkedAt(pc'[q], loc'[q]) =>
                  vv' \in {<<"Do", tk'[q]>>, <<"said", tk'[q]>>}
             /\ \/ lastRan' = tk'[q]
                \/ \A k \in Steps : hist'[tk'[q]][k].runs = 0
  <2>1. tk'[q] = tk[q] /\ tk[q] \in Tasks
    BY <1>1, MayRunSince
  <2>2. CASE WorkerStep(q)
    BY <1>1, <2>1, <2>2, OwnLastRun
  <2>3. CASE ~WorkerStep(q)
    <3>1. MayRun(q)
      BY <1>1, <2>3, MayRunSince
    <3>2. pc'[q] = pc[q] /\ loc'[q] = loc[q]
      <4>1. pc'[q] \in Working /\ ~Claim(q)
        BY <1>1, <3>1
        DEF RunsAt, Working, InBody, InPlugin, Claim, MayRun
      <4> QED
        BY <2>3, <4>1, OthersRest DEF Rests
    <3>3. /\ MarkedAt(pc[q], loc[q]) =>
               vv \in {<<"Do", tk[q]>>, <<"said", tk[q]>>}
          /\ \/ lastRan = tk[q]
             \/ \A k \in Steps : hist[tk[q]][k].runs = 0
      BY <1>1, <2>1, <3>1 DEF LastRunInv
    <3>4. CASE \E p \in Pids : WorkerStep(p)
      <4>1. PICK p \in Pids : WorkerStep(p)
        BY <3>4
      <4>2. q # p
        BY <2>3, <4>1
      <4>3. /\ vv' = vv /\ lastRan' = lastRan
            /\ hist'[tk[q]] = hist[tk[q]]
        BY <1>1, <2>1, <3>1, <4>1, <4>2, OtherLastRun
      <4> QED
        BY <2>1, <3>2, <3>3, <4>3
    <3>5. CASE \A p \in Pids : ~WorkerStep(p)
      BY <1>0, <2>1, <3>2, <3>3, <3>5, RestRuns
    <3> QED
      BY <3>4, <3>5
  <2> QED
    BY <2>2, <2>3
<1>2. vv'[1] \in {"done", "said"} => lastRan' = vv'[2]
  <2>1. CASE \E p \in Pids : WorkerStep(p)
    BY <2>1, WorkerLastRun
  <2>2. CASE \A p \in Pids : ~WorkerStep(p)
    BY <1>0, <2>2, RestRuns DEF LastRunInv
  <2> QED
    BY <2>1, <2>2
<1> QED
  BY <1>1, <1>2 DEF LastRunInv, MayRun

\* When the VERSION row holds a version without "Do_", no other job that brings
\* a version and no other script that printed one has run on the target since
\* (JOB/code/jobs:55-70 and 109-113, JOB/code/plugin_cmd:255-264), if those that
\* write the row share a mutex and nothing makes a task wait: the mutex is all
\* that keeps another of them from the target between the last script and the
\* row.  Jobs without a version and scripts that print none are free to run:
\* they leave no mark.
THEOREM VersionNamesLastRun ==
  ASSUME NothingWaits, OneTarget
  PROVE  Spec => []VersionIsLastRun
<1>1. Init => Inv /\ OrderInv /\ MutexInv /\ LastRunInv
  <2>1. Init => LastRunInv
    BY DEF Init, LastRunInv, MayRun, RunsAt
  <2> QED
    BY <2>1, InitType, InitOwner, InitOrder, InitMutex DEF Inv
<1>2. Inv /\ OrderInv /\ MutexInv /\ LastRunInv /\ [Next]_vars
        => (Inv /\ OrderInv /\ MutexInv /\ LastRunInv)'
  BY NextInv, NextOrder, NextMutex, NextLastRun
<1>3. LastRunInv => VersionIsLastRun
  BY DEF LastRunInv, VersionIsLastRun
<1> QED
  BY <1>1, <1>2, <1>3, PTL DEF Spec
=============================================================================
