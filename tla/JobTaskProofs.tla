---------------------------- MODULE JobTaskProofs ----------------------------
(***************************************************************************)
(* Proofs about JobTask, for every value of its constants.                 *)
(***************************************************************************)
EXTENDS JobTask, TLAPS

\* What a plugin may return.
Results == {"ignore"} \cup Ended

\* A process that is not free has a task; what it has in $tmpstatus or
\* $subtaskstatus where that matters.
RetOK ==
  \A p \in Pids :
    /\ pc[p] # "free" => tk[p] \in Tasks
    /\ pc[p] = "resume" => loc[p].ret \in {"fail", "ignore", "running"}
    /\ pc[p] \in {"close", "pause", "hold", "unpause"} => loc[p].ret \in Results

TypeInv == TypeOK /\ RetOK

ProcType ==
  /\ pc \in [Pids -> Alive \cup {"free", "dead"}]
  /\ tk \in [Pids -> Tasks \cup {NoTask}]
  /\ loc \in [Pids -> Locals]

HistType ==
  /\ hist \in [Tasks -> [Steps -> History]]
  /\ lastRan \in Tasks \cup {NoTask}

\* The local variables a plugin starts with.
LEMMA IdleType == IdleLocals \in Locals
BY ConstantsAssumption DEF Locals, IdleLocals, Steps

\* The worker p goes to a place and nothing else of the processes changes.
LEMMA GotoType ==
  ASSUME TypeInv, NEW p \in Pids, pc[p] # "free", NEW l \in Alive,
         Goto(p, l), loc' = loc,
         l = "resume" => loc[p].ret \in {"fail", "ignore", "running"},
         l \in {"close", "pause", "hold", "unpause"} => loc[p].ret \in Results
  PROVE  ProcType' /\ RetOK'
BY DEF TypeInv, TypeOK, ProcType, RetOK, Goto

\* ... and with its local variables set to v.
LEMMA GotoSetType ==
  ASSUME TypeInv, NEW p \in Pids, pc[p] # "free", NEW l \in Alive, Goto(p, l),
         NEW v \in Locals, loc' = [loc EXCEPT ![p] = v],
         l = "resume" => v.ret \in {"fail", "ignore", "running"},
         l \in {"close", "pause", "hold", "unpause"} => v.ret \in Results
  PROVE  ProcType' /\ RetOK'
BY DEF TypeInv, TypeOK, ProcType, RetOK, Goto

\* Processes that are not free leave: they become free or dead, with the local
\* variables a worker starts with.
LEMMA ExitType ==
  ASSUME TypeInv, NEW S, \A p \in S : pc[p] # "free", Exit(S)
  PROVE  ProcType' /\ RetOK'
<1>1. pc' \in [Pids -> Alive \cup {"free", "dead"}]
  BY DEF TypeInv, TypeOK, Exit
<1>2. tk' \in [Pids -> Tasks \cup {NoTask}]
  BY DEF TypeInv, TypeOK, Exit
<1>3. loc' \in [Pids -> Locals]
  BY IdleType DEF TypeInv, TypeOK, Exit
<1>4. \A p \in Pids : pc'[p] # "free" => tk'[p] \in Tasks
  BY DEF TypeInv, RetOK, Exit
<1>5. \A p \in Pids : pc'[p] \notin {"free", "dead"} =>
        pc'[p] = pc[p] /\ loc'[p] = loc[p]
  BY DEF Exit
<1> QED
  BY <1>1, <1>2, <1>3, <1>4, <1>5 DEF TypeInv, ProcType, RetOK

\* The body gives its result to JOB/code/task.
LEMMA FinishType ==
  ASSUME TypeInv, NEW p \in Pids, pc[p] # "free",
         NEW r \in Results, Finish(p, r)
  PROVE  ProcType' /\ RetOK'
<1> DEFINE v == [IdleLocals EXCEPT !.verdict = r]
<1>1. v \in Locals
  BY ConstantsAssumption DEF Locals, IdleLocals, Results, Ended, Steps
<1>2. /\ Goto(p, "final")
      /\ loc' = [loc EXCEPT ![p] = v]
  BY DEF Finish
<1>3. "final" \in Alive
  BY DEF Alive, Working
<1> HIDE DEF v
<1> QED
  BY <1>1, <1>2, <1>3, GotoSetType

\* A plugin returns, whichever way the job goes on after it.
LEMMA ReturnType ==
  ASSUME TypeInv, NEW p \in Pids, pc[p] # "free",
         NEW r \in Results, Return(p, r)
  PROVE  ProcType' /\ RetOK' /\ HistType'
<1> DEFINE t == tk[p]
           k == loc[p].step
<1>1. k \in Steps
  BY DEF TypeInv, TypeOK, Locals
<1>2. HistType'
  <2>1. hist' = [hist EXCEPT ![t][k].outcome = r] /\ lastRan' = lastRan
    BY DEF Return
  <2>2. t \in Tasks /\ hist[t][k] \in History
    BY <1>1 DEF TypeInv, TypeOK, RetOK
  <2>3. [hist[t][k] EXCEPT !.outcome = r] \in History
    BY <2>2 DEF History, Results
  <2> QED
    BY <2>1, <2>2, <2>3, <1>1 DEF TypeInv, TypeOK, HistType
<1>3. CASE /\ k < NumSteps /\ Goto(p, "begin")
           /\ loc' = [loc EXCEPT ![p] = [IdleLocals EXCEPT !.step = k + 1]]
  <2>1. k + 1 \in Steps
    BY <1>1, <1>3, ConstantsAssumption DEF Steps
  <2>2. [IdleLocals EXCEPT !.step = k + 1] \in Locals
    BY <2>1, ConstantsAssumption DEF Locals, IdleLocals, Steps
  <2>3. "begin" \in Alive
    BY DEF Alive, Working, InBody, InPlugin
  <2> QED
    BY <2>2, <2>3, <1>2, <1>3, GotoSetType
<1>4. CASE Goto(p, "record") /\ loc' = [loc EXCEPT ![p] = IdleLocals]
  <2>1. "record" \in Alive
    BY DEF Alive, Working, InBody
  <2> QED
    BY <2>1, IdleType, <1>2, <1>4, GotoSetType
<1>5. CASE Finish(p, "success") \/ Finish(p, r)
  <2>1. "success" \in Results
    BY DEF Results, Ended
  <2> QED
    BY <2>1, <1>2, <1>5, FinishType
<1> QED
  BY <1>3, <1>4, <1>5 DEF Return

\* The first state is typed.
LEMMA InitType == Init => TypeInv
<1> SUFFICES ASSUME Init PROVE TypeInv
  OBVIOUS
<1>1. loc \in [Pids -> Locals]
  BY IdleType DEF Init
<1>2. /\ [status |-> "null", pause |-> FALSE] \in SubRow
      /\ [outcome |-> "none", ok |-> {}, runs |-> 0, grants |-> 0] \in History
      /\ <<"none", NoTask>> \in Versions
      /\ 0 \in 0..MaxLost
  BY ConstantsAssumption DEF SubRow, History, Versions
<1>3. TypeOK
  <2>1. /\ sub \in [Tasks -> [Steps -> SubRow]]
        /\ hist \in [Tasks -> [Steps -> History]]
        /\ vv \in Versions /\ lost \in 0..MaxLost
    BY <1>2 DEF Init
  <2>2. /\ status \in [Tasks -> Statuses]
        /\ pid \in [Tasks -> Pids \cup {NoPid}]
        /\ reason \in [Tasks -> Reasons]
        /\ notify \in [Tasks -> 0..4]
        /\ aged \in [Tasks -> BOOLEAN]
    BY DEF Init, Statuses, Reasons
  <2> QED
    BY <1>1, <2>1, <2>2 DEF Init, TypeOK
<1> QED
  BY <1>3 DEF Init, TypeInv, RetOK

RowType ==
  /\ status \in [Tasks -> Statuses]
  /\ pid \in [Tasks -> Pids \cup {NoPid}]
  /\ reason \in [Tasks -> Reasons]
  /\ notify \in [Tasks -> 0..4]
  /\ aged \in [Tasks -> BOOLEAN]

SubType ==
  /\ sub \in [Tasks -> [Steps -> SubRow]]
  /\ vv \in Versions

EnvType ==
  /\ callList \subseteq Tasks /\ counted \subseteq Tasks
  /\ buryList \subseteq Tasks /\ burying \in Tasks \cup {NoTask}
  /\ killer \in [Tasks -> {"idle", "read", "killed"}]
  /\ maintain \in BOOLEAN

\* The type invariant, taken apart and put together again ...
LEMMA TypeParts ==
  TypeInv <=> RowType /\ SubType /\ EnvType /\ ProcType /\ HistType
              /\ lost \in 0..MaxLost /\ RetOK
BY DEF TypeInv, TypeOK, RowType, SubType, EnvType, ProcType, HistType

\* ... also in the next state.
LEMMA TypePartsNext ==
  TypeInv' <=> RowType' /\ SubType' /\ EnvType' /\ ProcType' /\ HistType'
               /\ lost' \in 0..MaxLost /\ RetOK'
BY DEF TypeInv, TypeOK, RowType, SubType, EnvType, ProcType, HistType

\* What is said of the local variables of p and of its place.
LEMMA LocalType ==
  ASSUME TypeInv, NEW p \in Pids
  PROVE  /\ loc[p] \in Locals
         /\ loc[p].step \in Steps
         /\ pc[p] # "free" => tk[p] \in Tasks
         /\ pc[p] = "resume" => loc[p].ret \in {"fail", "ignore", "running"}
         /\ pc[p] \in {"close", "pause", "hold", "unpause"} =>
              loc[p].ret \in Results
BY DEF TypeInv, TypeOK, RetOK, Locals

\* The actions of a worker up to the body of its task.
LEMMA OpeningType ==
  ASSUME TypeInv, NEW p \in Pids,
         \/ Start(p) \/ Claim(p) \/ ClaimTaken(p) \/ Load(p) \/ LoadDie(p)
         \/ Limit(p) \/ LimitReached(p) \/ Mutex(p) \/ MutexTaken(p)
  PROVE  TypeInv'
<1> USE DEF Alive, Working, InBody, InPlugin, Fresh
<1> "fail" \in Results
  BY DEF Results, Ended
<1>1. CASE Start(p)
  <2>1. ProcType' /\ RetOK'
    BY <1>1, GotoType, ExitType DEF Start
  <2> QED
    BY <1>1, <2>1, TypeParts, TypePartsNext
    DEF Start, SetReason, RowType, SubType, EnvType, HistType, Reasons,
        envVars, callVars, buryVars, opsVars, histVars
<1>2. CASE Claim(p)
  <2>1. ProcType' /\ RetOK'
    BY <1>2, GotoType DEF Claim
  <2> QED
    BY <1>2, <2>1, TypeParts, TypePartsNext
    DEF Claim, RowType, SubType, EnvType, HistType, Statuses,
        envVars, callVars, buryVars, opsVars, histVars
<1>3. CASE ClaimTaken(p) \/ LoadDie(p)
  <2>1. ProcType' /\ RetOK'
    BY <1>3, ExitType DEF ClaimTaken, LoadDie
  <2> QED
    BY <1>3, <2>1, TypeParts, TypePartsNext
    DEF ClaimTaken, LoadDie, SetReason, RowType, SubType, EnvType, HistType,
        Reasons, envVars, callVars, buryVars, opsVars, histVars
<1>4. CASE Load(p) \/ Limit(p) \/ Mutex(p)
  <2>1. ProcType' /\ RetOK'
    BY <1>4, GotoType DEF Load, Limit, Mutex
  <2> QED
    BY <1>4, <2>1, TypeParts, TypePartsNext
    DEF Load, Limit, Mutex, RowType, SubType, EnvType, HistType,
        dbVars, rowVars, envVars, callVars, buryVars, opsVars, histVars
<1>5. CASE LimitReached(p) \/ MutexTaken(p)
  <2>1. ProcType' /\ RetOK'
    BY <1>5, FinishType DEF LimitReached, MutexTaken
  <2> QED
    BY <1>5, <2>1, TypeParts, TypePartsNext
    DEF LimitReached, MutexTaken, SetReason, RowType, SubType, EnvType,
        HistType, Reasons, envVars, callVars, buryVars, opsVars, histVars
<1> QED
  BY <1>1, <1>2, <1>3, <1>4, <1>5

\* JOB/code/jobs and the errors caught there and in JOB/code/task.
LEMMA BodyType ==
  ASSUME TypeInv, NEW p \in Pids,
         \/ InitRows(p) \/ MarkVersion(p) \/ RecordVersion(p)
         \/ BodyDie(p) \/ StepDie(p)
  PROVE  TypeInv'
<1> USE DEF Alive, Working, InBody, InPlugin, Fresh
<1> "fail" \in Results /\ "success" \in Results
  BY DEF Results, Ended
<1>1. CASE InitRows(p)
  <2>1. ProcType' /\ RetOK'
    BY <1>1, GotoType, FinishType DEF InitRows
  <2> DEFINE Rows(m) == [k \in Steps |->
                           IF k <= m THEN [status |-> "null", pause |-> FALSE]
                           ELSE sub[tk[p]][k]]
  <2>2. \E m \in 0..NumSteps : sub' = [sub EXCEPT ![tk[p]] = Rows(m)]
    <3>1. 0..(NumSteps - 1) \subseteq 0..NumSteps /\ NumSteps \in 0..NumSteps
      BY ConstantsAssumption
    <3> QED
      BY <1>1, <3>1 DEF InitRows
  <2>3. \A m \in 0..NumSteps : Rows(m) \in [Steps -> SubRow]
    BY <1>1, LocalType DEF InitRows, TypeInv, TypeOK, SubRow
  <2> HIDE DEF Rows
  <2>4. sub' \in [Tasks -> [Steps -> SubRow]]
    <3>1. PICK m \in 0..NumSteps : sub' = [sub EXCEPT ![tk[p]] = Rows(m)]
      BY <2>2
    <3> QED
      BY <3>1, <2>3 DEF TypeInv, TypeOK
  <2> QED
    BY <1>1, <2>1, <2>4, TypeParts, TypePartsNext
    DEF InitRows, SetReason, RowType, SubType, EnvType, HistType, Reasons,
        envVars, callVars, buryVars, opsVars, histVars
<1>2. CASE MarkVersion(p) \/ RecordVersion(p)
  <2>1. ProcType' /\ RetOK'
    BY <1>2, GotoType, FinishType DEF MarkVersion, RecordVersion
  <2>2. vv' \in Versions
    BY <1>2, LocalType DEF MarkVersion, RecordVersion, Versions
  <2> QED
    BY <1>2, <2>1, <2>2, TypeParts, TypePartsNext
    DEF MarkVersion, RecordVersion, RowType, SubType, EnvType, HistType,
        rowVars, envVars, callVars, buryVars, opsVars, histVars
<1>3. CASE BodyDie(p)
  <2>1. ProcType' /\ RetOK'
    BY <1>3, FinishType DEF BodyDie
  <2> QED
    BY <1>3, <2>1, TypeParts, TypePartsNext
    DEF BodyDie, SetReason, RowType, SubType, EnvType, HistType, Reasons,
        envVars, callVars, buryVars, opsVars, histVars
<1>4. CASE StepDie(p)
  <2>1. ProcType' /\ RetOK' /\ HistType'
    BY <1>4, ReturnType DEF StepDie
  <2> QED
    BY <1>4, <2>1, TypeParts, TypePartsNext
    DEF StepDie, SetReason, RowType, SubType, EnvType, Reasons,
        envVars, callVars, buryVars, opsVars
<1> QED
  BY <1>1, <1>2, <1>3, <1>4

\* After Close a step pauses or returns.
LEMMA CloseType ==
  ASSUME TypeInv, NEW p \in Pids, pc[p] = "close", AfterClose(p)
  PROVE  ProcType' /\ RetOK' /\ HistType'
<1>1. loc[p].ret \in Results /\ pc[p] # "free"
  BY LocalType
<1>2. CASE Goto(p, "pause") /\ UNCHANGED <<loc, histVars>>
  <2>1. "pause" \in Alive
    BY DEF Alive, Working, InBody, InPlugin
  <2>2. ProcType' /\ RetOK'
    BY <1>1, <1>2, <2>1, GotoType
  <2> QED
    BY <1>2, <2>2, TypeParts DEF HistType, histVars
<1>3. CASE Return(p, loc[p].ret)
  BY <1>1, <1>3, ReturnType
<1> QED
  BY <1>2, <1>3 DEF AfterClose

\* After an answer the script runs again or the step is closed.
LEMMA ResumeType ==
  ASSUME TypeInv, NEW p \in Pids, pc[p] = "resume", AfterResume(p)
  PROVE  ProcType' /\ RetOK'
<1> "script" \in Alive /\ "close" \in Alive
  BY DEF Alive, Working, InBody, InPlugin
<1>1. /\ [loc[p] EXCEPT !.ret = "none"] \in Locals
      /\ [loc[p] EXCEPT !.todo = {}] \in Locals
      /\ loc[p].ret # "running" => loc[p].ret \in Results
      /\ pc[p] # "free"
  BY LocalType DEF Locals, Results, Ended
<1>2. CASE loc[p].ret = "running"
  <2> DEFINE v == [loc[p] EXCEPT !.ret = "none"]
  <2>1. Goto(p, "script") /\ loc' = [loc EXCEPT ![p] = v]
    BY <1>2, <1>1 DEF AfterResume
  <2> HIDE DEF v
  <2>2. v \in Locals
    BY <1>1 DEF v
  <2> QED
    BY <1>1, <2>1, <2>2, GotoSetType
<1>3. CASE loc[p].ret # "running"
  <2> DEFINE v == [loc[p] EXCEPT !.todo = {}]
  <2>1. Goto(p, "close") /\ loc' = [loc EXCEPT ![p] = v]
    BY <1>3, <1>1 DEF AfterResume
  <2>2. v \in Locals /\ v.ret \in Results
    BY <1>1, <1>3, LocalType DEF Locals
  <2> HIDE DEF v
  <2> QED
    BY <1>1, <2>1, <2>2, GotoSetType
<1> QED
  BY <1>2, <1>3

\* What a script printed leaves the VERSION row and the history typed ...
LEMMA PrintedType ==
  ASSUME TypeInv, NEW t \in Tasks, NEW k, NEW said, Printed(t, k, said)
  PROVE  vv' \in Versions /\ lastRan' \in Tasks \cup {NoTask}
BY DEF Printed, TypeInv, TypeOK, Versions

\* ... and so does its run.
LEMMA AfterRunType ==
  ASSUME NEW h \in History, NEW good \in SUBSET Nodes
  PROVE  /\ AfterRun(h, good) \in History
         /\ \A r \in Results :
              [AfterRun(h, good) EXCEPT !.outcome = r] \in History
<1>1. AfterRun(h, good) \in History
  <2>1. h.runs + 1 \in Nat /\ h.ok \cup good \in SUBSET Nodes
    BY DEF History
  <2> QED
    BY <2>1 DEF AfterRun, History
<1> HIDE DEF AfterRun
<1> QED
  BY <1>1 DEF History, Results

\* One run of the script of cmd or scp.
LEMMA ScriptType ==
  ASSUME TypeInv, NEW p \in Pids, Script(p)
  PROVE  ProcType' /\ RetOK' /\ HistType' /\ vv' \in Versions
<1> DEFINE t == tk[p]
           k == loc[p].step
<1>1. PICK failed \in SUBSET loc[p].todo, f \in {"none", "refuse", "fail"} :
        LET flag == IF loc[p].flag = "refuse" \/ f = "none"
                    THEN loc[p].flag ELSE f
            nh   == AfterRun(hist[t][k], loc[p].todo \ failed)
        IN  \/ /\ InJob[t] /\ failed # {}
               /\ Goto(p, "decide")
               /\ loc' = [loc EXCEPT ![p].flag = flag,
                          ![p].todo = NodesLeft(loc[p].todo, failed)]
               /\ hist' = [hist EXCEPT ![t][k] = nh]
            \/ /\ InJob[t] /\ failed = {}
               /\ Goto(p, "close")
               /\ loc' = [loc EXCEPT ![p].todo = {}, ![p].flag = flag,
                                     ![p].ret = Flagged(flag, "success")]
               /\ hist' = [hist EXCEPT ![t][k] = nh]
            \/ LET r == Flagged(flag, IF failed = {} THEN "success"
                                      ELSE "fail")
               IN /\ ~InJob[t]
                  /\ Finish(p, r)
                  /\ hist' = [hist EXCEPT ![t][k] = [nh EXCEPT !.outcome = r]]
  BY ZenonT(30) DEF Script
<1> DEFINE flag == IF loc[p].flag = "refuse" \/ f = "none"
                   THEN loc[p].flag ELSE f
           nh   == AfterRun(hist[t][k], loc[p].todo \ failed)
           rl   == Flagged(flag, IF failed = {} THEN "success" ELSE "fail")
           nl   == [nh EXCEPT !.outcome = rl]
           v    == [loc[p] EXCEPT !.flag = flag, !.todo = failed]
           w    == [loc[p] EXCEPT !.todo = {}, !.flag = flag,
                                  !.ret = Flagged(flag, "success")]
<1>2. pc[p] = "script" /\ t \in Tasks /\ k \in Steps /\ loc[p] \in Locals
  BY LocalType DEF Script
<1>3. flag \in {"none", "refuse", "fail"} /\ failed \subseteq loc[p].todo
  BY <1>2 DEF Locals
<1>4. rl \in Results /\ Flagged(flag, "success") \in Results
  BY <1>3 DEF Flagged, Results, Ended
<1>5. nh \in History /\ nl \in History
  <2>1. hist[t][k] \in History /\ loc[p].todo \ failed \in SUBSET Nodes
    BY <1>2 DEF TypeInv, TypeOK, Locals
  <2> HIDE DEF rl
  <2> QED
    BY <1>4, <2>1, AfterRunType
<1>6. v \in Locals /\ w \in Locals /\ w.ret \in Results
  BY <1>2, <1>3, <1>4 DEF Locals, Results
<1>7. "decide" \in Alive /\ "close" \in Alive
  BY DEF Alive, Working, InBody, InPlugin
<1>8. \/ Goto(p, "decide") /\ loc' = [loc EXCEPT ![p] = v]
         /\ hist' = [hist EXCEPT ![t][k] = nh]
      \/ Goto(p, "close") /\ loc' = [loc EXCEPT ![p] = w]
         /\ hist' = [hist EXCEPT ![t][k] = nh]
      \/ Finish(p, rl) /\ hist' = [hist EXCEPT ![t][k] = nl]
  BY <1>1, <1>2 DEF NodesLeft, TypeInv, TypeOK
<1>9. vv' \in Versions /\ lastRan' \in Tasks \cup {NoTask}
  <2>1. PICK said \in BOOLEAN : Printed(t, k, said)
    BY DEF Script
  <2> QED
    BY <1>2, <2>1, PrintedType
<1> HIDE DEF v, w, nh, nl, rl, t, k
<1>10. HistType'
  <2>1. PICK rec \in History : hist' = [hist EXCEPT ![t][k] = rec]
    BY <1>5, <1>8
  <2>2. hist' \in [Tasks -> [Steps -> History]]
    BY <1>2, <2>1 DEF TypeInv, TypeOK
  <2> QED
    BY <1>9, <2>2 DEF HistType
<1>11. ProcType' /\ RetOK'
  <2>1. CASE Goto(p, "decide") /\ loc' = [loc EXCEPT ![p] = v]
    BY <2>1, <1>2, <1>6, <1>7, GotoSetType
  <2>2. CASE Goto(p, "close") /\ loc' = [loc EXCEPT ![p] = w]
    BY <2>2, <1>2, <1>6, <1>7, GotoSetType
  <2>3. CASE Finish(p, rl)
    BY <2>3, <1>2, <1>4, FinishType
  <2> QED
    BY <1>8, <2>1, <2>2, <2>3
<1> QED
  BY <1>9, <1>10, <1>11

\* A run whose output cannot be written.
LEMMA ScriptDiesType ==
  ASSUME TypeInv, NEW p \in Pids, ScriptDies(p)
  PROVE  ProcType' /\ RetOK' /\ HistType' /\ vv' \in Versions
<1> DEFINE t == tk[p]
           k == loc[p].step
<1>1. pc[p] = "script" /\ t \in Tasks /\ k \in Steps /\ loc[p] \in Locals
  BY LocalType DEF ScriptDies
<1>2. "fail" \in Results
  BY DEF Results, Ended
<1>3. ProcType' /\ RetOK'
  BY <1>1, <1>2, FinishType DEF ScriptDies
<1>4. vv' \in Versions /\ lastRan' \in Tasks \cup {NoTask}
  <2>1. PICK said \in BOOLEAN : Printed(t, k, said)
    BY DEF ScriptDies
  <2> QED
    BY <1>1, <2>1, PrintedType
<1>5. hist' \in [Tasks -> [Steps -> History]]
  <2>1. PICK failed \in SUBSET loc[p].todo :
          hist' = [hist EXCEPT ![t][k] =
                     [AfterRun(@, loc[p].todo \ failed)
                        EXCEPT !.outcome = "fail"]]
    BY DEF ScriptDies
  <2>2. hist[t][k] \in History /\ loc[p].todo \ failed \in SUBSET Nodes
    BY <1>1 DEF TypeInv, TypeOK, Locals
  <2>3. PICK rec \in History : hist' = [hist EXCEPT ![t][k] = rec]
    BY <1>1, <1>2, <2>1, <2>2, AfterRunType DEF TypeInv, TypeOK
  <2> QED
    BY <1>1, <2>3 DEF TypeInv, TypeOK
<1> QED
  BY <1>3, <1>4, <1>5 DEF HistType

\* SetTask writes a status and keeps the rest of the row.
LEMMA SetTaskType ==
  ASSUME TypeInv, NEW t, NEW s \in {"waiting", "running"}, SetTask(t, s)
  PROVE  RowType'
<1>1. status' \in [Tasks -> Statuses]
  BY DEF TypeInv, TypeOK, SetTask, Statuses
<1>2. notify' \in [Tasks -> 0..4]
  <2>1. notify \in [Tasks -> 0..4]
    BY DEF TypeInv, TypeOK
  <2>2. notify' = [notify EXCEPT ![t] = 0]
    BY DEF SetTask
  <2>3. 0 \in 0..4
    OBVIOUS
  <2> QED
    BY <2>1, <2>2, <2>3
<1> QED
  BY <1>1, <1>2 DEF TypeInv, TypeOK, SetTask, RowType

\* The plugins.
LEMMA StepType ==
  ASSUME TypeInv, NEW p \in Pids,
         \/ StepFiltered(p) \/ Begin(p) \/ Script(p) \/ ApprovalEnds(p)
         \/ Decide(p) \/ Wait(p) \/ Poll(p) \/ Resume(p) \/ Close(p)
         \/ Pause(p) \/ Hold(p) \/ Unpause(p) \/ LostWrite(p)
         \/ ScriptDies(p)
  PROVE  TypeInv'
<1> InPlugin \subseteq Alive
  BY DEF Alive, Working, InBody
<1> USE DEF InPlugin
<1>a. "success" \in Results /\ "ignore" \in Results /\ Ended \subseteq Results
  BY DEF Results, Ended
<1>b. /\ loc[p] \in Locals /\ loc[p].step \in Steps
      /\ pc[p] # "free" => tk[p] \in Tasks
  BY LocalType
<1>1. CASE StepFiltered(p)
  <2>1. ProcType' /\ RetOK' /\ HistType'
    BY <1>1, <1>a, ReturnType DEF StepFiltered
  <2> QED
    BY <1>1, <2>1, TypeParts, TypePartsNext
    DEF StepFiltered, RowType, SubType, EnvType,
        dbVars, rowVars, envVars, callVars, buryVars, opsVars
<1>2. CASE Begin(p)
  <2> DEFINE v == [loc[p] EXCEPT !.todo = Nodes]
             w == [loc[p] EXCEPT !.ret = "ignore"]
  <2>1. v \in Locals /\ w \in Locals /\ w.ret \in Results
    BY <1>b, <1>a DEF Locals
  <2>2. \/ Goto(p, "script") /\ loc' = [loc EXCEPT ![p] = v]
           /\ UNCHANGED histVars
        \/ Goto(p, "close") /\ loc' = [loc EXCEPT ![p] = w]
           /\ UNCHANGED histVars
        \/ Return(p, "ignore")
    BY <1>2 DEF Begin
  <2> HIDE DEF v, w
  <2>3. pc[p] # "free"
    BY <1>2 DEF Begin
  <2>4. ProcType' /\ RetOK' /\ HistType'
    <3>1. CASE Goto(p, "script") /\ loc' = [loc EXCEPT ![p] = v]
               /\ UNCHANGED histVars
      <4>1. ProcType' /\ RetOK'
        BY <3>1, <2>1, <2>3, GotoSetType
      <4> QED
        BY <3>1, <4>1, TypeParts DEF HistType, histVars
    <3>2. CASE Goto(p, "close") /\ loc' = [loc EXCEPT ![p] = w]
               /\ UNCHANGED histVars
      <4>1. ProcType' /\ RetOK'
        BY <3>2, <2>1, <2>3, GotoSetType
      <4> QED
        BY <3>2, <4>1, TypeParts DEF HistType, histVars
    <3>3. CASE Return(p, "ignore")
      BY <3>3, <1>a, <2>3, ReturnType
    <3> QED
      BY <2>2, <3>1, <3>2, <3>3
  <2>5. sub' \in [Tasks -> [Steps -> SubRow]]
    <3>1. [status |-> "running", pause |-> StepPause[loc[p].step]] \in SubRow
      BY <1>b, ConstantsAssumption DEF SubRow
    <3> QED
      BY <1>2, <1>b, <3>1 DEF Begin, TypeInv, TypeOK
  <2> QED
    BY <1>2, <2>4, <2>5, TypeParts, TypePartsNext
    DEF Begin, RowType, SubType, EnvType,
        rowVars, envVars, callVars, buryVars, opsVars
<1>3. CASE Script(p)
  BY <1>3, ScriptType, TypeParts, TypePartsNext
  DEF Script, RowType, SubType, EnvType,
      rowVars, envVars, callVars, buryVars, opsVars
<1>4. CASE ApprovalEnds(p)
  <2>1. PICK r \in Ended :
           \/ /\ Goto(p, "close")
              /\ loc' = [loc EXCEPT ![p].todo = {}, ![p].ret = r]
              /\ UNCHANGED histVars
           \/ Return(p, r)
    BY <1>4 DEF ApprovalEnds
  <2> DEFINE v == [loc[p] EXCEPT !.todo = {}, !.ret = r]
  <2>2. v \in Locals /\ v.ret \in Results /\ pc[p] # "free"
    BY <1>4, <1>b, <1>a DEF Locals, ApprovalEnds
  <2>3. \/ Goto(p, "close") /\ loc' = [loc EXCEPT ![p] = v]
           /\ UNCHANGED histVars
        \/ Return(p, r)
    BY <2>1, <1>b DEF TypeInv, TypeOK
  <2> HIDE DEF v
  <2>4. ProcType' /\ RetOK' /\ HistType'
    <3>1. CASE Goto(p, "close") /\ loc' = [loc EXCEPT ![p] = v]
               /\ UNCHANGED histVars
      <4>1. ProcType' /\ RetOK'
        BY <3>1, <2>2, GotoSetType
      <4> QED
        BY <3>1, <4>1, TypeParts DEF HistType, histVars
    <3>2. CASE Return(p, r)
      BY <3>2, <1>a, <2>2, ReturnType
    <3> QED
      BY <2>3, <3>1, <3>2
  <2> QED
    BY <1>4, <2>4, TypeParts, TypePartsNext
    DEF ApprovalEnds, RowType, SubType, EnvType,
        dbVars, rowVars, envVars, callVars, buryVars, opsVars
<1>5. CASE Decide(p)
  <2>1. ProcType' /\ RetOK'
    BY <1>5, GotoType DEF Decide
  <2>2. sub' \in [Tasks -> [Steps -> SubRow]]
    <3>1. /\ tk[p] \in Tasks
          /\ sub[tk[p]][loc[p].step] \in SubRow
      BY <1>5, <1>b DEF Decide, TypeInv, TypeOK
    <3>2. [sub[tk[p]][loc[p].step] EXCEPT !.status = "decision"] \in SubRow
      BY <3>1 DEF SubRow
    <3> QED
      BY <1>5, <1>b, <3>1, <3>2 DEF Decide, TypeInv, TypeOK
  <2> QED
    BY <1>5, <2>1, <2>2, TypeParts, TypePartsNext
    DEF Decide, RowType, SubType, EnvType, HistType,
        rowVars, envVars, callVars, buryVars, opsVars, histVars
<1>6. CASE Wait(p) \/ Pause(p)
  <2>1. ProcType' /\ RetOK'
    BY <1>6, LocalType, GotoType DEF Wait, Pause
  <2> QED
    BY <1>6, <2>1, SetTaskType, TypeParts, TypePartsNext
    DEF Wait, Pause, SubType, EnvType, HistType,
        envVars, callVars, buryVars, opsVars, histVars
<1>7. CASE Poll(p)
  <2>1. PICK r \in {"fail", "ignore", "running"} :
          loc' = [loc EXCEPT ![p].ret = r]
    BY <1>7 DEF Poll, IsAnswer
  <2> DEFINE v == [loc[p] EXCEPT !.ret = r]
  <2>2. v \in Locals /\ v.ret = r /\ loc' = [loc EXCEPT ![p] = v]
    BY <2>1, <1>b DEF Locals, Ended
  <2> HIDE DEF v
  <2>3. ProcType' /\ RetOK'
    BY <1>7, <2>2, GotoSetType DEF Poll
  <2> QED
    BY <1>7, <2>3, TypeParts, TypePartsNext
    DEF Poll, SetReason, RowType, SubType, EnvType, HistType, Reasons,
        envVars, callVars, buryVars, opsVars, histVars
<1>8. CASE Resume(p)
  <2>1. ProcType' /\ RetOK'
    BY <1>8, ResumeType DEF Resume
  <2> QED
    BY <1>8, <2>1, SetTaskType, TypeParts, TypePartsNext
    DEF Resume, SubType, EnvType, HistType,
        envVars, callVars, buryVars, opsVars, histVars
<1>9. CASE Close(p)
  <2>1. ProcType' /\ RetOK' /\ HistType'
    BY <1>9, CloseType DEF Close
  <2>2. sub' \in [Tasks -> [Steps -> SubRow]]
    <3>1. /\ loc[p].ret \in Results /\ tk[p] \in Tasks
          /\ sub[tk[p]][loc[p].step] \in SubRow
      BY <1>9, <1>b, LocalType DEF Close, TypeInv, TypeOK
    <3>2. [sub[tk[p]][loc[p].step] EXCEPT !.status = loc[p].ret] \in SubRow
      BY <3>1 DEF SubRow, Results
    <3> QED
      BY <1>9, <1>b, <3>1, <3>2 DEF Close, TypeInv, TypeOK
  <2> QED
    BY <1>9, <2>1, <2>2, TypeParts, TypePartsNext
    DEF Close, RowType, SubType, EnvType,
        rowVars, envVars, callVars, buryVars, opsVars
<1>10. CASE Hold(p)
  <2>1. ProcType' /\ RetOK'
    BY <1>10, LocalType, GotoType DEF Hold
  <2> QED
    BY <1>10, <2>1, TypeParts, TypePartsNext
    DEF Hold, RowType, SubType, EnvType, HistType,
        dbVars, rowVars, envVars, callVars, buryVars, opsVars, histVars
<1>11. CASE Unpause(p)
  <2>1. ProcType' /\ RetOK' /\ HistType'
    BY <1>11, LocalType, ReturnType DEF Unpause
  <2> QED
    BY <1>11, <2>1, SetTaskType, TypeParts, TypePartsNext
    DEF Unpause, SubType, EnvType,
        envVars, callVars, buryVars, opsVars
<1>12. CASE LostWrite(p)
  <2>1. ProcType' /\ RetOK' /\ HistType'
    <3>1. CASE /\ pc[p] \in {"decide", "wait"}
               /\ Goto(p, "wait") \/ Goto(p, "poll")
               /\ UNCHANGED <<loc, histVars>>
      <4>1. ProcType' /\ RetOK'
        BY <3>1, GotoType
      <4> QED
        BY <3>1, <4>1, TypeParts DEF HistType, histVars
    <3>2. CASE pc[p] = "resume" /\ AfterResume(p) /\ UNCHANGED histVars
      <4>1. ProcType' /\ RetOK'
        BY <3>2, ResumeType
      <4> QED
        BY <3>2, <4>1, TypeParts DEF HistType, histVars
    <3>3. CASE pc[p] = "close" /\ AfterClose(p)
      BY <3>3, CloseType
    <3> QED
      BY <1>12, <3>1, <3>2, <3>3 DEF LostWrite
  <2>2. lost' \in 0..MaxLost
    BY <1>12, ConstantsAssumption DEF LostWrite, TypeInv, TypeOK
  <2> QED
    BY <1>12, <2>1, <2>2, TypeParts, TypePartsNext
    DEF LostWrite, RowType, SubType, EnvType,
        dbVars, rowVars, envVars, callVars, buryVars, opsVars
<1>13. CASE ScriptDies(p)
  BY <1>13, ScriptDiesType, TypeParts, TypePartsNext
  DEF ScriptDies, SetReason, RowType, SubType, EnvType, Reasons,
      envVars, callVars, buryVars, opsVars
<1> QED
  BY <1>1, <1>2, <1>3, <1>4, <1>5, <1>6, <1>7, <1>8, <1>9, <1>10, <1>11, <1>12,
     <1>13

\* Who is killed as a worker of a task is not free.
LEMMA WorkersAlive ==
  \A t \in Tasks : \A p \in WorkersOf(t) : p \in Pids /\ pc[p] # "free"
BY DEF WorkersOf, Alive, Working, InBody, InPlugin, Fresh

\* The end of a worker, and the daemons.
LEMMA DaemonType ==
  ASSUME TypeInv,
         \/ \E p \in Pids : Final(p) \/ Crash(p)
         \/ Call \/ Bury \/ \E t \in Tasks : Age(t)
  PROVE  TypeInv'
<1> USE DEF Alive, Working, InBody, InPlugin, Fresh
<1>1. ASSUME NEW p \in Pids, Final(p) \/ Crash(p)
      PROVE  TypeInv'
  <2>1. ProcType' /\ RetOK'
    BY <1>1, ExitType DEF Final, Crash
  <2> QED
    BY <1>1, <2>1, TypeParts, TypePartsNext
    DEF Final, Crash, RowStatus, RowType, SubType, EnvType, HistType, Statuses,
        Ended, dbVars, rowVars, envVars, callVars, buryVars, opsVars, histVars
<1>2. ASSUME NEW c \in SUBSET Tasks, CallSelect(c) PROVE TypeInv'
  <2>1. ProcType' /\ RetOK'
    BY <1>2, TypeParts DEF CallSelect, ProcType, RetOK, procVars
  <2> QED
    BY <1>2, <2>1, TypeParts, TypePartsNext
    DEF CallSelect, RowType, SubType, EnvType, HistType,
        dbVars, rowVars, buryVars, opsVars, histVars
<1>3. ASSUME NEW t \in Tasks, CallSkip(t) PROVE TypeInv'
  <2>1. ProcType' /\ RetOK'
    BY <1>3, TypeParts DEF CallSkip, ProcType, RetOK, procVars
  <2> QED
    BY <1>3, <2>1, TypeParts, TypePartsNext
    DEF CallSkip, RowType, SubType, EnvType, HistType,
        dbVars, rowVars, buryVars, opsVars, histVars
<1>4. ASSUME NEW t \in Tasks, NEW p \in Pids, CallFork(t, p) PROVE TypeInv'
  <2>1. ProcType' /\ RetOK'
    BY <1>4, TypeParts DEF CallFork, ProcType, RetOK
  <2> QED
    BY <1>4, <2>1, TypeParts, TypePartsNext
    DEF CallFork, RowType, SubType, EnvType, HistType,
        dbVars, rowVars, buryVars, opsVars, histVars
<1>5. CASE BurySelect \/ BuryFail
  <2>1. ProcType' /\ RetOK'
    BY SMTT(30), <1>5, TypeParts
    DEF BurySelect, BuryFail, ProcType, RetOK, procVars
  <2>2. CASE BurySelect
    BY <2>1, <2>2, TypeParts, TypePartsNext
    DEF BurySelect, RowType, SubType, EnvType, HistType, dbVars, rowVars,
        callVars, opsVars, histVars
  <2>3. CASE BuryFail
    <3>1. burying \in Tasks /\ burying' \in Tasks \cup {NoTask}
      BY <2>3, TypeParts DEF BuryFail, EnvType
    <3>2. RowType'
      BY <2>3, <3>1, TypeParts DEF BuryFail, RowType, Statuses, Ended
    <3> QED
      BY <2>1, <2>3, <3>1, <3>2, TypeParts, TypePartsNext
      DEF BuryFail, SubType, EnvType, HistType, callVars, opsVars, histVars
  <2> QED
    BY <1>5, <2>2, <2>3
<1>6. ASSUME NEW t \in Tasks, BuryCheck(t) \/ Age(t) PROVE TypeInv'
  <2>1. ProcType' /\ RetOK'
    BY <1>6, TypeParts DEF BuryCheck, Age, ProcType, RetOK, procVars
  <2> QED
    BY <1>6, <2>1, TypeParts, TypePartsNext
    DEF BuryCheck, Age, RowType, SubType, EnvType, HistType,
        dbVars, rowVars, envVars, callVars, buryVars, opsVars, histVars
<1>7. ASSUME NEW t \in Tasks, BuryTimeout(t) PROVE TypeInv'
  <2>1. ProcType' /\ RetOK'
    BY <1>7, WorkersAlive, ExitType DEF BuryTimeout
  <2> QED
    BY <1>7, <2>1, TypeParts, TypePartsNext
    DEF BuryTimeout, RowType, SubType, EnvType, HistType, dbVars, rowVars,
        callVars, opsVars, histVars
<1>8. ASSUME NEW t \in Tasks, BuryReason(t) PROVE TypeInv'
  <2>1. ProcType' /\ RetOK'
    BY <1>8, TypeParts DEF BuryReason, ProcType, RetOK, procVars
  <2> QED
    BY <1>8, <2>1, TypeParts, TypePartsNext
    DEF BuryReason, SetReason, RowType, SubType, EnvType, HistType, Reasons,
        envVars, callVars, buryVars, opsVars, histVars
<1>9. counted \in SUBSET Tasks /\ {} \in SUBSET Tasks
  BY DEF TypeInv, TypeOK
<1> QED
  BY <1>1, <1>2, <1>3, <1>4, <1>5, <1>6, <1>7, <1>8, <1>9 DEF Call, Bury

\* Users and operators.
LEMMA UserType ==
  ASSUME TypeInv, User \/ Maintain
  PROVE  TypeInv'
<1>1. ASSUME NEW t \in Tasks, NEW k \in Steps, LiftPause(t, k)
      PROVE  TypeInv'
  <2>1. ProcType' /\ RetOK'
    BY <1>1, TypeParts DEF LiftPause, ProcType, RetOK, procVars
  <2>2. sub' \in [Tasks -> [Steps -> SubRow]]
    <3>1. sub[t][k] \in SubRow
      BY DEF TypeInv, TypeOK
    <3>2. [sub[t][k] EXCEPT !.pause = FALSE] \in SubRow
      BY <3>1 DEF SubRow
    <3> QED
      BY <1>1, <3>2 DEF LiftPause, TypeInv, TypeOK
  <2> QED
    BY <1>1, <2>1, <2>2, TypeParts, TypePartsNext
    DEF LiftPause, RowType, SubType, EnvType, HistType,
        rowVars, envVars, callVars, buryVars, opsVars, histVars
<1>2. ASSUME NEW t \in Tasks, NEW k \in Steps,
             NEW c \in {"running", "ignore", "fail"}, Answer(t, k, c)
      PROVE  TypeInv'
  <2>1. ProcType' /\ RetOK'
    BY <1>2, TypeParts DEF Answer, ProcType, RetOK, procVars
  <2>2. sub' \in [Tasks -> [Steps -> SubRow]]
    <3>1. sub[t][k] \in SubRow
      BY DEF TypeInv, TypeOK
    <3>2. [sub[t][k] EXCEPT !.status = c] \in SubRow
      BY <3>1 DEF SubRow, Ended
    <3> QED
      BY <1>2, <3>2 DEF Answer, TypeInv, TypeOK
  <2>3. hist' \in [Tasks -> [Steps -> History]]
    <3>1. hist[t][k] \in History
      BY DEF TypeInv, TypeOK
    <3>2. [hist[t][k] EXCEPT !.grants = @ + 1] \in History
      BY <3>1 DEF History
    <3> QED
      BY <1>2, <3>2 DEF Answer, TypeInv, TypeOK
  <2> QED
    BY <1>2, <2>1, <2>2, <2>3, TypeParts, TypePartsNext
    DEF Answer, RowType, SubType, EnvType, HistType,
        rowVars, envVars, callVars, buryVars, opsVars
<1>3. ASSUME NEW t \in Tasks, AnswerReason(t) PROVE TypeInv'
  <2>1. ProcType' /\ RetOK'
    BY <1>3, TypeParts DEF AnswerReason, ProcType, RetOK, procVars
  <2> QED
    BY <1>3, <2>1, TypeParts, TypePartsNext
    DEF AnswerReason, SetReason, RowType, SubType, EnvType, HistType, Reasons,
        envVars, callVars, buryVars, opsVars, histVars
<1>4. ASSUME NEW t \in Tasks, KillRead(t) \/ KillReason(t)
      PROVE  TypeInv'
  <2>1. ProcType' /\ RetOK'
    BY <1>4, TypeParts DEF KillRead, KillReason, ProcType, RetOK, procVars
  <2> QED
    BY <1>4, <2>1, TypeParts, TypePartsNext
    DEF KillRead, KillReason, SetReason, RowType, SubType, EnvType, HistType,
        Reasons, dbVars, rowVars, callVars, buryVars, histVars
<1>5. ASSUME NEW t \in Tasks, Kill(t)
      PROVE  TypeInv'
  <2>1. ProcType' /\ RetOK'
    BY <1>5, WorkersAlive, ExitType, TypeParts
    DEF Kill, ProcType, RetOK, procVars
  <2> QED
    BY <1>5, <2>1, TypeParts, TypePartsNext
    DEF Kill, RowType, SubType, EnvType, HistType,
        dbVars, rowVars, callVars, buryVars, histVars
<1>6. CASE Maintain
  <2>1. ProcType' /\ RetOK'
    BY <1>6, TypeParts DEF Maintain, ProcType, RetOK, procVars
  <2> QED
    BY <1>6, <2>1, TypeParts, TypePartsNext
    DEF Maintain, RowType, SubType, EnvType, HistType,
        dbVars, rowVars, callVars, buryVars, histVars
<1> QED
  BY <1>1, <1>2, <1>3, <1>4, <1>5, <1>6 DEF User

\* Every step keeps the type invariant.
LEMMA NextType == TypeInv /\ [Next]_vars => TypeInv'
<1> SUFFICES ASSUME TypeInv, [Next]_vars PROVE TypeInv'
  OBVIOUS
<1>1. ASSUME NEW p \in Pids, Work(p) \/ Mishap(p) PROVE TypeInv'
  BY <1>1, OpeningType, BodyType, StepType, DaemonType DEF Work, Mishap
<1>2. CASE UNCHANGED vars
  BY <1>2 DEF TypeInv, TypeOK, RetOK, vars, dbVars, rowVars, procVars, envVars,
              callVars, buryVars, opsVars, histVars
<1> QED
  BY <1>1, <1>2, DaemonType, UserType DEF Next

\* Every row, every process and every list holds only what the program can put
\* there: with a step's result in $subtaskstatus whenever the step is closed.
THEOREM TypeCorrect == Spec => []TypeOK
<1>1. Init => TypeInv
  BY InitType
<1>2. TypeInv /\ [Next]_vars => TypeInv'
  BY NextType
<1>3. TypeInv => TypeOK
  BY DEF TypeInv
<1> QED
  BY <1>1, <1>2, <1>3, PTL DEF Spec
-----------------------------------------------------------------------------
(***************************************************************************)
(* Who may change a task: a row has one worker, a result is never undone   *)
(* except by bury, and JobTask implements JobLifecycle.                    *)
(*                                                                         *)
(* The argument only needs the rows' status and pid, the places of the     *)
(* processes and what bury has in hand, so the many actions of JobTask     *)
(* are first sorted by what they do to these (lemma Shapes).               *)
(***************************************************************************)
\* The inductive invariant.  A pid in a row is the pid of a process that
\* claimed this row and is still at work or dead: pids in rows are not used
\* again.  A result or a place in bury's hand means that it is dead.
OwnerInv ==
  /\ OneWorker
  /\ \A t \in Tasks : pid[t] # NoPid => /\ tk[pid[t]] = t
                                        /\ pc[pid[t]] \in Working \cup {"dead"}
  /\ \A t \in Tasks : status[t] = "init" <=> pid[t] = NoPid
  /\ \A t \in Tasks : status[t] \in Ended => pc[pid[t]] = "dead"
  /\ \A t \in buryList : pid[t] # NoPid
  /\ burying # NoTask => pid[burying] # NoPid /\ pc[pid[burying]] = "dead"

Inv == TypeInv /\ OwnerInv

-----------------------------------------------------------------------------
\* The worker p goes on, perhaps after writing waiting or running to its row:
\* it does that where it begins to wait, or is about to go on, and leaves.
Moves(p) ==
  /\ pc[p] \in Working
  /\ \E l \in Working : Goto(p, l)
  /\ \/ status' = status
     \/ /\ \E l \in Working \ {pc[p]} : Goto(p, l)
        /\ \/ /\ pc[p] \in {"wait", "pause"}
              /\ status' = [status EXCEPT ![tk[p]] = "waiting"]
           \/ /\ pc[p] \in {"resume", "unpause"}
              /\ status' = [status EXCEPT ![tk[p]] = "running"]
  /\ UNCHANGED <<pid, buryVars>>

\* A new process has found that there is no maintenance.
Starts(p) ==
  /\ pc[p] = "start" /\ Goto(p, "claim")
  /\ UNCHANGED <<status, pid, buryVars>>

\* The live processes in S are gone.
Leaves(S) ==
  /\ \A p \in S : pc[p] \in Alive
  /\ Exit(S)
  /\ UNCHANGED <<status, pid, buryVars>>

\* Nothing the argument is about changes.
Quiet == UNCHANGED <<status, pid, pc, tk, buryVars>>

\* A plugin that returns leaves its worker past the claim, at another place.
LEMMA ReturnMoves ==
  ASSUME NEW p \in Pids, NEW r, Return(p, r)
  PROVE  \E l \in {"begin", "record", "final"} : l \in Working /\ Goto(p, l)
BY DEF Return, Finish, Working, InBody, InPlugin

\* How the sets of places lie in each other.
LEMMA PlaceSets ==
  /\ InPlugin \subseteq InBody /\ InBody \subseteq Working
  /\ Working \subseteq Alive /\ Fresh \subseteq Alive
  /\ Working \cap Fresh = {} /\ "free" \notin Alive /\ "dead" \notin Alive
BY DEF Alive, Working, InBody, InPlugin, Fresh

\* A worker with a row moves until its first step ...
LEMMA OpeningMoves ==
  ASSUME NEW p \in Pids,
         \/ Load(p) \/ Limit(p) \/ LimitReached(p) \/ Mutex(p) \/ MutexTaken(p)
         \/ InitRows(p) \/ MarkVersion(p) \/ RecordVersion(p) \/ BodyDie(p)
  PROVE  Moves(p)
<1> USE DEF Working, InBody, InPlugin
<1>1. CASE Load(p) \/ Limit(p) \/ Mutex(p) \/ MarkVersion(p)
  BY <1>1 DEF Load, Limit, Mutex, MarkVersion, Moves, envVars, buryVars,
              dbVars, rowVars
<1>2. CASE LimitReached(p) \/ MutexTaken(p) \/ RecordVersion(p) \/ BodyDie(p)
  BY <1>2 DEF LimitReached, MutexTaken, RecordVersion, BodyDie, Moves, Finish,
              envVars, buryVars, dbVars, rowVars
<1>3. CASE InitRows(p)
  BY <1>3 DEF InitRows, Moves, Finish, envVars, buryVars, dbVars, rowVars
<1> QED
  BY <1>1, <1>2, <1>3

\* ... unless it dies before, or never gets the row.
LEMMA OpeningShapes ==
  ASSUME NEW p \in Pids, Start(p) \/ ClaimTaken(p) \/ LoadDie(p) \/ Crash(p)
  PROVE  Starts(p) \/ Leaves({p})
BY DEF Start, ClaimTaken, LoadDie, Crash, Starts, Leaves, Alive, Fresh,
       Working, envVars, buryVars, dbVars, rowVars

\* A worker in a step moves ...
LEMMA StepShapes ==
  ASSUME NEW p \in Pids,
         \/ StepFiltered(p) \/ Begin(p) \/ Script(p) \/ ApprovalEnds(p)
         \/ Decide(p) \/ Wait(p) \/ Poll(p) \/ Resume(p) \/ Close(p)
         \/ Pause(p) \/ Hold(p) \/ Unpause(p) \/ StepDie(p) \/ LostWrite(p)
         \/ ScriptDies(p)
  PROVE  Moves(p)
<1> USE DEF Moves, envVars, buryVars, dbVars, rowVars
<1>0. {"script", "decide", "wait", "poll", "resume", "close", "pause", "hold",
       "unpause", "begin", "final"} \subseteq Working
  BY DEF Working, InBody, InPlugin
<1>1. CASE StepFiltered(p) \/ StepDie(p)
  BY <1>0, <1>1, ReturnMoves DEF StepFiltered, StepDie
<1>2. CASE Begin(p)
  BY <1>0, <1>2, ReturnMoves DEF Begin
<1>3. CASE Script(p) \/ ScriptDies(p)
  BY <1>0, <1>3 DEF Script, ScriptDies, Finish
<1>4. CASE ApprovalEnds(p)
  BY <1>0, <1>4, ReturnMoves DEF ApprovalEnds
<1>5. CASE Decide(p) \/ Poll(p) \/ Hold(p)
  BY <1>0, <1>5 DEF Decide, Poll, Hold
<1>6. CASE Wait(p) \/ Pause(p)
  BY <1>0, <1>6 DEF Wait, Pause, SetTask
<1>7. CASE Resume(p)
  BY <1>0, <1>7 DEF Resume, SetTask, AfterResume
<1>8. CASE Close(p)
  BY <1>0, <1>8, ReturnMoves DEF Close, AfterClose
<1>9. CASE Unpause(p)
  BY <1>0, <1>9, ReturnMoves DEF Unpause, SetTask
<1>10. CASE LostWrite(p)
  BY <1>0, <1>10, ReturnMoves DEF LostWrite, AfterResume, AfterClose
<1> QED
  BY <1>1, <1>2, <1>3, <1>4, <1>5, <1>6, <1>7, <1>8, <1>9, <1>10

\* ... and users, operators and daemons change nothing or kill the workers of
\* a task.
LEMMA UserShapes ==
  ASSUME \/ User \/ Maintain \/ \E t \in Tasks : Age(t)
         \/ \E c \in SUBSET Tasks : CallSelect(c)
         \/ \E t \in Tasks : CallSkip(t)
  PROVE  Quiet \/ \E t \in Tasks : Leaves(WorkersOf(t))
<1> USE DEF Quiet, dbVars, rowVars, procVars, envVars, callVars, buryVars,
            opsVars
<1>1. ASSUME NEW t \in Tasks, Kill(t)
      PROVE  Quiet \/ Leaves(WorkersOf(t))
  BY <1>1 DEF Kill, Leaves, WorkersOf
<1>2. CASE Maintain \/ \E t \in Tasks : CallSkip(t) \/ Age(t)
  BY <1>2 DEF Maintain, CallSkip, Age
<1>3. CASE \E c \in SUBSET Tasks : CallSelect(c)
  BY <1>3 DEF CallSelect
<1>4. CASE \E t \in Tasks, k \in Steps :
             \/ LiftPause(t, k)
             \/ \E c \in {"running", "ignore", "fail"} : Answer(t, k, c)
  BY <1>4 DEF LiftPause, Answer
<1>5. CASE \E t \in Tasks : AnswerReason(t) \/ KillRead(t) \/ KillReason(t)
  BY <1>5 DEF AnswerReason, KillRead, KillReason
<1> QED
  BY <1>1, <1>2, <1>3, <1>4, <1>5 DEF User

\* What a step may do to the status, the pid and the processes.
LEMMA Shapes ==
  ASSUME TypeInv, [Next]_vars
  PROVE  \/ \E p \in Pids : Moves(p) \/ Starts(p) \/ Claim(p) \/ Final(p)
                            \/ Leaves({p})
         \/ \E t \in Tasks : Leaves(WorkersOf(t))
         \/ \E t \in Tasks, p \in Pids : CallFork(t, p)
         \/ \E t \in Tasks : BuryCheck(t) \/ BuryTimeout(t)
         \/ BurySelect \/ BuryFail \/ Quiet
<1>1. counted \in SUBSET Tasks /\ {} \in SUBSET Tasks
  BY DEF TypeInv, TypeOK
<1>2. CASE \E p \in Pids : Work(p) \/ Mishap(p)
  BY <1>2, OpeningMoves, OpeningShapes, StepShapes DEF Work, Mishap
<1>3. CASE Call \/ User \/ Maintain \/ \E t \in Tasks : Age(t)
  BY <1>1, <1>3, UserShapes DEF Call
<1>4. CASE Bury
  <2>1. ASSUME NEW t \in Tasks, BuryReason(t) PROVE Quiet
    BY <2>1 DEF BuryReason, procVars, envVars, Quiet
  <2> QED
    BY <1>4, <2>1 DEF Bury
<1>5. CASE UNCHANGED vars
  BY <1>5 DEF vars, dbVars, rowVars, procVars, envVars, Quiet
<1> QED
  BY <1>2, <1>3, <1>4, <1>5 DEF Next
-----------------------------------------------------------------------------
\* Nobody owns a row at first.
LEMMA InitOwner == Init => OwnerInv
BY ConstantsAssumption DEF Init, OwnerInv, OneWorker, Working, InBody, InPlugin,
                           Ended

\* The facts about one worker at work that every step uses.
LEMMA WorkerFacts ==
  ASSUME Inv, NEW p \in Pids, pc[p] \in Working
  PROVE  /\ tk[p] \in Tasks
         /\ pid[tk[p]] = p
         /\ status[tk[p]] \in {"running", "waiting"}
         /\ \A t \in Tasks \ {tk[p]} : pid[t] # p
<1>1. tk[p] \in Tasks
  BY PlaceSets DEF Inv, TypeInv, RetOK
<1>2. pid[tk[p]] = p /\ p # NoPid
  BY ConstantsAssumption DEF Inv, OwnerInv, OneWorker
<1>3. status[tk[p]] \in Statuses
  BY <1>1 DEF Inv, TypeInv, TypeOK
<1>4. status[tk[p]] \notin Ended /\ status[tk[p]] # "init"
  BY <1>1, <1>2, PlaceSets DEF Inv, OwnerInv
<1>5. \A t \in Tasks \ {tk[p]} : pid[t] # p
  BY <1>2 DEF Inv, OwnerInv
<1> QED
  BY <1>1, <1>2, <1>3, <1>4, <1>5 DEF Statuses

\* A worker that goes on keeps its row.
LEMMA MovesOwner ==
  ASSUME Inv, NEW p \in Pids, Moves(p)
  PROVE  OwnerInv'
<1>1. PICK l \in Working : Goto(p, l)
  BY DEF Moves
<1>2. /\ pc' = [pc EXCEPT ![p] = l] /\ tk' = tk /\ pid' = pid
      /\ buryList' = buryList /\ burying' = burying
      /\ pc \in [Pids -> Alive \cup {"free", "dead"}]
      /\ l # "dead" /\ pc[p] \in Working
  BY <1>1, PlaceSets DEF Moves, Goto, buryVars, Inv, TypeInv, TypeOK
<1>3. /\ tk[p] \in Tasks /\ pid[tk[p]] = p
      /\ status[tk[p]] \in {"running", "waiting"}
      /\ status \in [Tasks -> Statuses]
  BY <1>2, WorkerFacts DEF Inv, TypeInv, TypeOK
<1>4. \A t \in Tasks : \/ status'[t] = status[t]
                       \/ t = tk[p] /\ status'[t] \in {"running", "waiting"}
  BY <1>3 DEF Moves
<1>5. OneWorker'
  BY <1>2 DEF Inv, OwnerInv, OneWorker
<1>6. \A t \in Tasks : pid[t] # NoPid =>
        tk'[pid[t]] = t /\ pc'[pid[t]] \in Working \cup {"dead"}
  BY <1>2 DEF Inv, OwnerInv
<1>7. \A t \in Tasks : status'[t] = "init" <=> pid'[t] = NoPid
  BY <1>2, <1>3, <1>4 DEF Inv, OwnerInv
<1>8. \A t \in Tasks : status'[t] \in Ended => pc'[pid'[t]] = "dead"
  <2>1. \A t \in Tasks : pc[pid[t]] = "dead" => pid[t] # p
    BY <1>2, PlaceSets
  <2> QED
    BY <1>2, <1>4, <2>1 DEF Inv, OwnerInv, Ended
<1>9. burying' # NoTask =>
        pid'[burying'] # NoPid /\ pc'[pid'[burying']] = "dead"
  BY <1>2, PlaceSets DEF Inv, OwnerInv
<1>10. \A t \in buryList' : pid'[t] # NoPid
  BY <1>2 DEF Inv, OwnerInv
<1> QED
  BY <1>2, <1>5, <1>6, <1>7, <1>8, <1>9, <1>10 DEF OwnerInv

\* Processes that leave give no row to another one.
LEMMA LeavesOwner ==
  ASSUME Inv, NEW S \in SUBSET Pids, \A p \in S : pc[p] \in Alive, Exit(S),
         UNCHANGED <<status, pid>>
  PROVE  /\ OneWorker'
         /\ \A t \in Tasks : pid'[t] # NoPid =>
              tk'[pid'[t]] = t /\ pc'[pid'[t]] \in Working \cup {"dead"}
         /\ \A t \in Tasks : status'[t] = "init" <=> pid'[t] = NoPid
         /\ \A t \in Tasks : status'[t] \in Ended => pc'[pid'[t]] = "dead"
         /\ \A t \in Tasks : pid[t] # NoPid =>
              \/ pc'[pid[t]] = "dead" /\ (pid[t] \in S \/ pc[pid[t]] = "dead")
              \/ pid[t] \notin S /\ pc'[pid[t]] = pc[pid[t]]
<1>1. \A t \in Tasks : pid[t] # NoPid => pid[t] \in Pids
  BY DEF Inv, TypeInv, TypeOK
<1>2. \A p \in Pids : /\ p \notin S => pc'[p] = pc[p] /\ tk'[p] = tk[p]
                      /\ p \in S /\ pc[p] \in Working =>
                           pc'[p] = "dead" /\ tk'[p] = tk[p]
                      /\ p \in S => pc'[p] \in {"free", "dead"}
  BY PlaceSets DEF Exit
<1>3. \A t \in Tasks : pid[t] # NoPid /\ pid[t] \in S => pc[pid[t]] \in Working
  BY PlaceSets DEF Inv, OwnerInv
<1>4. \A t \in Tasks : pid[t] # NoPid =>
              \/ pc'[pid[t]] = "dead" /\ (pid[t] \in S \/ pc[pid[t]] = "dead")
              \/ pid[t] \notin S /\ pc'[pid[t]] = pc[pid[t]]
  BY <1>1, <1>2, <1>3
<1>5. OneWorker'
  BY <1>2, PlaceSets DEF Inv, OwnerInv, OneWorker
<1>6. \A t \in Tasks : pid'[t] # NoPid =>
              tk'[pid'[t]] = t /\ pc'[pid'[t]] \in Working \cup {"dead"}
  BY <1>1, <1>2, <1>3, <1>4 DEF Inv, OwnerInv
<1>7. \A t \in Tasks : status'[t] \in Ended => pc'[pid'[t]] = "dead"
  <2>1. \A t \in Tasks : status[t] \in Ended => pid[t] # NoPid
    BY DEF Inv, OwnerInv, Ended
  <2> QED
    BY <1>4, <2>1 DEF Inv, OwnerInv
<1> QED
  BY <1>4, <1>5, <1>6, <1>7 DEF Inv, OwnerInv

\* Every step keeps the owners.
LEMMA NextOwner == Inv /\ [Next]_vars => OwnerInv'
<1> SUFFICES ASSUME Inv, [Next]_vars PROVE OwnerInv'
  OBVIOUS
<1>0. TypeInv /\ OwnerInv
  BY DEF Inv
<1>1. ASSUME NEW p \in Pids, Moves(p) PROVE OwnerInv'
  BY <1>1, MovesOwner
<1>2. ASSUME NEW p \in Pids, Starts(p) PROVE OwnerInv'
  <2>1. \A q \in Pids : pc'[q] \in Working \cup {"dead"} => pc'[q] = pc[q]
    BY <1>0, <1>2, PlaceSets DEF Starts, Goto, Fresh, TypeInv, TypeOK
  <2>2. \A q \in Pids : pc[q] \in Working \cup {"dead"} => pc'[q] = pc[q]
    BY <1>0, <1>2, PlaceSets DEF Starts, Goto, Fresh, TypeInv, TypeOK
  <2>3. \A t \in Tasks : pid[t] # NoPid => pid[t] \in Pids
    BY <1>0 DEF TypeInv, TypeOK
  <2>4. \A t \in Tasks : status[t] \in Ended => pid[t] # NoPid
    BY <1>0 DEF OwnerInv, Ended
  <2>5. burying \in Tasks \cup {NoTask} /\ buryList \subseteq Tasks
    BY <1>0 DEF TypeInv, TypeOK
  <2> QED
    BY <1>0, <1>2, <2>1, <2>2, <2>3, <2>4, <2>5
    DEF OwnerInv, OneWorker, Starts, Goto, buryVars
<1>3. ASSUME NEW p \in Pids, Claim(p) PROVE OwnerInv'
  <2> DEFINE t == tk[p]
  <2>1. /\ t \in Tasks /\ pid[t] = NoPid /\ pc[p] = "claim"
        /\ pid' = [pid EXCEPT ![t] = p] /\ tk' = tk
        /\ status' = [status EXCEPT ![t] = "running"]
        /\ pc' = [pc EXCEPT ![p] = "load"]
        /\ buryList' = buryList /\ burying' = burying
    BY <1>0, <1>3 DEF Claim, Goto, TypeInv, RetOK, envVars, buryVars
  <2>2. /\ \A u \in Tasks : pid[u] # NoPid => pid[u] \in Pids \ {p}
        /\ pid \in [Tasks -> Pids \cup {NoPid}] /\ p # NoPid
        /\ status \in [Tasks -> Statuses]
        /\ pc \in [Pids -> Alive \cup {"free", "dead"}]
        /\ burying \in Tasks \cup {NoTask} /\ buryList \subseteq Tasks
    BY <1>0, <2>1, PlaceSets, ConstantsAssumption
    DEF OwnerInv, TypeInv, TypeOK, Fresh
  <2>3. "load" \in Working /\ "running" \notin Ended
    BY DEF Working, Ended
  <2> HIDE DEF t
  <2>4. OneWorker'
    <3>1. \A q \in Pids \ {p} : pc[q] \in Working => tk[q] # t
      BY <1>0, <2>1, ConstantsAssumption DEF OwnerInv, OneWorker
    <3>2. tk[p] = t
      BY DEF t
    <3>3. ASSUME NEW q \in Pids, pc'[q] \in Working PROVE pid'[tk'[q]] = q
      <4>1. CASE q = p
        BY <4>1, <2>1, <2>2, <3>2
      <4>2. CASE q # p
        <5>1. pc[q] \in Working /\ tk[q] # t /\ tk[q] \in Tasks
          BY <4>2, <3>1, <3>3, <2>1, <2>2, <1>0, PlaceSets DEF TypeInv, RetOK
        <5> QED
          BY <5>1, <2>1, <2>2, <1>0 DEF OwnerInv, OneWorker
      <4> QED
        BY <4>1, <4>2
    <3> QED
      BY <3>3 DEF OneWorker
  <2>5. \A u \in Tasks : pid'[u] # NoPid => /\ tk'[pid'[u]] = u
                                   /\ pc'[pid'[u]] \in Working \cup {"dead"}
    BY <1>0, <2>1, <2>2, <2>3 DEF OwnerInv, t
  <2>6. \A u \in Tasks : status'[u] = "init" <=> pid'[u] = NoPid
    BY <1>0, <2>1, <2>2 DEF OwnerInv
  <2>7. \A u \in Tasks : status'[u] \in Ended => pc'[pid'[u]] = "dead"
    BY <1>0, <2>1, <2>2, <2>3 DEF OwnerInv, Ended
  <2>8. \A u \in buryList' : pid'[u] # NoPid
    BY <1>0, <2>1, <2>2 DEF OwnerInv
  <2>9. burying' # NoTask =>
          pid'[burying'] # NoPid /\ pc'[pid'[burying']] = "dead"
    BY <1>0, <2>1, <2>2 DEF OwnerInv
  <2> QED
    BY <2>4, <2>5, <2>6, <2>7, <2>8, <2>9 DEF OwnerInv
<1>4. ASSUME NEW p \in Pids, Final(p) PROVE OwnerInv'
  <2> DEFINE t == tk[p]
  <2>1. /\ pc[p] \in Working
        /\ status' = [status EXCEPT ![t] = RowStatus(loc[p].verdict)]
        /\ Exit({p}) /\ pid' = pid
        /\ buryList' = buryList /\ burying' = burying
    BY <1>4 DEF Final, Working, envVars, buryVars
  <2>2. /\ t \in Tasks /\ pid[t] = p
        /\ \A u \in Tasks \ {t} : pid[u] # p
    BY <2>1, WorkerFacts
  <2>3. \A q \in Pids : /\ q # p => pc'[q] = pc[q]
                        /\ tk'[q] = tk[q]
                        /\ pc'[p] = "dead"
    BY <2>1, PlaceSets DEF Exit
  <2>4. RowStatus(loc[p].verdict) \in Ended
    BY DEF RowStatus, Ended
  <2>5. /\ \A u \in Tasks : pid[u] # NoPid => pid[u] \in Pids
        /\ \A u \in Tasks : status[u] \in Ended => pid[u] # NoPid
        /\ status \in [Tasks -> Statuses] /\ p # NoPid
        /\ burying \in Tasks \cup {NoTask} /\ buryList \subseteq Tasks
    BY <1>0, ConstantsAssumption DEF TypeInv, TypeOK, OwnerInv, Ended
  <2>6. OneWorker'
    BY <1>0, <2>1, <2>3, PlaceSets DEF OwnerInv, OneWorker
  <2>7. \A u \in Tasks : pid'[u] # NoPid => /\ tk'[pid'[u]] = u
                                   /\ pc'[pid'[u]] \in Working \cup {"dead"}
    BY <1>0, <2>1, <2>2, <2>3, <2>5 DEF OwnerInv
  <2>8. \A u \in Tasks : status'[u] = "init" <=> pid'[u] = NoPid
    BY <1>0, <2>1, <2>2, <2>4, <2>5 DEF OwnerInv, Ended
  <2>9. \A u \in Tasks : status'[u] \in Ended => pc'[pid'[u]] = "dead"
    BY <1>0, <2>1, <2>2, <2>3, <2>5 DEF OwnerInv
  <2>10. burying' # NoTask =>
          pid'[burying'] # NoPid /\ pc'[pid'[burying']] = "dead"
    BY <1>0, <2>1, <2>2, <2>3, <2>5, PlaceSets DEF OwnerInv
  <2>11. \A u \in buryList' : pid'[u] # NoPid
    BY <1>0, <2>1 DEF OwnerInv
  <2> QED
    BY <2>6, <2>7, <2>8, <2>9, <2>10, <2>11 DEF OwnerInv
<1>5. ASSUME NEW S \in SUBSET Pids, Leaves(S) PROVE OwnerInv'
  <2>1. burying \in Tasks \cup {NoTask}
    BY <1>0 DEF TypeInv, TypeOK
  <2> QED
    BY <1>0, <1>5, <2>1, LeavesOwner DEF Leaves, OwnerInv, buryVars
<1>6. ASSUME NEW t \in Tasks, NEW p \in Pids, CallFork(t, p) PROVE OwnerInv'
  <2>1. \A u \in Tasks : pid[u] # NoPid => pid[u] \in Pids \ {p}
    BY <1>0, <1>6, PlaceSets DEF CallFork, OwnerInv, TypeInv, TypeOK
  <2>2. /\ \A q \in Pids \ {p} : pc'[q] = pc[q] /\ tk'[q] = tk[q]
        /\ pc'[p] = "start" /\ "start" \notin Working
    BY <1>0, <1>6, PlaceSets DEF CallFork, TypeInv, TypeOK, Fresh
  <2>3. \A u \in Tasks : status[u] \in Ended => pid[u] # NoPid
    BY <1>0 DEF OwnerInv, Ended
  <2>4. /\ status' = status /\ pid' = pid /\ buryList' = buryList
        /\ burying' = burying /\ burying \in Tasks \cup {NoTask}
    BY <1>0, <1>6 DEF CallFork, dbVars, rowVars, buryVars, TypeInv, TypeOK
  <2> QED
    BY <1>0, <2>1, <2>2, <2>3, <2>4 DEF OwnerInv, OneWorker
<1>7. CASE BurySelect
  BY <1>0, <1>7 DEF BurySelect, OwnerInv, OneWorker, Unfinished,
                    dbVars, rowVars, procVars
<1>8. CASE BuryFail
  <2>1. /\ burying \in Tasks /\ burying' = NoTask /\ buryList' = buryList
        /\ status' = [status EXCEPT ![burying] = "fail"]
        /\ pid' = pid /\ pc' = pc /\ tk' = tk
        /\ status \in [Tasks -> Statuses]
    BY <1>0, <1>8 DEF BuryFail, procVars, TypeInv, TypeOK
  <2>2. burying # NoTask
    BY <1>8 DEF BuryFail
  <2> QED
    BY <1>0, <2>1, <2>2 DEF OwnerInv, OneWorker, Ended
<1>9. ASSUME NEW t \in Tasks, BuryCheck(t) PROVE OwnerInv'
  BY <1>0, <1>9 DEF BuryCheck, OwnerInv, OneWorker, Gone,
                    dbVars, rowVars, procVars
<1>10. ASSUME NEW t \in Tasks, BuryTimeout(t) PROVE OwnerInv'
  <2>1. /\ Exit(WorkersOf(t)) /\ status' = status /\ pid' = pid
        /\ WorkersOf(t) \in SUBSET Pids
        /\ \A p \in WorkersOf(t) : pc[p] \in Alive
        /\ buryList' \subseteq buryList /\ t \in buryList
        /\ burying = NoTask /\ burying' \in {t, NoTask}
    BY <1>0, <1>10
    DEF BuryTimeout, WorkersOf, TypeInv, TypeOK, dbVars, rowVars
  <2>2. pid[t] # NoPid /\ pid[t] \in Pids /\ tk[pid[t]] = t
    BY <1>0, <2>1 DEF OwnerInv, TypeInv, TypeOK
  <2>3. pc'[pid[t]] = "dead"
    <3>1. pid[t] \in WorkersOf(t) \/ pc[pid[t]] = "dead"
      BY <1>0, <2>2, PlaceSets DEF WorkersOf, OwnerInv
    <3> QED
      BY <2>1, <2>2, <3>1, LeavesOwner, PlaceSets
  <2> QED
    BY <1>0, <2>1, <2>2, <2>3, LeavesOwner DEF OwnerInv
<1>11. CASE Quiet
  BY <1>0, <1>11 DEF Quiet, OwnerInv, OneWorker, buryVars
<1> QED
  <2>1. /\ \A p \in Pids : {p} \in SUBSET Pids
        /\ \A t \in Tasks : WorkersOf(t) \in SUBSET Pids
    BY DEF WorkersOf
  <2> QED
    BY <1>0, <1>1, <1>2, <1>3, <1>4, <1>5, <1>6, <1>7, <1>8, <1>9, <1>10,
       <1>11, <2>1, Shapes

\* The inductive invariant, types and owners, holds always.
THEOREM Invariance == Spec => []Inv
<1>1. Init => Inv
  BY InitType, InitOwner DEF Inv
<1>2. Inv /\ [Next]_vars => Inv'
  BY NextType, NextOwner DEF Inv
<1> QED
  BY <1>1, <1>2, PTL DEF Spec

\* However many workers the call daemon forks for a row, only the one whose pid
\* the row holds gets past the claim (JOB/code/task:43-45).
THEOREM OnlyOneWorker == Spec => []OneWorker
<1>1. Inv => OneWorker
  BY DEF Inv, OwnerInv
<1> QED
  BY <1>1, Invariance, PTL

-----------------------------------------------------------------------------
\* The places of Writes and what is written there.
LEMMA WritesAt ==
  /\ DOMAIN Writes = {"claim", "wait", "resume", "pause", "unpause", "final"}
  /\ \A l \in {"wait", "pause"} : Writes[l] = {"waiting"}
  /\ \A l \in {"claim", "resume", "unpause"} : Writes[l] = {"running"}
  /\ Writes["final"] = Ended
BY DEF Writes

\* The worker p of t writes the status that belongs to its place, and goes on.
Owned(t, p) ==
  /\ tk[p] = t /\ pid[t] \in {NoPid, p} /\ pid'[t] = p
  /\ pc[p] \in DOMAIN Writes /\ pc'[p] # pc[p]
  /\ status'[t] \in Writes[pc[p]]

\* Bury fails the task t it has in hand, whose worker is dead.
Buried(t) ==
  /\ burying = t /\ burying' = NoTask
  /\ pc[pid[t]] = "dead" /\ status'[t] = "fail"

\* Every change of a status: the worker's own, the claim, the result, bury's.
LEMMA StatusChange ==
  ASSUME Inv, [Next]_vars, NEW t \in Tasks, status'[t] # status[t]
  PROVE  \/ \E p \in Pids : Owned(t, p) /\ status[t] \notin Ended
         \/ Buried(t)
<1>0. /\ status \in [Tasks -> Statuses] /\ TypeInv /\ OwnerInv
      /\ pc \in [Pids -> Alive \cup {"free", "dead"}]
  BY DEF Inv, TypeInv, TypeOK
<1>1. ASSUME NEW p \in Pids, Moves(p) \/ Final(p)
      PROVE  Owned(t, p) /\ status[t] \notin Ended
  <2>1. pc[p] \in Working /\ pid' = pid
    BY <1>1 DEF Moves, Final, Working
  <2>2. tk[p] \in Tasks /\ pid[tk[p]] = p
        /\ status[tk[p]] \in {"running", "waiting"}
    BY <2>1, WorkerFacts
  <2>3. tk[p] = t
    BY <1>0, <1>1, <2>2 DEF Moves, Final
  <2>4. CASE Moves(p)
    <3>1. /\ \E l \in Working \ {pc[p]} : Goto(p, l)
          /\ \/ pc[p] \in {"wait", "pause"} /\ status'[t] = "waiting"
             \/ pc[p] \in {"resume", "unpause"} /\ status'[t] = "running"
      BY <1>0, <2>2, <2>3, <2>4 DEF Moves
    <3>2. pc'[p] # pc[p]
      BY <1>0, <3>1 DEF Goto
    <3> QED
      BY <2>1, <2>2, <2>3, <3>1, <3>2, WritesAt DEF Owned, Ended
  <2>5. CASE Final(p)
    <3>1. /\ pc[p] = "final" /\ pc'[p] # pc[p]
          /\ status'[t] = RowStatus(loc[p].verdict)
      BY <1>0, <2>2, <2>3, <2>5 DEF Final, Exit
    <3>2. status'[t] \in Ended
      BY <3>1 DEF RowStatus, Ended
    <3> QED
      BY <2>1, <2>2, <2>3, <3>1, <3>2, WritesAt DEF Owned, Ended
  <2> QED
    BY <1>1, <2>4, <2>5
<1>2. ASSUME NEW p \in Pids, Claim(p)
      PROVE  Owned(t, p) /\ status[t] \notin Ended
  <2>1. tk[p] \in Tasks
    BY <1>0, <1>2 DEF Claim, TypeInv, RetOK
  <2>2. tk[p] = t /\ pid[t] = NoPid /\ status'[t] = "running"
    BY <1>0, <1>2, <2>1 DEF Claim
  <2>3. status[t] = "init"
    BY <1>0, <2>2 DEF OwnerInv
  <2>4. pid'[t] = p /\ pc[p] = "claim" /\ pc'[p] # pc[p]
    BY <1>0, <1>2, <2>2 DEF Claim, Goto, TypeInv, TypeOK
  <2> QED
    BY <2>2, <2>3, <2>4, WritesAt DEF Owned, Ended
<1>3. CASE BuryFail
  BY <1>0, <1>3 DEF BuryFail, TypeInv, TypeOK, OwnerInv, Buried
<1>4. ASSUME \/ \E p \in Pids : Starts(p) \/ Leaves({p})
             \/ \E u \in Tasks : Leaves(WorkersOf(u))
             \/ \E u \in Tasks, p \in Pids : CallFork(u, p)
             \/ \E u \in Tasks : BuryCheck(u) \/ BuryTimeout(u)
             \/ BurySelect \/ Quiet
      PROVE  FALSE
  BY <1>4 DEF Starts, Leaves, CallFork, BuryCheck, BuryTimeout, BurySelect,
              Quiet, dbVars, rowVars
<1> QED
  BY <1>0, <1>1, <1>2, <1>3, <1>4, Shapes

\* A task that ended is never set going again; only bury changes its result,
\* and only to a failure.
THEOREM ResultsStay == Spec => NeverReopened
<1>1. Inv /\ [Next]_vars =>
        [\A t \in Tasks : status[t] \in Ended /\ status'[t] # status[t] =>
           burying = t /\ status'[t] = "fail"]_vars
  BY StatusChange DEF Buried
<1> QED
  BY <1>1, Invariance, PTL DEF Spec, NeverReopened

\* The status of a task is written by its own worker, at the places of the code
\* that write it and with what is written there (JOB/code/task:43-45 and 101,
\* JOB/code/plugin_cmd:281 and 307, JOB/code/pause), or by bury for a worker
\* that is dead; nobody else writes it.
THEOREM OwnersWrite == Spec => OwnerWrites
<1>1. Inv /\ [Next]_vars =>
        [\A t \in Tasks : status'[t] # status[t] =>
           \/ /\ burying = t /\ burying' = NoTask
              /\ pc[pid[t]] = "dead" /\ status'[t] = "fail"
           \/ \E p \in Pids : /\ tk[p] = t /\ pid[t] \in {NoPid, p} /\ pid'[t] = p
                              /\ pc[p] \in DOMAIN Writes /\ pc'[p] # pc[p]
                              /\ status'[t] \in Writes[pc[p]]]_vars
  <2> SUFFICES ASSUME Inv, [Next]_vars, NEW t \in Tasks, status'[t] # status[t]
               PROVE  \/ /\ burying = t /\ burying' = NoTask
                         /\ pc[pid[t]] = "dead" /\ status'[t] = "fail"
                      \/ \E p \in Pids :
                           /\ tk[p] = t /\ pid[t] \in {NoPid, p}
                           /\ pid'[t] = p
                           /\ pc[p] \in DOMAIN Writes /\ pc'[p] # pc[p]
                           /\ status'[t] \in Writes[pc[p]]
    OBVIOUS
  <2> QED
    BY StatusChange DEF Owned, Buried
<1> QED
  BY <1>1, Invariance, PTL DEF Spec, OwnerWrites

-----------------------------------------------------------------------------
(***************************************************************************)
(* JobTask implements JobLifecycle.                                        *)
(***************************************************************************)
LEMMA HandOf ==
  \A t \in Tasks : Hand[t] = IF pid[t] = NoPid THEN "none"
                             ELSE IF pc[pid[t]] = "dead" THEN "gone" ELSE "live"
BY DEF Hand

\* The hand of a task in the next state.
LEMMA HandOfNext ==
  /\ Hand' = [t \in Tasks |-> Hand'[t]]
  /\ \A t \in Tasks : Hand'[t] = IF pid'[t] = NoPid THEN "none"
                      ELSE IF pc'[pid'[t]] = "dead" THEN "gone" ELSE "live"
BY DEF Hand

\* Hand' is Hand but for t.
LEMMA HandExcept ==
  ASSUME NEW t \in Tasks, NEW h, Hand'[t] = h,
         \A u \in Tasks \ {t} : Hand'[u] = Hand[u]
  PROVE  Hand' = [Hand EXCEPT ![t] = h]
BY ZenonT(30) DEF Hand

\* If neither pid nor pc changes, no hand does.
LEMMA HandSame ==
  ASSUME \A u \in Tasks : Hand'[u] = Hand[u]
  PROVE  Hand' = Hand
BY DEF Hand

\* The first state maps to the first state of JobLifecycle.
LEMMA InitLifecycle == Init => Lifecycle!Init
BY DEF Init, Lifecycle!Init, Hand

\* A worker that goes on maps to Ask, GoOn or a stutter.
LEMMA MovesLifecycle ==
  ASSUME Inv, NEW p \in Pids, Moves(p)
  PROVE  [Lifecycle!Next]_<<status, Hand>>
<1> DEFINE t == tk[p]
<1>1. /\ t \in Tasks /\ pid[t] = p /\ p # NoPid
      /\ status[t] \in {"running", "waiting"} /\ status \in [Tasks -> Statuses]
      /\ \A u \in Tasks \ {t} : pid[u] # p
      /\ pc[p] # "dead"
  BY WorkerFacts, PlaceSets, ConstantsAssumption
  DEF Moves, Inv, TypeInv, TypeOK
<1>2. PICK l \in Working : Goto(p, l)
  BY DEF Moves
<1>3. pid' = pid /\ pc' = [pc EXCEPT ![p] = l] /\ l # "dead"
      /\ pc \in [Pids -> Alive \cup {"free", "dead"}]
  BY <1>2, PlaceSets DEF Moves, Goto, Inv, TypeInv, TypeOK
<1>4. Hand' = Hand
  BY <1>1, <1>3, HandOf, HandOfNext, HandSame
<1>5. Hand[t] = "live"
  BY <1>1, HandOf
<1>6. CASE status' = status
  BY <1>4, <1>6
<1>7. ASSUME NEW s \in {"waiting", "running"},
             status' = [status EXCEPT ![t] = s]
      PROVE  [Lifecycle!Next]_<<status, Hand>>
  <2>1. CASE s = status[t]
    BY <1>1, <1>4, <1>7, <2>1
  <2>2. CASE s = "waiting" /\ status[t] = "running"
    BY <1>1, <1>4, <1>5, <1>7, <2>2 DEF Lifecycle!Next, Lifecycle!Ask
  <2>3. CASE s = "running" /\ status[t] = "waiting"
    BY <1>1, <1>4, <1>5, <1>7, <2>3 DEF Lifecycle!Next, Lifecycle!GoOn
  <2> QED
    BY <1>1, <1>7, <2>1, <2>2, <2>3
<1> QED
  BY <1>6, <1>7 DEF Moves

\* The processes in S leave and at most one of them is the worker of a task.
LEMMA LeavesLifecycle ==
  ASSUME Inv, NEW S \in SUBSET Pids, \A p \in S : pc[p] \in Alive, Exit(S),
         UNCHANGED <<status, pid>>,
         NEW t \in Tasks, \A u \in Tasks \ {t} : pid[u] \notin S
  PROVE  [Lifecycle!Next]_<<status, Hand>>
<1>1. \A u \in Tasks : pid[u] # NoPid =>
              \/ pc'[pid[u]] = "dead" /\ (pid[u] \in S \/ pc[pid[u]] = "dead")
              \/ pid[u] \notin S /\ pc'[pid[u]] = pc[pid[u]]
  BY LeavesOwner
<1>2. \A u \in Tasks \ {t} : Hand'[u] = Hand[u]
  BY <1>1, HandOf, HandOfNext
<1>3. CASE Hand'[t] = Hand[t]
  <2>1. Hand' = Hand
    BY <1>2, <1>3, HandSame
  <2> QED
    BY <2>1
<1>4. CASE Hand'[t] # Hand[t]
  <2>1. Hand[t] = "live" /\ Hand'[t] = "gone"
    BY <1>1, <1>4, HandOf, HandOfNext
  <2>2. Hand' = [Hand EXCEPT ![t] = "gone"]
    BY <1>2, <2>1, HandExcept
  <2> QED
    BY <2>1, <2>2 DEF Lifecycle!Next, Lifecycle!Vanish
<1> QED
  BY <1>3, <1>4

\* Every step maps to a step of JobLifecycle or to a stutter.
LEMMA NextLifecycle ==
  ASSUME Inv, [Next]_vars
  PROVE  [Lifecycle!Next]_<<status, Hand>>
<1>0. /\ TypeInv /\ OwnerInv
      /\ \A u \in Tasks : pid[u] # NoPid => pid[u] \in Pids
      /\ status \in [Tasks -> Statuses]
  BY DEF Inv, TypeInv, TypeOK
<1>1. ASSUME NEW p \in Pids, Moves(p) PROVE [Lifecycle!Next]_<<status, Hand>>
  BY <1>1, MovesLifecycle
<1>2. ASSUME NEW p \in Pids, Starts(p) PROVE [Lifecycle!Next]_<<status, Hand>>
  <2>1. \A q \in Pids : pc'[q] = "dead" <=> pc[q] = "dead"
    BY <1>0, <1>2, PlaceSets DEF Starts, Goto, Fresh, TypeInv, TypeOK
  <2>2. pid' = pid /\ status' = status
    BY <1>2 DEF Starts
  <2>3. Hand' = Hand
    BY <1>0, <2>1, <2>2, HandOf, HandOfNext, HandSame
  <2> QED
    BY <2>2, <2>3
<1>3. ASSUME NEW p \in Pids, Claim(p) PROVE [Lifecycle!Next]_<<status, Hand>>
  <2> DEFINE t == tk[p]
  <2>1. /\ t \in Tasks /\ pid[t] = NoPid /\ pc[p] = "claim"
        /\ pid' = [pid EXCEPT ![t] = p]
        /\ status' = [status EXCEPT ![t] = "running"]
        /\ pc' = [pc EXCEPT ![p] = "load"]
        /\ pid \in [Tasks -> Pids \cup {NoPid}] /\ p # NoPid
        /\ pc \in [Pids -> Alive \cup {"free", "dead"}]
    BY <1>0, <1>3, ConstantsAssumption
    DEF Claim, Goto, TypeInv, TypeOK, RetOK
  <2>2. \A u \in Tasks : pid[u] # NoPid => pid[u] \in Pids \ {p}
    BY <1>0, <2>1, PlaceSets DEF OwnerInv, Fresh
  <2>3. status[t] = "init"
    BY <1>0, <2>1 DEF OwnerInv
  <2> HIDE DEF t
  <2>4. \A u \in Tasks \ {t} : Hand'[u] = Hand[u]
    BY <2>1, <2>2, HandOf, HandOfNext
  <2>5. Hand[t] = "none" /\ Hand'[t] = "live"
    BY <2>1, HandOf, HandOfNext
  <2>6. Hand' = [Hand EXCEPT ![t] = "live"]
    BY <2>1, <2>4, <2>5, HandExcept
  <2> QED
    BY <2>1, <2>3, <2>5, <2>6 DEF Lifecycle!Next, Lifecycle!Take
<1>4. ASSUME NEW p \in Pids, Final(p) PROVE [Lifecycle!Next]_<<status, Hand>>
  <2> DEFINE t == tk[p]
             r == RowStatus(loc[p].verdict)
  <2>1. /\ pc[p] \in Working /\ Exit({p}) /\ pid' = pid
        /\ status' = [status EXCEPT ![t] = r]
    BY <1>4 DEF Final, Working
  <2>2. /\ t \in Tasks /\ pid[t] = p /\ p # NoPid
        /\ status[t] \in {"running", "waiting"}
        /\ \A u \in Tasks \ {t} : pid[u] # p
    BY <2>1, WorkerFacts, ConstantsAssumption
  <2>3. pc'[p] = "dead" /\ \A q \in Pids \ {p} : pc'[q] = pc[q]
    BY <2>1, PlaceSets DEF Exit
  <2>4. r \in Lifecycle!Ended
    BY DEF RowStatus, Lifecycle!Ended
  <2> HIDE DEF t, r
  <2>5. \A u \in Tasks \ {t} : Hand'[u] = Hand[u]
    BY <1>0, <2>1, <2>2, <2>3, HandOf, HandOfNext
  <2>6. Hand[t] = "live" /\ Hand'[t] = "gone"
    BY <2>1, <2>2, <2>3, PlaceSets, HandOf, HandOfNext
  <2>7. Hand' = [Hand EXCEPT ![t] = "gone"]
    BY <2>2, <2>5, <2>6, HandExcept
  <2> QED
    BY <2>1, <2>2, <2>4, <2>6, <2>7 DEF Lifecycle!Next, Lifecycle!Finish
<1>5. ASSUME NEW p \in Pids, Leaves({p})
      PROVE  [Lifecycle!Next]_<<status, Hand>>
  <2>1. tk[p] \in Tasks /\ pc[p] \in Alive
    BY <1>0, <1>5, PlaceSets DEF Leaves, TypeInv, RetOK
  <2>2. \A u \in Tasks \ {tk[p]} : pid[u] \notin {p}
    BY <1>0, ConstantsAssumption DEF OwnerInv
  <2> QED
    BY <1>5, <2>1, <2>2, LeavesLifecycle DEF Leaves
<1>6. ASSUME NEW t \in Tasks, NEW p \in Pids, CallFork(t, p)
      PROVE  [Lifecycle!Next]_<<status, Hand>>
  <2>1. \A q \in Pids : pc'[q] = "dead" <=> pc[q] = "dead"
    BY <1>0, <1>6 DEF CallFork, TypeInv, TypeOK
  <2>2. pid' = pid /\ status' = status
    BY <1>6 DEF CallFork, dbVars, rowVars
  <2>3. Hand' = Hand
    BY <1>0, <2>1, <2>2, HandOf, HandOfNext, HandSame
  <2> QED
    BY <2>2, <2>3
<1>7. CASE BuryFail
  <2>1. /\ burying \in Tasks /\ pid' = pid /\ pc' = pc
        /\ status' = [status EXCEPT ![burying] = "fail"]
    BY <1>0, <1>7 DEF BuryFail, procVars, TypeInv, TypeOK
  <2>2. Hand' = Hand
    BY <2>1, HandOf, HandOfNext, HandSame
  <2>3. Hand[burying] = "gone"
    BY <1>0, <1>7, <2>1, HandOf DEF OwnerInv, BuryFail
  <2> QED
    BY <2>1, <2>2, <2>3 DEF Lifecycle!Next, Lifecycle!Bury
<1>8. CASE BurySelect \/ Quiet \/ \E t \in Tasks : BuryCheck(t)
  <2>1. status' = status /\ pid' = pid /\ pc' = pc
    BY <1>8 DEF BurySelect, Quiet, BuryCheck, dbVars, rowVars, procVars
  <2>2. Hand' = Hand
    BY <2>1, HandOf, HandOfNext, HandSame
  <2> QED
    BY <2>1, <2>2
<1>9. ASSUME NEW t \in Tasks, BuryTimeout(t) \/ Leaves(WorkersOf(t))
      PROVE  [Lifecycle!Next]_<<status, Hand>>
  <2>1. /\ Exit(WorkersOf(t)) /\ status' = status /\ pid' = pid
        /\ WorkersOf(t) \in SUBSET Pids
        /\ \A p \in WorkersOf(t) : pc[p] \in Alive /\ tk[p] = t
    BY <1>9 DEF BuryTimeout, Leaves, WorkersOf, dbVars, rowVars
  <2>2. \A u \in Tasks \ {t} : pid[u] \notin WorkersOf(t)
    BY <1>0, <2>1, ConstantsAssumption DEF OwnerInv, WorkersOf
  <2> QED
    BY <2>1, <2>2, LeavesLifecycle
<1> QED
  BY <1>0, <1>1, <1>2, <1>3, <1>4, <1>5, <1>6, <1>7, <1>8, <1>9, Shapes

\* The task engine keeps the promise of JobLifecycle: a task is taken once, by
\* one worker; that worker alone moves it and gives it a result; only when it
\* is gone the service fails the task.
THEOREM Refinement == Spec => KeepsLifecycle
<1>1. Init => Lifecycle!Init
  BY InitLifecycle
<1>2. Inv /\ [Next]_vars => [Lifecycle!Next]_<<status, Hand>>
  BY NextLifecycle
<1> QED
  BY <1>1, <1>2, Invariance, PTL
  DEF Spec, KeepsLifecycle, Lifecycle!Spec, Lifecycle!vars
=============================================================================
