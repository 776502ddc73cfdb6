---------------------------- MODULE JobxTaskProofs ----------------------------
(***************************************************************************)
(* Proofs about JobxTask, for any deployments and number of batches: the   *)
(* types, the order and the results of the batches, what a rollback covers *)
(* and that a deployment keeps the promise of JobLifecycle.                *)
(***************************************************************************)
EXTENDS JobxTask, FiniteSetTheorems, TLAPS

Back(u) == <<u, "rollback">>
Forth(u) == <<u, "deploy">>

\* The worker has not begun with its batches.
Early == {"none"} \cup Preparing

\* Where a worker is and which batch it is at.
PlaceInv ==
  \A t \in Tasks :
    /\ pc[t] \in Early => idx[t] = 1 /\ verdict[t] = "success"
    /\ pc[t] \in InBatch => idx[t] <= Len(plan[t]) /\ verdict[t] # "refuse"
    /\ pc[t] = "result" => got[t] \in Ended

TypeInv == TypeOK /\ PlaceInv

\* The status in a row against the place of its worker; bury has in hand only
\* rows of dead workers.
RowInv ==
  /\ \A t \in Tasks :
       /\ pc[t] = "none" => status[t] \in {"none", "init", "success"}
       /\ pc[t] \in Alive \ {"version"} => status[t] = "running"
       /\ pc[t] = "version" => status[t] = "success"
       /\ pc[t] = "dead" => status[t] \notin {"none", "init"}
  /\ \A u \in Uuids :
       /\ pc[Forth(u)] = "none" => status[Forth(u)] = "init"
       /\ ~HasPrev[u] => pc[Back(u)] = "none"
                         /\ status[Back(u)] \in {"none", "success"}
  /\ \A t \in buryList : pc[t] # "none"
  /\ burying # NoTask => pc[burying] = "dead"

\* A batch the worker has taken up.
Begun(t, i) == bstat[t][i] \notin {"none", "init", "cancel"}

\* Nothing was asked for a batch that was not taken up; a worker takes them up
\* one after the other.
BatchInv ==
  /\ \A t \in Tasks, i \in Indices : ~Begun(t, i) =>
       \A n \in Posts : req[<<t, i>>][n] = "idle"
  /\ \A b \in made : \E n \in Posts : req[b][n] # "idle"
  /\ \A t \in Tasks :
       /\ pc[t] \in Early => \A i \in Indices : ~Begun(t, i)
       /\ pc[t] \in InBatch => \A i \in Indices : i > idx[t] => ~Begun(t, i)
       /\ pc[t] = "take" => ~Begun(t, idx[t])
       /\ pc[t] \in {"post", "poll", "result"} => bstat[t][idx[t]] = "running"
       /\ pc[t] = "confirm" => bstat[t][idx[t]] = "fail"

\* The verdict so far is that of the batches so far, and so is the result.
Verdict(t) ==
  /\ pc[t] \in InBatch /\ verdict[t] = "success" =>
       \A i \in Indices : i < idx[t] => bstat[t][i] = "success"
  /\ pc[t] = "final" /\ verdict[t] = "success" =>
       \A i \in 1..Len(plan[t]) : bstat[t][i] = "success"
  /\ pc[t] = "final" /\ verdict[t] = "refuse" => bstat[t][idx[t]] = "refuse"
  /\ pc[t] # "none" =>
       /\ status[t] = "success" =>
            \A i \in 1..Len(plan[t]) : bstat[t][i] = "success"
       /\ status[t] = "refuse" => bstat[t][idx[t]] = "refuse"

VerdictInv == \A t \in Tasks : Verdict(t)

\* A batch that is over and, if it failed, was looked at.
Done(t, i) ==
  /\ \/ bstat[t][i] = "success"
     \/ bstat[t][i] = "fail" /\ confirm[t][i] = "stop"
  /\ <<t, i>> \in made /\ jphase[<<t, i>>] \in Ended

\* Where JOB tasks are made by the command there is one request per batch, and
\* whoever is told of success finds the JOB task there.
Asked(b) ==
  /\ \A n \in Posts : n # 1 => req[b][n] = "idle"
  /\ req[b][1] # "select"
  /\ req[b][1] = "ok" => b \in made
  /\ b \in made => req[b][1] \in {"ok", "no"}

\* No batch is taken up before those in front are over.
Turn(t) ==
  /\ pc[t] \in {"poll", "result", "confirm"} => <<t, idx[t]>> \in made
  /\ pc[t] = "result" => jphase[<<t, idx[t]>>] \in {got[t], "fail"}
  /\ pc[t] = "confirm" => confirm[t][idx[t]] # "null"
  /\ pc[t] \in InBatch => \A i \in Indices : i < idx[t] => Done(t, i)
  /\ \A i, j \in Indices : i < j /\ Begun(t, j) => Done(t, i)
  /\ \A i \in Indices : bstat[t][i] \in Ended =>
       /\ <<t, i>> \in made
       /\ jphase[<<t, i>>] \in {bstat[t][i], "fail"}

TurnInv == (\A b \in Batches : Asked(b)) /\ (\A t \in Tasks : Turn(t))

\* Every batch of the deployment for which something was asked is in the plan of
\* the rollback.
Planned(u) ==
  \A i \in Indices : (\E n \in Posts : req[<<Forth(u), i>>][n] # "idle") =>
    \E k \in 1..Len(plan[Back(u)]) : plan[Back(u)][k] = i

\* Where users roll back only a deployment that has ended: it has when the
\* rollback runs, and if it was refused the rollback does nothing.
Roll(u) ==
  /\ status[Back(u)] = "init" \/ pc[Back(u)] # "none" =>
       status[Forth(u)] \in Ended
  /\ status[Forth(u)] = "refuse" =>
       pc[Back(u)] \in {"none", "load", "check", "dead"}
  /\ \/ pc[Back(u)] \in {"rows", "final", "version"} \cup InBatch
     \/ pc[Back(u)] # "none" /\ status[Back(u)] = "success"
     => Planned(u)
  /\ status[Forth(u)] = "refuse" =>
       \A i \in Indices, n \in Posts : req[<<Back(u), i>>][n] = "idle"

RollInv == \A u \in Uuids : Roll(u)
-----------------------------------------------------------------------------
(* Helpers.                                                                *)

\* A list of some batches in their order has them all, and no more than there
\* are.
LEMMA InOrderIs ==
  ASSUME NEW S \in SUBSET Indices, NEW r, NEW s \in InOrder(S, r)
  PROVE  /\ s \in Seq(Indices) /\ Len(s) <= NumBatches
         /\ \A i \in S : \E k \in 1..Len(s) : s[k] = i
<1> DEFINE c == Cardinality(S)
<1>1. IsFiniteSet(Indices) /\ Cardinality(Indices) = NumBatches
  BY FS_Interval, ConstantsAssumption DEF Indices
<1>2. c \in Nat /\ c <= NumBatches
  BY <1>1, FS_Subset, FS_CardinalityType
<1>3. s \in [1..c -> S] /\ \A i \in S : \E k \in 1..c : s[k] = i
  BY DEF InOrder, Bijection, Injection, Surjection
<1>4. s \in Seq(Indices) /\ Len(s) = c
  BY <1>2, <1>3
<1> QED
  BY <1>2, <1>3, <1>4

\* A step of a JOB task ...
JobSteps(b) == \/ Job!Take(b) \/ Job!Ask(b) \/ Job!GoOn(b)
               \/ Job!Finish(b) \/ Job!Vanish(b) \/ Job!Bury(b)

\* ... keeps the type of the row, and a result gives way to a failure only.
LEMMA JobIs ==
  ASSUME TypeOK, NEW b \in Batches, JobSteps(b)
  PROVE  /\ jphase' \in [Batches -> {"init", "running", "waiting"} \cup Ended]
         /\ jhand' \in [Batches -> {"none", "live", "gone"}]
         /\ \A a \in Batches : jphase[a] \in Ended =>
              jphase'[a] \in {jphase[a], "fail"}
<1> USE DEF TypeOK, Ended
<1>1. CASE Job!Take(b)
  BY <1>1 DEF Job!Take
<1>2. CASE Job!Ask(b)
  BY <1>2 DEF Job!Ask
<1>3. CASE Job!GoOn(b)
  BY <1>3 DEF Job!GoOn
<1>4. CASE Job!Finish(b)
  BY <1>4 DEF Job!Finish, Job!Ended
<1>5. CASE Job!Vanish(b)
  BY <1>5 DEF Job!Vanish
<1>6. CASE Job!Bury(b)
  BY <1>6 DEF Job!Bury
<1> QED
  BY <1>1, <1>2, <1>3, <1>4, <1>5, <1>6 DEF JobSteps

\* What becomes of a worker whose batch is over with s.
LEMMA ReturnIs ==
  ASSUME TypeInv, NEW t \in Tasks, NEW s \in BatchEnded, pc[t] \in InBatch,
         Return(t, s)
  PROVE  /\ pc' \in [Tasks -> Alive \cup {"none", "dead"}]
         /\ idx' \in [Tasks -> Indices] /\ verdict' \in [Tasks -> Ended]
         /\ \A x \in Tasks : x # t =>
              pc'[x] = pc[x] /\ idx'[x] = idx[x] /\ verdict'[x] = verdict[x]
         /\ \/ /\ pc'[t] = "take" /\ s \in {"success", "fail"}
               /\ idx'[t] = idx[t] + 1 /\ idx'[t] <= Len(plan[t])
            \/ /\ pc'[t] = "final" /\ idx'[t] = idx[t]
               /\ s \in {"success", "fail"} => idx[t] = Len(plan[t])
         /\ s \in {"fail", "cancel"} => verdict'[t] = "fail"
         /\ s = "refuse" => verdict'[t] = "refuse"
         /\ s = "success" => verdict'[t] = verdict[t]
<1> DEFINE last == Stops(s) \/ idx[t] = Len(plan[t])
<1>0. /\ idx[t] \in Indices /\ idx[t] <= Len(plan[t]) /\ Len(plan[t]) \in Nat
      /\ Len(plan[t]) <= NumBatches /\ verdict[t] \in Ended
  BY DEF TypeInv, TypeOK, PlaceInv
<1>1. /\ verdict' \in [Tasks -> Ended]
      /\ \A x \in Tasks : x # t => verdict'[x] = verdict[x]
      /\ s \in {"fail", "cancel"} => verdict'[t] = "fail"
      /\ s = "refuse" => verdict'[t] = "refuse"
      /\ s = "success" => verdict'[t] = verdict[t]
  BY <1>0 DEF Return, TypeInv, TypeOK, Ended
<1>2. CASE last
  <2>1. pc' = [pc EXCEPT ![t] = "final"] /\ idx' = [idx EXCEPT ![t] = @]
    BY <1>2 DEF Return, Goto
  <2> QED
    BY <1>0, <1>1, <1>2, <2>1
    DEF Stops, TypeInv, TypeOK, Alive, BatchEnded, Ended
<1>3. CASE ~last
  <2>1. pc' = [pc EXCEPT ![t] = "take"] /\ idx' = [idx EXCEPT ![t] = @ + 1]
    BY <1>3 DEF Return, Goto
  <2>2. idx[t] + 1 \in Indices /\ idx[t] + 1 <= Len(plan[t])
    BY <1>0, <1>3, ConstantsAssumption DEF Indices
  <2> QED
    BY <1>1, <1>3, <2>1, <2>2
    DEF Stops, TypeInv, TypeOK, Alive, InBatch, BatchEnded, Ended
<1> QED
  BY <1>2, <1>3

\* At first nothing has happened.
LEMMA InitType == Init => TypeInv
<1> SUFFICES ASSUME Init PROVE TypeInv
  OBVIOUS
<1>1. 1 \in Indices
  BY ConstantsAssumption DEF Indices
<1>2. TypeOK
  BY <1>1, ConstantsAssumption
  DEF Init, TypeOK, Job!Init, Ended, BatchEnded, Alive, Preparing, InBatch
<1>3. PlaceInv
  BY DEF Init, PlaceInv, Early, Preparing, InBatch
<1> QED
  BY <1>2, <1>3 DEF TypeInv

\* A worker before its batches keeps the types.
LEMMA EarlyType ==
  ASSUME TypeInv, NEW t \in Tasks,
         \/ Claim(t) \/ Load(t) \/ CheckRefused(t) \/ Plan(t) \/ InsertRow(t)
         \/ Die(t)
  PROVE  TypeInv'
<1> USE DEF TypeInv, TypeOK, PlaceInv, Goto, rowVars, jobVars, buryVars, Early,
            Alive, Preparing, InBatch
<1>0. Back(t[1]) \in Tasks
  BY DEF Back, Tasks, Roles
<1>1. CASE Claim(t)
  BY <1>1 DEF Claim
<1>2. CASE Load(t)
  <2>1. status' \in [Tasks -> {"none", "init", "running"} \cup Ended]
    <3>1. \/ status' = status
          \/ status' = [status EXCEPT ![Back(t[1])] = "success"]
      BY <1>2 DEF Load, Back
    <3> QED
      BY ZenonT(40), <1>0, <3>1 DEF Ended
  <2>2. pc' = [pc EXCEPT ![t] = "plan"] \/ pc' = [pc EXCEPT ![t] = "check"]
    BY <1>2 DEF Load
  <2>3. /\ pc[t] = "load" /\ plan' = plan
        /\ UNCHANGED <<aged, bstat, confirm, online, idx, got, verdict, req,
                       made, jphase, jhand, buryList, burying, stopper>>
    BY <1>2 DEF Load
  <2> QED
    BY ZenonT(40), <2>1, <2>2, <2>3
<1>3. CASE CheckRefused(t)
  <2>1. pc' = [pc EXCEPT ![t] = "plan"] \/ pc' = [pc EXCEPT ![t] = "dead"]
    BY <1>3 DEF CheckRefused
  <2> QED
    BY <1>3, <2>1 DEF CheckRefused
<1>4. CASE Plan(t)
  <2>1. PICK S \in SUBSET Indices, r \in BOOLEAN :
          \E s \in InOrder(S, r) : plan' = [plan EXCEPT ![t] = s]
    <3>1. CASE t[2] = "deploy"
      <4>1. \E s \in InOrder(Indices, FALSE) : plan' = [plan EXCEPT ![t] = s]
        BY <1>4, <3>1 DEF Plan
      <4> QED
        BY <4>1
    <3>2. CASE t[2] # "deploy"
      <4> DEFINE r == RollbackMode \in {"PartialReverseRollback",
                                        "FullReverseRollback"}
      <4>1. \E s \in InOrder(WorkedOn(t[1]), r) : plan' = [plan EXCEPT ![t] = s]
        BY <1>4, <3>2 DEF Plan
      <4>2. WorkedOn(t[1]) \in SUBSET Indices /\ r \in BOOLEAN
        BY DEF WorkedOn
      <4> HIDE DEF r
      <4> QED
        BY <4>1, <4>2
    <3> QED
      BY <3>1, <3>2
  <2>a. PICK s \in InOrder(S, r) : plan' = [plan EXCEPT ![t] = s]
    BY <2>1
  <2>2. s \in Seq(Indices) /\ Len(s) <= NumBatches
    BY InOrderIs
  <2>3. /\ plan' \in [Tasks -> Seq(Indices)]
        /\ \A x \in Tasks : Len(plan'[x]) <= NumBatches
        /\ \A x \in Tasks : x # t => plan'[x] = plan[x]
    BY <2>a, <2>2
  <2> QED
    BY <1>4, <2>3 DEF Plan
<1>5. CASE InsertRow(t)
  <2>1. 1..Len(plan[t]) \subseteq Indices
    BY ConstantsAssumption DEF Indices
  <2>2. bstat' \in [Tasks -> [Indices -> {"none", "init", "running"}
                                         \cup BatchEnded]]
    <3>1. ASSUME NEW i \in 1..Len(plan[t]),
                 bstat' = [bstat EXCEPT ![t][i] = "init"]
          PROVE  bstat' \in [Tasks -> [Indices -> {"none", "init", "running"}
                                                  \cup BatchEnded]]
      BY <2>1, <3>1
    <3>2. bstat' = bstat \/ \E i \in 1..Len(plan[t]) :
                              bstat' = [bstat EXCEPT ![t][i] = "init"]
      BY <1>5 DEF InsertRow, SetBatch
    <3> QED
      BY <3>1, <3>2
  <2>3. \/ pc' = pc \/ pc' = [pc EXCEPT ![t] = "final"]
        \/ pc' = [pc EXCEPT ![t] = "take"] /\ plan[t] # <<>>
    BY <1>5 DEF InsertRow
  <2>4. plan[t] # <<>> => 1 <= Len(plan[t])
    OBVIOUS
  <2> QED
    BY ZenonT(40), <1>5, <2>2, <2>3, <2>4 DEF InsertRow
<1>6. CASE Die(t)
  BY <1>6 DEF Die
<1> QED
  BY <1>1, <1>2, <1>3, <1>4, <1>5, <1>6

\* A worker at a batch keeps the types.
LEMMA BatchType ==
  ASSUME TypeInv, NEW t \in Tasks,
         \/ Take(t) \/ Send(t) \/ Sent(t) \/ Poll(t) \/ Result(t)
         \/ Confirmed(t) \/ BatchDie(t)
  PROVE  TypeInv'
<1> USE DEF TypeInv, Goto, SetBatch, rowVars, procVars, jobVars, buryVars
<1>0. /\ idx[t] \in Indices /\ <<t, idx[t]>> \in Batches
      /\ got[t] \in {"none"} \cup Ended
  BY DEF TypeOK, Batches
<1>1. ASSUME NEW s \in BatchEnded, pc[t] \in InBatch, Return(t, s),
             plan' = plan, got' \in [Tasks -> {"none"} \cup Ended],
             \A x \in Tasks : x # t => got'[x] = got[x]
      PROVE  /\ PlaceInv'
             /\ pc' \in [Tasks -> Alive \cup {"none", "dead"}]
             /\ idx' \in [Tasks -> Indices] /\ verdict' \in [Tasks -> Ended]
  <2>1. /\ verdict'[t] \in Ended
        /\ pc'[t] = "take" => verdict'[t] # "refuse"
    BY <1>1, ReturnIs DEF TypeOK, PlaceInv
  <2> QED
    BY <1>1, <2>1, ReturnIs DEF PlaceInv, Early, Preparing, InBatch
<1>2. CASE Take(t)
  <2>1. CASE bstat[t][idx[t]] = "init" /\ pc' = [pc EXCEPT ![t] = "post"]
             /\ bstat' = [bstat EXCEPT ![t][idx[t]] = "running"]
             /\ UNCHANGED <<idx, verdict>>
    BY <1>0, <1>2, <2>1
    DEF Take, TypeOK, PlaceInv, Early, Alive, InBatch, Preparing
  <2>2. CASE /\ bstat[t][idx[t]] \in BatchEnded
             /\ Return(t, bstat[t][idx[t]]) /\ UNCHANGED bstat
    <3>1. pc[t] \in InBatch
      BY <1>2 DEF Take, InBatch
    <3> QED
      BY <1>1, <1>2, <2>2, <3>1 DEF Take, TypeOK
  <2> QED
    BY <1>2, <2>1, <2>2 DEF Take
<1>3. CASE Send(t)
  <2>1. req' \in [Batches ->
                    [Posts -> {"idle", "select", "insert", "ok", "no"}]]
    <3>1. PICK n \in Posts : req' = [req EXCEPT ![<<t, idx[t]>>][n] =
                               IF Api THEN "select" ELSE "insert"]
      BY <1>3 DEF Send
    <3> QED
      BY <1>0, <3>1 DEF TypeOK
  <2> QED
    BY <1>3, <2>1 DEF Send, TypeOK, PlaceInv
<1>4. CASE Sent(t)
  <2>0. pc[t] = "post" /\ pc[t] \in InBatch /\ plan' = plan /\ got' = got
    BY <1>4 DEF Sent, InBatch
  <2>1. CASE pc' = [pc EXCEPT ![t] = "poll"]
             /\ UNCHANGED <<bstat, confirm, idx, verdict>>
    BY <1>4, <2>0, <2>1
    DEF Sent, TypeOK, PlaceInv, Early, Alive, InBatch, Preparing
  <2>2. CASE /\ bstat' = [bstat EXCEPT ![t][idx[t]] = "fail"]
             /\ confirm' = [confirm EXCEPT ![t][idx[t]] = "null"]
             /\ Return(t, "fail")
    <3>1. "fail" \in BatchEnded
      BY DEF BatchEnded, Ended
    <3>2. /\ bstat' \in [Tasks -> [Indices -> {"none", "init", "running"}
                                              \cup BatchEnded]]
          /\ confirm' \in [Tasks -> [Indices -> {"null", "wait", "stop"}]]
      BY <1>0, <2>2, <3>1 DEF TypeOK
    <3> QED
      BY <1>1, <1>4, <2>0, <2>2, <3>1, <3>2 DEF Sent, TypeOK
  <2>3. CASE /\ verdict' = [verdict EXCEPT ![t] = "fail"]
             /\ pc' = [pc EXCEPT ![t] = "final"]
             /\ UNCHANGED <<bstat, confirm, idx>>
    BY <1>4, <2>0, <2>3
    DEF Sent, TypeOK, PlaceInv, Early, Alive, InBatch, Preparing, Ended
  <2> QED
    BY <1>4, <2>1, <2>2, <2>3 DEF Sent
<1>5. CASE Poll(t)
  BY <1>0, <1>5
  DEF Poll, TypeOK, PlaceInv, Early, Alive, InBatch, Preparing
<1>6. CASE Result(t)
  <2>0. /\ pc[t] = "result" /\ pc[t] \in InBatch /\ plan' = plan
        /\ got[t] \in Ended /\ got[t] \in BatchEnded
        /\ got' = [got EXCEPT ![t] = "none"]
    BY <1>6 DEF Result, PlaceInv, InBatch, BatchEnded
  <2>1. /\ bstat' \in [Tasks -> [Indices -> {"none", "init", "running"}
                                            \cup BatchEnded]]
        /\ confirm' \in [Tasks -> [Indices -> {"null", "wait", "stop"}]]
    BY <1>0, <1>6, <2>0 DEF Result, TypeOK
  <2>2. /\ got' \in [Tasks -> {"none"} \cup Ended]
        /\ \A x \in Tasks : x # t => got'[x] = got[x]
    BY <2>0 DEF TypeOK
  <2>3. /\ PlaceInv'
        /\ pc' \in [Tasks -> Alive \cup {"none", "dead"}]
        /\ idx' \in [Tasks -> Indices] /\ verdict' \in [Tasks -> Ended]
    <3>1. CASE /\ verdict' = [verdict EXCEPT ![t] = "fail"]
               /\ pc' = [pc EXCEPT ![t] = "final"] /\ UNCHANGED idx
      BY <2>0, <2>2, <3>1
      DEF TypeOK, PlaceInv, Early, Alive, InBatch, Preparing, Ended
    <3>2. CASE /\ pc' = [pc EXCEPT ![t] = "confirm"]
               /\ UNCHANGED <<idx, verdict>>
      BY <2>0, <2>2, <3>2
      DEF TypeOK, PlaceInv, Early, Alive, InBatch, Preparing
    <3>3. CASE Return(t, got[t])
      BY <1>1, <2>0, <2>2, <3>3
    <3> QED
      BY <1>6, <3>1, <3>2, <3>3 DEF Result
  <2> QED
    BY <1>6, <2>0, <2>1, <2>2, <2>3 DEF Result, TypeOK
<1>7. CASE Confirmed(t)
  <2>1. pc[t] \in InBatch /\ "fail" \in BatchEnded
    BY <1>7 DEF Confirmed, InBatch, BatchEnded, Ended
  <2> QED
    BY <1>1, <1>7, <2>1 DEF Confirmed, TypeOK
<1>8. CASE BatchDie(t)
  BY <1>8
  DEF BatchDie, TypeOK, PlaceInv, Early, Alive, InBatch, Preparing, Ended
<1> QED
  BY <1>2, <1>3, <1>4, <1>5, <1>6, <1>7, <1>8

\* The end of a worker keeps the types.
LEMMA EndType ==
  ASSUME TypeInv, NEW t \in Tasks,
         Final(t) \/ RecordVersion(t) \/ Crash(t) \/ BuryCheck(t)
  PROVE  TypeInv'
<1> USE DEF TypeInv, TypeOK, PlaceInv, Goto, rowVars, procVars, jobVars,
            buryVars, Early, Alive, Preparing, InBatch
<1>1. CASE Final(t)
  <2>1. pc' = [pc EXCEPT ![t] = "version"] \/ pc' = [pc EXCEPT ![t] = "dead"]
    BY <1>1 DEF Final
  <2> QED
    BY <1>1, <2>1 DEF Final
<1>2. CASE RecordVersion(t)
  BY <1>2 DEF RecordVersion
<1>3. CASE Crash(t)
  BY <1>3 DEF Crash
<1>4. CASE BuryCheck(t)
  <2>1. pc' = [pc EXCEPT ![t] = "dead"] \/ pc' = pc
    BY <1>4 DEF BuryCheck
  <2>2. burying' \in Tasks \cup {NoTask} /\ buryList' \subseteq Tasks
    BY <1>4 DEF BuryCheck
  <2> QED
    BY <1>4, <2>1, <2>2 DEF BuryCheck
<1> QED
  BY <1>1, <1>2, <1>3, <1>4

\* Users, requests, JOB, bury and time keep the types.
LEMMA OtherType ==
  ASSUME TypeInv,
         \/ \E t \in Tasks : \/ StopCancel(t) \/ StopConfirm(t) \/ StopKill(t)
                             \/ \E i \in Indices : UserConfirm(t, i)
         \/ \E u \in Uuids : Rollback(u) \/ Age(u)
         \/ \E b \in Batches : JobStep(b) \/ \E n \in Posts : Make(b, n)
         \/ BurySelect \/ BuryDie \/ BuryFail \/ UNCHANGED vars
  PROVE  TypeInv'
<1> USE DEF TypeInv, TypeOK, PlaceInv, rowVars, procVars, jobVars, buryVars
<1>1. ASSUME NEW t \in Tasks, StopCancel(t) PROVE TypeInv'
  BY <1>1 DEF StopCancel, BatchEnded
<1>2. ASSUME NEW t \in Tasks, StopConfirm(t) PROVE TypeInv'
  BY <1>2 DEF StopConfirm
<1>3. ASSUME NEW t \in Tasks, StopKill(t) PROVE TypeInv'
  <2>1. /\ jphase' \in [Batches -> {"init", "running", "waiting"} \cup Ended]
        /\ jhand' \in [Batches -> {"none", "live", "gone"}]
    <3>1. ASSUME NEW b \in Batches, Job!Vanish(b)
          PROVE  /\ jphase' \in [Batches -> {"init", "running", "waiting"}
                                            \cup Ended]
                 /\ jhand' \in [Batches -> {"none", "live", "gone"}]
      BY <3>1 DEF Job!Vanish
    <3> QED
      BY <1>3, <3>1 DEF StopKill
  <2> QED
    BY <1>3, <2>1 DEF StopKill
<1>4. ASSUME NEW t \in Tasks, NEW i \in Indices, UserConfirm(t, i)
      PROVE  TypeInv'
  BY <1>4 DEF UserConfirm
<1>5. ASSUME NEW u \in Uuids, Rollback(u) PROVE TypeInv'
  <2>1. PICK s \in {"init", "success"} :
          status' = [status EXCEPT ![<<u, "rollback">>] = s]
    BY <1>5 DEF Rollback
  <2>2. status' \in [Tasks -> {"none", "init", "running"} \cup Ended]
    BY <2>1 DEF Ended
  <2> QED
    BY <1>5, <2>2 DEF Rollback
<1>6. ASSUME NEW u \in Uuids, Age(u) PROVE TypeInv'
  BY <1>6 DEF Age
<1>7. ASSUME NEW b \in Batches, JobStep(b) PROVE TypeInv'
  <2>1. /\ jphase' \in [Batches -> {"init", "running", "waiting"} \cup Ended]
        /\ jhand' \in [Batches -> {"none", "live", "gone"}]
    BY <1>7, JobIs DEF JobStep, JobSteps
  <2> QED
    BY <1>7, <2>1 DEF JobStep
<1>8. ASSUME NEW b \in Batches, NEW n \in Posts, Make(b, n) PROVE TypeInv'
  <2>1. PICK x \in {"ok", "no", "insert"} : req' = [req EXCEPT ![b][n] = x]
    BY <1>8 DEF Make
  <2>2. req' \in [Batches ->
                    [Posts -> {"idle", "select", "insert", "ok", "no"}]]
    BY <2>1
  <2>3. made' \subseteq Batches
    BY <1>8 DEF Make
  <2> QED
    BY <1>8, <2>2, <2>3 DEF Make
<1>9. CASE BurySelect \/ BuryDie
  BY <1>9 DEF BurySelect, BuryDie
<1>10. CASE BuryFail
  BY <1>10 DEF BuryFail, Ended
<1>11. CASE UNCHANGED vars
  BY <1>11 DEF vars
<1> QED
  BY <1>1, <1>2, <1>3, <1>4, <1>5, <1>6, <1>7, <1>8, <1>9, <1>10, <1>11

\* Every step keeps the types.
LEMMA NextType == TypeInv /\ [Next]_vars => TypeInv'
<1> SUFFICES ASSUME TypeInv, [Next]_vars PROVE TypeInv'
  OBVIOUS
<1>1. ASSUME NEW t \in Tasks, Work(t) \/ Mishap(t) PROVE TypeInv'
  BY <1>1, EarlyType, BatchType, EndType DEF Work, Mishap
<1>2. ASSUME BurySelect \/ BuryFail \/ BuryDie PROVE TypeInv'
  BY <1>2, OtherType
<1>3. ASSUME NEW t \in Tasks, BuryCheck(t) PROVE TypeInv'
  BY <1>3, EndType
<1>4. ASSUME User \/ UNCHANGED vars PROVE TypeInv'
  BY <1>4, OtherType DEF User
<1>5. ASSUME NEW u \in Uuids, Age(u) PROVE TypeInv'
  BY <1>5, OtherType
<1>6. ASSUME NEW b \in Batches, JobStep(b) \/ \E n \in Posts : Make(b, n)
      PROVE  TypeInv'
  BY <1>6, OtherType
<1> QED
  BY <1>1, <1>2, <1>3, <1>4, <1>5, <1>6 DEF Next, Bury

\* JobxTask keeps its types.
THEOREM TypeCorrect == Spec => []TypeOK
<1>1. Init => TypeInv
  BY InitType
<1>2. TypeInv /\ [Next]_vars => TypeInv'
  BY NextType
<1>3. TypeInv => TypeOK
  BY DEF TypeInv
<1> QED
  BY <1>1, <1>2, <1>3, PTL DEF Spec

\* A worker that goes through its batches takes them up one by one, and asks for
\* a JOB task after that only.
LEMMA WorkBatch ==
  ASSUME TypeInv, BatchInv, NEW t \in Tasks,
         Work(t) \/ Mishap(t) \/ BuryCheck(t)
  PROVE  BatchInv'
<1> USE DEF BatchInv, Begun, rowVars, procVars, jobVars, buryVars
<1>0. /\ idx[t] \in Indices /\ <<t, idx[t]>> \in Batches
      /\ Early = {"none", "load", "check", "plan", "rows"}
      /\ InBatch = {"take", "post", "poll", "result", "confirm"}
      /\ pc \in [Tasks -> Alive \cup {"none", "dead"}]
      /\ bstat \in [Tasks -> [Indices -> {"none", "init", "running"}
                                         \cup BatchEnded]]
  BY DEF TypeInv, TypeOK, Batches, Early, Preparing, InBatch
\* The worker moves, and nothing else happens.
<1>1. ASSUME UNCHANGED <<bstat, req, made>>,
             \A x \in Tasks : x # t => pc'[x] = pc[x] /\ idx'[x] = idx[x],
             \/ pc'[t] \in {"dead", "final", "version"}
             \/ pc[t] \in Early /\ pc'[t] \in Early
             \/ pc[t] \in {"post", "poll"} /\ pc'[t] \in {"poll", "result"}
                /\ idx'[t] = idx[t]
             \/ pc[t] \in InBatch /\ pc'[t] = "take" /\ idx'[t] = idx[t] + 1
                /\ idx'[t] \in Indices
      PROVE  BatchInv'
  <2>1. ASSUME NEW x \in Tasks
        PROVE  /\ pc'[x] \in Early => \A i \in Indices : ~Begun(x, i)
               /\ pc'[x] \in InBatch =>
                    \A i \in Indices : i > idx'[x] => ~Begun(x, i)
               /\ pc'[x] = "take" => ~Begun(x, idx'[x])
               /\ pc'[x] \in {"post", "poll", "result"} =>
                    bstat[x][idx'[x]] = "running"
               /\ pc'[x] = "confirm" => bstat[x][idx'[x]] = "fail"
    <3>1. CASE x # t
      BY <1>1, <3>1
    <3>2. CASE x = t /\ pc[t] \in InBatch /\ pc'[t] = "take"
               /\ idx'[t] = idx[t] + 1 /\ idx'[t] \in Indices
      BY <1>0, <3>2 DEF Indices
    <3>3. CASE x = t /\ (\/ pc'[t] \in {"dead", "final", "version"}
                         \/ pc[t] \in Early /\ pc'[t] \in Early)
      BY <1>0, <3>3
    <3>4. CASE x = t /\ pc[t] \in {"post", "poll"} /\ idx'[t] = idx[t]
               /\ pc'[t] \in {"poll", "result"}
      BY <1>0, <3>4
    <3> QED
      BY <1>1, <3>1, <3>2, <3>3, <3>4
  <2> QED
    BY <1>1, <2>1
\* A batch is over and the worker goes on.
<1>2. ASSUME NEW s \in BatchEnded, Return(t, s), pc[t] \in InBatch
      PROVE  /\ \A x \in Tasks : x # t => pc'[x] = pc[x] /\ idx'[x] = idx[x]
             /\ \/ pc'[t] = "final"
                \/ pc[t] \in InBatch /\ pc'[t] = "take"
                   /\ idx'[t] = idx[t] + 1 /\ idx'[t] \in Indices
  BY <1>2, ReturnIs
\* A batch that was taken up gets another status, the worker goes on.
<1>3. ASSUME bstat[t][idx[t]] = "running", UNCHANGED <<req, made>>,
             NEW s \in Ended, pc[t] \in {"post", "result"},
             bstat' = [bstat EXCEPT ![t][idx[t]] = s],
             \A x \in Tasks : x # t => pc'[x] = pc[x] /\ idx'[x] = idx[x],
             \/ pc'[t] = "final"
             \/ pc'[t] = "confirm" /\ s = "fail" /\ idx'[t] = idx[t]
             \/ pc'[t] = "take" /\ idx'[t] = idx[t] + 1 /\ idx'[t] \in Indices
      PROVE  BatchInv'
  <2>1. /\ bstat'[t][idx[t]] = s /\ s \notin {"none", "init", "cancel"}
        /\ \A x \in Tasks, i \in Indices :
             x # t \/ i # idx[t] => bstat'[x][i] = bstat[x][i]
    BY <1>0, <1>3 DEF Ended
  <2>2. \A x \in Tasks, i \in Indices : Begun(x, i)' <=> Begun(x, i)
    BY <1>3, <2>1
  <2>3. ASSUME NEW x \in Tasks
        PROVE  /\ pc'[x] \in Early => \A i \in Indices : ~Begun(x, i)
               /\ pc'[x] \in InBatch =>
                    \A i \in Indices : i > idx'[x] => ~Begun(x, i)
               /\ pc'[x] = "take" => ~Begun(x, idx'[x])
               /\ pc'[x] \in {"post", "poll", "result"} =>
                    bstat'[x][idx'[x]] = "running"
               /\ pc'[x] = "confirm" => bstat'[x][idx'[x]] = "fail"
    <3>1. CASE x # t
      <4>1. idx[x] \in Indices
        BY DEF TypeInv, TypeOK
      <4> QED
        BY <1>3, <2>1, <3>1, <4>1
    <3>2. CASE x = t
      BY <1>0, <1>3, <2>1, <3>2 DEF Indices
    <3> QED
      BY <3>1, <3>2
  <2> QED
    BY <1>3, <2>2, <2>3
<1>4. CASE \/ Claim(t) \/ Load(t) \/ CheckRefused(t) \/ Plan(t) \/ Die(t)
           \/ Poll(t) \/ BatchDie(t) \/ Final(t) \/ RecordVersion(t)
           \/ Crash(t) \/ BuryCheck(t)
  <2>1. /\ UNCHANGED <<bstat, req, made, idx>>
        /\ pc' = pc \/ \E l \in Alive \cup {"dead"} : pc' = [pc EXCEPT ![t] = l]
    BY <1>4
    DEF Claim, Load, CheckRefused, Plan, Die, Poll, BatchDie, Final,
        RecordVersion, Crash, BuryCheck, Goto, Alive, Preparing, InBatch
  <2>2. \/ pc' = pc \/ pc'[t] \in {"dead", "final", "version"}
        \/ pc[t] \in Early /\ pc'[t] \in Early
        \/ pc[t] = "poll" /\ pc'[t] = "result"
    <3>1. CASE Claim(t) \/ Load(t) \/ CheckRefused(t) \/ Plan(t) \/ Die(t)
      <4>1. \E l \in {"load", "check", "plan", "rows", "dead"} :
              pc' = [pc EXCEPT ![t] = l]
        BY <3>1 DEF Claim, Load, CheckRefused, Plan, Die, Goto
      <4>2. pc[t] \in Early
        BY <1>0, <3>1 DEF Claim, Load, CheckRefused, Plan, Die, Preparing
      <4> QED
        BY <1>0, <4>1, <4>2
    <3>2. CASE Poll(t) \/ BatchDie(t) \/ RecordVersion(t) \/ Crash(t)
      BY <1>0, <3>2 DEF Poll, BatchDie, RecordVersion, Crash, Goto
    <3>3. CASE Final(t) \/ BuryCheck(t)
      <4>1. pc' = pc \/ \E l \in {"dead", "version"} :
                            pc' = [pc EXCEPT ![t] = l]
        BY <3>3 DEF Final, BuryCheck, Goto
      <4> QED
        BY <1>0, <4>1
    <3> QED
      BY <1>4, <3>1, <3>2, <3>3
  <2>3. CASE pc' = pc
    BY <2>1, <2>3
  <2>4. CASE pc' # pc
    BY <1>0, <1>1, <2>1, <2>2, <2>4
  <2> QED
    BY <2>3, <2>4
<1>5. CASE InsertRow(t)
  <2>1. /\ pc[t] = "rows" /\ UNCHANGED <<req, made, idx>> /\ idx[t] = 1
        /\ \A i \in Indices : ~Begun(t, i)
    BY <1>0, <1>5 DEF InsertRow, TypeInv, PlaceInv
  <2>2. CASE pc' = pc /\ \E i \in 1..Len(plan[t]) :
                            bstat' = [bstat EXCEPT ![t][i] = "init"]
    <3>1. PICK i \in 1..Len(plan[t]) : bstat' = [bstat EXCEPT ![t][i] = "init"]
      BY <2>2
    <3>2. /\ \A j \in Indices : ~Begun(t, j)'
          /\ \A x \in Tasks : x # t => bstat'[x] = bstat[x]
      BY <1>0, <2>1, <3>1
    <3> QED
      BY <1>0, <2>1, <2>2, <3>2
  <2>3. CASE UNCHANGED bstat /\ \/ pc' = [pc EXCEPT ![t] = "final"]
                                \/ pc' = [pc EXCEPT ![t] = "take"]
    BY <1>0, <2>1, <2>3
  <2> QED
    BY <1>5, <2>2, <2>3 DEF InsertRow, SetBatch, Goto
<1>6. CASE Take(t)
  <2>1. CASE /\ bstat[t][idx[t]] \in BatchEnded
             /\ Return(t, bstat[t][idx[t]]) /\ UNCHANGED <<bstat, req, made>>
    BY <1>0, <1>1, <1>2, <1>6, <2>1 DEF Take
  <2>2. CASE /\ bstat' = [bstat EXCEPT ![t][idx[t]] = "running"]
             /\ pc' = [pc EXCEPT ![t] = "post"] /\ UNCHANGED <<idx, req, made>>
    <3>1. \A x \in Tasks, i \in Indices :
            x # t \/ i # idx[t] => bstat'[x][i] = bstat[x][i]
      BY <1>0, <2>2
    <3>2. \A x \in Tasks : x # t => pc'[x] = pc[x]
      BY <1>0, <2>2
    <3>3. pc[t] = "take" /\ pc'[t] = "post" /\ bstat'[t][idx[t]] = "running"
      BY <1>0, <1>6, <2>2 DEF Take
    <3>4. /\ \A x \in Tasks, i \in Indices : ~Begun(x, i)' => ~Begun(x, i)
          /\ \A i \in Indices : i > idx[t] => ~Begun(t, i)'
      BY <1>0, <3>1, <3>3 DEF Indices
    <3> QED
      BY <1>0, <2>2, <3>1, <3>2, <3>3, <3>4
  <2> QED
    BY <1>6, <2>1, <2>2 DEF Take, SetBatch, Goto
<1>7. CASE Send(t)
  <2>1. PICK n \in Posts, v \in {"select", "insert"} :
          req' = [req EXCEPT ![<<t, idx[t]>>][n] = v]
    BY <1>7 DEF Send
  <2>2. \A b \in Batches : b # <<t, idx[t]>> => req'[b] = req[b]
    BY <2>1 DEF TypeInv, TypeOK
  <2>3. pc[t] = "post" /\ UNCHANGED <<bstat, made, pc, idx>>
    BY <1>7 DEF Send
  <2>4. \A b \in Batches, m \in Posts :
          req[b][m] # "idle" => req'[b][m] # "idle"
    <3>1. req \in [Batches ->
                      [Posts -> {"idle", "select", "insert", "ok", "no"}]]
      BY DEF TypeInv, TypeOK
    <3>2. /\ \A b \in Batches : b # <<t, idx[t]>> => req'[b] = req[b]
          /\ req'[<<t, idx[t]>>] = [req[<<t, idx[t]>>] EXCEPT ![n] = v]
      BY <1>0, <2>1, <3>1
    <3>3. \A m \in Posts : req'[<<t, idx[t]>>][m] =
            IF m = n THEN v ELSE req[<<t, idx[t]>>][m]
      BY <1>0, <3>1, <3>2
    <3>4. v # "idle"
      OBVIOUS
    <3>5. SUFFICES ASSUME NEW b \in Batches, NEW m \in Posts,
                          req[b][m] # "idle"
                   PROVE  req'[b][m] # "idle"
      OBVIOUS
    <3>6. CASE b = <<t, idx[t]>>
      BY <3>3, <3>4, <3>5, <3>6
    <3>7. CASE b # <<t, idx[t]>>
      BY <3>2, <3>5, <3>7
    <3> QED
      BY <3>6, <3>7
  <2>5. made \subseteq Batches
    BY DEF TypeInv, TypeOK
  <2>6. \A x \in Tasks, i \in Indices : ~Begun(x, i) =>
          <<x, i>> # <<t, idx[t]>> /\ <<x, i>> \in Batches
    BY <1>0, <2>3 DEF Batches
  <2> QED
    BY <2>2, <2>3, <2>4, <2>5, <2>6
<1>8. CASE Sent(t)
  <2>0. pc[t] = "post" /\ pc[t] \in InBatch /\ UNCHANGED <<req, made>>
    BY <1>8 DEF Sent, InBatch
  <2>1. CASE pc' = [pc EXCEPT ![t] = "poll"] /\ UNCHANGED <<bstat, idx>>
    BY <1>0, <1>1, <2>0, <2>1
  <2>2. CASE pc' = [pc EXCEPT ![t] = "final"] /\ UNCHANGED <<bstat, idx>>
    BY <1>0, <1>1, <2>0, <2>2
  <2>3. CASE /\ bstat' = [bstat EXCEPT ![t][idx[t]] = "fail"]
             /\ Return(t, "fail")
    <3>1. "fail" \in Ended /\ "fail" \in BatchEnded
      BY DEF Ended, BatchEnded
    <3> QED
      BY <1>2, <1>3, <2>0, <2>3, <3>1
  <2> QED
    BY <1>8, <2>1, <2>2, <2>3 DEF Sent, SetBatch, Goto
<1>9. CASE Result(t)
  <2>0. /\ pc[t] = "result" /\ pc[t] \in InBatch /\ UNCHANGED <<req, made>>
        /\ got[t] \in Ended /\ got[t] \in BatchEnded
        /\ bstat' = [bstat EXCEPT ![t][idx[t]] = got[t]]
    BY <1>9
    DEF Result, InBatch, TypeInv, PlaceInv, BatchEnded, SetBatch
  <2>1. CASE UNCHANGED idx /\ \/ pc' = [pc EXCEPT ![t] = "final"]
                              \/ /\ pc' = [pc EXCEPT ![t] = "confirm"]
                                 /\ got[t] = "fail"
    <3>1. /\ \A x \in Tasks : x # t => pc'[x] = pc[x] /\ idx'[x] = idx[x]
          /\ \/ pc'[t] = "final"
             \/ pc'[t] = "confirm" /\ got[t] = "fail" /\ idx'[t] = idx[t]
          /\ bstat[t][idx[t]] = "running"
      BY <1>0, <2>0, <2>1
    <3> QED
      BY <1>3, <2>0, <3>1
  <2>2. CASE Return(t, got[t])
    BY <1>2, <1>3, <2>0, <2>2
  <2> QED
    BY <1>9, <2>1, <2>2 DEF Result, Goto
<1>10. CASE Confirmed(t)
  <2>1. "fail" \in BatchEnded /\ pc[t] \in InBatch
    BY <1>10 DEF Confirmed, Ended, BatchEnded, InBatch
  <2> QED
    BY <1>1, <1>2, <1>10, <2>1 DEF Confirmed
<1> QED
  BY <1>4, <1>5, <1>6, <1>7, <1>8, <1>9, <1>10 DEF Work, Mishap

\* What others do does not begin a batch.
LEMMA OtherBatch ==
  ASSUME TypeInv, BatchInv,
         \/ User \/ BurySelect \/ BuryFail \/ BuryDie \/ UNCHANGED vars
         \/ \E u \in Uuids : Age(u)
         \/ \E b \in Batches : JobStep(b) \/ \E n \in Posts : Make(b, n)
  PROVE  BatchInv'
<1> USE DEF BatchInv, Begun, rowVars, procVars, jobVars, buryVars
<1>1. CASE UNCHANGED <<bstat, req, made, pc, idx>>
  BY <1>1
<1>2. ASSUME NEW t \in Tasks, StopCancel(t) PROVE BatchInv'
  <2>1. /\ UNCHANGED <<req, made, pc, idx>>
        /\ \A x \in Tasks, i \in Indices :
             \/ bstat'[x][i] = bstat[x][i]
             \/ bstat[x][i] = "init" /\ bstat'[x][i] = "cancel"
    BY <1>2 DEF StopCancel
  <2>2. \A x \in Tasks : idx[x] \in Indices
    BY DEF TypeInv, TypeOK
  <2> QED
    BY <2>1, <2>2
<1>3. ASSUME NEW b \in Batches, NEW n \in Posts, Make(b, n) PROVE BatchInv'
  <2>1. /\ UNCHANGED <<bstat, pc, idx>> /\ req[b][n] # "idle"
        /\ made' \subseteq made \cup {b}
        /\ \E v \in {"ok", "no", "insert"} : req' = [req EXCEPT ![b][n] = v]
    BY <1>3 DEF Make
  <2>2. \A a \in Batches, m \in Posts :
          req[a][m] # "idle" <=> req'[a][m] # "idle"
    BY <2>1 DEF TypeInv, TypeOK
  <2>3. made \subseteq Batches
    BY DEF TypeInv, TypeOK
  <2> QED
    BY <2>1, <2>2, <2>3 DEF Batches
<1> QED
  <2>1. ASSUME \/ BurySelect \/ BuryFail \/ BuryDie \/ UNCHANGED vars
               \/ \E u \in Uuids : Age(u) \/ Rollback(u)
               \/ \E b \in Batches : JobStep(b)
               \/ \E t \in Tasks : \/ StopConfirm(t) \/ StopKill(t)
                                   \/ \E i \in Indices : UserConfirm(t, i)
        PROVE  UNCHANGED <<bstat, req, made, pc, idx>>
    BY <2>1
    DEF BurySelect, BuryFail, BuryDie, Age, Rollback, JobStep, StopConfirm,
        StopKill, UserConfirm, vars
  <2> QED
    BY <1>1, <1>2, <1>3, <2>1 DEF User

\* At first no batch has begun.
LEMMA InitBatch == Init => BatchInv
  BY DEF Init, BatchInv, Begun, InBatch, Batches

\* Every step keeps the order in which batches are taken up.
LEMMA NextBatch == TypeInv /\ BatchInv /\ [Next]_vars => BatchInv'
  BY WorkBatch, OtherBatch DEF Next, Bury

\* No JOB task is made for a batch that was cancelled.
THEOREM CancelHonoured == Spec => []CancelledNeverRuns
<1>1. Init => TypeInv /\ BatchInv
  BY InitType, InitBatch
<1>2. TypeInv /\ BatchInv /\ [Next]_vars => (TypeInv /\ BatchInv)'
  BY NextType, NextBatch
<1>3. BatchInv => CancelledNeverRuns
  BY DEF BatchInv, CancelledNeverRuns, Begun, Batches
<1> QED
  BY <1>1, <1>2, <1>3, PTL DEF Spec
-----------------------------------------------------------------------------
(***************************************************************************)
(* The row of a task against its worker: what the pages are promised.      *)
(***************************************************************************)

\* A deployment and its rollback are two tasks, and those of another deployment
\* are others.
LEMMA TaskNames ==
  /\ \A u \in Uuids : /\ Forth(u) \in Tasks /\ Back(u) \in Tasks
                      /\ Forth(u) # Back(u)
  /\ \A u, w \in Uuids : /\ Forth(u) = Forth(w) => u = w
                         /\ Back(u) = Back(w) => u = w
                         /\ Forth(u) # Back(w)
  /\ \A t \in Tasks : /\ t[1] \in Uuids /\ Deploy(t) = Forth(t[1])
                      /\ t[2] = "deploy" => t = Forth(t[1])
                      /\ t[2] = "rollback" => t = Back(t[1])
  BY DEF Forth, Back, Deploy, Tasks, Roles

\* The moves that matter to who reads the row of a task.
Moves(t, p, s) ==
  /\ pc' = [pc EXCEPT ![t] = p]
  /\ status' = [status EXCEPT ![t] = s]

\* A step of a worker is one of these moves; only that of a deployment that
\* cannot be rolled back writes a second row.
LEMMA WorkMoves ==
  ASSUME TypeInv, RowInv, NEW t \in Tasks, Work(t) \/ Mishap(t)
  PROVE  \/ status[t] = "init" /\ pc[t] = "none" /\ Moves(t, "load", "running")
         \/ /\ pc[t] \in Alive \ {"version"}
            /\ \E l \in (Alive \ {"version"}) \cup {"dead"} :
                 pc' = [pc EXCEPT ![t] = l]
            /\ \/ status' = status
               \/ /\ t = Forth(t[1]) /\ ~HasPrev[t[1]]
                  /\ pc'[t] = "plan"
                  /\ status' = [status EXCEPT ![Back(t[1])] = "success"]
         \/ /\ pc[t] \in Alive \ {"version"}
            /\ \E s \in Ended : Moves(t, "dead", s)
         \/ pc[t] \in Alive \ {"version"} /\ Moves(t, "version", "success")
         \/ pc[t] = "version" /\ pc' = [pc EXCEPT ![t] = "dead"]
            /\ status' = status
<1> USE DEF rowVars, procVars
<1>0. /\ pc \in [Tasks -> Alive \cup {"none", "dead"}]
      /\ status \in [Tasks -> {"none", "init", "running"} \cup Ended]
      /\ Alive = {"load", "check", "plan", "rows", "take", "post", "poll",
                  "result", "confirm", "final", "version"}
      /\ Preparing = {"load", "check", "plan", "rows"}
      /\ InBatch = {"take", "post", "poll", "result", "confirm"}
  BY DEF TypeInv, TypeOK, Alive, Preparing, InBatch
<1>1. ASSUME NEW s \in BatchEnded, Return(t, s)
      PROVE  \E l \in {"take", "final"} : pc' = [pc EXCEPT ![t] = l]
  BY <1>1 DEF Return, Goto
<1>2. CASE Claim(t)
  BY <1>2 DEF Claim, Moves, Goto
<1>3. CASE Load(t)
  <2>1. pc[t] = "load"
    BY <1>3 DEF Load
  <2>2. CASE t[2] = "deploy" /\ ~HasPrev[t[1]]
    BY <1>0, <1>3, <2>1, <2>2, TaskNames DEF Load, Goto, Back
  <2>3. CASE ~(t[2] = "deploy" /\ ~HasPrev[t[1]])
    <3>1. status' = status /\ \E l \in {"plan", "check"} :
                                pc' = [pc EXCEPT ![t] = l]
      BY <1>3, <2>3 DEF Load, Goto
    <3> QED
      BY <1>0, <2>1, <3>1
  <2> QED
    BY <2>2, <2>3
<1>4. CASE CheckRefused(t) \/ Plan(t) \/ InsertRow(t) \/ Die(t)
  <2>1. pc[t] \in Preparing /\ status' = status
    BY <1>0, <1>4 DEF CheckRefused, Plan, InsertRow, Die
  <2>2. pc' = pc \/ \E l \in {"plan", "dead", "rows", "final", "take"} :
                       pc' = [pc EXCEPT ![t] = l]
    BY <1>4 DEF CheckRefused, Plan, InsertRow, Die, Goto
  <2>3. pc' = pc => pc' = [pc EXCEPT ![t] = pc[t]]
    BY <1>0
  <2> QED
    BY <1>0, <2>1, <2>2, <2>3
<1>5. CASE \/ Take(t) \/ Send(t) \/ Sent(t) \/ Poll(t) \/ Result(t)
           \/ Confirmed(t) \/ BatchDie(t)
  <2>1. pc[t] \in InBatch /\ status' = status
    BY <1>0, <1>5
    DEF Take, Send, Sent, Poll, Result, Confirmed, BatchDie
  <2>2. pc' = pc \/ \E l \in {"post", "poll", "result", "confirm", "final",
                             "take"} : pc' = [pc EXCEPT ![t] = l]
    <3>1. CASE Take(t)
      BY <1>1, <3>1 DEF Take, Goto
    <3>2. CASE Sent(t)
      BY <1>1, <3>2 DEF Sent, Goto, BatchEnded, Ended
    <3>3. CASE Result(t)
      <4>1. got[t] \in BatchEnded
        BY <3>3 DEF Result, TypeInv, PlaceInv, BatchEnded
      <4> QED
        BY <1>1, <3>3, <4>1 DEF Result, Goto
    <3>4. CASE Confirmed(t)
      BY <1>1, <3>4 DEF Confirmed, BatchEnded, Ended
    <3>5. CASE Send(t) \/ Poll(t) \/ BatchDie(t)
      BY <3>5 DEF Send, Poll, BatchDie, Goto
    <3> QED
      BY <1>5, <3>1, <3>2, <3>3, <3>4, <3>5
  <2>3. pc' = pc => pc' = [pc EXCEPT ![t] = pc[t]]
    BY <1>0
  <2> QED
    BY <1>0, <2>1, <2>2, <2>3
<1>6. CASE Final(t)
  <2>1. /\ pc[t] = "final" /\ verdict[t] \in Ended
        /\ \/ Moves(t, "dead", verdict[t])
           \/ verdict[t] = "success" /\ Moves(t, "version", "success")
    BY <1>6 DEF Final, Moves, Goto, TypeInv, TypeOK
  <2> QED
    BY <1>0, <2>1
<1>7. CASE RecordVersion(t)
  BY <1>7 DEF RecordVersion, Goto
<1>8. CASE Crash(t)
  <2>1. pc[t] \in Alive /\ status' = status /\ pc' = [pc EXCEPT ![t] = "dead"]
    BY <1>8 DEF Crash, Goto
  <2> QED
    BY <1>0, <2>1
<1> QED
  BY <1>2, <1>3, <1>4, <1>5, <1>6, <1>7, <1>8 DEF Work, Mishap

\* At first nobody works on anything, and only deployments have rows.
LEMMA InitRow == Init => RowInv
<1> SUFFICES ASSUME Init PROVE RowInv
  OBVIOUS
<1>1. /\ \A t \in Tasks : pc[t] = "none" /\ status[t] \in {"none", "init"}
      /\ \A u \in Uuids : status[Forth(u)] = "init" /\ status[Back(u)] = "none"
      /\ buryList = {} /\ burying = NoTask
  BY TaskNames DEF Init, Forth, Back
<1> QED
  BY <1>1, TaskNames DEF RowInv, Alive, Preparing, InBatch

\* A worker that goes on keeps its row in step with its place.
LEMMA WorkRow ==
  ASSUME TypeInv, RowInv, NEW t \in Tasks, Work(t) \/ Mishap(t),
         UNCHANGED <<buryList, burying>>
  PROVE  RowInv'
<1>0. /\ pc \in [Tasks -> Alive \cup {"none", "dead"}]
      /\ status \in [Tasks -> {"none", "init", "running"} \cup Ended]
      /\ Alive = {"load", "check", "plan", "rows", "take", "post", "poll",
                  "result", "confirm", "final", "version"}
      /\ buryList \subseteq Tasks /\ burying \in Tasks \cup {NoTask}
  BY DEF TypeInv, TypeOK, Alive, Preparing, InBatch
<1> DEFINE
  \* The row and the worker of x fit together.
  Fits(x, p, s) == /\ p = "none" => s \in {"none", "init", "success"}
                   /\ p \in Alive \ {"version"} => s = "running"
                   /\ p = "version" => s = "success"
                   /\ p = "dead" => s \notin {"none", "init"}
<1>1. /\ \A x \in Tasks : Fits(x, pc[x], status[x])
      /\ \A u \in Uuids :
           /\ pc[Forth(u)] = "none" => status[Forth(u)] = "init"
           /\ ~HasPrev[u] => /\ pc[Back(u)] = "none"
                             /\ status[Back(u)] \in {"none", "success"}
  BY DEF RowInv
<1>2. /\ \A x \in Tasks : Fits(x, pc'[x], status'[x])
      /\ \A x \in Tasks : /\ pc[x] # "none" => pc'[x] # "none"
                          /\ pc[x] = "dead" => pc'[x] = "dead"
      /\ \A u \in Uuids :
           /\ pc'[Forth(u)] = "none" => status'[Forth(u)] = "init"
           /\ ~HasPrev[u] => /\ pc'[Back(u)] = "none"
                             /\ status'[Back(u)] \in {"none", "success"}
  <2>1. CASE status[t] = "init" /\ pc[t] = "none" /\ Moves(t, "load", "running")
    BY <1>0, <1>1, <2>1, TaskNames DEF Moves
  <2>2. CASE /\ pc[t] \in Alive \ {"version"} /\ status' = status
             /\ \E l \in (Alive \ {"version"}) \cup {"dead"} :
                  pc' = [pc EXCEPT ![t] = l]
    BY <1>0, <1>1, <2>2, TaskNames
  <2>3. CASE /\ pc[t] \in Alive \ {"version"}
             /\ \E l \in (Alive \ {"version"}) \cup {"dead"} :
                  pc' = [pc EXCEPT ![t] = l]
             /\ t = Forth(t[1]) /\ ~HasPrev[t[1]] /\ pc'[t] = "plan"
             /\ status' = [status EXCEPT ![Back(t[1])] = "success"]
    <3>1. /\ t[1] \in Uuids /\ Back(t[1]) \in Tasks /\ Back(t[1]) # t
          /\ pc[Back(t[1])] = "none"
      BY <1>1, <2>3, TaskNames
    <3>2. pc' = [pc EXCEPT ![t] = "plan"] /\ status[t] = "running"
      BY <1>0, <1>1, <2>3
    <3>3. /\ pc'[t] = "plan" /\ \A x \in Tasks : x # t => pc'[x] = pc[x]
          /\ status'[Back(t[1])] = "success"
          /\ \A x \in Tasks : x # Back(t[1]) => status'[x] = status[x]
      BY <1>0, <2>3, <3>1, <3>2
    <3>4. \A x \in Tasks : Fits(x, pc'[x], status'[x])
      BY <1>0, <1>1, <2>3, <3>1, <3>2, <3>3
    <3>5. /\ \A x \in Tasks : /\ pc[x] # "none" => pc'[x] # "none"
                             /\ pc[x] = "dead" => pc'[x] = "dead"
          /\ \A x \in Tasks : pc'[x] = "none" => pc[x] = "none"
      BY <1>0, <2>3, <3>3
    <3>6. \A u \in Uuids :
            /\ pc'[Forth(u)] = "none" => status'[Forth(u)] = "init"
            /\ ~HasPrev[u] => status'[Back(u)] \in {"none", "success"}
      BY <1>1, <3>1, <3>3, <3>5, TaskNames
    <3>7. \A u \in Uuids : ~HasPrev[u] => pc'[Back(u)] = "none"
      BY <1>1, <2>3, <3>1, <3>3, TaskNames
    <3> QED
      BY <3>4, <3>5, <3>6, <3>7
  <2>4. CASE pc[t] \in Alive \ {"version"}
             /\ \E s \in Ended : Moves(t, "dead", s)
    BY <1>0, <1>1, <2>4, TaskNames DEF Moves, Ended
  <2>5. CASE pc[t] \in Alive \ {"version"} /\ Moves(t, "version", "success")
    BY <1>0, <1>1, <2>5, TaskNames DEF Moves
  <2>6. CASE pc[t] = "version" /\ pc' = [pc EXCEPT ![t] = "dead"]
             /\ status' = status
    BY <1>0, <1>1, <2>6, TaskNames
  <2> QED
    BY <2>1, <2>2, <2>3, <2>4, <2>5, <2>6, WorkMoves
<1>3. /\ \A x \in buryList' : pc'[x] # "none"
      /\ burying' # NoTask => pc'[burying'] = "dead"
  <2>1. /\ \A x \in buryList : pc[x] # "none"
        /\ burying # NoTask => burying \in Tasks /\ pc[burying] = "dead"
    BY <1>0 DEF RowInv
  <2> QED
    BY <1>0, <1>2, <2>1
<1> QED
  BY <1>2, <1>3 DEF RowInv

\* Bury, users, the JOB service and time keep rows and places in step.
LEMMA OtherRow ==
  ASSUME TypeInv, RowInv,
         \/ User \/ Bury \/ BuryDie \/ UNCHANGED vars
         \/ \E u \in Uuids : Age(u)
         \/ \E b \in Batches : JobStep(b) \/ \E n \in Posts : Make(b, n)
  PROVE  RowInv'
<1> USE DEF rowVars, procVars, jobVars, buryVars
<1>0. /\ pc \in [Tasks -> Alive \cup {"none", "dead"}]
      /\ status \in [Tasks -> {"none", "init", "running"} \cup Ended]
      /\ Alive = {"load", "check", "plan", "rows", "take", "post", "poll",
                  "result", "confirm", "final", "version"}
      /\ Ended = {"success", "fail", "refuse"}
      /\ buryList \subseteq Tasks /\ burying \in Tasks \cup {NoTask}
      /\ NoTask \notin Tasks
  BY ConstantsAssumption
  DEF TypeInv, TypeOK, Alive, Preparing, InBatch, Ended
<1>1. CASE UNCHANGED <<pc, status, buryList, burying>>
  BY <1>1 DEF RowInv
<1>2. CASE BurySelect
  BY <1>2 DEF BurySelect, RowInv, Unfinished
<1>3. ASSUME NEW t \in Tasks, BuryCheck(t) PROVE RowInv'
  <2>1. /\ pc[t] # "none" /\ status' = status /\ buryList' \subseteq buryList
        /\ \/ pc' = pc
           \/ pc[t] \in Alive /\ pc' = [pc EXCEPT ![t] = "dead"]
        /\ burying' # NoTask => burying' = t
    BY <1>0, <1>3 DEF BuryCheck, Goto, RowInv
  <2>2. burying' # NoTask => pc'[t] = "dead"
    BY <1>0, <1>3, <2>1 DEF BuryCheck, Goto
  <2>3. pc[t] \in Alive => status[t] \notin {"none", "init"}
    BY <1>0 DEF RowInv
  <2> QED
    BY <1>0, <2>1, <2>2, <2>3, TaskNames DEF RowInv
<1>4. CASE BuryDie
  BY <1>4 DEF BuryDie, RowInv
<1>5. CASE BuryFail
  <2>1. /\ burying \in Tasks /\ pc[burying] = "dead" /\ burying' = NoTask
        /\ UNCHANGED <<pc, buryList>>
        /\ status' = [status EXCEPT ![burying] = "fail"]
    BY <1>0, <1>5 DEF BuryFail, RowInv
  <2> QED
    BY <1>0, <2>1, TaskNames DEF RowInv
<1>6. ASSUME NEW u \in Uuids, Rollback(u) PROVE RowInv'
  <2>1. PICK s \in {"init", "success"} :
          status' = [status EXCEPT ![Back(u)] = s]
    BY <1>6 DEF Rollback, Back
  <2>2. /\ status[Back(u)] = "none" /\ HasPrev[u] /\ Back(u) \in Tasks
        /\ UNCHANGED <<pc, buryList, burying>>
    BY <1>6, TaskNames DEF Rollback, Back
  <2>3. pc[Back(u)] = "none"
    BY <1>0, <2>2 DEF RowInv
  <2> QED
    BY <1>0, <2>1, <2>2, <2>3, TaskNames DEF RowInv
<1> QED
  <2>1. ASSUME \/ UNCHANGED vars
               \/ \E u \in Uuids : Age(u)
               \/ \E b \in Batches : JobStep(b) \/ \E n \in Posts : Make(b, n)
               \/ \E t \in Tasks : \/ StopCancel(t) \/ StopConfirm(t)
                                   \/ StopKill(t)
                                   \/ \E i \in Indices : UserConfirm(t, i)
        PROVE  UNCHANGED <<pc, status, buryList, burying>>
    BY <2>1
    DEF Age, JobStep, Make, StopCancel, StopConfirm, StopKill, UserConfirm,
        vars
  <2> QED
    BY <1>1, <1>2, <1>3, <1>4, <1>5, <1>6, <2>1 DEF User, Bury

\* A worker leaves the bury daemon alone.
LEMMA WorkAlone ==
  ASSUME NEW t \in Tasks, Work(t) \/ Mishap(t)
  PROVE  UNCHANGED <<buryList, burying>>
  BY DEF Work, Mishap, Claim, Load, CheckRefused, Plan, InsertRow, Take, Send,
         Sent, Poll, Result, Confirmed, Final, RecordVersion, Die, BatchDie,
         Crash, buryVars

\* Every step keeps rows and places in step.
LEMMA NextRow == TypeInv /\ RowInv /\ [Next]_vars => RowInv'
  BY WorkRow, WorkAlone, OtherRow DEF Next

\* Types, rows and places are right at any time.
LEMMA RowAlways == Spec => [](TypeInv /\ RowInv)
<1>1. Init => TypeInv /\ RowInv
  BY InitType, InitRow
<1>2. TypeInv /\ RowInv /\ [Next]_vars => (TypeInv /\ RowInv)'
  BY NextType, NextRow
<1> QED
  BY <1>1, <1>2, PTL DEF Spec

\* The deployments as JobLifecycle sees them.
Phases == [u \in Uuids |-> status[Forth(u)]]
Hands  == [u \in Uuids |-> Hand(Forth(u))]

\* A step of a deployment, seen so.
LEMMA SeenAs ==
  ASSUME TypeInv, NEW u \in Uuids, NEW p, NEW s,
         pc' = [pc EXCEPT ![Forth(u)] = p],
         status' = [status EXCEPT ![Forth(u)] = s]
  PROVE  /\ Phases' = [Phases EXCEPT ![u] = s]
         /\ Hands' = [Hands EXCEPT ![u] = IF p = "none" THEN "none"
                        ELSE IF p \in {"dead", "version"} THEN "gone"
                        ELSE "live"]
<1>1. /\ pc \in [Tasks -> Alive \cup {"none", "dead"}]
      /\ status \in [Tasks -> {"none", "init", "running"} \cup Ended]
  BY DEF TypeInv, TypeOK
<1>2. /\ pc'[Forth(u)] = p /\ status'[Forth(u)] = s
      /\ \A w \in Uuids : w # u => /\ pc'[Forth(w)] = pc[Forth(w)]
                                   /\ status'[Forth(w)] = status[Forth(w)]
  BY <1>1, TaskNames
<1> QED
  BY <1>2 DEF Phases, Hands, Hand

\* A step that touches no deployment is not seen.
LEMMA NotSeen ==
  ASSUME \A u \in Uuids : /\ status'[Forth(u)] = status[Forth(u)]
                          /\ Hand(Forth(u))' = Hand(Forth(u))
  PROVE  UNCHANGED Lifecycle!vars
  BY DEF Lifecycle!vars, Forth, Hand

\* A step of the engine is, for the deployments, one of JobLifecycle or none.
LEMMA LifecycleStep ==
  TypeInv /\ RowInv /\ [Next]_vars => [Lifecycle!Next]_Lifecycle!vars
<1> SUFFICES ASSUME TypeInv, RowInv, [Next]_vars
             PROVE  [Lifecycle!Next]_Lifecycle!vars
  OBVIOUS
<1>0. /\ pc \in [Tasks -> Alive \cup {"none", "dead"}]
      /\ status \in [Tasks -> {"none", "init", "running"} \cup Ended]
      /\ Alive = {"load", "check", "plan", "rows", "take", "post", "poll",
                  "result", "confirm", "final", "version"}
      /\ Ended = {"success", "fail", "refuse"}
  BY DEF TypeInv, TypeOK, Alive, Preparing, InBatch, Ended
<1>1. \A u \in Uuids : Phases[u] = status[Forth(u)]
                       /\ Hands[u] = Hand(Forth(u))
  BY DEF Phases, Hands
\* A worker that is gone, in the row of its deployment or not.
<1>2. ASSUME NEW t \in Tasks, pc[t] \in Alive, status' = status,
             pc' = [pc EXCEPT ![t] = "dead"]
      PROVE  [Lifecycle!Next]_Lifecycle!vars
  <2>1. CASE t \in {Forth(u) : u \in Uuids} /\ pc[t] # "version"
    <3>1. PICK u \in Uuids : t = Forth(u)
      BY <2>1
    <3>2. status' = [status EXCEPT ![Forth(u)] = @]
      BY <1>0, <1>2
    <3>3. Phases' = Phases /\ Hands' = [Hands EXCEPT ![u] = "gone"]
      BY <1>2, <3>1, <3>2, SeenAs DEF Phases
    <3>4. Hands[u] = "live"
      BY <1>0, <1>1, <1>2, <2>1, <3>1 DEF Hand
    <3>5. Lifecycle!Vanish(u)
      BY <3>3, <3>4 DEF Lifecycle!Vanish, Phases, Hands, Forth
    <3> QED
      BY <3>5 DEF Lifecycle!Next
  <2>2. CASE ~(t \in {Forth(u) : u \in Uuids} /\ pc[t] # "version")
    <3>1. \A u \in Uuids : Hand(Forth(u))' = Hand(Forth(u))
      BY <1>0, <1>2, <2>2, TaskNames DEF Hand
    <3> QED
      BY <1>2, <3>1, NotSeen
  <2> QED
    BY <2>1, <2>2
<1>3. ASSUME NEW t \in Tasks, Work(t) \/ Mishap(t)
      PROVE  [Lifecycle!Next]_Lifecycle!vars
  <2>1. CASE status[t] = "init" /\ pc[t] = "none" /\ Moves(t, "load", "running")
    <3>1. CASE t \in {Forth(u) : u \in Uuids}
      <4>1. PICK u \in Uuids : t = Forth(u)
        BY <3>1
      <4>2. /\ Phases' = [Phases EXCEPT ![u] = "running"]
            /\ Hands' = [Hands EXCEPT ![u] = "live"]
        <5>1. /\ pc' = [pc EXCEPT ![Forth(u)] = "load"]
              /\ status' = [status EXCEPT ![Forth(u)] = "running"]
          BY <2>1, <4>1 DEF Moves
        <5>2. /\ Phases' = [Phases EXCEPT ![u] = "running"]
              /\ Hands' = [Hands EXCEPT ![u] =
                   IF "load" = "none" THEN "none"
                   ELSE IF "load" \in {"dead", "version"} THEN "gone"
                   ELSE "live"]
          BY ONLY TypeInv, <5>1, SeenAs
        <5> QED
          BY <5>2
      <4>3. Phases[u] = "init" /\ Hands[u] = "none"
        BY <1>1, <2>1, <4>1 DEF Hand
      <4>4. Lifecycle!Take(u)
        BY <4>2, <4>3 DEF Lifecycle!Take, Phases, Hands, Forth
      <4> QED
        BY <4>4 DEF Lifecycle!Next
    <3>2. CASE t \notin {Forth(u) : u \in Uuids}
      BY <1>0, <2>1, <3>2, TaskNames, NotSeen DEF Moves, Hand
    <3> QED
      BY <3>1, <3>2
  <2>2. CASE /\ pc[t] \in Alive \ {"version"}
             /\ \E l \in (Alive \ {"version"}) \cup {"dead"} :
                  pc' = [pc EXCEPT ![t] = l]
             /\ \/ status' = status
                \/ /\ t = Forth(t[1]) /\ ~HasPrev[t[1]]
                   /\ pc'[t] = "plan"
                   /\ status' = [status EXCEPT ![Back(t[1])] = "success"]
    <3>1. CASE pc' = [pc EXCEPT ![t] = "dead"]
      <4>1. pc'[t] # "plan"
        BY <1>0, <3>1
      <4> QED
        BY <1>2, <2>2, <3>1, <4>1
    <3>2. CASE \E l \in Alive \ {"version"} : pc' = [pc EXCEPT ![t] = l]
      <4>1. \A u \in Uuids : Hand(Forth(u))' = Hand(Forth(u))
        BY <1>0, <2>2, <3>2, TaskNames DEF Hand
      <4>2. \A u \in Uuids : status'[Forth(u)] = status[Forth(u)]
        BY <1>0, <2>2, TaskNames
      <4> QED
        BY <4>1, <4>2, NotSeen
    <3> QED
      BY <2>2, <3>1, <3>2
  <2>3. ASSUME pc[t] \in Alive \ {"version"}, NEW s \in Ended,
               NEW p \in {"dead", "version"}, Moves(t, p, s)
        PROVE  [Lifecycle!Next]_Lifecycle!vars
    <3>1. CASE t \in {Forth(u) : u \in Uuids}
      <4>1. PICK u \in Uuids : t = Forth(u)
        BY <3>1
      <4>2. /\ Phases' = [Phases EXCEPT ![u] = s]
            /\ Hands' = [Hands EXCEPT ![u] = "gone"]
        BY <2>3, <4>1, SeenAs DEF Moves
      <4>3. Phases[u] = "running" /\ Hands[u] = "live"
        BY <1>0, <1>1, <2>3, <4>1 DEF Hand, RowInv
      <4>4. Lifecycle!Finish(u)
        BY <4>2, <4>3
        DEF Lifecycle!Finish, Lifecycle!Ended, Ended, Phases, Hands, Forth
      <4> QED
        BY <4>4 DEF Lifecycle!Next
    <3>2. CASE t \notin {Forth(u) : u \in Uuids}
      BY <1>0, <2>3, <3>2, TaskNames, NotSeen DEF Moves, Hand
    <3> QED
      BY <3>1, <3>2
  <2>4. CASE pc[t] = "version" /\ pc' = [pc EXCEPT ![t] = "dead"]
             /\ status' = status
    BY <1>0, <1>2, <2>4
  <2> QED
    BY <1>0, <1>3, <2>1, <2>2, <2>3, <2>4, WorkMoves
<1>4. ASSUME NEW t \in Tasks, BuryCheck(t)
      PROVE  [Lifecycle!Next]_Lifecycle!vars
  <2>1. /\ status' = status
        /\ \/ pc' = pc
           \/ pc[t] \in Alive /\ pc' = [pc EXCEPT ![t] = "dead"]
    BY <1>0, <1>4 DEF BuryCheck, Goto, rowVars
  <2>2. pc' = pc => UNCHANGED Lifecycle!vars
    BY <2>1, NotSeen DEF Hand
  <2> QED
    BY <1>2, <2>1, <2>2
<1>5. CASE BuryFail
  <2>1. /\ burying \in Tasks /\ pc[burying] = "dead" /\ pc' = pc
        /\ status' = [status EXCEPT ![burying] = "fail"]
    BY <1>5 DEF BuryFail, RowInv, TypeInv, TypeOK, procVars
  <2>2. CASE burying \in {Forth(u) : u \in Uuids}
    <3>1. PICK u \in Uuids : burying = Forth(u)
      BY <2>2
    <3>2. pc' = [pc EXCEPT ![Forth(u)] = "dead"]
      BY <1>0, <2>1, <3>1
    <3>3. Phases' = [Phases EXCEPT ![u] = "fail"]
      BY <2>1, <3>1, <3>2, SeenAs
    <3>4. Hands[u] = "gone" /\ Hands' = Hands
      BY <1>1, <2>1, <3>1 DEF Hand, Hands
    <3>5. Lifecycle!Bury(u)
      BY <3>3, <3>4 DEF Lifecycle!Bury, Phases, Hands, Forth
    <3> QED
      BY <3>5 DEF Lifecycle!Next
  <2>3. CASE burying \notin {Forth(u) : u \in Uuids}
    BY <1>0, <2>1, <2>3, NotSeen DEF Hand
  <2> QED
    BY <2>2, <2>3
<1>6. ASSUME NEW u \in Uuids, Rollback(u)
      PROVE  UNCHANGED Lifecycle!vars
  <2>1. pc' = pc /\ \E s \in {"init", "success"} :
                      status' = [status EXCEPT ![Back(u)] = s]
    BY <1>6 DEF Rollback, Back, procVars
  <2> QED
    BY <1>0, <2>1, TaskNames, NotSeen DEF Hand
<1>7. ASSUME \/ UNCHANGED vars \/ BurySelect \/ BuryDie
             \/ \E u \in Uuids : Age(u)
             \/ \E b \in Batches : JobStep(b) \/ \E n \in Posts : Make(b, n)
             \/ \E t \in Tasks : \/ StopCancel(t) \/ StopConfirm(t)
                                 \/ StopKill(t)
                                 \/ \E i \in Indices : UserConfirm(t, i)
      PROVE  UNCHANGED Lifecycle!vars
  <2>1. UNCHANGED <<pc, status>>
    BY <1>7
    DEF Age, JobStep, Make, StopCancel, StopConfirm, StopKill, UserConfirm,
        BurySelect, BuryDie, vars, rowVars, procVars
  <2> QED
    BY <2>1, NotSeen DEF Hand
<1> QED
  BY <1>3, <1>4, <1>5, <1>6, <1>7 DEF Next, User, Bury

\* Towards the pages a deployment behaves as a JOB task does.
THEOREM Refinement == Spec => KeepsLifecycle
<1>1. Init => Lifecycle!Init
  BY DEF Init, Lifecycle!Init, Hand, Tasks, Roles
<1>2. TypeInv /\ RowInv /\ [Next]_vars => [Lifecycle!Next]_Lifecycle!vars
  BY LifecycleStep
<1>3. Spec => [](TypeInv /\ RowInv)
  BY RowAlways
<1>4. Spec => Lifecycle!Spec
  BY <1>1, <1>2, <1>3, PTL DEF Spec, Lifecycle!Spec
<1> QED
  BY <1>4 DEF KeepsLifecycle

\* What is recorded as online is the version of a task that has succeeded.
THEOREM VersionsSucceed == Spec => VersionOfSuccess
<1>1. ASSUME TypeInv, RowInv, [Next]_vars, online' # online
      PROVE  status[online'] = "success"
  <2>1. \E t \in Tasks : RecordVersion(t)
    BY <1>1
    DEF Next, Work, Mishap, Claim, Load, CheckRefused, Plan, InsertRow, Take,
        Send, Sent, Poll, Result, Confirmed, Final, Die, BatchDie, Crash,
        JobStep, Make, Bury, BurySelect, BuryFail, BuryCheck, BuryDie, User,
        StopCancel, StopConfirm, StopKill, UserConfirm, Rollback, Age,
        vars, rowVars
  <2> QED
    BY <1>1, <2>1 DEF RecordVersion, RowInv
<1>2. TypeInv /\ RowInv /\ [Next]_vars =>
        [online' # online => status[online'] = "success"]_vars
  BY <1>1
<1> QED
  BY <1>2, RowAlways, PTL DEF Spec, VersionOfSuccess
-----------------------------------------------------------------------------
(***************************************************************************)
(* The verdicts.                                                           *)
(***************************************************************************)

\* A worker touches nothing of another task that was taken up.
LEMMA WorkFrame ==
  ASSUME TypeInv, RowInv, NEW t \in Tasks, Work(t) \/ Mishap(t)
  PROVE  /\ \A x \in Tasks : x # t =>
              /\ pc'[x] = pc[x] /\ plan'[x] = plan[x] /\ idx'[x] = idx[x]
              /\ got'[x] = got[x] /\ verdict'[x] = verdict[x]
              /\ bstat'[x] = bstat[x] /\ confirm'[x] = confirm[x]
              /\ \A i \in Indices : req'[<<x, i>>] = req[<<x, i>>]
              /\ \/ status'[x] = status[x]
                 \/ /\ x[2] = "rollback" /\ pc[x] = "none"
                    /\ status'[x] = "success"
         /\ UNCHANGED <<made, jphase>>
<1>0. /\ pc \in [Tasks -> Alive \cup {"none", "dead"}]
      /\ plan \in [Tasks -> Seq(Indices)] /\ idx \in [Tasks -> Indices]
      /\ got \in [Tasks -> {"none"} \cup Ended] /\ verdict \in [Tasks -> Ended]
      /\ bstat \in [Tasks -> [Indices -> {"none", "init", "running"}
                                         \cup BatchEnded]]
      /\ confirm \in [Tasks -> [Indices -> {"null", "wait", "stop"}]]
  BY DEF TypeInv, TypeOK
<1> USE DEF rowVars, procVars, jobVars, Goto, SetBatch
<1>1. UNCHANGED <<made, jphase>>
  BY DEF Work, Mishap, Claim, Load, CheckRefused, Plan, InsertRow, Take, Send,
         Sent, Poll, Result, Confirmed, Final, RecordVersion, Die, BatchDie,
         Crash
<1>2. ASSUME NEW s, Return(t, s)
      PROVE  \A x \in Tasks : x # t => /\ verdict'[x] = verdict[x]
                                       /\ idx'[x] = idx[x]
  BY <1>0, <1>2 DEF Return
<1>3. \A x \in Tasks : x # t => /\ plan'[x] = plan[x] /\ idx'[x] = idx[x]
                                /\ got'[x] = got[x] /\ verdict'[x] = verdict[x]
                                /\ bstat'[x] = bstat[x]
                                /\ confirm'[x] = confirm[x]
  <2>1. CASE \/ Claim(t) \/ Load(t) \/ CheckRefused(t) \/ Send(t) \/ Final(t)
             \/ RecordVersion(t) \/ Die(t) \/ Crash(t)
    BY <2>1
    DEF Claim, Load, CheckRefused, Send, Final, RecordVersion, Die, Crash
  <2>2. CASE Plan(t) \/ InsertRow(t)
    BY ZenonT(40), <1>0, <2>2 DEF Plan, InsertRow
  <2>3. CASE Poll(t) \/ BatchDie(t)
    BY <1>0, <2>3 DEF Poll, BatchDie
  <2>4. CASE Take(t) \/ Confirmed(t)
    BY <1>0, <1>2, <2>4 DEF Take, Confirmed
  <2>5. CASE Sent(t)
    BY <1>0, <1>2, <2>5 DEF Sent
  <2>6. CASE Result(t)
    BY <1>0, <1>2, <2>6 DEF Result
  <2> QED
    BY <2>1, <2>2, <2>3, <2>4, <2>5, <2>6 DEF Work, Mishap
<1>4. \A x \in Tasks : x # t =>
        /\ pc'[x] = pc[x]
        /\ \/ status'[x] = status[x]
           \/ x[2] = "rollback" /\ pc[x] = "none" /\ status'[x] = "success"
  <2>1. /\ ~HasPrev[t[1]] => pc[Back(t[1])] = "none"
        /\ Back(t[1])[2] = "rollback"
    BY TaskNames DEF RowInv, Back
  <2>2. /\ status \in [Tasks -> {"none", "init", "running"} \cup Ended]
        /\ Back(t[1]) \in Tasks
    BY TaskNames DEF TypeInv, TypeOK
  <2> QED
    BY <1>0, <2>1, <2>2, WorkMoves DEF Moves
<1>5. ASSUME NEW x \in Tasks, x # t, NEW i \in Indices
      PROVE  req'[<<x, i>>] = req[<<x, i>>]
  <2>1. CASE \E n \in Posts, v \in {"select", "insert"} :
               req' = [req EXCEPT ![<<t, idx[t]>>][n] = v]
    <3>1. <<x, i>> # <<t, idx[t]>> /\ <<x, i>> \in Batches
      BY <1>5 DEF Batches
    <3> QED
      BY <2>1, <3>1 DEF TypeInv, TypeOK
  <2>2. CASE req' = req
    BY <2>2
  <2>3. Send(t) => \E n \in Posts, v \in {"select", "insert"} :
                     req' = [req EXCEPT ![<<t, idx[t]>>][n] = v]
    BY DEF Send
  <2>4. ~Send(t) => req' = req
    BY DEF Work, Mishap, Claim, Load, CheckRefused, Plan, InsertRow, Take,
           Sent, Poll, Result, Confirmed, Final, RecordVersion, Die, BatchDie,
           Crash
  <2> QED
    BY <2>1, <2>2, <2>3, <2>4
<1> QED
  BY <1>1, <1>3, <1>4, <1>5

\* A batch that is over with the result in its row.
LEMMA ReturnVerdict ==
  ASSUME TypeInv, RowInv, NEW t \in Tasks, Verdict(t), pc[t] \in InBatch,
         NEW s \in BatchEnded, Return(t, s), UNCHANGED <<plan, status>>,
         s \in {"success", "refuse"} => bstat'[t][idx[t]] = s,
         \A i \in Indices : i # idx[t] => bstat'[t][i] = bstat[t][i]
  PROVE  Verdict(t)'
<1>0. /\ idx[t] \in Indices /\ Len(plan[t]) \in Nat
      /\ 1..Len(plan[t]) \subseteq Indices
      /\ verdict[t] # "refuse" /\ status[t] = "running"
      /\ InBatch = {"take", "post", "poll", "result", "confirm"}
      /\ BatchEnded = {"success", "fail", "refuse", "cancel"}
  <2>1. status[t] = "running"
    BY DEF RowInv, Alive, InBatch
  <2> QED
    BY <2>1, ConstantsAssumption
    DEF TypeInv, TypeOK, PlaceInv, Indices, InBatch, BatchEnded, Ended
<1>1. \/ /\ pc'[t] = "take" /\ s \in {"success", "fail"}
         /\ idx'[t] = idx[t] + 1
      \/ /\ pc'[t] = "final" /\ idx'[t] = idx[t]
         /\ s \in {"success", "fail"} => idx[t] = Len(plan[t])
  BY ReturnIs
<1>2. /\ s \in {"fail", "cancel"} => verdict'[t] = "fail"
      /\ s = "refuse" => verdict'[t] = "refuse"
      /\ s = "success" => verdict'[t] = verdict[t]
  BY ReturnIs
<1>3. s = "success" /\ verdict[t] = "success" =>
        \A i \in Indices : i <= idx[t] => bstat'[t][i] = "success"
  BY <1>0 DEF Verdict, Indices
<1> QED
  BY <1>0, <1>1, <1>2, <1>3 DEF Verdict, Indices

\* A worker that goes on keeps the verdict that of its batches.
LEMMA WorkVerdict ==
  ASSUME TypeInv, RowInv, NEW t \in Tasks, Verdict(t), Work(t) \/ Mishap(t)
  PROVE  Verdict(t)'
<1> USE DEF Verdict, rowVars, procVars, Goto, SetBatch
<1>0. /\ pc \in [Tasks -> Alive \cup {"none", "dead"}]
      /\ idx[t] \in Indices /\ 1..Len(plan[t]) \subseteq Indices
      /\ InBatch = {"take", "post", "poll", "result", "confirm"}
      /\ Preparing = {"load", "check", "plan", "rows"}
      /\ status \in [Tasks -> {"none", "init", "running"} \cup Ended]
      /\ verdict \in [Tasks -> Ended]
      /\ bstat \in [Tasks -> [Indices -> {"none", "init", "running"}
                                         \cup BatchEnded]]
      /\ pc[t] \in Alive \ {"version"} => status[t] = "running"
      /\ pc[t] \in Preparing => idx[t] = 1 /\ verdict[t] = "success"
  BY ConstantsAssumption
  DEF TypeInv, TypeOK, Indices, InBatch, Preparing, RowInv, PlaceInv, Early
\* The worker moves before its batches.
<1>1. CASE \/ Claim(t) \/ Load(t) \/ CheckRefused(t) \/ Plan(t) \/ InsertRow(t)
           \/ Die(t)
  <2>1. /\ pc[t] \in {"none"} \cup Preparing /\ UNCHANGED <<idx, verdict>>
        /\ idx[t] = 1 /\ verdict[t] = "success"
    BY <1>0, <1>1
    DEF Claim, Load, CheckRefused, Plan, InsertRow, Die, TypeInv, PlaceInv,
        Early
  <2>2. status'[t] = "running"
    <3>1. CASE Claim(t)
      BY <1>0, <3>1 DEF Claim
    <3>2. CASE Load(t)
      <4>1. status[t] = "running" /\ Back(t[1]) # Forth(t[1])
        BY <1>0, <3>2, TaskNames DEF Load, Alive
      <4>2. \/ status' = status
            \/ t = Forth(t[1]) /\ status' = [status EXCEPT ![Back(t[1])] =
                                                "success"]
        BY <3>2, TaskNames DEF Load, Back
      <4> QED
        BY <1>0, <4>1, <4>2
    <3>3. CASE CheckRefused(t) \/ Plan(t) \/ InsertRow(t) \/ Die(t)
      BY <1>0, <3>3 DEF CheckRefused, Plan, InsertRow, Die, Alive
    <3> QED
      BY <1>1, <3>1, <3>2, <3>3
  <2>3. \/ pc'[t] \in Preparing \cup {"dead", "take"}
        \/ pc'[t] = "final" /\ plan'[t] = <<>>
    <3>1. CASE Claim(t) \/ Load(t) \/ CheckRefused(t) \/ Plan(t) \/ Die(t)
      BY <1>0, <3>1 DEF Claim, Load, CheckRefused, Plan, Die
    <3>2. CASE InsertRow(t)
      BY <1>0, <3>2 DEF InsertRow
    <3> QED
      BY <1>1, <3>1, <3>2
  <2> QED
    BY <1>0, <2>1, <2>2, <2>3 DEF Indices
<1>2. CASE Send(t) \/ Poll(t) \/ BatchDie(t) \/ RecordVersion(t) \/ Crash(t)
  <2>1. UNCHANGED <<status, bstat, plan, idx>>
    BY <1>2 DEF Send, Poll, BatchDie, RecordVersion, Crash
  <2>2. \/ UNCHANGED <<pc, verdict>>
        \/ pc[t] # "none" /\ pc'[t] = "dead"
        \/ pc[t] = "poll" /\ pc'[t] = "result" /\ verdict' = verdict
        \/ pc[t] # "none" /\ pc'[t] = "final" /\ verdict'[t] = "fail"
    BY <1>0, <1>2 DEF Send, Poll, BatchDie, RecordVersion, Crash, Alive
  <2> QED
    BY <1>0, <2>1, <2>2
<1>3. CASE Take(t)
  <2>0. /\ pc[t] = "take" /\ pc[t] \in InBatch /\ UNCHANGED <<plan, status>>
        /\ status[t] = "running"
    BY <1>0, <1>3 DEF Take, Alive
  <2>1. CASE /\ bstat[t][idx[t]] \in BatchEnded
             /\ Return(t, bstat[t][idx[t]]) /\ UNCHANGED bstat
    BY <2>0, <2>1, ReturnVerdict
  <2>2. CASE /\ bstat' = [bstat EXCEPT ![t][idx[t]] = "running"]
             /\ pc' = [pc EXCEPT ![t] = "post"] /\ UNCHANGED <<idx, verdict>>
    <3>1. /\ pc'[t] = "post"
          /\ \A i \in Indices : i # idx[t] => bstat'[t][i] = bstat[t][i]
      BY <1>0, <2>2
    <3> QED
      BY <1>0, <2>0, <2>2, <3>1 DEF Indices
  <2> QED
    BY <1>3, <2>1, <2>2 DEF Take
<1>4. CASE Sent(t)
  <2>0. /\ pc[t] = "post" /\ pc[t] \in InBatch /\ UNCHANGED <<plan, status>>
        /\ status[t] = "running"
    BY <1>0, <1>4 DEF Sent, Alive
  <2>1. CASE /\ pc' = [pc EXCEPT ![t] = "poll"]
             /\ UNCHANGED <<bstat, idx, verdict>>
    BY <1>0, <2>0, <2>1
  <2>2. CASE /\ pc' = [pc EXCEPT ![t] = "final"] /\ UNCHANGED <<bstat, idx>>
             /\ verdict' = [verdict EXCEPT ![t] = "fail"]
    BY <1>0, <2>0, <2>2
  <2>3. CASE /\ bstat' = [bstat EXCEPT ![t][idx[t]] = "fail"]
             /\ Return(t, "fail")
    <3>1. "fail" \in BatchEnded
      BY DEF Ended, BatchEnded
    <3>2. \A i \in Indices : i # idx[t] => bstat'[t][i] = bstat[t][i]
      BY <1>0, <2>3
    <3> QED
      BY <2>0, <2>3, <3>1, <3>2, ReturnVerdict
  <2> QED
    BY <1>4, <2>1, <2>2, <2>3 DEF Sent
<1>5. CASE Result(t)
  <2>0. /\ pc[t] = "result" /\ pc[t] \in InBatch /\ UNCHANGED <<plan, status>>
        /\ got[t] \in BatchEnded /\ status[t] = "running"
        /\ bstat' = [bstat EXCEPT ![t][idx[t]] = got[t]]
    BY <1>0, <1>5
    DEF Result, Alive, TypeInv, PlaceInv, BatchEnded
  <2>1. /\ \A i \in Indices : i # idx[t] => bstat'[t][i] = bstat[t][i]
        /\ bstat'[t][idx[t]] = got[t]
    BY <1>0, <2>0
  <2>2. CASE UNCHANGED idx /\ \/ /\ pc' = [pc EXCEPT ![t] = "final"]
                                 /\ verdict' = [verdict EXCEPT ![t] = "fail"]
                              \/ /\ pc' = [pc EXCEPT ![t] = "confirm"]
                                 /\ UNCHANGED verdict
    BY <1>0, <2>0, <2>1, <2>2 DEF Indices
  <2>3. CASE Return(t, got[t])
    BY <2>0, <2>1, <2>3, ReturnVerdict
  <2> QED
    BY <1>5, <2>2, <2>3 DEF Result
<1>6. CASE Confirmed(t)
  <2>1. /\ "fail" \in BatchEnded /\ pc[t] \in InBatch
        /\ UNCHANGED <<plan, status, bstat>> /\ Return(t, "fail")
    BY <1>0, <1>6 DEF Confirmed, Ended, BatchEnded
  <2> QED
    BY <2>1, ReturnVerdict
<1>7. CASE Final(t)
  <2>1. /\ pc[t] = "final" /\ UNCHANGED <<bstat, plan, idx, verdict>>
        /\ status'[t] = verdict[t] /\ pc'[t] \in {"dead", "version"}
    BY <1>0, <1>7 DEF Final
  <2> QED
    BY <1>0, <2>1
<1> QED
  BY <1>1, <1>2, <1>3, <1>4, <1>5, <1>6, <1>7 DEF Work, Mishap

\* The bury daemon makes a result a failure, and a stop cancels only what waits.
LEMMA OtherVerdict ==
  ASSUME TypeInv, RowInv, NEW t \in Tasks, Verdict(t),
         \/ User \/ Bury \/ BuryDie \/ UNCHANGED vars
         \/ \E u \in Uuids : Age(u)
         \/ \E b \in Batches : JobStep(b) \/ \E n \in Posts : Make(b, n)
  PROVE  Verdict(t)'
<1> USE DEF Verdict, rowVars, procVars, jobVars, buryVars
<1>0. /\ pc \in [Tasks -> Alive \cup {"none", "dead"}]
      /\ status \in [Tasks -> {"none", "init", "running"} \cup Ended]
      /\ bstat \in [Tasks -> [Indices -> {"none", "init", "running"}
                                         \cup BatchEnded]]
      /\ idx[t] \in Indices /\ 1..Len(plan[t]) \subseteq Indices
      /\ "none" \notin Alive /\ "dead" \notin InBatch
  BY ConstantsAssumption
  DEF TypeInv, TypeOK, Indices, InBatch, Alive, Preparing
<1>1. CASE UNCHANGED <<status, bstat, procVars>>
  BY <1>1
<1>2. ASSUME NEW x \in Tasks, BuryCheck(x) PROVE Verdict(t)'
  <2>1. /\ UNCHANGED <<status, bstat, plan, idx, verdict>>
        /\ \/ pc' = pc
           \/ pc[x] \in Alive /\ pc' = [pc EXCEPT ![x] = "dead"]
    BY <1>2 DEF BuryCheck, Goto
  <2> QED
    BY <1>0, <2>1
<1>3. CASE BuryFail
  BY <1>0, <1>3 DEF BuryFail
<1>4. ASSUME NEW u \in Uuids, Rollback(u) PROVE Verdict(t)'
  <2>1. /\ UNCHANGED <<bstat, procVars>>
        /\ \E s \in {"init", "success"} :
             status' = [status EXCEPT ![Back(u)] = s]
        /\ status[Back(u)] = "none"
    BY <1>4 DEF Rollback, Back
  <2>2. pc[Back(u)] = "none"
    BY <1>0, <2>1, TaskNames DEF RowInv
  <2>3. pc[t] # "none" => status'[t] = status[t]
    BY <1>0, <2>1, <2>2
  <2> QED
    BY <2>1, <2>3
<1>5. ASSUME NEW x \in Tasks, StopCancel(x) PROVE Verdict(t)'
  <2>1. /\ UNCHANGED <<status, procVars>>
        /\ \A i \in Indices : bstat[t][i] # "init" => bstat'[t][i] = bstat[t][i]
    BY <1>0, <1>5 DEF StopCancel
  <2> QED
    BY <1>0, <2>1
<1> QED
  <2>1. ASSUME \/ UNCHANGED vars \/ BurySelect \/ BuryDie
               \/ \E u \in Uuids : Age(u)
               \/ \E b \in Batches : JobStep(b) \/ \E n \in Posts : Make(b, n)
               \/ \E x \in Tasks : \/ StopConfirm(x) \/ StopKill(x)
                                   \/ \E i \in Indices : UserConfirm(x, i)
        PROVE  UNCHANGED <<status, bstat, procVars>>
    BY <2>1
    DEF Age, JobStep, Make, StopConfirm, StopKill, UserConfirm, BurySelect,
        BuryDie, vars
  <2> QED
    BY <1>1, <1>2, <1>3, <1>4, <1>5, <2>1 DEF User, Bury

\* At first there is no verdict.
LEMMA InitVerdict == Init => VerdictInv
  BY DEF Init, Verdict, VerdictInv, InBatch

\* Every step keeps the verdicts those of the batches.
LEMMA NextVerdict ==
  TypeInv /\ RowInv /\ VerdictInv /\ [Next]_vars => VerdictInv'
<1> SUFFICES ASSUME TypeInv, RowInv, \A t \in Tasks : Verdict(t), [Next]_vars,
                    NEW t \in Tasks
             PROVE  Verdict(t)'
  BY DEF VerdictInv
<1>1. ASSUME NEW x \in Tasks, Work(x) \/ Mishap(x) PROVE Verdict(t)'
  <2>1. CASE x = t
    BY <1>1, <2>1, WorkVerdict
  <2>2. CASE x # t
    <3>1. /\ pc'[t] = pc[t] /\ plan'[t] = plan[t] /\ idx'[t] = idx[t]
          /\ verdict'[t] = verdict[t] /\ bstat'[t] = bstat[t]
          /\ pc[t] # "none" => status'[t] = status[t]
      BY <1>1, <2>2, WorkFrame
    <3> QED
      BY <3>1 DEF Verdict
  <2> QED
    BY <2>1, <2>2
<1> QED
  BY <1>1, OtherVerdict DEF Next

\* A task succeeds only if each of its batches did, and it is refused only if
\* its last batch was.
THEOREM VerdictsHonest == Spec => []ResultHonest
<1>1. Init => VerdictInv
  BY InitVerdict
<1>2. TypeInv /\ RowInv /\ VerdictInv /\ [Next]_vars => VerdictInv'
  BY NextVerdict
<1>3. VerdictInv => ResultHonest
  BY DEF VerdictInv, Verdict, ResultHonest
<1> QED
  BY <1>1, <1>2, <1>3, RowAlways, PTL DEF Spec
-----------------------------------------------------------------------------
(***************************************************************************)
(* Rollbacks.                                                              *)
(***************************************************************************)

\* The places of a worker.
LEMMA Places ==
  /\ Alive = {"load", "check", "plan", "rows", "take", "post", "poll",
              "result", "confirm", "final", "version"}
  /\ InBatch = {"take", "post", "poll", "result", "confirm"}
  /\ Preparing = {"load", "check", "plan", "rows"}
  /\ Early = {"none", "load", "check", "plan", "rows"}
  /\ Ended = {"success", "fail", "refuse"}
  BY DEF Alive, Preparing, InBatch, Early, Ended

\* The worker of a rollback goes on.
LEMMA BackRoll ==
  ASSUME TypeInv, RowInv, BatchInv, NEW u \in Uuids, Roll(u),
         Work(Back(u)) \/ Mishap(Back(u))
  PROVE  Roll(u)'
<1> DEFINE t == Back(u)
           o == Forth(u)
<1>0. /\ t \in Tasks /\ o \in Tasks /\ t # o /\ Deploy(t) = o /\ t[1] = u
      /\ t[2] = "rollback" /\ o[2] = "deploy"
      /\ pc \in [Tasks -> Alive \cup {"none", "dead"}]
      /\ status \in [Tasks -> {"none", "init", "running"} \cup Ended]
      /\ plan \in [Tasks -> Seq(Indices)]
  BY TaskNames DEF TypeInv, TypeOK, Back, Forth, Deploy
<1>1. /\ status'[o] = status[o]
      /\ \A i \in Indices : req'[<<o, i>>] = req[<<o, i>>]
  <2> HIDE DEF o, t
  <2>1. o # t /\ o \in Tasks /\ t \in Tasks /\ o[2] # "rollback"
    BY <1>0
  <2>2. Work(t) \/ Mishap(t)
    BY DEF t
  <2> QED
    BY <2>1, <2>2, WorkFrame
<1>2. status[t] = "init" \/ pc[t] # "none"
  BY <1>0, WorkMoves, Places DEF Moves
<1>3. status[o] \in Ended /\ status'[o] \in Ended
  BY <1>1, <1>2 DEF Roll
<1> USE DEF rowVars, procVars, Goto
<1>4. /\ status[o] = "refuse" => pc'[t] \in {"none", "load", "check", "dead"}
      /\ \/ pc'[t] \in {"rows", "final", "version"} \cup InBatch
         \/ pc'[t] # "none" /\ status'[t] = "success"
         => Planned(u)'
  <2>1. CASE Claim(t) \/ Load(t) \/ CheckRefused(t)
    <3>1. /\ pc'[t] \in {"load", "check", "plan", "dead"}
          /\ status[o] = "refuse" => pc'[t] # "plan"
      BY <1>0, <2>1 DEF Claim, Load, CheckRefused
    <3>2. status'[t] = "running"
      <4>1. CASE Claim(t)
        BY <1>0, <4>1 DEF Claim
      <4>2. CASE Load(t) \/ CheckRefused(t)
        BY <1>0, <4>2, Places DEF Load, CheckRefused, RowInv
      <4> QED
        BY <2>1, <4>1, <4>2
    <3> QED
      BY <3>1, <3>2, Places
  <2>2. CASE Plan(t)
    <3>1. pc[t] = "plan" /\ pc'[t] = "rows" /\ status[o] # "refuse"
      BY <1>0, <2>2, Places DEF Plan, Roll
    <3>a. PICK r \in BOOLEAN : \E s \in InOrder(WorkedOn(u), r) :
            plan' = [plan EXCEPT ![t] = s]
      <4> DEFINE r == RollbackMode \in {"PartialReverseRollback",
                                        "FullReverseRollback"}
      <4>1. \E s \in InOrder(WorkedOn(u), r) : plan' = [plan EXCEPT ![t] = s]
        BY <1>0, <2>2 DEF Plan
      <4>2. r \in BOOLEAN
        OBVIOUS
      <4> HIDE DEF r
      <4> QED
        BY <4>1, <4>2
    <3>2. PICK s \in InOrder(WorkedOn(u), r) : plan' = [plan EXCEPT ![t] = s]
      BY <3>a
    <3>3. WorkedOn(u) \subseteq Indices
      BY DEF WorkedOn
    <3>4. plan'[t] = s /\ \A i \in WorkedOn(u) : \E k \in 1..Len(s) : s[k] = i
      <4>1. plan'[t] = s
        BY <1>0, <3>2
      <4>2. WorkedOn(u) \in SUBSET Indices
        BY <3>3
      <4>3. \A i \in WorkedOn(u) : \E k \in 1..Len(s) : s[k] = i
        BY <4>2, InOrderIs
      <4> QED
        BY <4>1, <4>3
    <3>5. ASSUME NEW i \in Indices, NEW n \in Posts, req[<<o, i>>][n] # "idle"
          PROVE  i \in WorkedOn(u)
      <4>1. Begun(o, i)
        BY <1>0, <3>5 DEF BatchInv
      <4> QED
        BY <4>1 DEF WorkedOn, Begun, Forth
    <3>6. Planned(u)'
      BY <1>1, <3>4, <3>5 DEF Planned
    <3> QED
      BY <3>1, <3>6
  <2>3. CASE ~(Claim(t) \/ Load(t) \/ CheckRefused(t) \/ Plan(t))
    <3>1. plan' = plan
      BY <2>3
      DEF Work, Mishap, InsertRow, Take, Send, Sent, Poll, Result, Confirmed,
          Final, RecordVersion, Die, BatchDie, Crash
    <3>2. Planned(u) => Planned(u)'
      BY <1>1, <3>1 DEF Planned
    <3>3. CASE Die(t) \/ Crash(t)
      <4>1. pc[t] \in Alive /\ pc'[t] = "dead" /\ status' = status
        BY <1>0, <3>3, Places DEF Die, Crash
      <4>2. status[t] = "success" => pc[t] = "version"
        BY <1>0, <4>1 DEF RowInv
      <4> QED
        BY <3>2, <4>1, <4>2, Places DEF Roll
    <3>4. CASE ~(Die(t) \/ Crash(t))
      <4>1. pc[t] \in {"rows", "final", "version"} \cup InBatch
        BY <2>3, <3>4, Places
        DEF Work, Mishap, InsertRow, Take, Send, Sent, Poll, Result,
            Confirmed, Final, RecordVersion, BatchDie
      <4> QED
        BY <3>2, <4>1, Places DEF Roll
    <3> QED
      BY <3>3, <3>4
  <2> QED
    BY <2>1, <2>2, <2>3
<1>5. status[o] = "refuse" =>
        \A i \in Indices, n \in Posts : req'[<<t, i>>][n] = "idle"
  <2>1. ASSUME status[o] = "refuse" PROVE ~Send(t)
    BY <2>1, Places DEF Roll, Send
  <2>2. ~Send(t) => req' = req
    BY DEF Work, Mishap, Claim, Load, CheckRefused, Plan, InsertRow, Take,
           Sent, Poll, Result, Confirmed, Final, RecordVersion, Die, BatchDie,
           Crash
  <2> QED
    BY <2>1, <2>2 DEF Roll
<1> QED
  BY <1>1, <1>3, <1>4, <1>5 DEF Roll

\* The worker of the deployment goes on.
LEMMA ForthRoll ==
  ASSUME TypeInv, RowInv, BatchInv, NEW u \in Uuids, Roll(u),
         Work(Forth(u)) \/ Mishap(Forth(u))
  PROVE  Roll(u)'
<1> DEFINE t == Back(u)
           o == Forth(u)
<1>0. /\ t \in Tasks /\ o \in Tasks /\ t # o
      /\ pc \in [Tasks -> Alive \cup {"none", "dead"}]
      /\ status \in [Tasks -> {"none", "init", "running"} \cup Ended]
  BY TaskNames DEF TypeInv, TypeOK
<1>1. /\ pc'[t] = pc[t] /\ plan'[t] = plan[t]
      /\ \A i \in Indices : req'[<<t, i>>] = req[<<t, i>>]
      /\ \/ status'[t] = status[t]
         \/ pc[t] = "none" /\ status'[t] = "success"
  BY <1>0, WorkFrame
<1>2. CASE status[o] \in Ended
  <2>1. pc[o] = "version"
    BY <1>0, <1>2, WorkMoves, Places DEF RowInv
  <2>2. status' = status
    BY <1>0, <1>2, <2>1, WorkMoves, Places
  <2>3. req' = req
    BY <2>1, Places
    DEF Work, Mishap, Claim, Load, CheckRefused, Plan, InsertRow, Take, Send,
        Sent, Poll, Result, Confirmed, Final, RecordVersion, Die, BatchDie,
        Crash
  <2>4. Planned(u) => Planned(u)'
    BY <1>1, <2>3 DEF Planned
  <2> QED
    BY <1>1, <2>2, <2>3, <2>4 DEF Roll
<1>3. CASE status[o] \notin Ended
  <2>1. pc[t] = "none" /\ status[t] # "init"
    BY <1>3 DEF Roll
  <2>2. pc'[t] = "none" /\ status'[t] # "init"
    BY <1>1, <2>1
  <2>3. \A i \in Indices, n \in Posts : req'[<<t, i>>][n] = "idle"
    BY <1>0, <1>1, <2>1, Places DEF BatchInv
  <2> QED
    BY <2>2, <2>3, Places DEF Roll
<1> QED
  BY <1>2, <1>3

\* Users, who are patient, bury, the requests, JOB and time.
LEMMA OtherRoll ==
  ASSUME TypeInv, RowInv, Patient, NEW u \in Uuids, Roll(u),
         \/ User \/ Bury \/ BuryDie \/ UNCHANGED vars
         \/ \E w \in Uuids : Age(w)
         \/ \E b \in Batches : JobStep(b) \/ \E n \in Posts : Make(b, n)
  PROVE  Roll(u)'
<1> DEFINE t == Back(u)
           o == Forth(u)
<1> USE DEF Roll, Planned, rowVars, procVars, jobVars, buryVars
<1>0. /\ t \in Tasks /\ o \in Tasks /\ t # o
      /\ \A i \in Indices : <<t, i>> \in Batches /\ <<o, i>> \in Batches
      /\ pc \in [Tasks -> Alive \cup {"none", "dead"}]
      /\ status \in [Tasks -> {"none", "init", "running"} \cup Ended]
      /\ req \in [Batches ->
                    [Posts -> {"idle", "select", "insert", "ok", "no"}]]
  BY TaskNames DEF TypeInv, TypeOK, Batches
<1>1. CASE UNCHANGED <<status, pc, plan, req>>
  BY <1>1
<1>2. ASSUME NEW x \in Tasks, BuryCheck(x) PROVE Roll(u)'
  <2>1. /\ UNCHANGED <<status, plan, req>>
        /\ \/ pc' = pc
           \/ /\ pc[x] \in Alive /\ pc' = [pc EXCEPT ![x] = "dead"]
    BY <1>2 DEF BuryCheck, Goto
  <2> QED
    BY <1>0, <2>1, Places
<1>3. CASE BuryFail
  <2>1. /\ UNCHANGED <<pc, plan, req>> /\ burying \in Tasks
        /\ status' = [status EXCEPT ![burying] = "fail"]
        /\ pc[burying] = "dead"
    BY <1>3 DEF BuryFail, RowInv, TypeInv, TypeOK
  <2> QED
    BY <1>0, <2>1, Places
<1>4. ASSUME NEW w \in Uuids, Rollback(w) PROVE Roll(u)'
  <2>1. /\ UNCHANGED <<pc, plan, req>> /\ status[Forth(w)] \in Ended
        /\ status[Back(w)] = "none"
        /\ \E s \in {"init", "success"} :
             status' = [status EXCEPT ![Back(w)] = s]
    BY <1>4 DEF Rollback, Back, Forth
  <2>2. pc[Back(w)] = "none"
    BY ZenonT(40), <2>1, TaskNames, Places DEF RowInv, TypeInv, TypeOK
  <2>3. CASE w = u
    BY <1>0, <2>1, <2>2, <2>3, Places
  <2>4. CASE w # u
    <3>1. status'[t] = status[t] /\ status'[o] = status[o]
      BY <1>0, <2>1, <2>4, TaskNames
    <3> QED
      BY <2>1, <3>1
  <2> QED
    BY <2>3, <2>4
<1>5. ASSUME NEW b \in Batches, NEW n \in Posts, Make(b, n) PROVE Roll(u)'
  <2>1. /\ UNCHANGED <<status, pc, plan>> /\ req[b][n] # "idle"
        /\ \E v \in {"ok", "no", "insert"} : req' = [req EXCEPT ![b][n] = v]
    BY <1>5 DEF Make
  <2>2. \A a \in Batches, m \in Posts :
          req[a][m] # "idle" <=> req'[a][m] # "idle"
    BY <1>0, <2>1
  <2> QED
    BY <1>0, <2>1, <2>2
<1> QED
  <2>1. ASSUME \/ UNCHANGED vars \/ BurySelect \/ BuryDie
               \/ \E w \in Uuids : Age(w)
               \/ \E b \in Batches : JobStep(b)
               \/ \E x \in Tasks : \/ StopCancel(x) \/ StopConfirm(x)
                                   \/ StopKill(x)
                                   \/ \E i \in Indices : UserConfirm(x, i)
        PROVE  UNCHANGED <<status, pc, plan, req>>
    BY <2>1
    DEF Age, JobStep, StopCancel, StopConfirm, StopKill, UserConfirm,
        BurySelect, BuryDie, vars
  <2> QED
    BY <1>1, <1>2, <1>3, <1>4, <1>5, <2>1 DEF User, Bury

\* At first nothing is rolled back.
LEMMA InitRoll == Init => RollInv
<1> SUFFICES ASSUME Init, NEW u \in Uuids PROVE Roll(u)
  BY DEF RollInv
<1>1. pc[Back(u)] = "none" /\ status[Back(u)] = "none"
      /\ status[Forth(u)] = "init"
  BY TaskNames DEF Init, Forth, Back
<1> QED
  BY <1>1, Places DEF Roll

\* Every step keeps a rollback behind its deployment.
LEMMA NextRoll ==
  ASSUME Patient
  PROVE  TypeInv /\ RowInv /\ BatchInv /\ RollInv /\ [Next]_vars => RollInv'
<1> SUFFICES ASSUME TypeInv, RowInv, BatchInv, RollInv, [Next]_vars,
                    NEW u \in Uuids
             PROVE  Roll(u)'
  BY DEF RollInv
<1>0. Roll(u)
  BY DEF RollInv
<1>1. ASSUME NEW x \in Tasks, Work(x) \/ Mishap(x) PROVE Roll(u)'
  <2>1. CASE x = Back(u)
    BY <1>0, <1>1, <2>1, BackRoll
  <2>2. CASE x = Forth(u)
    BY <1>0, <1>1, <2>2, ForthRoll
  <2>3. CASE x # Back(u) /\ x # Forth(u)
    <3>1. /\ Back(u) \in Tasks /\ Forth(u) \in Tasks
          /\ Forth(u)[2] # "rollback"
      BY TaskNames DEF Forth
    <3>2. /\ pc'[Back(u)] = pc[Back(u)] /\ plan'[Back(u)] = plan[Back(u)]
          /\ \A i \in Indices : req'[<<Back(u), i>>] = req[<<Back(u), i>>]
          /\ \/ status'[Back(u)] = status[Back(u)]
             \/ pc[Back(u)] = "none" /\ status'[Back(u)] = "success"
      BY <1>1, <2>3, <3>1, WorkFrame
    <3>3. /\ \A i \in Indices : req'[<<Forth(u), i>>] = req[<<Forth(u), i>>]
          /\ status'[Forth(u)] = status[Forth(u)]
      BY <1>1, <2>3, <3>1, WorkFrame
    <3> QED
      BY <1>0, <3>2, <3>3, Places DEF Roll, Planned
  <2> QED
    BY <2>1, <2>2, <2>3
<1> QED
  BY <1>0, <1>1, OtherRoll DEF Next

\* A rollback is behind its deployment at any time.
LEMMA RollAlways ==
  ASSUME Patient
  PROVE  Spec => [](TypeInv /\ RowInv /\ BatchInv /\ RollInv)
<1>1. Init => TypeInv /\ RowInv /\ BatchInv /\ RollInv
  BY InitType, InitRow, InitBatch, InitRoll
<1>2. TypeInv /\ RowInv /\ BatchInv /\ RollInv /\ [Next]_vars
        => (TypeInv /\ RowInv /\ BatchInv /\ RollInv)'
  BY NextType, NextRow, NextBatch, NextRoll
<1> QED
  BY <1>1, <1>2, PTL DEF Spec

\* Where users wait for the deployment, a rollback that succeeds has gone over
\* every batch of it that was begun.
THEOREM RollbacksCover ==
  ASSUME Patient
  PROVE  Spec => []RollbackCovers
<1>1. TypeInv /\ RowInv /\ BatchInv /\ RollInv => RollbackCovers
  <2> SUFFICES ASSUME TypeInv, BatchInv, RollInv, NEW u \in Uuids,
                      pc[Back(u)] # "none", status[Back(u)] = "success",
                      NEW i \in Indices, <<Forth(u), i>> \in made
               PROVE  \E k \in 1..Len(plan[Back(u)]) : plan[Back(u)][k] = i
    BY DEF RollbackCovers, Back, Forth
  <2>1. \E n \in Posts : req[<<Forth(u), i>>][n] # "idle"
    BY DEF BatchInv
  <2> QED
    BY <2>1 DEF RollInv, Roll, Planned
<1> QED
  BY <1>1, RollAlways, PTL

\* Where users wait for the deployment, a refused one is not rolled back.
THEOREM RefusalsStand ==
  ASSUME Patient
  PROVE  Spec => RefusedNotRolledBack
<1>1. TypeInv /\ RowInv /\ BatchInv /\ RollInv /\ [Next]_vars =>
        [\A u \in Uuids : status[<<u, "deploy">>] = "refuse" =>
           \A i \in Indices : LET b == <<<<u, "rollback">>, i>>
                              IN  b \in made' => b \in made]_vars
  <2> SUFFICES ASSUME TypeInv, RollInv, Next,
                      NEW u \in Uuids, status[Forth(u)] = "refuse",
                      NEW i \in Indices, <<Back(u), i>> \in made'
               PROVE  <<Back(u), i>> \in made
    BY DEF Back, Forth
  <2>1. \A n \in Posts : req[<<Back(u), i>>][n] = "idle"
    BY DEF RollInv, Roll
  <2>2. CASE made' = made
    BY <2>2
  <2>3. ASSUME NEW b \in Batches, NEW n \in Posts, Make(b, n)
        PROVE  made' = made \/ (b # <<Back(u), i>> /\ made' = made \cup {b})
    <3>1. req[b][n] # "idle" /\ (made' = made \/ made' = made \cup {b})
      BY <2>3 DEF Make
    <3> QED
      BY <2>1, <3>1
  <2>4. (\E b \in Batches, n \in Posts : Make(b, n)) \/ made' = made
    BY ZenonT(40)
    DEF Next, Work, Mishap, Claim, Load, CheckRefused, Plan, InsertRow, Take,
        Send, Sent, Poll, Result, Confirmed, Final, RecordVersion, Die,
        BatchDie, Crash, JobStep, Bury, BurySelect, BuryFail, BuryCheck,
        BuryDie, User, StopCancel, StopConfirm, StopKill, UserConfirm,
        Rollback, Age, jobVars
  <2> QED
    BY <2>2, <2>3, <2>4
<1> QED
  BY <1>1, RollAlways, PTL DEF Spec, RefusedNotRolledBack
-----------------------------------------------------------------------------
(***************************************************************************)
(* The turn of a batch, where JOB tasks are made by the command.           *)
(***************************************************************************)

\* The answer is that to the only request.
LEMMA OnlyAnswer ==
  ASSUME TypeInv, NEW b \in Batches, Asked(b)
  PROVE  /\ Answer(b) = IF req[b][1] = "idle" THEN "none" ELSE req[b][1]
         /\ 1 \in Posts
<1>1. 1 \in Posts
  BY ConstantsAssumption DEF Posts
<1>2. CASE req[b][1] = "idle"
  BY <1>1, <1>2 DEF Answer, Asked
<1>3. CASE req[b][1] # "idle"
  <2>1. {n \in Posts : req[b][n] # "idle"} = {1}
    BY <1>1, <1>3 DEF Asked
  <2>2. Max({1}) = 1
    BY DEF Max
  <2> QED
    BY <1>3, <2>1, <2>2 DEF Answer
<1> QED
  BY <1>1, <1>2, <1>3

\* The JOB task that a worker waits for is there.
LEMMA SentMade ==
  ASSUME TypeInv, NEW t \in Tasks, Asked(<<t, idx[t]>>),
         Answer(<<t, idx[t]>>) = "ok"
  PROVE  <<t, idx[t]>> \in made
<1>1. <<t, idx[t]>> \in Batches
  BY DEF TypeInv, TypeOK, Batches
<1> QED
  BY <1>1, OnlyAnswer DEF Asked

\* A worker asks once.
LEMMA WorkAsked ==
  ASSUME ~Api, TypeInv, NEW t \in Tasks, NEW b \in Batches, Asked(b),
         Work(t) \/ Mishap(t), made' = made
  PROVE  Asked(b)'
<1>1. CASE req' = req
  BY <1>1 DEF Asked
<1>2. CASE Send(t)
  <2>1. /\ \A m \in Posts : req[<<t, idx[t]>>][m] = "idle" <=> m >= 1
        /\ req' = [req EXCEPT ![<<t, idx[t]>>][1] = "insert"]
    BY <1>2 DEF Send
  <2>2. /\ req \in [Batches ->
                      [Posts -> {"idle", "select", "insert", "ok", "no"}]]
        /\ 1 \in Posts
    BY OnlyAnswer DEF TypeInv, TypeOK
  <2>3. CASE b = <<t, idx[t]>>
    <3>1. req[b][1] = "idle"
      BY <2>1, <2>2, <2>3
    <3>2. req'[b] = [req[b] EXCEPT ![1] = "insert"]
      BY <2>1, <2>2, <2>3
    <3> QED
      BY <2>2, <3>1, <3>2 DEF Asked
  <2>4. CASE b # <<t, idx[t]>>
    <3>1. req'[b] = req[b]
      BY <2>1, <2>2, <2>4
    <3> QED
      BY <3>1 DEF Asked
  <2> QED
    BY <2>3, <2>4
<1>3. ~Send(t) => req' = req
  BY DEF Work, Mishap, Claim, Load, CheckRefused, Plan, InsertRow, Take,
         Sent, Poll, Result, Confirmed, Final, RecordVersion, Die, BatchDie,
         Crash
<1> QED
  BY <1>1, <1>2, <1>3

\* A batch is over and the worker goes on.
LEMMA ReturnTurn ==
  ASSUME TypeInv, BatchInv, NEW t \in Tasks, Turn(t), pc[t] \in InBatch,
         NEW s \in BatchEnded, Return(t, s), UNCHANGED <<made, jphase>>,
         \A i \in Indices : i # idx[t] => /\ bstat'[t][i] = bstat[t][i]
                                          /\ confirm'[t][i] = confirm[t][i],
         s \in {"success", "fail"} =>
           \A i \in Indices : i = idx[t] => Done(t, i)',
         bstat'[t][idx[t]] \in Ended =>
           /\ <<t, idx[t]>> \in made
           /\ jphase[<<t, idx[t]>>] \in {bstat'[t][idx[t]], "fail"}
  PROVE  Turn(t)'
<1>0. idx[t] \in Indices
  BY DEF TypeInv, TypeOK
<1>1. \/ /\ pc'[t] = "take" /\ s \in {"success", "fail"}
         /\ idx'[t] = idx[t] + 1
      \/ pc'[t] = "final" /\ idx'[t] = idx[t]
  BY ReturnIs
<1>2. /\ \A i \in Indices : i < idx[t] => Done(t, i)'
      /\ \A i \in Indices : i > idx[t] => ~Begun(t, i)'
  BY <1>0 DEF Turn, Done, BatchInv, Begun, Indices
<1>3. \A i, j \in Indices : i < j /\ Begun(t, j)' => Done(t, i)'
  BY <1>0, <1>2 DEF Indices
<1>4. pc'[t] = "take" => \A i \in Indices : i < idx'[t] => Done(t, i)'
  BY <1>0, <1>1, <1>2 DEF Indices
<1>5. \A i \in Indices : bstat'[t][i] \in Ended =>
        /\ <<t, i>> \in made
        /\ jphase[<<t, i>>] \in {bstat'[t][i], "fail"}
  BY DEF Turn
<1> QED
  BY <1>1, <1>3, <1>4, <1>5, Places DEF Turn

\* The worker of a task goes on.
LEMMA WorkTurn ==
  ASSUME ~Api, TypeInv, BatchInv, NEW t \in Tasks, Turn(t),
         Asked(<<t, idx[t]>>), Work(t) \/ Mishap(t), UNCHANGED <<made, jphase>>
  PROVE  Turn(t)'
<1> USE DEF rowVars, procVars, Goto, SetBatch
<1>0. /\ pc \in [Tasks -> Alive \cup {"none", "dead"}]
      /\ idx[t] \in Indices /\ 1..Len(plan[t]) \subseteq Indices
      /\ bstat \in [Tasks -> [Indices -> {"none", "init", "running"}
                                         \cup BatchEnded]]
      /\ confirm \in [Tasks -> [Indices -> {"null", "wait", "stop"}]]
      /\ got \in [Tasks -> {"none"} \cup Ended]
      /\ "fail" \in BatchEnded /\ Ended \subseteq BatchEnded
  BY ConstantsAssumption DEF TypeInv, TypeOK, Indices, BatchEnded, Ended
\* The worker leaves its batches or has not come to them.
<1>1. ASSUME UNCHANGED <<bstat, confirm>>,
             \/ pc'[t] \notin InBatch
             \/ pc'[t] = "take" /\ idx'[t] = 1
      PROVE  Turn(t)'
  BY <1>1, Places DEF Turn, Done, Begun, Indices
<1>2. CASE \/ Claim(t) \/ Load(t) \/ CheckRefused(t) \/ Plan(t) \/ Die(t)
           \/ Final(t) \/ RecordVersion(t) \/ Crash(t) \/ BatchDie(t)
  <2>1. UNCHANGED <<bstat, confirm>>
    BY <1>2
    DEF Claim, Load, CheckRefused, Plan, Die, Final, RecordVersion, Crash,
        BatchDie
  <2>2. pc'[t] \notin InBatch
    BY <1>0, <1>2, Places
    DEF Claim, Load, CheckRefused, Plan, Die, Final, RecordVersion, Crash,
        BatchDie
  <2> QED
    BY <1>1, <2>1, <2>2
<1>3. CASE InsertRow(t)
  <2>1. /\ pc[t] = "rows" /\ UNCHANGED <<idx, confirm>> /\ idx[t] = 1
        /\ \A i \in Indices : ~Begun(t, i)
    BY <1>3, Places DEF InsertRow, TypeInv, PlaceInv, BatchInv
  <2>2. CASE bstat' = bstat
    <3>1. pc'[t] \notin InBatch \/ pc'[t] = "take"
      BY <1>0, <1>3, <2>1, Places DEF InsertRow
    <3> QED
      BY <1>1, <2>1, <2>2, <3>1
  <2>3. CASE /\ pc' = pc
             /\ \E i \in 1..Len(plan[t]) :
                  bstat' = [bstat EXCEPT ![t][i] = "init"]
    <3>1. \A i \in Indices : ~Begun(t, i)'
      BY <1>0, <2>1, <2>3 DEF Begun
    <3>2. \A i \in Indices : bstat'[t][i] \notin Ended
      BY <3>1, Places DEF Begun
    <3> QED
      BY <2>1, <2>3, <3>1, <3>2, Places DEF Turn
  <2> QED
    BY <1>3, <2>2, <2>3 DEF InsertRow
<1>4. CASE Take(t)
  <2>0. /\ pc[t] = "take" /\ pc[t] \in InBatch /\ UNCHANGED confirm
        /\ ~Begun(t, idx[t])
    BY <1>4, Places DEF Take, BatchInv
  <2>1. CASE bstat[t][idx[t]] \in BatchEnded /\ Return(t, bstat[t][idx[t]])
             /\ UNCHANGED bstat
    <3>1. bstat[t][idx[t]] = "cancel"
      BY <2>0, <2>1, Places DEF Begun, BatchEnded
    <3>2. pc'[t] = "final"
      BY <1>0, <2>1, <3>1 DEF Return, Stops
    <3> QED
      BY <1>1, <2>0, <2>1, <3>2, Places
  <2>2. CASE /\ bstat' = [bstat EXCEPT ![t][idx[t]] = "running"]
             /\ pc' = [pc EXCEPT ![t] = "post"] /\ UNCHANGED <<idx, verdict>>
    <3>1. /\ pc'[t] = "post" /\ bstat'[t][idx[t]] = "running"
          /\ \A i \in Indices : i # idx[t] => bstat'[t][i] = bstat[t][i]
      BY <1>0, <2>2
    <3>2. \A i \in Indices : i < idx[t] => Done(t, i)'
      BY <1>0, <2>0, <3>1 DEF Turn, Done, Indices
    <3>3. \A i \in Indices : i > idx[t] => ~Begun(t, i)'
      BY <1>0, <2>0, <3>1 DEF BatchInv, Begun, Indices
    <3>4. \A i, j \in Indices : i < j /\ Begun(t, j)' => Done(t, i)'
      BY <1>0, <3>2, <3>3 DEF Indices
    <3>5. \A i \in Indices : bstat'[t][i] \in Ended =>
            /\ <<t, i>> \in made
            /\ jphase[<<t, i>>] \in {bstat'[t][i], "fail"}
      BY <3>1, Places DEF Turn
    <3> QED
      BY <2>2, <3>1, <3>2, <3>4, <3>5, Places DEF Turn
  <2> QED
    BY <1>4, <2>1, <2>2 DEF Take
<1>5. CASE Send(t)
  <2>1. UNCHANGED <<pc, bstat, confirm, idx, got>>
    BY <1>5 DEF Send
  <2> QED
    BY <2>1 DEF Turn, Done, Begun
<1>6. CASE Sent(t)
  <2>1. pc[t] = "post" /\ pc[t] \in InBatch
    BY <1>6, Places DEF Sent
  <2>2. CASE /\ pc' = [pc EXCEPT ![t] = "poll"] /\ Answer(<<t, idx[t]>>) = "ok"
             /\ UNCHANGED <<bstat, confirm, idx>>
    <3>1. <<t, idx[t]>> \in made
      BY <2>2, SentMade
    <3> QED
      BY <1>0, <2>1, <2>2, <3>1, Places DEF Turn, Done, Begun
  <2>3. CASE pc' = [pc EXCEPT ![t] = "final"] /\ UNCHANGED <<bstat, confirm>>
    BY <1>0, <1>1, <2>3, Places
  <2> QED
    BY <1>6, <2>2, <2>3 DEF Sent
<1>7. CASE Poll(t)
  <2>1. /\ pc[t] = "poll" /\ pc'[t] = "result"
        /\ got'[t] = jphase[<<t, idx[t]>>]
        /\ UNCHANGED <<bstat, confirm, idx>>
    BY <1>0, <1>7 DEF Poll
  <2> QED
    BY <2>1, Places DEF Turn, Done, Begun
<1>8. CASE Result(t)
  <2>0. /\ pc[t] = "result" /\ pc[t] \in InBatch
        /\ got[t] \in Ended
        /\ <<t, idx[t]>> \in made
        /\ jphase[<<t, idx[t]>>] \in {got[t], "fail"}
    BY <1>8, Places DEF Result, TypeInv, PlaceInv, Turn
  <2>1. /\ bstat'[t][idx[t]] = got[t]
        /\ got[t] = "fail" => confirm'[t][idx[t]] = "wait"
        /\ \A i \in Indices : i # idx[t] => /\ bstat'[t][i] = bstat[t][i]
                                            /\ confirm'[t][i] = confirm[t][i]
    BY <1>0, <1>8, <2>0 DEF Result
  <2>2. CASE got[t] = "fail"
    <3>1. \/ pc'[t] = "final"
          \/ pc'[t] = "confirm" /\ idx'[t] = idx[t]
      BY <1>0, <1>8, <2>2 DEF Result
    <3>2. /\ \A i \in Indices : i < idx[t] => Done(t, i)'
          /\ \A i \in Indices : i > idx[t] => ~Begun(t, i)'
      <4>1. \A i \in Indices : i < idx[t] => Done(t, i)
        BY <2>0 DEF Turn
      <4>2. \A i \in Indices : i > idx[t] => ~Begun(t, i)
        BY <2>0 DEF BatchInv
      <4>3. \A i \in Indices : i < idx[t] \/ i > idx[t] => i # idx[t]
        BY <1>0 DEF Indices
      <4> QED
        BY <2>1, <4>1, <4>2, <4>3 DEF Done, Begun
    <3>3. \A i, j \in Indices : i < j /\ Begun(t, j)' => Done(t, i)'
      BY <1>0, <3>2 DEF Indices
    <3>4. \A i \in Indices : bstat'[t][i] \in Ended =>
            /\ <<t, i>> \in made
            /\ jphase[<<t, i>>] \in {bstat'[t][i], "fail"}
      BY <2>0, <2>1 DEF Turn
    <3> QED
      BY <2>0, <2>1, <2>2, <3>1, <3>2, <3>3, <3>4, Places DEF Turn
  <2>3. CASE got[t] # "fail"
    <3>1. Return(t, got[t]) /\ got[t] \in BatchEnded
      BY <1>0, <1>8, <2>0, <2>3 DEF Result
    <3>2. got[t] \in {"success", "fail"} =>
            \A i \in Indices : i = idx[t] => Done(t, i)'
      BY <2>0, <2>1, <2>3, Places DEF Done
    <3> QED
      BY <2>0, <2>1, <3>1, <3>2, ReturnTurn
  <2> QED
    BY <2>2, <2>3
<1>9. CASE Confirmed(t)
  <2>1. /\ pc[t] = "confirm" /\ pc[t] \in InBatch /\ Return(t, "fail")
        /\ confirm[t][idx[t]] = "stop" /\ bstat[t][idx[t]] = "fail"
        /\ UNCHANGED <<bstat, confirm>>
    BY <1>0, <1>9, Places DEF Confirmed, BatchInv, Turn
  <2>2. \A i \in Indices : i = idx[t] => Done(t, i)'
    BY <1>0, <2>1, Places DEF Turn, Done
  <2> QED
    BY <1>0, <2>1, <2>2, ReturnTurn DEF Turn
<1> QED
  BY <1>2, <1>3, <1>4, <1>5, <1>6, <1>7, <1>8, <1>9 DEF Work, Mishap

\* What is over stays so: results, confirmations and JOB tasks.
LEMMA TurnStays ==
  ASSUME NEW t \in Tasks, Turn(t), UNCHANGED <<pc, idx, got>>,
         \A i \in Indices :
           /\ \/ bstat'[t][i] = bstat[t][i]
              \/ bstat[t][i] = "init" /\ bstat'[t][i] = "cancel"
           /\ confirm'[t][i] = confirm[t][i] \/ confirm'[t][i] = "stop",
         made \subseteq made',
         \A i \in Indices : jphase[<<t, i>>] \in Ended =>
                              jphase'[<<t, i>>] \in {jphase[<<t, i>>], "fail"},
         idx[t] \in Indices, got[t] \in {"none"} \cup Ended,
         pc[t] = "result" => got[t] \in Ended
  PROVE  Turn(t)'
<1>1. \A i \in Indices : Done(t, i) => Done(t, i)'
  BY Places DEF Done
<1>2. \A i \in Indices : Begun(t, i)' => Begun(t, i)
  BY DEF Begun
<1>3. \A i \in Indices : bstat'[t][i] \in Ended =>
        /\ <<t, i>> \in made'
        /\ jphase'[<<t, i>>] \in {bstat'[t][i], "fail"}
  BY Places DEF Turn
<1>4. pc[t] = "result" => jphase'[<<t, idx[t]>>] \in {got[t], "fail"}
  BY Places DEF Turn
<1>5. pc[t] = "confirm" => confirm'[t][idx[t]] # "null"
  BY DEF Turn
<1> QED
  BY <1>1, <1>2, <1>3, <1>4, <1>5 DEF Turn

\* Users, requests, JOB, bury and time.
LEMMA OtherTurn ==
  ASSUME ~Api, TypeInv, TurnInv,
         \/ User \/ Bury \/ BuryDie \/ UNCHANGED vars
         \/ \E u \in Uuids : Age(u)
         \/ \E b \in Batches : JobStep(b) \/ \E n \in Posts : Make(b, n)
  PROVE  TurnInv'
<1> USE DEF rowVars, procVars, jobVars, buryVars
<1>0. /\ pc \in [Tasks -> Alive \cup {"none", "dead"}]
      /\ bstat \in [Tasks -> [Indices -> {"none", "init", "running"}
                                         \cup BatchEnded]]
      /\ confirm \in [Tasks -> [Indices -> {"null", "wait", "stop"}]]
      /\ req \in [Batches ->
                    [Posts -> {"idle", "select", "insert", "ok", "no"}]]
      /\ \A t \in Tasks : /\ idx[t] \in Indices
                          /\ got[t] \in {"none"} \cup Ended
                          /\ pc[t] = "result" => got[t] \in Ended
                          /\ Turn(t)
      /\ \A t \in Tasks, i \in Indices : <<t, i>> \in Batches
      /\ \A b \in Batches : Asked(b)
  BY DEF TypeInv, TypeOK, PlaceInv, TurnInv, Batches
<1>1. CASE UNCHANGED <<req, made, pc, idx, got, bstat, confirm, jphase>>
  BY <1>1 DEF TurnInv, Turn, Asked, Done, Begun
<1>2. ASSUME NEW x \in Tasks, BuryCheck(x) PROVE TurnInv'
  <2>1. /\ UNCHANGED <<req, made, idx, got, bstat, confirm, jphase>>
        /\ \/ pc' = pc
           \/ /\ pc[x] \in Alive /\ pc' = [pc EXCEPT ![x] = "dead"]
    BY <1>2 DEF BuryCheck, Goto
  <2>2. \A t \in Tasks : pc'[t] = pc[t] \/ pc'[t] = "dead"
    BY <1>0, <2>1
  <2>3. \A b \in Batches : Asked(b)'
    BY <1>0, <2>1 DEF Asked
  <2>4. \A t \in Tasks : Turn(t)'
    BY <1>0, <2>1, <2>2, Places DEF Turn, Done, Begun
  <2> QED
    BY <2>3, <2>4 DEF TurnInv
\* A batch, its confirmation or its JOB task changes.
<1>3. ASSUME UNCHANGED <<pc, idx, got>>, \A b \in Batches : Asked(b)',
             \A t \in Tasks, i \in Indices :
               /\ \/ bstat'[t][i] = bstat[t][i]
                  \/ bstat[t][i] = "init" /\ bstat'[t][i] = "cancel"
               /\ \/ confirm'[t][i] = confirm[t][i]
                  \/ confirm'[t][i] = "stop",
             made \subseteq made',
             \A b \in Batches : jphase[b] \in Ended =>
                                  jphase'[b] \in {jphase[b], "fail"}
      PROVE  TurnInv'
  <2>1. ASSUME NEW t \in Tasks PROVE Turn(t)'
    <3>1. \A i \in Indices : jphase[<<t, i>>] \in Ended =>
            jphase'[<<t, i>>] \in {jphase[<<t, i>>], "fail"}
      BY <1>0, <1>3
    <3>2. /\ Turn(t) /\ idx[t] \in Indices
          /\ got[t] \in {"none"} \cup Ended
          /\ pc[t] = "result" => got[t] \in Ended
      BY <1>0
    <3>3. \A i \in Indices :
            /\ \/ bstat'[t][i] = bstat[t][i]
               \/ bstat[t][i] = "init" /\ bstat'[t][i] = "cancel"
            /\ confirm'[t][i] = confirm[t][i] \/ confirm'[t][i] = "stop"
      BY <1>3
    <3>4. UNCHANGED <<pc, idx, got>> /\ made \subseteq made'
      BY <1>3
    <3> QED
      BY <3>1, <3>2, <3>3, <3>4, TurnStays
  <2> QED
    BY <1>3, <2>1 DEF TurnInv
<1>4. ASSUME UNCHANGED <<req, made>>
      PROVE  \A b \in Batches : Asked(b)'
  BY <1>0, <1>4 DEF Asked
<1>5. ASSUME NEW x \in Tasks, StopCancel(x) PROVE TurnInv'
  <2>1. /\ UNCHANGED <<pc, idx, got, confirm, req, made, jphase>>
        /\ \A t \in Tasks, i \in Indices :
             \/ bstat'[t][i] = bstat[t][i]
             \/ bstat[t][i] = "init" /\ bstat'[t][i] = "cancel"
    BY <1>5 DEF StopCancel
  <2> QED
    BY <1>3, <1>4, <2>1
<1>6. ASSUME NEW x \in Tasks,
             StopConfirm(x) \/ \E i \in Indices : UserConfirm(x, i)
      PROVE  TurnInv'
  <2>1. UNCHANGED <<pc, idx, got, bstat, req, made, jphase>>
    BY <1>6 DEF StopConfirm, UserConfirm
  <2>2. \A t \in Tasks, i \in Indices :
          confirm'[t][i] = confirm[t][i] \/ confirm'[t][i] = "stop"
    <3>1. CASE StopConfirm(x)
      BY <3>1 DEF StopConfirm
    <3>2. ASSUME NEW i \in Indices, UserConfirm(x, i)
          PROVE  \A t \in Tasks, j \in Indices :
                   confirm'[t][j] = confirm[t][j] \/ confirm'[t][j] = "stop"
      BY <1>0, <3>2 DEF UserConfirm
    <3> QED
      BY <1>6, <3>1, <3>2
  <2> QED
    BY <1>3, <1>4, <2>1, <2>2
<1>7. ASSUME NEW x \in Tasks, StopKill(x) PROVE TurnInv'
  <2>1. UNCHANGED <<pc, idx, got, bstat, confirm, req, made>>
    BY <1>7 DEF StopKill
  <2>2. jphase' = jphase
    BY <1>7 DEF StopKill, Job!Vanish
  <2> QED
    BY <1>1, <2>1, <2>2
<1>8. ASSUME NEW b \in Batches, JobStep(b) PROVE TurnInv'
  <2>1. UNCHANGED <<pc, idx, got, bstat, confirm, req, made>>
    BY <1>8 DEF JobStep
  <2>2. \A a \in Batches : jphase[a] \in Ended =>
                             jphase'[a] \in {jphase[a], "fail"}
    BY <1>8, JobIs DEF JobStep, JobSteps, TypeInv
  <2> QED
    BY <1>3, <1>4, <2>1, <2>2
<1>9. ASSUME NEW b \in Batches, NEW n \in Posts, Make(b, n) PROVE TurnInv'
  <2>1. UNCHANGED <<pc, idx, got, bstat, confirm, jphase>>
    BY <1>9 DEF Make
  <2>2. req[b][n] = "insert" /\ n = 1 /\ 1 \in Posts
    BY <1>0, <1>9 DEF Make, Asked
  <2>3. \/ /\ made' = made \cup {b}
           /\ \E a \in {"ok", "no"} : req' = [req EXCEPT ![b][1] = a]
        \/ /\ made' = made /\ req' = [req EXCEPT ![b][1] = "no"]
    BY <1>9, <2>2 DEF Make
  <2>4. ASSUME NEW a \in Batches PROVE Asked(a)'
    <3>1. CASE a # b
      <4>1. req'[a] = req[a] /\ (a \in made' <=> a \in made)
        BY <1>0, <2>3, <3>1
      <4> QED
        BY <1>0, <4>1 DEF Asked
    <3>2. CASE a = b
      <4>1. /\ \A m \in Posts : m # 1 => req'[b][m] = req[b][m]
            /\ req'[b][1] \in {"ok", "no"}
            /\ req'[b][1] = "ok" => b \in made'
        BY <1>0, <2>2, <2>3
      <4> QED
        BY <1>0, <3>2, <4>1 DEF Asked
    <3> QED
      BY <3>1, <3>2
  <2>5. made \subseteq made'
    BY <2>3
  <2> QED
    BY <1>3, <2>1, <2>4, <2>5
<1> QED
  <2>1. ASSUME \/ UNCHANGED vars \/ BurySelect \/ BuryDie \/ BuryFail
               \/ \E u \in Uuids : Age(u) \/ Rollback(u)
        PROVE  UNCHANGED <<req, made, pc, idx, got, bstat, confirm, jphase>>
    BY <2>1 DEF Age, Rollback, BurySelect, BuryDie, BuryFail, vars
  <2> QED
    BY <1>1, <1>2, <1>5, <1>6, <1>7, <1>8, <1>9, <2>1 DEF User, Bury

\* At first nothing was asked of JOB.
LEMMA InitTurn == Init => TurnInv
<1> SUFFICES ASSUME Init PROVE TurnInv
  OBVIOUS
<1>1. 1 \in Posts
  BY ConstantsAssumption DEF Posts
<1>2. \A b \in Batches : Asked(b)
  BY <1>1 DEF Init, Asked
<1>3. \A t \in Tasks : Turn(t)
  BY Places DEF Init, Turn, Begun
<1> QED
  BY <1>2, <1>3 DEF TurnInv

\* Every step keeps the turn of the batches.
LEMMA NextTurn ==
  ASSUME ~Api
  PROVE  TypeInv /\ RowInv /\ BatchInv /\ TurnInv /\ [Next]_vars => TurnInv'
<1> SUFFICES ASSUME TypeInv, RowInv, BatchInv, TurnInv, [Next]_vars
             PROVE  TurnInv'
  OBVIOUS
<1>1. ASSUME NEW x \in Tasks, Work(x) \/ Mishap(x) PROVE TurnInv'
  <2>1. UNCHANGED <<made, jphase>>
    BY <1>1, WorkFrame
  <2>2. ASSUME NEW b \in Batches PROVE Asked(b)'
    BY <1>1, <2>1, WorkAsked DEF TurnInv
  <2>3. ASSUME NEW t \in Tasks PROVE Turn(t)'
    <3>1. CASE t = x
      <4>1. Turn(t) /\ Asked(<<t, idx[t]>>)
        BY DEF TurnInv, TypeInv, TypeOK, Batches
      <4> QED
        BY <1>1, <2>1, <3>1, <4>1, WorkTurn
    <3>2. CASE t # x
      <4>1. /\ pc'[t] = pc[t] /\ idx'[t] = idx[t] /\ got'[t] = got[t]
            /\ bstat'[t] = bstat[t] /\ confirm'[t] = confirm[t]
        BY <1>1, <3>2, WorkFrame
      <4> QED
        BY <2>1, <4>1 DEF TurnInv, Turn, Done, Begun
    <3> QED
      BY <3>1, <3>2
  <2> QED
    BY <2>2, <2>3 DEF TurnInv
<1> QED
  BY <1>1, OtherTurn DEF Next

\* The turn is kept at any time.
LEMMA TurnAlways ==
  ASSUME ~Api
  PROVE  Spec => [](TypeInv /\ RowInv /\ BatchInv /\ TurnInv)
<1>1. Init => TypeInv /\ RowInv /\ BatchInv /\ TurnInv
  BY InitType, InitRow, InitBatch, InitTurn
<1>2. TypeInv /\ RowInv /\ BatchInv /\ TurnInv /\ [Next]_vars
        => (TypeInv /\ RowInv /\ BatchInv /\ TurnInv)'
  BY NextType, NextRow, NextBatch, NextTurn
<1> QED
  BY <1>1, <1>2, PTL DEF Spec

\* Where JOB tasks are made by the command, the batches of a task are worked on
\* one after the other, and a failure is seen by a user before the next.
THEOREM TurnsKept ==
  ASSUME ~Api
  PROVE  Spec => []BatchesInTurn
<1>1. BatchInv /\ TurnInv => BatchesInTurn
  <2> SUFFICES ASSUME BatchInv, TurnInv, NEW t \in Tasks, NEW i \in Indices,
                      NEW j \in Indices, i < j, <<t, j>> \in made
               PROVE  Done(t, i)
    BY DEF BatchesInTurn, OneBatchAtATime, NextNeedsConfirm, Done
  <2>1. Begun(t, j)
    BY DEF BatchInv
  <2> QED
    BY <2>1 DEF TurnInv, Turn
<1> QED
  BY <1>1, TurnAlways, PTL

\* Where JOB tasks are made by the command, the results of batches and tasks say
\* what happened to the machines.
THEOREM ResultsHonest ==
  ASSUME ~Api
  PROVE  Spec => []VerdictHonest
<1>1. TurnInv => BatchHonest
  <2> SUFFICES ASSUME TurnInv, NEW t \in Tasks, NEW i \in Indices,
                      bstat[t][i] \in Ended
               PROVE  jphase[<<t, i>>] \in {bstat[t][i], "fail"}
    BY DEF BatchHonest, Ended
  <2> QED
    BY DEF TurnInv, Turn
<1>2. BatchHonest /\ ResultHonest => VerdictHonest
  BY DEF VerdictHonest
<1> QED
  BY <1>1, <1>2, TurnAlways, VerdictsHonest, PTL
=============================================================================
