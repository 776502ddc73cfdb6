--------------------------- MODULE TaskPageProofs ---------------------------
(***************************************************************************)
(* Proofs about TaskPage, for any number of requests and loops: a rollback *)
(* is asked for only when the deployment has ended, unless an answer has   *)
(* overtaken a newer one.                                                  *)
(***************************************************************************)
EXTENDS TaskPage, TLAPS

\* What the page shows, and what is on its way to it, was in the row once; a row
\* only gets on.
NotAhead ==
  \A s \in Sides :
    /\ Rank(detail[s]) <= Rank(phase[s])
    /\ \A v \in Seen : get[s][v] > 0 => Rank(v) <= Rank(phase[s])

\* The loop that will ask for a rollback began when the page showed a running
\* deployment, and nothing older is shown since.
LoopsBegan ==
  loops["rollbackJudge"] > 0 =>
    Rank(detail["deploy"]) >= Rank("running") \/ "deploy" \in late

Inv == TypeOK /\ NotAhead /\ LoopsBegan /\ RollbackAfterEnd

-----------------------------------------------------------------------------
(* Ranks.                                                                  *)

\* The states of a task in the order they are gone through.
LEMMA Ranks ==
  /\ Rank("none") = 0 /\ Rank("init") = 1 /\ Rank("running") = 2
  /\ \A v \in Ended : Rank(v) = 3
  /\ \A v \in Seen : Rank(v) \in 0..3 /\ (Rank(v) = 3 => v \in Ended)
BY DEF Rank, Seen, Statuses, Ended

\* A row only gets on.
LEMMA RowsGetOn ==
  ASSUME TypeOK, [Next]_vars
  PROVE  \A s \in Sides : Rank(phase[s]) <= Rank(phase'[s])
<1> USE Ranks DEF TypeOK
<1>1. ASSUME NEW s \in Sides, Engine(s)
      PROVE  \A r \in Sides : Rank(phase[r]) <= Rank(phase'[r])
  <2>1. CASE Rows!Take(s)
    BY <2>1 DEF Rows!Take, Seen, Statuses
  <2>2. CASE Rows!Finish(s)
    <3>1. PICK v \in Ended : phase' = [phase EXCEPT ![s] = v]
      BY <2>2 DEF Rows!Finish, Rows!Ended, Ended
    <3>2. Rank(v) = 3 /\ \A r \in Sides : Rank(phase[r]) \in 0..3
      OBVIOUS
    <3> QED
      BY <3>1, <3>2
  <2>3. CASE Rows!Bury(s)
    BY <2>3 DEF Rows!Bury, Ended, Seen, Statuses
  <2> QED
    BY <1>1, <2>1, <2>2, <2>3 DEF Engine
<1>2. ASSUME NEW c \in Controls, MayInsert, Insert(c)
      PROVE  \A r \in Sides : Rank(phase[r]) <= Rank(phase'[r])
  BY <1>2 DEF MayInsert, Insert, Sides, Seen, Statuses, Ended
<1>3. CASE UNCHANGED phase
  BY <1>3 DEF Seen, Statuses
<1> QED
  BY <1>1, <1>2, <1>3
  DEF Next, Server, Script, User, vars, rowVars, Put, OtherPut, PutFails,
      Serve, IsRollback, Asked, Answer, Tick, KillTick, Open, Judge, Leave,
      Refresh, Kill, Load

-----------------------------------------------------------------------------
(* The type.                                                               *)

\* Requests are counted.
LEMMA ReloadType ==
  ASSUME TypeOK, NEW s \in Sides, Reload(s)
  PROVE  get' \in [Sides -> [Gets -> Nat]]
BY DEF TypeOK, Reload, Gets, Seen, Statuses

\* Asking for a row keeps the types.
LEMMA AskType ==
  ASSUME TypeOK, NEW c \in Controls, Ask(c)
  PROVE  put' \in [Puts -> Nat]
BY DEF TypeOK, Ask, Puts, Controls

\* An answer that is loaded keeps the types.
LEMMA LoadType ==
  ASSUME NEW w \in {"open", "closed"}, Load(w)
  PROVE  /\ page' \in {"closed", "open", "left"}
         /\ exist' \in BOOLEAN /\ show' \in BOOLEAN
         /\ detail' \in [Sides -> Seen]
         /\ timer' \in [Sides -> BOOLEAN]
         /\ loops' \in [Kills -> Nat]
         /\ asked' \in BOOLEAN
         /\ get' \in [Sides -> [Gets -> Nat]]
         /\ put' \in [Puts -> Nat]
         /\ late' \subseteq Sides
BY DEF Load, Nothing, NoLoops, NoGets, NoPuts, Seen

\* The types hold when the page is opened.
LEMMA InitType == Init => TypeOK
<1> SUFFICES ASSUME Init PROVE TypeOK
  OBVIOUS
<1>1. /\ phase \in [Sides -> Seen]
      /\ hand \in [Sides -> {"none", "live", "gone"}]
      /\ detail \in [Sides -> Seen]
  BY DEF Init, Nothing, Seen, Statuses
<1>2. timer \in [Sides -> BOOLEAN]
  BY DEF Init
<1>3. /\ loops \in [Kills -> Nat]
      /\ get \in [Sides -> [Gets -> Nat]]
      /\ put \in [Puts -> Nat]
  BY DEF Init, NoLoops, NoGets, NoPuts
<1> QED
  BY <1>1, <1>2, <1>3 DEF Init, TypeOK

\* Every step keeps the types.
LEMMA NextType == TypeOK /\ [Next]_vars => TypeOK'
<1> SUFFICES ASSUME TypeOK, [Next]_vars PROVE TypeOK'
  OBVIOUS
<1> USE DEF TypeOK
<1>1. ASSUME NEW s \in Sides, Serve(s) PROVE TypeOK'
  BY <1>1 DEF Serve, rowVars, Gets, Seen
<1>2. ASSUME NEW s \in Sides, Engine(s) PROVE TypeOK'
  BY ZenonT(30), <1>2 DEF Engine, pageVars, Rows!Take, Rows!Finish, Rows!Bury,
     Rows!Ended, Seen, Statuses
<1>3. CASE Put
  <2>1. PICK c \in Controls :
          put[c] > 0 /\ Insert(c)
          /\ put' = [put EXCEPT ![c] = @ - 1, !["ok"] = @ + 1]
    BY <1>3 DEF Put
  <2>2. put' \in [Puts -> Nat]
    BY <2>1 DEF Puts, Controls
  <2>3. phase' \in [Sides -> Seen]
    BY <2>1 DEF Insert, Seen, Statuses
  <2> QED
    BY <1>3, <2>2, <2>3 DEF Put
<1>4. CASE OtherPut
  BY <1>4 DEF OtherPut, pageVars, Insert, Seen, Statuses
<1>5. CASE PutFails
  BY <1>5 DEF PutFails, rowVars
<1>6. CASE IsRollback
  BY <1>6, ReloadType DEF IsRollback, rowVars, Sides
<1>7. ASSUME NEW s \in Sides, Answer(s) PROVE TypeOK'
  <2>1. PICK v \in Seen :
          /\ get[s][v] > 0
          /\ get' = [get EXCEPT ![s][v] = @ - 1]
          /\ detail' = [detail EXCEPT ![s] = v]
    BY <1>7 DEF Answer
  <2>2. get' \in [Sides -> [Gets -> Nat]]
    <3>1. v \in Gets
      BY <2>1 DEF Gets
    <3> QED
      BY <2>1, <3>1
  <2>3. timer' \in [Sides -> BOOLEAN]
    <3>1. PICK w \in Seen : timer' = [timer EXCEPT ![s] = @ /\ ~Settles(w)]
      BY <1>7 DEF Answer
    <3> QED
      BY <3>1, Zenon
  <2>4. detail' \in [Sides -> Seen]
    BY <2>1
  <2>5. show' \in BOOLEAN /\ late' \subseteq Sides
    BY <1>7 DEF Answer
  <2> QED
    BY <1>7, <2>2, <2>3, <2>4, <2>5 DEF Answer, rowVars
<1>8. ASSUME NEW s \in Sides, Tick(s) \/ Refresh(s) PROVE TypeOK'
  BY <1>8, ReloadType DEF Tick, Refresh, rowVars
<1>9. ASSUME NEW k \in Kills, Kill(k) PROVE TypeOK'
  BY <1>9 DEF Kill, rowVars
<1>10. ASSUME NEW k \in Kills, KillTick(k) PROVE TypeOK'
  <2>1. get' \in [Sides -> [Gets -> Nat]]
    BY <1>10, ReloadType DEF KillTick, Again, Sides
  <2>2. put' \in [Puts -> Nat]
    BY <1>10, AskType DEF KillTick, Controls
  <2>3. loops' \in [Kills -> Nat]
    BY <1>10 DEF KillTick
  <2> QED
    BY <1>10, <2>1, <2>2, <2>3 DEF KillTick, rowVars
<1>11. CASE Judge
  BY <1>11, AskType DEF Judge, rowVars
<1>12. CASE Open
  BY <1>12, LoadType DEF Open, rowVars
<1>13. CASE Asked
  <2>1. PICK w \in {"open", "closed"} : Load(w)
    BY <1>13 DEF Asked
  <2> QED
    BY <1>13, <2>1, LoadType DEF Asked, rowVars
<1>14. CASE Leave
  <2>1. CASE Load("closed")
    BY <1>14, <2>1, LoadType DEF Leave, rowVars
  <2> QED
    BY <1>14, <2>1 DEF Leave, rowVars
<1>15. CASE UNCHANGED vars
  BY <1>15 DEF vars, rowVars
<1> QED
  BY <1>1, <1>2, <1>3, <1>4, <1>5, <1>6, <1>7, <1>8, <1>9, <1>10, <1>11,
     <1>12, <1>13, <1>14, <1>15 DEF Next, Server, Script, User

\* Every variable of the page and of the rows keeps its type.
THEOREM TypeCorrect == Spec => []TypeOK
<1>1. Init => TypeOK
  BY InitType
<1>2. TypeOK /\ [Next]_vars => TypeOK'
  BY NextType
<1> QED
  BY <1>1, <1>2, PTL DEF Spec

-----------------------------------------------------------------------------
(* Nothing runs ahead of the rows.                                         *)

\* No step lets an answer say more than the row did.
LEMMA NextNotAhead == Inv /\ [Next]_vars => NotAhead'
<1> SUFFICES ASSUME Inv, [Next]_vars,
                    NEW s \in Sides
             PROVE  /\ Rank(detail'[s]) <= Rank(phase'[s])
                    /\ \A v \in Seen :
                         get'[s][v] > 0 => Rank(v) <= Rank(phase'[s])
  BY DEF NotAhead
<1>0. /\ TypeOK /\ TypeOK' /\ NotAhead
      /\ Rank(phase[s]) <= Rank(phase'[s])
  BY RowsGetOn, NextType DEF Inv
<1>r. /\ \A v \in Seen : Rank(v) \in 0..3
      /\ phase[s] \in Seen /\ phase'[s] \in Seen
      /\ detail[s] \in Seen /\ detail'[s] \in Seen
  BY <1>0, Ranks DEF TypeOK
<1>1. CASE detail' = detail /\ \A v \in Seen : get'[s][v] <= get[s][v]
  <2>1. Rank(detail[s]) <= Rank(phase[s])
    BY <1>0 DEF NotAhead
  <2>2. ASSUME NEW v \in Seen, get'[s][v] > 0
        PROVE  Rank(v) <= Rank(phase'[s])
    <3>1. get[s][v] \in Nat /\ get'[s][v] \in Nat
      BY <1>0 DEF TypeOK, Gets
    <3>2. get[s][v] > 0
      BY <1>1, <2>2, <3>1
    <3>3. Rank(v) <= Rank(phase[s])
      BY <1>0, <3>2 DEF NotAhead
    <3> QED
      BY <1>0, <1>r, <3>3
  <2> QED
    BY <1>0, <1>1, <1>r, <2>1, <2>2
<1>2. ASSUME NEW w \in {"open", "closed"}, Load(w)
      PROVE  /\ Rank(detail'[s]) <= Rank(phase'[s])
             /\ \A v \in Seen : get'[s][v] > 0 => Rank(v) <= Rank(phase'[s])
  <2>1. detail'[s] = "none" /\ \A v \in Seen : get'[s][v] = 0
    BY <1>2 DEF Load, Nothing, NoGets, Gets
  <2> QED
    BY <2>1, <1>r, Ranks
<1>3. ASSUME NEW r \in Sides, Reload(r), detail' = detail
      PROVE  /\ Rank(detail'[s]) <= Rank(phase'[s])
             /\ \A v \in Seen : get'[s][v] > 0 => Rank(v) <= Rank(phase'[s])
  <2>1. \A v \in Seen : get'[s][v] = get[s][v]
    BY <1>0, <1>3 DEF Reload, TypeOK, Gets, Seen, Statuses
  <2> QED
    BY <1>1, <1>3, <2>1, <1>0 DEF TypeOK, Gets
<1>4. ASSUME NEW r \in Sides, Serve(r)
      PROVE  /\ Rank(detail'[s]) <= Rank(phase'[s])
             /\ \A v \in Seen : get'[s][v] > 0 => Rank(v) <= Rank(phase'[s])
  <2>1. \A v \in Seen : get'[s][v] <= get[s][v] \/ v = phase[s]
    BY <1>0, <1>4 DEF Serve, TypeOK, Gets, Seen, Statuses
  <2> QED
    BY <1>0, <1>4, <1>r, <2>1 DEF Serve, rowVars, NotAhead, TypeOK, Gets
<1>5. ASSUME NEW r \in Sides, Answer(r)
      PROVE  /\ Rank(detail'[s]) <= Rank(phase'[s])
             /\ \A v \in Seen : get'[s][v] > 0 => Rank(v) <= Rank(phase'[s])
  <2>1. PICK v \in Seen : /\ get[r][v] > 0
                          /\ get' = [get EXCEPT ![r][v] = @ - 1]
                          /\ detail' = [detail EXCEPT ![r] = v]
    BY <1>5 DEF Answer
  <2>2. \A w \in Seen : get'[s][w] <= get[s][w]
    BY <1>0, <2>1 DEF TypeOK, Gets
  <2>3. detail'[s] = detail[s] \/ (s = r /\ detail'[s] = v)
    BY <1>0, <2>1 DEF TypeOK
  <2>4. UNCHANGED phase
    BY <1>5 DEF Answer, rowVars
  <2> QED
    BY <1>0, <1>r, <2>1, <2>2, <2>3, <2>4 DEF NotAhead, TypeOK, Gets
<1> HIDE DEF Inv
<1>6. CASE UNCHANGED <<detail, get>>
  BY <1>1, <1>6, <1>0 DEF TypeOK, Gets
<1>7. CASE Server
  <2>1. CASE \E r \in Sides : Serve(r)
    BY <1>4, <2>1
  <2> QED
    BY <1>6, <1>7, <2>1 DEF Server, OtherPut, Put, PutFails, Engine, pageVars
<1>8. CASE Script
  <2>1. CASE IsRollback \/ \E r \in Sides : Tick(r)
    BY <1>3, <2>1 DEF IsRollback, Tick, Sides
  <2>2. CASE Asked
    BY <1>2, <2>2 DEF Asked
  <2>3. CASE \E k \in Kills : KillTick(k)
    BY <1>3, <2>3 DEF KillTick, Again, Sides
  <2> QED
    BY <1>5, <1>8, <2>1, <2>2, <2>3 DEF Script
<1>9. CASE User
  <2>1. CASE Open \/ (Leave /\ page' # "left")
    BY <1>2, <2>1 DEF Open, Leave
  <2>2. CASE Leave
    BY <1>2, <1>6, <2>2 DEF Leave
  <2>3. CASE \E r \in Sides : Refresh(r)
    BY <1>3, <2>3 DEF Refresh
  <2> QED
    BY <1>6, <1>9, <2>1, <2>2, <2>3 DEF User, Judge, Kill
<1> QED
  BY <1>6, <1>7, <1>8, <1>9 DEF Next, vars

-----------------------------------------------------------------------------
(* Loops and the rollback.                                                 *)

\* A loop that runs was begun for a reason that stays.
LEMMA NextLoops == Inv /\ [Next]_vars => LoopsBegan'
<1> SUFFICES ASSUME Inv, [Next]_vars, loops'["rollbackJudge"] > 0
             PROVE  Rank(detail'["deploy"]) >= 2 \/ "deploy" \in late'
  BY Ranks DEF LoopsBegan
<1>0. TypeOK /\ TypeOK' /\ LoopsBegan
  BY NextType DEF Inv
<1>r. /\ detail["deploy"] \in Seen /\ detail'["deploy"] \in Seen
      /\ \A v \in Seen : Rank(v) \in 0..3
      /\ Rank("running") = 2
  BY <1>0, Ranks DEF TypeOK, Sides
<1> HIDE DEF Inv
<1>1. CASE /\ loops'["rollbackJudge"] <= loops["rollbackJudge"]
           /\ UNCHANGED <<detail, late>>
  BY <1>0, <1>1, <1>r DEF LoopsBegan, TypeOK, Kills
<1>2. ASSUME NEW w \in {"open", "closed"}, Load(w) PROVE FALSE
  BY <1>2 DEF Load, NoLoops, Kills
<1>3. ASSUME NEW s \in Sides, Answer(s)
      PROVE  Rank(detail'["deploy"]) >= 2 \/ "deploy" \in late'
  <2>1. CASE s = "deploy"
    BY <1>0, <1>3, <1>r, <2>1 DEF Answer, LoopsBegan, TypeOK, Sides
  <2>2. CASE s # "deploy"
    BY <1>0, <1>3, <1>r, <2>2 DEF Answer, LoopsBegan, TypeOK, Sides
  <2> QED
    BY <2>1, <2>2
<1>4. ASSUME NEW k \in Kills, Kill(k)
      PROVE  Rank(detail'["deploy"]) >= 2 \/ "deploy" \in late'
  <2>1. CASE k = "rollbackJudge"
    BY <1>4, <1>r, <2>1 DEF Kill, Watched
  <2>2. CASE k # "rollbackJudge"
    BY <1>0, <1>1, <1>4, <2>2 DEF Kill, TypeOK, Kills
  <2> QED
    BY <2>1, <2>2
<1>5. ASSUME NEW k \in Kills, KillTick(k)
      PROVE  Rank(detail'["deploy"]) >= 2 \/ "deploy" \in late'
  BY <1>0, <1>1, <1>5 DEF KillTick, TypeOK, Kills
<1>6. CASE UNCHANGED <<loops, detail, late>>
  BY <1>0, <1>1, <1>6 DEF TypeOK, Kills
<1>7. CASE Server
  BY <1>6, <1>7
  DEF Server, OtherPut, Put, PutFails, Serve, Engine, pageVars
<1>8. CASE Script
  BY <1>2, <1>3, <1>5, <1>6, <1>8 DEF Script, IsRollback, Asked, Tick
<1>9. CASE User
  BY <1>2, <1>4, <1>6, <1>9 DEF User, Open, Judge, Leave, Refresh
<1> QED
  BY <1>6, <1>7, <1>8, <1>9 DEF Next, vars

\* What is shown as ended has ended; the loop waits for that, and so do the
\* buttons.
LEMMA NextRollback == Inv /\ [Next]_vars => RollbackAfterEnd'
<1> SUFFICES ASSUME Inv, [Next]_vars, NEW c \in Controls, put'[c] > 0,
                    "deploy" \notin late'
             PROVE  phase'["deploy"] \in Ended
  BY DEF RollbackAfterEnd
<1>0. /\ TypeOK /\ TypeOK' /\ LoopsBegan /\ NotAhead /\ RollbackAfterEnd
      /\ Rank(phase["deploy"]) <= Rank(phase'["deploy"])
  BY NextType, RowsGetOn DEF Inv, Sides
<1>r. /\ phase["deploy"] \in Seen /\ phase'["deploy"] \in Seen
      /\ detail["deploy"] \in Seen
  BY <1>0 DEF TypeOK, Sides
<1>s. phase["deploy"] \in Ended => phase'["deploy"] \in Ended
  BY <1>0, <1>r, Ranks
<1>d. detail["deploy"] \in Ended => phase["deploy"] \in Ended
  BY <1>0, <1>r, Ranks DEF NotAhead, Sides
<1> HIDE DEF Inv
<1>1. CASE put'[c] <= put[c] /\ late \subseteq late'
  BY <1>0, <1>1, <1>s DEF RollbackAfterEnd, TypeOK, Puts
<1>2. ASSUME NEW w \in {"open", "closed"}, Load(w) PROVE FALSE
  BY <1>2 DEF Load, NoPuts, Puts
<1>3. ASSUME NEW k \in Kills, KillTick(k) PROVE phase'["deploy"] \in Ended
  <2>1. CASE UNCHANGED put
    BY <1>0, <1>1, <1>3, <2>1 DEF KillTick, TypeOK, Puts
  <2>2. CASE ~UNCHANGED put
    <3>1. /\ loops["rollbackJudge"] > 0 /\ detail["deploy"] # "running"
          /\ "deploy" \notin late
      BY <1>3, <2>2 DEF KillTick, Over, Watched
    <3>2. Rank(detail["deploy"]) >= 2
      BY <1>0, <3>1, Ranks DEF LoopsBegan
    <3>3. detail["deploy"] \in Ended
      BY <1>r, <3>1, <3>2 DEF Rank, Seen, Statuses, Ended
    <3> QED
      BY <3>3, <1>d, <1>s
  <2> QED
    BY <2>1, <2>2
<1>4. CASE Judge
  BY <1>4, <1>d, <1>s DEF Judge, Ended
<1>5. CASE UNCHANGED put /\ late \subseteq late'
  BY <1>0, <1>1, <1>5 DEF TypeOK, Puts
<1>6. CASE Put \/ PutFails
  <2>1. put'[c] <= put[c]
    <3>1. CASE Put
      BY <1>0, <3>1 DEF Put, TypeOK, Puts, Controls
    <3>2. CASE PutFails
      BY <1>0, <3>2 DEF PutFails, TypeOK, Puts, Controls
    <3> QED
      BY <1>6, <3>1, <3>2
  <2> QED
    BY <1>1, <1>6, <2>1 DEF Put, PutFails
<1>7. CASE Server
  BY <1>5, <1>6, <1>7 DEF Server, OtherPut, Serve, Engine, pageVars
<1>8. CASE Script
  BY <1>2, <1>3, <1>5, <1>8 DEF Script, IsRollback, Asked, Tick, Answer
<1>9. CASE User
  BY <1>2, <1>4, <1>5, <1>9 DEF User, Open, Leave, Refresh, Kill
<1> QED
  BY <1>5, <1>7, <1>8, <1>9 DEF Next, vars

\* The invariant holds when the page is opened.
LEMMA InitInv == Init => Inv
<1> SUFFICES ASSUME Init PROVE Inv
  OBVIOUS
<1>1. TypeOK
  BY InitType
<1>2. NotAhead
  <2> SUFFICES ASSUME NEW s \in Sides
               PROVE  /\ Rank(detail[s]) <= Rank(phase[s])
                      /\ \A v \in Seen : get[s][v] = 0
    BY DEF NotAhead
  <2>1. detail[s] = "none" /\ phase[s] \in Seen
    BY <1>1 DEF Init, Nothing, TypeOK
  <2>2. \A v \in Seen : get[s][v] = 0
    BY DEF Init, NoGets, Gets
  <2> QED
    BY <2>1, <2>2, Ranks
<1>3. LoopsBegan /\ RollbackAfterEnd
  BY DEF Init, LoopsBegan, RollbackAfterEnd, NoLoops, NoPuts, Kills, Puts
<1> QED
  BY <1>1, <1>2, <1>3 DEF Inv

\* A rollback is asked for only when the deployment has ended, by a loop as by
\* a button, unless an answer overtook a newer one.
THEOREM RollbackWaits == Spec => []RollbackAfterEnd
<1>1. Init => Inv
  BY InitInv
<1>2. Inv /\ [Next]_vars => Inv'
  BY NextType, NextNotAhead, NextLoops, NextRollback DEF Inv
<1>3. Inv => RollbackAfterEnd
  BY DEF Inv
<1> QED
  BY <1>1, <1>2, <1>3, PTL DEF Spec
=============================================================================
