------------------------------ MODULE TaskPage ------------------------------
(***************************************************************************)
(* The page of a deployment and of its rollback,                           *)
(* c3-front/src/app/pages/history/jobx/detail/detail.controller.js: it     *)
(* reads the two rows again and again, and its buttons and the loops they  *)
(* start act on what it read last.  The requests of a page run side by     *)
(* side: they are served at any time after they are sent and answered in   *)
(* any order, or not at all.                                               *)
(*                                                                         *)
(* Of the engine (JOBX/code/task) this module takes what JobLifecycle      *)
(* promises.  What stopping does to it is JobxTask's subject: here a       *)
(* deployment may end at any time.  The lists of batches and of their      *)
(* steps, which the page reads along with the rows and only displays, are  *)
(* left out.                                                               *)
(***************************************************************************)
EXTENDS Integers, Functions

CONSTANTS
  Results,    \* the results a worker gives
  MaxGets,    \* how many requests for rows are on their way
  MaxPuts,    \* how many requests for a rollback are when a button is pressed
  MaxLoops    \* how many loops run: a button may be pressed again

ASSUME TaskPageAssumption ==
  /\ Results \subseteq {"success", "fail", "refuse"} /\ Results # {}
  /\ MaxGets \in Nat \ {0} /\ MaxPuts \in Nat \ {0} /\ MaxLoops \in Nat \ {0}

VARIABLES
  phase,    \* the status in the row of the deployment and of its rollback
  hand,     \* the worker of each: none yet, live or gone
  page,     \* closed, open, or left for another page
  exist,    \* vm.rollbackExist
  show,     \* vm.rollbackShow
  detail,   \* $scope.taskDetail and $scope.taskDetaiXl: the statuses shown
  timer,    \* the intervals F5 and FX5
  loops,    \* how many intervals Kill run, by the function that began them
  asked,    \* whether the request of isRollback is on its way
  get,      \* the requests for a row: how many are sent, or hold this answer
  put,      \* the same of the requests for a rollback
  late      \* rows of which an answer has overtaken a newer one

rowVars  == <<phase, hand>>
pageVars == <<page, exist, show, detail, timer, loops, asked, get, put,
              late>>
vars     == <<phase, hand, page, exist, show, detail, timer, loops, asked, get,
              put, late>>

Sides    == {"deploy", "rollback"}
Statuses == {"init", "running", "success", "fail", "refuse"}
Ended    == {"success", "fail", "refuse"}
Kills    == {"killTaskDeploy", "killTaskRollback", "rollbackJudge"}
Controls == {"rollback", "norollback"}

Seen     == Statuses \cup {"none"}
Gets     == Seen \cup {"sent"}
Puts     == Controls \cup {"ok"}

Rows == INSTANCE JobLifecycle WITH Tasks <- Sides

Nothing == [s \in Sides |-> "none"]
NoGets  == [s \in Sides |-> [v \in Gets |-> 0]]
NoPuts  == [v \in Puts |-> 0]
NoLoops == [k \in Kills |-> 0]

\* The deployment was made; its page is not open yet.
Init ==
  /\ phase = [Nothing EXCEPT !["deploy"] = "init"]
  /\ hand = Nothing
  /\ page = "closed" /\ exist = FALSE /\ show = FALSE
  /\ detail = Nothing
  /\ timer = [s \in Sides |-> FALSE]
  /\ loops = NoLoops
  /\ asked = FALSE /\ get = NoGets /\ put = NoPuts
  /\ late = {}

-----------------------------------------------------------------------------
(* The requests of the page and the server.                                *)

Total(q) == FoldFunction(LAMBDA m, n : m + n, 0, q)

\* vm.reload and vm.reloaXd.
Reload(s) ==
  /\ Total(get["deploy"]) + Total(get["rollback"]) < MaxGets
  /\ get' = [get EXCEPT ![s]["sent"] = @ + 1]

\* GET /task/:projectid/:uuid.  One that fails gives a message and changes
\* nothing: it is as one that never comes back.
Serve(s) ==
  /\ get[s]["sent"] > 0
  /\ get' = [get EXCEPT ![s]["sent"] = @ - 1, ![s][phase[s]] = @ + 1]
  /\ UNCHANGED <<rowVars, page, exist, show, detail, timer, loops, asked, put,
                 late>>

BadInsert(c) == phase' = [phase EXCEPT !["rollback"] = c]

\* The row of the rollback.  "norollback" makes it a success at once.
Insert(c) ==
  phase' = [phase EXCEPT !["rollback"] =
              IF c = "rollback" THEN "init" ELSE "success"]

\* A deployment that has no start time counts as one too old; a second row of
\* the same uuid is refused by the table.
MayInsert == phase["deploy"] # "init" /\ phase["rollback"] = "none"

\* PUT /task/:projectid/:uuid/:control.
Put ==
  \E c \in Controls :
    /\ put[c] > 0
    /\ MayInsert /\ Insert(c)
    /\ put' = [put EXCEPT ![c] = @ - 1, !["ok"] = @ + 1]
    /\ UNCHANGED <<hand, page, exist, show, detail, timer, loops, asked, get,
                   late>>

\* The same from somewhere else: another page of this deployment.
OtherPut ==
  \E c \in Controls :
    /\ MayInsert /\ Insert(c)
    /\ UNCHANGED <<hand, pageVars>>

\* The engine.  A deployment never waits; that a worker dies shows in the row
\* only when the row is failed.
Engine(s) ==
  /\ phase[s] # "none"
  /\ Rows!Take(s) \/ (Rows!Finish(s) /\ phase'[s] \in Results) \/ Rows!Bury(s)
  /\ UNCHANGED pageVars

-----------------------------------------------------------------------------
(* The page.                                                               *)

\* The window loads the page: isRollback sends its request.  Nothing is left of
\* what the window had before.
Load(where) ==
  /\ page' = where
  /\ exist' = FALSE /\ show' = FALSE /\ detail' = Nothing
  /\ timer' = [s \in Sides |-> where = "open"]
  /\ loops' = NoLoops
  /\ asked' = (where = "open")
  /\ get' = NoGets /\ put' = NoPuts
  /\ late' = {}

Open == page = "closed" /\ Load("open") /\ UNCHANGED rowVars

\* The answer to isRollback.  A rollback that is made while it is on its way is
\* as one that is made later.
IsRollback ==
  /\ asked
  /\ asked' = FALSE
  /\ exist' = (phase["rollback"] # "none")
  /\ Reload("deploy")
  /\ UNCHANGED <<rowVars, page, show, detail, timer, loops, put, late>>

\* How far a task has got, by its status.
Rank(v) == CASE v = "none" -> 0 [] v = "init" -> 1 [] v = "running" -> 2
             [] OTHER -> 3

BadSettles(v) == v # "running"

\* The interval is cancelled on this status.  A row that is not there is an
\* error before it comes to that.
Settles(v) == v \notin {"running", "init", "none"}

\* The answer to Reload(s).
Answer(s) ==
  \E v \in Seen :
    /\ get[s][v] > 0
    /\ get' = [get EXCEPT ![s][v] = @ - 1]
    /\ detail' = [detail EXCEPT ![s] = v]
    /\ timer' = [timer EXCEPT ![s] = @ /\ ~Settles(v)]
    /\ show' = IF s = "deploy" THEN ~exist ELSE show
    /\ late' = IF Rank(v) < Rank(detail[s]) THEN late \cup {s} ELSE late
    /\ UNCHANGED <<rowVars, page, exist, loops, asked, put>>

\* The version to go back to, and with it the panel of the rollback, is known
\* once the row of the deployment was read.
Panel(s) == s = "deploy" \/ detail["deploy"] # "none"

\* The intervals F5 and FX5, and the refresh buttons.
Tick(s) ==
  /\ timer[s] /\ Panel(s)
  /\ Reload(s)
  /\ UNCHANGED <<rowVars, page, exist, show, detail, timer, loops, asked,
                   put, late>>

Refresh(s) ==
  /\ page = "open" /\ Panel(s)
  /\ Reload(s)
  /\ UNCHANGED <<rowVars, page, exist, show, detail, timer, loops, asked,
                   put, late>>

\* The row an interval Kill looks at.
Watched(k) == IF k = "killTaskRollback" THEN "rollback" ELSE "deploy"

\* One of the buttons that stop a running task.  It sends the first DELETE.
Kill(k) ==
  /\ page = "open" /\ detail[Watched(k)] = "running"
  /\ k = "rollbackJudge" => show
  /\ Total(loops) < MaxLoops /\ Total(put) < MaxPuts
  /\ loops' = [loops EXCEPT ![k] = @ + 1]
  /\ UNCHANGED <<rowVars, page, exist, show, detail, timer, asked, get, put,
                 late>>

\* vm.rollback.
Ask(c) == put' = [put EXCEPT ![c] = @ + 1]

\* rollbackJudge for a deployment that is not running any more.
Judge ==
  \E c \in Controls :
    /\ page = "open" /\ show /\ detail["deploy"] \in {"success", "fail"}
    /\ Total(put) < MaxPuts
    /\ Ask(c)
    /\ UNCHANGED <<rowVars, page, exist, show, detail, timer, loops, asked,
                   get, late>>

BadOver(k) == TRUE

\* The task is over, as far as the page knows.
Over(k) == detail[Watched(k)] # "running"

BadAgain == UNCHANGED get

\* Every round of a Kill sends DELETE and reads the deployment again, also the
\* one that stops a rollback.
Again == Reload("deploy")

\* One round of an interval Kill.
KillTick(k) ==
  /\ loops[k] > 0
  /\ IF Over(k)
     THEN /\ loops' = [loops EXCEPT ![k] = @ - 1]
          /\ IF k = "rollbackJudge" THEN Ask("rollback") ELSE UNCHANGED put
     ELSE UNCHANGED <<loops, put>>
  /\ Again
  /\ UNCHANGED <<rowVars, page, exist, show, detail, timer, asked, late>>

\* A PUT has succeeded: the window is loaded again, whatever page it shows by
\* now.
Asked ==
  /\ put["ok"] > 0
  /\ Load(IF page = "open" THEN "open" ELSE "closed")
  /\ UNCHANGED rowVars

\* It is refused, or fails on its way, or its answer does: a message.
PutFails ==
  \E v \in Puts :
    /\ put[v] > 0
    /\ put' = [put EXCEPT ![v] = @ - 1]
    /\ UNCHANGED <<rowVars, page, exist, show, detail, timer, loops, asked,
                   get, late>>

\* The user goes to another page of the application: F5 and FX5 are cancelled,
\* the intervals Kill are not.  If there are none the page is as good as closed.
Leave ==
  /\ page = "open"
  /\ IF loops = NoLoops /\ put = NoPuts
     THEN Load("closed")
     ELSE /\ page' = "left"
          /\ timer' = [s \in Sides |-> FALSE]
          /\ exist' = FALSE /\ show' = FALSE
          /\ UNCHANGED <<detail, loops, asked, get, put, late>>
  /\ UNCHANGED rowVars

-----------------------------------------------------------------------------
Server == OtherPut \/ Put \/ PutFails \/ \E s \in Sides : Serve(s) \/ Engine(s)
Script == IsRollback \/ Asked \/ (\E s \in Sides : Answer(s) \/ Tick(s))
          \/ \E k \in Kills : KillTick(k)
User   == Open \/ Judge \/ Leave \/ (\E s \in Sides : Refresh(s))
          \/ \E k \in Kills : Kill(k)
Next == Server \/ Script \/ User

Spec == Init /\ [][Next]_vars

\* A task is taken and gets a result (TaskTaken and ClaimedEnds).  Intervals
\* fire again and again, and of the requests that are repeated not every one
\* fails.  That an interval waits for requests to come back is a bound of the
\* model, so its fairness is the strong one.
FairSpec ==
  /\ Spec
  /\ \A s \in Sides :
       /\ WF_vars(phase[s] \notin Ended /\ Engine(s))
       /\ WF_vars(Serve(s)) /\ WF_vars(Answer(s)) /\ SF_vars(Tick(s))
  /\ WF_vars(Put \/ Asked \/ PutFails)
  /\ SF_vars(\E k \in Kills : KillTick(k))

-----------------------------------------------------------------------------
TypeOK ==
  /\ phase \in [Sides -> Seen]
  /\ hand \in [Sides -> {"none", "live", "gone"}]
  /\ page \in {"closed", "open", "left"}
  /\ exist \in BOOLEAN /\ show \in BOOLEAN
  /\ detail \in [Sides -> Seen]
  /\ timer \in [Sides -> BOOLEAN]
  /\ loops \in [Kills -> Nat]
  /\ asked \in BOOLEAN
  /\ get \in [Sides -> [Gets -> Nat]]
  /\ put \in [Puts -> Nat]
  /\ late \subseteq Sides

\* A rollback is asked for only when the deployment has ended: the loop of
\* rollbackJudge has waited for it.  Only an answer that overtook a newer one
\* deceives it: "init", read before the deployment began, is "not running" too
\* (detail.controller.js:538).  JobxTask relies on this patience.
RollbackAfterEnd ==
  \A c \in Controls :
    put[c] > 0 => phase["deploy"] \in Ended \/ "deploy" \in late

\* A result the page does not show, though it is open and no answer has deceived
\* it.
Unseen(s) ==
  page = "open" /\ phase[s] \in Ended /\ detail[s] \notin Ended /\ s \notin late

\* An open page comes to show the result, of the rollback as of the deployment:
\* it does not stop reading before (detail.controller.js:156, 289).
SettledPage == []<>(\A s \in Sides : ~Unseen(s))

\* A loop that stops a rollback and that nothing will end: it does not read the
\* row it looks at, and FX5, which does, was cancelled.
Stranded(k) ==
  k = "killTaskRollback" /\ (page = "left" \/ "rollback" \in late)

\* "Stopping ..." comes to an end (detail.controller.js:460-502, 530-549).  The
\* loop that stops a deployment reads its row itself, also when the page was
\* left.  The one that stops a rollback lives on the interval FX5; else it
\* sends DELETE for ever.
KillEnds == []<>(\A k \in Kills : loops[k] = 0 \/ Stranded(k))
=============================================================================
