------------------------------ MODULE JobNotify ------------------------------
(***************************************************************************)
(* The notify daemon of the JOB service (JOB/code/server/notify): every    *)
(* slave runs one, and all of them read the same table.                    *)
(*                                                                         *)
(* Column notify of a task is 0 while nobody has been told of its status,  *)
(* 1 while a daemon is about to tell, and 2, 3 or 4 afterwards.  A worker  *)
(* sets it back to 0 whenever it begins to wait or goes on, but not when   *)
(* it writes its result, and bury never does.                              *)
(*                                                                         *)
(* The tasks behave as JobLifecycle says, which JobTask implements.        *)
(***************************************************************************)
EXTENDS Integers

CONSTANTS
  Tasks,
  Daemons,     \* the notify daemons, one per slave
  NoRow,       \* a daemon that handles no row
  MaxMishaps,  \* bound: deaths of daemons and writes that fail
  MaxResets    \* bound: times a worker sets notify of a task to 0

ASSUME ConstantsAssumption ==
  /\ MaxMishaps \in Nat
  /\ MaxResets \in Nat

VARIABLES
  phase,       \* openc3_job_task.status
  hand,        \* the worker of the task, see JobLifecycle
  notify,      \* openc3_job_task.notify
  list,        \* rows a daemon has read and not handled yet
  row,         \* the row a daemon has claimed
  place        \* where a daemon is

VARIABLES
  mishaps,     \* deaths and failed writes so far
  resets,      \* history: how often notify of a task was set to 0
  told,        \* history: who was told what: task, resets at the claim, status
  dropped      \* history: claims no message followed: the daemon died, or did
               \* not get the answer of its update

vars == <<phase, hand, notify, list, row, place, mishaps, resets, told, dropped>>
histVars == <<resets, told, dropped>>

Job == INSTANCE JobLifecycle

\* The statuses somebody is told of.
Telling == {"success", "fail", "waiting"}
Statuses == {"init", "running", "waiting", "success", "fail", "refuse"}
Rows     == [task: Tasks, status: Telling]
Claims   == [task: Tasks, status: Telling, at: 0..MaxResets]

Init ==
  /\ Job!Init
  /\ notify = [t \in Tasks |-> 0]
  /\ list   = [d \in Daemons |-> {}]
  /\ row    = [d \in Daemons |-> NoRow]
  /\ place  = [d \in Daemons |-> "select"]
  /\ resets = [t \in Tasks |-> 0]
  /\ told   = {}
  /\ mishaps = 0
  /\ dropped = {}
-----------------------------------------------------------------------------
\* A mishap of a daemon.
Fails == mishaps < MaxMishaps /\ mishaps' = mishaps + 1

\* The worker begins to wait or goes on: update ... set status=...,notify='0'
Change(t) ==
  /\ resets[t] < MaxResets
  /\ Job!Ask(t) \/ Job!GoOn(t)
  /\ notify' = [notify EXCEPT ![t] = 0]
  /\ resets' = [resets EXCEPT ![t] = @ + 1]
  /\ UNCHANGED <<list, row, place, mishaps, told, dropped>>

\* A worker claims the task, leaves with a result or dies, or bury fails it.
End(t) ==
  /\ Job!Take(t) \/ Job!Finish(t) \/ Job!Vanish(t) \/ Job!Bury(t)
  /\ UNCHANGED <<notify, list, row, place, mishaps, histVars>>

\* select ... where notify=0 and status in ( 'success', 'fail', 'waiting' )
BadSelect(d) ==
  /\ place[d] = "select"
  /\ list' = [list EXCEPT ![d] = {[task |-> t, status |-> phase[t]] :
                t \in {u \in Tasks : notify[u] = 0 /\ phase[u] \in
                                       Telling \ {"waiting"}}}]
  /\ place' = [place EXCEPT ![d] = "claim"]
  /\ UNCHANGED <<phase, hand, notify, row, mishaps, histVars>>

Select(d) ==
  /\ place[d] = "select"
  /\ list' = [list EXCEPT ![d] = {[task |-> t, status |-> phase[t]] :
                t \in {u \in Tasks : notify[u] = 0 /\ phase[u] \in Telling}}]
  /\ place' = [place EXCEPT ![d] = "claim"]
  /\ UNCHANGED <<phase, hand, notify, row, mishaps, histVars>>

\* update ... set notify=1 where id=... and notify=0: one daemon has the row.
\* The status it tells is the one it read.  A row it cannot claim it skips.
BadClaim(d) ==
  /\ place[d] = "claim"
  /\ \E r \in list[d] :
       /\ list' = [list EXCEPT ![d] = @ \ {r}]
       /\ notify' = [notify EXCEPT ![r.task] = 1]
       /\ row' = [row EXCEPT ![d] = [task |-> r.task, status |-> r.status,
                                     at |-> resets[r.task]]]
       /\ place' = [place EXCEPT ![d] = "send"]
  /\ UNCHANGED <<phase, hand, mishaps, histVars>>

Claim(d) ==
  /\ place[d] = "claim"
  /\ \E r \in list[d] :
       LET claim == [task |-> r.task, status |-> r.status,
                     at |-> resets[r.task]]
       IN /\ list' = [list EXCEPT ![d] = @ \ {r}]
          /\ \/ /\ notify[r.task] = 0
                /\ notify' = [notify EXCEPT ![r.task] = 1]
                /\ row' = [row EXCEPT ![d] = claim]
                /\ place' = [place EXCEPT ![d] = "send"]
                /\ UNCHANGED <<mishaps, dropped>>
             \/ /\ (notify[r.task] # 0 /\ UNCHANGED mishaps) \/ Fails
                /\ UNCHANGED <<notify, row, place, dropped>>
             \/ \* The row is claimed, but the daemon does not get to know.
                /\ notify[r.task] = 0 /\ Fails
                /\ notify' = [notify EXCEPT ![r.task] = 1]
                /\ dropped' = dropped \cup {claim}
                /\ UNCHANGED <<row, place>>
  /\ UNCHANGED <<phase, hand, resets, told>>

\* Nothing is left of what it read: the daemon sleeps 45 seconds.
Sleep(d) ==
  /\ place[d] = "claim" /\ list[d] = {}
  /\ place' = [place EXCEPT ![d] = "select"]
  /\ UNCHANGED <<phase, hand, notify, list, row, mishaps, histVars>>

\* The users of the project are told: $notify->run.  An error of the mailer is
\* recorded by Mark and not tried again.
Send(d) ==
  /\ place[d] = "send"
  /\ told' = told \cup {row[d]}
  /\ place' = [place EXCEPT ![d] = "mark"]
  /\ UNCHANGED <<phase, hand, notify, list, row, mishaps, resets, dropped>>

\* update ... set notify=$status where id=... and notify=1: 2 for a success, 3
\* for a failure, 4 for an error.  The write may fail.
Mark(d) ==
  /\ place[d] = "mark"
  /\ \/ /\ \E s \in 2..4 : notify' = [notify EXCEPT ![row[d].task] =
                                        IF @ = 1 THEN s ELSE @]
        /\ UNCHANGED mishaps
     \/ Fails /\ UNCHANGED notify
  /\ row' = [row EXCEPT ![d] = NoRow]
  /\ place' = [place EXCEPT ![d] = "claim"]
  /\ UNCHANGED <<phase, hand, list, histVars>>

\* An error of the database ends the daemon; it is started again.
BadDie(d) ==
  /\ Fails
  /\ list' = [list EXCEPT ![d] = {}]
  /\ row' = [row EXCEPT ![d] = NoRow]
  /\ dropped' = IF place[d] = "send" THEN dropped \cup {row[d]} ELSE dropped
  /\ UNCHANGED <<phase, hand, notify, place, resets, told>>

Die(d) ==
  /\ Fails
  /\ list' = [list EXCEPT ![d] = {}]
  /\ row' = [row EXCEPT ![d] = NoRow]
  /\ place' = [place EXCEPT ![d] = "select"]
  /\ dropped' = IF place[d] = "send" THEN dropped \cup {row[d]} ELSE dropped
  /\ UNCHANGED <<phase, hand, notify, resets, told>>
-----------------------------------------------------------------------------
Tell(d) == Select(d) \/ Claim(d) \/ Sleep(d) \/ Send(d) \/ Mark(d)

Next ==
  \/ \E t \in Tasks : Change(t) \/ End(t)
  \/ \E d \in Daemons : Tell(d) \/ Die(d)

Spec == Init /\ [][Next]_vars

\* The daemons loop for ever; the tasks owe nothing.
FairSpec == Spec /\ \A d \in Daemons : WF_vars(Tell(d))
-----------------------------------------------------------------------------
\* Type invariant of the rows and the daemons.
TypeOK ==
  /\ phase \in [Tasks -> Statuses]
  /\ hand \in [Tasks -> {"none", "live", "gone"}]
  /\ notify \in [Tasks -> 0..4]
  /\ list \in [Daemons -> SUBSET Rows]
  /\ row \in [Daemons -> Claims \cup {NoRow}]
  /\ place \in [Daemons -> {"select", "claim", "send", "mark"}]
  /\ resets \in [Tasks -> 0..MaxResets]
  /\ told \subseteq Claims
  /\ dropped \subseteq Claims
  /\ mishaps \in 0..MaxMishaps

\* However many daemons read a row, and whenever one of them dies, users are
\* told at most once of what a worker has set notify to 0 for
\* (JOB/code/server/notify:69-71).
ToldOnce ==
  \A d \in Daemons : place[d] = "send" =>
    \A c \in told : ~(c.task = row[d].task /\ c.at = row[d].at)

\* A daemon has told of task t as of reset n, with one of the statuses S, or
\* has died after it had claimed the row, or has claimed it unawares.
Heard(t, n, S) ==
  \E c \in told \cup dropped : c.task = t /\ c.at = n /\ c.status \in S

\* As long as a task waits for its users, somebody tells them, unless it has
\* gone on in the meantime or the message was lost with its daemon or with the
\* answer to the claim: a worker that asks is not left alone
\* (JOB/code/server/notify:54-82).
AskTold ==
  \A t \in Tasks, n \in 0..MaxResets :
    (phase[t] = "waiting" /\ resets[t] = n)
      ~> (phase[t] # "waiting" \/ resets[t] # n \/ Heard(t, n, Telling))

\* Of a task that never waited the result is told, be it success or fail,
\* unless the message was lost with its daemon or with the answer to the claim.
PlainResultTold ==
  \A t \in Tasks :
    (phase[t] \in {"success", "fail"} /\ resets[t] = 0)
      ~> Heard(t, 0, {"success", "fail"})

\* What users must act on and what they wait for reaches them.
UsersTold == AskTold /\ PlainResultTold
=============================================================================
