----------------------------- MODULE JobApproval -----------------------------
(***************************************************************************)
(* One approval of a job: the step asks its approvers                      *)
(* (JOB/code/plugin_approval), one row of openc3_job_approval each, and    *)
(* reads the rows every three seconds until they decide or the time is     *)
(* over.  The approvers answer on the page, on the mobile page or by a     *)
(* link (JOB/lib/api/approval.pm, approve.pm and adminapproval.pm).        *)
(*                                                                         *)
(* An answer is two statements: the row it names is answered, if it is     *)
(* open and the sender's own, and, if one approver is enough, all rows     *)
(* still open are closed with the same opinion, whoever sent the answer    *)
(* and whether or not the first statement found a row.  A request may end  *)
(* between the two, and two requests meet in any order.                    *)
(*                                                                         *)
(* ApprovalEnds of JobTask stands for the outcome.                         *)
(***************************************************************************)
EXTENDS Integers

CONSTANTS
  Users,       \* people who approve or submit
  NumRows,     \* approvers named in the plugin
  Named,       \* [Slots -> Users]: column approver, split at commas
  Submitter,   \* who started the task
  Leader,      \* [Users -> Users]: c3mc-base-userleader, or the user if nobody
  NumRounds    \* bound: $rtime, how often the rows are read

Slots    == 1..NumRows
Opinions == {"agree", "refuse"}

\* Columns relaxed and everyone of the plugin, and whether the mobile page is
\* in use.
Rules    == [relaxed: {"on", "off", "nervous"}, everyone: BOOLEAN,
             mobile: BOOLEAN]

ASSUME ConstantsAssumption ==
  /\ NumRows \in Nat \ {0}
  /\ Named \in [Slots -> Users]
  /\ Submitter \in Users
  /\ Leader \in [Users -> Users]
  /\ NumRounds \in Nat \ {0}

VARIABLES
  rule,        \* the rule of this approval; it does not change
  opinion,     \* openc3_job_approval.opinion; "none": there is no row yet
  remark,      \* openc3_job_approval.remarks, by class
  place,       \* where the plugin is
  next,        \* rows inserted so far, and one
  left,        \* %approver: who has not agreed yet
  round,       \* the round of the loop
  ret          \* $subtaskstatus once the loop is over

VARIABLES
  closing,     \* second statements of requests still to come
  voted        \* history: who answered what in the first statement

vars == <<rule, opinion, remark, place, next, left, round, ret, closing, voted>>

\* With relaxed off the leader of the submitter answers instead of the
\* submitter.
UserOf == [s \in Slots |-> IF rule.relaxed = "off" /\ Named[s] = Submitter
                           THEN Leader[Named[s]] ELSE Named[s]]

\* With relaxed on the submitter need not answer.
Excused(s) == rule.relaxed = "on" /\ UserOf[s] = Submitter

Init ==
  /\ rule \in Rules
  /\ opinion = [s \in Slots |-> "none"]
  /\ remark  = [s \in Slots |-> "empty"]
  /\ place   = "insert"
  /\ next    = 1
  /\ left    = {UserOf[s] : s \in Slots}
  /\ round   = 1
  /\ ret     = "none"
  /\ closing = {}
  /\ voted   = {}
-----------------------------------------------------------------------------
\* A row is inserted; the approver sees it at once.
Insert ==
  /\ place = "insert"
  /\ opinion' = [opinion EXCEPT ![next] =
                   IF Excused(next) THEN "agree" ELSE "unconfirmed"]
  /\ remark' = [remark EXCEPT ![next] =
                  IF Excused(next) THEN "auto" ELSE "empty"]
  /\ place' = IF next = NumRows THEN "loop" ELSE "insert"
  /\ next' = next + 1
  /\ UNCHANGED <<rule, left, round, ret, closing, voted>>

\* An error of the database: the step fails.
InsertDie ==
  /\ place = "insert"
  /\ place' = "end"
  /\ ret' = "fail"
  /\ UNCHANGED <<rule, opinion, remark, next, left, round, closing, voted>>

\* The rows of a round that count: not those closed on behalf of others.
BadHeard(o) == {s \in Slots : opinion[s] = o}

Heard(o) == {s \in Slots : opinion[s] = o /\ remark[s] # "closed"}

\* Who has still to agree once the rows in S have.
BadStillLeft(S) ==
  IF \E s \in S : UserOf[s] \in left THEN {} ELSE left

StillLeft(S) ==
  IF rule.everyone THEN left \ {UserOf[s] : s \in S}
  ELSE IF \E s \in S : UserOf[s] \in left THEN {} ELSE left

\* What a round decides.  A refusal is final, whoever agreed; no answer in the
\* last round is a failure.
BadVerdict(still) ==
  IF still = {} THEN "success"
  ELSE IF Heard("refuse") # {} THEN "refuse"
  ELSE IF round >= NumRounds THEN "fail" ELSE "none"

BadLastRound(still) ==
  IF Heard("refuse") # {} THEN "refuse"
  ELSE IF still = {} THEN "success"
  ELSE IF round > NumRounds THEN "fail" ELSE "none"

Verdict(still) ==
  IF Heard("refuse") # {} THEN "refuse"
  ELSE IF still = {} THEN "success"
  ELSE IF round >= NumRounds THEN "fail" ELSE "none"

BadLook ==
  /\ place = "loop"
  /\ left' = StillLeft(Heard("agree"))
  /\ ret' = Verdict(left')
  /\ place' = IF ret' = "none" THEN "loop" ELSE "end"
  /\ round' = IF ret' = "none" THEN 1 ELSE round
  /\ UNCHANGED <<rule, opinion, remark, next, closing, voted>>

Look ==
  /\ place = "loop"
  /\ left' = StillLeft(Heard("agree"))
  /\ ret' = Verdict(left')
  /\ place' = IF ret' = "none" THEN "loop" ELSE "end"
  /\ round' = IF ret' = "none" THEN round + 1 ELSE round
  /\ UNCHANGED <<rule, opinion, remark, next, closing, voted>>

\* The rows cannot be read: a round without answers.
LookFails ==
  /\ place = "loop"
  /\ \/ /\ round < NumRounds
        /\ round' = round + 1
        /\ UNCHANGED <<place, ret>>
     \/ /\ round >= NumRounds
        /\ place' = "end"
        /\ ret' = "fail"
        /\ UNCHANGED round
  /\ UNCHANGED <<rule, opinion, remark, next, left, closing, voted>>
-----------------------------------------------------------------------------
\* POST /approval, /approve/approval, /approval/control, /approval/fast/:uuid,
\* /adminapproval: the row of the sender, if it is open ...  The request may
\* name a row that is answered or somebody else's: it answers none then, and its
\* second statement follows all the same.
BadVote(s, o) ==
  /\ opinion[s] # "none"
  /\ opinion' = [opinion EXCEPT ![s] = o]
  /\ voted' = voted \cup {<<s, o>>}
  /\ closing' = closing \cup {<<s, o>>}
  /\ UNCHANGED <<rule, remark, place, next, left, round, ret>>

Vote(s, o) ==
  /\ opinion[s] # "none"
  /\ \/ /\ opinion[s] = "unconfirmed"
        /\ opinion' = [opinion EXCEPT ![s] = o]
        /\ voted' = voted \cup {<<s, o>>}
     \/ UNCHANGED <<opinion, voted>>
  /\ closing' = closing \cup {<<s, o>>}
  /\ UNCHANGED <<rule, remark, place, next, left, round, ret>>

\* ... and then those of the others, if one is enough.  The mobile page leaves
\* a remark of its own, which the loop does not leave out.
BadClose(c) ==
  /\ c \in closing
  /\ ~rule.everyone
  /\ opinion' = [s \in Slots |->
                   IF opinion[s] # "none" THEN c[2] ELSE opinion[s]]
  /\ remark' = [s \in Slots |->
                  IF opinion[s] # "none" THEN "closed" ELSE remark[s]]
  /\ closing' = closing \ {c}
  /\ UNCHANGED <<rule, place, next, left, round, ret, voted>>

Close(c) ==
  LET open == {s \in Slots : ~rule.everyone /\ opinion[s] = "unconfirmed"} IN
  /\ c \in closing
  /\ opinion' = [s \in Slots |-> IF s \in open THEN c[2] ELSE opinion[s]]
  /\ \E r \in {"closed"} \cup (IF rule.mobile THEN {"mobile"} ELSE {}) :
       remark' = [s \in Slots |-> IF s \in open THEN r ELSE remark[s]]
  /\ closing' = closing \ {c}
  /\ UNCHANGED <<rule, place, next, left, round, ret, voted>>

\* The request ends before its second statement.
CloseLost(c) ==
  /\ c \in closing
  /\ closing' = closing \ {c}
  /\ UNCHANGED <<rule, opinion, remark, place, next, left, round, ret, voted>>
-----------------------------------------------------------------------------
Plugin == Insert \/ InsertDie \/ Look \/ LookFails

Answer == \/ \E s \in Slots, o \in Opinions : Vote(s, o)
          \/ \E c \in closing : Close(c) \/ CloseLost(c)

Next == Plugin \/ Answer

Spec == Init /\ [][Next]_vars

\* The plugin goes on; its users owe nothing.
FairSpec == Spec /\ WF_vars(Plugin)
-----------------------------------------------------------------------------
\* Type invariant of the rows, the plugin and the requests.
TypeOK ==
  /\ rule \in Rules
  /\ opinion \in [Slots -> {"none", "unconfirmed"} \cup Opinions]
  /\ remark \in [Slots -> {"empty", "auto", "closed", "mobile"}]
  /\ place \in {"insert", "loop", "end"}
  /\ next \in 1..(NumRows + 1)
  /\ left \subseteq Users
  /\ round \in 1..NumRounds
  /\ ret \in {"none", "success", "fail", "refuse"}
  /\ closing \subseteq Slots \X Opinions
  /\ voted \subseteq Slots \X Opinions

\* The slots somebody agreed at, the submitter by being excused.
Agreed == {s \in Slots : <<s, "agree">> \in voted \/ remark[s] = "auto"}

\* An approval is granted by its approvers: by each of them, or by one if one
\* is enough; a row that was closed on behalf of somebody does not count as his
\* voice (JOB/code/plugin_approval:289-311).  The closings of the mobile page
\* do (JOB/lib/api/approve.pm:56, whose remark the loop does not know), and they
\* do not need an answer before them: where one is enough and the mobile page is
\* in use, nothing is promised.
GrantedByVoters ==
  ret = "success" =>
    /\ rule.everyone => \A s \in Slots : \E r \in Agreed : UserOf[r] = UserOf[s]
    /\ ~rule.everyone /\ ~rule.mobile => Agreed # {}

\* A refusal somebody gave before the deciding look is respected even if others
\* agreed before or at the same time.
RefusalStands ==
  [][ret = "none" /\ ret' = "success" =>
       \A s \in Slots : <<s, "refuse">> \notin voted]_vars

\* It is refused only if somebody refused whose answer counts: a row closed on
\* behalf of another approver is no refusal (JOB/code/plugin_approval:289).  The
\* mobile page, whose remark the loop does not know (JOB/lib/api/approve.pm:56),
\* breaks this: a second answer of somebody who had agreed refuses for others.
RefusedByVoter ==
  ret = "refuse" /\ ~rule.mobile => \E s \in Slots : <<s, "refuse">> \in voted

\* A voice given in time is heard: where one is enough, the look at the end of
\* the time does not find the approval unanswered after somebody answered.
VoiceHeard ==
  [][Look /\ ret' = "fail" /\ ~rule.everyone => voted = {}]_vars

\* What somebody answered is never replaced by the answer of somebody else, and
\* nobody answers for two opinions: opinion='unconfirmed' in every update of
\* JOB/lib/api/approval.pm, approve.pm and adminapproval.pm.
VoiceKept ==
  \A s \in Slots, o \in Opinions : <<s, o>> \in voted => opinion[s] = o

\* The step ends, whether or not anybody answers and the rows can be read
\* (JOB/code/plugin_approval:287, $rtime).
StepEnds == <>(place = "end")
=============================================================================
