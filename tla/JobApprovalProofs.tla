-------------------------- MODULE JobApprovalProofs --------------------------
(***************************************************************************)
(* Proofs about JobApproval, for any approvers and rounds: what somebody   *)
(* answered stays and is heard, an approval is granted by those who must   *)
(* agree, and a refusal in time stands.                                    *)
(***************************************************************************)
EXTENDS JobApproval, TLAPS

\* Rows are inserted in order, and none is missing once the loop runs.
RowsInOrder ==
  /\ place = "insert" => next \in Slots
  /\ \A s \in Slots : opinion[s] = "none" => remark[s] = "empty"
  /\ \A s \in Slots : s >= next => opinion[s] = "none"

\* Only an answered row has a remark.
OpenRows == \A s \in Slots : opinion[s] = "unconfirmed" => remark[s] = "empty"

\* An answer stays as it was given and is not marked as a closed one.
VoicesKept ==
  \A s \in Slots, o \in Opinions : <<s, o>> \in voted =>
    opinion[s] = o /\ remark[s] # "closed"

\* Off the mobile page an agreement is somebody's own unless it is marked as a
\* closed one; where everybody has to agree, it is so in any case.
VoicesBehind ==
  /\ \A s \in Slots : remark[s] = "auto" => opinion[s] = "agree"
  /\ ~rule.mobile => \A s \in Slots :
       opinion[s] = "agree" /\ remark[s] # "closed" => s \in Agreed
  /\ rule.everyone => \A s \in Slots : opinion[s] = "agree" => s \in Agreed

\* Who is no longer waited for has agreed, or one has if that is enough; after a
\* refusal %approver may be empty all the same.
NobodySkipped ==
  /\ rule.everyone => \A s \in Slots : UserOf[s] \notin left =>
       \E r \in Agreed : UserOf[r] = UserOf[s]
  /\ ~rule.everyone /\ ~rule.mobile /\ place # "end" =>
       Agreed # {} \/ (\A s \in Slots : UserOf[s] \in left)

Inv == /\ TypeOK /\ RowsInOrder /\ OpenRows /\ VoicesKept /\ VoicesBehind
       /\ NobodySkipped /\ GrantedByVoters
-----------------------------------------------------------------------------
\* Before the first row is inserted.
LEMMA InitInv == Init => Inv
<1> SUFFICES ASSUME Init PROVE Inv
  OBVIOUS
<1> USE ConstantsAssumption
<1>1. 1 \in Slots
  BY DEF Slots
<1>2. TypeOK
  <2>1. left \subseteq Users
    BY DEF Init, UserOf, Slots
  <2> QED
    BY <2>1, <1>1 DEF Init, TypeOK, Slots, Opinions
<1>3. RowsInOrder /\ OpenRows
  BY <1>1 DEF Init, RowsInOrder, OpenRows
<1>4. VoicesKept /\ VoicesBehind
  BY DEF Init, VoicesKept, VoicesBehind, Opinions
<1>5. NobodySkipped
  BY DEF Init, NobodySkipped
<1>6. GrantedByVoters
  BY DEF Init, GrantedByVoters
<1> QED
  BY <1>2, <1>3, <1>4, <1>5, <1>6 DEF Inv

\* Every step keeps the type.
LEMMA NextType == Inv /\ [Next]_vars => TypeOK'
<1> SUFFICES ASSUME Inv, [Next]_vars PROVE TypeOK'
  OBVIOUS
<1> USE ConstantsAssumption DEF Inv, TypeOK
<1>1. CASE Insert
  BY <1>1 DEF Insert, RowsInOrder, Slots, Opinions
<1>2. CASE InsertDie
  BY <1>2 DEF InsertDie
<1>3. CASE Look
  <2>1. left' \subseteq Users
    BY <1>3 DEF Look, StillLeft
  <2>2. ret' \in {"none", "success", "fail", "refuse"}
    BY <1>3 DEF Look, Verdict
  <2>3. round' \in 1..NumRounds
    BY <1>3 DEF Look, Verdict
  <2>4. place' \in {"insert", "loop", "end"}
    BY <1>3 DEF Look
  <2> QED
    BY <1>3, <2>1, <2>2, <2>3, <2>4 DEF Look
<1>4. CASE LookFails
  BY <1>4 DEF LookFails
<1>5. ASSUME NEW s \in Slots, NEW o \in Opinions, Vote(s, o) PROVE TypeOK'
  BY <1>5 DEF Vote
<1>6. ASSUME NEW c \in closing, Close(c) PROVE TypeOK'
  <2>1. c[2] \in Opinions
    BY <1>6
  <2> QED
    BY <1>6, <2>1 DEF Close
<1>7. ASSUME NEW c \in closing, CloseLost(c) PROVE TypeOK'
  BY <1>7 DEF CloseLost
<1>8. CASE UNCHANGED vars
  BY <1>8 DEF vars
<1> QED
  BY <1>1, <1>2, <1>3, <1>4, <1>5, <1>6, <1>7, <1>8 DEF Next, Plugin, Answer

\* Every step keeps the order of the rows.
LEMMA NextRows == Inv /\ [Next]_vars => RowsInOrder'
<1> SUFFICES ASSUME Inv, [Next]_vars PROVE RowsInOrder'
  OBVIOUS
<1> USE ConstantsAssumption DEF Inv, TypeOK, RowsInOrder, Slots
<1>1. CASE Insert
  BY <1>1 DEF Insert
<1>2. CASE InsertDie
  BY <1>2 DEF InsertDie
<1>3. CASE Look
  BY <1>3 DEF Look
<1>4. CASE LookFails
  BY <1>4 DEF LookFails
<1>5. ASSUME NEW s \in Slots, NEW o \in Opinions, Vote(s, o)
      PROVE  RowsInOrder'
  BY <1>5 DEF Vote, Opinions
<1>6. ASSUME NEW c \in closing, Close(c) PROVE RowsInOrder'
  <2>1. c[2] \in Opinions
    BY <1>6
  <2> QED
    BY <1>6, <2>1 DEF Close, Opinions
<1>7. ASSUME NEW c \in closing, CloseLost(c) PROVE RowsInOrder'
  BY <1>7 DEF CloseLost
<1>8. CASE UNCHANGED vars
  BY <1>8 DEF vars
<1> QED
  BY <1>1, <1>2, <1>3, <1>4, <1>5, <1>6, <1>7, <1>8 DEF Next, Plugin, Answer

\* Every step keeps the answers: a row is answered and closed only while it is
\* unconfirmed.
LEMMA NextVoices == Inv /\ [Next]_vars => VoicesKept'
<1> SUFFICES ASSUME Inv, [Next]_vars PROVE VoicesKept'
  OBVIOUS
<1> USE DEF Inv, TypeOK, VoicesKept
<1>1. CASE Insert
  <2>1. opinion[next] = "none" /\ next \in Slots
    BY <1>1, ConstantsAssumption DEF Insert, RowsInOrder, Slots
  <2> QED
    BY <1>1, <2>1 DEF Insert, Opinions
<1>2. CASE InsertDie \/ Look \/ LookFails
  BY <1>2 DEF InsertDie, Look, LookFails
<1>3. ASSUME NEW s \in Slots, NEW o \in Opinions, Vote(s, o)
      PROVE  VoicesKept'
  <2>1. CASE /\ opinion[s] = "unconfirmed"
            /\ opinion' = [opinion EXCEPT ![s] = o]
            /\ voted' = voted \cup {<<s, o>>}
    <3>1. remark[s] # "closed"
      BY <2>1 DEF OpenRows
    <3> QED
      BY <1>3, <2>1, <3>1 DEF Vote, Opinions
  <2>2. CASE UNCHANGED <<opinion, voted>>
    BY <1>3, <2>2 DEF Vote
  <2> QED
    BY <1>3, <2>1, <2>2 DEF Vote
<1>4. ASSUME NEW c \in closing, Close(c) PROVE VoicesKept'
  BY <1>4 DEF Close, Opinions
<1>5. ASSUME NEW c \in closing, CloseLost(c) PROVE VoicesKept'
  BY <1>5 DEF CloseLost
<1>6. CASE UNCHANGED vars
  BY <1>6 DEF vars
<1> QED
  BY <1>1, <1>2, <1>3, <1>4, <1>5, <1>6 DEF Next, Plugin, Answer

\* Every step keeps unconfirmed rows without a remark.
LEMMA NextOpen == Inv /\ [Next]_vars => OpenRows'
<1> SUFFICES ASSUME Inv, [Next]_vars PROVE OpenRows'
  OBVIOUS
<1> USE DEF Inv, TypeOK, OpenRows
<1>1. CASE Insert
  BY <1>1, ConstantsAssumption DEF Insert, RowsInOrder
<1>2. CASE InsertDie \/ Look \/ LookFails
  BY <1>2 DEF InsertDie, Look, LookFails
<1>3. ASSUME NEW s \in Slots, NEW o \in Opinions, Vote(s, o)
      PROVE  OpenRows'
  BY <1>3 DEF Vote, Opinions
<1>4. ASSUME NEW c \in closing, Close(c) PROVE OpenRows'
  <2>1. c[2] \in Opinions
    BY <1>4
  <2> QED
    BY <1>4, <2>1 DEF Close, Opinions
<1>5. ASSUME NEW c \in closing, CloseLost(c) PROVE OpenRows'
  BY <1>5 DEF CloseLost
<1>6. CASE UNCHANGED vars
  BY <1>6 DEF vars
<1> QED
  BY <1>1, <1>2, <1>3, <1>4, <1>5, <1>6 DEF Next, Plugin, Answer

\* Who has agreed or is excused stays so, and the rule and who is asked do not
\* change.
LEMMA AgreedStays ==
  ASSUME Inv, [Next]_vars
  PROVE  /\ Agreed \subseteq Agreed' /\ voted \subseteq voted'
         /\ UserOf' = UserOf /\ rule' = rule
<1> USE DEF Inv, TypeOK, Agreed, UserOf
<1>1. CASE Insert
  <2>1. next \in Slots /\ opinion[next] = "none" /\ remark[next] = "empty"
    BY <1>1, ConstantsAssumption DEF RowsInOrder, Slots, Insert
  <2> QED
    BY <1>1, <2>1 DEF Insert
<1>2. CASE InsertDie \/ Look \/ LookFails
  BY <1>2 DEF InsertDie, Look, LookFails
<1>3. ASSUME NEW s \in Slots, NEW o \in Opinions, Vote(s, o)
      PROVE  /\ Agreed \subseteq Agreed' /\ voted \subseteq voted'
             /\ UserOf' = UserOf /\ rule' = rule
  BY <1>3 DEF Vote
<1>4. ASSUME NEW c \in closing, Close(c)
      PROVE  /\ Agreed \subseteq Agreed' /\ voted \subseteq voted'
             /\ UserOf' = UserOf /\ rule' = rule
  <2>1. \A s \in Slots : remark[s] = "auto" => remark'[s] = "auto"
    BY <1>4 DEF Close, OpenRows
  <2> QED
    BY <1>4, <2>1 DEF Close
<1>5. ASSUME NEW c \in closing, CloseLost(c)
      PROVE  /\ Agreed \subseteq Agreed' /\ voted \subseteq voted'
             /\ UserOf' = UserOf /\ rule' = rule
  BY <1>5 DEF CloseLost
<1>6. CASE UNCHANGED vars
  BY <1>6 DEF vars
<1> QED
  BY <1>1, <1>2, <1>3, <1>4, <1>5, <1>6 DEF Next, Plugin, Answer

\* Every step keeps somebody behind each answer.
LEMMA NextBehind == Inv /\ [Next]_vars => VoicesBehind'
<1> SUFFICES ASSUME Inv, [Next]_vars PROVE VoicesBehind'
  OBVIOUS
<1>0. Agreed \subseteq Agreed' /\ voted \subseteq voted' /\ rule' = rule
  BY AgreedStays
<1> USE DEF Inv, TypeOK, VoicesBehind
<1>1. CASE Insert
  <2>1. next \in Slots
    BY <1>1 DEF RowsInOrder, Insert
  <2>2. Excused(next) => next \in Agreed'
    BY <1>1, <2>1 DEF Insert, Agreed
  <2> QED
    BY <1>0, <1>1, <2>1, <2>2 DEF Insert, Opinions
<1>2. CASE InsertDie \/ Look \/ LookFails
  BY <1>0, <1>2 DEF InsertDie, Look, LookFails
<1>3. ASSUME NEW s \in Slots, NEW o \in Opinions, Vote(s, o)
      PROVE  VoicesBehind'
  <2>1. CASE /\ opinion[s] = "unconfirmed"
            /\ opinion' = [opinion EXCEPT ![s] = o]
            /\ voted' = voted \cup {<<s, o>>}
    <3>1. o = "agree" => s \in Agreed'
      BY <2>1 DEF Agreed
    <3>2. /\ \A r \in Slots : r # s => opinion'[r] = opinion[r]
          /\ opinion'[s] = o /\ remark' = remark
      BY <1>3, <2>1 DEF Vote
    <3>3. remark[s] = "empty"
      BY <2>1 DEF OpenRows
    <3> QED
      BY <1>0, <3>1, <3>2, <3>3
  <2>2. CASE UNCHANGED <<opinion, voted>>
    BY <1>0, <1>3, <2>2 DEF Vote
  <2> QED
    BY <1>3, <2>1, <2>2 DEF Vote
<1>4. ASSUME NEW c \in closing, Close(c) PROVE VoicesBehind'
  <2>1. ~rule.mobile => \A s \in Slots :
          \/ remark'[s] = "closed"
          \/ opinion'[s] = opinion[s] /\ remark'[s] = remark[s]
    BY <1>4 DEF Close
  <2>2. \A s \in Slots : remark'[s] = "auto" => opinion'[s] = "agree"
    BY <1>4 DEF Close
  <2>3. rule.everyone => opinion' = opinion
    BY <1>4 DEF Close
  <2> QED
    BY <1>0, <2>1, <2>2, <2>3
<1>5. ASSUME NEW c \in closing, CloseLost(c) PROVE VoicesBehind'
  BY <1>0, <1>5 DEF CloseLost
<1>6. CASE UNCHANGED vars
  BY <1>0, <1>6 DEF vars
<1> QED
  BY <1>1, <1>2, <1>3, <1>4, <1>5, <1>6 DEF Next, Plugin, Answer

\* Off the mobile page an agreement that is heard is somebody's.
LEMMA HeardAgreement ==
  ASSUME Inv, ~rule.mobile, Heard("agree") # {}
  PROVE  Agreed # {}
BY DEF Heard, Inv, VoicesBehind

\* A look takes only those off the list who have agreed, and ends in success
\* only with nobody left who must agree.
LEMMA NextSkipped == Inv /\ [Next]_vars => NobodySkipped' /\ GrantedByVoters'
<1> SUFFICES ASSUME Inv, [Next]_vars PROVE NobodySkipped' /\ GrantedByVoters'
  OBVIOUS
<1>0. Agreed \subseteq Agreed' /\ UserOf' = UserOf /\ rule' = rule
  BY AgreedStays
<1> USE DEF Inv
<1>1. CASE Look
  <2>1. CASE rule.everyone
    <3>1. \A s \in Heard("agree") : s \in Agreed
      BY <2>1 DEF Heard, VoicesBehind
    <3>2. \A s \in Slots : UserOf[s] \notin left' =>
            \E r \in Agreed : UserOf[r] = UserOf[s]
      BY <1>1, <2>1, <3>1 DEF Look, StillLeft, NobodySkipped
    <3>3. ret' = "success" => left' = {}
      BY <1>1 DEF Look, Verdict
    <3> QED
      BY <1>0, <2>1, <3>2, <3>3 DEF NobodySkipped, GrantedByVoters
  <2>2. CASE ~rule.everyone
    <3>1. place = "loop" /\ (ret' = "success" => left' = {})
      BY <1>1 DEF Look, Verdict
    <3>2. CASE rule.mobile
      BY <1>0, <2>2, <3>2 DEF NobodySkipped, GrantedByVoters
    <3>3. CASE ~rule.mobile /\ left' = left
      <4>1. 1 \in Slots
        BY ConstantsAssumption DEF Slots
      <4>2. Agreed # {} \/ \A s \in Slots : UserOf[s] \in left
        BY <2>2, <3>1, <3>3 DEF NobodySkipped
      <4> QED
        BY <1>0, <2>2, <3>1, <3>3, <4>1, <4>2
        DEF NobodySkipped, GrantedByVoters
    <3>4. CASE ~rule.mobile /\ left' # left
      <4>1. Heard("agree") # {}
        BY <1>1, <2>2, <3>4 DEF Look, StillLeft
      <4>2. Agreed # {}
        BY <3>4, <4>1, HeardAgreement
      <4> QED
        BY <1>0, <2>2, <4>2 DEF NobodySkipped, GrantedByVoters
    <3> QED
      BY <3>2, <3>3, <3>4
  <2> QED
    BY <2>1, <2>2
<1>2. CASE LookFails \/ InsertDie
  <2>1. left' = left /\ (ret' = ret \/ ret' = "fail") /\ place # "end"
    BY <1>2 DEF LookFails, InsertDie
  <2> QED
    BY <1>0, <2>1 DEF NobodySkipped, GrantedByVoters
<1>3. CASE Insert
  <2>1. left' = left /\ ret' = ret /\ place # "end"
    BY <1>3 DEF Insert
  <2> QED
    BY <1>0, <2>1 DEF NobodySkipped, GrantedByVoters
<1>4. CASE Answer \/ UNCHANGED vars
  <2>1. left' = left /\ ret' = ret /\ place' = place
    BY <1>4 DEF Answer, Vote, Close, CloseLost, vars
  <2> QED
    BY <1>0, <2>1 DEF NobodySkipped, GrantedByVoters
<1> QED
  BY <1>1, <1>2, <1>3, <1>4 DEF Next, Plugin

\* Off the mobile page a refusal the loop reads is somebody's own, and so is the
\* one the step has ended with.
RefusalsBehind ==
  /\ ~rule.mobile => \A s \in Slots :
       opinion[s] = "refuse" /\ remark[s] # "closed" =>
         <<s, "refuse">> \in voted
  /\ RefusedByVoter

\* Every step keeps somebody behind a refusal.
LEMMA NextRefused ==
  Inv /\ RefusalsBehind /\ [Next]_vars => RefusalsBehind'
<1> SUFFICES ASSUME Inv, RefusalsBehind, [Next]_vars PROVE RefusalsBehind'
  OBVIOUS
<1>0. voted \subseteq voted' /\ rule' = rule
  BY AgreedStays
<1> USE DEF Inv, TypeOK, RefusalsBehind, RefusedByVoter
<1>1. CASE Insert
  <2>1. next \in Slots
    BY <1>1 DEF RowsInOrder, Insert
  <2> QED
    BY <1>0, <1>1, <2>1 DEF Insert
<1>2. CASE InsertDie \/ LookFails
  BY <1>0, <1>2 DEF InsertDie, LookFails
<1>3. CASE Look
  <2>1. ret' = "refuse" => Heard("refuse") # {}
    BY <1>3 DEF Look, Verdict
  <2> QED
    BY <1>0, <1>3, <2>1 DEF Look, Heard
<1>4. ASSUME NEW s \in Slots, NEW o \in Opinions, Vote(s, o)
      PROVE  RefusalsBehind'
  <2>1. CASE /\ opinion[s] = "unconfirmed"
            /\ opinion' = [opinion EXCEPT ![s] = o]
            /\ voted' = voted \cup {<<s, o>>}
    <3>1. \A r \in Slots : opinion'[r] = IF r = s THEN o ELSE opinion[r]
      BY <1>4, <2>1 DEF Vote
    <3> QED
      BY <1>0, <1>4, <2>1, <3>1 DEF Vote
  <2>2. CASE UNCHANGED <<opinion, voted>>
    BY <1>0, <1>4, <2>2 DEF Vote
  <2> QED
    BY <1>4, <2>1, <2>2 DEF Vote
<1>5. ASSUME NEW c \in closing, Close(c) PROVE RefusalsBehind'
  <2>1. ~rule.mobile => \A s \in Slots :
          \/ remark'[s] = "closed"
          \/ opinion'[s] = opinion[s] /\ remark'[s] = remark[s]
    BY <1>5 DEF Close
  <2>2. ret' = ret
    BY <1>5 DEF Close
  <2> QED
    BY <1>0, <2>1, <2>2
<1>6. ASSUME NEW c \in closing, CloseLost(c) PROVE RefusalsBehind'
  BY <1>0, <1>6 DEF CloseLost
<1>7. CASE UNCHANGED vars
  BY <1>7 DEF vars
<1> QED
  BY <1>1, <1>2, <1>3, <1>4, <1>5, <1>6, <1>7 DEF Next, Plugin, Answer
\* Where one voice is enough, everybody may still be the one until the step has
\* ended.
AllAsked ==
  ~rule.everyone /\ place # "end" => \A s \in Slots : UserOf[s] \in left

\* A round that goes on strikes nobody off.
LEMMA NextAsked == Inv /\ AllAsked /\ [Next]_vars => AllAsked'
<1> SUFFICES ASSUME Inv, AllAsked, [Next]_vars PROVE AllAsked'
  OBVIOUS
<1>0. rule' = rule /\ UserOf' = UserOf
  BY AgreedStays DEF UserOf
<1>1. CASE Insert
  BY <1>0, <1>1 DEF Insert, AllAsked
<1>2. CASE InsertDie
  BY <1>0, <1>2 DEF InsertDie, AllAsked
<1>3. CASE Look
  <2> SUFFICES ASSUME ~rule.everyone, place' # "end" PROVE left' = left
    BY <1>0, <1>3 DEF Look, AllAsked
  <2>1. left' # {}
    BY <1>3 DEF Look, Verdict
  <2> QED
    BY <1>3, <2>1 DEF Look, StillLeft
<1>4. CASE LookFails
  BY <1>0, <1>4 DEF LookFails, AllAsked
<1>5. CASE Answer
  BY <1>0, <1>5 DEF Answer, Vote, Close, CloseLost, AllAsked
<1>6. CASE UNCHANGED vars
  BY <1>0, <1>6 DEF vars, AllAsked
<1> QED
  BY <1>1, <1>2, <1>3, <1>4, <1>5, <1>6 DEF Next, Plugin
-----------------------------------------------------------------------------
\* The invariant holds in every state of every execution.
THEOREM Invariance == Spec => []Inv
<1>1. Inv /\ [Next]_vars => Inv'
  BY NextType, NextRows, NextOpen, NextVoices, NextBehind, NextSkipped DEF Inv
<1> QED
  BY InitInv, <1>1, PTL DEF Spec

\* Every variable keeps its type.
THEOREM TypeCorrect == Spec => []TypeOK
<1>1. Inv => TypeOK
  BY DEF Inv
<1> QED
  BY Invariance, <1>1, PTL

\* What an approver answered is never changed by another request or by the
\* closing of the rows (JOB/lib/api/approval.pm:55-56 and its likes).
THEOREM AnswersStay == Spec => []VoiceKept
<1>1. Inv => VoiceKept
  BY DEF Inv, VoicesKept, VoiceKept
<1> QED
  BY Invariance, <1>1, PTL

\* An approval is granted only by those who must agree
\* (JOB/code/plugin_approval:283-331): by all of them where everybody must, and,
\* off the mobile page, by one of them where one is enough, whoever sends
\* requests for rows that are not his.
THEOREM OnlyVotersGrant == Spec => []GrantedByVoters
<1>1. Inv => GrantedByVoters
  BY DEF Inv
<1> QED
  BY Invariance, <1>1, PTL

\* The step ends refused only if somebody refused, mobile page left aside
\* (JOB/code/plugin_approval:289).
THEOREM OnlyVotersRefuse == Spec => []RefusedByVoter
<1>1. Init => RefusalsBehind
  BY DEF Init, RefusalsBehind, RefusedByVoter
<1>2. RefusalsBehind => RefusedByVoter
  BY DEF RefusalsBehind
<1> QED
  BY Invariance, <1>1, <1>2, NextRefused, PTL DEF Spec

\* A refusal given before the deciding look is respected
\* (JOB/code/plugin_approval:299-304).
THEOREM RefusalIsFinal == Spec => RefusalStands
<1>1. Inv /\ [Next]_vars =>
        [ret = "none" /\ ret' = "success" =>
           \A s \in Slots : <<s, "refuse">> \notin voted]_vars
  <2> SUFFICES ASSUME Inv, [Next]_vars, ret = "none", ret' = "success"
               PROVE  \A s \in Slots : <<s, "refuse">> \notin voted
    OBVIOUS
  <2>1. Look
    BY DEF Next, Plugin, Answer, Insert, InsertDie, LookFails, Vote, Close,
           CloseLost, vars
  <2>2. Heard("refuse") = {}
    BY <2>1 DEF Look, Verdict
  <2> QED
    BY <2>2 DEF Heard, Inv, VoicesKept, Opinions
<1> QED
  BY Invariance, <1>1, PTL DEF Spec, RefusalStands

\* Where one voice is enough, the step does not run out of time over an answer
\* that was given (JOB/code/plugin_approval:287-331).
THEOREM VoicesHeard == Spec => VoiceHeard
<1>1. Init => AllAsked
  BY ConstantsAssumption DEF Init, AllAsked
<1>2. Inv /\ AllAsked /\ [Next]_vars =>
        [Look /\ ret' = "fail" /\ ~rule.everyone => voted = {}]_vars
  <2> SUFFICES ASSUME Inv, AllAsked, Look, ret' = "fail", ~rule.everyone
               PROVE  voted = {}
    OBVIOUS
  <2>1. Heard("refuse") = {} /\ StillLeft(Heard("agree")) # {}
    BY DEF Look, Verdict
  <2>2. Heard("agree") = {}
    <3> SUFFICES ASSUME NEW s \in Slots, s \in Heard("agree") PROVE FALSE
      BY DEF Heard
    <3>1. UserOf[s] \in left
      BY DEF AllAsked, Look
    <3> QED
      BY <2>1, <3>1 DEF StillLeft
  <2>3. ASSUME NEW v \in voted PROVE FALSE
    <3>1. PICK s \in Slots, o \in Opinions : v = <<s, o>>
      BY <2>3 DEF Inv, TypeOK
    <3>2. s \in Heard(o)
      BY <2>3, <3>1 DEF Heard, Inv, VoicesKept
    <3> QED
      BY <2>1, <2>2, <3>2 DEF Opinions
  <2> QED
    BY <2>3
<1> QED
  BY Invariance, <1>1, <1>2, NextAsked, PTL DEF Spec, VoiceHeard
=============================================================================
