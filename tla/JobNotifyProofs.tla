--------------------------- MODULE JobNotifyProofs ---------------------------
(***************************************************************************)
(* Proofs about JobNotify, for any tasks, daemons, mishaps and resets: the *)
(* types, and that nobody is told twice of the same thing.                 *)
(***************************************************************************)
EXTENDS JobNotify, TLAPS

\* A daemon that tells or marks has a row in hand.
HasRow == \A d \in Daemons : place[d] \in {"send", "mark"} => row[d] \in Claims

\* What was claimed at the last reset of a task: its notify is not 0 again.
Since(c) == c.at <= resets[c.task]
            /\ (c.at = resets[c.task] => notify[c.task] # 0)

ClaimsOld ==
  /\ \A c \in told : Since(c)
  /\ \A d \in Daemons : place[d] \in {"send", "mark"} => Since(row[d])

\* Two daemons have not claimed a row at the same reset.
ClaimsDiffer ==
  \A d, e \in Daemons :
    d # e /\ place[d] = "send" /\ place[e] = "send" =>
      row[d].task # row[e].task \/ row[d].at # row[e].at

TypeInv == TypeOK /\ HasRow
Inv     == TypeInv /\ ClaimsOld /\ ClaimsDiffer /\ ToldOnce
-----------------------------------------------------------------------------
\* The steps of a task keep the types of its row.
LEMMA JobTypes ==
  ASSUME TypeOK, NEW t \in Tasks,
         Job!Take(t) \/ Job!Ask(t) \/ Job!GoOn(t) \/ Job!Finish(t)
         \/ Job!Vanish(t) \/ Job!Bury(t)
  PROVE  /\ phase' \in [Tasks -> Statuses]
         /\ hand' \in [Tasks -> {"none", "live", "gone"}]
BY DEF TypeOK, Statuses, Job!Take, Job!Ask, Job!GoOn, Job!Finish, Job!Vanish,
       Job!Bury, Job!Ended

\* Every step keeps the type.
LEMMA NextType == TypeInv /\ [Next]_vars => TypeInv'
<1> SUFFICES ASSUME TypeInv, [Next]_vars PROVE TypeInv'
  OBVIOUS
<1> USE ConstantsAssumption DEF TypeInv, TypeOK, HasRow, histVars
<1>1. ASSUME NEW t \in Tasks, Change(t) PROVE TypeInv'
  <2>1. /\ phase' \in [Tasks -> Statuses]
        /\ hand' \in [Tasks -> {"none", "live", "gone"}]
    BY <1>1, JobTypes DEF Change
  <2>2. resets' \in [Tasks -> 0..MaxResets]
    BY <1>1 DEF Change
  <2>3. /\ notify' \in [Tasks -> 0..4]
        /\ UNCHANGED <<list, row, place, mishaps, told, dropped>>
    BY <1>1 DEF Change
  <2> QED
    BY <2>1, <2>2, <2>3
<1>2. ASSUME NEW t \in Tasks, End(t) PROVE TypeInv'
  <2>1. /\ phase' \in [Tasks -> Statuses]
        /\ hand' \in [Tasks -> {"none", "live", "gone"}]
    BY <1>2, JobTypes DEF End
  <2> QED
    BY <1>2, <2>1 DEF End
<1>3. ASSUME NEW d \in Daemons, Select(d) PROVE TypeInv'
  <2>1. {[task |-> t, status |-> phase[t]] :
           t \in {u \in Tasks : notify[u] = 0 /\ phase[u] \in Telling}}
        \subseteq Rows
    BY DEF Rows
  <2> QED
    BY <1>3, <2>1 DEF Select
<1>4. ASSUME NEW d \in Daemons, Claim(d) PROVE TypeInv'
  <2>1. PICK r \in list[d] :
          /\ list' = [list EXCEPT ![d] = @ \ {r}]
          /\ \/ /\ notify' = [notify EXCEPT ![r.task] = 1]
                /\ row' = [row EXCEPT ![d] = [task |-> r.task,
                             status |-> r.status, at |-> resets[r.task]]]
                /\ place' = [place EXCEPT ![d] = "send"]
                /\ UNCHANGED <<mishaps, dropped>>
             \/ /\ UNCHANGED mishaps \/ Fails
                /\ UNCHANGED <<notify, row, place, dropped>>
             \/ /\ Fails
                /\ notify' = [notify EXCEPT ![r.task] = 1]
                /\ dropped' = dropped \cup {[task |-> r.task,
                     status |-> r.status, at |-> resets[r.task]]}
                /\ UNCHANGED <<row, place>>
    BY <1>4 DEF Claim
  <2>2. r.task \in Tasks /\ r.status \in Telling
    BY <2>1 DEF Rows
  <2>3. [task |-> r.task, status |-> r.status, at |-> resets[r.task]] \in Claims
    BY <2>2 DEF Claims
  <2>4. mishaps' \in 0..MaxMishaps
    BY <2>1 DEF Fails
  <2>5. /\ list' \in [Daemons -> SUBSET Rows]
        /\ notify' \in [Tasks -> 0..4]
        /\ place' \in [Daemons -> {"select", "claim", "send", "mark"}]
        /\ row' \in [Daemons -> Claims \cup {NoRow}]
        /\ dropped' \subseteq Claims
    BY <2>1, <2>2, <2>3
  <2>6. HasRow'
    BY <2>1, <2>3
  <2> QED
    BY <1>4, <2>4, <2>5, <2>6 DEF Claim
<1>5. ASSUME NEW d \in Daemons, Sleep(d) PROVE TypeInv'
  BY <1>5 DEF Sleep
<1>6. ASSUME NEW d \in Daemons, Send(d) PROVE TypeInv'
  BY <1>6 DEF Send
<1>7. ASSUME NEW d \in Daemons, Mark(d) PROVE TypeInv'
  <2>1. row[d].task \in Tasks
    BY <1>7 DEF Mark, Claims
  <2>2. notify' \in [Tasks -> 0..4]
    BY <1>7, <2>1 DEF Mark
  <2>3. mishaps' \in 0..MaxMishaps
    BY <1>7 DEF Mark, Fails
  <2> QED
    BY <1>7, <2>2, <2>3 DEF Mark
<1>8. ASSUME NEW d \in Daemons, Die(d) PROVE TypeInv'
  BY <1>8 DEF Die, Fails
<1>9. CASE UNCHANGED vars
  BY <1>9 DEF vars
<1> QED
  BY <1>1, <1>2, <1>3, <1>4, <1>5, <1>6, <1>7, <1>8, <1>9 DEF Next, Tell

\* Nobody has claimed anything at first.
LEMMA InitInv == Init => Inv
<1> SUFFICES ASSUME Init PROVE Inv
  OBVIOUS
<1> USE ConstantsAssumption
<1>1. TypeOK
  BY DEF Init, TypeOK, Job!Init, Statuses
<1> QED
  BY <1>1 DEF Init, Inv, TypeInv, HasRow, ClaimsOld, ClaimsDiffer, ToldOnce

\* Claims are about a task and a reset.
LEMMA ClaimFields ==
  ASSUME NEW c \in Claims
  PROVE  c.task \in Tasks /\ c.at \in Nat
BY ConstantsAssumption DEF Claims

\* A claim stays old: notify becomes 0 only with a new reset.
LEMMA NextOld == Inv /\ [Next]_vars => ClaimsOld'
<1> SUFFICES ASSUME Inv, [Next]_vars PROVE ClaimsOld'
  OBVIOUS
<1>0. TypeInv'
  BY NextType DEF Inv
<1> USE DEF Inv, TypeInv, TypeOK, HasRow, ClaimsOld, Since, histVars
<1>1. ASSUME NEW t \in Tasks, Change(t) PROVE ClaimsOld'
  <2>1. /\ \A u \in Tasks : u # t => resets'[u] = resets[u]
                                     /\ notify'[u] = notify[u]
        /\ resets'[t] = resets[t] + 1
        /\ told' = told /\ row' = row /\ place' = place
    BY <1>1 DEF Change
  <2>2. ASSUME NEW c \in Claims, Since(c) PROVE Since(c)'
    BY <2>1, <2>2, ClaimFields, ConstantsAssumption
  <2> QED
    BY <2>1, <2>2
<1>2. ASSUME NEW t \in Tasks, End(t) PROVE ClaimsOld'
  BY <1>2 DEF End
<1>3. ASSUME NEW d \in Daemons, Select(d) PROVE ClaimsOld'
  BY <1>3 DEF Select
<1>4. ASSUME NEW d \in Daemons, Claim(d) PROVE ClaimsOld'
  <2>1. PICK r \in list[d] :
          \/ /\ notify' = [notify EXCEPT ![r.task] = 1]
             /\ row' = [row EXCEPT ![d] = [task |-> r.task,
                          status |-> r.status, at |-> resets[r.task]]]
             /\ place' = [place EXCEPT ![d] = "send"]
          \/ UNCHANGED <<notify, row, place>>
          \/ /\ notify' = [notify EXCEPT ![r.task] = 1]
             /\ UNCHANGED <<row, place>>
    BY <1>4 DEF Claim
  <2>2. resets' = resets /\ told' = told
    BY <1>4 DEF Claim
  <2>3. r.task \in Tasks
    BY <2>1 DEF Rows
  <2>4. ASSUME NEW c \in Claims, Since(c) PROVE Since(c)'
    BY <2>1, <2>2, <2>3, <2>4, ClaimFields
  <2>5. CASE UNCHANGED <<notify, row, place>>
    BY <2>2, <2>5
  <2>6. CASE /\ notify' = [notify EXCEPT ![r.task] = 1]
             /\ row' = [row EXCEPT ![d] = [task |-> r.task,
                          status |-> r.status, at |-> resets[r.task]]]
             /\ place' = [place EXCEPT ![d] = "send"]
    <3>1. /\ row'[d].at <= resets'[row'[d].task]
          /\ notify'[row'[d].task] # 0
      BY <2>2, <2>3, <2>6, ConstantsAssumption
    <3>2. \A e \in Daemons : e # d => row'[e] = row[e] /\ place'[e] = place[e]
      BY <2>6
    <3> QED
      BY <2>2, <2>4, <3>1, <3>2
  <2>7. CASE /\ notify' = [notify EXCEPT ![r.task] = 1]
             /\ UNCHANGED <<row, place>>
    BY <2>2, <2>4, <2>7
  <2> QED
    BY <2>1, <2>5, <2>6, <2>7
<1>5. ASSUME NEW d \in Daemons, Sleep(d) PROVE ClaimsOld'
  BY <1>5 DEF Sleep
<1>6. ASSUME NEW d \in Daemons, Send(d) PROVE ClaimsOld'
  BY <1>6 DEF Send
<1>7. ASSUME NEW d \in Daemons, Mark(d) PROVE ClaimsOld'
  <2>1. \A t \in Tasks : notify[t] # 0 => notify'[t] # 0
    BY <1>7 DEF Mark, Claims
  <2>2. resets' = resets /\ told' = told
    BY <1>7 DEF Mark
  <2>3. ASSUME NEW c \in Claims, Since(c) PROVE Since(c)'
    BY <2>1, <2>2, <2>3, ClaimFields
  <2>4. \A e \in Daemons : place'[e] \in {"send", "mark"} =>
          row'[e] = row[e] /\ place'[e] = place[e]
    BY <1>7 DEF Mark
  <2> QED
    BY <2>2, <2>3, <2>4
<1>8. ASSUME NEW d \in Daemons, Die(d) PROVE ClaimsOld'
  BY <1>8 DEF Die
<1>9. CASE UNCHANGED vars
  BY <1>9 DEF vars
<1> QED
  BY <1>1, <1>2, <1>3, <1>4, <1>5, <1>6, <1>7, <1>8, <1>9 DEF Next, Tell

\* A row is claimed by one daemon at each reset, and told by it alone: it claims
\* a row whose notify is 0, of which nobody has a claim since the reset.
LEMMA NextOnce == Inv /\ [Next]_vars => ClaimsDiffer' /\ ToldOnce'
<1> SUFFICES ASSUME Inv, [Next]_vars PROVE ClaimsDiffer' /\ ToldOnce'
  OBVIOUS
<1> USE DEF Inv, TypeInv, TypeOK, ClaimsDiffer, ToldOnce, histVars
<1>1. ASSUME NEW d \in Daemons, Claim(d) PROVE ClaimsDiffer' /\ ToldOnce'
  <2>1. PICK r \in list[d] :
          \/ /\ notify[r.task] = 0
             /\ row' = [row EXCEPT ![d] = [task |-> r.task,
                          status |-> r.status, at |-> resets[r.task]]]
             /\ place' = [place EXCEPT ![d] = "send"]
          \/ UNCHANGED <<row, place>>
    BY <1>1 DEF Claim
  <2>2. told' = told
    BY <1>1 DEF Claim
  <2>3. CASE UNCHANGED <<row, place>>
    BY <2>2, <2>3
  <2>4. CASE /\ notify[r.task] = 0
             /\ row' = [row EXCEPT ![d] = [task |-> r.task,
                          status |-> r.status, at |-> resets[r.task]]]
             /\ place' = [place EXCEPT ![d] = "send"]
    <3>1. /\ row'[d].task = r.task /\ row'[d].at = resets[r.task]
          /\ \A e \in Daemons : e # d => row'[e] = row[e]
                                         /\ place'[e] = place[e]
      BY <2>4
    <3>2. \A c : Since(c) => c.task # r.task \/ c.at # resets[r.task]
      BY <2>4 DEF Since
    <3>3. \A e \in Daemons : e # d /\ place[e] = "send" => Since(row[e])
      BY DEF ClaimsOld
    <3>4. \A c \in told : Since(c)
      BY DEF ClaimsOld
    <3> QED
      BY <2>2, <3>1, <3>2, <3>3, <3>4
  <2> QED
    BY <2>1, <2>3, <2>4
<1>2. ASSUME NEW d \in Daemons, Send(d) PROVE ClaimsDiffer' /\ ToldOnce'
  <2>1. /\ told' = told \cup {row[d]} /\ row' = row /\ place[d] = "send"
        /\ \A e \in Daemons : place'[e] = "send" =>
             e # d /\ place[e] = "send"
    BY <1>2 DEF Send
  <2> QED
    BY <2>1
<1>3. ASSUME NEW d \in Daemons, Select(d) \/ Sleep(d) \/ Mark(d) \/ Die(d)
      PROVE  ClaimsDiffer' /\ ToldOnce'
  <2>1. told' = told /\ \A e \in Daemons : place'[e] = "send" =>
                          place[e] = "send" /\ row'[e] = row[e]
    BY <1>3 DEF Select, Sleep, Mark, Die
  <2> QED
    BY <2>1
<1>4. ASSUME NEW t \in Tasks, Change(t) \/ End(t)
      PROVE  ClaimsDiffer' /\ ToldOnce'
  BY <1>4 DEF Change, End
<1>5. CASE UNCHANGED vars
  BY <1>5 DEF vars
<1> QED
  BY <1>1, <1>2, <1>3, <1>4, <1>5 DEF Next, Tell
-----------------------------------------------------------------------------
\* The invariant holds in every state of every execution.
THEOREM Invariance == Spec => []Inv
<1>1. Inv /\ [Next]_vars => Inv'
  BY NextType, NextOld, NextOnce DEF Inv
<1> QED
  BY InitInv, <1>1, PTL DEF Spec

\* Every variable keeps its type.
THEOREM TypeCorrect == Spec => []TypeOK
<1>1. Inv => TypeOK
  BY DEF Inv, TypeInv
<1> QED
  BY Invariance, <1>1, PTL

\* However many daemons read a row, and whenever one of them dies, users are
\* told at most once per reset (JOB/code/server/notify:69-71).
THEOREM NobodyToldTwice == Spec => []ToldOnce
<1>1. Inv => ToldOnce
  BY DEF Inv
<1> QED
  BY Invariance, <1>1, PTL
=============================================================================
