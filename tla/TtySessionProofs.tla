--------------------------- MODULE TtySessionProofs ---------------------------
(***************************************************************************)
(* Every safety property of the web shell holds for any number of pages,   *)
(* ids, tabs and connections.  The inductive invariant says of a connected *)
(* page that it and its session agree (View, of TtyViewProofs), of another *)
(* one what it has kept to send, and of the server that a terminal is      *)
(* listed where it belongs.                                                *)
(***************************************************************************)
EXTENDS TtyViewProofs, FiniteSetTheorems

\* Terminal i exists and is one of session s.
Has(i, s) == pty[i].st # "free" /\ pty[i].of = s

\* The tabs that the terminals of the page were made for, and the live ones.
Own(p)   == [i \in Ids |-> IF Has(i, Current(p)) THEN pty[i].tab ELSE NoTab]
Alive(p) == {i \in Ids : Has(i, Current(p)) /\ pty[i].st = "up"}

PageView(p) ==
  View(p, tabs[p], terms[p], up[Current(p)], down[Current(p)], Own(p),
       Alive(p))

\* What a page without a connection has kept to send.
Kept(p) ==
  /\ CreatesFresh(p, tabs[p], buffer[p])
  /\ \A n \in 1..Len(buffer[p]) :
       buffer[p][n].m = "data" => buffer[p][n].offline # FALSE

PageInv(p) ==
  /\ \A k \in UseTab : tabs[p][k].st = "none" => tabs[p][k].id = NoId
  /\ linked[p] => /\ buffer[p] = <<>> /\ conns[p] > 0
                  /\ session[Current(p)] = "open" /\ PageView(p)
  /\ ~linked[p] => Kept(p)

\* A live terminal is listed by its session, which is open; a listed one is
\* there; of a connection to come there is nothing yet.
SessInv ==
  /\ \A i \in Ids : pty[i].st = "up" =>
       session[pty[i].of] = "open" /\ i \in listed[pty[i].of]
  /\ \A s \in Session : \A i \in listed[s] : Has(i, s)
  /\ \A s \in Session : s[2] > conns[s[1]] =>
       session[s] = "none" /\ down[s] = <<>> /\ \A i \in Ids : ~Has(i, s)

Inv == TypeOK /\ SessInv /\ \A p \in Pages : PageInv(p)

-----------------------------------------------------------------------------
(* Types.                                                                  *)

\* The current connection of a page is a session, once it has one.
LEMMA CurrentIs ==
  ASSUME TypeOK, NEW p \in Pages, conns[p] > 0
  PROVE  Current(p) \in Session
BY TtyAssumption DEF TypeOK, Current, Session

\* A session is a page and the number of its connection.
LEMMA SessionIs ==
  ASSUME NEW s \in Session
  PROVE  s = <<s[1], s[2]>> /\ s[1] \in Pages /\ s[2] \in 1..MaxConns
BY DEF Session

\* A terminal that exists has a session and a tab.
LEMMA PtyFields ==
  ASSUME NEW x \in PtyRow \cup {FreePty}
  PROVE  /\ x.st \in {"free", "up", "closing"}
         /\ x.st # "free" => x \in PtyRow /\ x.of \in Session /\ x.tab \in Tab
BY DEF PtyRow, FreePty

\* A terminal that is destroyed keeps its session and its tab.
LEMMA PtyChanged ==
  ASSUME NEW x \in PtyRow
  PROVE  /\ [x EXCEPT !.st = "closing"] \in PtyRow
         /\ [x EXCEPT !.st = "closing"].st = "closing"
         /\ [x EXCEPT !.st = "closing"].of = x.of
         /\ [x EXCEPT !.st = "closing"].tab = x.tab
BY DEF PtyRow

\* The row of a new terminal.
LEMMA PtyMade ==
  ASSUME NEW s \in Session, NEW k \in Tab
  PROVE  [st |-> "up", of |-> s, tab |-> k] \in PtyRow
BY DEF PtyRow

\* What is sent by either side.
LEMMA Sent ==
  ASSUME NEW p \in Pages, NEW k \in UseTab
  PROVE  /\ Create(<<p, k>>) \in UpMessage
         /\ \A i \in Ids \cup {NoId}, off \in BOOLEAN :
              /\ Named("kill", i, <<p, k>>, off) \in UpMessage
              /\ Named("data", i, <<p, k>>, off) \in UpMessage
BY TabMade DEF Create, Named, UpMessage

\* What the server tells.
LEMMA Answers ==
  ASSUME NEW i \in Ids \cup {NoId}, NEW k \in Tab
  PROVE  /\ Answer(i, k) \in DownMessage
         /\ i # NoId => /\ [m |-> "kill", id |-> i, tab |-> k] \in DownMessage
                        /\ [m |-> "data", id |-> i, tab |-> k] \in DownMessage
BY DEF Answer, DownMessage

\* Emit keeps the types.
LEMMA EmitTypes ==
  ASSUME TypeOK, NEW p \in Pages, linked[p] => conns[p] > 0,
         NEW msg \in UpMessage, Emit(p, msg)
  PROVE  /\ buffer' \in [Pages -> Seq(UpMessage)]
         /\ up' \in [Session -> Seq(UpMessage)]
<1>1. CASE linked[p]
  <2>1. Current(p) \in Session
    BY <1>1, CurrentIs
  <2>2. Append(up[Current(p)], msg) \in Seq(UpMessage)
    BY <2>1 DEF TypeOK
  <2> QED
    BY <1>1, <2>2 DEF TypeOK, Emit
<1>2. CASE ~linked[p]
  <2>1. Append(buffer[p], msg) \in Seq(UpMessage)
    BY DEF TypeOK
  <2> QED
    BY <1>2, <2>1 DEF TypeOK, Emit
<1> QED
  BY <1>1, <1>2

\* Tell keeps the types.
LEMMA TellTypes ==
  ASSUME TypeOK, NEW s \in Session, NEW msg \in DownMessage, Tell(s, msg)
  PROVE  down' \in [Session -> Seq(DownMessage)]
<1>1. Append(down[s], msg) \in Seq(DownMessage)
  BY DEF TypeOK
<1> QED
  BY <1>1 DEF TypeOK, Tell

\* Destroy keeps the types.
LEMMA DestroyTypes ==
  ASSUME TypeOK, NEW S, Destroy(S)
  PROVE  pty' \in [Ids -> PtyRow \cup {FreePty}]
<1>1. \A i \in Ids : pty[i].st = "up" =>
        [pty[i] EXCEPT !.st = "closing"] \in PtyRow
  BY PtyFields, PtyChanged DEF TypeOK
<1> QED
  BY <1>1 DEF TypeOK, Destroy

\* The tabs of a page, and what becomes of one.
LEMMA Rows ==
  ASSUME TypeOK, NEW p \in Pages
  PROVE  /\ tabs[p] \in [UseTab -> TabRow]
         /\ terms[p] \in [Ids -> Tab \cup {NoTab}]
         /\ \A k \in UseTab : /\ tabs[p][k] \in TabRow
                              /\ tabs[p][k].id \in Ids \cup {NoId}
         /\ \A b \in BOOLEAN : (~b) \in BOOLEAN
         /\ linked[p] \in BOOLEAN
<1>1. \A x \in TabRow : x.id \in Ids \cup {NoId}
  BY DEF TabRow
<1>2. tabs[p] \in [UseTab -> TabRow]
  BY DEF TypeOK, UseTab
<1>3. terms[p] \in [Ids -> Tab \cup {NoTab}]
  <2>1. terms \in [Pages -> [Ids -> Tab \cup {NoTab}]]
    BY DEF TypeOK
  <2> QED
    BY <2>1
<1>4. linked[p] \in BOOLEAN
  BY Zenon DEF TypeOK
<1>5. \A b \in BOOLEAN : (~b) \in BOOLEAN
  OBVIOUS
<1>6. \A k \in UseTab : tabs[p][k] \in TabRow
  BY <1>2
<1> HIDE DEF UseTab
<1> QED
  BY <1>1, <1>2, <1>3, <1>4, <1>5, <1>6, Zenon

\* A tab with another state, or with an id.
LEMMA RowMade ==
  ASSUME NEW x \in TabRow
  PROVE  /\ \A st \in {"open", "closed"} : [x EXCEPT !.st = st] \in TabRow
         /\ \A i \in Ids : [x EXCEPT !.id = i] \in TabRow
BY DEF TabRow

\* A page that is connected has made a connection.
LinkedConns == \A p \in Pages : linked[p] => conns[p] > 0

\* Opening a tab keeps the types.
LEMMA NewTabTypes ==
  ASSUME TypeOK, LinkedConns, NEW p \in Pages, NewTab(p)
  PROVE  TypeOK'
<1>1. PICK k \in UseTab : /\ tabs' = [tabs EXCEPT ![p][k].st = "open"]
                          /\ Emit(p, Create(<<p, k>>))
  BY DEF NewTab, UseTab
<1>2. /\ buffer' \in [Pages -> Seq(UpMessage)]
      /\ up' \in [Session -> Seq(UpMessage)]
  BY <1>1, Sent, EmitTypes DEF LinkedConns
<1>3. tabs' \in [Pages -> [1..MaxTabs -> TabRow]]
  <2>1. [tabs[p][k] EXCEPT !.st = "open"] \in TabRow
    BY Rows, RowMade
  <2>2. tabs' = [tabs EXCEPT ![p] =
                   [tabs[p] EXCEPT ![k] = [tabs[p][k] EXCEPT !.st = "open"]]]
    BY <1>1
  <2>3. [tabs[p] EXCEPT ![k] = [tabs[p][k] EXCEPT !.st = "open"]]
          \in [UseTab -> TabRow]
    BY <2>1, Rows
  <2> QED
    BY <2>2, <2>3 DEF TypeOK, UseTab
<1> QED
  BY <1>2, <1>3 DEF TypeOK, NewTab

\* Destroying a tab keeps the types.
LEMMA ForgetTypes ==
  ASSUME TypeOK, NEW p \in Pages, NEW k \in UseTab, Forget(p, k)
  PROVE  /\ tabs' \in [Pages -> [1..MaxTabs -> TabRow]]
         /\ terms' \in [Pages -> [Ids -> Tab \cup {NoTab}]]
<1>1. /\ tabs' = [tabs EXCEPT ![p] = Dropped(tabs[p], k)]
      /\ Dropped(tabs[p], k) \in [UseTab -> TabRow]
  BY Rows, DroppedIs DEF Forget, Dropped
<1>2. [i \in Ids |-> IF i = tabs[p][k].id THEN NoTab ELSE terms[p][i]]
        \in [Ids -> Tab \cup {NoTab}]
  BY DEF TypeOK
<1> QED
  <2>1. tabs' \in [Pages -> [1..MaxTabs -> TabRow]]
    BY <1>1 DEF TypeOK, UseTab
  <2>2. terms' \in [Pages -> [Ids -> Tab \cup {NoTab}]]
    BY <1>2 DEF TypeOK, Forget
  <2> QED
    BY <2>1, <2>2

\* Closing a tab keeps the types.
LEMMA CloseTabTypes ==
  ASSUME TypeOK, LinkedConns, NEW p \in Pages, CloseTab(p)
  PROVE  TypeOK'
<1>1. PICK k \in UseTab :
        Forget(p, k) /\ Emit(p, Named("kill", tabs[p][k].id, <<p, k>>,
                                      ~linked[p]))
  BY DEF CloseTab, OpenTabs, UseTab
<1>2. tabs[p][k].id \in Ids \cup {NoId} /\ (~linked[p]) \in BOOLEAN
  BY Rows
<1>3. /\ buffer' \in [Pages -> Seq(UpMessage)]
      /\ up' \in [Session -> Seq(UpMessage)]
  BY <1>1, <1>2, Sent, EmitTypes DEF LinkedConns
<1>4. /\ tabs' \in [Pages -> [1..MaxTabs -> TabRow]]
      /\ terms' \in [Pages -> [Ids -> Tab \cup {NoTab}]]
  BY <1>1, ForgetTypes
<1> QED
  BY <1>3, <1>4 DEF TypeOK, CloseTab

\* A key that is typed keeps the types.
LEMMA TypeTypes ==
  ASSUME TypeOK, LinkedConns, NEW p \in Pages, Type(p)
  PROVE  TypeOK'
<1>1. PICK k \in UseTab :
        Emit(p, Named("data", tabs[p][k].id, <<p, k>>, ~linked[p]))
  BY DEF Type, OpenTabs, UseTab
<1>2. tabs[p][k].id \in Ids \cup {NoId} /\ (~linked[p]) \in BOOLEAN
  BY Rows
<1>3. /\ buffer' \in [Pages -> Seq(UpMessage)]
      /\ up' \in [Session -> Seq(UpMessage)]
  BY <1>1, <1>2, Sent, EmitTypes DEF LinkedConns
<1>4. said' \in [Pages -> 0..MaxData]
  BY TtyAssumption DEF TypeOK, Type
<1> QED
  BY <1>3, <1>4 DEF TypeOK, Type


\* The kills of a reset are messages, each a kill.
LEMMA KillsAre ==
  ASSUME TypeOK, NEW p \in Pages, NEW q \in ResetKills(p)
  PROVE  q \in Seq(UpMessage) /\ \A n \in 1..Len(q) : q[n].m = "kill"
<1> DEFINE N == Cardinality(OpenTabs(p))
           Kill(k) == Named("kill", tabs[p][k].id, <<p, k>>, TRUE)
<1>1. PICK f \in [1..N -> OpenTabs(p)] : q = [n \in DOMAIN f |-> Kill(f[n])]
  BY DEF ResetKills
<1>2. N \in Nat
  <2>1. IsFiniteSet(1..MaxTabs)
    BY FS_Interval, TtyAssumption
  <2>2. IsFiniteSet(OpenTabs(p))
    BY <2>1, FS_Subset DEF OpenTabs
  <2> QED
    BY <2>2, FS_CardinalityType
<1>3. \A k \in OpenTabs(p) : Kill(k) \in UpMessage /\ Kill(k).m = "kill"
  <2>1. \A k \in OpenTabs(p) : k \in UseTab
    BY DEF OpenTabs, UseTab
  <2> QED
    BY <2>1, Rows, Sent DEF Named
<1> HIDE DEF N, Kill
<1>4. q \in [1..N -> UpMessage] /\ \A n \in 1..N : q[n].m = "kill"
  BY <1>1, <1>3
<1> QED
  BY <1>2, <1>4

\* What tty.reset leaves of the tabs.
Tidy(tb) == [k \in UseTab |-> IF tb[k].st = "open" THEN Gone(tb[k]) ELSE tb[k]]

\* A reset leaves no tab open and forgets every id.
LEMMA TidyIs ==
  ASSUME TypeOK, NEW p \in Pages, Reset(p)
  PROVE  /\ Tidy(tabs[p]) \in [UseTab -> TabRow]
         /\ tabs' = [tabs EXCEPT ![p] = Tidy(tabs[p])]
         /\ terms' = [terms EXCEPT ![p] = [i \in Ids |-> NoTab]]
<1>1. \A x \in TabRow : Gone(x) \in TabRow
  BY DEF Gone, TabRow
<1>2. Tidy(tabs[p]) \in [UseTab -> TabRow]
  BY <1>1, Rows DEF Tidy
<1>3. [k \in 1..MaxTabs |-> IF k \in OpenTabs(p) THEN Gone(tabs[p][k])
                                                 ELSE tabs[p][k]]
        = Tidy(tabs[p])
  BY DEF Tidy, OpenTabs, UseTab
<1> QED
  BY <1>2, <1>3 DEF Reset

\* Connecting keeps the types.
LEMMA ConnectTypes ==
  ASSUME TypeOK, NEW p \in Pages, Connect(p)
  PROVE  TypeOK'
<1> DEFINE s == <<p, conns[p] + 1>>
<1>1. s \in Session /\ conns[p] + 1 \in 0..MaxConns
  BY TtyAssumption DEF TypeOK, Connect, Session
<1>2. up' \in [Session -> Seq(UpMessage)]
  <2>1. PICK q \in ResetKills(p) : up' = [up EXCEPT ![s] = buffer[p] \o q]
    BY DEF Connect
  <2>2. buffer[p] \o q \in Seq(UpMessage)
    <3>1. q \in Seq(UpMessage) /\ buffer[p] \in Seq(UpMessage)
      BY KillsAre DEF TypeOK
    <3> QED
      BY <3>1
  <2> QED
    BY <2>1, <2>2 DEF TypeOK
<1>3. /\ tabs' \in [Pages -> [1..MaxTabs -> TabRow]]
      /\ terms' \in [Pages -> [Ids -> Tab \cup {NoTab}]]
  <2>1. /\ Tidy(tabs[p]) \in [UseTab -> TabRow]
        /\ tabs' = [tabs EXCEPT ![p] = Tidy(tabs[p])]
        /\ terms' = [terms EXCEPT ![p] = [i \in Ids |-> NoTab]]
    BY TidyIs DEF Connect
  <2>2. tabs' \in [Pages -> [1..MaxTabs -> TabRow]]
    BY <2>1 DEF TypeOK, UseTab
  <2>3. terms' \in [Pages -> [Ids -> Tab \cup {NoTab}]]
    BY <2>1 DEF TypeOK
  <2> QED
    BY <2>2, <2>3
<1>4. buffer' \in [Pages -> Seq(UpMessage)]
  <2>1. <<>> \in Seq(UpMessage)
    OBVIOUS
  <2> QED
    BY <2>1 DEF TypeOK, Connect
<1>5. /\ conns' \in [Pages -> 0..MaxConns] /\ linked' \in [Pages -> BOOLEAN]
      /\ session' \in [Session -> {"none", "open", "ended"}]
  BY <1>1 DEF TypeOK, Connect
<1> QED
  BY <1>2, <1>3, <1>4, <1>5 DEF TypeOK, Connect

\* Losing the connection keeps the types.
LEMMA LinkLostTypes ==
  ASSUME TypeOK, LinkedConns, NEW p \in Pages, LinkLost(p)
  PROVE  TypeOK'
<1>1. Current(p) \in Session
  BY CurrentIs DEF LinkedConns, LinkLost
<1>2. PICK n \in 0..Len(up[Current(p)]) :
        up' = [up EXCEPT ![Current(p)] = SubSeq(@, 1, n)]
  BY DEF LinkLost
<1>3. up' \in [Session -> Seq(UpMessage)]
  <2>1. up[Current(p)] \in Seq(UpMessage)
    BY <1>1 DEF TypeOK
  <2>2. SubSeq(up[Current(p)], 1, n) \in Seq(UpMessage)
    BY <1>2, <2>1
  <2> QED
    BY <1>2, <2>2 DEF TypeOK
<1>4. down' \in [Session -> Seq(DownMessage)]
  <2>1. <<>> \in Seq(DownMessage)
    OBVIOUS
  <2> QED
    BY <2>1 DEF TypeOK, LinkLost
<1>5. linked' \in [Pages -> BOOLEAN]
  BY DEF TypeOK, LinkLost
<1> QED
  BY <1>3, <1>4, <1>5 DEF TypeOK, LinkLost

\* The message a page receives, and what is left.
LEMMA ReceivesTypes ==
  ASSUME TypeOK, LinkedConns, NEW p \in Pages, NEW m, Receives(p, m)
  PROVE  /\ Current(p) \in Session /\ Head(down[Current(p)]) \in DownMessage
         /\ Head(down[Current(p)]).m = m
         /\ down' \in [Session -> Seq(DownMessage)]
<1>1. Current(p) \in Session
  BY CurrentIs DEF LinkedConns, Receives
<1>2. down[Current(p)] \in Seq(DownMessage) /\ down[Current(p)] # <<>>
  BY <1>1 DEF TypeOK, Receives
<1>3. /\ Tail(down[Current(p)]) \in Seq(DownMessage)
      /\ Head(down[Current(p)]) \in DownMessage
  BY <1>2, TailIs
<1> QED
  BY <1>1, <1>3 DEF TypeOK, Receives

\* The answer to create keeps the types.
LEMMA AnsweredTypes ==
  ASSUME TypeOK, LinkedConns, NEW p \in Pages, Answered(p)
  PROVE  TypeOK'
<1> DEFINE msg == Head(down[Current(p)])
           k   == msg.tab[2]
<1>1. /\ msg \in DownMessage /\ down' \in [Session -> Seq(DownMessage)]
  BY ReceivesTypes DEF Answered
<1>2. k \in UseTab /\ msg.id \in Ids \cup {NoId} /\ <<p, k>> \in Tab
  BY <1>1, DownFields DEF Tab, UseTab
<1>3. /\ tabs' \in [Pages -> [1..MaxTabs -> TabRow]]
      /\ terms' \in [Pages -> [Ids -> Tab \cup {NoTab}]]
  <2>1. CASE msg.id = NoId
    <3> DEFINE st == IF tabs[p][k].st = "open" THEN "closed"
                                               ELSE tabs[p][k].st
               x  == [tabs[p][k] EXCEPT !.st = st]
    <3>1. x \in TabRow
      <4>1. \A y \in TabRow : y.st # "open" => [y EXCEPT !.st = y.st] = y
        BY DEF TabRow
      <4>2. tabs[p][k] \in TabRow
        BY <1>2, Rows
      <4>3. CASE tabs[p][k].st = "open"
        BY <4>2, <4>3, RowMade
      <4>4. CASE tabs[p][k].st # "open"
        BY <4>1, <4>2, <4>4
      <4> QED
        BY <4>3, <4>4
    <3>2. tabs' = [tabs EXCEPT ![p] = [tabs[p] EXCEPT ![k] = x]]
      BY <2>1 DEF Answered
    <3>3. [tabs[p] EXCEPT ![k] = x] \in [UseTab -> TabRow]
      BY <3>1, Rows
    <3> QED
      BY <2>1, <3>2, <3>3 DEF Answered, TypeOK, UseTab
  <2>2. CASE msg.id # NoId
    <3> DEFINE x == [tabs[p][k] EXCEPT !.id = msg.id]
    <3>1. x \in TabRow
      BY <1>2, <2>2, Rows, RowMade
    <3>2. /\ tabs' = [tabs EXCEPT ![p] = [tabs[p] EXCEPT ![k] = x]]
          /\ terms' = [terms EXCEPT ![p] =
                         [terms[p] EXCEPT ![msg.id] = <<p, k>>]]
      BY <2>2 DEF Answered
    <3>3. /\ [tabs[p] EXCEPT ![k] = x] \in [UseTab -> TabRow]
          /\ [terms[p] EXCEPT ![msg.id] = <<p, k>>]
               \in [Ids -> Tab \cup {NoTab}]
      BY <1>2, <2>2, <3>1, Rows
    <3> QED
      BY <3>2, <3>3 DEF TypeOK, UseTab
  <2> QED
    BY <2>1, <2>2
<1> QED
  BY <1>1, <1>3 DEF TypeOK, Answered

\* Word of the end of a terminal keeps the types.
LEMMA KilledTypes ==
  ASSUME TypeOK, LinkedConns, NEW p \in Pages, Killed(p)
  PROVE  TypeOK'
<1> DEFINE msg == Head(down[Current(p)])
           k   == terms[p][msg.id]
<1>1. /\ msg \in DownMessage /\ msg.m = "kill"
      /\ down' \in [Session -> Seq(DownMessage)]
  BY ReceivesTypes DEF Killed
<1>2. msg.id \in Ids
  BY <1>1, DownFields
<1>3. k # NoTab => k[2] \in UseTab
  BY <1>2, Rows DEF Tab, UseTab
<1>4. /\ tabs' \in [Pages -> [1..MaxTabs -> TabRow]]
      /\ terms' \in [Pages -> [Ids -> Tab \cup {NoTab}]]
  <2>1. CASE k # NoTab /\ Forget(p, k[2])
    BY <1>3, <2>1, ForgetTypes
  <2>2. CASE UNCHANGED <<tabs, terms>>
    BY <2>2 DEF TypeOK
  <2> QED
    BY <2>1, <2>2 DEF Killed
<1> QED
  BY <1>1, <1>4 DEF TypeOK, Killed

\* Output of a terminal keeps the types.
LEMMA OutputTypes ==
  ASSUME TypeOK, LinkedConns, NEW p \in Pages, Output(p)
  PROVE  TypeOK'
<1>1. down' \in [Session -> Seq(DownMessage)]
  BY ReceivesTypes DEF Output
<1> QED
  BY <1>1 DEF TypeOK, Output

\* The message the server handles, and what is left.
LEMMA HandlesTypes ==
  ASSUME TypeOK, NEW s \in Session, NEW m, Handles(s, m)
  PROVE  /\ Head(up[s]) \in UpMessage /\ Head(up[s]).m = m
         /\ up' \in [Session -> Seq(UpMessage)]
<1>1. up[s] \in Seq(UpMessage) /\ up[s] # <<>>
  BY DEF TypeOK, Handles
<1>2. Tail(up[s]) \in Seq(UpMessage) /\ Head(up[s]) \in UpMessage
  BY <1>1, TailIs
<1> QED
  BY <1>2 DEF TypeOK, Handles

\* A create that is handled keeps the types.
LEMMA HandleCreateTypes ==
  ASSUME TypeOK, NEW s \in Session, HandleCreate(s)
  PROVE  TypeOK'
<1> DEFINE k == Head(up[s]).tab
<1>1. up' \in [Session -> Seq(UpMessage)] /\ Head(up[s]) \in UpMessage
  BY HandlesTypes DEF HandleCreate
<1>2. k \in Tab
  BY <1>1, UpFields
<1>3. CASE Tell(s, Answer(NoId, k)) /\ UNCHANGED <<listed, pty>>
  <2>1. down' \in [Session -> Seq(DownMessage)]
    BY <1>2, <1>3, Answers, TellTypes
  <2> QED
    BY <1>1, <1>3, <2>1 DEF TypeOK, HandleCreate
<1>4. ASSUME NEW i \in Ids,
             pty' = [pty EXCEPT ![i] = [st |-> "up", of |-> s, tab |-> k]],
             listed' = [listed EXCEPT ![s] = @ \cup {i}],
             Tell(s, Answer(i, k))
      PROVE  TypeOK'
  <2>1. down' \in [Session -> Seq(DownMessage)]
    BY <1>2, <1>4, Answers, TellTypes
  <2>2. pty' \in [Ids -> PtyRow \cup {FreePty}]
    BY <1>2, <1>4, PtyMade DEF TypeOK
  <2>3. listed' \in [Session -> SUBSET Ids]
    BY <1>4 DEF TypeOK
  <2> QED
    BY <1>1, <2>1, <2>2, <2>3 DEF TypeOK, HandleCreate
<1> QED
  BY <1>3, <1>4 DEF HandleCreate

\* A kill that is handled keeps the types.
LEMMA HandleKillTypes ==
  ASSUME TypeOK, NEW s \in Session, HandleKill(s)
  PROVE  TypeOK'
<1>1. up' \in [Session -> Seq(UpMessage)]
  BY HandlesTypes DEF HandleKill
<1>2. pty' \in [Ids -> PtyRow \cup {FreePty}]
  BY DestroyTypes DEF HandleKill
<1>3. listed' \in [Session -> SUBSET Ids]
  BY DEF TypeOK, HandleKill
<1> QED
  BY <1>1, <1>2, <1>3 DEF TypeOK, HandleKill

\* Input that is handled keeps the types.
LEMMA HandleDataTypes ==
  ASSUME TypeOK, NEW s \in Session, HandleData(s)
  PROVE  TypeOK'
<1>1. up' \in [Session -> Seq(UpMessage)]
  BY HandlesTypes DEF HandleData
<1> QED
  BY <1>1 DEF TypeOK, HandleData

\* A disconnect that is noticed keeps the types.
LEMMA HandleDisconnectTypes ==
  ASSUME TypeOK, NEW s \in Session, HandleDisconnect(s)
  PROVE  TypeOK'
<1>1. pty' \in [Ids -> PtyRow \cup {FreePty}]
  BY DestroyTypes DEF HandleDisconnect
<1>2. /\ listed' \in [Session -> SUBSET Ids]
      /\ session' \in [Session -> {"none", "open", "ended"}]
  BY DEF TypeOK, HandleDisconnect
<1> QED
  BY <1>1, <1>2 DEF TypeOK, HandleDisconnect

\* What terminals do of themselves keeps the types.
LEMMA ShellTypes ==
  ASSUME TypeOK, Shells
  PROVE  TypeOK'
<1>1. CASE ShellExits
  <2>1. pty' \in [Ids -> PtyRow \cup {FreePty}]
    BY <1>1, DestroyTypes DEF ShellExits
  <2> QED
    BY <1>1, <2>1 DEF TypeOK, ShellExits
<1>2. ASSUME NEW i \in Ids, pty[i].st # "free"
      PROVE  /\ pty[i].of \in Session
             /\ \A m \in {"data", "kill"} :
                  [m |-> m, id |-> i, tab |-> pty[i].tab] \in DownMessage
  BY <1>2, PtyFields, Answers, TtyAssumption DEF TypeOK
<1>3. CASE PtyClose
  <2>1. PICK i \in Ids :
          /\ pty[i].st = "closing"
          /\ Tell(pty[i].of, [m |-> "kill", id |-> i, tab |-> pty[i].tab])
          /\ listed' = [listed EXCEPT ![pty[i].of] = @ \ {i}]
          /\ pty' = [pty EXCEPT ![i] = FreePty]
    BY <1>3 DEF PtyClose
  <2>2. down' \in [Session -> Seq(DownMessage)]
    BY <1>2, <2>1, TellTypes
  <2>3. /\ listed' \in [Session -> SUBSET Ids]
        /\ pty' \in [Ids -> PtyRow \cup {FreePty}]
    BY <1>2, <2>1 DEF TypeOK
  <2> QED
    BY <1>3, <2>2, <2>3 DEF TypeOK, PtyClose
<1>4. CASE PtyOutput
  <2>1. PICK i \in Ids :
          /\ pty[i].st = "up"
          /\ said[pty[i].of[1]] < MaxData
          /\ said' = [said EXCEPT ![pty[i].of[1]] = @ + 1]
          /\ Tell(pty[i].of, [m |-> "data", id |-> i, tab |-> pty[i].tab])
    BY <1>4 DEF PtyOutput
  <2>2. down' \in [Session -> Seq(DownMessage)]
    BY <1>2, <2>1, TellTypes
  <2>3. said' \in [Pages -> 0..MaxData]
    <3>1. pty[i].of[1] \in Pages
      BY <1>2, <2>1, SessionIs
    <3> QED
      BY <2>1, <3>1, TtyAssumption DEF TypeOK
  <2> QED
    BY <1>4, <2>2, <2>3 DEF TypeOK, PtyOutput
<1> QED
  BY <1>1, <1>3, <1>4 DEF Shells

\* Every step keeps the types.
LEMMA TypeStep ==
  ASSUME TypeOK, LinkedConns, [Next]_vars
  PROVE  TypeOK'
<1>1. CASE UNCHANGED vars
  BY <1>1 DEF vars, TypeOK
<1>2. ASSUME NEW p \in Pages, User(p) \/ Client(p) \/ LinkLost(p)
      PROVE  TypeOK'
  BY <1>2, NewTabTypes, CloseTabTypes, TypeTypes, ConnectTypes, LinkLostTypes,
     AnsweredTypes, KilledTypes, OutputTypes
  DEF User, Client, OpenTab, AutoOpen
<1>3. ASSUME NEW s \in Session, Server(s) PROVE TypeOK'
  BY <1>3, HandleCreateTypes, HandleDataTypes, HandleKillTypes,
     HandleDisconnectTypes DEF Server
<1> QED
  BY <1>1, <1>2, <1>3, ShellTypes DEF Next


-----------------------------------------------------------------------------
(* The terminals of the server.                                            *)

\* Destroy ends no terminal and makes none.
LEMMA DestroyHas ==
  ASSUME TypeOK, NEW S, Destroy(S)
  PROVE  /\ \A i \in Ids : /\ pty'[i].of = pty[i].of \/ pty[i].st = "free"
                           /\ pty'[i].st = "free" <=> pty[i].st = "free"
                           /\ pty'[i].tab = pty[i].tab \/ pty[i].st = "free"
                           /\ pty'[i].st = "up" =>
                                pty[i].st = "up" /\ i \notin S
                           /\ i \notin S => pty'[i] = pty[i]
         /\ \A i \in Ids, s \in Session : Has(i, s)' <=> Has(i, s)
<1>1. \A i \in Ids :
        /\ pty'[i] = IF i \in S /\ pty[i].st = "up"
                     THEN [pty[i] EXCEPT !.st = "closing"] ELSE pty[i]
        /\ pty[i] \in PtyRow \cup {FreePty}
  BY DEF Destroy, TypeOK
<1>2. ASSUME NEW i \in Ids
      PROVE  /\ pty'[i].of = pty[i].of \/ pty[i].st = "free"
             /\ pty'[i].st = "free" <=> pty[i].st = "free"
             /\ pty'[i].tab = pty[i].tab \/ pty[i].st = "free"
             /\ pty'[i].st = "up" => pty[i].st = "up" /\ i \notin S
             /\ i \notin S => pty'[i] = pty[i]
  <2>1. CASE i \in S /\ pty[i].st = "up"
    <3>1. pty[i] \in PtyRow
      BY <1>1, <2>1, PtyFields
    <3> QED
      BY <1>1, <2>1, <3>1, PtyChanged
  <2>2. CASE ~(i \in S /\ pty[i].st = "up")
    BY <1>1, <2>2
  <2> QED
    BY <2>1, <2>2
<1> QED
  BY <1>2 DEF Has

\* What the server is told and the page does leaves its terminals alone.
LEMMA SessStays ==
  ASSUME SessInv, UNCHANGED <<conns, session, listed, pty>>,
         \A s \in Session : down[s] = <<>> => down'[s] = <<>>
  PROVE  SessInv'
BY DEF SessInv, Has

\* A new connection is a session without terminals.
LEMMA ConnectSess ==
  ASSUME TypeOK, SessInv, NEW p \in Pages, Connect(p)
  PROVE  SessInv'
<1> DEFINE s == <<p, conns[p] + 1>>
<1>1. /\ s \in Session /\ s[2] > conns[s[1]] /\ s[1] = p
      /\ conns' = [conns EXCEPT ![p] = @ + 1]
      /\ session' = [session EXCEPT ![s] = "open"]
      /\ UNCHANGED <<down, listed, pty>>
      /\ conns[p] \in Nat
  BY TtyAssumption DEF TypeOK, Connect, Session
<1>2. \A i \in Ids : pty[i].st = "up" => pty[i].of # s
  BY <1>1 DEF SessInv, Has
<1>3. \A i \in Ids : pty[i].st = "up" => pty[i].of \in Session
  BY PtyFields DEF TypeOK
<1>4. \A i \in Ids : pty'[i].st = "up" =>
        session'[pty'[i].of] = "open" /\ i \in listed'[pty'[i].of]
  BY <1>1, <1>2, <1>3 DEF SessInv, TypeOK
<1>5. \A z \in Session : \A i \in listed'[z] : Has(i, z)'
  BY <1>1 DEF SessInv, Has
<1>6. ASSUME NEW z \in Session, z[2] > conns'[z[1]]
      PROVE  session'[z] = "none" /\ down'[z] = <<>>
             /\ \A i \in Ids : ~Has(i, z)'
  <2>1. z = <<z[1], z[2]>> /\ z[1] \in Pages /\ z[2] \in Nat
    BY SessionIs
  <2>2. conns'[z[1]] = IF z[1] = p THEN conns[p] + 1 ELSE conns[z[1]]
    BY <1>1, <2>1 DEF TypeOK
  <2>3. z # s /\ z[2] > conns[z[1]]
    BY <1>1, <1>6, <2>1, <2>2
  <2>4. session[z] = "none" /\ down[z] = <<>> /\ \A i \in Ids : ~Has(i, z)
    BY <2>3 DEF SessInv
  <2> QED
    BY <1>1, <2>3, <2>4 DEF TypeOK, Has
<1> QED
  BY <1>4, <1>5, <1>6 DEF SessInv

\* A session that is open is one of a connection made.
LEMMA OpenMade ==
  ASSUME SessInv, NEW s \in Session,
         session[s] # "none" \/ \E i \in Ids : Has(i, s)
  PROVE  ~(s[2] > conns[s[1]])
BY DEF SessInv

\* Tell changes the messages of one session.
LEMMA TellOthers ==
  ASSUME TypeOK, NEW s \in Session, NEW msg, Tell(s, msg)
  PROVE  /\ \A z \in Session : z # s => down'[z] = down[z]
         /\ Uses(s) => down'[s] = Append(down[s], msg)
         /\ ~Uses(s) => down'[s] = down[s]
BY DEF Tell, TypeOK

\* A new terminal is listed by the session that asked for it.
LEMMA HandleCreateSess ==
  ASSUME TypeOK, SessInv, NEW s \in Session, HandleCreate(s)
  PROVE  SessInv'
<1> DEFINE k == Head(up[s]).tab
<1>1. session[s] = "open" /\ UNCHANGED <<conns, session>>
  BY DEF HandleCreate, Handles
<1>2. ~(s[2] > conns[s[1]])
  BY <1>1, OpenMade
<1>3. \A z \in Session : z # s => down'[z] = down[z]
  <2>1. PICK x : Tell(s, x)
    BY DEF HandleCreate
  <2> QED
    BY <2>1, TellOthers
<1>4. CASE UNCHANGED <<listed, pty>>
  BY <1>1, <1>2, <1>3, <1>4 DEF SessInv, Has
<1>5. ASSUME NEW i \in Ids, pty[i].st = "free",
             pty' = [pty EXCEPT ![i] = [st |-> "up", of |-> s, tab |-> k]],
             listed' = [listed EXCEPT ![s] = @ \cup {i}]
      PROVE  SessInv'
  <2>1. \A j \in Ids : j # i => pty'[j] = pty[j]
    BY <1>5 DEF TypeOK
  <2>2. pty'[i].st = "up" /\ pty'[i].of = s
    BY <1>5 DEF TypeOK
  <2>3. /\ listed'[s] = listed[s] \cup {i}
        /\ \A z \in Session : z # s => listed'[z] = listed[z]
    BY <1>5 DEF TypeOK
  <2>4. \A j \in Ids : pty[j].st = "up" => pty[j].of \in Session
    BY PtyFields DEF TypeOK
  <2>5. \A j \in Ids : pty'[j].st = "up" =>
          session'[pty'[j].of] = "open" /\ j \in listed'[pty'[j].of]
    BY <1>1, <2>1, <2>2, <2>3, <2>4 DEF SessInv
  <2>6. \A z \in Session : \A j \in listed'[z] : Has(j, z)'
    <3>1. \A z \in Session : \A j \in listed[z] : j \in Ids /\ j # i
      BY <1>5 DEF SessInv, Has, TypeOK
    <3> QED
      BY <2>1, <2>2, <2>3, <3>1 DEF SessInv, Has
  <2>7. ASSUME NEW z \in Session, z[2] > conns[z[1]]
        PROVE  session'[z] = "none" /\ down'[z] = <<>>
               /\ \A j \in Ids : ~Has(j, z)'
    <3>1. z # s
      BY <1>2, <2>7
    <3> QED
      BY <1>1, <1>3, <2>1, <2>2, <2>7, <3>1 DEF SessInv, Has
  <2> QED
    BY <1>1, <2>5, <2>6, <2>7 DEF SessInv
<1> QED
  BY <1>4, <1>5 DEF HandleCreate

\* The terminals in S are destroyed and listed no more.
LEMMA DestroySess ==
  ASSUME TypeOK, SessInv, NEW S, Destroy(S), NEW s \in Session,
         S \subseteq listed[s], conns' = conns, down' = down,
         listed'[s] = listed[s] \ S,
         \A z \in Session : z # s => listed'[z] = listed[z],
         \A z \in Session : z # s => session'[z] = session[z],
         \/ session'[s] = session[s]
         \/ session'[s] = "ended" /\ S = listed[s] /\ session[s] = "open"
  PROVE  SessInv'
<1>1. /\ \A i \in Ids :
           /\ pty'[i].st = "up" =>
                /\ pty[i].st = "up" /\ i \notin S /\ pty'[i] = pty[i]
                /\ pty[i].of \in Session
      /\ \A i \in Ids, z \in Session : Has(i, z)' <=> Has(i, z)
  BY DestroyHas, PtyFields DEF TypeOK
<1>2. /\ listed'[s] = listed[s] \ S
      /\ \A z \in Session : z # s => listed'[z] = listed[z]
      /\ \A z \in Session : listed[z] \subseteq Ids
  BY DEF TypeOK
<1>3. ASSUME NEW i \in Ids, pty'[i].st = "up"
      PROVE  session'[pty'[i].of] = "open" /\ i \in listed'[pty'[i].of]
  <2>1. /\ session[pty[i].of] = "open" /\ i \in listed[pty[i].of]
        /\ i \notin S /\ pty'[i] = pty[i] /\ pty[i].of \in Session
    BY <1>1, <1>3 DEF SessInv
  <2>2. S = listed[s] => pty[i].of # s
    BY <2>1
  <2>3. session'[pty[i].of] = "open"
    BY <2>1, <2>2
  <2> QED
    BY <1>2, <2>1, <2>3
<1>4. \A z \in Session : \A i \in listed'[z] : Has(i, z)'
  BY <1>1, <1>2 DEF SessInv
<1>5. ASSUME NEW z \in Session, z[2] > conns[z[1]]
      PROVE  session'[z] = "none" /\ down[z] = <<>>
             /\ \A i \in Ids : ~Has(i, z)'
  <2>1. session[z] = "none" /\ down[z] = <<>> /\ \A i \in Ids : ~Has(i, z)
    BY <1>5 DEF SessInv
  <2>2. session'[z] = "none"
    BY <1>5, <2>1, OpenMade
  <2> QED
    BY <1>1, <2>1, <2>2
<1> QED
  BY <1>3, <1>4, <1>5 DEF SessInv

\* A terminal whose shell ends stays listed until it has closed.
LEMMA ShellExitsSess ==
  ASSUME TypeOK, SessInv, ShellExits
  PROVE  SessInv'
<1>1. PICK i \in Ids : Destroy({i})
  BY DEF ShellExits
<1>2. /\ \A j \in Ids : pty'[j].st = "up" =>
           /\ pty[j].st = "up" /\ pty'[j] = pty[j]
      /\ \A j \in Ids, z \in Session : Has(j, z)' <=> Has(j, z)
  BY <1>1, DestroyHas
<1>3. \A z \in Session : listed[z] \subseteq Ids
  BY DEF TypeOK
<1>4. UNCHANGED <<conns, down, session, listed>>
  BY DEF ShellExits
<1> QED
  BY <1>2, <1>3, <1>4 DEF SessInv

\* A terminal that has closed is listed no more.
LEMMA PtyCloseSess ==
  ASSUME TypeOK, SessInv, PtyClose
  PROVE  SessInv'
<1>1. PICK i \in Ids :
        /\ pty[i].st = "closing"
        /\ Tell(pty[i].of, [m |-> "kill", id |-> i, tab |-> pty[i].tab])
        /\ listed' = [listed EXCEPT ![pty[i].of] = @ \ {i}]
        /\ pty' = [pty EXCEPT ![i] = FreePty]
        /\ UNCHANGED <<conns, session>>
  BY DEF PtyClose
<1> DEFINE s == pty[i].of
<1>2. s \in Session /\ Has(i, s)
  BY <1>1, PtyFields DEF TypeOK, Has
<1>3. ~(s[2] > conns[s[1]])
  BY <1>2, OpenMade
<1>4. /\ \A j \in Ids : j # i => pty'[j] = pty[j]
      /\ pty'[i].st = "free"
  BY <1>1 DEF TypeOK, FreePty
<1>5. /\ listed'[s] = listed[s] \ {i}
      /\ \A z \in Session : z # s => listed'[z] = listed[z]
      /\ \A z \in Session : listed[z] \subseteq Ids
  BY <1>1, <1>2 DEF TypeOK
<1>6. \A z \in Session : z # s => down'[z] = down[z]
  BY <1>1, <1>2, TellOthers
<1>7. \A j \in Ids : pty[j].st = "up" => pty[j].of \in Session
  BY PtyFields DEF TypeOK
<1>8. \A j \in Ids : pty'[j].st = "up" =>
        session'[pty'[j].of] = "open" /\ j \in listed'[pty'[j].of]
  BY <1>1, <1>4, <1>5, <1>7 DEF SessInv
<1>9. \A z \in Session : \A j \in listed'[z] : Has(j, z)'
  <2> SUFFICES ASSUME NEW z \in Session, NEW j \in listed'[z]
               PROVE  Has(j, z)'
    OBVIOUS
  <2>1. j \in listed[z] /\ j \in Ids
    BY <1>5
  <2>2. Has(j, z)
    BY <2>1 DEF SessInv
  <2>3. j # i
    BY <1>5, <2>2 DEF Has
  <2> QED
    BY <1>4, <2>1, <2>2, <2>3 DEF Has
<1>10. ASSUME NEW z \in Session, z[2] > conns[z[1]]
       PROVE  session'[z] = "none" /\ down'[z] = <<>>
              /\ \A j \in Ids : ~Has(j, z)'
  <2>1. z # s
    BY <1>3, <1>10
  <2> QED
    BY <1>1, <1>4, <1>6, <1>10, <2>1 DEF SessInv, Has
<1> QED
  BY <1>1, <1>8, <1>9, <1>10 DEF SessInv

\* Output changes no terminal.
LEMMA PtyOutputSess ==
  ASSUME TypeOK, SessInv, PtyOutput
  PROVE  SessInv'
<1>1. PICK i \in Ids :
        /\ pty[i].st = "up"
        /\ Tell(pty[i].of, [m |-> "data", id |-> i, tab |-> pty[i].tab])
        /\ UNCHANGED <<conns, session, listed, pty>>
  BY DEF PtyOutput
<1> DEFINE s == pty[i].of
<1>2. s \in Session /\ Has(i, s)
  BY <1>1, PtyFields DEF TypeOK, Has
<1>3. ~(s[2] > conns[s[1]])
  BY <1>2, OpenMade
<1>4. \A z \in Session : z # s => down'[z] = down[z]
  BY <1>1, <1>2, TellOthers
<1>5. ASSUME NEW z \in Session, z[2] > conns[z[1]]
      PROVE  session[z] = "none" /\ down'[z] = <<>>
             /\ \A j \in Ids : ~Has(j, z)
  BY <1>3, <1>4, <1>5 DEF SessInv
<1> QED
  BY <1>1, <1>5 DEF SessInv, Has

\* A page takes messages from those on their way, or loses them.
LEMMA PageSess ==
  ASSUME TypeOK, SessInv, LinkedConns, NEW p \in Pages,
         User(p) \/ Client(p) \/ LinkLost(p)
  PROVE  SessInv'
<1>1. CASE Connect(p)
  BY <1>1, ConnectSess
<1>2. ASSUME NEW m, Receives(p, m)
      PROVE  \A s \in Session : down[s] = <<>> => down'[s] = <<>>
  BY <1>2 DEF Receives, TypeOK
<1>3. ASSUME UNCHANGED <<conns, session, listed, pty>>,
             down' = down \/ \E m : Receives(p, m)
      PROVE  SessInv'
  BY <1>2, <1>3, SessStays
<1>4. CASE LinkLost(p)
  <2>1. \A s \in Session : down[s] = <<>> => down'[s] = <<>>
    BY <1>4 DEF LinkLost, TypeOK
  <2> QED
    BY <1>4, <2>1, SessStays DEF LinkLost
<1>5. CASE NewTab(p) \/ CloseTab(p) \/ Type(p)
  BY <1>3, <1>5 DEF NewTab, CloseTab, Type
<1>6. CASE Answered(p) \/ Killed(p) \/ Output(p)
  BY <1>3, <1>6 DEF Answered, Killed, Output
<1> QED
  BY <1>1, <1>4, <1>5, <1>6 DEF User, Client, OpenTab, AutoOpen

\* Every step keeps the terminals of the server where they belong.
LEMMA SessStep ==
  ASSUME TypeOK, SessInv, LinkedConns, [Next]_vars
  PROVE  SessInv'
<1>1. CASE UNCHANGED vars
  BY <1>1, SessStays DEF vars
<1>2. ASSUME NEW s \in Session, Server(s) PROVE SessInv'
  <2>1. CASE HandleData(s)
    BY <2>1, SessStays DEF HandleData
  <2>2. CASE HandleKill(s)
    <3>1. PICK S : S = {Head(up[s]).id} \cap listed[s]
      OBVIOUS
    <3>2. /\ Destroy(S) /\ S \subseteq listed[s] /\ listed'[s] = listed[s] \ S
          /\ \A z \in Session : z # s => listed'[z] = listed[z]
          /\ conns' = conns /\ down' = down /\ session' = session
      BY <2>2, <3>1 DEF HandleKill, TypeOK
    <3>3. /\ session'[s] = session[s]
          /\ \A z \in Session : z # s => session'[z] = session[z]
      BY <3>2
    <3> QED
      BY <3>2, <3>3, DestroySess
  <2>3. CASE HandleDisconnect(s)
    <3>1. PICK S : S = listed[s]
      OBVIOUS
    <3>2. /\ Destroy(S) /\ S \subseteq listed[s] /\ listed'[s] = listed[s] \ S
          /\ \A z \in Session : z # s => listed'[z] = listed[z]
          /\ \A z \in Session : z # s => session'[z] = session[z]
          /\ session'[s] = "ended" /\ session[s] = "open"
          /\ conns' = conns /\ down' = down
      BY <2>3, <3>1 DEF HandleDisconnect, TypeOK
    <3> QED
      BY <3>1, <3>2, DestroySess
  <2> QED
    BY <1>2, <2>1, <2>2, <2>3, HandleCreateSess DEF Server
<1>3. CASE Shells
  BY <1>3, ShellExitsSess, PtyCloseSess, PtyOutputSess DEF Shells
<1> QED
  BY <1>1, <1>2, <1>3, PageSess DEF Next


-----------------------------------------------------------------------------
(* The pages.                                                              *)

\* The terminals of a page are the same if none of its session changes.
LEMMA OwnStays ==
  ASSUME NEW p \in Pages, conns'[p] = conns[p],
         \A i \in Ids : \/ pty'[i] = pty[i]
                        \/ ~Has(i, Current(p)) /\ ~Has(i, Current(p))'
  PROVE  Own(p)' = Own(p) /\ Alive(p)' = Alive(p)
<1>1. Current(p)' = Current(p)
  BY DEF Current
<1>2. \A i \in Ids : /\ Has(i, Current(p))' <=> Has(i, Current(p))
                     /\ Has(i, Current(p)) => pty'[i] = pty[i]
  BY <1>1 DEF Has
<1> QED
  BY <1>2 DEF Own, Alive

\* A page that nothing happens to, and its session.
LEMMA PageStays ==
  ASSUME NEW p \in Pages, PageInv(p), linked'[p] = linked[p],
         conns'[p] = conns[p], tabs'[p] = tabs[p], terms'[p] = terms[p],
         buffer'[p] = buffer[p],
         linked[p] =>
           /\ up'[Current(p)] = up[Current(p)]
           /\ down'[Current(p)] = down[Current(p)]
           /\ session'[Current(p)] = session[Current(p)]
           /\ \A i \in Ids : \/ pty'[i] = pty[i]
                             \/ ~Has(i, Current(p)) /\ ~Has(i, Current(p))'
  PROVE  PageInv(p)'
<1>1. Current(p)' = Current(p)
  BY DEF Current
<1>2. linked[p] => PageView(p)'
  <2> SUFFICES ASSUME linked[p] PROVE PageView(p)'
    OBVIOUS
  <2>1. Own(p)' = Own(p) /\ Alive(p)' = Alive(p)
    BY OwnStays
  <2>2. PageView(p)
    BY DEF PageInv
  <2> QED
    BY <1>1, <2>1, <2>2 DEF PageView
<1>3. ~linked[p] => Kept(p)'
  BY DEF PageInv, Kept
<1> QED
  BY <1>1, <1>2, <1>3 DEF PageInv


\* A connected page and its session, as a view; pages do not share a session.
LEMMA Linked ==
  ASSUME TypeOK, NEW p \in Pages, PageInv(p), linked[p]
  PROVE  /\ Current(p) \in Session /\ Current(p)[1] = p
         /\ session[Current(p)] = "open" /\ buffer[p] = <<>>
         /\ PageView(p)
         /\ up[Current(p)] \in Seq(UpMessage)
         /\ down[Current(p)] \in Seq(DownMessage)
         /\ \A s \in Session : s[1] # p => Current(p) # s
<1>1. Current(p) \in Session
  BY CurrentIs DEF PageInv
<1> QED
  BY <1>1 DEF PageInv, TypeOK, Current

\* Emit on a connection, and without one.
LEMMA EmitIs ==
  ASSUME TypeOK, NEW p \in Pages, PageInv(p), NEW msg, Emit(p, msg)
  PROVE  /\ linked[p] => /\ up'[Current(p)] = Append(up[Current(p)], msg)
                         /\ buffer'[p] = buffer[p]
         /\ ~linked[p] => /\ buffer'[p] = Append(buffer[p], msg)
         /\ \A q \in Pages : q # p => buffer'[q] = buffer[q]
         /\ \A s \in Session : s[1] # p => up'[s] = up[s]
<1>1. CASE linked[p]
  <2>1. Current(p) \in Session /\ \A s \in Session : s[1] # p => Current(p) # s
    BY <1>1, Linked
  <2> QED
    BY <1>1, <2>1 DEF Emit, TypeOK
<1>2. CASE ~linked[p]
  BY <1>2 DEF Emit, TypeOK
<1> QED
  BY <1>1, <1>2

\* What a page has kept, when it opens a tab, destroys one, or a key is typed.
LEMMA KeptNewTab ==
  ASSUME NEW p \in Pages, NEW tb \in [UseTab -> TabRow],
         NEW b \in Seq(UpMessage), CreatesFresh(p, tb, b),
         NEW k \in UseTab, tb[k].st = "none", tb[k].id = NoId
  PROVE  CreatesFresh(p, [tb EXCEPT ![k].st = "open"],
                      Append(b, Create(<<p, k>>)))
<1> DEFINE x   == Create(<<p, k>>)
           tb2 == [tb EXCEPT ![k].st = "open"]
           v   == Append(b, x)
<1>1. x \in UpMessage /\ x.m = "create" /\ x.tab = <<p, k>>
  BY Sent DEF Create
<1>2. /\ Len(b) \in Nat /\ Len(v) = Len(b) + 1
      /\ \A l \in 1..Len(b) : v[l] = b[l] /\ l \in 1..Len(v)
      /\ \A l \in 1..Len(v) : l # Len(v) => l \in 1..Len(b)
      /\ v[Len(v)] = x /\ Len(v) \in 1..Len(v)
  BY <1>1, AppendIs
<1>3. /\ tb2[k].st = "open" /\ tb2[k].id = NoId
      /\ \A j \in UseTab : j # k => tb2[j] = tb[j]
  BY DEF TabRow
<1>4. \A n \in 1..Len(b) : b[n].m = "create" =>
        b[n].tab[2] \in UseTab /\ b[n].tab # <<p, k>> /\ b[n].tab[2] # k
  <2> SUFFICES ASSUME NEW n \in 1..Len(b), b[n].m = "create"
               PROVE  b[n].tab[2] \in UseTab /\ b[n].tab # <<p, k>>
                      /\ b[n].tab[2] # k
    OBVIOUS
  <2>1. b[n].tab \in Tab /\ b[n].tab[1] = p
    BY UpFields DEF CreatesFresh
  <2>2. tb[b[n].tab[2]].st # "none"
    BY DEF CreatesFresh
  <2> QED
    BY <2>1, <2>2, TabIs
<1> HIDE DEF x, tb2, v
<1>5. \A n \in 1..Len(b) : b[n].m = "create" =>
        tb2[b[n].tab[2]] = tb[b[n].tab[2]]
  BY <1>3, <1>4
<1> SUFFICES ASSUME NEW n \in 1..Len(v), v[n].m = "create"
             PROVE  /\ v[n].tab[1] = p /\ tb2[v[n].tab[2]].id = NoId
                    /\ tb2[v[n].tab[2]].st \in {"open", "dropped"}
                    /\ \A l \in 1..Len(v) :
                         v[l].m = "create" /\ v[l].tab = v[n].tab => l = n
  BY DEF CreatesFresh, x, tb2, v
<1>6. CASE n = Len(v)
  BY <1>1, <1>2, <1>3, <1>4, <1>6
<1>7. CASE n # Len(v)
  <2>1. n \in 1..Len(b) /\ v[n] = b[n] /\ b[n].m = "create"
    BY <1>2, <1>7
  <2>2. /\ b[n].tab[1] = p /\ tb[b[n].tab[2]].id = NoId
        /\ tb[b[n].tab[2]].st \in {"open", "dropped"}
        /\ \A l \in 1..Len(b) :
             b[l].m = "create" /\ b[l].tab = b[n].tab => l = n
        /\ b[n].tab # <<p, k>> /\ tb2[b[n].tab[2]] = tb[b[n].tab[2]]
    BY <1>4, <1>5, <2>1 DEF CreatesFresh
  <2> QED
    BY <1>1, <1>2, <2>1, <2>2
<1> QED
  BY <1>6, <1>7

\* Any other message, with tabs destroyed at most.
LEMMA KeptOther ==
  ASSUME NEW p \in Pages, NEW tb \in [UseTab -> TabRow],
         NEW tb2 \in [UseTab -> TabRow], NEW b \in Seq(UpMessage),
         CreatesFresh(p, tb, b), NEW x \in UpMessage, x.m # "create",
         \A k \in UseTab : tb[k].id = NoId /\ tb[k].st \in {"open", "dropped"}
           => tb2[k].id = NoId /\ tb2[k].st \in {"open", "dropped"}
  PROVE  CreatesFresh(p, tb2, Append(b, x))
<1> DEFINE v == Append(b, x)
<1>1. /\ Len(b) \in Nat /\ Len(v) = Len(b) + 1
      /\ \A l \in 1..Len(b) : v[l] = b[l] /\ l \in 1..Len(v)
      /\ \A l \in 1..Len(v) : l # Len(v) => l \in 1..Len(b)
      /\ v[Len(v)] = x /\ Len(v) \in 1..Len(v)
  BY AppendIs
<1> HIDE DEF v
<1>2. \A n \in 1..Len(b) : b[n].m = "create" => b[n].tab[2] \in UseTab
  BY UpFields, TabIs DEF CreatesFresh
<1> QED
  BY <1>1, <1>2 DEF CreatesFresh, v

\* What is kept of input is marked so.
LEMMA KeptData ==
  ASSUME NEW b \in Seq(UpMessage), NEW x \in UpMessage,
         \A n \in 1..Len(b) : b[n].m = "data" => b[n].offline # FALSE,
         x.m = "data" => x.offline # FALSE
  PROVE  \A n \in 1..Len(Append(b, x)) :
           Append(b, x)[n].m = "data" => Append(b, x)[n].offline # FALSE
<1> DEFINE v == Append(b, x)
<1>1. /\ Len(b) \in Nat /\ Len(v) = Len(b) + 1
      /\ \A l \in 1..Len(b) : v[l] = b[l] /\ l \in 1..Len(v)
      /\ \A l \in 1..Len(v) : l # Len(v) => l \in 1..Len(b)
      /\ v[Len(v)] = x
  BY AppendIs
<1> HIDE DEF v
<1> QED
  BY <1>1 DEF v

\* No tab that is not open yet has an id.
NoneFresh(tb) == \A k \in UseTab : tb[k].st = "none" => tb[k].id = NoId

\* The page opens a tab.
LEMMA NewTabPage ==
  ASSUME TypeOK, NEW p \in Pages, PageInv(p), NewTab(p)
  PROVE  PageInv(p)'
<1>1. PICK k \in UseTab : /\ tabs[p][k].st = "none"
                          /\ tabs' = [tabs EXCEPT ![p][k].st = "open"]
                          /\ Emit(p, Create(<<p, k>>))
  BY DEF NewTab, UseTab
<1>2. UNCHANGED <<linked, conns, terms, down, session, listed, pty>>
  BY DEF NewTab
<1> DEFINE tb2 == [tabs[p] EXCEPT ![k].st = "open"]
<1>3. tabs'[p] = tb2
  BY <1>1 DEF TypeOK
<1>4. /\ tabs[p] \in [UseTab -> TabRow] /\ tabs[p][k].id = NoId
      /\ buffer[p] \in Seq(UpMessage) /\ Create(<<p, k>>) \in UpMessage
  BY <1>1, Rows, Sent DEF PageInv, TypeOK
<1>5. NoneFresh(tb2)
  BY <1>1, <1>4 DEF PageInv, NoneFresh, TabRow
<1>6. /\ linked[p] =>
           /\ up'[Current(p)] = Append(up[Current(p)], Create(<<p, k>>))
           /\ buffer'[p] = buffer[p]
      /\ ~linked[p] => buffer'[p] = Append(buffer[p], Create(<<p, k>>))
  BY <1>1, EmitIs
<1>7. /\ Current(p)' = Current(p)
      /\ Own(p)' = Own(p) /\ Alive(p)' = Alive(p)
  BY <1>2, OwnStays DEF Current
<1>8. CASE linked[p]
  <2>1. PageView(p)
    BY <1>8 DEF PageInv
  <2>2. View(p, tb2, terms[p], Append(up[Current(p)], Create(<<p, k>>)),
             down[Current(p)], Own(p), Alive(p))
    BY <1>1, <1>4, <2>1, ViewNewTab DEF PageView
  <2>3. PageView(p)'
    BY <1>2, <1>3, <1>6, <1>7, <1>8, <2>2 DEF PageView
  <2> HIDE DEF tb2
  <2> QED
    BY <1>2, <1>3, <1>5, <1>6, <1>7, <1>8, <2>3 DEF PageInv, NoneFresh
<1>9. CASE ~linked[p]
  <2>1. CreatesFresh(p, tb2, Append(buffer[p], Create(<<p, k>>)))
    BY <1>1, <1>4, <1>9, KeptNewTab DEF PageInv, Kept
  <2>2. \A n \in 1..Len(Append(buffer[p], Create(<<p, k>>))) :
          Append(buffer[p], Create(<<p, k>>))[n].m = "data" =>
            Append(buffer[p], Create(<<p, k>>))[n].offline # FALSE
    <3>1. Create(<<p, k>>).m # "data"
      BY DEF Create
    <3> QED
      BY <1>4, <1>9, <3>1, KeptData DEF PageInv, Kept
  <2> HIDE DEF tb2
  <2>3. Kept(p)'
    BY <1>3, <1>6, <1>9, <2>1, <2>2 DEF Kept
  <2> QED
    BY <1>2, <1>3, <1>5, <1>9, <2>3 DEF PageInv, NoneFresh
<1> QED
  BY <1>8, <1>9


\* The page closes a tab.
LEMMA CloseTabPage ==
  ASSUME TypeOK, NEW p \in Pages, PageInv(p), CloseTab(p)
  PROVE  PageInv(p)'
<1>1. PICK k \in UseTab :
        /\ tabs[p][k].st = "open" /\ Forget(p, k)
        /\ Emit(p, Named("kill", tabs[p][k].id, <<p, k>>, ~linked[p]))
  BY DEF CloseTab, OpenTabs, UseTab
<1>2. UNCHANGED <<linked, conns, down, session, listed, pty>>
  BY DEF CloseTab
<1> DEFINE off == ~linked[p]
           x   == Named("kill", tabs[p][k].id, <<p, k>>, off)
           tb2 == Dropped(tabs[p], k)
           tm2 == Cleared(terms[p], tabs[p][k].id)
<1>3. /\ tabs[p] \in [UseTab -> TabRow] /\ off \in BOOLEAN
      /\ buffer[p] \in Seq(UpMessage) /\ x \in UpMessage /\ x.m = "kill"
  BY Rows, Sent DEF TypeOK, Named
<1>4. tabs'[p] = tb2 /\ terms'[p] = tm2
  BY <1>1 DEF TypeOK, Forget, Dropped, Cleared
<1>5. /\ tb2 \in [UseTab -> TabRow]
      /\ \A j \in UseTab : tb2[j].id = tabs[p][j].id
      /\ \A j \in UseTab : j # k => tb2[j] = tabs[p][j]
      /\ tabs[p][k].id = NoId => tb2[k].st = "dropped"
      /\ tabs[p][k].id # NoId => tb2[k].st = "closed"
  BY <1>3, DroppedIs
<1>6. NoneFresh(tb2)
  BY <1>5 DEF PageInv, NoneFresh
<1>7. /\ linked[p] => /\ up'[Current(p)] = Append(up[Current(p)], x)
                      /\ buffer'[p] = buffer[p]
      /\ ~linked[p] => buffer'[p] = Append(buffer[p], x)
  BY <1>1, EmitIs
<1>8. /\ Current(p)' = Current(p)
      /\ Own(p)' = Own(p) /\ Alive(p)' = Alive(p)
  BY <1>2, OwnStays DEF Current
<1>9. CASE linked[p]
  <2>1. PageView(p)
    BY <1>9 DEF PageInv
  <2>2. View(p, tb2, tm2, Append(up[Current(p)], x),
             down[Current(p)], Own(p), Alive(p))
    BY <1>1, <1>3, <2>1, ViewCloseTab DEF PageView
  <2> HIDE DEF tb2, tm2, x
  <2>3. PageView(p)'
    BY <1>2, <1>4, <1>7, <1>8, <1>9, <2>2 DEF PageView
  <2> QED
    BY <1>2, <1>4, <1>6, <1>7, <1>8, <1>9, <2>3 DEF PageInv, NoneFresh
<1>10. CASE ~linked[p]
  <2>1. CreatesFresh(p, tb2, Append(buffer[p], x))
    BY ZenonT(30), <1>3, <1>5, <1>10, KeptOther DEF PageInv, Kept
  <2>2. \A n \in 1..Len(Append(buffer[p], x)) :
          Append(buffer[p], x)[n].m = "data" =>
            Append(buffer[p], x)[n].offline # FALSE
    BY <1>3, <1>10, KeptData DEF PageInv, Kept
  <2> HIDE DEF tb2, x
  <2>3. Kept(p)'
    BY <1>4, <1>7, <1>10, <2>1, <2>2 DEF Kept
  <2> QED
    BY <1>2, <1>4, <1>6, <1>10, <2>3 DEF PageInv, NoneFresh
<1> QED
  BY <1>9, <1>10

\* A key is typed.
LEMMA TypePage ==
  ASSUME TypeOK, NEW p \in Pages, PageInv(p), Type(p)
  PROVE  PageInv(p)'
<1>1. PICK k \in UseTab :
        /\ tabs[p][k].st = "open"
        /\ Emit(p, Named("data", tabs[p][k].id, <<p, k>>, ~linked[p]))
  BY DEF Type, OpenTabs, UseTab
<1>2. UNCHANGED <<linked, conns, tabs, terms, down, session, listed, pty>>
  BY DEF Type
<1> DEFINE off == ~linked[p]
           x   == Named("data", tabs[p][k].id, <<p, k>>, off)
<1>3. /\ tabs[p] \in [UseTab -> TabRow] /\ off \in BOOLEAN
      /\ buffer[p] \in Seq(UpMessage) /\ x \in UpMessage /\ x.m = "data"
  BY Rows, Sent DEF TypeOK, Named
<1>4. x.offline = off
  BY DEF Named
<1>5. NoneFresh(tabs[p])
  BY DEF PageInv, NoneFresh
<1>6. /\ linked[p] => /\ up'[Current(p)] = Append(up[Current(p)], x)
                      /\ buffer'[p] = buffer[p]
      /\ ~linked[p] => buffer'[p] = Append(buffer[p], x)
  BY <1>1, EmitIs
<1>7. /\ Current(p)' = Current(p)
      /\ Own(p)' = Own(p) /\ Alive(p)' = Alive(p)
  BY <1>2, OwnStays DEF Current
<1>8. CASE linked[p]
  <2>1. PageView(p)
    BY <1>8 DEF PageInv
  <2>2. View(p, tabs[p], terms[p], Append(up[Current(p)], x),
             down[Current(p)], Own(p), Alive(p))
    BY <1>1, <1>3, <2>1, ViewType DEF PageView
  <2> HIDE DEF x
  <2>3. PageView(p)'
    BY <1>2, <1>6, <1>7, <1>8, <2>2 DEF PageView
  <2> QED
    BY <1>2, <1>5, <1>6, <1>7, <1>8, <2>3 DEF PageInv, NoneFresh
<1>9. CASE ~linked[p]
  <2>1. CreatesFresh(p, tabs[p], Append(buffer[p], x))
    BY <1>3, <1>9, KeptOther DEF PageInv, Kept
  <2>2. x.offline # FALSE
    BY <1>4, <1>9
  <2>3. \A n \in 1..Len(Append(buffer[p], x)) :
          Append(buffer[p], x)[n].m = "data" =>
            Append(buffer[p], x)[n].offline # FALSE
    BY <1>3, <1>9, <2>2, KeptData DEF PageInv, Kept
  <2> HIDE DEF x
  <2>4. Kept(p)'
    BY <1>2, <1>6, <1>9, <2>1, <2>3 DEF Kept
  <2> QED
    BY <1>2, <1>5, <1>9, <2>4 DEF PageInv, NoneFresh
<1> QED
  BY <1>8, <1>9

\* Of the connection that is made the server has no terminal yet.
LEMMA ConnectPage ==
  ASSUME TypeOK, SessInv, NEW p \in Pages, PageInv(p), Connect(p)
  PROVE  PageInv(p)'
<1> DEFINE s   == <<p, conns[p] + 1>>
           tb2 == Tidy(tabs[p])
<1>1. /\ s \in Session /\ s[2] > conns[s[1]] /\ conns[p] \in Nat
      /\ conns'[p] = conns[p] + 1
  BY TtyAssumption DEF TypeOK, Connect, Session
<1>2. /\ \A i \in Ids : ~Has(i, s)
      /\ down[s] = <<>>
  BY <1>1 DEF SessInv
<1>3. /\ tabs[p] \in [UseTab -> TabRow] /\ tb2 \in [UseTab -> TabRow]
      /\ tabs'[p] = tb2 /\ terms'[p] = [i \in Ids |-> NoTab]
  BY Rows, TidyIs DEF Connect, TypeOK
<1>4. PICK q \in ResetKills(p) : up' = [up EXCEPT ![s] = buffer[p] \o q]
  BY DEF Connect
<1>5. q \in Seq(UpMessage) /\ \A n \in 1..Len(q) : q[n].m = "kill"
  BY KillsAre
<1>6. /\ up'[s] = buffer[p] \o q /\ down'[s] = <<>>
      /\ session'[s] = "open" /\ linked'[p] = TRUE /\ buffer'[p] = <<>>
      /\ pty' = pty
  BY <1>1, <1>2, <1>4 DEF TypeOK, Connect
<1>7. Current(p)' = s
  BY <1>1 DEF Current
<1>8. Own(p)' \in [Ids -> {NoTab}] /\ Alive(p)' \in SUBSET Ids
  BY <1>2, <1>6, <1>7 DEF Own, Alive, Has
<1>9. \A k \in UseTab : tb2[k] = IF tabs[p][k].st = "open"
                                 THEN Gone(tabs[p][k]) ELSE tabs[p][k]
  BY DEF Tidy
<1>10. /\ CreatesFresh(p, tabs[p], buffer[p]) /\ buffer[p] \in Seq(UpMessage)
       /\ \A n \in 1..Len(buffer[p]) :
            buffer[p][n].m = "data" => buffer[p][n].offline # FALSE
  BY DEF PageInv, Kept, Connect, TypeOK
<1> HIDE DEF tb2, s
<1>11. View(p, tb2, [i \in Ids |-> NoTab], buffer[p] \o q, <<>>, Own(p)',
            Alive(p)')
  BY <1>3, <1>5, <1>8, <1>9, <1>10, ViewStart
<1>12. PageView(p)'
  BY <1>3, <1>6, <1>7, <1>11 DEF PageView
<1>13. NoneFresh(tb2)
  <2>1. \A x \in TabRow : x.st = "open" => Gone(x).st # "none"
    BY DEF Gone, TabRow
  <2> QED
    BY <1>3, <1>9, <2>1 DEF PageInv, NoneFresh
<1> QED
  BY <1>1, <1>3, <1>6, <1>7, <1>12, <1>13 DEF PageInv, NoneFresh

\* A page that loses its connection has kept nothing yet.
LEMMA LinkLostPage ==
  ASSUME TypeOK, NEW p \in Pages, PageInv(p), LinkLost(p)
  PROVE  PageInv(p)'
<1>1. buffer[p] = <<>> /\ linked'[p] = FALSE /\ UNCHANGED <<tabs, buffer>>
  BY DEF PageInv, LinkLost, TypeOK
<1>2. Kept(p)'
  <2>1. buffer'[p] = <<>> /\ \A n \in 1..Len(<<>>) : FALSE
    BY <1>1
  <2> QED
    BY <2>1 DEF Kept, CreatesFresh
<1> QED
  BY <1>1, <1>2 DEF PageInv

\* The page reads a message: the view of what is left is its view afterwards.
LEMMA ReadPage ==
  ASSUME TypeOK, NEW p \in Pages, PageInv(p), linked[p],
         NEW tb2, NEW tm2, NoneFresh(tb2),
         tabs'[p] = tb2, terms'[p] = tm2,
         View(p, tb2, tm2, up[Current(p)], Tail(down[Current(p)]), Own(p),
              Alive(p)),
         down'[Current(p)] = Tail(down[Current(p)]),
         linked' = linked, conns' = conns, buffer' = buffer, up' = up,
         session' = session, pty' = pty
  PROVE  PageInv(p)'
<1>1. /\ Current(p)' = Current(p)
      /\ Own(p)' = Own(p) /\ Alive(p)' = Alive(p)
  BY OwnStays DEF Current
<1>2. PageView(p)'
  BY <1>1 DEF PageView
<1> QED
  BY <1>1, <1>2 DEF PageInv, NoneFresh

\* What the page receives is the head of the messages of its session.
LEMMA ReceivesIs ==
  ASSUME TypeOK, NEW p \in Pages, PageInv(p), NEW m, Receives(p, m)
  PROVE  /\ linked[p] /\ down[Current(p)] # <<>>
         /\ Head(down[Current(p)]).m = m
         /\ down'[Current(p)] = Tail(down[Current(p)])
         /\ \A s \in Session : s[1] # p => down'[s] = down[s]
         /\ PageView(p)
         /\ Head(down[Current(p)]).tab[2] \in UseTab
         /\ Head(down[Current(p)]).m # "answer" =>
              Head(down[Current(p)]).id \in Ids
         /\ Head(down[Current(p)]).m = "answer" =>
              tabs[p][Head(down[Current(p)]).tab[2]].st # "none"
<1> DEFINE d == down[Current(p)]
<1>1. linked[p] /\ d # <<>> /\ Head(d).m = m
      /\ down' = [down EXCEPT ![Current(p)] = Tail(d)]
  BY DEF Receives
<1>2. /\ Current(p) \in Session /\ PageView(p) /\ d \in Seq(DownMessage)
      /\ \A s \in Session : s[1] # p => Current(p) # s
  BY <1>1, Linked
<1>3. Head(d) = d[1] /\ 1 \in 1..Len(d) /\ d[1] \in DownMessage
  BY <1>1, <1>2, TailIs
<1>4. DownOwn(p, tabs[p], d, Own(p))
  BY <1>2 DEF PageView, View
<1>5. /\ d[1].tab \in Tab /\ d[1].tab[1] = p /\ tabs[p][d[1].tab[2]].st # "none"
      /\ d[1].m # "answer" => d[1].id \in Ids
  BY <1>3, <1>4, DownFields DEF DownOwn
<1> QED
  BY <1>1, <1>2, <1>3, <1>5, TabIs DEF TypeOK

\* The page is told an id, or that there is none.
LEMMA AnsweredPage ==
  ASSUME TypeOK, NEW p \in Pages, PageInv(p), Answered(p)
  PROVE  PageInv(p)'
<1> DEFINE msg == Head(down[Current(p)])
           k   == msg.tab[2]
<1>1. /\ linked[p] /\ down[Current(p)] # <<>> /\ msg.m = "answer"
      /\ down'[Current(p)] = Tail(down[Current(p)])
      /\ PageView(p) /\ k \in UseTab /\ tabs[p][k].st # "none"
  BY ReceivesIs DEF Answered
<1>2. tabs[p] \in [UseTab -> TabRow] /\ NoneFresh(tabs[p])
  BY Rows DEF PageInv, NoneFresh
<1>3. /\ linked' = linked /\ conns' = conns /\ buffer' = buffer /\ up' = up
      /\ session' = session /\ pty' = pty
  BY DEF Answered
<1>4. CASE msg.id = NoId
  <2> DEFINE tb2 == [tabs[p] EXCEPT ![k].st = IF @ = "open" THEN "closed"
                                              ELSE @]
  <2>1. tabs'[p] = tb2 /\ terms'[p] = terms[p]
    BY <1>4 DEF Answered, TypeOK
  <2>2. View(p, tb2, terms[p], up[Current(p)], Tail(down[Current(p)]),
             Own(p), Alive(p))
    BY <1>1, <1>4, ViewRefused DEF PageView
  <2>3. NoneFresh(tb2)
    BY <1>1, <1>2 DEF NoneFresh, TabRow
  <2> HIDE DEF tb2
  <2> QED
    BY <1>1, <1>3, <2>1, <2>2, <2>3, ReadPage
<1>5. CASE msg.id # NoId
  <2> DEFINE tb2 == [tabs[p] EXCEPT ![k].id = msg.id]
             tm2 == [terms[p] EXCEPT ![msg.id] = <<p, k>>]
  <2>1. tabs'[p] = tb2 /\ terms'[p] = tm2
    BY <1>5 DEF Answered, TypeOK
  <2>2. View(p, tb2, tm2, up[Current(p)], Tail(down[Current(p)]),
             Own(p), Alive(p))
    BY <1>1, <1>5, ViewAnswered DEF PageView
  <2>3. NoneFresh(tb2)
    BY <1>1, <1>2 DEF NoneFresh, TabRow
  <2> HIDE DEF tb2, tm2
  <2> QED
    BY <1>1, <1>3, <2>1, <2>2, <2>3, ReadPage
<1> QED
  BY <1>4, <1>5

\* The page is told that a terminal has closed.
LEMMA KilledPage ==
  ASSUME TypeOK, NEW p \in Pages, PageInv(p), Killed(p)
  PROVE  PageInv(p)'
<1> DEFINE c == terms[p][Head(down[Current(p)]).id]
<1>1. /\ linked[p] /\ down[Current(p)] # <<>>
      /\ Head(down[Current(p)]).m = "kill"
      /\ down'[Current(p)] = Tail(down[Current(p)])
      /\ PageView(p) /\ Head(down[Current(p)]).id \in Ids
  <2>1. Receives(p, "kill")
    BY DEF Killed
  <2>2. Head(down[Current(p)]).m = "kill"
    BY <2>1, ReceivesIs
  <2>3. linked[p] /\ down[Current(p)] # <<>> /\ PageView(p)
        /\ down'[Current(p)] = Tail(down[Current(p)])
    BY <2>1, ReceivesIs
  <2>4. Head(down[Current(p)]).id \in Ids
    BY <2>1, <2>2, ReceivesIs
  <2> QED
    BY <2>2, <2>3, <2>4
<1>2. tabs[p] \in [UseTab -> TabRow] /\ NoneFresh(tabs[p])
  BY Rows DEF PageInv, NoneFresh
<1>3. /\ linked' = linked /\ conns' = conns /\ buffer' = buffer /\ up' = up
      /\ session' = session /\ pty' = pty
  BY DEF Killed
<1>4. CASE c # NoTab /\ tabs[p][c[2]].st = "open"
  <2> DEFINE tb2 == Dropped(tabs[p], c[2])
             tm2 == Cleared(terms[p], tabs[p][c[2]].id)
  <2>1. c[2] \in UseTab
    BY <1>1, <1>4, Rows DEF Tab, UseTab
  <2>2. tabs'[p] = tb2 /\ terms'[p] = tm2
    BY <1>4, <2>1 DEF Killed, TypeOK, Forget, Dropped, Cleared
  <2>3. View(p, tb2, tm2, up[Current(p)], Tail(down[Current(p)]), Own(p),
             Alive(p))
    BY <1>1, <1>4, ViewKilled DEF PageView
  <2>4. NoneFresh(tb2)
    <3>1. /\ \A j \in UseTab : tb2[j].id = tabs[p][j].id
          /\ \A j \in UseTab : j # c[2] => tb2[j] = tabs[p][j]
          /\ tb2[c[2]].st # "none"
      BY <1>2, <2>1, DroppedIs
    <3> QED
      BY <1>2, <3>1 DEF NoneFresh
  <2> HIDE DEF tb2, tm2
  <2> QED
    BY <1>1, <1>3, <2>2, <2>3, <2>4, ReadPage
<1>5. CASE ~(c # NoTab /\ tabs[p][c[2]].st = "open")
  <2>1. tabs'[p] = tabs[p] /\ terms'[p] = terms[p]
    BY <1>5 DEF Killed
  <2>2. View(p, tabs[p], terms[p], up[Current(p)], Tail(down[Current(p)]),
             Own(p), Alive(p))
    BY <1>1, <1>5, ViewKilled DEF PageView
  <2> QED
    BY <1>1, <1>2, <1>3, <2>1, <2>2, ReadPage
<1> QED
  BY <1>4, <1>5

\* The page is sent output.
LEMMA OutputPage ==
  ASSUME TypeOK, NEW p \in Pages, PageInv(p), Output(p)
  PROVE  PageInv(p)'
<1>1. /\ linked[p] /\ down[Current(p)] # <<>>
      /\ Head(down[Current(p)]).m = "data"
      /\ down'[Current(p)] = Tail(down[Current(p)])
      /\ PageView(p)
  BY ReceivesIs DEF Output
<1>2. View(p, tabs[p], terms[p], up[Current(p)], Tail(down[Current(p)]),
           Own(p), Alive(p))
  BY <1>1, ViewOutput DEF PageView
<1>3. NoneFresh(tabs[p])
  BY DEF PageInv, NoneFresh
<1>4. /\ linked' = linked /\ conns' = conns /\ buffer' = buffer /\ up' = up
      /\ session' = session /\ pty' = pty
      /\ tabs' = tabs /\ terms' = terms
  BY DEF Output
<1> QED
  BY <1>1, <1>2, <1>3, <1>4, ReadPage


\* What a page does is nothing to another page and its session.
LEMMA OtherPage ==
  ASSUME TypeOK, NEW p \in Pages, PageInv(p), NEW q \in Pages, q # p,
         PageInv(q), User(p) \/ Client(p) \/ LinkLost(p)
  PROVE  PageInv(q)'
<1>1. /\ linked[q] => Current(q) \in Session /\ Current(q)[1] = q
      /\ linked[p] => Current(p) \in Session /\ Current(p)[1] = p
  BY Linked
<1>2. pty' = pty /\ linked'[q] = linked[q] /\ conns'[q] = conns[q]
  <2>1. CASE NewTab(p) \/ CloseTab(p) \/ Type(p)
    BY <2>1 DEF NewTab, CloseTab, Type
  <2>2. CASE Answered(p) \/ Killed(p) \/ Output(p)
    BY <2>2 DEF Answered, Killed, Output
  <2>3. CASE Connect(p) \/ LinkLost(p)
    BY <2>3 DEF Connect, LinkLost, TypeOK
  <2> QED
    BY <2>1, <2>2, <2>3 DEF User, Client, OpenTab, AutoOpen
<1>3. /\ tabs'[q] = tabs[q] /\ terms'[q] = terms[q] /\ buffer'[q] = buffer[q]
      /\ \A s \in Session : s[1] = q =>
           up'[s] = up[s] /\ down'[s] = down[s] /\ session'[s] = session[s]
  <2>1. CASE NewTab(p)
    <3>1. PICK k \in 1..MaxTabs : /\ tabs' = [tabs EXCEPT ![p][k].st = "open"]
                                  /\ Emit(p, Create(<<p, k>>))
                                  /\ UNCHANGED <<terms, down, session>>
      BY <2>1 DEF NewTab
    <3> QED
      BY <3>1, EmitIs DEF TypeOK
  <2>2. CASE CloseTab(p)
    <3>1. PICK k \in OpenTabs(p) :
            /\ Forget(p, k)
            /\ Emit(p, Named("kill", tabs[p][k].id, <<p, k>>, ~linked[p]))
            /\ UNCHANGED <<down, session>>
      BY <2>2 DEF CloseTab
    <3> QED
      BY <3>1, EmitIs DEF TypeOK, Forget
  <2>3. CASE Type(p)
    <3>1. PICK k \in OpenTabs(p) :
            /\ Emit(p, Named("data", tabs[p][k].id, <<p, k>>, ~linked[p]))
            /\ UNCHANGED <<tabs, terms, down, session>>
      BY <2>3 DEF Type
    <3> QED
      BY <3>1, EmitIs
  <2>4. CASE Connect(p)
    <3>1. PICK u : up' = [up EXCEPT ![<<p, conns[p] + 1>>] = u]
      BY <2>4 DEF Connect
    <3>2. /\ session' = [session EXCEPT ![<<p, conns[p] + 1>>] = "open"]
          /\ buffer' = [buffer EXCEPT ![p] = <<>>]
          /\ Reset(p) /\ UNCHANGED down
      BY <2>4 DEF Connect
    <3> QED
      BY <3>1, <3>2 DEF TypeOK, Reset
  <2>5. CASE LinkLost(p)
    <3>1. PICK u : up' = [up EXCEPT ![Current(p)] = u]
      BY <2>5 DEF LinkLost
    <3>2. /\ down' = [down EXCEPT ![Current(p)] = <<>>]
          /\ UNCHANGED <<tabs, terms, buffer, session>>
          /\ linked[p]
      BY <2>5 DEF LinkLost
    <3> QED
      BY <1>1, <3>1, <3>2 DEF TypeOK
  <2>6. CASE Answered(p)
    <3>1. /\ UNCHANGED <<buffer, up, session>>
          /\ \A s \in Session : s[1] # p => down'[s] = down[s]
      BY <2>6, ReceivesIs DEF Answered
    <3>2. tabs'[q] = tabs[q] /\ terms'[q] = terms[q]
      BY <2>6 DEF Answered, TypeOK
    <3> QED
      BY <3>1, <3>2
  <2>7. CASE Killed(p)
    <3>1. /\ UNCHANGED <<buffer, up, session>>
          /\ \A s \in Session : s[1] # p => down'[s] = down[s]
      BY <2>7, ReceivesIs DEF Killed
    <3>2. tabs'[q] = tabs[q] /\ terms'[q] = terms[q]
      BY <2>7 DEF Killed, Forget, TypeOK
    <3> QED
      BY <3>1, <3>2
  <2>8. CASE Output(p)
    <3>1. /\ UNCHANGED <<tabs, terms, buffer, up, session>>
          /\ \A s \in Session : s[1] # p => down'[s] = down[s]
      BY <2>8, ReceivesIs DEF Output
    <3> QED
      BY <3>1
  <2> QED
    BY <2>1, <2>2, <2>3, <2>4, <2>5, <2>6, <2>7, <2>8
    DEF User, Client, OpenTab, AutoOpen
<1> QED
  BY <1>1, <1>2, <1>3, PageStays

-----------------------------------------------------------------------------
(* The server, as the page sees it.                                        *)

\* A session that is not the one in use can do as it likes.
LEMMA OtherSession ==
  ASSUME TypeOK, NEW p \in Pages, PageInv(p), NEW s \in Session,
         ~(linked[p] /\ Current(p) = s),
         linked' = linked, conns' = conns, tabs' = tabs, terms' = terms,
         buffer' = buffer,
         \A z \in Session : z # s =>
           up'[z] = up[z] /\ down'[z] = down[z] /\ session'[z] = session[z],
         \A i \in Ids : \/ pty'[i] = pty[i]
                        \/ \A z \in Session : z # s =>
                             ~Has(i, z) /\ ~Has(i, z)'
  PROVE  PageInv(p)'
<1>1. linked[p] => Current(p) \in Session /\ Current(p) # s
  BY Linked
<1>2. Current(p)' = Current(p)
  BY DEF Current
<1> QED
  BY <1>1, <1>2, PageStays DEF Has

\* In the session in use, the view of what the server leaves is the view of
\* the page afterwards.
LEMMA ServePage ==
  ASSUME TypeOK, NEW p \in Pages, PageInv(p), linked[p],
         NEW u2, NEW d2, NEW own2, NEW alive2,
         View(p, tabs[p], terms[p], u2, d2, own2, alive2),
         up'[Current(p)] = u2, down'[Current(p)] = d2,
         Own(p)' = own2, Alive(p)' = alive2,
         linked' = linked, conns' = conns, tabs' = tabs, terms' = terms,
         buffer' = buffer, session'[Current(p)] = session[Current(p)]
  PROVE  PageInv(p)'
<1>1. Current(p)' = Current(p)
  BY DEF Current
<1>2. PageView(p)'
  BY <1>1 DEF PageView
<1> QED
  BY <1>1, <1>2 DEF PageInv

\* The live terminals after Destroy.
LEMMA DestroyOwn ==
  ASSUME TypeOK, NEW p \in Pages, Current(p) \in Session, NEW S, Destroy(S),
         conns' = conns
  PROVE  /\ Own(p)' = Own(p)
         /\ Alive(p)' \in SUBSET Alive(p)
         /\ \A i \in Alive(p)' : i \notin S
<1>1. Current(p)' = Current(p)
  BY DEF Current
<1>2. \A i \in Ids :
        /\ pty'[i].st = "free" <=> pty[i].st = "free"
        /\ pty[i].st # "free" =>
             pty'[i].tab = pty[i].tab /\ pty'[i].of = pty[i].of
        /\ pty'[i].st = "up" => pty[i].st = "up" /\ i \notin S
  BY DestroyHas
<1>3. \A i \in Ids : /\ Has(i, Current(p))' <=> Has(i, Current(p))
                     /\ Has(i, Current(p)) => pty'[i].tab = pty[i].tab
  BY <1>1, <1>2 DEF Has
<1>4. Own(p)' = Own(p)
  BY <1>1, <1>3 DEF Own
<1>5. \A i \in Alive(p)' : i \in Alive(p) /\ i \notin S
  BY <1>1, <1>2, <1>3 DEF Alive
<1> QED
  BY <1>4, <1>5


\* The message at the head of the session in use.
LEMMA HandlesIs ==
  ASSUME TypeOK, NEW s \in Session, NEW m, Handles(s, m)
  PROVE  /\ up[s] # <<>> /\ Head(up[s]).m = m /\ up'[s] = Tail(up[s])
         /\ \A z \in Session : z # s => up'[z] = up[z]
BY DEF Handles, TypeOK

\* The server answers a create.
LEMMA HandleCreatePage ==
  ASSUME TypeOK, SessInv, NEW p \in Pages, PageInv(p), NEW s \in Session,
         HandleCreate(s)
  PROVE  PageInv(p)'
<1> DEFINE k == Head(up[s]).tab
<1>1. /\ up[s] # <<>> /\ Head(up[s]).m = "create" /\ up'[s] = Tail(up[s])
      /\ \A z \in Session : z # s => up'[z] = up[z]
  BY HandlesIs DEF HandleCreate
<1>2. /\ linked' = linked /\ conns' = conns /\ tabs' = tabs /\ terms' = terms
      /\ buffer' = buffer /\ session' = session
  BY DEF HandleCreate
<1>3. PICK i \in Ids \cup {NoId} :
        /\ Tell(s, Answer(i, k))
        /\ i = NoId => UNCHANGED <<listed, pty>>
        /\ i # NoId => /\ pty[i].st = "free"
                       /\ pty' = [pty EXCEPT ![i] = [st |-> "up", of |-> s,
                                                     tab |-> k]]
  BY TtyAssumption DEF HandleCreate
<1>4. \A j \in Ids : /\ j # i => pty'[j] = pty[j]
                     /\ j = i => /\ pty[j].st = "free" /\ pty'[j].st = "up"
                                 /\ pty'[j].of = s /\ pty'[j].tab = k
  BY <1>3, TtyAssumption DEF TypeOK
<1>5. \A z \in Session : z # s => down'[z] = down[z]
  BY <1>3, TellOthers
<1>6. CASE ~(linked[p] /\ Current(p) = s)
  <2>1. \A j \in Ids : \/ pty'[j] = pty[j]
                       \/ \A z \in Session : z # s => ~Has(j, z) /\ ~Has(j, z)'
    BY <1>4 DEF Has
  <2> QED
    BY <1>1, <1>2, <1>5, <1>6, <2>1, OtherSession
<1>7. CASE linked[p] /\ Current(p) = s
  <2>1. Uses(s) /\ PageView(p) /\ s[1] = p
    BY <1>7, Linked DEF Uses
  <2>2. down'[s] = Append(down[s], Answer(i, k))
    BY <1>3, <2>1, TellOthers
  <2>3. Current(p)' = s
    BY <1>2, <1>7 DEF Current
  <2>4. /\ \A j \in Ids : j # i => (Has(j, s)' <=> Has(j, s))
        /\ \A j \in Ids : j = i => ~Has(j, s) /\ Has(j, s)'
    BY <1>4 DEF Has
  <2>5. Own(p)' \in [Ids -> Tab \cup {NoTab}]
    <3>1. Head(up[s]) \in UpMessage
      BY HandlesTypes DEF HandleCreate
    <3>2. k \in Tab
      BY <3>1, UpFields
    <3>3. \A j \in Ids : Has(j, s)' => pty'[j].tab \in Tab
      BY <1>4, <3>2, PtyFields DEF Has, TypeOK
    <3> QED
      BY <2>3, <3>3 DEF Own
  <2>6. /\ i # NoId => Own(p)[i] = NoTab /\ Own(p)'[i] = k
        /\ \A j \in Ids : j # i => Own(p)'[j] = Own(p)[j]
    BY <1>4, <1>7, <2>3, <2>4 DEF Own
  <2>7. Alive(p)' \in SUBSET Ids /\ \A j \in Alive(p)' : j \in Alive(p) \/ j = i
    BY <1>4, <1>7, <2>3, <2>4 DEF Alive
  <2>8. View(p, tabs[p], terms[p], Tail(up[s]), Append(down[s], Answer(i, k)),
             Own(p)', Alive(p)')
    <3>1. View(p, tabs[p], terms[p], up[s], down[s], Own(p), Alive(p))
      BY <1>7, <2>1 DEF PageView
    <3>2. PICK own2, alive2 : own2 = Own(p)' /\ alive2 = Alive(p)'
      OBVIOUS
    <3>3. View(p, tabs[p], terms[p], Tail(up[s]), Append(down[s], Answer(i, k)),
               own2, alive2)
      BY ZenonT(30), <1>1, <2>5, <2>6, <2>7, <3>1, <3>2, ViewAnswer
    <3> QED
      BY <3>2, <3>3
  <2> QED
    BY <1>1, <1>2, <1>7, <2>2, <2>8, ServePage
<1> QED
  BY <1>6, <1>7

\* The message at the head of a session is handled; it ends the terminals in S.
LEMMA HandledPage ==
  ASSUME TypeOK, SessInv, NEW p \in Pages, PageInv(p), NEW s \in Session,
         NEW S, Destroy(S), S \subseteq listed[s],
         \/ session[s] = "open" /\ ~Uses(s) /\ up' = up
            /\ \A z \in Session : z # s => session'[z] = session[z]
         \/ /\ up[s] # <<>> /\ Head(up[s]).m \in {"data", "kill"}
            /\ up'[s] = Tail(up[s])
            /\ \A z \in Session : z # s => up'[z] = up[z]
            /\ Head(up[s]).m = "kill" => Head(up[s]).id \in S
                 \/ Head(up[s]).id \notin listed[s]
            /\ session' = session,
         linked' = linked, conns' = conns, tabs' = tabs, terms' = terms,
         buffer' = buffer, down' = down
  PROVE  PageInv(p)'
<1>1. CASE ~(linked[p] /\ Current(p) = s)
  <2>1. \A j \in Ids : \/ pty'[j] = pty[j]
                       \/ \A z \in Session : z # s => ~Has(j, z) /\ ~Has(j, z)'
    <3>1. \A j \in Ids : j \notin S => pty'[j] = pty[j]
      BY DestroyHas
    <3>2. \A j \in S, z \in Session : z # s => ~Has(j, z)
      BY DEF SessInv, Has
    <3>3. \A j \in S, z \in Session : z # s => ~Has(j, z)'
      BY <3>2, DestroyHas DEF TypeOK
    <3> QED
      BY <3>1, <3>2, <3>3
  <2> QED
    BY <1>1, <2>1, OtherSession
<1>2. CASE linked[p] /\ Current(p) = s
  <2>1. Uses(s) /\ PageView(p) /\ s[1] = p
    BY <1>2, Linked DEF Uses
  <2>2. /\ Own(p)' = Own(p) /\ Alive(p)' \in SUBSET Alive(p)
        /\ \A i \in Alive(p)' : i \notin S
    BY <1>2, DestroyOwn
  <2>3. \A i \in Alive(p) : i \in listed[s]
    BY <1>2 DEF Alive, Has, SessInv
  <2>4. /\ up[s] # <<>> /\ Head(up[s]).m # "create"
        /\ Head(up[s]).m = "kill" => Head(up[s]).id \notin Alive(p)'
    BY <2>1, <2>2, <2>3
  <2>5. View(p, tabs[p], terms[p], Tail(up[s]), down[s], Own(p), Alive(p)')
    BY <1>2, <2>1, <2>2, <2>4, ViewHandled DEF PageView
  <2>6. up'[s] = Tail(up[s]) /\ session'[s] = session[s]
    BY <2>1
  <2> QED
    BY <1>2, <2>2, <2>5, <2>6, ServePage
<1> QED
  BY <1>1, <1>2

\* Whatever the server handles, every page keeps its invariant.
LEMMA ServerPage ==
  ASSUME TypeOK, SessInv, NEW p \in Pages, PageInv(p), NEW s \in Session,
         Server(s)
  PROVE  PageInv(p)'
<1>1. CASE HandleData(s)
  <2>1. /\ up[s] # <<>> /\ Head(up[s]).m = "data" /\ up'[s] = Tail(up[s])
        /\ \A z \in Session : z # s => up'[z] = up[z]
    BY <1>1, HandlesIs DEF HandleData
  <2>2. /\ linked' = linked /\ conns' = conns /\ tabs' = tabs
        /\ terms' = terms /\ buffer' = buffer /\ session' = session
        /\ down' = down /\ pty' = pty
    BY <1>1 DEF HandleData
  <2>3. CASE ~(linked[p] /\ Current(p) = s)
    BY <2>1, <2>2, <2>3, OtherSession
  <2>4. CASE linked[p] /\ Current(p) = s
    <3>1. Own(p)' = Own(p) /\ Alive(p)' = Alive(p)
      BY <2>2, OwnStays
    <3>2. PageView(p)
      BY <2>4, Linked
    <3>3. View(p, tabs[p], terms[p], Tail(up[s]), down[s], Own(p), Alive(p))
      BY <2>1, <2>4, <3>2, ViewHandled DEF PageView
    <3> QED
      BY <2>1, <2>2, <2>4, <3>1, <3>3, ServePage
  <2> QED
    BY <2>3, <2>4
<1>2. CASE HandleKill(s)
  <2>1. PICK S : S = {Head(up[s]).id} \cap listed[s]
    OBVIOUS
  <2>2. /\ up[s] # <<>> /\ Head(up[s]).m = "kill" /\ up'[s] = Tail(up[s])
        /\ \A z \in Session : z # s => up'[z] = up[z]
    BY <1>2, HandlesIs DEF HandleKill
  <2>3. /\ linked' = linked /\ conns' = conns /\ tabs' = tabs
        /\ terms' = terms /\ buffer' = buffer /\ session' = session
        /\ down' = down /\ Destroy(S)
    BY <1>2, <2>1 DEF HandleKill
  <2>4. /\ S \subseteq listed[s]
        /\ Head(up[s]).id \in S \/ Head(up[s]).id \notin listed[s]
    BY <2>1
  <2> QED
    BY <2>2, <2>3, <2>4, HandledPage
<1>3. CASE HandleDisconnect(s)
  <2>1. PICK S : S = listed[s]
    OBVIOUS
  <2>2. /\ linked' = linked /\ conns' = conns /\ tabs' = tabs
        /\ terms' = terms /\ buffer' = buffer /\ down' = down /\ up' = up
        /\ Destroy(S) /\ session[s] = "open" /\ ~Uses(s)
        /\ \A z \in Session : z # s => session'[z] = session[z]
    BY <1>3, <2>1 DEF HandleDisconnect, TypeOK
  <2> QED
    BY <2>1, <2>2, HandledPage
<1> QED
  BY <1>1, <1>2, <1>3, HandleCreatePage DEF Server

\* A shell ends of itself.
LEMMA ShellExitsPage ==
  ASSUME TypeOK, NEW p \in Pages, PageInv(p), ShellExits
  PROVE  PageInv(p)'
<1>1. PICK i \in Ids : Destroy({i})
  BY DEF ShellExits
<1>2. /\ linked' = linked /\ conns' = conns /\ tabs' = tabs
      /\ terms' = terms /\ buffer' = buffer /\ session' = session
      /\ down' = down /\ up' = up
  BY DEF ShellExits
<1>3. CASE linked[p]
  <2>1. Current(p) \in Session /\ PageView(p)
    BY <1>3, Linked
  <2>2. Own(p)' = Own(p) /\ Alive(p)' \in SUBSET Alive(p)
    BY <1>1, <1>2, <2>1, DestroyOwn
  <2>3. View(p, tabs[p], terms[p], up[Current(p)], down[Current(p)], Own(p),
             Alive(p)')
    BY <2>1, <2>2, ViewFewer DEF PageView
  <2> QED
    BY <1>2, <1>3, <2>2, <2>3, ServePage
<1>4. CASE ~linked[p]
  BY <1>2, <1>4, PageStays
<1> QED
  BY <1>3, <1>4

\* A terminal says something, or that it has closed.
LEMMA SaysPage ==
  ASSUME TypeOK, SessInv, NEW p \in Pages, PageInv(p), NEW i \in Ids,
         pty[i].st # "free", NEW m \in {"data", "kill"},
         Tell(pty[i].of, [m |-> m, id |-> i, tab |-> pty[i].tab]),
         m = "data" => pty' = pty,
         m = "kill" => pty' = [pty EXCEPT ![i] = FreePty],
         linked' = linked, conns' = conns, tabs' = tabs, terms' = terms,
         buffer' = buffer, session' = session, up' = up
  PROVE  PageInv(p)'
<1> DEFINE x == [m |-> m, id |-> i, tab |-> pty[i].tab]
<1>0. PICK s \in Session : s = pty[i].of
  BY PtyFields DEF TypeOK
<1>1. /\ Has(i, s) /\ x \in DownMessage /\ pty[i].tab \in Tab
      /\ \A z \in Session : Has(i, z) => z = s
  BY <1>0, PtyFields, Answers, TtyAssumption DEF TypeOK, Has
<1>2. \A j \in Ids : /\ j # i => pty'[j] = pty[j]
                     /\ j = i /\ m = "kill" => pty'[j].st = "free"
                     /\ m = "data" => pty'[j] = pty[j]
  BY DEF TypeOK, FreePty
<1>3. /\ \A z \in Session : z # s => down'[z] = down[z]
      /\ Uses(s) => down'[s] = Append(down[s], x)
  BY <1>0, <1>1, TellOthers
<1> HIDE DEF x
<1>4. CASE ~(linked[p] /\ Current(p) = s)
  <2>1. \A j \in Ids : \/ pty'[j] = pty[j]
                       \/ \A z \in Session : z # s => ~Has(j, z) /\ ~Has(j, z)'
    BY <1>1, <1>2 DEF Has
  <2> QED
    BY <1>1, <1>3, <1>4, <2>1, OtherSession
<1>5. CASE linked[p] /\ Current(p) = s
  <2>1. Uses(s) /\ PageView(p) /\ s[1] = p
    BY <1>1, <1>5, Linked DEF Uses
  <2>2. Current(p)' = s
    BY <1>5 DEF Current
  <2>3. /\ x.m = m /\ x.id = i /\ x.tab = pty[i].tab
    BY DEF x
  <2>4. /\ \A j \in Ids : Has(j, s)' => Has(j, s) /\ pty'[j] = pty[j]
        /\ \A j \in Ids : j # i => (Has(j, s)' <=> Has(j, s))
        /\ m = "kill" => ~Has(i, s)'
        /\ m = "data" => Has(i, s)'
    BY <1>1, <1>2 DEF Has
  <2>5. Own(p)' \in [Ids -> Tab \cup {NoTab}]
    <3>1. \A j \in Ids : Has(j, s)' => pty'[j].tab \in Tab
      BY <2>4, PtyFields DEF Has, TypeOK
    <3> QED
      BY <2>2, <3>1 DEF Own
  <2>6. /\ Own(p)[i] = pty[i].tab
        /\ Own(p)'[i] = IF m = "kill" THEN NoTab ELSE pty[i].tab
        /\ \A j \in Ids : j # i => Own(p)'[j] = Own(p)[j]
    BY <1>1, <1>2, <1>5, <2>2, <2>4 DEF Own
  <2>7. Alive(p)' \in SUBSET Alive(p)
    BY <1>5, <2>2, <2>4 DEF Alive
  <2>8. View(p, tabs[p], terms[p], up[s], Append(down[s], x), Own(p)',
             Alive(p)')
    BY <1>1, <1>5, <2>1, <2>3, <2>5, <2>6, <2>7, ViewSays DEF PageView
  <2>9. down'[s] = Append(down[s], x)
    BY <1>3, <2>1
  <2> QED
    BY <1>5, <2>8, <2>9, ServePage
<1> QED
  BY <1>4, <1>5

\* Whatever a terminal does, every page keeps its invariant.
LEMMA ShellsPage ==
  ASSUME TypeOK, SessInv, NEW p \in Pages, PageInv(p), Shells
  PROVE  PageInv(p)'
<1>1. CASE PtyClose
  <2>1. PICK i \in Ids :
          /\ pty[i].st # "free"
          /\ Tell(pty[i].of, [m |-> "kill", id |-> i, tab |-> pty[i].tab])
          /\ pty' = [pty EXCEPT ![i] = FreePty]
    BY <1>1 DEF PtyClose
  <2>2. /\ linked' = linked /\ conns' = conns /\ tabs' = tabs
        /\ terms' = terms /\ buffer' = buffer /\ session' = session
        /\ up' = up
    BY <1>1 DEF PtyClose
  <2> QED
    BY <2>1, <2>2, SaysPage
<1>2. CASE PtyOutput
  <2>1. PICK i \in Ids :
          /\ pty[i].st # "free"
          /\ Tell(pty[i].of, [m |-> "data", id |-> i, tab |-> pty[i].tab])
    BY <1>2 DEF PtyOutput
  <2>2. /\ linked' = linked /\ conns' = conns /\ tabs' = tabs
        /\ terms' = terms /\ buffer' = buffer /\ session' = session
        /\ up' = up /\ pty' = pty
    BY <1>2 DEF PtyOutput
  <2> QED
    BY <2>1, <2>2, SaysPage
<1> QED
  BY <1>1, <1>2, ShellExitsPage DEF Shells

\* Every step keeps the invariant of every page.
LEMMA PageStep ==
  ASSUME TypeOK, SessInv, \A p \in Pages : PageInv(p), [Next]_vars
  PROVE  \A p \in Pages : PageInv(p)'
<1> SUFFICES ASSUME NEW q \in Pages PROVE PageInv(q)'
  OBVIOUS
<1>1. CASE UNCHANGED vars
  BY <1>1, PageStays DEF vars
<1>2. ASSUME NEW p \in Pages, User(p) \/ Client(p) \/ LinkLost(p)
      PROVE  PageInv(q)'
  <2>1. CASE p = q
    BY <1>2, <2>1, NewTabPage, CloseTabPage, TypePage, ConnectPage,
       LinkLostPage, AnsweredPage, KilledPage, OutputPage
    DEF User, Client, OpenTab, AutoOpen
  <2>2. CASE p # q
    BY <1>2, <2>2, OtherPage
  <2> QED
    BY <2>1, <2>2
<1>3. ASSUME NEW s \in Session, Server(s) PROVE PageInv(q)'
  BY <1>3, ServerPage
<1>4. CASE Shells
  BY <1>4, ShellsPage
<1> QED
  BY <1>1, <1>2, <1>3, <1>4 DEF Next

-----------------------------------------------------------------------------
(* The theorems.                                                           *)

\* The invariant holds when the pages are loaded.
LEMMA InvInit == Init => Inv
<1> SUFFICES ASSUME Init PROVE Inv
  OBVIOUS
<1>1. TypeOK
  <2>1. <<>> \in Seq(UpMessage) /\ <<>> \in Seq(DownMessage)
    OBVIOUS
  <2>2. [st |-> "none", id |-> NoId] \in TabRow
    BY DEF TabRow
  <2>3. /\ tabs \in [Pages -> [1..MaxTabs -> TabRow]]
        /\ terms \in [Pages -> [Ids -> Tab \cup {NoTab}]]
    BY <2>2 DEF Init
  <2>4. /\ conns \in [Pages -> 0..MaxConns] /\ said \in [Pages -> 0..MaxData]
    BY TtyAssumption DEF Init
  <2> QED
    BY <2>1, <2>3, <2>4 DEF Init, TypeOK
<1>2. SessInv
  BY DEF Init, SessInv, Has, FreePty
<1>3. \A p \in Pages : PageInv(p)
  <2> SUFFICES ASSUME NEW p \in Pages PROVE PageInv(p)
    OBVIOUS
  <2>1. /\ buffer[p] = <<>> /\ linked[p] = FALSE
        /\ \A k \in UseTab : tabs[p][k].id = NoId
    BY DEF Init, UseTab
  <2>2. \A n \in 1..Len(<<>>) : FALSE
    OBVIOUS
  <2> QED
    BY <2>1, <2>2 DEF PageInv, Kept, CreatesFresh
<1> QED
  BY <1>1, <1>2, <1>3 DEF Inv

\* Every step keeps the invariant.
LEMMA InvStep == Inv /\ [Next]_vars => Inv'
<1> SUFFICES ASSUME Inv, [Next]_vars PROVE Inv'
  OBVIOUS
<1>1. LinkedConns
  BY DEF Inv, PageInv, LinkedConns
<1>2. TypeOK' /\ SessInv'
  BY <1>1, TypeStep, SessStep DEF Inv
<1>3. \A p \in Pages : PageInv(p)'
  BY PageStep DEF Inv
<1> QED
  BY <1>2, <1>3 DEF Inv

\* The invariant holds for ever.
LEMMA Invariant == Spec => []Inv
  BY InvInit, InvStep, PTL DEF Spec


\* A connected page, as the view of its session s.
LEMMA ViewOf ==
  ASSUME Inv, NEW p \in Pages, linked[p], NEW s, s = Current(p)
  PROVE  /\ s \in Session /\ s[1] = p
         /\ View(p, tabs[p], terms[p], up[s], down[s], Own(p), Alive(p))
         /\ up[s] \in Seq(UpMessage) /\ down[s] \in Seq(DownMessage)
         /\ tabs[p] \in [UseTab -> TabRow]
         /\ \A i \in Ids : Own(p)[i] # NoTab =>
              Has(i, s) /\ Own(p)[i] = pty[i].tab
         /\ \A i \in Ids : Has(i, s) =>
              Own(p)[i] = pty[i].tab /\ pty[i].tab # NoTab
         /\ Alive(p) = {i \in Ids : Has(i, s) /\ pty[i].st = "up"}
<1>1. /\ s \in Session /\ s[1] = p /\ up[s] \in Seq(UpMessage)
      /\ down[s] \in Seq(DownMessage) /\ PageView(p)
  BY Linked DEF Inv
<1>2. \A i \in Ids : Own(p)[i] = IF Has(i, s) THEN pty[i].tab ELSE NoTab
  BY DEF Own
<1>3. \A i \in Ids : Has(i, s) => pty[i].tab # NoTab
  BY PtyFields, TtyAssumption DEF Inv, TypeOK, Has, Tab
<1>4. tabs[p] \in [UseTab -> TabRow]
  BY Rows DEF Inv
<1> QED
  BY <1>1, <1>2, <1>3, <1>4 DEF PageView, Alive

\* The invariant has ids stand for the right tabs.
LEMMA InvOwnTerminal == Inv => OwnTerminal
<1> SUFFICES ASSUME Inv PROVE OwnTerminal
  OBVIOUS
<1>1. ASSUME NEW s \in Session, Uses(s), up[s] # <<>>,
             Head(up[s]).m = "data", Head(up[s]).id \in listed[s],
             ~Head(up[s]).offline
      PROVE  \/ pty[Head(up[s]).id].tab = Head(up[s]).tab
             \/ Told(Head(up[s]).tab[1], Head(up[s]).tab[2])
  <2> DEFINE u   == up[s]
             d   == down[s]
             msg == Head(u)
             p   == s[1]
             k   == msg.tab[2]
  <2>1. p \in Pages /\ linked[p] /\ s = Current(p)
    BY <1>1, SessionIs DEF Uses
  <2>2. /\ View(p, tabs[p], terms[p], u, d, Own(p), Alive(p))
        /\ u \in Seq(UpMessage) /\ tabs[p] \in [UseTab -> TabRow]
        /\ \A i \in Ids : Own(p)[i] # NoTab =>
              Has(i, s) /\ Own(p)[i] = pty[i].tab
    BY <2>1, ViewOf
  <2>3. msg = u[1] /\ 1 \in 1..Len(u) /\ msg \in UpMessage
    BY <1>1, <2>2, TailIs
  <2>4. msg.offline = FALSE
    <3>1. msg.offline \in BOOLEAN
      BY <1>1, <2>3 DEF UpMessage
    <3> QED
      BY <1>1, <3>1, Zenon
  <2>5. msg.id \in Ids /\ msg.id # NoId
    BY <1>1, TtyAssumption DEF Inv, TypeOK
  <2>6. /\ msg.tab[1] = p /\ tabs[p][k].id = msg.id
        /\ tabs[p][k].st \in {"open", "closed"}
    <3>1. TypedOwn(p, tabs[p], u)
      BY <2>2 DEF View
    <3> QED
      BY <1>1, <2>3, <2>4, <2>5, <3>1 DEF TypedOwn
  <2>7. k \in UseTab /\ msg.tab = <<p, k>> /\ msg.tab # NoTab
    BY <2>1, <2>3, <2>6, UpFields, TabIs
  <2>8. CASE tabs[p][k].st = "closed"
    BY <2>6, <2>8 DEF Told
  <2>9. CASE tabs[p][k].st = "open"
    <3>1. Backed(d, Own(p), msg.id, msg.tab, 0)
      BY <2>2, <2>5, <2>6, <2>7, <2>9 DEF View, OpenBacked
    <3>2. CASE Own(p)[msg.id] = msg.tab
      BY <2>2, <2>5, <2>7, <3>2
    <3>3. ASSUME NEW m \in 1..Len(d), d[m].m = "kill", d[m].tab = msg.tab
          PROVE  Told(p, k)
      <4>1. m \in DOMAIN down[Current(p)]
        BY <2>1, ViewOf
      <4> QED
        BY <2>1, <2>7, <3>3, <4>1 DEF Told
    <3> QED
      BY <2>6, <3>1, <3>2, <3>3 DEF Backed
  <2> QED
    BY <2>6, <2>8, <2>9
<1>2. ASSUME NEW p \in Pages, linked[p], down[Current(p)] # <<>>,
             Head(down[Current(p)]).m \in {"data", "kill"}
      PROVE  terms[p][Head(down[Current(p)]).id]
               \in {Head(down[Current(p)]).tab, NoTab}
  <2> DEFINE d == down[Current(p)]
  <2>1. /\ InTurn(terms[p], d, Own(p)) /\ d \in Seq(DownMessage)
    BY <1>2, ViewOf DEF View
  <2>2. d[1] = Head(d) /\ 1 \in 1..Len(d)
    BY <1>2, <2>1, TailIs
  <2>3. Fits(terms[p], d, d[1].id, d[1].tab, 1)
    BY <1>2, <2>1, <2>2 DEF InTurn
  <2>4. NoAnswer(d, d[1].id, 0, 1)
    BY <2>1 DEF NoAnswer
  <2> QED
    BY <2>2, <2>3, <2>4 DEF Fits
<1> QED
  BY <1>1, <1>2 DEF OwnTerminal

\* The invariant has page and session agree when nothing is on its way.
LEMMA InvAgreeAtRest == Inv => AgreeAtRest
<1> SUFFICES ASSUME Inv, NEW p \in Pages, linked[p],
                    up[Current(p)] = <<>>, down[Current(p)] = <<>>,
                    \A i \in Ids : pty[i].st # "closing"
             PROVE  /\ \A k \in OpenTabs(p) :
                         tabs[p][k].id \in listed[Current(p)]
                    /\ \A i \in listed[Current(p)] :
                         \/ \E k \in OpenTabs(p) : tabs[p][k].id = i
                         \/ tabs[p][pty[i].tab[2]].st = "dropped"
  BY DEF AgreeAtRest
<1>1. PICK s : s = Current(p)
  OBVIOUS
<1>2. /\ s \in Session /\ s[1] = p
      /\ View(p, tabs[p], terms[p], <<>>, <<>>, Own(p), Alive(p))
      /\ tabs[p] \in [UseTab -> TabRow]
      /\ \A i \in Ids : Own(p)[i] # NoTab =>
              Has(i, s) /\ Own(p)[i] = pty[i].tab
      /\ \A i \in Ids : Has(i, s) =>
              Own(p)[i] = pty[i].tab /\ pty[i].tab # NoTab
      /\ Alive(p) = {i \in Ids : Has(i, s) /\ pty[i].st = "up"}
  BY <1>1, ViewOf
<1>3. \A n \in 1..Len(<<>>) : FALSE
  OBVIOUS
<1>4. \A i \in Ids : Has(i, s) => pty[i].st = "up"
  BY PtyFields DEF Inv, TypeOK, Has
<1>5. Facts(p, tabs[p], terms[p], <<>>, <<>>, Own(p), Alive(p))
  BY <1>2, ViewFacts
<1>6. ASSUME NEW k \in OpenTabs(p) PROVE tabs[p][k].id \in listed[s]
  <2>1. k \in UseTab /\ tabs[p][k].st = "open"
    BY DEF OpenTabs, UseTab
  <2>2. tabs[p][k].id # NoId
    BY <1>2, <1>3, <2>1 DEF View, OpenAsked
  <2>3. Backed(<<>>, Own(p), tabs[p][k].id, <<p, k>>, 0)
    BY <1>2, <2>1, <2>2 DEF View, OpenBacked
  <2>4. Own(p)[tabs[p][k].id] = <<p, k>>
    BY <1>3, <2>3 DEF Backed
  <2>5. tabs[p][k].id \in Ids /\ <<p, k>> # NoTab
    BY <1>5, <2>1, <2>2 DEF Facts, TabRow
  <2>6. Has(tabs[p][k].id, s) /\ pty[tabs[p][k].id].st = "up"
    BY <1>2, <1>4, <2>4, <2>5
  <2> QED
    BY <2>5, <2>6 DEF Inv, SessInv, Has
<1>7. ASSUME NEW i \in listed[s]
      PROVE  \/ \E k \in OpenTabs(p) : tabs[p][k].id = i
             \/ tabs[p][pty[i].tab[2]].st = "dropped"
  <2>1. i \in Ids /\ Has(i, s)
    BY <1>2 DEF Inv, SessInv, TypeOK
  <2> DEFINE c == Own(p)[i]
  <2>2. c = pty[i].tab /\ c # NoTab /\ i \in Alive(p)
    BY <1>2, <1>4, <2>1
  <2>3. /\ tabs[p][c[2]].st # "none" /\ tabs[p][c[2]].id \in {NoId, i}
        /\ tabs[p][c[2]].id # NoId
    <3>1. Terminals(p, tabs[p], <<>>, Own(p))
      BY <1>2 DEF View
    <3> QED
      BY <1>3, <2>1, <2>2, <3>1 DEF Terminals
  <2>4. tabs[p][c[2]].st # "closed"
    <3>1. KillSent(tabs[p], <<>>, Own(p), Alive(p))
      BY <1>2 DEF View
    <3> QED
      BY <1>3, <2>2, <3>1 DEF KillSent
  <2>5. c[2] \in UseTab
    BY <1>5, <2>1, <2>2 DEF Facts
  <2>6. tabs[p][c[2]].st \in {"open", "dropped"}
    BY <1>2, <2>3, <2>4, <2>5 DEF TabRow
  <2> QED
    BY <2>2, <2>3, <2>5, <2>6 DEF OpenTabs, UseTab
<1> QED
  BY <1>1, <1>6, <1>7

\* The invariant has a kill on its way for each closed tab.
LEMMA InvNoShellForgotten == Inv => NoShellForgotten
<1> SUFFICES ASSUME Inv, NEW i \in Ids, pty[i].st = "up"
             PROVE  /\ session[pty[i].of] = "open" /\ i \in listed[pty[i].of]
                    /\ Uses(pty[i].of)
                       /\ tabs[pty[i].tab[1]][pty[i].tab[2]].st = "closed" =>
                         \E n \in DOMAIN up[pty[i].of] :
                           /\ up[pty[i].of][n].m = "kill"
                           /\ up[pty[i].of][n].id = i
  BY DEF NoShellForgotten
<1>1. PICK s \in Session : s = pty[i].of
  BY PtyFields DEF Inv, TypeOK
<1>2. session[s] = "open" /\ i \in listed[s] /\ Has(i, s)
  BY <1>1 DEF Inv, SessInv, Has
<1>3. ASSUME Uses(s), tabs[pty[i].tab[1]][pty[i].tab[2]].st = "closed"
      PROVE  \E n \in DOMAIN up[s] : up[s][n].m = "kill" /\ up[s][n].id = i
  <2> DEFINE p == s[1]
  <2>1. p \in Pages /\ linked[p] /\ s = Current(p)
    BY <1>3, SessionIs DEF Uses
  <2>2. /\ View(p, tabs[p], terms[p], up[s], down[s], Own(p), Alive(p))
        /\ Own(p)[i] = pty[i].tab /\ pty[i].tab # NoTab
        /\ i \in Alive(p) /\ up[s] \in Seq(UpMessage)
    BY <1>2, <2>1, ViewOf
  <2>3. Terminals(p, tabs[p], down[s], Own(p))
        /\ KillSent(tabs[p], up[s], Own(p), Alive(p))
    BY <2>2 DEF View
  <2>4. Own(p)[i][1] = p
    BY <2>2, <2>3 DEF Terminals
  <2>5. tabs[p][Own(p)[i][2]].st = "closed"
    BY <1>3, <2>2, <2>4
  <2>6. PICK n \in 1..Len(up[s]) : up[s][n].m = "kill" /\ up[s][n].id = i
    BY <2>2, <2>3, <2>5 DEF KillSent
  <2>7. n \in DOMAIN up[s]
    BY <2>2
  <2> QED
    BY <2>6, <2>7
<1> QED
  BY <1>1, <1>2, <1>3

\* The page and the server keep to their types: every message names a tab of
\* the page, every terminal a session and a tab.
THEOREM TypeCorrect == Spec => []TypeOK
<1>1. Inv => TypeOK
  BY DEF Inv
<1> QED
  BY <1>1, Invariant, PTL

\* What is typed reaches the terminal of its own tab although ids are used
\* again, and what a terminal says concerns its own tab or none.
THEOREM TypedReachesOwn == Spec => []OwnTerminal
  BY Invariant, InvOwnTerminal, PTL

\* A page and its session that have heard all of each other agree on the
\* terminals there are.
THEOREM AgreeWhenQuiet == Spec => []AgreeAtRest
  BY Invariant, InvAgreeAtRest, PTL

\* No shell outlives its tab and its session unnoticed.
THEOREM NoneForgotten == Spec => []NoShellForgotten
  BY Invariant, InvNoShellForgotten, PTL

=============================================================================
