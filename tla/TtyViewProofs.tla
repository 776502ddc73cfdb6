---------------------------- MODULE TtyViewProofs ----------------------------
(***************************************************************************)
(* What a connected page and its session know of each other, as a fact     *)
(* about six values: the tabs tb and the map tm of the page, the messages  *)
(* u and d on their way up and down, the tabs own[i] the terminals of the  *)
(* session were made for, and the terminals that are alive.  Each lemma    *)
(* says that a handler keeps it.  TtySessionProofs puts them together.     *)
(***************************************************************************)
EXTENDS TtySession, TLAPS

UseTab == 1..MaxTabs

IsAnswer(msg, i) == msg.m = "answer" /\ msg.id = i

\* No answer that gives away id i lies between the positions a and b.
NoAnswer(d, i, a, b) ==
  \A l \in 1..Len(d) : a < l /\ l < b => ~IsAnswer(d[l], i)

\* When the message at position n is read, id i stands for tab k or for none.
Fits(tm, d, i, k, n) ==
  /\ NoAnswer(d, i, 0, n) => tm[i] \in {k, NoTab}
  /\ \A m \in 1..Len(d) :
       m < n /\ IsAnswer(d[m], i) /\ NoAnswer(d, i, m, n) => d[m].tab = k

\* Who holds id i for tab k after position a has its terminal, or will be told
\* that it has closed before the id is given away again.
Backed(d, own, i, k, a) ==
  \/ own[i] = k /\ NoAnswer(d, i, a, Len(d) + 1)
  \/ \E m \in 1..Len(d) :
       /\ a < m /\ NoAnswer(d, i, a, m)
       /\ d[m].m = "kill" /\ d[m].id = i /\ d[m].tab = k

-----------------------------------------------------------------------------
Types(tb, tm, u, d, own, alive) ==
  /\ tb \in [UseTab -> TabRow]
  /\ tm \in [Ids -> Tab \cup {NoTab}]
  /\ u \in Seq(UpMessage) /\ d \in Seq(DownMessage)
  /\ own \in [Ids -> Tab \cup {NoTab}]
  /\ alive \subseteq Ids

\* A create is sent once, for a tab of the page that has no id yet.
CreatesFresh(p, tb, q) ==
  \A n \in 1..Len(q) : q[n].m = "create" =>
    /\ q[n].tab[1] = p
    /\ tb[q[n].tab[2]].id = NoId
    /\ tb[q[n].tab[2]].st \in {"open", "dropped"}
    /\ \A l \in 1..Len(q) :
         q[l].m = "create" /\ q[l].tab = q[n].tab => l = n

\* Nothing else is known of such a tab.
CreatesFirst(u, d, own) ==
  \A n \in 1..Len(u) : u[n].m = "create" =>
    /\ \A l \in 1..Len(d) : d[l].tab # u[n].tab
    /\ \A i \in Ids : own[i] # u[n].tab

\* What comes down concerns tabs of the page: one answer for a tab that has no
\* id yet, and the end of terminals that are gone.
DownOwn(p, tb, d, own) ==
  \A n \in 1..Len(d) :
    /\ d[n].tab[1] = p
    /\ tb[d[n].tab[2]].st # "none"
    /\ d[n].m = "answer" =>
         /\ tb[d[n].tab[2]].id = NoId
         /\ tb[d[n].tab[2]].st \in {"open", "dropped"}
         /\ \A l \in 1..Len(d) :
              d[l].m = "answer" /\ d[l].tab = d[n].tab => l = n
         /\ \A i \in Ids : own[i] = d[n].tab => i = d[n].id
    /\ d[n].m = "kill" => \A i \in Ids : own[i] # d[n].tab

\* A terminal has a tab of the page for itself, which has its id or will be
\* told.
Terminals(p, tb, d, own) ==
  \A i \in Ids : own[i] # NoTab =>
    /\ own[i][1] = p
    /\ tb[own[i][2]].st # "none"
    /\ tb[own[i][2]].id \in {NoId, i}
    /\ tb[own[i][2]].id = NoId =>
         \E n \in 1..Len(d) : d[n].m = "answer" /\ d[n].tab = own[i]
    /\ \A j \in Ids : own[j] = own[i] => j = i

\* An id stands for the right tab when it is named, now or later.
InTurn(tm, d, own) ==
  /\ \A n \in 1..Len(d) : d[n].m # "answer" =>
       Fits(tm, d, d[n].id, d[n].tab, n)
  /\ \A i \in Ids : own[i] # NoTab => Fits(tm, d, i, own[i], Len(d) + 1)

\* The id of an open tab stands for this tab.
OpenKnown(p, tb, tm) ==
  \A k \in UseTab :
    tb[k].st = "open" /\ tb[k].id # NoId => tm[tb[k].id] = <<p, k>>

OpenBacked(p, tb, d, own) ==
  \A k \in UseTab :
    tb[k].st = "open" /\ tb[k].id # NoId =>
      Backed(d, own, tb[k].id, <<p, k>>, 0)

AnswersBacked(d, own) ==
  \A n \in 1..Len(d) : d[n].m = "answer" /\ d[n].id # NoId =>
    Backed(d, own, d[n].id, d[n].tab, n)

\* An open tab without an id has asked and will be answered.
OpenAsked(p, tb, u, d) ==
  \A k \in UseTab : tb[k].st = "open" /\ tb[k].id = NoId =>
    \/ \E n \in 1..Len(u) : u[n].m = "create" /\ u[n].tab = <<p, k>>
    \/ \E n \in 1..Len(d) : d[n].m = "answer" /\ d[n].tab = <<p, k>>

\* Input names the id of its tab.
TypedOwn(p, tb, u) ==
  \A n \in 1..Len(u) :
    u[n].m = "data" /\ u[n].id # NoId /\ u[n].offline = FALSE =>
      /\ u[n].tab[1] = p
      /\ tb[u[n].tab[2]].id = u[n].id
      /\ tb[u[n].tab[2]].st \in {"open", "closed"}

\* The terminal of a closed tab is about to be ended.
KillSent(tb, u, own, alive) ==
  \A i \in alive : own[i] # NoTab /\ tb[own[i][2]].st = "closed" =>
    \E n \in 1..Len(u) : u[n].m = "kill" /\ u[n].id = i

View(p, tb, tm, u, d, own, alive) ==
  /\ Types(tb, tm, u, d, own, alive)
  /\ CreatesFresh(p, tb, u) /\ CreatesFirst(u, d, own)
  /\ DownOwn(p, tb, d, own) /\ Terminals(p, tb, d, own)
  /\ InTurn(tm, d, own) /\ OpenKnown(p, tb, tm)
  /\ OpenBacked(p, tb, d, own) /\ AnswersBacked(d, own)
  /\ OpenAsked(p, tb, u, d) /\ TypedOwn(p, tb, u)
  /\ KillSent(tb, u, own, alive)

-----------------------------------------------------------------------------
(* Messages and sequences.                                                 *)

\* The fields of a message to the server.
LEMMA UpFields ==
  \A msg \in UpMessage :
    /\ msg.m \in {"create", "data", "kill"}
    /\ msg.tab \in Tab
    /\ msg.m # "create" => msg.id \in Ids \cup {NoId}
BY DEF UpMessage

\* The fields of a message to the page.
LEMMA DownFields ==
  \A msg \in DownMessage :
    /\ msg.m \in {"answer", "data", "kill"} /\ msg.tab \in Tab
    /\ msg.id \in Ids \cup {NoId}
    /\ msg.m # "answer" => msg.id \in Ids
BY DEF DownMessage

\* A tab of page p is told by its number.
LEMMA TabIs ==
  ASSUME NEW p \in Pages, NEW k \in Tab, k[1] = p
  PROVE  k = <<p, k[2]>> /\ k[2] \in UseTab /\ k # NoTab
BY TtyAssumption DEF Tab, UseTab

\* A number of a tab and the page make a tab.
LEMMA TabMade ==
  ASSUME NEW p \in Pages, NEW k \in UseTab
  PROVE  <<p, k>> \in Tab /\ <<p, k>> # NoTab
BY TtyAssumption DEF Tab, UseTab

\* The positions of a sequence whose first element is taken.
LEMMA TailIs ==
  ASSUME NEW S, NEW q \in Seq(S), q # <<>>
  PROVE  /\ Tail(q) \in Seq(S) /\ Len(q) \in Nat /\ Len(q) > 0
         /\ Len(Tail(q)) = Len(q) - 1 /\ Head(q) = q[1] /\ q[1] \in S
         /\ \A l \in 1..Len(Tail(q)) :
              l + 1 \in 1..Len(q) /\ Tail(q)[l] = q[l + 1]
         /\ \A l \in 1..Len(q) : l # 1 =>
              l - 1 \in 1..Len(Tail(q)) /\ Tail(q)[l - 1] = q[l]
OBVIOUS

\* The positions of a sequence with an element added.
LEMMA AppendIs ==
  ASSUME NEW S, NEW q \in Seq(S), NEW x \in S
  PROVE  /\ Append(q, x) \in Seq(S) /\ Len(q) \in Nat
         /\ Len(Append(q, x)) = Len(q) + 1
         /\ \A l \in 1..Len(q) : Append(q, x)[l] = q[l]
         /\ \A l \in 1..Len(q) : l \in 1..(Len(q) + 1)
         /\ \A l \in 1..(Len(q) + 1) : l # Len(q) + 1 => l \in 1..Len(q)
         /\ Append(q, x)[Len(q) + 1] = x
         /\ Len(q) + 1 \in 1..(Len(q) + 1)
OBVIOUS

\* When a message is read the positions move by one.
LEMMA NoAnswerTail ==
  ASSUME NEW d \in Seq(DownMessage), d # <<>>, NEW i,
         NEW a \in Nat, NEW b \in Nat
  PROVE  NoAnswer(d, i, a + 1, b + 1) <=> NoAnswer(Tail(d), i, a, b)
<1> DEFINE t == Tail(d)
<1>1. /\ Len(d) \in Nat /\ Len(t) = Len(d) - 1
      /\ \A l \in 1..Len(t) : l + 1 \in 1..Len(d) /\ t[l] = d[l + 1]
      /\ \A l \in 1..Len(d) : l # 1 => l - 1 \in 1..Len(t) /\ t[l - 1] = d[l]
  BY TailIs
<1> HIDE DEF t
<1>2. ASSUME NoAnswer(d, i, a + 1, b + 1) PROVE NoAnswer(t, i, a, b)
  <2> SUFFICES ASSUME NEW l \in 1..Len(t), a < l, l < b
               PROVE  ~IsAnswer(t[l], i)
    BY <1>1 DEF NoAnswer
  <2>1. l + 1 \in 1..Len(d) /\ a + 1 < l + 1 /\ l + 1 < b + 1
    BY <1>1
  <2>2. ~IsAnswer(d[l + 1], i)
    BY <1>2, <2>1 DEF NoAnswer
  <2> QED
    BY <1>1, <2>2
<1>3. ASSUME NoAnswer(t, i, a, b) PROVE NoAnswer(d, i, a + 1, b + 1)
  <2> SUFFICES ASSUME NEW l \in 1..Len(d), a + 1 < l, l < b + 1
               PROVE  ~IsAnswer(d[l], i)
    BY <1>1 DEF NoAnswer
  <2>1. l - 1 \in 1..Len(t) /\ a < l - 1 /\ l - 1 < b
    BY <1>1
  <2>2. ~IsAnswer(t[l - 1], i)
    BY <1>1, <1>3, <2>1 DEF NoAnswer
  <2> QED
    BY <1>1, <2>1, <2>2
<1> QED
  BY <1>2, <1>3 DEF t

\* A message that is added is no answer before its place.
LEMMA NoAnswerAppend ==
  ASSUME NEW d \in Seq(DownMessage), NEW x \in DownMessage, NEW i,
         NEW a \in Nat, NEW b \in Nat
  PROVE  /\ b <= Len(d) + 1 =>
              (NoAnswer(Append(d, x), i, a, b) <=> NoAnswer(d, i, a, b))
         /\ ~IsAnswer(x, i) /\ NoAnswer(d, i, a, Len(d) + 1) =>
              NoAnswer(Append(d, x), i, a, Len(d) + 2)
<1> DEFINE e == Append(d, x)
<1>1. /\ Len(d) \in Nat /\ Len(e) = Len(d) + 1
      /\ \A l \in 1..Len(d) : e[l] = d[l]
      /\ \A l \in 1..Len(d) : l \in 1..(Len(d) + 1)
      /\ \A l \in 1..(Len(d) + 1) : l # Len(d) + 1 => l \in 1..Len(d)
      /\ e[Len(d) + 1] = x
  BY AppendIs
<1> HIDE DEF e
<1> QED
  BY <1>1 DEF NoAnswer, e

-----------------------------------------------------------------------------
(* Fits and Backed, when a message is read and when one is added.          *)

\* The message read is an answer, which sets the map, or it only clears there.
Reads(tm, tm2, msg) ==
  \A i \in Ids : IF IsAnswer(msg, i) THEN tm2[i] = msg.tab
                                     ELSE tm2[i] \in {tm[i], NoTab}

\* An id that will stand for the tab still will, a message later.
LEMMA FitsTail ==
  ASSUME NEW d \in Seq(DownMessage), d # <<>>, NEW tm, NEW tm2,
         Reads(tm, tm2, Head(d)), NEW i \in Ids, NEW k, NEW n \in Nat,
         n > 0, Fits(tm, d, i, k, n + 1)
  PROVE  Fits(tm2, Tail(d), i, k, n)
<1> DEFINE t == Tail(d)
<1>1. /\ Len(d) \in Nat /\ Len(d) > 0 /\ Len(t) = Len(d) - 1 /\ Head(d) = d[1]
      /\ \A l \in 1..Len(t) : l + 1 \in 1..Len(d) /\ t[l] = d[l + 1]
  BY TailIs
<1>2. \A m \in Nat : NoAnswer(d, i, m + 1, n + 1) <=> NoAnswer(t, i, m, n)
  BY NoAnswerTail
<1> HIDE DEF t
<1>3. NoAnswer(t, i, 0, n) => tm2[i] \in {k, NoTab}
  <2> SUFFICES ASSUME NoAnswer(t, i, 0, n) PROVE tm2[i] \in {k, NoTab}
    OBVIOUS
  <2>1. NoAnswer(d, i, 1, n + 1)
    BY <1>2
  <2>2. CASE IsAnswer(d[1], i)
    <3>1. 1 \in 1..Len(d) /\ 1 < n + 1
      BY <1>1
    <3>2. d[1].tab = k
      BY <2>1, <2>2, <3>1 DEF Fits
    <3> QED
      BY <1>1, <2>2, <3>2 DEF Reads
  <2>3. CASE ~IsAnswer(d[1], i)
    <3>1. NoAnswer(d, i, 0, n + 1)
      BY <1>1, <2>1, <2>3 DEF NoAnswer
    <3>2. tm[i] \in {k, NoTab}
      BY <3>1 DEF Fits
    <3> QED
      BY <1>1, <2>3, <3>2 DEF Reads
  <2> QED
    BY <2>2, <2>3
<1>4. ASSUME NEW m \in 1..Len(t), m < n, IsAnswer(t[m], i), NoAnswer(t, i, m, n)
      PROVE  t[m].tab = k
  <2>1. /\ m + 1 \in 1..Len(d) /\ m + 1 < n + 1 /\ IsAnswer(d[m + 1], i)
        /\ NoAnswer(d, i, m + 1, n + 1)
    BY <1>1, <1>2, <1>4
  <2> QED
    BY <1>1, <2>1 DEF Fits
<1> QED
  BY <1>3, <1>4 DEF Fits, t

\* It still will when a message is added, and from an answer on anyhow.
LEMMA FitsAppend ==
  ASSUME NEW d \in Seq(DownMessage), NEW x \in DownMessage, NEW tm,
         NEW i \in Ids, NEW k
  PROVE  /\ \A n \in 1..(Len(d) + 1) :
              Fits(tm, d, i, k, n) => Fits(tm, Append(d, x), i, k, n)
         /\ ~IsAnswer(x, i) /\ Fits(tm, d, i, k, Len(d) + 1) =>
              Fits(tm, Append(d, x), i, k, Len(d) + 2)
         /\ IsAnswer(x, i) /\ x.tab = k =>
              Fits(tm, Append(d, x), i, k, Len(d) + 2)
<1> DEFINE e == Append(d, x)
<1>1. /\ Len(d) \in Nat /\ Len(e) = Len(d) + 1
      /\ \A l \in 1..Len(d) : e[l] = d[l]
      /\ \A l \in 1..Len(d) : l \in 1..(Len(d) + 1)
      /\ \A l \in 1..(Len(d) + 1) : l # Len(d) + 1 => l \in 1..Len(d)
      /\ e[Len(d) + 1] = x
  BY AppendIs
<1>2. \A a, b \in Nat : b <= Len(d) + 1 =>
        (NoAnswer(e, i, a, b) <=> NoAnswer(d, i, a, b))
  BY NoAnswerAppend
<1> HIDE DEF e
<1>3. ASSUME NEW n \in 1..(Len(d) + 1), Fits(tm, d, i, k, n)
      PROVE  Fits(tm, e, i, k, n)
  <2>1. \A a \in Nat : NoAnswer(e, i, a, n) <=> NoAnswer(d, i, a, n)
    BY <1>1, <1>2
  <2>2. \A m \in 1..Len(e) : m < n => m \in 1..Len(d) /\ m \in Nat
    BY <1>1
  <2> QED
    BY <1>1, <1>3, <2>1, <2>2 DEF Fits
<1>4. ASSUME ~IsAnswer(x, i), Fits(tm, d, i, k, Len(d) + 1)
      PROVE  Fits(tm, e, i, k, Len(d) + 2)
  <2>1. \A a \in Nat : NoAnswer(e, i, a, Len(d) + 2) =>
                       NoAnswer(d, i, a, Len(d) + 1)
    BY <1>1 DEF NoAnswer
  <2>2. \A m \in 1..Len(e) : IsAnswer(e[m], i) =>
          m \in 1..Len(d) /\ m < Len(d) + 1 /\ m \in Nat /\ e[m] = d[m]
    BY <1>1, <1>4
  <2> QED
    BY <1>4, <2>1, <2>2 DEF Fits
<1>5. ASSUME IsAnswer(x, i), x.tab = k
      PROVE  Fits(tm, e, i, k, Len(d) + 2)
  <2>1. \A a \in Nat : a < Len(d) + 1 => ~NoAnswer(e, i, a, Len(d) + 2)
    BY <1>1, <1>5 DEF NoAnswer
  <2>2. \A m \in 1..Len(e) : m # Len(d) + 1 => m \in Nat /\ m < Len(d) + 1
    BY <1>1
  <2> QED
    BY <1>1, <1>5, <2>1, <2>2 DEF Fits
<1> QED
  BY <1>3, <1>4, <1>5 DEF e

\* A holder of an id is still backed, a message later.
LEMMA BackedTail ==
  ASSUME NEW d \in Seq(DownMessage), d # <<>>, NEW own, NEW i, NEW k,
         NEW a \in Nat, Backed(d, own, i, k, a + 1)
  PROVE  Backed(Tail(d), own, i, k, a)
<1> DEFINE t == Tail(d)
<1>1. /\ Len(d) \in Nat /\ Len(d) > 0 /\ Len(t) = Len(d) - 1
      /\ \A l \in 1..Len(d) : l # 1 => l - 1 \in 1..Len(t) /\ t[l - 1] = d[l]
  BY TailIs
<1>2. \A b \in Nat : NoAnswer(d, i, a + 1, b + 1) <=> NoAnswer(t, i, a, b)
  BY NoAnswerTail
<1> HIDE DEF t
<1>3. CASE own[i] = k /\ NoAnswer(d, i, a + 1, Len(d) + 1)
  <2>1. NoAnswer(t, i, a, Len(d))
    BY <1>1, <1>2, <1>3
  <2> QED
    BY <1>1, <1>3, <2>1 DEF Backed, t
<1>4. ASSUME NEW m \in 1..Len(d), a + 1 < m, NoAnswer(d, i, a + 1, m),
             d[m].m = "kill", d[m].id = i, d[m].tab = k
      PROVE  Backed(t, own, i, k, a)
  <2>1. m - 1 \in Nat /\ m = (m - 1) + 1 /\ a < m - 1 /\ m # 1
    BY <1>4
  <2>2. m - 1 \in 1..Len(t) /\ t[m - 1] = d[m]
    BY <1>1, <2>1
  <2>3. NoAnswer(t, i, a, m - 1)
    BY <1>2, <1>4, <2>1
  <2> QED
    BY <1>4, <2>1, <2>2, <2>3 DEF Backed
<1> QED
  BY <1>3, <1>4 DEF Backed, t

\* The first message read has nothing to do with it.
LEMMA BackedStart ==
  ASSUME NEW d \in Seq(DownMessage), d # <<>>, NEW own, NEW i, NEW k,
         Backed(d, own, i, k, 0),
         ~(d[1].m = "kill" /\ d[1].id = i /\ d[1].tab = k)
  PROVE  /\ Backed(Tail(d), own, i, k, 0)
         /\ ~IsAnswer(d[1], i)
<1>1. Len(d) \in Nat /\ Len(d) > 0 /\ 1 \in 1..Len(d)
  BY TailIs
<1>2. ASSUME own[i] = k, NoAnswer(d, i, 0, Len(d) + 1)
      PROVE  Backed(d, own, i, k, 0 + 1) /\ ~IsAnswer(d[1], i)
  <2>1. NoAnswer(d, i, 1, Len(d) + 1) /\ ~IsAnswer(d[1], i)
    BY <1>1, <1>2 DEF NoAnswer
  <2> QED
    BY <1>2, <2>1 DEF Backed
<1>3. ASSUME NEW m \in 1..Len(d), 0 < m, NoAnswer(d, i, 0, m),
             d[m].m = "kill", d[m].id = i, d[m].tab = k
      PROVE  Backed(d, own, i, k, 0 + 1) /\ ~IsAnswer(d[1], i)
  <2>1. 1 < m
    BY <1>3
  <2>2. NoAnswer(d, i, 1, m) /\ ~IsAnswer(d[1], i)
    BY <1>1, <1>3, <2>1 DEF NoAnswer
  <2> QED
    BY <1>3, <2>1, <2>2 DEF Backed
<1>4. Backed(d, own, i, k, 0 + 1) /\ ~IsAnswer(d[1], i)
  BY <1>2, <1>3 DEF Backed
<1>5. Backed(Tail(d), own, i, k, 0)
  BY <1>4, BackedTail
<1> QED
  BY <1>4, <1>5

\* It is still backed when a message is added that does not give the id away.
LEMMA BackedAppend ==
  ASSUME NEW d \in Seq(DownMessage), NEW x \in DownMessage,
         NEW own, NEW own2, NEW i, NEW k, NEW a \in 0..Len(d),
         Backed(d, own, i, k, a),
         own[i] = k => \/ own2[i] = k /\ ~IsAnswer(x, i)
                       \/ x.m = "kill" /\ x.id = i /\ x.tab = k
  PROVE  Backed(Append(d, x), own2, i, k, a)
<1> DEFINE e == Append(d, x)
<1>1. /\ Len(d) \in Nat /\ Len(e) = Len(d) + 1
      /\ \A l \in 1..Len(d) : e[l] = d[l]
      /\ \A l \in 1..Len(d) : l \in 1..(Len(d) + 1)
      /\ e[Len(d) + 1] = x /\ Len(d) + 1 \in 1..(Len(d) + 1)
  BY AppendIs
<1>2. /\ a \in Nat
      /\ \A b \in Nat : b <= Len(d) + 1 =>
           (NoAnswer(e, i, a, b) <=> NoAnswer(d, i, a, b))
      /\ ~IsAnswer(x, i) /\ NoAnswer(d, i, a, Len(d) + 1) =>
           NoAnswer(e, i, a, Len(d) + 2)
  BY <1>1, NoAnswerAppend
<1> HIDE DEF e
<1>3. CASE own[i] = k /\ NoAnswer(d, i, a, Len(d) + 1)
  <2>1. CASE own2[i] = k /\ ~IsAnswer(x, i)
    <3>1. NoAnswer(e, i, a, Len(e) + 1)
      BY <1>1, <1>2, <1>3, <2>1
    <3> QED
      BY <2>1, <3>1 DEF Backed, e
  <2>2. CASE x.m = "kill" /\ x.id = i /\ x.tab = k
    <3>1. a < Len(d) + 1 /\ NoAnswer(e, i, a, Len(d) + 1)
      BY <1>1, <1>2, <1>3
    <3> QED
      BY <1>1, <2>2, <3>1 DEF Backed, e
  <2> QED
    BY <1>3, <2>1, <2>2
<1>4. ASSUME NEW m \in 1..Len(d), a < m, NoAnswer(d, i, a, m),
             d[m].m = "kill", d[m].id = i, d[m].tab = k
      PROVE  Backed(e, own2, i, k, a)
  <2>1. m \in 1..Len(e) /\ e[m] = d[m] /\ m \in Nat /\ m <= Len(d) + 1
    BY <1>1
  <2>2. NoAnswer(e, i, a, m)
    BY <1>2, <1>4, <2>1
  <2> QED
    BY <1>4, <2>1, <2>2 DEF Backed
<1> QED
  BY <1>3, <1>4 DEF Backed, e

-----------------------------------------------------------------------------
\* Types, and that messages and terminals concern tabs of the page.
Facts(p, tb, tm, u, d, own, alive) ==
  /\ tb \in [UseTab -> TabRow] /\ tm \in [Ids -> Tab \cup {NoTab}]
  /\ u \in Seq(UpMessage) /\ d \in Seq(DownMessage)
  /\ own \in [Ids -> Tab \cup {NoTab}] /\ alive \subseteq Ids
  /\ \A k \in UseTab : <<p, k>> \in Tab /\ <<p, k>> # NoTab
  /\ \A c \in Tab : c[1] = p => /\ c = <<p, c[2]>> /\ c # NoTab
                                /\ c[2] \in UseTab
  /\ \A n \in 1..Len(u) :
       /\ u[n] \in UpMessage /\ u[n].m \in {"create", "data", "kill"}
       /\ u[n].tab \in Tab
       /\ u[n].m = "create" =>
            /\ u[n].tab[2] \in UseTab
            /\ u[n].tab = <<p, u[n].tab[2]>>
       /\ u[n].m = "data" /\ u[n].id # NoId /\ u[n].offline = FALSE =>
            u[n].tab[2] \in UseTab
  /\ \A n \in 1..Len(d) :
       /\ d[n] \in DownMessage /\ d[n].m \in {"answer", "data", "kill"}
       /\ d[n].tab \in Tab /\ d[n].tab[2] \in UseTab
       /\ d[n].tab = <<p, d[n].tab[2]>>
  /\ \A i \in Ids : own[i] # NoTab =>
       /\ own[i] \in Tab /\ own[i][2] \in UseTab
       /\ own[i] = <<p, own[i][2]>>

\* The view implies the facts that the lemmas below cite.
LEMMA ViewFacts ==
  ASSUME NEW p \in Pages, NEW tb, NEW tm, NEW u, NEW d, NEW own, NEW alive,
         View(p, tb, tm, u, d, own, alive)
  PROVE  Facts(p, tb, tm, u, d, own, alive)
<1>1. Types(tb, tm, u, d, own, alive)
  BY DEF View
<1>2. \A k \in UseTab : <<p, k>> \in Tab /\ <<p, k>> # NoTab
  BY TabMade
<1>3. \A c \in Tab : c[1] = p => /\ c = <<p, c[2]>> /\ c # NoTab
                                 /\ c[2] \in UseTab
  BY TabIs
<1>4. \A n \in 1..Len(u) :
        /\ u[n] \in UpMessage /\ u[n].m \in {"create", "data", "kill"}
        /\ u[n].tab \in Tab
  BY <1>1, UpFields DEF Types
<1>5. \A n \in 1..Len(d) :
        /\ d[n] \in DownMessage /\ d[n].m \in {"answer", "data", "kill"}
        /\ d[n].tab \in Tab
  BY <1>1, DownFields DEF Types
<1>6. \A n \in 1..Len(u) : u[n].m = "create" => u[n].tab[1] = p
  BY DEF View, CreatesFresh
<1>7. \A n \in 1..Len(u) :
        u[n].m = "data" /\ u[n].id # NoId /\ u[n].offline = FALSE =>
          u[n].tab[1] = p
  BY DEF View, TypedOwn
<1>8. \A n \in 1..Len(d) : d[n].tab[1] = p
  BY DEF View, DownOwn
<1>9. \A i \in Ids : own[i] # NoTab => own[i] \in Tab /\ own[i][1] = p
  BY <1>1 DEF View, Terminals, Types
<1> QED
  BY <1>1, <1>2, <1>3, <1>4, <1>5, <1>6, <1>7, <1>8, <1>9 DEF Facts, Types

-----------------------------------------------------------------------------
(* The page sends.                                                         *)

\* new Tab.
LEMMA ViewNewTab ==
  ASSUME NEW p \in Pages, NEW tb, NEW tm, NEW u, NEW d, NEW own, NEW alive,
         View(p, tb, tm, u, d, own, alive),
         NEW k \in UseTab, tb[k].st = "none", tb[k].id = NoId
  PROVE  View(p, [tb EXCEPT ![k].st = "open"], tm,
              Append(u, Create(<<p, k>>)), d, own, alive)
<1> DEFINE tb2 == [tb EXCEPT ![k].st = "open"]
           x   == Create(<<p, k>>)
           v   == Append(u, x)
<1>f. Facts(p, tb, tm, u, d, own, alive)
  BY ViewFacts
<1>1. Types(tb, tm, u, d, own, alive)
  BY DEF View
<1>2. x \in UpMessage /\ x.m = "create" /\ x.tab = <<p, k>>
  BY TabMade DEF Create, UpMessage
<1>3. /\ v \in Seq(UpMessage) /\ Len(u) \in Nat /\ Len(v) = Len(u) + 1
      /\ \A l \in 1..Len(u) : v[l] = u[l] /\ l \in 1..Len(v)
      /\ \A l \in 1..Len(v) : l # Len(v) => l \in 1..Len(u)
      /\ v[Len(v)] = x /\ Len(v) \in 1..Len(v)
  BY <1>1, <1>2, AppendIs DEF Types
<1>4. /\ tb2 \in [UseTab -> TabRow]
      /\ tb2[k].st = "open" /\ tb2[k].id = NoId
      /\ \A j \in UseTab : j # k => tb2[j] = tb[j]
  BY <1>1 DEF TabRow, Types
<1> HIDE DEF tb2, x, v
<1>5. Types(tb2, tm, v, d, own, alive)
  BY <1>1, <1>3, <1>4 DEF Types
<1>6. CreatesFresh(p, tb2, v)
  <2>1. \A n \in 1..Len(u) : u[n].m = "create" =>
          u[n].tab # <<p, k>> /\ tb2[u[n].tab[2]] = tb[u[n].tab[2]]
    BY <1>4, <1>f DEF Facts, View, CreatesFresh
  <2>2. CreatesFresh(p, tb, u)
    BY DEF View
  <2> QED
    BY <1>2, <1>3, <1>4, <2>1, <2>2 DEF CreatesFresh
<1>7. CreatesFirst(v, d, own)
  <2>1. \A l \in 1..Len(d) : d[l].tab # <<p, k>>
    BY DEF View, DownOwn
  <2>2. \A i \in Ids : own[i] # <<p, k>>
    <3> SUFFICES ASSUME NEW i \in Ids, own[i] = <<p, k>> PROVE FALSE
      OBVIOUS
    <3>1. own[i] # NoTab /\ own[i] = <<p, own[i][2]>>
      BY <1>f DEF Facts
    <3>2. own[i][2] = k
      BY <3>1
    <3> QED
      BY <3>1, <3>2 DEF View, Terminals
  <2> QED
    BY <1>2, <1>3, <2>1, <2>2 DEF View, CreatesFirst
<1>8. DownOwn(p, tb2, d, own)
  <2>1. \A n \in 1..Len(d) : tb2[d[n].tab[2]] = tb[d[n].tab[2]]
    BY <1>4, <1>f DEF Facts, View, DownOwn
  <2> QED
    BY <2>1 DEF View, DownOwn
<1>9. \A i \in Ids : own[i] # NoTab => tb2[own[i][2]] = tb[own[i][2]]
  BY <1>4, <1>f DEF Facts, View, Terminals
<1>10. Terminals(p, tb2, d, own)
  BY <1>9 DEF View, Terminals
<1>11. InTurn(tm, d, own) /\ AnswersBacked(d, own)
  BY DEF View
<1>12. OpenKnown(p, tb2, tm) /\ OpenBacked(p, tb2, d, own)
  BY <1>4 DEF View, OpenKnown, OpenBacked
<1>13. OpenAsked(p, tb2, v, d)
  BY <1>2, <1>3, <1>4 DEF View, OpenAsked
<1>14. TypedOwn(p, tb2, v)
  <2>1. \A n \in 1..Len(u) :
          u[n].m = "data" /\ u[n].id # NoId /\ u[n].offline = FALSE =>
            tb2[u[n].tab[2]] = tb[u[n].tab[2]]
    BY <1>4, <1>f DEF Facts, View, TypedOwn
  <2> QED
    BY <1>2, <1>3, <2>1 DEF View, TypedOwn
<1>15. KillSent(tb2, v, own, alive)
  BY <1>1, <1>3, <1>9 DEF View, KillSent, Types
<1> QED
  BY <1>5, <1>6, <1>7, <1>8, <1>10, <1>11, <1>12, <1>13, <1>14, <1>15
  DEF View, tb2, v, x

\* Tab._destroy of tab k, as Forget has it.
Dropped(tb, k) == [tb EXCEPT ![k] = Gone(@)]
Cleared(tm, id) == [i \in Ids |-> IF i = id THEN NoTab ELSE tm[i]]

\* Tabs that are destroyed are closed, or dropped if they have no id.
LEMMA DroppedIs ==
  ASSUME NEW tb \in [UseTab -> TabRow], NEW k \in UseTab
  PROVE  /\ Dropped(tb, k) \in [UseTab -> TabRow]
         /\ \A j \in UseTab : Dropped(tb, k)[j].id = tb[j].id
         /\ \A j \in UseTab : j # k => Dropped(tb, k)[j] = tb[j]
         /\ tb[k].id = NoId => Dropped(tb, k)[k].st = "dropped"
         /\ tb[k].id # NoId => Dropped(tb, k)[k].st = "closed"
BY DEF Dropped, Gone, TabRow

\* What is true of the tabs of a page when one is destroyed, whatever it sends.
LEMMA ViewDropped ==
  ASSUME NEW p \in Pages, NEW tb, NEW tm, NEW u, NEW d, NEW own, NEW alive,
         View(p, tb, tm, u, d, own, alive),
         NEW k \in UseTab, tb[k].st = "open"
  PROVE  LET tb2 == Dropped(tb, k)
             tm2 == Cleared(tm, tb[k].id)
         IN  /\ tb2 \in [UseTab -> TabRow] /\ tm2 \in [Ids -> Tab \cup {NoTab}]
             /\ CreatesFresh(p, tb2, u)
             /\ DownOwn(p, tb2, d, own) /\ Terminals(p, tb2, d, own)
             /\ OpenKnown(p, tb2, tm2)
             /\ OpenBacked(p, tb2, d, own) /\ OpenAsked(p, tb2, u, d)
             /\ TypedOwn(p, tb2, u)
             /\ \A i \in alive : own[i] # NoTab /\ own[i] # <<p, k>> =>
                  tb2[own[i][2]] = tb[own[i][2]]
<1> DEFINE tb2 == Dropped(tb, k)
           tm2 == Cleared(tm, tb[k].id)
<1>f. Facts(p, tb, tm, u, d, own, alive)
  BY ViewFacts
<1>1. /\ tb2 \in [UseTab -> TabRow]
      /\ \A j \in UseTab : tb2[j].id = tb[j].id
      /\ \A j \in UseTab : j # k => tb2[j] = tb[j]
      /\ tb[k].id = NoId => tb2[k].st = "dropped"
      /\ tb[k].id # NoId => tb2[k].st = "closed"
  BY DroppedIs, <1>f DEF Facts
<1>2. /\ tm2 \in [Ids -> Tab \cup {NoTab}]
      /\ \A i \in Ids : tm2[i] = IF i = tb[k].id THEN NoTab ELSE tm[i]
  BY <1>f DEF Facts, Cleared
<1>3. \A j \in UseTab : /\ tb[j].st \in {"none", "open", "closed", "dropped"}
                        /\ tb[j].id \in Ids \cup {NoId}
  BY <1>f DEF Facts, TabRow
<1> HIDE DEF tb2, tm2
<1>4. /\ \A j \in UseTab : tb[j].st # "none" => tb2[j].st # "none"
      /\ \A j \in UseTab : tb2[j].st = "open" => j # k /\ tb[j].st = "open"
      /\ \A j \in UseTab : tb[j].id = NoId /\ tb[j].st \in {"open", "dropped"}
           => tb2[j].st \in {"open", "dropped"}
      /\ \A j \in UseTab : tb[j].id # NoId /\ tb[j].st \in {"open", "closed"}
           => tb2[j].st \in {"open", "closed"}
  BY <1>1
<1>5. CreatesFresh(p, tb2, u)
  <2>1. CreatesFresh(p, tb, u)
    BY DEF View
  <2>2. \A n \in 1..Len(u) : u[n].m = "create" => u[n].tab[2] \in UseTab
    BY <1>f DEF Facts
  <2> QED
    BY <1>1, <1>4, <2>1, <2>2 DEF CreatesFresh
<1>6. DownOwn(p, tb2, d, own)
  BY <1>1, <1>4, <1>f DEF Facts, View, DownOwn
<1>7. Terminals(p, tb2, d, own)
  BY <1>1, <1>4, <1>f DEF Facts, View, Terminals
<1>8. OpenKnown(p, tb2, tm2)
  BY <1>1, <1>2, <1>3, <1>4 DEF View, OpenKnown
<1>9. OpenBacked(p, tb2, d, own) /\ OpenAsked(p, tb2, u, d)
  BY <1>1, <1>4 DEF View, OpenBacked, OpenAsked
<1>10. TypedOwn(p, tb2, u)
  BY <1>1, <1>4, <1>f DEF Facts, View, TypedOwn
<1>11. \A i \in alive : own[i] # NoTab /\ own[i] # <<p, k>> =>
         tb2[own[i][2]] = tb[own[i][2]]
  BY <1>1, <1>f DEF Facts
<1> QED
  BY <1>1, <1>2, <1>5, <1>6, <1>7, <1>8, <1>9, <1>10, <1>11 DEF tb2, tm2

\* Tab.destroy.
LEMMA ViewCloseTab ==
  ASSUME NEW p \in Pages, NEW tb, NEW tm, NEW u, NEW d, NEW own, NEW alive,
         View(p, tb, tm, u, d, own, alive),
         NEW k \in UseTab, tb[k].st = "open", NEW off \in BOOLEAN
  PROVE  View(p, Dropped(tb, k), Cleared(tm, tb[k].id),
              Append(u, Named("kill", tb[k].id, <<p, k>>, off)), d, own, alive)
<1> DEFINE tb2 == Dropped(tb, k)
           tm2 == Cleared(tm, tb[k].id)
           x   == Named("kill", tb[k].id, <<p, k>>, off)
           v   == Append(u, x)
<1>f. Facts(p, tb, tm, u, d, own, alive)
  BY ViewFacts
<1>1. x \in UpMessage /\ x.m = "kill" /\ x.id = tb[k].id
  BY <1>f DEF Facts, Named, UpMessage, TabRow
<1>2. /\ v \in Seq(UpMessage) /\ Len(u) \in Nat /\ Len(v) = Len(u) + 1
      /\ \A l \in 1..Len(u) : v[l] = u[l] /\ l \in 1..Len(v)
      /\ \A l \in 1..Len(v) : l # Len(v) => l \in 1..Len(u)
      /\ v[Len(v)] = x /\ Len(v) \in 1..Len(v)
  BY <1>1, AppendIs, <1>f DEF Facts
<1>3. /\ tb2 \in [UseTab -> TabRow] /\ tm2 \in [Ids -> Tab \cup {NoTab}]
      /\ CreatesFresh(p, tb2, u)
      /\ DownOwn(p, tb2, d, own) /\ Terminals(p, tb2, d, own)
      /\ OpenKnown(p, tb2, tm2)
      /\ OpenBacked(p, tb2, d, own) /\ OpenAsked(p, tb2, u, d)
      /\ TypedOwn(p, tb2, u)
      /\ \A i \in alive : own[i] # NoTab /\ own[i] # <<p, k>> =>
           tb2[own[i][2]] = tb[own[i][2]]
  BY ViewDropped
<1>4. /\ \A i \in Ids : tm2[i] = IF i = tb[k].id THEN NoTab ELSE tm[i]
      /\ tb[k].id = NoId => tb2[k].st = "dropped"
  BY DroppedIs, <1>f DEF Facts, Cleared
<1> HIDE DEF tb2, tm2, x, v
<1>5. Types(tb2, tm2, v, d, own, alive)
  BY <1>2, <1>3, <1>f DEF Facts, Types
<1>6. CreatesFresh(p, tb2, v)
  BY <1>1, <1>2, <1>3 DEF CreatesFresh
<1>7. CreatesFirst(v, d, own)
  BY <1>1, <1>2 DEF View, CreatesFirst
<1>8. InTurn(tm2, d, own)
  BY <1>4, <1>f, DownFields DEF Facts, View, InTurn, Fits
<1>9. OpenAsked(p, tb2, v, d)
  BY <1>2, <1>3 DEF OpenAsked
<1>10. TypedOwn(p, tb2, v)
  BY <1>1, <1>2, <1>3 DEF TypedOwn
<1>11. KillSent(tb2, v, own, alive)
  <2> SUFFICES ASSUME NEW i \in alive, own[i] # NoTab,
                      tb2[own[i][2]].st = "closed"
               PROVE  \E n \in 1..Len(v) : v[n].m = "kill" /\ v[n].id = i
    BY DEF KillSent
  <2>1. CASE own[i] = <<p, k>>
    <3>1. i \in Ids /\ own[i] = <<p, own[i][2]>>
      BY <1>f DEF Facts
    <3>2. own[i][2] = k
      BY <2>1, <3>1
    <3>3. tb[k].id = i
      BY <1>4, <3>1, <3>2 DEF View, Terminals
    <3> QED
      BY <1>1, <1>2, <3>3
  <2>2. CASE own[i] # <<p, k>>
    BY <1>2, <1>3, <2>2 DEF View, KillSent
  <2> QED
    BY <2>1, <2>2
<1>12. AnswersBacked(d, own)
  BY DEF View
<1> QED
  BY <1>3, <1>5, <1>6, <1>7, <1>8, <1>9, <1>10, <1>11, <1>12
  DEF View, tb2, tm2, v, x

\* Tab.handler.
LEMMA ViewType ==
  ASSUME NEW p \in Pages, NEW tb, NEW tm, NEW u, NEW d, NEW own, NEW alive,
         View(p, tb, tm, u, d, own, alive),
         NEW k \in UseTab, tb[k].st = "open", NEW off \in BOOLEAN
  PROVE  View(p, tb, tm,
              Append(u, Named("data", tb[k].id, <<p, k>>, off)), d, own, alive)
<1> DEFINE x == Named("data", tb[k].id, <<p, k>>, off)
           v == Append(u, x)
<1>f. Facts(p, tb, tm, u, d, own, alive)
  BY ViewFacts
<1>1. /\ x \in UpMessage /\ x.m = "data" /\ x.id = tb[k].id
      /\ x.tab[1] = p /\ x.tab[2] = k
  BY <1>f DEF Facts, Named, UpMessage, TabRow
<1>2. /\ v \in Seq(UpMessage) /\ Len(u) \in Nat /\ Len(v) = Len(u) + 1
      /\ \A l \in 1..Len(u) : v[l] = u[l] /\ l \in 1..Len(v)
      /\ \A l \in 1..Len(v) : l # Len(v) => l \in 1..Len(u)
      /\ v[Len(v)] = x /\ Len(v) \in 1..Len(v)
  BY <1>1, AppendIs, <1>f DEF Facts
<1> HIDE DEF x, v
<1>3. Types(tb, tm, v, d, own, alive)
  BY <1>2 DEF View, Types
<1>4. CreatesFresh(p, tb, v)
  BY <1>1, <1>2 DEF View, CreatesFresh
<1>5. CreatesFirst(v, d, own)
  BY <1>1, <1>2 DEF View, CreatesFirst
<1>6. OpenAsked(p, tb, v, d)
  BY <1>2 DEF View, OpenAsked
<1>7. TypedOwn(p, tb, v)
  BY <1>1, <1>2 DEF View, TypedOwn
<1>8. KillSent(tb, v, own, alive)
  BY <1>2 DEF View, KillSent
<1> QED
  BY <1>3, <1>4, <1>5, <1>6, <1>7, <1>8 DEF View, v, x

-----------------------------------------------------------------------------
(* The page receives.                                                      *)

\* What the page knows of its messages stays true of those that are left.
LEMMA DownOwnTail ==
  ASSUME NEW p, NEW x, NEW d \in Seq(DownMessage), NEW own, d # <<>>,
         DownOwn(p, x, d, own)
  PROVE  DownOwn(p, x, Tail(d), own)
<1> DEFINE t == Tail(d)
<1>1. \A l \in 1..Len(t) : l + 1 \in 1..Len(d) /\ t[l] = d[l + 1]
  BY TailIs
<1>2. \A n, l \in 1..Len(t) : l + 1 = n + 1 => l = n
  BY TailIs
<1> HIDE DEF t
<1> SUFFICES ASSUME NEW n \in 1..Len(t)
             PROVE  /\ t[n].tab[1] = p
                    /\ x[t[n].tab[2]].st # "none"
                    /\ t[n].m = "answer" =>
                         /\ x[t[n].tab[2]].id = NoId
                         /\ x[t[n].tab[2]].st \in {"open", "dropped"}
                         /\ \A l \in 1..Len(t) :
                              t[l].m = "answer" /\ t[l].tab = t[n].tab
                                => l = n
                         /\ \A i \in Ids : own[i] = t[n].tab => i = t[n].id
                    /\ t[n].m = "kill" => \A i \in Ids : own[i] # t[n].tab
  BY DEF DownOwn, t
<1>3. n + 1 \in 1..Len(d) /\ t[n] = d[n + 1]
  BY <1>1
<1>4. /\ d[n + 1].tab[1] = p
      /\ x[d[n + 1].tab[2]].st # "none"
      /\ d[n + 1].m = "answer" =>
           /\ x[d[n + 1].tab[2]].id = NoId
           /\ x[d[n + 1].tab[2]].st \in {"open", "dropped"}
           /\ \A l \in 1..Len(d) :
                d[l].m = "answer" /\ d[l].tab = d[n + 1].tab => l = n + 1
           /\ \A i \in Ids : own[i] = d[n + 1].tab => i = d[n + 1].id
      /\ d[n + 1].m = "kill" => \A i \in Ids : own[i] # d[n + 1].tab
  BY <1>3 DEF DownOwn
<1>5. ASSUME t[n].m = "answer", NEW l \in 1..Len(t), t[l].m = "answer",
             t[l].tab = t[n].tab
      PROVE  l = n
  <2>1. l + 1 \in 1..Len(d) /\ t[l] = d[l + 1]
    BY <1>1
  <2>2. l + 1 = n + 1
    BY <1>3, <1>4, <1>5, <2>1
  <2> QED
    BY <1>2, <2>2
<1> QED
  BY <1>3, <1>4, <1>5

\* What holds whatever the message is and whatever becomes of the tabs.
LEMMA ViewReads ==
  ASSUME NEW p \in Pages, NEW tb, NEW tm, NEW u, NEW d, NEW own, NEW alive,
         View(p, tb, tm, u, d, own, alive),
         NEW tm2, d # <<>>, Reads(tm, tm2, Head(d))
  PROVE  /\ CreatesFirst(u, Tail(d), own) /\ InTurn(tm2, Tail(d), own)
         /\ AnswersBacked(Tail(d), own)
<1> DEFINE t == Tail(d)
<1>f. Facts(p, tb, tm, u, d, own, alive)
  BY ViewFacts
<1>1. /\ t \in Seq(DownMessage) /\ Len(d) \in Nat /\ Len(t) = Len(d) - 1
      /\ \A l \in 1..Len(t) : l + 1 \in 1..Len(d) /\ t[l] = d[l + 1]
  BY <1>f, TailIs DEF Facts
<1>2. \A l \in 1..Len(t) : l \in Nat /\ l > 0
  BY <1>1
<1> HIDE DEF t
<1>3. CreatesFirst(u, t, own)
  BY <1>1 DEF View, CreatesFirst
<1>4. InTurn(tm2, t, own)
  <2>1. ASSUME NEW n \in 1..Len(t), t[n].m # "answer"
        PROVE  Fits(tm2, t, t[n].id, t[n].tab, n)
    <3>1. n + 1 \in 1..Len(d) /\ t[n] = d[n + 1]
      BY <1>1
    <3>2. Fits(tm, d, t[n].id, t[n].tab, n + 1)
      BY <2>1, <3>1 DEF View, InTurn
    <3>3. t[n].id \in Ids
      BY <1>1, <2>1, DownFields
    <3> QED
      BY <1>2, <1>f, <3>2, <3>3, FitsTail DEF Facts, t
  <2>2. ASSUME NEW i \in Ids, own[i] # NoTab
        PROVE  Fits(tm2, t, i, own[i], Len(t) + 1)
    <3>1. Fits(tm, d, i, own[i], (Len(t) + 1) + 1)
      BY <1>1, <2>2 DEF View, InTurn
    <3>2. Len(t) + 1 \in Nat /\ Len(t) + 1 > 0
      BY <1>1
    <3> QED
      BY <1>f, <3>1, <3>2, FitsTail DEF Facts, t
  <2> QED
    BY <2>1, <2>2 DEF InTurn
<1>5. AnswersBacked(t, own)
  <2> SUFFICES ASSUME NEW n \in 1..Len(t), t[n].m = "answer", t[n].id # NoId
               PROVE  Backed(t, own, t[n].id, t[n].tab, n)
    BY DEF AnswersBacked
  <2>1. n + 1 \in 1..Len(d) /\ t[n] = d[n + 1]
    BY <1>1
  <2>2. Backed(d, own, t[n].id, t[n].tab, n + 1)
    BY <2>1 DEF View, AnswersBacked
  <2> QED
    BY <1>2, <1>f, <2>2, BackedTail DEF Facts, t
<1> QED
  BY <1>3, <1>4, <1>5 DEF t

\* Output for a tab.
LEMMA ViewOutput ==
  ASSUME NEW p \in Pages, NEW tb, NEW tm, NEW u, NEW d, NEW own, NEW alive,
         View(p, tb, tm, u, d, own, alive),
         d # <<>>, Head(d).m = "data"
  PROVE  View(p, tb, tm, u, Tail(d), own, alive)
<1> DEFINE t == Tail(d)
<1>f. Facts(p, tb, tm, u, d, own, alive)
  BY ViewFacts
<1>1. /\ t \in Seq(DownMessage) /\ Len(d) \in Nat /\ Len(t) = Len(d) - 1
      /\ \A l \in 1..Len(t) : l + 1 \in 1..Len(d) /\ t[l] = d[l + 1]
      /\ \A l \in 1..Len(d) : l # 1 =>
           l - 1 \in 1..Len(t) /\ t[l - 1] = d[l]
      /\ d[1].m = "data" /\ Head(d) = d[1]
  BY <1>f, TailIs DEF Facts
<1>2. \A n, l \in 1..Len(t) : l + 1 = n + 1 => l = n
  BY <1>1
<1>3. Reads(tm, tm, Head(d))
  BY <1>1 DEF Reads, IsAnswer
<1> HIDE DEF t
<1>4. Types(tb, tm, u, t, own, alive)
  BY <1>1 DEF View, Types
<1>5. DownOwn(p, tb, t, own)
  BY <1>1, <1>2 DEF View, DownOwn
<1>6. Terminals(p, tb, t, own)
  BY <1>1 DEF View, Terminals
<1>7. OpenBacked(p, tb, t, own)
  BY <1>1, <1>f, BackedStart DEF Facts, View, OpenBacked, t
<1>8. OpenAsked(p, tb, u, t)
  BY <1>1 DEF View, OpenAsked
<1> QED
  BY <1>3, <1>4, <1>5, <1>6, <1>7, <1>8, ViewReads DEF View, t

\* The answer to create, with an id.
LEMMA ViewAnswered ==
  ASSUME NEW p \in Pages, NEW tb, NEW tm, NEW u, NEW d, NEW own, NEW alive,
         View(p, tb, tm, u, d, own, alive),
         d # <<>>, Head(d).m = "answer", Head(d).id # NoId
  PROVE  View(p, [tb EXCEPT ![Head(d).tab[2]].id = Head(d).id],
              [tm EXCEPT ![Head(d).id] = <<p, Head(d).tab[2]>>],
              u, Tail(d), own, alive)
<1> DEFINE t   == Tail(d)
           k   == Head(d).tab[2]
           i   == Head(d).id
           tb2 == [tb EXCEPT ![k].id = i]
           tm2 == [tm EXCEPT ![i] = <<p, k>>]
<1>f. Facts(p, tb, tm, u, d, own, alive)
  BY ViewFacts
<1>1. /\ t \in Seq(DownMessage) /\ Len(d) \in Nat /\ Len(t) = Len(d) - 1
      /\ \A l \in 1..Len(t) : l + 1 \in 1..Len(d) /\ t[l] = d[l + 1]
      /\ \A l \in 1..Len(d) : l # 1 =>
           l - 1 \in 1..Len(t) /\ t[l - 1] = d[l]
      /\ Head(d) = d[1] /\ 1 \in 1..Len(d)
  BY <1>f, TailIs DEF Facts
<1>2. /\ k \in UseTab /\ d[1].tab = <<p, k>> /\ d[1].id = i /\ i \in Ids
      /\ d[1].m = "answer" /\ <<p, k>> \in Tab
  BY <1>1, <1>f, DownFields DEF Facts
<1>3. /\ tb[k].id = NoId /\ tb[k].st \in {"open", "dropped"}
      /\ \A l \in 1..Len(d) :
           d[l].m = "answer" /\ d[l].tab = <<p, k>> => l = 1
      /\ \A j \in Ids : own[j] = <<p, k>> => j = i
  BY SMTT(30), <1>1, <1>2 DEF View, DownOwn
<1>4. /\ tb2 \in [UseTab -> TabRow] /\ tb2[k].id = i /\ tb2[k].st = tb[k].st
      /\ \A j \in UseTab : j # k => tb2[j] = tb[j]
      /\ \A j \in UseTab : tb2[j].st = tb[j].st
  BY SMTT(30), <1>2, <1>f DEF Facts, TabRow
<1>5. /\ tm2 \in [Ids -> Tab \cup {NoTab}] /\ tm2[i] = <<p, k>>
      /\ \A j \in Ids : j # i => tm2[j] = tm[j]
  BY <1>2, <1>f DEF Facts
<1>6. Reads(tm, tm2, Head(d))
  BY <1>1, <1>2, <1>5 DEF Reads, IsAnswer
<1>7. i # NoId
  OBVIOUS
<1> HIDE DEF t, k, i, tb2, tm2
<1>8. Types(tb2, tm2, u, t, own, alive)
  BY <1>1, <1>4, <1>5 DEF View, Types
<1>9. CreatesFresh(p, tb2, u)
  <2>1. \A n \in 1..Len(u) : u[n].m = "create" =>
          /\ u[n].tab # <<p, k>> /\ u[n].tab[2] \in UseTab
          /\ u[n].tab = <<p, u[n].tab[2]>>
    <3>1. \A n \in 1..Len(u) : u[n].m = "create" => d[1].tab # u[n].tab
      BY <1>1 DEF View, CreatesFirst
    <3> QED
      BY <1>2, <1>f, <3>1 DEF Facts
  <2>2. \A n \in 1..Len(u) : u[n].m = "create" =>
          tb2[u[n].tab[2]] = tb[u[n].tab[2]]
    BY <1>4, <2>1
  <2> QED
    BY <2>2 DEF View, CreatesFresh
<1>10. DownOwn(p, tb2, t, own)
  <2>1. \A n \in 1..Len(t) : t[n].m = "answer" =>
          /\ t[n].tab # <<p, k>> /\ t[n].tab[2] \in UseTab
          /\ t[n].tab = <<p, t[n].tab[2]>>
    <3>1. \A n \in 1..Len(t) : n + 1 # 1
      BY <1>1
    <3> QED
      <4>1. \A n \in 1..Len(t) : t[n].m = "answer" => t[n].tab # <<p, k>>
        <5> SUFFICES ASSUME NEW n \in 1..Len(t), t[n].m = "answer",
                            t[n].tab = <<p, k>>
                     PROVE  FALSE
          OBVIOUS
        <5>1. n + 1 \in 1..Len(d) /\ d[n + 1] = t[n]
          BY <1>1
        <5>2. n + 1 = 1
          BY <1>3, <5>1
        <5> QED
          BY <3>1, <5>2
      <4>2. \A n \in 1..Len(t) : /\ t[n].tab[2] \in UseTab
                                 /\ t[n].tab = <<p, t[n].tab[2]>>
        BY <1>1, <1>f DEF Facts
      <4> QED
        BY <4>1, <4>2
  <2>2. \A n \in 1..Len(t) : t[n].m = "answer" =>
          tb2[t[n].tab[2]] = tb[t[n].tab[2]]
    BY <1>4, <2>1
  <2>3. \A n \in 1..Len(t) : tb2[t[n].tab[2]].st = tb[t[n].tab[2]].st
    <3> SUFFICES ASSUME NEW n \in 1..Len(t)
                 PROVE  tb2[t[n].tab[2]].st = tb[t[n].tab[2]].st
      OBVIOUS
    <3>1. n + 1 \in 1..Len(d) /\ d[n + 1] = t[n]
      BY <1>1
    <3>2. t[n].tab[2] \in UseTab
      BY <3>1, <1>f DEF Facts
    <3> QED
      BY <1>4, <3>2
  <2>4. \A n, l \in 1..Len(t) : l + 1 = n + 1 => l = n
    BY <1>1
  <2> QED
    <3>1. DownOwn(p, tb, t, own)
      BY <1>1, <2>4 DEF View, DownOwn
    <3> QED
      BY <2>2, <2>3, <3>1 DEF DownOwn
<1>11. Terminals(p, tb2, t, own)
  <2> SUFFICES ASSUME NEW j \in Ids, own[j] # NoTab
               PROVE  /\ own[j][1] = p /\ tb2[own[j][2]].st # "none"
                      /\ tb2[own[j][2]].id \in {NoId, j}
                      /\ tb2[own[j][2]].id = NoId =>
                           \E n \in 1..Len(t) : t[n].m = "answer"
                                                /\ t[n].tab = own[j]
                      /\ \A l \in Ids : own[l] = own[j] => l = j
    BY DEF Terminals
  <2>1. /\ own[j][2] \in UseTab /\ own[j] = <<p, own[j][2]>>
        /\ own[j][1] = p /\ tb2[own[j][2]].st # "none"
        /\ tb[own[j][2]].id \in {NoId, j}
        /\ tb[own[j][2]].id = NoId =>
             \E n \in 1..Len(d) : d[n].m = "answer" /\ d[n].tab = own[j]
        /\ \A l \in Ids : own[l] = own[j] => l = j
    BY <1>4, <1>f DEF Facts, View, Terminals
  <2>2. CASE own[j][2] = k
    BY <1>3, <1>4, <1>7, <2>1, <2>2
  <2>3. CASE own[j][2] # k
    BY <1>1, <1>2, <1>4, <2>1, <2>3
  <2> QED
    BY <2>2, <2>3
<1>12. ASSUME NEW j \in UseTab, tb[j].st = "open", tb[j].id # NoId
       PROVE  Backed(t, own, tb[j].id, <<p, j>>, 0) /\ tb[j].id # i
  <2>1. Backed(d, own, tb[j].id, <<p, j>>, 0)
    BY <1>12 DEF View, OpenBacked
  <2>2. Backed(t, own, tb[j].id, <<p, j>>, 0) /\ ~IsAnswer(d[1], tb[j].id)
    BY <1>2, <1>f, <2>1, BackedStart DEF Facts, t
  <2> QED
    BY <1>2, <2>2 DEF IsAnswer
<1>13. OpenKnown(p, tb2, tm2)
  <2> SUFFICES ASSUME NEW j \in UseTab, tb2[j].st = "open", tb2[j].id # NoId
               PROVE  tm2[tb2[j].id] = <<p, j>>
    BY DEF OpenKnown
  <2>1. CASE j = k
    BY <1>4, <1>5, <2>1
  <2>2. CASE j # k
    <3>1. tb2[j] = tb[j] /\ tb[j].id \in Ids
      BY <1>4, <1>f, <2>2 DEF Facts, TabRow
    <3> QED
      BY <1>5, <1>12, <3>1 DEF View, OpenKnown
  <2> QED
    BY <2>1, <2>2
<1>14. OpenBacked(p, tb2, t, own)
  <2> SUFFICES ASSUME NEW j \in UseTab, tb2[j].st = "open", tb2[j].id # NoId
               PROVE  Backed(t, own, tb2[j].id, <<p, j>>, 0)
    BY DEF OpenBacked
  <2>1. CASE j = k
    <3>1. Backed(d, own, i, <<p, k>>, 0 + 1)
      <4>1. Backed(d, own, d[1].id, d[1].tab, 1)
        BY <1>1, <1>2, <1>7 DEF View, AnswersBacked
      <4> QED
        BY <1>2, <4>1
    <3> QED
      BY <1>4, <1>f, <2>1, <3>1, BackedTail DEF Facts, t
  <2>2. CASE j # k
    BY <1>4, <1>12, <2>2
  <2> QED
    BY <2>1, <2>2
<1>15. OpenAsked(p, tb2, u, t)
  <2> SUFFICES ASSUME NEW j \in UseTab, tb2[j].st = "open", tb2[j].id = NoId
               PROVE  \/ \E n \in 1..Len(u) :
                           u[n].m = "create" /\ u[n].tab = <<p, j>>
                      \/ \E n \in 1..Len(t) :
                           t[n].m = "answer" /\ t[n].tab = <<p, j>>
    BY DEF OpenAsked
  <2>1. j # k /\ tb[j].st = "open" /\ tb[j].id = NoId
    BY <1>4, <1>7
  <2> QED
    <3>1. \/ \E n \in 1..Len(u) : u[n].m = "create" /\ u[n].tab = <<p, j>>
          \/ \E n \in 1..Len(d) : d[n].m = "answer" /\ d[n].tab = <<p, j>>
      BY <2>1 DEF View, OpenAsked
    <3>2. \A n \in 1..Len(d) : d[n].tab = <<p, j>> => n # 1
      BY <1>2, <2>1
    <3>3. ASSUME NEW n \in 1..Len(d), d[n].m = "answer", d[n].tab = <<p, j>>
          PROVE  \E l \in 1..Len(t) : t[l].m = "answer" /\ t[l].tab = <<p, j>>
      <4>1. n - 1 \in 1..Len(t) /\ t[n - 1] = d[n]
        BY <1>1, <3>2, <3>3
      <4> QED
        BY <3>3, <4>1
    <3> QED
      BY <3>1, <3>3
<1>16. TypedOwn(p, tb2, u)
  <2> SUFFICES ASSUME NEW n \in 1..Len(u), u[n].m = "data", u[n].id # NoId,
                      u[n].offline = FALSE
               PROVE  /\ u[n].tab[1] = p /\ tb2[u[n].tab[2]].id = u[n].id
                      /\ tb2[u[n].tab[2]].st \in {"open", "closed"}
    BY DEF TypedOwn
  <2>1. /\ u[n].tab[1] = p /\ tb[u[n].tab[2]].id = u[n].id
        /\ tb[u[n].tab[2]].st \in {"open", "closed"}
        /\ u[n].tab[2] \in UseTab
    BY <1>f DEF Facts, View, TypedOwn
  <2>2. u[n].tab[2] # k
    BY <1>3, <2>1
  <2> QED
    BY <1>4, <2>1, <2>2
<1>17. KillSent(tb2, u, own, alive)
  BY <1>4, <1>f DEF Facts, View, KillSent
<1> QED
  BY <1>6, <1>8, <1>9, <1>10, <1>11, <1>13, <1>14, <1>15, <1>16, <1>17,
     ViewReads DEF View, t, tb2, tm2, k, i

\* The answer to create, without one: the limit was reached.
LEMMA ViewRefused ==
  ASSUME NEW p \in Pages, NEW tb, NEW tm, NEW u, NEW d, NEW own, NEW alive,
         View(p, tb, tm, u, d, own, alive),
         d # <<>>, Head(d).m = "answer", Head(d).id = NoId
  PROVE  View(p, [tb EXCEPT ![Head(d).tab[2]].st =
                    IF @ = "open" THEN "closed" ELSE @],
              tm, u, Tail(d), own, alive)
<1> DEFINE t   == Tail(d)
           k   == Head(d).tab[2]
           tb2 == [tb EXCEPT ![k].st = IF @ = "open" THEN "closed" ELSE @]
<1>f. Facts(p, tb, tm, u, d, own, alive)
  BY ViewFacts
<1>1. /\ t \in Seq(DownMessage) /\ Len(d) \in Nat /\ Len(t) = Len(d) - 1
      /\ \A l \in 1..Len(t) :
           l + 1 \in 1..Len(d) /\ t[l] = d[l + 1] /\ l + 1 # 1
      /\ \A l \in 1..Len(d) : l # 1 =>
           l - 1 \in 1..Len(t) /\ t[l - 1] = d[l]
      /\ \A n, l \in 1..Len(t) : l + 1 = n + 1 => l = n
      /\ Head(d) = d[1] /\ 1 \in 1..Len(d)
  BY <1>f, TailIs DEF Facts
<1>2. /\ k \in UseTab /\ d[1].tab = <<p, k>> /\ d[1].id = NoId
      /\ d[1].m = "answer"
  BY <1>1, <1>f DEF Facts
<1>3. /\ tb[k].id = NoId /\ tb[k].st \in {"open", "dropped"}
      /\ \A l \in 1..Len(d) :
           d[l].m = "answer" /\ d[l].tab = <<p, k>> => l = 1
      /\ \A j \in Ids : own[j] # <<p, k>>
  BY <1>1, <1>2, TtyAssumption DEF View, DownOwn
<1>4. /\ tb2 \in [UseTab -> TabRow] /\ tb2[k].id = NoId
      /\ tb2[k].st \in {"closed", "dropped"}
      /\ \A j \in UseTab : j # k => tb2[j] = tb[j]
      /\ \A j \in UseTab : tb[j].st # "none" => tb2[j].st # "none"
  BY SMTT(30), <1>2, <1>3, <1>f DEF Facts, TabRow
<1>5. Reads(tm, tm, Head(d))
  BY <1>1, <1>2, TtyAssumption DEF Reads, IsAnswer
<1> HIDE DEF t, k, tb2
<1>6. Types(tb2, tm, u, t, own, alive)
  BY <1>1, <1>4 DEF View, Types
<1>7. CreatesFresh(p, tb2, u)
  <2>1. \A n \in 1..Len(u) : u[n].m = "create" => d[1].tab # u[n].tab
    BY <1>1 DEF View, CreatesFirst
  <2>2. \A n \in 1..Len(u) : u[n].m = "create" =>
          tb2[u[n].tab[2]] = tb[u[n].tab[2]]
    BY <1>2, <1>4, <1>f, <2>1 DEF Facts
  <2> QED
    BY <2>2 DEF View, CreatesFresh
<1>8. DownOwn(p, tb2, t, own)
  <2>1. \A n \in 1..Len(t) : t[n].m = "answer" => t[n].tab # <<p, k>>
    BY <1>1, <1>3
  <2>2. \A n \in 1..Len(t) : /\ t[n].tab[2] \in UseTab
                             /\ t[n].tab = <<p, t[n].tab[2]>>
    BY <1>1, <1>f DEF Facts
  <2>3. \A n \in 1..Len(t) : t[n].m = "answer" =>
          tb2[t[n].tab[2]] = tb[t[n].tab[2]]
    BY <1>4, <2>1, <2>2
  <2>4. DownOwn(p, tb, t, own)
    BY <1>f, DownOwnTail DEF Facts, View, t
  <2> QED
    BY <1>4, <2>2, <2>3, <2>4 DEF DownOwn
<1>9. \A j \in Ids : own[j] # NoTab =>
        own[j][2] # k /\ tb2[own[j][2]] = tb[own[j][2]]
  BY <1>3, <1>4, <1>f DEF Facts
<1>10. Terminals(p, tb2, t, own)
  <2> SUFFICES ASSUME NEW j \in Ids, own[j] # NoTab, tb[own[j][2]].id = NoId
               PROVE  \E n \in 1..Len(t) : t[n].m = "answer"
                                           /\ t[n].tab = own[j]
    BY <1>9 DEF View, Terminals
  <2>1. PICK n \in 1..Len(d) : d[n].m = "answer" /\ d[n].tab = own[j]
    BY DEF View, Terminals
  <2>2. n # 1
    BY <1>2, <1>3, <2>1
  <2> QED
    BY <1>1, <2>1, <2>2
<1>11. \A j \in UseTab : tb2[j].st = "open" => j # k /\ tb2[j] = tb[j]
  BY <1>4
<1>12. OpenKnown(p, tb2, tm)
  BY <1>11 DEF View, OpenKnown
<1>13. OpenBacked(p, tb2, t, own)
  <2> SUFFICES ASSUME NEW j \in UseTab, tb[j].st = "open", tb[j].id # NoId
               PROVE  Backed(t, own, tb[j].id, <<p, j>>, 0)
    BY <1>11 DEF OpenBacked
  <2>1. Backed(d, own, tb[j].id, <<p, j>>, 0)
    BY DEF View, OpenBacked
  <2> QED
    BY <1>2, <1>f, <2>1, BackedStart DEF Facts, t
<1>14. OpenAsked(p, tb2, u, t)
  <2> SUFFICES ASSUME NEW j \in UseTab, j # k, tb[j].st = "open",
                      tb[j].id = NoId,
                      NEW n \in 1..Len(d), d[n].m = "answer",
                      d[n].tab = <<p, j>>
               PROVE  \E l \in 1..Len(t) : t[l].m = "answer"
                                           /\ t[l].tab = <<p, j>>
    BY <1>11 DEF View, OpenAsked
  <2>1. n # 1
    BY <1>2
  <2>2. n - 1 \in 1..Len(t) /\ t[n - 1] = d[n]
    BY <1>1, <2>1
  <2> QED
    BY <2>2
<1>15. TypedOwn(p, tb2, u)
  <2>1. \A n \in 1..Len(u) :
          u[n].m = "data" /\ u[n].id # NoId /\ u[n].offline = FALSE =>
            u[n].tab[2] # k /\ tb2[u[n].tab[2]] = tb[u[n].tab[2]]
    BY <1>3, <1>4, <1>f DEF Facts, View, TypedOwn
  <2> QED
    BY <2>1 DEF View, TypedOwn
<1>16. KillSent(tb2, u, own, alive)
  BY <1>9, <1>f DEF Facts, View, KillSent
<1> QED
  BY <1>5, <1>6, <1>7, <1>8, <1>10, <1>12, <1>13, <1>14, <1>15, <1>16,
     ViewReads DEF View, t, tb2, k

\* The end of a terminal: the tab its id stands for goes, if it is there.
LEMMA ViewKilled ==
  ASSUME NEW p \in Pages, NEW tb, NEW tm, NEW u, NEW d, NEW own, NEW alive,
         View(p, tb, tm, u, d, own, alive),
         d # <<>>, Head(d).m = "kill"
  PROVE  LET c == tm[Head(d).id] IN
         IF c # NoTab /\ tb[c[2]].st = "open"
         THEN View(p, Dropped(tb, c[2]), Cleared(tm, tb[c[2]].id), u, Tail(d),
                   own, alive)
         ELSE View(p, tb, tm, u, Tail(d), own, alive)
<1> DEFINE t == Tail(d)
           c == tm[Head(d).id]
<1>f. Facts(p, tb, tm, u, d, own, alive)
  BY ViewFacts
<1>1. /\ t \in Seq(DownMessage) /\ Len(d) \in Nat /\ Len(t) = Len(d) - 1
      /\ \A l \in 1..Len(t) : l + 1 \in 1..Len(d) /\ t[l] = d[l + 1]
      /\ \A l \in 1..Len(d) : l # 1 =>
           l - 1 \in 1..Len(t) /\ t[l - 1] = d[l]
      /\ \A n, l \in 1..Len(t) : l + 1 = n + 1 => l = n
      /\ Head(d) = d[1] /\ 1 \in 1..Len(d) /\ d[1].m = "kill"
  BY <1>f, TailIs DEF Facts
<1>2. PICK k \in UseTab : d[1].tab = <<p, k>>
  BY <1>1, <1>f DEF Facts
<1>3. d[1].id \in Ids /\ c \in {<<p, k>>, NoTab}
  <2>1. Fits(tm, d, d[1].id, d[1].tab, 1)
    BY <1>1 DEF View, InTurn
  <2>2. NoAnswer(d, d[1].id, 0, 1)
    BY <1>1 DEF NoAnswer
  <2> QED
    BY <1>1, <1>2, <1>f, <2>1, <2>2, DownFields DEF Facts, Fits
<1>4. c # NoTab => c[2] = k
  BY <1>3
<1>5. \A i \in Ids : own[i] # <<p, k>>
  BY <1>1, <1>2 DEF View, DownOwn
<1> HIDE DEF t, c
<1>6. ASSUME NEW x, DownOwn(p, x, d, own), Terminals(p, x, d, own),
             OpenAsked(p, x, u, d)
      PROVE  /\ DownOwn(p, x, t, own) /\ Terminals(p, x, t, own)
             /\ OpenAsked(p, x, u, t)
  <2>1. DownOwn(p, x, t, own)
    BY <1>6, <1>f, DownOwnTail DEF Facts, t
  <2>2. ASSUME NEW q, NEW n \in 1..Len(d), d[n].m = "answer", d[n].tab = q
        PROVE  \E l \in 1..Len(t) : t[l].m = "answer" /\ t[l].tab = q
    <3>1. n # 1
      BY <1>1, <2>2
    <3>2. n - 1 \in 1..Len(t) /\ t[n - 1] = d[n]
      BY <1>1, <3>1
    <3> QED
      BY <2>2, <3>2
  <2>3. Terminals(p, x, t, own)
    <3> SUFFICES ASSUME NEW i \in Ids, own[i] # NoTab, x[own[i][2]].id = NoId
                 PROVE  \E l \in 1..Len(t) :
                          t[l].m = "answer" /\ t[l].tab = own[i]
      BY <1>6 DEF Terminals
    <3>1. PICK n \in 1..Len(d) : d[n].m = "answer" /\ d[n].tab = own[i]
      BY <1>6 DEF Terminals
    <3> QED
      BY <2>2, <3>1
  <2>4. OpenAsked(p, x, u, t)
    <3> SUFFICES ASSUME NEW j \in UseTab, x[j].st = "open", x[j].id = NoId,
                        NEW n \in 1..Len(d), d[n].m = "answer",
                        d[n].tab = <<p, j>>
                 PROVE  \E l \in 1..Len(t) :
                          t[l].m = "answer" /\ t[l].tab = <<p, j>>
      BY <1>6 DEF OpenAsked
    <3> QED
      BY <2>2
  <2> QED
    BY <2>1, <2>3, <2>4
<1>7. CASE c # NoTab /\ tb[c[2]].st = "open"
  <2> DEFINE tb2 == Dropped(tb, k)
             tm2 == Cleared(tm, tb[k].id)
  <2>1. tb[k].st = "open"
    BY <1>4, <1>7
  <2>2. /\ tb2 \in [UseTab -> TabRow] /\ tm2 \in [Ids -> Tab \cup {NoTab}]
        /\ CreatesFresh(p, tb2, u)
        /\ DownOwn(p, tb2, d, own) /\ Terminals(p, tb2, d, own)
        /\ OpenKnown(p, tb2, tm2)
        /\ OpenBacked(p, tb2, d, own) /\ OpenAsked(p, tb2, u, d)
        /\ TypedOwn(p, tb2, u)
        /\ \A i \in alive : own[i] # NoTab /\ own[i] # <<p, k>> =>
             tb2[own[i][2]] = tb[own[i][2]]
    BY <2>1, ViewDropped
  <2>3. Reads(tm, tm2, Head(d))
    BY <1>1 DEF Reads, IsAnswer, Cleared
  <2>4. tb2[k].st # "open"
    BY <1>f, DroppedIs DEF Facts
  <2> HIDE DEF tb2, tm2
  <2>5. Types(tb2, tm2, u, t, own, alive)
    BY <1>1, <2>2 DEF View, Types
  <2>6. OpenBacked(p, tb2, t, own)
    <3> SUFFICES ASSUME NEW j \in UseTab, tb2[j].st = "open",
                        tb2[j].id # NoId
                 PROVE  Backed(t, own, tb2[j].id, <<p, j>>, 0)
      BY DEF OpenBacked
    <3>1. Backed(d, own, tb2[j].id, <<p, j>>, 0)
      BY <2>2 DEF OpenBacked
    <3>2. d[1].tab # <<p, j>>
      BY <1>2, <2>4
    <3> QED
      BY <1>f, <3>1, <3>2, BackedStart DEF Facts, t
  <2>7. KillSent(tb2, u, own, alive)
    BY <1>5, <1>f, <2>2 DEF Facts, View, KillSent
  <2>8. DownOwn(p, tb2, t, own) /\ Terminals(p, tb2, t, own)
        /\ OpenAsked(p, tb2, u, t)
    BY <1>6, <2>2
  <2>9. /\ CreatesFirst(u, t, own) /\ InTurn(tm2, t, own)
        /\ AnswersBacked(t, own)
    BY <2>3, ViewReads DEF t
  <2>10. View(p, tb2, tm2, u, t, own, alive)
    BY <2>2, <2>5, <2>6, <2>7, <2>8, <2>9 DEF View
  <2> QED
    BY <1>4, <1>7, <2>10 DEF c, t, tb2, tm2
<1>8. CASE ~(c # NoTab /\ tb[c[2]].st = "open")
  <2>1. Reads(tm, tm, Head(d))
    BY <1>1 DEF Reads, IsAnswer
  <2>2. Types(tb, tm, u, t, own, alive)
    BY <1>1 DEF View, Types
  <2>3. OpenBacked(p, tb, t, own)
    <3> SUFFICES ASSUME NEW j \in UseTab, tb[j].st = "open", tb[j].id # NoId
                 PROVE  Backed(t, own, tb[j].id, <<p, j>>, 0)
      BY DEF OpenBacked
    <3>1. /\ Backed(d, own, tb[j].id, <<p, j>>, 0)
          /\ tm[tb[j].id] = <<p, j>> /\ <<p, j>> # NoTab
      BY <1>f DEF Facts, View, OpenBacked, OpenKnown
    <3>2. ~(d[1].id = tb[j].id /\ d[1].tab = <<p, j>>)
      <4> SUFFICES ASSUME d[1].id = tb[j].id PROVE FALSE
        OBVIOUS
      <4>1. c = <<p, j>> /\ c # NoTab
        BY <1>1, <3>1 DEF c
      <4>2. c[2] = j
        BY <4>1
      <4> QED
        BY <1>8, <4>1, <4>2
    <3> QED
      BY <1>f, <3>1, <3>2, BackedStart DEF Facts, t
  <2>4. DownOwn(p, tb, t, own) /\ Terminals(p, tb, t, own)
        /\ OpenAsked(p, tb, u, t)
    BY <1>6 DEF View
  <2>5. /\ CreatesFirst(u, t, own) /\ InTurn(tm, t, own)
        /\ AnswersBacked(t, own)
    BY <2>1, ViewReads DEF t
  <2>6. View(p, tb, tm, u, t, own, alive)
    BY <2>2, <2>3, <2>4, <2>5 DEF View
  <2> QED
    BY <1>8, <2>6 DEF c, t
<1> QED
  BY <1>7, <1>8

-----------------------------------------------------------------------------
(* The server handles and tells.                                           *)

\* What the server knows of its messages stays true of those that are left.
LEMMA UpTail ==
  ASSUME NEW p, NEW tb, NEW u \in Seq(UpMessage), u # <<>>,
         CreatesFresh(p, tb, u), TypedOwn(p, tb, u)
  PROVE  CreatesFresh(p, tb, Tail(u)) /\ TypedOwn(p, tb, Tail(u))
<1> DEFINE v == Tail(u)
<1>1. /\ \A l \in 1..Len(v) : l + 1 \in 1..Len(u) /\ v[l] = u[l + 1]
      /\ \A n, l \in 1..Len(v) : l + 1 = n + 1 => l = n
  BY TailIs
<1> HIDE DEF v
<1>2. CreatesFresh(p, tb, v)
  <2> SUFFICES ASSUME NEW n \in 1..Len(v), v[n].m = "create"
               PROVE  /\ v[n].tab[1] = p
                      /\ tb[v[n].tab[2]].id = NoId
                      /\ tb[v[n].tab[2]].st \in {"open", "dropped"}
                      /\ \A l \in 1..Len(v) :
                           v[l].m = "create" /\ v[l].tab = v[n].tab => l = n
    BY DEF CreatesFresh
  <2>1. n + 1 \in 1..Len(u) /\ v[n] = u[n + 1]
    BY <1>1
  <2>2. /\ v[n].tab[1] = p
        /\ tb[v[n].tab[2]].id = NoId
        /\ tb[v[n].tab[2]].st \in {"open", "dropped"}
        /\ \A l \in 1..Len(u) :
             u[l].m = "create" /\ u[l].tab = v[n].tab => l = n + 1
    BY <2>1 DEF CreatesFresh
  <2>3. ASSUME NEW l \in 1..Len(v), v[l].m = "create", v[l].tab = v[n].tab
        PROVE  l = n
    <3>1. l + 1 = n + 1
      BY <1>1, <2>2, <2>3
    <3> QED
      BY <1>1, <3>1
  <2> QED
    BY <2>2, <2>3
<1>3. TypedOwn(p, tb, v)
  <2> SUFFICES ASSUME NEW n \in 1..Len(v), v[n].m = "data", v[n].id # NoId,
                      v[n].offline = FALSE
               PROVE  /\ v[n].tab[1] = p
                      /\ tb[v[n].tab[2]].id = v[n].id
                      /\ tb[v[n].tab[2]].st \in {"open", "closed"}
    BY DEF TypedOwn
  <2>1. n + 1 \in 1..Len(u) /\ v[n] = u[n + 1]
    BY <1>1
  <2>2. u[n + 1].m = "data" /\ u[n + 1].id # NoId /\ u[n + 1].offline = FALSE
    BY <2>1
  <2>3. /\ u[n + 1].tab[1] = p
        /\ tb[u[n + 1].tab[2]].id = u[n + 1].id
        /\ tb[u[n + 1].tab[2]].st \in {"open", "closed"}
    BY <2>1, <2>2 DEF TypedOwn
  <2> QED
    BY <2>1, <2>3
<1> QED
  BY <1>2, <1>3 DEF v

\* handleData, and handleKill, after which the terminal is not alive.
LEMMA ViewHandled ==
  ASSUME NEW p \in Pages, NEW tb, NEW tm, NEW u, NEW d, NEW own, NEW alive,
         View(p, tb, tm, u, d, own, alive),
         u # <<>>, Head(u).m # "create", NEW alive2 \in SUBSET alive,
         Head(u).m = "kill" => Head(u).id \notin alive2
  PROVE  View(p, tb, tm, Tail(u), d, own, alive2)
<1> DEFINE v == Tail(u)
<1>f. Facts(p, tb, tm, u, d, own, alive)
  BY ViewFacts
<1>1. /\ v \in Seq(UpMessage) /\ Head(u) = u[1]
      /\ \A l \in 1..Len(v) : l + 1 \in 1..Len(u) /\ v[l] = u[l + 1]
      /\ \A l \in 1..Len(u) : l # 1 =>
           l - 1 \in 1..Len(v) /\ v[l - 1] = u[l]
      /\ \A n, l \in 1..Len(v) : l + 1 = n + 1 => l = n
  BY <1>f, TailIs DEF Facts
<1> HIDE DEF v
<1>2. Types(tb, tm, v, d, own, alive2)
  BY <1>1 DEF View, Types
<1>3. CreatesFresh(p, tb, v) /\ TypedOwn(p, tb, v)
  BY <1>f, UpTail DEF Facts, View, v
<1>4. CreatesFirst(v, d, own)
  BY <1>1 DEF View, CreatesFirst
<1>5. OpenAsked(p, tb, v, d)
  <2> SUFFICES ASSUME NEW j \in UseTab, tb[j].st = "open", tb[j].id = NoId,
                      NEW n \in 1..Len(u), u[n].m = "create",
                      u[n].tab = <<p, j>>
               PROVE  \E l \in 1..Len(v) :
                        v[l].m = "create" /\ v[l].tab = <<p, j>>
    BY DEF View, OpenAsked
  <2>1. n # 1
    BY <1>1
  <2>2. n - 1 \in 1..Len(v) /\ v[n - 1] = u[n]
    BY <1>1, <2>1
  <2> QED
    BY <2>2
<1>6. KillSent(tb, v, own, alive2)
  <2> SUFFICES ASSUME NEW i \in alive2, own[i] # NoTab,
                      tb[own[i][2]].st = "closed"
               PROVE  \E n \in 1..Len(v) : v[n].m = "kill" /\ v[n].id = i
    BY DEF KillSent
  <2>1. PICK n \in 1..Len(u) : u[n].m = "kill" /\ u[n].id = i
    BY DEF View, KillSent
  <2>2. n # 1
    BY <1>1, <2>1
  <2> QED
    BY <1>1, <2>1, <2>2
<1> QED
  BY <1>2, <1>3, <1>4, <1>5, <1>6 DEF View, v

\* A terminal is not alive any more.
LEMMA ViewFewer ==
  ASSUME NEW p \in Pages, NEW tb, NEW tm, NEW u, NEW d, NEW own, NEW alive,
         View(p, tb, tm, u, d, own, alive), NEW alive2 \in SUBSET alive
  PROVE  View(p, tb, tm, u, d, own, alive2)
BY DEF View, Types, KillSent

\* handleCreate: the answer, with the id of a new terminal or without.
LEMMA ViewAnswer ==
  ASSUME NEW p \in Pages, NEW tb, NEW tm, NEW u, NEW d, NEW own, NEW alive,
         View(p, tb, tm, u, d, own, alive),
         u # <<>>, Head(u).m = "create",
         NEW i \in Ids \cup {NoId}, i # NoId => own[i] = NoTab,
         NEW own2 \in [Ids -> Tab \cup {NoTab}],
         i # NoId => own2[i] = Head(u).tab,
         \A j \in Ids : j # i => own2[j] = own[j],
         NEW alive2 \in SUBSET Ids, \A j \in alive2 : j \in alive \/ j = i
  PROVE  View(p, tb, tm, Tail(u), Append(d, Answer(i, Head(u).tab)), own2,
              alive2)
<1> DEFINE v == Tail(u)
           c == Head(u).tab
           k == c[2]
           x == Answer(i, c)
           e == Append(d, x)
<1>f. Facts(p, tb, tm, u, d, own, alive)
  BY ViewFacts
<1>1. /\ v \in Seq(UpMessage) /\ Head(u) = u[1] /\ 1 \in 1..Len(u)
      /\ \A l \in 1..Len(v) :
           l + 1 \in 1..Len(u) /\ v[l] = u[l + 1] /\ l + 1 # 1
      /\ \A l \in 1..Len(u) : l # 1 =>
           l - 1 \in 1..Len(v) /\ v[l - 1] = u[l]
      /\ \A n, l \in 1..Len(v) : l + 1 = n + 1 => l = n
  BY <1>f, TailIs DEF Facts
<1>2. /\ u[1].m = "create" /\ u[1].tab = c
      /\ c \in Tab /\ k \in UseTab /\ c = <<p, k>> /\ c # NoTab /\ c[1] = p
  BY <1>1, <1>f DEF Facts
<1>3. /\ tb[k].id = NoId /\ tb[k].st \in {"open", "dropped"}
      /\ \A l \in 1..Len(u) : u[l].m = "create" /\ u[l].tab = c => l = 1
      /\ \A l \in 1..Len(d) : d[l].tab # c
      /\ \A j \in Ids : own[j] # c
  BY <1>1, <1>2 DEF View, CreatesFresh, CreatesFirst
<1>4. x \in DownMessage /\ x.m = "answer" /\ x.id = i /\ x.tab = c
  BY <1>2 DEF Answer, DownMessage
<1>5. /\ e \in Seq(DownMessage) /\ Len(d) \in Nat /\ Len(e) = Len(d) + 1
      /\ \A l \in 1..Len(d) : e[l] = d[l] /\ l \in 1..Len(e)
      /\ \A l \in 1..Len(e) : l # Len(e) => l \in 1..Len(d)
      /\ e[Len(e)] = x /\ Len(e) \in 1..Len(e)
  BY <1>4, <1>f, AppendIs DEF Facts
<1>6. \A j \in Ids : IF j = i THEN own2[j] = c /\ own[j] = NoTab
                              ELSE own2[j] = own[j]
  BY <1>2, TtyAssumption
<1> HIDE DEF v, c, k, x, e
<1>7. Types(tb, tm, v, e, own2, alive2)
  BY <1>1, <1>5 DEF View, Types
<1>8. CreatesFresh(p, tb, v) /\ TypedOwn(p, tb, v)
  BY <1>f, UpTail DEF Facts, View, v
<1>9. CreatesFirst(v, e, own2)
  <2> SUFFICES ASSUME NEW n \in 1..Len(v), v[n].m = "create"
               PROVE  /\ \A l \in 1..Len(e) : e[l].tab # v[n].tab
                      /\ \A j \in Ids : own2[j] # v[n].tab
    BY DEF CreatesFirst
  <2>1. /\ v[n].tab # c
        /\ \A l \in 1..Len(d) : d[l].tab # v[n].tab
        /\ \A j \in Ids : own[j] # v[n].tab
    BY <1>1, <1>3 DEF View, CreatesFirst
  <2> QED
    BY <1>4, <1>5, <1>6, <2>1
<1>10. DownOwn(p, tb, e, own2)
  <2> SUFFICES ASSUME NEW n \in 1..Len(e)
               PROVE  /\ e[n].tab[1] = p
                      /\ tb[e[n].tab[2]].st # "none"
                      /\ e[n].m = "answer" =>
                           /\ tb[e[n].tab[2]].id = NoId
                           /\ tb[e[n].tab[2]].st \in {"open", "dropped"}
                           /\ \A l \in 1..Len(e) :
                                e[l].m = "answer" /\ e[l].tab = e[n].tab
                                  => l = n
                           /\ \A j \in Ids :
                                own2[j] = e[n].tab => j = e[n].id
                      /\ e[n].m = "kill" =>
                           \A j \in Ids : own2[j] # e[n].tab
    BY DEF DownOwn
  <2>1. CASE n = Len(e)
    <3>1. e[n] = x
      BY <1>5, <2>1
    <3>2. \A l \in 1..Len(e) : l # n => e[l].tab # c
      BY <1>3, <1>5, <2>1
    <3>3. \A j \in Ids : own2[j] = c => j = i
      BY <1>3, <1>6
    <3> QED
      BY <1>2, <1>3, <1>4, <3>1, <3>2, <3>3 DEF k
  <2>2. CASE n # Len(e)
    <3>1. n \in 1..Len(d) /\ e[n] = d[n] /\ d[n].tab # c
      BY <1>3, <1>5, <2>2
    <3>2. \A j \in Ids : own2[j] = d[n].tab => own[j] = d[n].tab
      BY <1>6, <3>1
    <3>3. \A l \in 1..Len(e) : e[l].tab = d[n].tab =>
            l \in 1..Len(d) /\ e[l] = d[l]
      BY <1>4, <1>5, <3>1
    <3>4. /\ d[n].tab[1] = p
          /\ tb[d[n].tab[2]].st # "none"
          /\ d[n].m = "answer" =>
               /\ tb[d[n].tab[2]].id = NoId
               /\ tb[d[n].tab[2]].st \in {"open", "dropped"}
               /\ \A l \in 1..Len(d) :
                    d[l].m = "answer" /\ d[l].tab = d[n].tab => l = n
               /\ \A j \in Ids : own[j] = d[n].tab => j = d[n].id
          /\ d[n].m = "kill" => \A j \in Ids : own[j] # d[n].tab
      BY <3>1 DEF View, DownOwn
    <3> QED
      BY <3>1, <3>2, <3>3, <3>4
  <2> QED
    BY <2>1, <2>2
<1>11. Terminals(p, tb, e, own2)
  <2> SUFFICES ASSUME NEW j \in Ids, own2[j] # NoTab
               PROVE  /\ own2[j][1] = p /\ tb[own2[j][2]].st # "none"
                      /\ tb[own2[j][2]].id \in {NoId, j}
                      /\ tb[own2[j][2]].id = NoId =>
                           \E n \in 1..Len(e) : e[n].m = "answer"
                                                /\ e[n].tab = own2[j]
                      /\ \A l \in Ids : own2[l] = own2[j] => l = j
    BY DEF Terminals
  <2>1. CASE j = i
    <3>1. own2[j] = c
      BY <1>6, <2>1
    <3>2. \A l \in Ids : own2[l] = c => l = j
      BY <1>3, <1>6, <2>1
    <3> QED
      BY <1>2, <1>3, <1>4, <1>5, <3>1, <3>2 DEF k
  <2>2. CASE j # i
    <3>1. own2[j] = own[j] /\ own[j] # c
      BY <1>3, <1>6, <2>2
    <3>2. /\ own[j][1] = p /\ tb[own[j][2]].st # "none"
          /\ tb[own[j][2]].id \in {NoId, j}
          /\ tb[own[j][2]].id = NoId =>
               \E n \in 1..Len(d) : d[n].m = "answer" /\ d[n].tab = own[j]
          /\ \A l \in Ids : own[l] = own[j] => l = j
      BY <3>1 DEF View, Terminals
    <3>3. \A l \in Ids : own2[l] = own[j] => own[l] = own[j]
      BY <1>6, <3>1
    <3> QED
      BY <1>5, <3>1, <3>2, <3>3
  <2> QED
    BY <2>1, <2>2
<1>12. InTurn(tm, e, own2)
  <2>1. ASSUME NEW n \in 1..Len(e), e[n].m # "answer"
        PROVE  Fits(tm, e, e[n].id, e[n].tab, n)
    <3>1. n \in 1..Len(d) /\ n \in 1..(Len(d) + 1) /\ e[n] = d[n]
      BY <1>4, <1>5, <2>1
    <3>2. Fits(tm, d, d[n].id, d[n].tab, n) /\ d[n].id \in Ids
      BY <1>f, <2>1, <3>1, DownFields DEF Facts, View, InTurn
    <3> QED
      BY <1>4, <1>f, <3>1, <3>2, FitsAppend DEF Facts, e
  <2>2. ASSUME NEW j \in Ids, own2[j] # NoTab
        PROVE  Fits(tm, e, j, own2[j], Len(e) + 1)
    <3>1. Len(e) + 1 = Len(d) + 2
      BY <1>5
    <3>2. CASE j = i
      <4>1. IsAnswer(x, j) /\ own2[j] = x.tab
        BY <1>4, <1>6, <3>2 DEF IsAnswer
      <4>2. Fits(tm, e, j, x.tab, Len(d) + 2)
        BY <1>4, <1>f, <4>1, FitsAppend DEF Facts, e
      <4> QED
        BY <3>1, <4>1, <4>2
    <3>3. CASE j # i
      <4>1. ~IsAnswer(x, j) /\ own2[j] = own[j]
        BY <1>4, <1>6, <3>3 DEF IsAnswer
      <4>2. Fits(tm, d, j, own[j], Len(d) + 1)
        BY <2>2, <4>1 DEF View, InTurn
      <4>3. Fits(tm, e, j, own[j], Len(d) + 2)
        BY <1>4, <1>f, <4>1, <4>2, FitsAppend DEF Facts, e
      <4> QED
        BY <3>1, <4>1, <4>3
    <3> QED
      BY <3>2, <3>3
  <2> QED
    BY <2>1, <2>2 DEF InTurn
<1>13. ASSUME NEW j \in Ids, NEW q, q # NoTab, NEW a \in 0..Len(d),
              Backed(d, own, j, q, a)
       PROVE  Backed(e, own2, j, q, a)
  <2>1. own[j] = q => own2[j] = q /\ ~IsAnswer(x, j)
    BY <1>4, <1>6, <1>13 DEF IsAnswer
  <2> QED
    BY <1>4, <1>13, <1>f, <2>1, BackedAppend DEF Facts, e
<1>14. OpenBacked(p, tb, e, own2)
  <2> SUFFICES ASSUME NEW j \in UseTab, tb[j].st = "open", tb[j].id # NoId
               PROVE  Backed(e, own2, tb[j].id, <<p, j>>, 0)
    BY DEF OpenBacked
  <2>1. Backed(d, own, tb[j].id, <<p, j>>, 0)
    BY DEF View, OpenBacked
  <2>2. tb[j].id \in Ids /\ <<p, j>> # NoTab /\ 0 \in 0..Len(d)
    BY <1>5, <1>f DEF Facts, TabRow
  <2> QED
    BY <1>13, <2>1, <2>2
<1>15. AnswersBacked(e, own2)
  <2> SUFFICES ASSUME NEW n \in 1..Len(e), e[n].m = "answer", e[n].id # NoId
               PROVE  Backed(e, own2, e[n].id, e[n].tab, n)
    BY DEF AnswersBacked
  <2>1. CASE n = Len(e)
    <3>1. NoAnswer(e, i, n, Len(e) + 1)
      BY <1>5, <2>1 DEF NoAnswer
    <3>2. e[n].id = i /\ e[n].tab = c /\ i \in Ids /\ own2[i] = c
      BY <1>4, <1>5, <1>6, <2>1
    <3> QED
      BY <3>1, <3>2 DEF Backed
  <2>2. CASE n # Len(e)
    <3>1. n \in 1..Len(d) /\ n \in 0..Len(d) /\ e[n] = d[n]
      BY <1>5, <2>2
    <3>2. Backed(d, own, d[n].id, d[n].tab, n)
      BY <3>1 DEF View, AnswersBacked
    <3>3. d[n].id \in Ids /\ d[n].tab # NoTab
      BY <1>f, <3>1, DownFields DEF Facts
    <3> QED
      BY <1>13, <3>1, <3>2, <3>3
  <2> QED
    BY <2>1, <2>2
<1>16. OpenAsked(p, tb, v, e)
  <2> SUFFICES ASSUME NEW j \in UseTab, tb[j].st = "open", tb[j].id = NoId
               PROVE  \/ \E n \in 1..Len(v) :
                           v[n].m = "create" /\ v[n].tab = <<p, j>>
                      \/ \E n \in 1..Len(e) :
                           e[n].m = "answer" /\ e[n].tab = <<p, j>>
    BY DEF OpenAsked
  <2>1. \/ \E n \in 1..Len(u) : u[n].m = "create" /\ u[n].tab = <<p, j>>
        \/ \E n \in 1..Len(d) : d[n].m = "answer" /\ d[n].tab = <<p, j>>
    BY DEF View, OpenAsked
  <2>2. ASSUME NEW n \in 1..Len(u), u[n].m = "create", u[n].tab = <<p, j>>
        PROVE  \/ \E l \in 1..Len(v) :
                    v[l].m = "create" /\ v[l].tab = <<p, j>>
               \/ \E l \in 1..Len(e) :
                    e[l].m = "answer" /\ e[l].tab = <<p, j>>
    <3>1. CASE n = 1
      <4>1. c = <<p, j>>
        BY <1>2, <2>2, <3>1
      <4> QED
        BY <1>4, <1>5, <4>1
    <3>2. CASE n # 1
      BY SMTT(30), <1>1, <2>2, <3>2
    <3> QED
      BY <3>1, <3>2
  <2>3. ASSUME NEW n \in 1..Len(d), d[n].m = "answer", d[n].tab = <<p, j>>
        PROVE  \E l \in 1..Len(e) : e[l].m = "answer" /\ e[l].tab = <<p, j>>
    BY <1>5, <2>3
  <2> QED
    BY <2>1, <2>2, <2>3
<1>17. KillSent(tb, v, own2, alive2)
  <2> SUFFICES ASSUME NEW j \in alive2, own2[j] # NoTab,
                      tb[own2[j][2]].st = "closed"
               PROVE  \E n \in 1..Len(v) : v[n].m = "kill" /\ v[n].id = j
    BY DEF KillSent
  <2>1. j # i
    BY <1>3, <1>6 DEF k
  <2>2. own2[j] = own[j] /\ j \in alive
    BY <1>6, <2>1
  <2>3. PICK n \in 1..Len(u) : u[n].m = "kill" /\ u[n].id = j
    BY <2>2 DEF View, KillSent
  <2>4. n # 1
    BY <1>2, <2>3
  <2>5. n - 1 \in 1..Len(v) /\ v[n - 1] = u[n]
    BY <1>1, <2>4
  <2> QED
    BY <2>3, <2>5
<1>18. OpenKnown(p, tb, tm)
  BY DEF View
<1> QED
  BY <1>7, <1>8, <1>9, <1>10, <1>11, <1>12, <1>14, <1>15, <1>16, <1>17,
     <1>18 DEF View, v, e, x, c

\* The output of a terminal, and its end.
LEMMA ViewSays ==
  ASSUME NEW p \in Pages, NEW tb, NEW tm, NEW u, NEW d, NEW own, NEW alive,
         View(p, tb, tm, u, d, own, alive),
         NEW x \in DownMessage, x.m # "answer", own[x.id] = x.tab,
         NEW own2 \in [Ids -> Tab \cup {NoTab}],
         own2[x.id] = IF x.m = "kill" THEN NoTab ELSE x.tab,
         \A j \in Ids : j # x.id => own2[j] = own[j],
         NEW alive2 \in SUBSET alive
  PROVE  View(p, tb, tm, u, Append(d, x), own2, alive2)
<1> DEFINE e == Append(d, x)
           i == x.id
           c == x.tab
<1>f. Facts(p, tb, tm, u, d, own, alive)
  BY ViewFacts
<1>1. i \in Ids /\ c \in Tab /\ c # NoTab /\ x.m \in {"data", "kill"}
  BY DownFields, TtyAssumption DEF Tab
<1>2. /\ c[1] = p /\ tb[c[2]].st # "none"
      /\ \A l \in Ids : own[l] = c => l = i
  BY <1>1 DEF View, Terminals
<1>3. /\ e \in Seq(DownMessage) /\ Len(d) \in Nat /\ Len(e) = Len(d) + 1
      /\ \A l \in 1..Len(d) : e[l] = d[l] /\ l \in 1..Len(e)
      /\ \A l \in 1..Len(e) : l # Len(e) => l \in 1..Len(d)
      /\ e[Len(e)] = x /\ Len(e) \in 1..Len(e)
  BY <1>f, AppendIs DEF Facts
<1>4. \A j \in Ids : IF j = i THEN own2[j] \in {c, NoTab}
                              ELSE own2[j] = own[j]
  BY <1>1
<1>5. \A j \in Ids : own2[j] # NoTab => own2[j] = own[j]
  BY <1>4
<1>6. /\ x.m = "kill" => own2[i] = NoTab
      /\ x.m = "data" => own2[i] = c
      /\ own[i] = c
      /\ \A j \in Ids : ~IsAnswer(x, j)
  BY DEF IsAnswer
<1> HIDE DEF e, i, c
<1>7. Types(tb, tm, u, e, own2, alive2)
  BY <1>3 DEF View, Types
<1>8. CreatesFirst(u, e, own2)
  <2> SUFFICES ASSUME NEW n \in 1..Len(u), u[n].m = "create"
               PROVE  /\ \A l \in 1..Len(e) : e[l].tab # u[n].tab
                      /\ \A j \in Ids : own2[j] # u[n].tab
    BY DEF CreatesFirst
  <2>1. /\ \A l \in 1..Len(d) : d[l].tab # u[n].tab
        /\ \A j \in Ids : own[j] # u[n].tab
        /\ u[n].tab # NoTab
    BY <1>f, TtyAssumption DEF Facts, View, CreatesFirst, Tab
  <2>2. c # u[n].tab
    BY <1>1, <1>6, <2>1
  <2> QED
    BY <1>3, <1>5, <2>1, <2>2 DEF c
<1>9. DownOwn(p, tb, e, own2)
  <2> SUFFICES ASSUME NEW n \in 1..Len(e)
               PROVE  /\ e[n].tab[1] = p
                      /\ tb[e[n].tab[2]].st # "none"
                      /\ e[n].m = "answer" =>
                           /\ tb[e[n].tab[2]].id = NoId
                           /\ tb[e[n].tab[2]].st \in {"open", "dropped"}
                           /\ \A l \in 1..Len(e) :
                                e[l].m = "answer" /\ e[l].tab = e[n].tab
                                  => l = n
                           /\ \A j \in Ids :
                                own2[j] = e[n].tab => j = e[n].id
                      /\ e[n].m = "kill" =>
                           \A j \in Ids : own2[j] # e[n].tab
    BY DEF DownOwn
  <2>1. CASE n = Len(e)
    <3>1. e[n] = x
      BY <1>3, <2>1
    <3>2. ASSUME x.m = "kill", NEW j \in Ids PROVE own2[j] # c
      BY <1>1, <1>2, <1>4, <1>6, <3>2
    <3> QED
      BY <1>1, <1>2, <3>1, <3>2 DEF c
  <2>2. CASE n # Len(e)
    <3>1. n \in 1..Len(d) /\ e[n] = d[n]
      BY <1>3, <2>2
    <3>2. d[n].tab # NoTab
      BY <1>f, <3>1, TtyAssumption DEF Facts, Tab
    <3>3. \A j \in Ids : own2[j] = d[n].tab => own[j] = d[n].tab
      BY <1>5, <3>2
    <3>4. \A l \in 1..Len(e) : e[l].m = "answer" =>
            l \in 1..Len(d) /\ e[l] = d[l]
      BY <1>1, <1>3
    <3>5. /\ d[n].tab[1] = p
          /\ tb[d[n].tab[2]].st # "none"
          /\ d[n].m = "answer" =>
               /\ tb[d[n].tab[2]].id = NoId
               /\ tb[d[n].tab[2]].st \in {"open", "dropped"}
               /\ \A l \in 1..Len(d) :
                    d[l].m = "answer" /\ d[l].tab = d[n].tab => l = n
               /\ \A j \in Ids : own[j] = d[n].tab => j = d[n].id
          /\ d[n].m = "kill" => \A j \in Ids : own[j] # d[n].tab
      BY <3>1 DEF View, DownOwn
    <3> QED
      BY <3>1, <3>3, <3>4, <3>5
  <2> QED
    BY <2>1, <2>2
<1>10. Terminals(p, tb, e, own2)
  <2> SUFFICES ASSUME NEW j \in Ids, own2[j] # NoTab
               PROVE  /\ own2[j][1] = p /\ tb[own2[j][2]].st # "none"
                      /\ tb[own2[j][2]].id \in {NoId, j}
                      /\ tb[own2[j][2]].id = NoId =>
                           \E n \in 1..Len(e) : e[n].m = "answer"
                                                /\ e[n].tab = own2[j]
                      /\ \A l \in Ids : own2[l] = own2[j] => l = j
    BY DEF Terminals
  <2>1. own2[j] = own[j]
    BY <1>5
  <2>2. /\ own[j][1] = p /\ tb[own[j][2]].st # "none"
        /\ tb[own[j][2]].id \in {NoId, j}
        /\ tb[own[j][2]].id = NoId =>
             \E n \in 1..Len(d) : d[n].m = "answer" /\ d[n].tab = own[j]
        /\ \A l \in Ids : own[l] = own[j] => l = j
    BY <2>1 DEF View, Terminals
  <2>3. \A l \in Ids : own2[l] = own[j] => own[l] = own[j]
    BY <1>5, <2>1
  <2> QED
    BY <1>3, <2>1, <2>2, <2>3
<1>11. InTurn(tm, e, own2)
  <2>1. ASSUME NEW n \in 1..Len(e), e[n].m # "answer"
        PROVE  Fits(tm, e, e[n].id, e[n].tab, n)
    <3>1. CASE n = Len(e)
      <4>1. Fits(tm, d, i, c, Len(d) + 1)
        BY <1>1, <1>6 DEF View, InTurn
      <4>2. Len(d) + 1 \in 1..(Len(d) + 1)
        BY <1>3
      <4>3. Fits(tm, e, i, c, Len(d) + 1)
        BY <1>1, <1>f, <4>1, <4>2, FitsAppend DEF Facts, e
      <4> QED
        BY <1>3, <3>1, <4>3 DEF i, c
    <3>2. CASE n # Len(e)
      <4>1. n \in 1..Len(d) /\ n \in 1..(Len(d) + 1) /\ e[n] = d[n]
        BY <1>3, <3>2
      <4>2. Fits(tm, d, d[n].id, d[n].tab, n) /\ d[n].id \in Ids
        BY <1>f, <2>1, <4>1, DownFields DEF Facts, View, InTurn
      <4> QED
        BY <1>f, <4>1, <4>2, FitsAppend DEF Facts, e
    <3> QED
      BY <3>1, <3>2
  <2>2. ASSUME NEW j \in Ids, own2[j] # NoTab
        PROVE  Fits(tm, e, j, own2[j], Len(e) + 1)
    <3>1. Len(e) + 1 = Len(d) + 2 /\ own2[j] = own[j] /\ ~IsAnswer(x, j)
      BY <1>3, <1>5, <1>6, <2>2
    <3>2. Fits(tm, d, j, own[j], Len(d) + 1)
      BY <2>2, <3>1 DEF View, InTurn
    <3>3. Fits(tm, e, j, own[j], Len(d) + 2)
      BY <1>f, <3>1, <3>2, FitsAppend DEF Facts, e
    <3> QED
      BY <3>1, <3>3
  <2> QED
    BY <2>1, <2>2 DEF InTurn
<1>12. ASSUME NEW j \in Ids, NEW q, NEW a \in 0..Len(d),
              Backed(d, own, j, q, a)
       PROVE  Backed(e, own2, j, q, a)
  <2>1. own[j] = q => \/ own2[j] = q /\ ~IsAnswer(x, j)
                      \/ x.m = "kill" /\ x.id = j /\ x.tab = q
    BY <1>1, <1>4, <1>6 DEF i, c
  <2> QED
    BY <1>12, <1>f, <2>1, BackedAppend DEF Facts, e
<1>13. OpenBacked(p, tb, e, own2)
  <2> SUFFICES ASSUME NEW j \in UseTab, tb[j].st = "open", tb[j].id # NoId
               PROVE  Backed(e, own2, tb[j].id, <<p, j>>, 0)
    BY DEF OpenBacked
  <2>1. Backed(d, own, tb[j].id, <<p, j>>, 0)
    BY DEF View, OpenBacked
  <2>2. tb[j].id \in Ids /\ 0 \in 0..Len(d)
    BY <1>3, <1>f DEF Facts, TabRow
  <2> QED
    BY <1>12, <2>1, <2>2
<1>14. AnswersBacked(e, own2)
  <2> SUFFICES ASSUME NEW n \in 1..Len(e), e[n].m = "answer", e[n].id # NoId
               PROVE  Backed(e, own2, e[n].id, e[n].tab, n)
    BY DEF AnswersBacked
  <2>1. n \in 1..Len(d) /\ n \in 0..Len(d) /\ e[n] = d[n]
    BY <1>1, <1>3
  <2>2. Backed(d, own, d[n].id, d[n].tab, n)
    BY <2>1 DEF View, AnswersBacked
  <2>3. d[n].id \in Ids
    BY <1>f, <2>1, DownFields DEF Facts
  <2> QED
    BY <1>12, <2>1, <2>2, <2>3
<1>15. OpenAsked(p, tb, u, e)
  BY <1>3 DEF View, OpenAsked
<1>16. KillSent(tb, u, own2, alive2)
  BY <1>5, <1>f DEF Facts, View, KillSent
<1>17. CreatesFresh(p, tb, u) /\ OpenKnown(p, tb, tm) /\ TypedOwn(p, tb, u)
  BY DEF View
<1> QED
  BY <1>7, <1>8, <1>9, <1>10, <1>11, <1>13, <1>14, <1>15, <1>16, <1>17
  DEF View, e

-----------------------------------------------------------------------------
\* The page connects: q are the kills of tty.reset, b what the page kept.
LEMMA ViewStart ==
  ASSUME NEW p \in Pages, NEW tb \in [UseTab -> TabRow],
         NEW b \in Seq(UpMessage), NEW q \in Seq(UpMessage),
         CreatesFresh(p, tb, b),
         \A n \in 1..Len(b) : b[n].m = "data" => b[n].offline # FALSE,
         \A n \in 1..Len(q) : q[n].m = "kill",
         NEW own \in [Ids -> {NoTab}], NEW alive \in SUBSET Ids,
         NEW tb2 \in [UseTab -> TabRow],
         \A k \in UseTab : tb2[k] = IF tb[k].st = "open" THEN Gone(tb[k])
                                                         ELSE tb[k]
  PROVE  View(p, tb2, [i \in Ids |-> NoTab], b \o q, <<>>, own, alive)
<1> DEFINE u  == b \o q
           d  == <<>>
           tm == [i \in Ids |-> NoTab]
<1>1. /\ u \in Seq(UpMessage) /\ d \in Seq(DownMessage) /\ Len(d) = 0
      /\ \A n \in 1..Len(d) : FALSE
  OBVIOUS
<1>2. \A n \in 1..Len(u) : u[n].m # "kill" =>
        n \in 1..Len(b) /\ u[n] = b[n]
  OBVIOUS
<1>3. \A k \in UseTab :
        /\ tb2[k].st # "open"
        /\ tb[k].id = NoId => tb2[k].id = NoId
        /\ tb[k].id = NoId /\ tb[k].st \in {"open", "dropped"} =>
             tb2[k].st = "dropped"
  BY DEF Gone, TabRow
<1>4. \A i \in Ids : own[i] = NoTab /\ tm[i] = NoTab
  OBVIOUS
<1>5. own \in [Ids -> Tab \cup {NoTab}] /\ tm \in [Ids -> Tab \cup {NoTab}]
  OBVIOUS
<1>6. NoTab \notin Tab
  BY TtyAssumption DEF Tab
<1> HIDE DEF u, d, tm
<1>7. Types(tb2, tm, u, d, own, alive)
  BY <1>1, <1>5 DEF Types
<1>8. \A n \in 1..Len(u) : u[n].m = "create" =>
        /\ n \in 1..Len(b) /\ u[n] = b[n]
        /\ u[n].tab \in Tab /\ u[n].tab[2] \in UseTab
  <2>1. \A n \in 1..Len(u) : u[n].m = "create" =>
          u[n].tab \in Tab /\ u[n].tab[1] = p /\ n \in 1..Len(b) /\ u[n] = b[n]
    BY <1>1, <1>2, UpFields DEF CreatesFresh
  <2> QED
    BY <2>1, TabIs
<1>9. CreatesFresh(p, tb2, u)
  <2> SUFFICES ASSUME NEW n \in 1..Len(u), u[n].m = "create"
               PROVE  /\ u[n].tab[1] = p
                      /\ tb2[u[n].tab[2]].id = NoId
                      /\ tb2[u[n].tab[2]].st \in {"open", "dropped"}
                      /\ \A l \in 1..Len(u) :
                           u[l].m = "create" /\ u[l].tab = u[n].tab => l = n
    BY DEF CreatesFresh
  <2>1. n \in 1..Len(b) /\ u[n] = b[n] /\ u[n].tab[2] \in UseTab
    BY <1>8
  <2>2. /\ u[n].tab[1] = p
        /\ tb[u[n].tab[2]].id = NoId
        /\ tb[u[n].tab[2]].st \in {"open", "dropped"}
        /\ \A l \in 1..Len(b) :
             b[l].m = "create" /\ b[l].tab = u[n].tab => l = n
    BY <2>1 DEF CreatesFresh
  <2>3. \A l \in 1..Len(u) : u[l].m = "create" =>
          l \in 1..Len(b) /\ u[l] = b[l]
    BY <1>8
  <2> QED
    BY <1>3, <2>1, <2>2, <2>3
<1>10. CreatesFirst(u, d, own)
  BY <1>1, <1>4, <1>6, <1>8 DEF CreatesFirst
<1>11. DownOwn(p, tb2, d, own) /\ Terminals(p, tb2, d, own)
  BY <1>1, <1>4 DEF DownOwn, Terminals
<1>12. InTurn(tm, d, own) /\ OpenKnown(p, tb2, tm) /\ AnswersBacked(d, own)
  BY <1>1, <1>3, <1>4 DEF InTurn, OpenKnown, AnswersBacked
<1>13. OpenBacked(p, tb2, d, own) /\ OpenAsked(p, tb2, u, d)
  BY <1>3 DEF OpenBacked, OpenAsked
<1>14. TypedOwn(p, tb2, u)
  BY <1>2 DEF TypedOwn
<1>15. KillSent(tb2, u, own, alive)
  BY <1>4 DEF KillSent
<1> QED
  BY <1>7, <1>9, <1>10, <1>11, <1>12, <1>13, <1>14, <1>15 DEF View, u, d, tm

=============================================================================
