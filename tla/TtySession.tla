----------------------------- MODULE TtySession -----------------------------
(***************************************************************************)
(* The web shell: the pages of web-shell/private/tty.js/static/tty.js and  *)
(* the server of web-shell/private/tty.js/lib/tty.js, with syncSession off *)
(* as in config.json.  A page keeps a socket.io socket that is made again  *)
(* when it is lost; each connection is a session of the server, numbered   *)
(* here.  A tab asks the session for a terminal and is told its id, the    *)
(* name of a pty, which the kernel gives away again once a terminal has    *)
(* closed.  From then on both sides name the terminal by that id only.     *)
(*                                                                         *)
(* A handler runs to its end before the next one (both sides are single    *)
(* threaded), so an action is one handler.  socket.io and pty.js are not   *)
(* part of the repository: a connection delivers in order, what a page     *)
(* sends without one is kept and goes out, before the connect handler, on  *)
(* the next one; a lost connection loses what was on its way.              *)
(***************************************************************************)
EXTENDS Integers, Sequences, FiniteSets

CONSTANTS
  Pages,         \* pages of browsers that are open
  Ids,           \* names of ptys
  MaxTabs,       \* how many tabs a page opens in all
  MaxConns,      \* how many connections a page makes in all
  MaxData,       \* how often a page and its terminals say something
  LimitPerUser,  \* terminals of a session
  LimitGlobal,   \* terminals of the server
  NoId, NoTab

ASSUME TtyAssumption ==
  /\ MaxTabs \in Nat \ {0} /\ MaxConns \in Nat \ {0}
  /\ MaxData \in Nat
  /\ LimitPerUser \in Nat \ {0} /\ LimitGlobal \in Nat \ {0}
  /\ NoId \notin Ids
  /\ NoTab \notin Pages \X (1..MaxTabs)

VARIABLES
  linked,   \* whether the socket of the page is connected
  conns,    \* connections made so far; the last one is the current one
  tabs,     \* the tabs of a page: state, id, and whether it was told an id
  terms,    \* tty.terms of the page: the tab an id stands for
  buffer,   \* what the page emitted without a connection
  up,       \* messages of a session on their way to the server
  down,     \* messages of a session on their way to the page
  session,  \* whether the server has the session: none, open, ended
  listed,   \* session.terms: the ids of its terminals
  pty,      \* the terminals: state, session and the tab it was made for
  said      \* how often the page and its terminals said something

pageVars == <<linked, conns, tabs, terms, buffer, said>>
vars == <<linked, conns, tabs, terms, buffer, up, down, session, listed, pty,
          said>>

Tab      == Pages \X (1..MaxTabs)
Session  == Pages \X (1..MaxConns)
Current(p) == <<p, conns[p]>>
Uses(s)  == linked[s[1]] /\ s = Current(s[1])

TabRow   == [st : {"none", "open", "closed", "dropped"}, id : Ids \cup {NoId}]
PtyRow   == [st : {"free", "up", "closing"}, of : Session, tab : Tab]
FreePty  == [st |-> "free"]

\* Messages.  tab is for the properties only: whose terminal or key it is.
\* offline: emitted without a connection, or by the tabs of an earlier one.
Create(k)           == [m |-> "create", tab |-> k]
Named(m, i, k, off) == [m |-> m, id |-> i, tab |-> k, offline |-> off]
Answer(i, k)        == [m |-> "answer", id |-> i, tab |-> k]

UpMessage   == [m : {"create"}, tab : Tab] \cup
               [m : {"data", "kill"}, id : Ids \cup {NoId}, tab : Tab,
                offline : BOOLEAN]
DownMessage == [m : {"answer"}, id : Ids \cup {NoId}, tab : Tab] \cup
               [m : {"data", "kill"}, id : Ids, tab : Tab]

OpenTabs(p)  == {k \in 1..MaxTabs : tabs[p][k].st = "open"}

\* The pages are loaded and their sockets are still connecting.
Init ==
  /\ linked = [p \in Pages |-> FALSE]
  /\ conns = [p \in Pages |-> 0]
  /\ tabs = [p \in Pages |-> [k \in 1..MaxTabs |->
               [st |-> "none", id |-> NoId]]]
  /\ terms = [p \in Pages |-> [i \in Ids |-> NoTab]]
  /\ buffer = [p \in Pages |-> <<>>]
  /\ up = [s \in Session |-> <<>>]
  /\ down = [s \in Session |-> <<>>]
  /\ session = [s \in Session |-> "none"]
  /\ listed = [s \in Session |-> {}]
  /\ pty = [i \in Ids |-> FreePty]
  /\ said = [p \in Pages |-> 0]

-----------------------------------------------------------------------------
(* The page.                                                               *)

\* socket.emit: on the connection, or kept for the next one.
Emit(p, msg) ==
  IF linked[p]
  THEN /\ up' = [up EXCEPT ![Current(p)] = Append(@, msg)]
       /\ buffer' = buffer
  ELSE /\ buffer' = [buffer EXCEPT ![p] = Append(@, msg)]
       /\ up' = up

\* new Tab: the terminal is asked for at once, connected or not.
NewTab(p) ==
  \E k \in 1..MaxTabs :
    /\ tabs[p][k].st = "none"
    /\ \A j \in 1..MaxTabs : j < k => tabs[p][j].st # "none"
    /\ tabs' = [tabs EXCEPT ![p][k].st = "open"]
    /\ Emit(p, Create(<<p, k>>))
    /\ UNCHANGED <<linked, conns, terms, down, session, listed, pty, said>>

\* The user opens a window, or a further tab in one.
OpenTab(p) == NewTab(p)

\* The page opens a window itself while it has none (for its first fifteen
\* seconds, a clock left out here).  A window without tabs is gone.
AutoOpen(p) == OpenTabs(p) = {} /\ NewTab(p)

\* A tab that is destroyed.  One that has no id yet is told apart, as dropped:
\* the kill it sent named no terminal, and the answer is still to come.
Gone(tab) == [tab EXCEPT !.st = IF tab.id = NoId THEN "dropped" ELSE "closed"]

\* Tab._destroy.
Forget(p, k) ==
  /\ tabs' = [tabs EXCEPT ![p][k] = Gone(@)]
  /\ terms' = [terms EXCEPT ![p] =
                 [i \in Ids |-> IF i = tabs[p][k].id THEN NoTab ELSE @[i]]]

\* Tab.destroy: the server is told to end the terminal, at once.  Closing a
\* window with several tabs is this for each of them.
CloseTab(p) ==
  \E k \in OpenTabs(p) :
    /\ Forget(p, k)
    /\ Emit(p, Named("kill", tabs[p][k].id, <<p, k>>, ~linked[p]))
    /\ UNCHANGED <<linked, conns, down, session, listed, pty, said>>

\* Tab.handler; also a resize and the poll for the name of the process.
Type(p) ==
  \E k \in OpenTabs(p) :
    /\ said[p] < MaxData
    /\ said' = [said EXCEPT ![p] = @ + 1]
    /\ Emit(p, Named("data", tabs[p][k].id, <<p, k>>, ~linked[p]))
    /\ UNCHANGED <<linked, conns, tabs, terms, down, session, listed, pty>>

\* tty.reset: every window is destroyed, each of its tabs sends its kill.
ResetKills(p) ==
  LET Kill(k) == Named("kill", tabs[p][k].id, <<p, k>>, TRUE)
      orders  == {f \in [1..Cardinality(OpenTabs(p)) -> OpenTabs(p)] :
                    \A m, n \in DOMAIN f : f[m] = f[n] => m = n}
  IN  {[n \in DOMAIN f |-> Kill(f[n])] : f \in orders}

BadReset(p) == UNCHANGED <<tabs, terms>>

Reset(p) ==
  /\ tabs' = [tabs EXCEPT ![p] = [k \in 1..MaxTabs |->
                IF k \in OpenTabs(p) THEN Gone(@[k]) ELSE @[k]]]
  /\ terms' = [terms EXCEPT ![p] = [i \in Ids |-> NoTab]]

\* The socket connects: the server makes a session, the page sends what it
\* kept and starts afresh.
Connect(p) ==
  /\ ~linked[p]
  /\ conns[p] < MaxConns
  /\ LET s == <<p, conns[p] + 1>> IN
     /\ conns' = [conns EXCEPT ![p] = @ + 1]
     /\ session' = [session EXCEPT ![s] = "open"]
     /\ \E kills \in ResetKills(p) : up' = [up EXCEPT ![s] = buffer[p] \o kills]
  /\ linked' = [linked EXCEPT ![p] = TRUE]
  /\ buffer' = [buffer EXCEPT ![p] = <<>>]
  /\ Reset(p)
  /\ UNCHANGED <<down, listed, pty, said>>

\* The connection is lost, or the page is left: what was on its way down is
\* gone, and of what was on its way up a part arrives.
LinkLost(p) ==
  /\ linked[p]
  /\ linked' = [linked EXCEPT ![p] = FALSE]
  /\ LET s == Current(p) IN
     /\ \E n \in 0..Len(up[s]) : up' = [up EXCEPT ![s] = SubSeq(@, 1, n)]
     /\ down' = [down EXCEPT ![s] = <<>>]
  /\ UNCHANGED <<conns, tabs, terms, buffer, session, listed, pty, said>>

\* The next message for the page.
Receives(p, m) ==
  /\ linked[p]
  /\ down[Current(p)] # <<>>
  /\ Head(down[Current(p)]).m = m
  /\ down' = [down EXCEPT ![Current(p)] = Tail(@)]

\* The answer to create: the tab has an id, whether it is still there or not.
\* A tab that was refused a terminal closes without a word to the server.
Answered(p) ==
  /\ Receives(p, "answer")
  /\ LET msg == Head(down[Current(p)])
         k   == msg.tab[2]
     IN  IF msg.id = NoId
         THEN /\ tabs' = [tabs EXCEPT ![p][k].st =
                            IF @ = "open" THEN "closed" ELSE @]
              /\ UNCHANGED terms
         ELSE /\ tabs' = [tabs EXCEPT ![p][k].id = msg.id]
              /\ terms' = [terms EXCEPT ![p][msg.id] = <<p, k>>]
  /\ UNCHANGED <<linked, conns, buffer, up, session, listed, pty, said>>

\* The page is told that a terminal has closed.
Killed(p) ==
  /\ Receives(p, "kill")
  /\ LET k == terms[p][Head(down[Current(p)]).id]
     IN  IF k # NoTab /\ tabs[p][k[2]].st = "open"
         THEN Forget(p, k[2])
         ELSE UNCHANGED <<tabs, terms>>
  /\ UNCHANGED <<linked, conns, buffer, up, session, listed, pty, said>>

\* Output is written to the tab of that id.
Output(p) ==
  /\ Receives(p, "data")
  /\ UNCHANGED <<linked, conns, tabs, terms, buffer, up, session, listed, pty,
                 said>>

-----------------------------------------------------------------------------
(* The server.                                                             *)

\* socket.emit of the server: lost if the connection is.
Tell(s, msg) ==
  down' = IF Uses(s) THEN [down EXCEPT ![s] = Append(@, msg)] ELSE down

Handles(s, m) ==
  /\ session[s] = "open"
  /\ up[s] # <<>>
  /\ Head(up[s]).m = m
  /\ up' = [up EXCEPT ![s] = Tail(@)]

Total == Cardinality({i \in Ids : pty[i].st # "free"})

LimitReached(s) ==
  Cardinality(listed[s]) >= LimitPerUser \/ Total >= LimitGlobal

\* handleCreate: a pty is forked, or the limit is reached.
HandleCreate(s) ==
  /\ Handles(s, "create")
  /\ LET k == Head(up[s]).tab IN
     \/ /\ LimitReached(s)
        /\ Tell(s, Answer(NoId, k))
        /\ UNCHANGED <<listed, pty>>
     \/ /\ ~LimitReached(s)
        /\ \E i \in Ids :
             /\ pty[i].st = "free"
             /\ pty' = [pty EXCEPT ![i] = [st |-> "up", of |-> s, tab |-> k]]
             /\ listed' = [listed EXCEPT ![s] = @ \cup {i}]
             /\ Tell(s, Answer(i, k))
  /\ UNCHANGED <<linked, conns, tabs, terms, buffer, session, said>>

\* handleData, handleResize, handleProcess: the terminal of that id, if any.
HandleData(s) ==
  /\ Handles(s, "data")
  /\ UNCHANGED <<linked, conns, tabs, terms, buffer, down, session, listed, pty,
                 said>>

BadDestroy(S) == pty' = [i \in Ids \ S |-> pty[i]]

\* term.destroy() of the terminals in S: they close a little later.
Destroy(S) ==
  pty' = [i \in Ids |-> IF i \in S /\ pty[i].st = "up"
                        THEN [pty[i] EXCEPT !.st = "closing"] ELSE pty[i]]

\* handleKill.
HandleKill(s) ==
  /\ Handles(s, "kill")
  /\ LET dead == {Head(up[s]).id} \cap listed[s] IN
     /\ Destroy(dead)
     /\ listed' = [listed EXCEPT ![s] = @ \ dead]
  /\ UNCHANGED <<linked, conns, tabs, terms, buffer, down, session, said>>

BadHandleDisconnect(s) ==
  /\ session[s] = "open"
  /\ up[s] = <<>>
  /\ ~Uses(s)
  /\ session' = [session EXCEPT ![s] = "ended"]
  /\ UNCHANGED <<linked, conns, tabs, terms, buffer, up, down, listed, pty,
                 said>>

\* handleDisconnect: the server notices, after all that arrived, that the
\* connection is gone.
HandleDisconnect(s) ==
  /\ session[s] = "open"
  /\ up[s] = <<>>
  /\ ~Uses(s)
  /\ session' = [session EXCEPT ![s] = "ended"]
  /\ Destroy(listed[s])
  /\ listed' = [listed EXCEPT ![s] = {}]
  /\ UNCHANGED <<linked, conns, tabs, terms, buffer, up, down, said>>

\* A shell ends of itself.
ShellExits ==
  \E i \in Ids :
    /\ pty[i].st = "up"
    /\ Destroy({i})
    /\ UNCHANGED <<linked, conns, tabs, terms, buffer, up, down, session,
                   listed, said>>

BadPtyClose ==
  \E i \in Ids :
    /\ pty[i].st = "closing"
    /\ listed' = [listed EXCEPT ![pty[i].of] = @ \ {i}]
    /\ pty' = [pty EXCEPT ![i] = FreePty]
    /\ UNCHANGED <<linked, conns, tabs, terms, buffer, up, down, session, said>>

\* The 'close' event of a terminal.  Its name may be given away from now on.
PtyClose ==
  \E i \in Ids :
    /\ pty[i].st = "closing"
    /\ Tell(pty[i].of, [m |-> "kill", id |-> i, tab |-> pty[i].tab])
    /\ listed' = [listed EXCEPT ![pty[i].of] = @ \ {i}]
    /\ pty' = [pty EXCEPT ![i] = FreePty]
    /\ UNCHANGED <<linked, conns, tabs, terms, buffer, up, session, said>>

\* The 'data' event of a terminal.
PtyOutput ==
  \E i \in Ids :
    /\ pty[i].st = "up"
    /\ LET s == pty[i].of IN
       /\ Uses(s)
       /\ said[s[1]] < MaxData
       /\ said' = [said EXCEPT ![s[1]] = @ + 1]
       /\ Tell(s, [m |-> "data", id |-> i, tab |-> pty[i].tab])
    /\ UNCHANGED <<linked, conns, tabs, terms, buffer, up, session, listed,
                   pty>>

-----------------------------------------------------------------------------
User(p)   == OpenTab(p) \/ CloseTab(p) \/ Type(p)
Client(p) == AutoOpen(p) \/ Connect(p) \/ Answered(p) \/ Killed(p) \/ Output(p)
Server(s) == HandleCreate(s) \/ HandleData(s) \/ HandleKill(s)
             \/ HandleDisconnect(s)
Shells    == ShellExits \/ PtyClose \/ PtyOutput

Next ==
  \/ \E p \in Pages : User(p) \/ Client(p) \/ LinkLost(p)
  \/ \E s \in Session : Server(s)
  \/ Shells

Spec == Init /\ [][Next]_vars

-----------------------------------------------------------------------------
TypeOK ==
  /\ linked \in [Pages -> BOOLEAN]
  /\ conns \in [Pages -> 0..MaxConns]
  /\ tabs \in [Pages -> [1..MaxTabs -> TabRow]]
  /\ terms \in [Pages -> [Ids -> Tab \cup {NoTab}]]
  /\ buffer \in [Pages -> Seq(UpMessage)]
  /\ up \in [Session -> Seq(UpMessage)]
  /\ down \in [Session -> Seq(DownMessage)]
  /\ session \in [Session -> {"none", "open", "ended"}]
  /\ listed \in [Session -> SUBSET Ids]
  /\ pty \in [Ids -> PtyRow \cup {FreePty}]
  /\ said \in [Pages -> 0..MaxData]

\* Whether the page, or what is on its way to it, knows that tab k of page p
\* has no terminal any more.
Told(p, k) ==
  \/ tabs[p][k].st = "closed"
  \/ linked[p] /\ \E n \in DOMAIN down[Current(p)] :
       LET msg == down[Current(p)][n] IN msg.m = "kill" /\ msg.tab = <<p, k>>

\* Both sides name a terminal by an id that is used again.  All the same what is
\* typed into an open tab of a connected page reaches the terminal made for this
\* tab, unless word of the end of that terminal is on its way to the page
\* (lib/tty.js:485-495); and what a terminal puts out, and its end, concern its
\* own tab or none (static/tty.js:100-108).
OwnTerminal ==
  /\ \A s \in Session : Uses(s) /\ up[s] # <<>> =>
       LET msg == Head(up[s]) IN
       msg.m = "data" /\ msg.id \in listed[s] /\ ~msg.offline =>
         pty[msg.id].tab = msg.tab \/ Told(msg.tab[1], msg.tab[2])
  /\ \A p \in Pages : linked[p] /\ down[Current(p)] # <<>> =>
       LET msg == Head(down[Current(p)]) IN
       msg.m \in {"data", "kill"} => terms[p][msg.id] \in {msg.tab, NoTab}

\* When nothing is on its way and no terminal is about to close, the page has
\* exactly the terminals of its session: an open tab for each but those whose
\* tab was closed before the answer came (static/tty.js:607-615, 728-734).
AgreeAtRest ==
  \A p \in Pages :
    LET s == Current(p)
        shown == {tabs[p][k].id : k \in OpenTabs(p)}
    IN  linked[p] /\ up[s] = <<>> /\ down[s] = <<>>
        /\ (\A i \in Ids : pty[i].st # "closing") =>
          /\ shown \subseteq listed[s]
          /\ \A i \in listed[s] \ shown :
               tabs[p][pty[i].tab[2]].st = "dropped"

\* No shell runs that nobody will end.  It is a terminal of a session the
\* server still has, and when its tab was closed, by the user or because the
\* page connected again, then its kill is on the way or the connection is lost,
\* which the server has yet to notice (lib/tty.js:497-502, 517-548).
NoShellForgotten ==
  \A i \in Ids : pty[i].st = "up" =>
    LET s == pty[i].of
        k == pty[i].tab
    IN  /\ session[s] = "open" /\ i \in listed[s]
        /\ Uses(s) /\ tabs[k[1]][k[2]].st = "closed" =>
             \E n \in DOMAIN up[s] : up[s][n].m = "kill" /\ up[s][n].id = i

=============================================================================
