---------------------------- MODULE VirtualHost ----------------------------
(***************************************************************************)
(* The Virtual Host: a local program that carries the USB protocol between *)
(* the simulator page in a browser tab (a WebSocket) and Specter Desktop   *)
(* (a TCP connection).  It serves one tab and one companion at a time; the *)
(* newest of each takes the place of the one before.  A tab that lost its  *)
(* place is closed with code 4001 and is to stop, any other loss is        *)
(* retried after two seconds.                                              *)
(*                                                                         *)
(* A step of the program is what one goroutine does between two takings of *)
(* the bridge's lock.  The bytes that are carried are left out.  A socket  *)
(* or a host connection that both sides have given up is used again.       *)
(***************************************************************************)
EXTENDS Naturals, Sequences, FiniteSets

CONSTANTS Tabs, Legacy,  \* tabs, and those whose page does not identify itself
          Sockets,       \* WebSockets that may exist at a time
          Hosts,         \* companion connections that may exist at a time
          Faults,        \* which may happen: "toggle", "timeout", "reset", "restart", "probe"
          MaxEvents,     \* bound: what user actions and faults may cost, see Cost
          None

ASSUME VirtualHostAssumption ==
  Legacy \subseteq Tabs /\ None \notin Sockets \cup Hosts \cup Tabs /\ MaxEvents \in Nat

VARIABLES
  browser, host, \* what the bridge has, None when nothing
  identified,    \* browserClientID is not empty
  srv,           \* the goroutine of a socket
  tab,           \* the tab that opened it
  shut,          \* the program has closed it
  prev, seen,    \* attachBrowser: the socket replaced, hostConnected
  late,          \* the tab asked after a page had identified itself
  toPage,        \* messages under way to the page
  client,        \* readyState of the page's end
  sock,          \* virtualHostSocket of each tab
  connected, pc, superseded, \* the tab's flags
  retry,         \* its retry timer runs
  hs, cut,       \* the goroutine of a host connection; it is closed
  to,            \* the socket sendStatus found and has not written to yet
  events         \* what has been spent of MaxEvents

bridge == <<browser, host, identified>>
served == <<srv, tab, shut, prev, seen, late>>
flags == <<connected, pc, superseded>>
page == <<client, sock, flags, retry>>
hosts == <<hs, cut, to>>
vars == <<bridge, served, toPage, page, hosts, events>>

Messages == [type : {"open", "host", "superseded", "closed"}, on : BOOLEAN]
Msg(type, on) == [type |-> type, on |-> on]
\* What is put on a socket the program has closed is lost.
Put(s, m) == IF shut[s] THEN toPage[s] ELSE Append(toPage[s], m)
\* A bound of 9 gives three actions of tabs or faults, two and a connection of a
\* companion or its end, one and three of these, or four of these alone.
Cost(n) == events + n <= MaxEvents /\ events' = events + n
Event == Cost(3)

Init ==
  /\ browser = None /\ host = None /\ identified = FALSE
  /\ srv = [s \in Sockets |-> "over"] /\ tab = [s \in Sockets |-> None]
  /\ shut = [s \in Sockets |-> TRUE] /\ prev = [s \in Sockets |-> None]
  /\ seen = [s \in Sockets |-> FALSE] /\ late = [s \in Sockets |-> FALSE]
  /\ toPage = [s \in Sockets |-> <<>>] /\ client = [s \in Sockets |-> "closed"]
  /\ sock = [t \in Tabs |-> None]
  /\ connected = [t \in Tabs |-> FALSE] /\ pc = [t \in Tabs |-> FALSE]
  /\ superseded = [t \in Tabs |-> FALSE] /\ retry = [t \in Tabs |-> FALSE]
  /\ hs = [h \in Hosts |-> "done"] /\ cut = [h \in Hosts |-> TRUE]
  /\ to = [h \in Hosts |-> None]
  /\ events = 0

---------------------------------------------------------------------------
(* The page. *)

GivenUp(s) ==
  /\ srv[s] = "over" /\ client[s] = "closed" /\ toPage[s] = <<>>
  /\ \A u \in Sockets : prev[u] # s
  /\ \A h \in Hosts : to[h] # s

\* Which of the sockets that were given up is used next makes no difference.
Unused(s) == GivenUp(s) /\ s = CHOOSE u \in Sockets : GivenUp(u)

\* connectVirtualHost without a socket: a new one, whose request is under way.
Dials(t, s) ==
  /\ Unused(s)
  /\ sock' = [sock EXCEPT ![t] = s] /\ client' = [client EXCEPT ![s] = "connecting"]
  /\ srv' = [srv EXCEPT ![s] = "arrived"] /\ tab' = [tab EXCEPT ![s] = t]
  /\ shut' = [shut EXCEPT ![s] = FALSE] /\ late' = [late EXCEPT ![s] = identified]
  /\ UNCHANGED <<prev, seen>>

\* connectVirtualHost with a socket that is open or being opened does nothing.
Connects(t) ==
  IF sock[t] = None THEN \E s \in Sockets : Dials(t, s)
  ELSE UNCHANGED <<sock, client, served>>

\* A tab is opened, or loaded again: pagehide clears its timers and closes its
\* socket, and the new page connects.
Open(t) ==
  /\ Event
  /\ \E s \in Sockets :
       /\ Unused(s)
       /\ sock' = [sock EXCEPT ![t] = s]
       /\ client' = [u \in Sockets |-> IF u = s THEN "connecting"
                                       ELSE IF u = sock[t] THEN "closed" ELSE client[u]]
       /\ srv' = [srv EXCEPT ![s] = "arrived"] /\ tab' = [tab EXCEPT ![s] = t]
       /\ shut' = [shut EXCEPT ![s] = FALSE] /\ late' = [late EXCEPT ![s] = identified]
  /\ connected' = [connected EXCEPT ![t] = FALSE] /\ pc' = [pc EXCEPT ![t] = FALSE]
  /\ superseded' = [superseded EXCEPT ![t] = FALSE] /\ retry' = [retry EXCEPT ![t] = FALSE]
  /\ UNCHANGED <<bridge, prev, seen, toPage, hosts>>

\* The user opens the help panel of a tab without a socket; a retry that is due
\* stays due.
Toggle(t) ==
  /\ "toggle" \in Faults /\ Event /\ sock[t] = None /\ \E s \in Sockets : Dials(t, s)
  /\ UNCHANGED <<bridge, toPage, flags, retry, hosts>>

Retry(t) ==
  /\ retry[t] /\ retry' = [retry EXCEPT ![t] = FALSE] /\ Connects(t)
  /\ UNCHANGED <<bridge, toPage, flags, hosts, events>>

\* Its socket is gone for the tab.
Forgets(t) ==
  /\ sock' = [sock EXCEPT ![t] = None]
  /\ connected' = [connected EXCEPT ![t] = FALSE] /\ pc' = [pc EXCEPT ![t] = FALSE]

ConnectTimesOut(t) ==
  /\ "timeout" \in Faults /\ Event
  /\ sock[t] # None /\ client[sock[t]] = "connecting"
  /\ Forgets(t) /\ client' = [client EXCEPT ![sock[t]] = "closed"]
  /\ retry' = [retry EXCEPT ![t] = TRUE]
  /\ UNCHANGED <<bridge, served, toPage, superseded, hosts>>

\* onopen
Opens(s) ==
  LET t == tab[s] IN
  /\ client' = [client EXCEPT ![s] = "open"]
  /\ connected' = [connected EXCEPT ![t] = TRUE]
  /\ superseded' = [superseded EXCEPT ![t] = FALSE]
  /\ UNCHANGED <<sock, pc, retry>>

\* onmessage, for a hello and for a host status
Hears(s, on) ==
  pc' = [pc EXCEPT ![tab[s]] = on] /\ UNCHANGED <<client, sock, connected, superseded, retry>>

\* Mutation: the close code is not looked at.
LosesAnyCode(s, code) ==
  /\ client' = [client EXCEPT ![s] = "closed"] /\ Forgets(tab[s])
  /\ retry' = [retry EXCEPT ![tab[s]] = TRUE] /\ UNCHANGED superseded
\* Mutation: only a tab that was connected tries again.
LosesOpen(s, code) ==
  /\ client' = [client EXCEPT ![s] = "closed"] /\ Forgets(tab[s])
  /\ retry' = [retry EXCEPT ![tab[s]] = code # "superseded" /\ connected[tab[s]]]
  /\ superseded' = [superseded EXCEPT ![tab[s]] = code = "superseded"]
\* onclose: code 4001 is for good, any other is tried again.
Loses(s, code) ==
  /\ client' = [client EXCEPT ![s] = "closed"] /\ Forgets(tab[s])
  /\ IF code = "superseded"
     THEN superseded' = [superseded EXCEPT ![tab[s]] = TRUE] /\ UNCHANGED retry
     ELSE retry' = [retry EXCEPT ![tab[s]] = TRUE] /\ UNCHANGED superseded

\* A socket that timed out, or whose page was left, is closed at the page's end:
\* its events are no longer the tab's.
PageTakes(s) ==
  /\ toPage[s] # <<>>
  /\ toPage' = [toPage EXCEPT ![s] = Tail(@)]
  /\ LET m == Head(toPage[s]) IN
       \/ client[s] = "closed" /\ UNCHANGED page
       \/ client[s] # "closed" /\ m.type = "open" /\ Opens(s)
       \/ client[s] # "closed" /\ m.type = "host" /\ Hears(s, m.on)
       \/ client[s] # "closed" /\ m.type \in {"superseded", "closed"} /\ Loses(s, m.type)
  /\ UNCHANGED <<bridge, served, hosts, events>>

---------------------------------------------------------------------------
(* The bridge's goroutines for a browser. *)

\* acceptsBrowserClient
Accepts(t) == t \notin Legacy \/ ~identified

\* The handler looks whether the page may come and answers the handshake.
Admit(s) ==
  /\ srv[s] = "arrived"
  /\ IF Accepts(tab[s])
     THEN /\ srv' = [srv EXCEPT ![s] = "admitted"] /\ UNCHANGED shut
          /\ toPage' = [toPage EXCEPT ![s] = Put(s, Msg("open", TRUE))]
     ELSE /\ srv' = [srv EXCEPT ![s] = "over"] /\ shut' = [shut EXCEPT ![s] = TRUE]
          /\ toPage' = [toPage EXCEPT ![s] = Put(s, Msg("closed", TRUE))]
  /\ UNCHANGED <<bridge, tab, prev, seen, late, page, hosts, events>>

\* Mutation: the id of a page that has none replaces the id there was.
AttachForgetsId(s) ==
  /\ srv[s] = "admitted" /\ srv' = [srv EXCEPT ![s] = "attached"]
  /\ prev' = [prev EXCEPT ![s] = browser] /\ browser' = s
  /\ identified' = (tab[s] \notin Legacy)
  /\ seen' = [seen EXCEPT ![s] = host # None]
  /\ UNCHANGED <<host, tab, shut, late, toPage, page, hosts, events>>
\* attachBrowser, under the lock
Attach(s) ==
  /\ srv[s] = "admitted" /\ srv' = [srv EXCEPT ![s] = "attached"]
  /\ prev' = [prev EXCEPT ![s] = browser] /\ browser' = s
  /\ identified' = (identified \/ tab[s] \notin Legacy)
  /\ seen' = [seen EXCEPT ![s] = host # None]
  /\ UNCHANGED <<host, tab, shut, late, toPage, page, hosts, events>>

\* The replaced connection is closed after its close frame.
Replaced(p) == IF p = None THEN shut ELSE [shut EXCEPT ![p] = TRUE]

\* attachBrowser after the lock.  A connection closed over unread data is
\* reset, and the close frame may be lost with it.
Greet(s) ==
  /\ srv[s] = "attached" /\ srv' = [srv EXCEPT ![s] = "serving"]
  /\ prev' = [prev EXCEPT ![s] = None] /\ shut' = Replaced(prev[s])
  /\ \E reset \in BOOLEAN :
       /\ IF reset THEN "reset" \in Faults /\ prev[s] # None /\ Event ELSE UNCHANGED events
       /\ toPage' = [u \in Sockets |->
            IF u = s THEN Put(s, Msg("host", seen[s]))
            ELSE IF u = prev[s]
            THEN Put(u, Msg(IF reset THEN "closed" ELSE "superseded", TRUE))
            ELSE toPage[u]]
  /\ seen' = [seen EXCEPT ![s] = FALSE]
  /\ UNCHANGED <<bridge, tab, late, page, hosts>>

\* Mutation: whoever leaves empties the bridge.
DetachAny(s) == None
\* detachBrowser
Detached(s) == IF browser = s THEN None ELSE browser

\* readFrame fails or reads a close frame: the handler returns.
Leave(s) ==
  /\ srv[s] = "serving" /\ (shut[s] \/ client[s] = "closed")
  /\ srv' = [srv EXCEPT ![s] = "over"] /\ shut' = [shut EXCEPT ![s] = TRUE]
  /\ browser' = Detached(s)
  /\ toPage' = [toPage EXCEPT ![s] = Put(s, Msg("closed", TRUE))]
  /\ UNCHANGED <<host, identified, tab, prev, seen, late, page, hosts, events>>

---------------------------------------------------------------------------
(* The bridge's goroutines for a companion. *)

\* Specter Desktop connects; a probe may be closed and followed by another
\* connection before the program has looked at it.
Connect(h) ==
  /\ Cost(2) /\ hs[h] = "done" /\ h = CHOOSE g \in Hosts : hs[g] = "done"
  /\ "probe" \in Faults \/ \A g \in Hosts : hs[g] # "dialed"
  /\ hs' = [hs EXCEPT ![h] = "dialed"] /\ cut' = [cut EXCEPT ![h] = FALSE]
  /\ UNCHANGED <<bridge, served, toPage, page, to>>

HangUp(h) ==
  /\ Cost(2) /\ hs[h] # "done" /\ ~cut[h]
  /\ cut' = [cut EXCEPT ![h] = TRUE]
  /\ UNCHANGED <<bridge, served, toPage, page, hs, to>>

\* Mutation: the connection that is replaced stays open.
OldHostStays(h) == cut
\* What is closed when h comes: the companion before it.
OldHostClosed(h) == IF host = None THEN cut ELSE [cut EXCEPT ![host] = TRUE]

\* handleHost, under the lock
TakesHost(h) ==
  /\ hs[h] = "dialed"
  /\ IF browser = None
     THEN /\ cut' = [OldHostClosed(h) EXCEPT ![h] = TRUE]
          /\ hs' = [hs EXCEPT ![h] = "done"] /\ UNCHANGED host
     ELSE /\ cut' = OldHostClosed(h) /\ hs' = [hs EXCEPT ![h] = "taken"] /\ host' = h
  /\ UNCHANGED <<browser, identified, served, toPage, page, to, events>>

\* sendStatus looks for the browser under the lock ...
Looks(h) ==
  /\ hs[h] \in {"taken", "leaving"}
  /\ hs' = [hs EXCEPT ![h] = IF hs[h] = "taken" THEN "greeting" ELSE "parting"]
  /\ to' = [to EXCEPT ![h] = browser]
  /\ UNCHANGED <<bridge, served, toPage, page, cut, events>>

\* Mutation: only the loss is told.
StatusIfGone(s, on) ==
  toPage' = IF s = None \/ on THEN toPage ELSE [toPage EXCEPT ![s] = Put(s, Msg("host", on))]
\* ... and writes to it when others may have taken the lock.
Status(s, on) ==
  toPage' = IF s = None THEN toPage ELSE [toPage EXCEPT ![s] = Put(s, Msg("host", on))]

SaysTaken(h) ==
  /\ hs[h] = "greeting" /\ hs' = [hs EXCEPT ![h] = "reading"] /\ Status(to[h], TRUE)
  /\ to' = [to EXCEPT ![h] = None]
  /\ UNCHANGED <<bridge, served, page, cut, events>>

\* The connection ends, or has a command and there is no browser to take it.
HostEnds(h) ==
  /\ hs[h] = "reading"
  /\ cut[h] \/ browser = None \/ (browser # None /\ shut[browser])
  /\ cut' = [cut EXCEPT ![h] = TRUE]
  /\ host' = IF host = h THEN None ELSE host
  /\ hs' = [hs EXCEPT ![h] = IF host = h THEN "leaving" ELSE "done"]
  /\ UNCHANGED <<browser, identified, served, toPage, page, to, events>>

SaysGone(h) ==
  /\ hs[h] = "parting" /\ hs' = [hs EXCEPT ![h] = "done"] /\ Status(to[h], FALSE)
  /\ to' = [to EXCEPT ![h] = None]
  /\ UNCHANGED <<bridge, served, page, cut, events>>

---------------------------------------------------------------------------
\* The program is ended and started again: every connection breaks.
Restart ==
  /\ "restart" \in Faults /\ Event
  /\ browser' = None /\ host' = None /\ identified' = FALSE
  /\ srv' = [s \in Sockets |-> "over"] /\ shut' = [s \in Sockets |-> TRUE]
  /\ toPage' = [s \in Sockets |-> IF client[s] = "closed" THEN toPage[s]
                                  ELSE Put(s, Msg("closed", TRUE))]
  /\ prev' = [s \in Sockets |-> None] /\ seen' = [s \in Sockets |-> FALSE]
  /\ late' = [s \in Sockets |-> FALSE]
  /\ hs' = [h \in Hosts |-> "done"] /\ cut' = [h \in Hosts |-> TRUE]
  /\ to' = [h \in Hosts |-> None]
  /\ UNCHANGED <<tab, page>>

Program(s) == Admit(s) \/ Attach(s) \/ Greet(s) \/ Leave(s)
Companion(h) == TakesHost(h) \/ Looks(h) \/ SaysTaken(h) \/ HostEnds(h) \/ SaysGone(h)

Next ==
  \/ \E t \in Tabs : Open(t) \/ Toggle(t) \/ Retry(t) \/ ConnectTimesOut(t)
  \/ \E s \in Sockets : PageTakes(s) \/ Program(s)
  \/ \E h \in Hosts : Connect(h) \/ HangUp(h) \/ Companion(h)
  \/ Restart

\* Goroutines run, messages arrive, timers fire.
Fairness ==
  /\ \A t \in Tabs : WF_vars(Retry(t))
  /\ \A s \in Sockets : WF_vars(PageTakes(s)) /\ WF_vars(Program(s))
  /\ \A h \in Hosts : WF_vars(Companion(h))

Spec == Init /\ [][Next]_vars /\ Fairness

---------------------------------------------------------------------------
TypeOK ==
  /\ browser \in Sockets \cup {None} /\ host \in Hosts \cup {None} /\ identified \in BOOLEAN
  /\ srv \in [Sockets -> {"arrived", "admitted", "attached", "serving", "over"}]
  /\ tab \in [Sockets -> Tabs \cup {None}] /\ shut \in [Sockets -> BOOLEAN]
  /\ prev \in [Sockets -> Sockets \cup {None}]
  /\ seen \in [Sockets -> BOOLEAN] /\ late \in [Sockets -> BOOLEAN]
  /\ toPage \in [Sockets -> Seq(Messages)]
  /\ client \in [Sockets -> {"connecting", "open", "closed"}]
  /\ sock \in [Tabs -> Sockets \cup {None}]
  /\ connected \in [Tabs -> BOOLEAN] /\ pc \in [Tabs -> BOOLEAN]
  /\ superseded \in [Tabs -> BOOLEAN] /\ retry \in [Tabs -> BOOLEAN]
  /\ hs \in [Hosts -> {"dialed", "taken", "greeting", "reading", "leaving", "parting", "done"}]
  /\ to \in [Hosts -> Sockets \cup {None}]
  /\ cut \in [Hosts -> BOOLEAN] /\ events \in 0..MaxEvents

\* Whatever order the goroutines take the lock in, a tab that is served and not
\* closed is the bridge's, or one that attached after it is about to close it.
OneTabIsServed ==
  \A s \in Sockets : srv[s] \in {"attached", "serving"} /\ ~shut[s] =>
    browser = s \/ \E u \in Sockets : srv[u] = "attached" /\ prev[u] = s

\* The bridge's tab has a goroutine that will take it out again.
BrowserIsServed == browser # None => srv[browser] \in {"attached", "serving"}

\* The bridge reads one companion: a connection that is not the bridge's any
\* more has been closed, whichever way it was replaced.
OneHostIsRead ==
  \A h \in Hosts : hs[h] \in {"taken", "greeting", "reading"} /\ host # h => cut[h]

\* After a page has identified itself no page without an id that asks then gets
\* the bridge, also when it is let in and attached in steps and others come
\* and go between them.
LegacyStaysOut == \A s \in Sockets : late[s] /\ tab[s] \in Legacy => browser # s

\* The tabs come to rest: after the last action of the user and the last fault
\* none takes the bridge from another any more.
TabsSettle == <>[][UNCHANGED <<browser, connected>>]_<<browser, connected>>

\* A tab that is to try again ends connected, or sees another one connected, or
\* is a page without an id that is kept out.
RetriesEnd ==
  \A t \in Tabs \ Legacy :
    retry[t] ~> \E u \in Tabs : connected[u]

\* The tab has the bridge and its socket is open at both ends.
Serves(t) ==
  /\ browser # None /\ sock[t] = browser
  /\ srv[browser] \in {"attached", "serving"} /\ ~shut[browser] /\ client[browser] # "closed"

\* What the tab is still to be told: its hello, and that a companion came or left.
Untold(t) ==
  \/ srv[sock[t]] = "attached"
  \/ \E h \in Hosts :
       \/ hs[h] \in {"taken", "leaving"}
       \/ hs[h] \in {"greeting", "parting"} /\ to[h] = sock[t]

\* One of these says what is not so any more.
OutOfDate(t) ==
  \/ srv[sock[t]] = "attached" /\ seen[sock[t]] # (host # None)
  \/ \E h \in Hosts : hs[h] \in {"taken", "greeting"} /\ host = None
  \/ \E h \in Hosts : hs[h] \in {"leaving", "parting"} /\ host # None

\* What is to be told comes to rest in the served tab as the truth, whatever was
\* shown before and however tabs and companions replace one another: nothing is
\* untold or under way and the tab shows whether the bridge has a companion.
\* "The status message itself can legitimately arrive after the client handshake
\* on a busy runner" (browser/test-virtual-host.mjs:27), but arrive it does:
\* unless the tab loses its place, or a status gets out of date before it is
\* written and so may be written after a newer one.
CompanionIsShown ==
  \A t \in Tabs :
    Serves(t) /\ Untold(t)
      ~> \/ ~Serves(t)
         \/ OutOfDate(t)
         \/ ~Untold(t) /\ toPage[sock[t]] = <<>> /\ pc[t] = (host # None)
=============================================================================
