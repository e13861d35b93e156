------------------------- MODULE VirtualHostProofs -------------------------
(* What VirtualHost keeps for every number of tabs, sockets, companions and *)
(* faults.                                                                  *)
EXTENDS VirtualHost, TLAPS

\* A page without an id that asked after the first id came is never let in,
\* and as long as the program runs the id is not forgotten.
LateLegacyWaits ==
  \A s \in Sockets :
    late[s] => identified /\ (tab[s] \in Legacy => srv[s] \in {"arrived", "over"})

Inv == TypeOK /\ OneTabIsServed /\ BrowserIsServed /\ OneHostIsRead /\ LateLegacyWaits /\ LegacyStaysOut

LEMMA InitInv ==
  ASSUME Init
  PROVE  Inv
<1>0. toPage \in [Sockets -> Seq(Messages)]
  BY DEF Init
<1>1. TypeOK
  <2>1. srv \in [Sockets -> {"arrived", "admitted", "attached", "serving", "over"}]
    BY DEF Init
  <2>2. hs \in [Hosts -> {"dialed", "taken", "greeting", "reading", "leaving", "parting", "done"}]
    BY DEF Init
  <2>3. client \in [Sockets -> {"connecting", "open", "closed"}]
    BY DEF Init
  <2>4. events \in 0..MaxEvents
    BY VirtualHostAssumption DEF Init
  <2>5. QED
    BY <1>0, <2>1, <2>2, <2>3, <2>4 DEF Init, TypeOK
<1>2. OneTabIsServed /\ BrowserIsServed /\ OneHostIsRead
  BY DEF Init, OneTabIsServed, BrowserIsServed, OneHostIsRead
<1>3. LateLegacyWaits /\ LegacyStaysOut
  BY DEF Init, LateLegacyWaits, LegacyStaysOut
<1>4. QED
  BY <1>1, <1>2, <1>3 DEF Inv

---------------------------------------------------------------------------
(* Type correctness, action by action. *)

LEMMA PutType ==
  ASSUME TypeOK, NEW s \in Sockets, NEW k \in {"open", "host", "superseded", "closed"}, NEW on \in BOOLEAN
  PROVE  Put(s, Msg(k, on)) \in Seq(Messages)
<1>1. Msg(k, on) \in Messages
  BY DEF Msg, Messages
<1>2. QED
  BY <1>1 DEF TypeOK, Put

LEMMA CostType ==
  ASSUME TypeOK, NEW n \in Nat, Cost(n)
  PROVE  events' \in 0..MaxEvents
  BY VirtualHostAssumption DEF TypeOK, Cost

LEMMA EventType ==
  ASSUME TypeOK, Event
  PROVE  events' \in 0..MaxEvents
  BY CostType DEF Event

LEMMA DialsType ==
  ASSUME TypeOK, NEW t \in Tabs, NEW s \in Sockets, Dials(t, s),
         UNCHANGED <<bridge, toPage, flags, hosts>>, retry' \in [Tabs -> BOOLEAN], events' \in 0..MaxEvents
  PROVE  TypeOK'
  BY DEF TypeOK, Dials, bridge, flags, hosts

LEMMA PageTypes ==
  ASSUME TypeOK, NEW t \in Tabs, Open(t) \/ Toggle(t) \/ Retry(t) \/ ConnectTimesOut(t)
  PROVE  TypeOK'
<1>1. CASE Open(t)
  <2>1. events' \in 0..MaxEvents
    BY <1>1, EventType DEF Open
  <2>2. QED
    BY <1>1, <2>1 DEF TypeOK, Open, bridge, hosts
<1>2. CASE Toggle(t)
  <2>1. events' \in 0..MaxEvents
    BY <1>2, EventType DEF Toggle
  <2>2. QED
    BY <1>2, <2>1, DialsType DEF Toggle, TypeOK
<1>3. CASE Retry(t)
  <2>1. retry' \in [Tabs -> BOOLEAN] /\ events' \in 0..MaxEvents
    BY <1>3 DEF Retry, TypeOK
  <2>2. CASE sock[t] = None
    BY <1>3, <2>1, <2>2, DialsType DEF Retry, Connects
  <2>3. CASE sock[t] # None
    BY <1>3, <2>1, <2>3 DEF Retry, Connects, TypeOK, bridge, served, flags, hosts
  <2>4. QED
    BY <2>2, <2>3
<1>4. CASE ConnectTimesOut(t)
  <2>1. events' \in 0..MaxEvents
    BY <1>4, EventType DEF ConnectTimesOut
  <2>2. QED
    BY <1>4, <2>1 DEF ConnectTimesOut, Forgets, TypeOK, bridge, served, hosts
<1>5. QED
  BY <1>1, <1>2, <1>3, <1>4

\* A message is for the tab that opened the socket: a socket without a tab has
\* never been used.
LEMMA PageTakesType ==
  ASSUME TypeOK, NEW s \in Sockets, PageTakes(s)
  PROVE  TypeOK'
<1>1. toPage' \in [Sockets -> Seq(Messages)]
  BY DEF PageTakes, TypeOK
<1>2. Head(toPage[s]) \in Messages
  BY DEF PageTakes, TypeOK
<1>3. CASE UNCHANGED page
  BY <1>1, <1>3 DEF PageTakes, TypeOK, page, flags, bridge, served, hosts
<1>4. CASE Opens(s)
  BY <1>1, <1>4 DEF PageTakes, Opens, TypeOK, bridge, served, hosts
<1>5. CASE Hears(s, Head(toPage[s]).on)
  BY <1>1, <1>2, <1>5 DEF PageTakes, Hears, Messages, TypeOK, bridge, served, hosts
<1>6. ASSUME NEW c \in {"superseded", "closed"}, Loses(s, c)
      PROVE  TypeOK'
  BY <1>1, <1>6 DEF PageTakes, Loses, Forgets, TypeOK, bridge, served, hosts
<1>7. QED
  BY <1>3, <1>4, <1>5, <1>6 DEF PageTakes

LEMMA ProgramTypes ==
  ASSUME TypeOK, NEW s \in Sockets, Program(s)
  PROVE  TypeOK'
<1>1. CASE Admit(s)
  <2>1. Put(s, Msg("open", TRUE)) \in Seq(Messages) /\ Put(s, Msg("closed", TRUE)) \in Seq(Messages)
    BY PutType
  <2>2. QED
    BY <1>1, <2>1 DEF Admit, TypeOK, bridge, page, flags, hosts
<1>2. CASE Attach(s)
  BY <1>2 DEF Attach, TypeOK, page, flags, hosts
<1>3. CASE Greet(s)
  <2>1. \A u \in Sockets : \A k \in {"closed", "superseded"} : Put(u, Msg(k, TRUE)) \in Seq(Messages)
    BY PutType
  <2>2. Put(s, Msg("host", seen[s])) \in Seq(Messages)
    BY PutType DEF TypeOK
  <2>3. toPage' \in [Sockets -> Seq(Messages)]
    <3>1. PICK reset \in BOOLEAN :
            toPage' = [u \in Sockets |->
              IF u = s THEN Put(s, Msg("host", seen[s]))
              ELSE IF u = prev[s]
              THEN Put(u, Msg(IF reset THEN "closed" ELSE "superseded", TRUE))
              ELSE toPage[u]]
      BY <1>3 DEF Greet
    <3>2. \A u \in Sockets : toPage[u] \in Seq(Messages)
      BY DEF TypeOK
    <3>3. QED
      BY <2>1, <2>2, <3>1, <3>2
  <2>4. events' \in 0..MaxEvents
    BY <1>3, EventType DEF Greet, TypeOK
  <2>5. shut' \in [Sockets -> BOOLEAN]
    BY <1>3 DEF Greet, Replaced, TypeOK
  <2>6. /\ srv' \in [Sockets -> {"arrived", "admitted", "attached", "serving", "over"}]
        /\ prev' \in [Sockets -> Sockets \cup {None}] /\ seen' \in [Sockets -> BOOLEAN]
    BY <1>3 DEF Greet, TypeOK
  <2>7. UNCHANGED <<bridge, tab, late, page, hosts>>
    BY <1>3 DEF Greet
  <2>8. QED
    BY <2>3, <2>4, <2>5, <2>6, <2>7 DEF TypeOK, bridge, page, flags, hosts
<1>4. CASE Leave(s)
  <2>1. Put(s, Msg("closed", TRUE)) \in Seq(Messages)
    BY PutType
  <2>2. QED
    BY <1>4, <2>1 DEF Leave, Detached, TypeOK, page, flags, hosts
<1>5. QED
  BY <1>1, <1>2, <1>3, <1>4 DEF Program

LEMMA StatusType ==
  ASSUME TypeOK, NEW s \in Sockets \cup {None}, NEW on \in BOOLEAN, Status(s, on)
  PROVE  toPage' \in [Sockets -> Seq(Messages)]
<1>1. s # None => Put(s, Msg("host", on)) \in Seq(Messages)
  BY PutType DEF TypeOK
<1>2. QED
  BY <1>1 DEF Status, TypeOK

LEMMA HostTypes ==
  ASSUME TypeOK, NEW h \in Hosts, Connect(h) \/ HangUp(h) \/ Companion(h)
  PROVE  TypeOK'
<1>1. CASE Connect(h) \/ HangUp(h)
  <2>1. events' \in 0..MaxEvents
    BY <1>1, CostType DEF Connect, HangUp
  <2>2. /\ hs' \in [Hosts -> {"dialed", "taken", "greeting", "reading", "leaving", "parting", "done"}]
        /\ cut' \in [Hosts -> BOOLEAN]
    BY <1>1 DEF Connect, HangUp, TypeOK
  <2>3. UNCHANGED <<bridge, served, toPage, page, to>>
    BY <1>1 DEF Connect, HangUp
  <2>4. QED
    BY <2>1, <2>2, <2>3 DEF TypeOK, bridge, served, page, flags
<1>2. CASE TakesHost(h)
  <2>1. OldHostClosed(h) \in [Hosts -> BOOLEAN]
    BY DEF OldHostClosed, TypeOK
  <2>2. /\ hs' \in [Hosts -> {"dialed", "taken", "greeting", "reading", "leaving", "parting", "done"}]
        /\ cut' \in [Hosts -> BOOLEAN] /\ host' \in Hosts \cup {None}
    BY <1>2, <2>1 DEF TakesHost, TypeOK
  <2>3. UNCHANGED <<browser, identified, served, toPage, page, to, events>>
    BY <1>2 DEF TakesHost
  <2>4. QED
    BY <2>2, <2>3 DEF TypeOK, served, page, flags
<1>3. CASE SaysTaken(h)
  <2>1. toPage' \in [Sockets -> Seq(Messages)]
    BY <1>3, StatusType DEF SaysTaken, TypeOK
  <2>2. QED
    BY <1>3, <2>1 DEF SaysTaken, TypeOK, bridge, served, page, flags
<1>4. CASE HostEnds(h)
  BY <1>4 DEF HostEnds, TypeOK, served, page, flags
<1>5. CASE SaysGone(h)
  <2>1. toPage' \in [Sockets -> Seq(Messages)]
    BY <1>5, StatusType DEF SaysGone, TypeOK
  <2>2. QED
    BY <1>5, <2>1 DEF SaysGone, TypeOK, bridge, served, page, flags
<1>6. CASE Looks(h)
  BY <1>6 DEF Looks, TypeOK, bridge, served, page, flags
<1>7. QED
  BY <1>1, <1>2, <1>3, <1>4, <1>5, <1>6 DEF Companion

LEMMA RestartTypes ==
  ASSUME TypeOK, Restart
  PROVE  TypeOK'
<1>1. \A s \in Sockets : Put(s, Msg("closed", TRUE)) \in Seq(Messages)
  BY PutType
<1>2. toPage' \in [Sockets -> Seq(Messages)]
  BY <1>1 DEF Restart, TypeOK
<1>3. events' \in 0..MaxEvents
  BY EventType DEF Restart
<1>4. QED
  BY <1>2, <1>3 DEF Restart, TypeOK, page, flags

LEMMA TypeStep ==
  ASSUME TypeOK, [Next]_vars
  PROVE  TypeOK'
<1>1. CASE UNCHANGED vars
  BY <1>1 DEF vars, TypeOK, bridge, served, page, flags, hosts
<1>2. CASE Next
  BY <1>2, PageTypes, PageTakesType, ProgramTypes, HostTypes, RestartTypes DEF Next
<1>3. QED
  BY <1>1, <1>2

---------------------------------------------------------------------------
(* The browser's side: what a step does to the sockets. *)

BrowserSide == OneTabIsServed /\ BrowserIsServed /\ LateLegacyWaits /\ LegacyStaysOut

LEMMA SameBrowserSide ==
  ASSUME BrowserSide, UNCHANGED <<browser, identified, served>>
  PROVE  BrowserSide'
<1>1. OneTabIsServed' /\ BrowserIsServed'
  BY DEF BrowserSide, OneTabIsServed, BrowserIsServed, served
<1>2. LateLegacyWaits' /\ LegacyStaysOut'
  BY DEF BrowserSide, LateLegacyWaits, LegacyStaysOut, served
<1>3. QED
  BY <1>1, <1>2 DEF BrowserSide

\* A request arrives on a socket nobody has.
Arrives(t, s) ==
  /\ srv[s] = "over" /\ srv' = [srv EXCEPT ![s] = "arrived"]
  /\ tab' = [tab EXCEPT ![s] = t] /\ shut' = [shut EXCEPT ![s] = FALSE]
  /\ late' = [late EXCEPT ![s] = identified]
  /\ UNCHANGED <<browser, identified, prev>>

LEMMA ArrivesKeeps ==
  ASSUME TypeOK, BrowserSide, NEW t \in Tabs, NEW s \in Sockets, Arrives(t, s)
  PROVE  BrowserSide'
<1>1. OneTabIsServed'
  BY DEF Arrives, TypeOK, BrowserSide, OneTabIsServed
<1>2. BrowserIsServed'
  BY VirtualHostAssumption DEF Arrives, TypeOK, BrowserSide, BrowserIsServed
<1>3. LateLegacyWaits'
  BY DEF Arrives, TypeOK, BrowserSide, LateLegacyWaits
<1>4. browser # s
  BY VirtualHostAssumption DEF Arrives, BrowserSide, BrowserIsServed
<1>5. LegacyStaysOut'
  BY <1>4 DEF Arrives, TypeOK, BrowserSide, LegacyStaysOut
<1>6. QED
  BY <1>1, <1>2, <1>3, <1>5 DEF BrowserSide

LEMMA AdmitKeeps ==
  ASSUME TypeOK, BrowserSide, NEW s \in Sockets, Admit(s)
  PROVE  BrowserSide'
<1>0. /\ UNCHANGED <<bridge, prev>>
      /\ srv' \in {[srv EXCEPT ![s] = "admitted"], [srv EXCEPT ![s] = "over"]}
      /\ shut' \in {shut, [shut EXCEPT ![s] = TRUE]}
  BY DEF Admit
<1>1. ASSUME NEW u \in Sockets, srv'[u] \in {"attached", "serving"}, ~shut'[u], browser' # u
      PROVE  \E v \in Sockets : srv'[v] = "attached" /\ prev'[v] = u
  <2>1. srv[u] \in {"attached", "serving"} /\ ~shut[u] /\ browser # u
    BY <1>0, <1>1 DEF TypeOK, bridge
  <2>2. PICK v \in Sockets : srv[v] = "attached" /\ prev[v] = u
    BY <2>1 DEF BrowserSide, OneTabIsServed
  <2>3. v # s /\ prev' = prev
    BY <2>2 DEF Admit
  <2>4. srv'[v] = "attached" /\ prev'[v] = u
    BY <2>2, <2>3 DEF Admit, TypeOK
  <2>5. QED
    BY <2>4
<1>2. BrowserIsServed'
  BY DEF Admit, TypeOK, BrowserSide, BrowserIsServed, bridge
<1>3. LateLegacyWaits'
  BY DEF Admit, Accepts, TypeOK, BrowserSide, LateLegacyWaits, bridge
<1>4. LegacyStaysOut'
  BY DEF Admit, TypeOK, BrowserSide, LegacyStaysOut, bridge
<1>5. QED
  BY <1>1, <1>2, <1>3, <1>4 DEF BrowserSide, OneTabIsServed

\* The tab there was loses the bridge to one that has its socket in prev.
LEMMA AttachKeeps ==
  ASSUME TypeOK, BrowserSide, NEW s \in Sockets, Attach(s)
  PROVE  BrowserSide'
<1>1. ASSUME NEW u \in Sockets, srv'[u] \in {"attached", "serving"}, ~shut'[u], browser' # u
      PROVE  \E v \in Sockets : srv'[v] = "attached" /\ prev'[v] = u
  <2>1. u # s /\ srv[u] \in {"attached", "serving"} /\ ~shut[u]
    BY <1>1 DEF Attach, TypeOK
  <2>2. CASE browser = u
    BY <2>1, <2>2 DEF Attach, TypeOK
  <2>3. CASE browser # u
    <3>1. PICK v \in Sockets : srv[v] = "attached" /\ prev[v] = u
      BY <2>1, <2>3 DEF BrowserSide, OneTabIsServed
    <3>2. QED
      BY <3>1 DEF Attach, TypeOK
  <2>4. QED
    BY <2>2, <2>3
<1>2. OneTabIsServed'
  BY <1>1 DEF OneTabIsServed
<1>3. BrowserIsServed'
  BY DEF Attach, TypeOK, BrowserIsServed
<1>4. LateLegacyWaits' /\ LegacyStaysOut'
  BY DEF Attach, TypeOK, BrowserSide, LateLegacyWaits, LegacyStaysOut
<1>5. QED
  BY <1>2, <1>3, <1>4 DEF BrowserSide

LEMMA GreetKeeps ==
  ASSUME TypeOK, BrowserSide, NEW s \in Sockets, Greet(s)
  PROVE  BrowserSide'
<1>1. ASSUME NEW u \in Sockets, srv'[u] \in {"attached", "serving"}, ~shut'[u], browser' # u
      PROVE  \E v \in Sockets : srv'[v] = "attached" /\ prev'[v] = u
  <2>1. srv[u] \in {"attached", "serving"} /\ ~shut[u] /\ prev[s] # u /\ browser # u
    BY <1>1, VirtualHostAssumption DEF Greet, Replaced, TypeOK, bridge
  <2>2. PICK v \in Sockets : srv[v] = "attached" /\ prev[v] = u
    BY <2>1 DEF BrowserSide, OneTabIsServed
  <2>3. QED
    BY <2>1, <2>2 DEF Greet, TypeOK
<1>2. OneTabIsServed'
  BY <1>1 DEF OneTabIsServed
<1>3. BrowserIsServed'
  BY DEF Greet, TypeOK, BrowserSide, BrowserIsServed, bridge
<1>4. LateLegacyWaits' /\ LegacyStaysOut'
  BY DEF Greet, TypeOK, BrowserSide, LateLegacyWaits, LegacyStaysOut, bridge
<1>5. QED
  BY <1>2, <1>3, <1>4 DEF BrowserSide

LEMMA LeaveKeeps ==
  ASSUME TypeOK, BrowserSide, NEW s \in Sockets, Leave(s)
  PROVE  BrowserSide'
<1>1. OneTabIsServed'
  BY DEF Leave, Detached, TypeOK, BrowserSide, OneTabIsServed
<1>2. BrowserIsServed'
  BY DEF Leave, Detached, TypeOK, BrowserSide, BrowserIsServed
<1>3. LateLegacyWaits' /\ LegacyStaysOut'
  BY VirtualHostAssumption
  DEF Leave, Detached, TypeOK, BrowserSide, LateLegacyWaits, LegacyStaysOut
<1>4. QED
  BY <1>1, <1>2, <1>3 DEF BrowserSide

LEMMA RestartKeeps ==
  ASSUME TypeOK, Restart
  PROVE  BrowserSide'
<1>1. OneTabIsServed' /\ BrowserIsServed'
  BY DEF Restart, OneTabIsServed, BrowserIsServed
<1>2. LateLegacyWaits' /\ LegacyStaysOut'
  BY DEF Restart, LateLegacyWaits, LegacyStaysOut
<1>3. QED
  BY <1>1, <1>2 DEF BrowserSide

LEMMA BrowserSideStep ==
  ASSUME TypeOK, BrowserSide, [Next]_vars
  PROVE  BrowserSide'
<1>1. ASSUME NEW t \in Tabs, Open(t) \/ Toggle(t) \/ Retry(t)
      PROVE  BrowserSide'
  <2>1. UNCHANGED <<browser, identified, served>> \/ \E s \in Sockets : Arrives(t, s)
    BY <1>1 DEF Open, Toggle, Retry, Connects, Dials, Arrives, Unused, GivenUp, bridge
  <2>2. QED
    BY <2>1, SameBrowserSide, ArrivesKeeps
<1>2. ASSUME NEW t \in Tabs, ConnectTimesOut(t)
      PROVE  BrowserSide'
  BY <1>2, SameBrowserSide DEF ConnectTimesOut, bridge
<1>3. ASSUME NEW s \in Sockets, PageTakes(s)
      PROVE  BrowserSide'
  BY <1>3, SameBrowserSide DEF PageTakes, bridge
<1>4. ASSUME NEW s \in Sockets, Program(s)
      PROVE  BrowserSide'
  BY <1>4, AdmitKeeps, AttachKeeps, GreetKeeps, LeaveKeeps DEF Program
<1>5. ASSUME NEW h \in Hosts, Connect(h) \/ HangUp(h) \/ Companion(h)
      PROVE  BrowserSide'
  BY <1>5, SameBrowserSide
  DEF Connect, HangUp, Companion, TakesHost, Looks, SaysTaken, HostEnds, SaysGone, bridge
<1>6. CASE UNCHANGED vars
  BY <1>6, SameBrowserSide DEF vars, bridge
<1>7. QED
  BY <1>1, <1>2, <1>3, <1>4, <1>5, <1>6, RestartKeeps DEF Next

---------------------------------------------------------------------------
(* The companion's side. *)

LEMMA OneHostStep ==
  ASSUME TypeOK, OneHostIsRead, [Next]_vars
  PROVE  OneHostIsRead'
<1>1. CASE UNCHANGED <<host, hosts>>
  BY <1>1 DEF OneHostIsRead, hosts
<1>2. ASSUME NEW h \in Hosts, Connect(h) \/ HangUp(h)
      PROVE  OneHostIsRead'
  <2>1. /\ host' = host
        /\ \A g \in Hosts : hs'[g] = "dialed" \/ (hs'[g] = hs[g] /\ (cut[g] => cut'[g]))
    BY <1>2 DEF Connect, HangUp, TypeOK, bridge
  <2>2. QED
    BY <2>1 DEF OneHostIsRead
<1>3. ASSUME NEW h \in Hosts, TakesHost(h)
      PROVE  OneHostIsRead'
  <2>1. \A g \in Hosts : g # h => hs'[g] = hs[g] /\ (g = host \/ cut[g] => cut'[g])
    BY <1>3, VirtualHostAssumption DEF TakesHost, OldHostClosed, TypeOK
  <2>2. hs'[h] = "taken" => host' = h
    BY <1>3 DEF TakesHost, TypeOK
  <2>3. hs'[h] \in {"taken", "done"}
    BY <1>3 DEF TakesHost, TypeOK
  <2>4. QED
    BY <2>1, <2>2, <2>3 DEF OneHostIsRead, TypeOK
<1>4. ASSUME NEW h \in Hosts, SaysTaken(h)
      PROVE  OneHostIsRead'
  BY <1>4 DEF SaysTaken, OneHostIsRead, TypeOK, bridge
<1>5. ASSUME NEW h \in Hosts, HostEnds(h)
      PROVE  OneHostIsRead'
  BY <1>5 DEF HostEnds, OneHostIsRead, TypeOK
<1>6. ASSUME NEW h \in Hosts, SaysGone(h)
      PROVE  OneHostIsRead'
  BY <1>6 DEF SaysGone, OneHostIsRead, TypeOK, bridge
<1>7. ASSUME NEW h \in Hosts, Looks(h)
      PROVE  OneHostIsRead'
  BY <1>7 DEF Looks, OneHostIsRead, TypeOK, bridge
<1>8. CASE Restart
  BY <1>8 DEF Restart, OneHostIsRead
<1>9. ASSUME NEW t \in Tabs, Open(t) \/ Toggle(t) \/ Retry(t) \/ ConnectTimesOut(t)
      PROVE  UNCHANGED <<host, hosts>>
  BY <1>9 DEF Open, Toggle, Retry, ConnectTimesOut, bridge
<1>10. ASSUME NEW s \in Sockets, PageTakes(s) \/ Program(s)
      PROVE  UNCHANGED <<host, hosts>>
  BY <1>10 DEF PageTakes, Program, Admit, Attach, Greet, Leave, bridge
<1>11. CASE UNCHANGED vars
  BY <1>1, <1>11 DEF vars, bridge
<1>12. QED
  BY <1>1, <1>2, <1>3, <1>4, <1>5, <1>6, <1>7, <1>8, <1>9, <1>10, <1>11 DEF Next, Companion

---------------------------------------------------------------------------
THEOREM Invariance == Spec => []Inv
<1>1. Init => Inv
  BY InitInv
<1>2. Inv /\ [Next]_vars => Inv'
  BY TypeStep, BrowserSideStep, OneHostStep DEF Inv, BrowserSide
<1>3. QED
  BY <1>1, <1>2, PTL DEF Spec

\* Every variable keeps its type.
THEOREM TypesHold == Spec => []TypeOK
  BY Invariance, PTL DEF Inv

\* Of all the tabs whose goroutines run, one has the bridge; every other one's
\* connection is closed or is about to be by the one that took its place.
THEOREM OneTabServed == Spec => []OneTabIsServed
  BY Invariance, PTL DEF Inv

\* The bridge never keeps a tab whose goroutine has returned.
THEOREM BridgeIsServed == Spec => []BrowserIsServed
  BY Invariance, PTL DEF Inv

\* However connections follow one another, only one of them is read.
THEOREM OneHostRead == Spec => []OneHostIsRead
  BY Invariance, PTL DEF Inv

\* A page without an id that asks after the first id came never gets the bridge.
THEOREM LegacyNeverReturns == Spec => []LegacyStaysOut
  BY Invariance, PTL DEF Inv
=============================================================================
