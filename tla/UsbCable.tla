------------------------------ MODULE UsbCable ------------------------------
(***************************************************************************)
(* The virtual USB cable of the Specter Desktop page.  A Flask request     *)
(* runs synchronously in a Python worker; a USB command in it posts a      *)
(* cable-query and sleeps in Atomics.wait on a buffer of its own until the *)
(* page stores a result.  The page passes the command to the device's      *)
(* page, which passes it to the firmware's worker, and collects the lines  *)
(* that come back - which do not say what they answer - until it has an    *)
(* acknowledgement and an answer.                                          *)
(*                                                                         *)
(* A message of the firmware's worker and the device page's forwarding of  *)
(* it are one step: what the page has not forwarded when the worker ends   *)
(* is dropped by its generation check, as if it had not been polled.  The  *)
(* worker's input queue and its mailbox file are one queue for the same    *)
(* reason.  A device page that failed stays so until it is loaded again.   *)
(* An error event of the Python worker only shows a text on the page.      *)
(***************************************************************************)
EXTENDS Naturals, Sequences, SequencesExt

CONSTANTS MaxQueries,   \* bound: USB commands in a behaviour
          MaxRequests,  \* bound: Flask requests waiting
          MaxEvents     \* bound: interruptions (user, firmware, timers, faults)

ASSUME BoundsAssumption ==
  MaxQueries \in Nat \ {0} /\ MaxRequests \in Nat \ {0} /\ MaxEvents \in Nat

VARIABLES
  job,      \* what the Python worker does: "none", "python", "asleep", "reset"
  cur,      \* number of its last USB command, 0 before the first
  buf,      \* what the shared buffer of that command holds
  avail,    \* cableConnectionAvailable
  app,      \* "loading", "ready" or "failed"
  queue,    \* requestQueue: the jobs that wait
  down, up, \* messages to and from the Python worker
  toggle, ready, running, usb, cable,  \* the page's flags (diyRunning, diyUsbEnabled, cableConnected)
  pending,  \* the command pendingCableQuery is for, 0 when there is none
  chunks,   \* the lines collected for it
  toDiy, fromDiy,   \* messages to and from the device's page
  phase,    \* the device: "booting", "running", "restarting", "replacing", "failed"
  usbOn,    \* the firmware's usb-enabled marker
  told,     \* usbEnabled: the last marker the worker reported
  cmds,     \* commands the worker has and the firmware has not read
  fw,       \* the command the firmware works on, 0 when none
  out,      \* lines in the output mailbox
  events,   \* interruptions so far
  forced,   \* forceCanvasBridge: a crash was recovered from since the last restart
  recovered \* history: a crash was recovered from, which the page is not told

rest == <<job, cur, avail, app, queue>>
worker == <<rest, buf>>
flags == <<toggle, ready, running, usb, cable>>
waiting == <<pending, chunks>>
device == <<phase, usbOn, told, cmds, fw, out, forced, recovered>>
vars == <<worker, down, up, flags, waiting, toDiy, fromDiy, device, events>>

Query == 1..MaxQueries
Line == [of : Query, kind : {"ack", "answer"}]
\* Messages to the page and to the device's page.
Msg(type) == [type |-> type, q |-> 0]
Command(q) == [type |-> "command", q |-> q]
Unset == [done |-> FALSE, lines |-> <<>>]
Refused == [done |-> TRUE, lines |-> <<>>]

Init ==
  /\ job = "none" /\ cur = 0 /\ buf = Unset /\ avail = TRUE /\ app = "ready"
  /\ queue = <<>> /\ down = <<>> /\ up = <<>> /\ toDiy = <<>> /\ fromDiy = <<>>
  /\ toggle = TRUE /\ ready = TRUE /\ running = TRUE /\ usb = TRUE /\ cable = TRUE
  /\ pending = 0 /\ chunks = <<>>
  /\ phase = "running" /\ usbOn = TRUE /\ told = TRUE
  /\ cmds = <<>> /\ fw = 0 /\ out = <<>> /\ events = 0
  /\ forced = FALSE /\ recovered = FALSE

Interruption == events < MaxEvents /\ events' = events + 1

---------------------------------------------------------------------------
(* The page. *)

\* The result goes to the buffer of the query that waits, which is no longer
\* anybody's once its sender has asked the next one.
Finish(result) ==
  /\ pending' = 0 /\ chunks' = <<>>
  /\ buf' = IF pending # 0 /\ pending = cur THEN result ELSE buf

Connected(t, r, d, u) == t /\ r /\ d /\ u

\* Mutation: the worker is told of a connection and not of its end.
UpdateCableUntold(c) ==
  /\ cable' = c
  /\ down' = IF c /\ ~cable THEN Append(down, "connected") ELSE down
  /\ IF cable /\ ~c THEN Finish(Refused) ELSE UNCHANGED <<pending, chunks, buf>>
\* updateCableState: c is what the page's flags come to.
UpdateCable(c) ==
  /\ cable' = c
  /\ down' = IF c = cable THEN down
             ELSE Append(down, IF c THEN "connected" ELSE "disconnected")
  /\ IF cable /\ ~c THEN Finish(Refused) ELSE UNCHANGED <<pending, chunks, buf>>

Toggle ==
  /\ Interruption
  /\ toggle' = ~toggle
  /\ UpdateCable(Connected(~toggle, ready, running, usb))
  /\ UNCHANGED <<rest, up, ready, running, usb, toDiy, fromDiy, device>>

\* The timer of the query that waits.
QueryTimesOut ==
  /\ Interruption
  /\ pending # 0
  /\ Finish(Refused)
  /\ UNCHANGED <<rest, down, up, flags, toDiy, fromDiy, device>>

\* Mutation: a query that finds no cable is left without a result.
QueueQuerySilent(q) ==
  IF cable /\ usb /\ running
    THEN pending' = q /\ chunks' = <<>> /\ toDiy' = Append(toDiy, Command(q)) /\ UNCHANGED buf
    ELSE pending' = 0 /\ chunks' = <<>> /\ UNCHANGED <<toDiy, buf>>
\* queueCableQuery: a query that still waits is that of a sender that gave up.
QueueQuery(q) ==
  /\ chunks' = <<>>
  /\ IF cable /\ usb /\ running
       THEN pending' = q /\ toDiy' = Append(toDiy, Command(q)) /\ UNCHANGED buf
       ELSE pending' = 0 /\ buf' = (IF q = cur THEN Refused ELSE buf) /\ UNCHANGED toDiy

PageTakesQuery ==
  /\ up # <<>> /\ Head(up).type = "command"
  /\ up' = Tail(up)
  /\ QueueQuery(Head(up).q)
  /\ UNCHANGED <<rest, down, flags, fromDiy, device, events>>

PageTakesReady ==
  /\ up # <<>> /\ Head(up).type = "ready"
  /\ up' = Tail(up)
  /\ ready' = TRUE
  /\ UpdateCable(Connected(toggle, TRUE, running, usb))
  /\ UNCHANGED <<rest, toggle, running, usb, toDiy, fromDiy, device, events>>

PageTakesError ==
  /\ up # <<>> /\ Head(up).type = "error"
  /\ up' = Tail(up)
  /\ ready' = FALSE
  /\ UpdateCable(FALSE)
  /\ UNCHANGED <<rest, toggle, running, usb, toDiy, fromDiy, device, events>>

\* A finished reset ends the worker with whatever it still had to do, and a
\* new one starts.  The click already took the cable off.
PageTakesResetComplete ==
  /\ up # <<>> /\ Head(up).type = "reset-complete"
  /\ ready' = FALSE /\ cable' = FALSE
  /\ Finish(Refused)
  /\ job' = "none" /\ avail' = FALSE /\ app' = "loading" /\ queue' = <<>>
  /\ up' = <<>> /\ down' = <<>>
  /\ UNCHANGED <<cur, toggle, running, usb, toDiy, fromDiy, device, events>>

ResetClicked ==
  /\ Interruption
  /\ ready
  /\ ready' = FALSE /\ cable' = FALSE
  /\ down' = down \o (IF cable THEN <<"disconnected">> ELSE <<>>) \o <<"reset">>
  /\ IF cable THEN Finish(Refused) ELSE UNCHANGED <<pending, chunks, buf>>
  /\ UNCHANGED <<rest, up, toggle, running, usb, toDiy, fromDiy, device>>

RestartClicked ==
  /\ Interruption
  /\ running
  /\ running' = FALSE /\ usb' = FALSE
  /\ UpdateCable(FALSE)
  /\ toDiy' = Append(toDiy, Msg("restart"))
  /\ UNCHANGED <<rest, up, toggle, ready, fromDiy, device>>

\* A request that the service worker passed on.
RequestArrives ==
  /\ Len(queue) + Len(down) < MaxRequests
  /\ cur < MaxQueries
  /\ down' = Append(down, "request")
  /\ UNCHANGED <<worker, up, flags, waiting, toDiy, fromDiy, device, events>>

\* Mutation: the first line need not be an acknowledgement.
ReceiveUnchecked(lines) ==
  LET all == chunks \o lines IN
  IF pending = 0 THEN UNCHANGED <<pending, chunks, buf>>
  ELSE IF Len(all) > 1 THEN Finish([done |-> TRUE, lines |-> SubSeq(all, 1, 2)])
  ELSE chunks' = all /\ UNCHANGED <<pending, buf>>
\* Mutation: an answer with nothing before it is not reported.
ReceiveIgnores(lines) ==
  LET all == chunks \o lines IN
  IF pending = 0 \/ Head(all).kind # "ack" THEN UNCHANGED <<pending, chunks, buf>>
  ELSE IF Len(all) > 1 THEN Finish([done |-> TRUE, lines |-> SubSeq(all, 1, 2)])
  ELSE chunks' = all /\ UNCHANGED <<pending, buf>>
\* receiveCableBytes: lines nobody waits for are dropped, and so is what
\* follows the answer in the same chunk.
Receive(lines) ==
  LET all == chunks \o lines IN
  IF pending = 0 THEN UNCHANGED <<pending, chunks, buf>>
  ELSE IF Head(all).kind # "ack" THEN Finish(Refused)
  ELSE IF Len(all) > 1 THEN Finish([done |-> TRUE, lines |-> SubSeq(all, 1, 2)])
  ELSE chunks' = all /\ UNCHANGED <<pending, buf>>

FromDiy(type) == fromDiy # <<>> /\ Head(fromDiy).type = type /\ fromDiy' = Tail(fromDiy)

PageTakesBytes ==
  /\ FromDiy("output")
  /\ Receive(Head(fromDiy).lines)
  /\ UNCHANGED <<rest, down, up, flags, toDiy, device, events>>

\* The capacity check of receiveCableBytes, which comes first; the one of
\* finishCableQuery can fail no more.
PageGetsTooMuch ==
  /\ Interruption
  /\ FromDiy("output") /\ pending # 0
  /\ Finish(Refused)
  /\ UNCHANGED <<rest, down, up, flags, toDiy, device>>

\* simulator-restarting and simulator-error.
PageTakesStopped ==
  /\ FromDiy("stopped")
  /\ running' = FALSE /\ usb' = FALSE
  /\ UpdateCable(FALSE)
  /\ UNCHANGED <<rest, up, toggle, ready, toDiy, device, events>>

PageTakesRunning ==
  /\ FromDiy("running")
  /\ running' = TRUE
  /\ UpdateCable(Connected(toggle, ready, TRUE, usb))
  /\ UNCHANGED <<rest, up, toggle, ready, usb, toDiy, device, events>>

PageTakesUsbState ==
  /\ FromDiy("usb")
  /\ usb' = Head(fromDiy).on
  /\ UpdateCable(Connected(toggle, ready, running, usb'))
  /\ UNCHANGED <<rest, up, toggle, ready, running, toDiy, device, events>>

---------------------------------------------------------------------------
(* The Python worker. *)

\* Its message handlers run only when no Python code does.
Awake == job \in {"none", "reset"}

WorkerTakesMessage ==
  /\ Awake /\ down # <<>>
  /\ down' = Tail(down)
  /\ avail' = CASE Head(down) = "connected" -> TRUE
                [] Head(down) = "disconnected" -> FALSE
                [] OTHER -> avail
  /\ queue' = IF Head(down) = "request" \/ (Head(down) = "reset" /\ app = "ready")
              THEN Append(queue, Head(down)) ELSE queue
  /\ UNCHANGED <<job, cur, buf, app, up, flags, waiting, toDiy, fromDiy, device, events>>

\* A request to an app that is not ready is answered 503 at once.
JobStarts ==
  /\ job = "none" /\ queue # <<>>
  /\ queue' = Tail(queue)
  /\ job' = CASE Head(queue) = "reset" -> "reset"
              [] app = "ready" -> "python"
              [] OTHER -> "none"
  /\ UNCHANGED <<cur, buf, avail, app, down, up, flags, waiting, toDiy, fromDiy, device, events>>

\* specterBrowserCableQuerySync; without a cable it raises at once.
QueryStarts ==
  /\ job = "python" /\ avail /\ cur < MaxQueries
  /\ job' = "asleep" /\ cur' = cur + 1 /\ buf' = Unset
  /\ up' = Append(up, Command(cur + 1))
  /\ UNCHANGED <<avail, app, queue, down, flags, waiting, toDiy, fromDiy, device, events>>

QueryReturns ==
  /\ job = "asleep" /\ buf.done
  /\ job' = "python"
  /\ UNCHANGED <<cur, buf, avail, app, queue, down, up, flags, waiting, toDiy, fromDiy, device, events>>

\* Atomics.wait ends by its own timeout.
SleepTimesOut ==
  /\ Interruption
  /\ job = "asleep" /\ ~buf.done
  /\ job' = "python"
  /\ UNCHANGED <<cur, buf, avail, app, queue, down, up, flags, waiting, toDiy, fromDiy, device>>

\* The Python code of the request is through and the request is answered;
\* the flush of its files in between lets messages in as idleness does.
RequestDone ==
  /\ job = "python"
  /\ job' = "none"
  /\ UNCHANGED <<cur, buf, avail, app, queue, down, up, flags, waiting, toDiy, fromDiy, device, events>>

ResetDone ==
  /\ job = "reset"
  /\ job' = "none"
  /\ up' = Append(up, Msg("reset-complete"))
  /\ UNCHANGED <<cur, buf, avail, app, queue, down, flags, waiting, toDiy, fromDiy, device, events>>

ResetFails ==
  /\ Interruption
  /\ job = "reset"
  /\ job' = "none"
  /\ up' = Append(up, Msg("error"))
  /\ UNCHANGED <<cur, buf, avail, app, queue, down, flags, waiting, toDiy, fromDiy, device>>

AppStarts ==
  /\ app = "loading"
  /\ app' = "ready" /\ up' = Append(up, Msg("ready"))
  /\ UNCHANGED <<job, cur, buf, avail, queue, down, flags, waiting, toDiy, fromDiy, device, events>>

\* A worker whose script cannot be started says nothing.
AppFails ==
  /\ Interruption
  /\ app = "loading"
  /\ app' = "failed" /\ up' \in {up, Append(up, Msg("error"))}
  /\ UNCHANGED <<job, cur, buf, avail, queue, down, flags, waiting, toDiy, fromDiy, device>>

---------------------------------------------------------------------------
(* The device: its page, the firmware's worker and the firmware. *)

Note(type) == [type |-> type, on |-> FALSE, lines |-> <<>>]
HasWorker == phase \in {"booting", "running", "restarting"}

DeviceTakesCommand ==
  /\ toDiy # <<>> /\ Head(toDiy).type = "command"
  /\ toDiy' = Tail(toDiy)
  /\ cmds' = IF HasWorker THEN Append(cmds, Head(toDiy).q) ELSE cmds
  /\ UNCHANGED <<worker, down, up, flags, waiting, fromDiy, phase, usbOn, told, fw, out, forced, recovered, events>>

\* restart: the page is told first, and the worker, if there is one, goes on
\* until its snapshot has come.  A restart under way is not started again.
Restarts ==
  IF phase = "restarting" THEN UNCHANGED <<fromDiy, phase>>
  ELSE /\ fromDiy' = fromDiy \o <<Note("stopped"), Note("usb")>>
       /\ phase' = IF HasWorker THEN "restarting" ELSE "replacing"

DeviceTakesRestart ==
  /\ toDiy # <<>> /\ Head(toDiy).type = "restart"
  /\ toDiy' = Tail(toDiy)
  /\ Restarts
  /\ UNCHANGED <<worker, down, up, flags, waiting, usbOn, told, cmds, fw, out, forced, recovered, events>>

DeviceReboots ==
  /\ Interruption
  /\ phase \in {"running", "failed"}
  /\ Restarts
  /\ UNCHANGED <<worker, down, up, flags, waiting, toDiy, usbOn, told, cmds, fw, out, forced, recovered>>

NewWorker == usbOn' = FALSE /\ told' = FALSE /\ cmds' = <<>> /\ fw' = 0 /\ out' = <<>>

WorkerReplaced ==
  /\ phase \in {"restarting", "replacing"}
  /\ phase' = "booting"
  /\ forced' = (forced /\ phase = "replacing")
  /\ NewWorker
  /\ UNCHANGED <<worker, down, up, flags, waiting, toDiy, fromDiy, recovered, events>>

DeviceRuns ==
  /\ phase = "booting"
  /\ phase' = "running"
  /\ fromDiy' = Append(fromDiy, Note("running"))
  /\ UNCHANGED <<worker, down, up, flags, waiting, toDiy, usbOn, told, cmds, fw, out, forced, recovered, events>>

\* crashRecover: a first crash replaces the worker without telling the page,
\* the next is a failure.
DeviceCrashes ==
  /\ Interruption
  /\ HasWorker
  /\ NewWorker
  /\ \/ /\ ~forced
        /\ phase' = "replacing" /\ forced' = TRUE /\ recovered' = TRUE /\ UNCHANGED fromDiy
     \/ /\ phase' = "failed" /\ fromDiy' = Append(fromDiy, Note("stopped"))
        /\ UNCHANGED <<forced, recovered>>
  /\ UNCHANGED <<worker, down, up, flags, waiting, toDiy>>

\* The user switches USB communication on the device.
UsbSwitched ==
  /\ Interruption
  /\ HasWorker
  /\ usbOn' = ~usbOn
  /\ UNCHANGED <<worker, down, up, flags, waiting, toDiy, fromDiy, phase, told, cmds, fw, out, forced, recovered>>

\* The firmware reads a command only while USB is on, one at a time.
FirmwareReads ==
  /\ HasWorker /\ usbOn /\ fw = 0 /\ cmds # <<>>
  /\ fw' = Head(cmds) /\ cmds' = Tail(cmds)
  /\ out' = Append(out, [of |-> Head(cmds), kind |-> "ack"])
  /\ UNCHANGED <<worker, down, up, flags, waiting, toDiy, fromDiy, phase, usbOn, told, forced, recovered, events>>

FirmwareAnswers ==
  /\ HasWorker /\ fw # 0
  /\ fw' = 0
  /\ out' = Append(out, [of |-> fw, kind |-> "answer"])
  /\ UNCHANGED <<worker, down, up, flags, waiting, toDiy, fromDiy, phase, usbOn, told, cmds, forced, recovered, events>>

\* pollUsb: a change of the marker, then what the mailbox holds.
Poll ==
  /\ HasWorker
  /\ told # usbOn \/ out # <<>>
  /\ told' = usbOn /\ out' = <<>>
  /\ fromDiy' = fromDiy \o (IF told # usbOn THEN <<[type |-> "usb", on |-> usbOn, lines |-> <<>>]>> ELSE <<>>)
                        \o (IF out # <<>> THEN <<[type |-> "output", on |-> FALSE, lines |-> out]>> ELSE <<>>)
  /\ UNCHANGED <<worker, down, up, flags, waiting, toDiy, phase, usbOn, cmds, fw, forced, recovered, events>>

---------------------------------------------------------------------------
PageStep ==
  \/ PageTakesQuery \/ PageTakesReady \/ PageTakesError \/ PageTakesResetComplete
  \/ PageTakesBytes \/ PageTakesStopped \/ PageTakesRunning \/ PageTakesUsbState
PythonStep ==
  \/ WorkerTakesMessage \/ JobStarts \/ QueryReturns \/ RequestDone
  \/ ResetDone \/ AppStarts
DeviceStep ==
  \/ DeviceTakesCommand \/ DeviceTakesRestart \/ WorkerReplaced \/ DeviceRuns
  \/ FirmwareReads \/ FirmwareAnswers \/ Poll
User ==
  \/ Toggle \/ ResetClicked \/ RestartClicked \/ RequestArrives \/ QueryStarts
  \/ DeviceReboots \/ UsbSwitched
Fault ==
  \/ QueryTimesOut \/ PageGetsTooMuch \/ SleepTimesOut
  \/ ResetFails \/ AppFails \/ DeviceCrashes

Next == PageStep \/ PythonStep \/ DeviceStep \/ User \/ Fault

\* Event loops deliver, workers go on, the firmware answers; no timer, user
\* or fault has to act.
Fairness == WF_vars(PageStep) /\ WF_vars(PythonStep) /\ WF_vars(DeviceStep)
Spec == Init /\ [][Next]_vars /\ Fairness
---------------------------------------------------------------------------
(* Properties. *)

UpMessages ==
  [type : {"command"}, q : Query] \cup [type : {"ready", "reset-complete", "error"}, q : {0}]
DiyMessages == [type : {"command"}, q : Query] \cup [type : {"restart"}, q : {0}]
Notes == [type : {"stopped", "running", "usb", "output"}, on : BOOLEAN, lines : Seq(Line)]

Jobs == {"request", "reset"}
WorkerMessages == Jobs \cup {"connected", "disconnected"}
Phases == {"booting", "running", "restarting", "replacing", "failed"}

PythonTypes ==
  /\ job \in {"none", "python", "asleep", "reset"}
  /\ cur \in 0..MaxQueries
  /\ buf \in [done : BOOLEAN, lines : Seq(Line)]
  /\ avail \in BOOLEAN /\ app \in {"loading", "ready", "failed"}
  /\ queue \in Seq(Jobs)
PageTypes ==
  /\ toggle \in BOOLEAN /\ ready \in BOOLEAN /\ running \in BOOLEAN
  /\ usb \in BOOLEAN /\ cable \in BOOLEAN
  /\ pending \in 0..MaxQueries /\ chunks \in Seq(Line)
ChannelTypes ==
  /\ down \in Seq(WorkerMessages)
  /\ up \in Seq(UpMessages) /\ toDiy \in Seq(DiyMessages) /\ fromDiy \in Seq(Notes)
DeviceTypes ==
  /\ phase \in Phases
  /\ usbOn \in BOOLEAN /\ told \in BOOLEAN
  /\ forced \in BOOLEAN /\ recovered \in BOOLEAN
  /\ cmds \in Seq(Query) /\ fw \in 0..MaxQueries /\ out \in Seq(Line)
  /\ events \in 0..MaxEvents
TypeOK == PythonTypes /\ PageTypes /\ ChannelTypes /\ DeviceTypes

\* A Python worker that sleeps on a query without a result is on somebody's
\* list: its query is on the way to the page or is the one the page waits
\* for.  Otherwise all requests would stand still until its timeout.
SleeperIsServed ==
  job = "asleep" /\ ~buf.done => Command(cur) \in Range(up) \/ pending = cur

\* What is taken as an answer is an acknowledgement and the answer to the
\* same command, whatever was given up, pulled, restarted or failed before.
\* A crash that was recovered from is the exception: the page goes on
\* collecting, so that the old worker's acknowledgement may be completed by
\* a line of the new one, and the result may outlive the recovery.
AnswerIsWhole ==
  buf.lines # <<>> /\ ~recovered =>
    /\ buf.lines[1].of = buf.lines[2].of
    /\ buf.lines[1].kind = "ack" /\ buf.lines[2].kind = "answer"

\* A query ends without the help of a timer, unless the device's worker was
\* replaced behind the page's back or its USB was switched off.
QueryEnds ==
  (job = "asleep" /\ ~forced) ~> (job # "asleep" \/ forced \/ (cable /\ ~usbOn))

\* The Python worker, which is told only when it does not sleep, comes to
\* see the cable as the page has it.
CableIsSeen == \A b \in BOOLEAN : (cable = b) ~> (avail = b \/ cable # b)
=============================================================================
