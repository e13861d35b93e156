--------------------------- MODULE SimulatorPage ---------------------------
(***************************************************************************)
(* The simulator page (browser/site.js, in gallery mode) and the Web       *)
(* Worker it runs the firmware in (browser/runtime-worker.js), one pair    *)
(* per device.                                                             *)
(*                                                                         *)
(* The page forwards the gallery's commands to the worker, answers its     *)
(* requests for the card contents, and replaces the worker when a restart  *)
(* is asked for or the worker crashes.  A handler runs to completion, so   *)
(* it is one step; messages travel in order.  Messages of a worker that    *)
(* was terminated are never handled (the generation check), so replacing   *)
(* a worker empties both of its channels.                                  *)
(*                                                                         *)
(* The bytes under one medium's prefix (sd/ or cards/<slot>/) are one      *)
(* version number; 0 means no files.  The firmware's own flash is left     *)
(* out, so a factory reset is a restart here.  The announcement the page   *)
(* repeats until it is answered is sent once: an answer after the first    *)
(* is ignored.                                                             *)
(***************************************************************************)
EXTENDS Naturals, Sequences, FiniteSets

CONSTANTS
  Devices,    (* the simulators of the gallery                             *)
  SD, Cards,  (* the SD card; the MemoryCards                              *)
  None,       (* no device, no medium                                      *)
  MaxVersion, (* bound: nothing is written to a medium beyond this version *)
  MaxIds,     (* bound: requests in flight at once, of either requestId    *)
  Stalls      (* whether a running worker may take over 3 s to answer      *)

Media    == {SD} \cup Cards
Versions == Nat
Ids      == 1..MaxIds

ASSUME DevicesAssumption == None \notin Devices /\ None \notin Media
ASSUME MediaAssumption == SD \notin Cards
ASSUME PageBounds == MaxVersion \in Nat /\ MaxIds \in Nat \ {0} /\ Stalls \in BOOLEAN

VARIABLES
  page,       (* what the page remembers                                   *)
  worker,     (* the worker: its phase, /state, and what is inserted       *)
  toPage,     (* messages of the gallery to the page                       *)
  toParent,   (* messages of the page to the gallery                       *)
  toWorker,   (* messages of the page to the worker                        *)
  fromWorker, (* messages of the worker to the page                        *)
  latest      (* history: the newest version of each medium's bytes        *)

channels == <<toPage, toParent, toWorker, fromWorker>>
pageVars == <<page, worker, channels, latest>>

NoFiles  == [m \in Media |-> 0]
NoWorker == [phase |-> "none", files |-> NoFiles, reader |-> {}]

(* What stands between a page and its next start: the gallery's media, the  *)
(* build metadata, the pause before a retry, or nothing.                    *)
Dues == {"media", "load", "retry", "no"}

LoadedPage == [due |-> "media", files |-> NoFiles, reader |-> {},
               restarting |-> FALSE, asked |-> {}]

(* An entry of the map snapshots: who asked, and the gallery's requestId.   *)
Asked(id, for, request) == [id |-> id, for |-> for, request |-> request]

Post(channel, d, msg)  == [channel EXCEPT ![d] = Append(@, msg)]
Take(channel, d)       == [channel EXCEPT ![d] = Tail(@)]
Has(channel, d, type)  == channel[d] # <<>> /\ Head(channel[d]).type = type
Plain(type)            == [type |-> type, id |-> 0, m |-> None, files |-> NoFiles, reader |-> {}]
Export(id)             == [Plain("export") EXCEPT !.id = id]
Snapshot(id, files)    == [Plain("snapshot") EXCEPT !.id = id, !.files = files]
Command(type, m)       == [Plain(type) EXCEPT !.m = m]

Occurs(channel, d, type, id) ==
  \E i \in DOMAIN channel[d] : channel[d][i].type = type /\ channel[d][i].id = id

(* requestId: an id nobody refers to any more is as good as a new one; a    *)
(* request waits while MaxIds are in use.                                   *)
FreeIds(d) == {id \in Ids : /\ \A a \in page[d].asked : a.id # id
                            /\ ~Occurs(toWorker, d, "snapshot", id)
                            /\ ~Occurs(fromWorker, d, "snapshot", id)}
NextId(d) == CHOOSE id \in FreeIds(d) : TRUE
-----------------------------------------------------------------------------
(* The page.                                                                *)

(* A worker is replaced or lost: of the requests it leaves unanswered the   *)
(* gallery's are answered by their timer, a restart is given up when its    *)
(* timer runs out, and a refresh would change nothing.                      *)
Orphans(asked) == {a \in asked : a.for \in {"parent", "abandoned"}}
                  \cup {[a EXCEPT !.for = "abandoned"] : a \in {b \in asked : b.for = "restart"}}
Abandoned(asked) == \E a \in asked : a.for \in {"restart", "abandoned"}

Silence(d) == /\ toWorker' = [toWorker EXCEPT ![d] = <<>>]
              /\ fromWorker' = [fromWorker EXCEPT ![d] = <<>>]

(* start: a new worker gets the remembered files, SD state and card.        *)
Launch(d, files, asked, due) ==
  /\ page' = [page EXCEPT ![d] = [@ EXCEPT !.due = due, !.files = files,
                !.asked = Orphans(asked), !.restarting = Abandoned(asked)]]
  /\ worker' = [worker EXCEPT ![d] = [phase |-> "booting", files |-> files,
                                      reader |-> page[d].reader]]
  /\ Silence(d)

(* A restart does not wait for a retry, but the first load still starts.    *)
Relaunch(d, files, asked) ==
  Launch(d, files, asked, IF page[d].due = "retry" THEN "no" ELSE page[d].due)

(* restart: announced, and one at a time; the snapshot comes first.         *)
Restart(d, toWorkerNow) ==
  IF page[d].restarting
  THEN UNCHANGED <<page, worker, toParent>> /\ toWorker' = toWorkerNow
  ELSE /\ FreeIds(d) # {}
       /\ toParent' = Post(toParent, d, Plain("restarting"))
       /\ page' = [page EXCEPT ![d].restarting = TRUE,
                               ![d].asked = @ \cup {Asked(NextId(d), "restart", 0)}]
       /\ toWorker' = Post(toWorkerNow, d, Snapshot(NextId(d), NoFiles))
       /\ UNCHANGED worker

(* gallery -> page: peripherals-provide, once.  The gallery names files,    *)
(* but neither an SD card nor a slot that is inserted.                      *)
PageProvided(d) ==
  /\ Has(toPage, d, "provide")
  /\ toPage' = Take(toPage, d)
  /\ page' = IF page[d].due = "media"
             THEN [page EXCEPT ![d].due = "load", ![d].files = Head(toPage[d]).files,
                               ![d].reader = {}]
             ELSE page
  /\ UNCHANGED <<worker, toParent, toWorker, fromWorker, latest>>

(* The build metadata is there, or the pause before the retry is over.      *)
PageStarts(d) ==
  /\ page[d].due \in {"load", "retry"}
  /\ Launch(d, page[d].files, page[d].asked, "no")
  /\ UNCHANGED <<toPage, toParent, latest>>

(* gallery -> page: peripherals-export; with no worker the remembered files *)
(* are the answer.                                                          *)
PageExports(d) ==
  /\ Has(toPage, d, "export")
  /\ toPage' = Take(toPage, d)
  /\ LET request == Head(toPage[d]).id
     IN  IF worker[d].phase = "none"
         THEN /\ toParent' = Post(toParent, d, Snapshot(request, page[d].files))
              /\ UNCHANGED <<page, toWorker>>
         ELSE /\ FreeIds(d) # {}
              /\ page' = [page EXCEPT ![d].asked = @ \cup {Asked(NextId(d), "parent", request)}]
              /\ toWorker' = Post(toWorker, d, Snapshot(NextId(d), NoFiles))
              /\ UNCHANGED toParent
  /\ UNCHANGED <<worker, fromWorker, latest>>

Commands == {"insert", "eject", "import", "remove", "edit"}

(* gallery -> page: peripheral-command, dropped when there is no worker.    *)
PageForwards(d) ==
  /\ toPage[d] # <<>> /\ Head(toPage[d]).type \in Commands
  /\ toPage' = Take(toPage, d)
  /\ toWorker' = IF worker[d].phase = "none" THEN toWorker
                 ELSE Post(toWorker, d, Head(toPage[d]))
  /\ UNCHANGED <<page, worker, toParent, fromWorker, latest>>

(* gallery -> page: runtime-restart.                                        *)
PageRestarts(d) ==
  /\ Has(toPage, d, "restart")
  /\ toPage' = Take(toPage, d)
  /\ IF worker[d].phase = "none" /\ ~page[d].restarting
     THEN /\ toParent' = Post(toParent, d, Plain("restarting"))
          /\ Relaunch(d, page[d].files, page[d].asked)
     ELSE Restart(d, toWorker) /\ UNCHANGED fromWorker
  /\ UNCHANGED latest

(* Mutation: no snapshot is taken before the worker is replaced.            *)
PageRebootsAtOnce(d) ==
  /\ Has(fromWorker, d, "reboot")
  /\ toParent' = Post(toParent, d, Plain("restarting"))
  /\ Relaunch(d, page[d].files, page[d].asked)
  /\ UNCHANGED <<toPage, latest>>

(* worker -> page: reboot, asked for by the firmware.                       *)
PageReboots(d) ==
  /\ Has(fromWorker, d, "reboot")
  /\ fromWorker' = Take(fromWorker, d)
  /\ Restart(d, toWorker)
  /\ UNCHANGED <<toPage, latest>>

(* Mutation: the gallery is not told.                                       *)
PageSeesRunningAlone(d) ==
  /\ Has(fromWorker, d, "running")
  /\ fromWorker' = Take(fromWorker, d)
  /\ toWorker' = Post(toWorker, d, Plain("card-list"))
  /\ UNCHANGED <<page, worker, toPage, toParent, latest>>

(* worker -> page: running; the card list that is asked for is answered by  *)
(* a card-state.                                                            *)
PageSeesRunning(d) ==
  /\ Has(fromWorker, d, "running")
  /\ fromWorker' = Take(fromWorker, d)
  /\ toWorker' = Post(toWorker, d, Plain("card-list"))
  /\ toParent' = Post(toParent, d, Plain("running"))
  /\ UNCHANGED <<page, worker, toPage, latest>>

(* Mutation: the display changes, the variable inserted does not.           *)
PageSeesSdOnScreen(d) ==
  /\ Has(fromWorker, d, "sd-state")
  /\ fromWorker' = Take(fromWorker, d)
  /\ UNCHANGED <<page, worker, toPage, toParent, toWorker, latest>>

(* worker -> page: sd-state.                                                *)
PageSeesSd(d) ==
  /\ Has(fromWorker, d, "sd-state")
  /\ fromWorker' = Take(fromWorker, d)
  /\ page' = [page EXCEPT ![d].reader = (@ \ {SD}) \cup (Head(fromWorker[d]).reader \cap {SD})]
  /\ UNCHANGED <<worker, toPage, toParent, toWorker, latest>>

(* worker -> page: card-state; the remembered files are refreshed.          *)
PageSeesCard(d) ==
  /\ Has(fromWorker, d, "card-state")
  /\ FreeIds(d) # {}
  /\ fromWorker' = Take(fromWorker, d)
  /\ page' = [page EXCEPT ![d].reader = (@ \ Cards) \cup (Head(fromWorker[d]).reader \cap Cards),
                          ![d].asked = @ \cup {Asked(NextId(d), "refresh", 0)}]
  /\ toWorker' = Post(toWorker, d, Snapshot(NextId(d), NoFiles))
  /\ UNCHANGED <<worker, toPage, toParent, latest>>

(* What the caller of snapshot does with the files it gets.                 *)
Resolve(d, a, files) ==
  CASE a.for = "parent" ->
         /\ page' = [page EXCEPT ![d].asked = @ \ {a}]
         /\ toParent' = Post(toParent, d, Snapshot(a.request, files))
         /\ UNCHANGED <<worker, toWorker>>
    [] a.for = "refresh" ->
         /\ page' = [page EXCEPT ![d].asked = @ \ {a}, ![d].files = files]
         /\ UNCHANGED <<worker, toParent, toWorker>>
    [] a.for = "restart" ->
         Relaunch(d, files, page[d].asked \ {a}) /\ UNCHANGED toParent
    [] a.for = "abandoned" ->
         /\ page' = [page EXCEPT ![d].asked = @ \ {a}, ![d].restarting = FALSE]
         /\ UNCHANGED <<worker, toParent, toWorker>>

(* worker -> page: snapshot; ignored when its timer was faster.             *)
PageSnapshot(d) ==
  /\ Has(fromWorker, d, "snapshot")
  /\ LET answer == Head(fromWorker[d])
         who    == {a \in page[d].asked : a.id = answer.id}
     IN  IF who = {}
         THEN fromWorker' = Take(fromWorker, d) /\ UNCHANGED <<page, worker, toParent, toWorker>>
         ELSE \E a \in who :
                /\ Resolve(d, a, answer.files)
                /\ a.for # "restart" => fromWorker' = Take(fromWorker, d)
  /\ UNCHANGED <<toPage, latest>>

Answerable(d, a) == \/ Occurs(toWorker, d, "snapshot", a.id)
                    \/ Occurs(fromWorker, d, "snapshot", a.id)

(* Mutation: a worker that is lost takes the timers of its requests along.  *)
PageTimeoutOfWorker(d, a) ==
  /\ a \in page[d].asked
  /\ worker[d].phase # "none"
  /\ Stalls \/ worker[d].phase # "running" \/ ~Answerable(d, a)
  /\ Resolve(d, a, page[d].files)
  /\ a.for # "restart" => UNCHANGED fromWorker
  /\ UNCHANGED <<toPage, latest>>

(* The 3 s timer of snapshot: the remembered files are the answer.  It runs *)
(* out when the answer cannot come, when the worker is still starting, or   *)
(* when it stalls.                                                          *)
PageTimeout(d, a) ==
  /\ a \in page[d].asked
  /\ Stalls \/ worker[d].phase # "running" \/ ~Answerable(d, a)
  /\ Resolve(d, a, page[d].files)
  /\ a.for # "restart" => UNCHANGED fromWorker
  /\ UNCHANGED <<toPage, latest>>

(* crashRecover: the worker is gone; the page starts another one a little   *)
(* later, or gives up and tells the gallery.  The code retries once until a *)
(* restart allows it again; here any crash may be followed by a retry.      *)
WorkerCrashes(d, retries) ==
  /\ worker[d].phase # "none"
  /\ worker' = [worker EXCEPT ![d] = NoWorker]
  /\ Silence(d)
  /\ page' = [page EXCEPT ![d].asked = Orphans(@),
                          ![d].due = IF retries /\ @ = "no" THEN "retry" ELSE @]
  /\ toParent' = IF retries THEN toParent ELSE Post(toParent, d, Plain("error"))
  /\ UNCHANGED <<toPage, latest>>
-----------------------------------------------------------------------------
(* The worker.  Messages that arrive before it is ready wait (pending).     *)

(* The runtime is ready; "running" is posted half a second later.           *)
WorkerReady(d) ==
  /\ worker[d].phase = "booting"
  /\ worker' = [worker EXCEPT ![d].phase = "ready"]
  /\ UNCHANGED <<page, channels, latest>>

WorkerRuns(d) ==
  /\ worker[d].phase = "ready"
  /\ worker' = [worker EXCEPT ![d].phase = "running"]
  /\ fromWorker' = Post(fromWorker, d, Plain("running"))
  /\ UNCHANGED <<page, toPage, toParent, toWorker, latest>>

Report(type, reader) == [Plain(type) EXCEPT !.reader = reader]

(* A medium's files change: no other copy has this version.                 *)
NewVersion(m) == latest[m] + 1

(* handle: one message, and the state reports it is answered with.          *)
Handled(d, c) ==
  LET w == worker[d]
      files(m, v)   == [w.files EXCEPT ![m] = v]
      put(fs, rd)   == worker' = [worker EXCEPT ![d].files = fs, ![d].reader = rd]
      say(type, rd) == fromWorker' = Post(fromWorker, d, Report(type, rd))
      creates       == c.type = "insert" /\ c.m \in Cards /\ w.files[c.m] = 0
  IN  /\ latest' = IF creates \/ c.type = "edit"
                   THEN [latest EXCEPT ![c.m] = NewVersion(c.m)] ELSE latest
      /\ CASE c.type = "snapshot" ->
                /\ UNCHANGED worker
                /\ fromWorker' = Post(fromWorker, d, Snapshot(c.id, w.files))
           [] c.type = "card-list" -> UNCHANGED worker /\ say("card-state", w.reader)
           [] c.type = "insert" /\ c.m = SD ->
                put(w.files, w.reader \cup {SD}) /\ say("sd-state", w.reader \cup {SD})
           [] c.type = "insert" /\ c.m \in Cards ->
                LET rd == (w.reader \ Cards) \cup {c.m}
                IN  put(IF creates THEN files(c.m, NewVersion(c.m)) ELSE w.files, rd)
                    /\ say("card-state", rd)
           [] c.type = "eject" /\ c.m = SD ->
                put(w.files, w.reader \ {SD}) /\ say("sd-state", w.reader \ {SD})
           [] c.type = "eject" /\ c.m \in Cards ->
                put(w.files, w.reader \ Cards) /\ say("card-state", w.reader \ Cards)
           [] c.type = "import" ->
                put(IF c.files[c.m] = 0 THEN w.files ELSE files(c.m, c.files[c.m]), w.reader)
                /\ say("card-state", w.reader)
           [] c.type = "remove" -> put(files(c.m, 0), w.reader) /\ say("card-state", w.reader)
           [] c.type = "edit" -> put(files(c.m, NewVersion(c.m)), w.reader) /\ UNCHANGED fromWorker

WorkerHandles(d) ==
  /\ worker[d].phase \in {"ready", "running"}
  /\ toWorker[d] # <<>>
  /\ toWorker' = Take(toWorker, d)
  /\ Handled(d, Head(toWorker[d]))
  /\ UNCHANGED <<page, toPage, toParent>>

(* The firmware writes to what is inserted: a file, a key, a PIN attempt.   *)
FirmwareWrites(d, m) ==
  /\ worker[d].phase \in {"ready", "running"}
  /\ m \in worker[d].reader
  /\ latest[m] < MaxVersion
  /\ latest' = [latest EXCEPT ![m] = NewVersion(m)]
  /\ worker' = [worker EXCEPT ![d].files[m] = NewVersion(m)]
  /\ UNCHANGED <<page, channels>>

FirmwareReboots(d) ==
  /\ worker[d].phase = "running"
  /\ fromWorker' = Post(fromWorker, d, Plain("reboot"))
  /\ UNCHANGED <<page, worker, toPage, toParent, toWorker, latest>>
-----------------------------------------------------------------------------
PageInit ==
  /\ page = [d \in Devices |-> LoadedPage]
  /\ worker = [d \in Devices |-> NoWorker]
  /\ toPage = [d \in Devices |-> <<>>]
  /\ toParent = [d \in Devices |-> <<Plain("awaiting")>>]
  /\ toWorker = [d \in Devices |-> <<>>]
  /\ fromWorker = [d \in Devices |-> <<>>]
  /\ latest = [m \in Media |-> 0]

PageSteps(d) ==
  \/ PageProvided(d) \/ PageExports(d) \/ PageForwards(d) \/ PageRestarts(d)
  \/ PageReboots(d) \/ PageSeesRunning(d) \/ PageSeesSd(d) \/ PageSeesCard(d)
  \/ PageSnapshot(d) \/ PageStarts(d)
  \/ \E a \in page[d].asked : PageTimeout(d, a)

WorkerSteps(d) == WorkerReady(d) \/ WorkerRuns(d) \/ WorkerHandles(d)
=============================================================================
