------------------------------ MODULE Gallery ------------------------------
(***************************************************************************)
(* The gallery (simulators/site.js): one workbench that moves an SD card   *)
(* and MemoryCards between simulator pages, each page with its worker      *)
(* (module SimulatorPage).                                                 *)
(*                                                                         *)
(* A transfer is one perform(): it runs to the next await in one step, and *)
(* between its steps the pages, the workers and the user go on.  While it  *)
(* runs no second one starts (busy).                                       *)
(***************************************************************************)
EXTENDS SimulatorPage

CONSTANTS
  MaxOps,        (* bound: how many transfers and edits are started         *)
  Upsets,        (* the interruptions that happen: a subset of Interruptions *)
  MaxUpsets,     (* bound: how many of them, early timers included          *)
  Overlap,       (* whether an interruption may coincide with a transfer    *)
  GalleryExpires (* whether the gallery's 15 s timer may beat the page      *)

Interruptions == {"button", "reboot", "crash", "reload"}

ASSUME GalleryBounds == MaxOps \in Nat /\ MaxUpsets \in Nat
ASSUME UpsetsAssumption == /\ Upsets \subseteq Interruptions
                           /\ Overlap \in BOOLEAN /\ GalleryExpires \in BOOLEAN

VARIABLES
  owner,  (* sdOwner and cardOwners                                        *)
  kept,   (* mediaFiles: the gallery's copy of each medium's files         *)
  ready,  (* the devices known to run                                      *)
  op,     (* the transfer or edit that runs, and what it waits for         *)
  base,   (* history: each medium's bytes when op or a restart began       *)
  ops,    (* how many were started                                         *)
  upsets  (* how many interruptions there were                             *)

bench  == <<owner, kept, ready, op, base, ops>>
vars   == <<pageVars, bench, upsets>>

(* out: the media still to be detached; m goes into target afterwards; wipe *)
(* is the reset of a card; id is the request the operation waits for.       *)
NoOp == [at |-> "idle", out |-> <<>>, m |-> None, target |-> None,
         wipe |-> FALSE, from |-> None, id |-> 0]
busy == op.at # "idle"

FreeRequests == {id \in Ids : \A d \in Devices :
                   /\ ~Occurs(toPage, d, "export", id)
                   /\ ~Occurs(toParent, d, "snapshot", id)
                   /\ \A a \in page[d].asked : a.request # id}
NextRequest == CHOOSE id \in FreeRequests : TRUE

PostAll(channel, d, msgs) == [channel EXCEPT ![d] = @ \o msgs]

CopyOf(m, files) == [NoFiles EXCEPT ![m] = files[m]]

(* A medium's bytes, where the gallery says it is.                          *)
Bytes(m) == IF owner[m] = None THEN kept[m]
            ELSE IF worker[owner[m]].phase = "none" THEN page[owner[m]].files[m]
            ELSE worker[owner[m]].files[m]
Current == [m \in Media |-> Bytes(m)]
-----------------------------------------------------------------------------
(* What a transfer does from one await to the next.                         *)

(* Mutation: the snapshot is asked for first, the commands follow.          *)
AskBefore(d, commands, next) ==
  IF d \in ready
  THEN /\ op' = [next EXCEPT !.from = d, !.id = NextRequest]
       /\ toPage' = PostAll(toPage, d, <<Export(NextRequest)>> \o commands)
  ELSE /\ op' = NoOp
       /\ toPage' = PostAll(toPage, d, commands)

(* snapshot(d), after the commands: it rejects for a device that is not     *)
(* ready, and the transfer ends there with what it did so far.              *)
AskAfter(d, commands, next) ==
  IF d \in ready
  THEN /\ FreeRequests # {}
       /\ op' = [next EXCEPT !.from = d, !.id = NextRequest]
       /\ toPage' = PostAll(toPage, d, Append(commands, Export(NextRequest)))
  ELSE /\ op' = NoOp
       /\ toPage' = PostAll(toPage, d, commands)

(* move: import the kept files into the target and insert the medium.       *)
Insert(o) ==
  AskAfter(o.target,
           <<[Command("import", o.m) EXCEPT !.files = CopyOf(o.m, kept')], Command("insert", o.m)>>,
           [o EXCEPT !.at = "inserting"])

(* detach of what is still to be detached, then the insertion if there is a *)
(* target.                                                                  *)
Proceed(o, own) ==
  /\ owner' = own
  /\ IF o.out # <<>>
     THEN AskAfter(own[Head(o.out)], <<>>, [o EXCEPT !.at = "saving"])
     ELSE IF o.target = None
          THEN op' = NoOp /\ UNCHANGED toPage
          ELSE Insert(o)

Begin ==
  /\ ~busy
  /\ ops < MaxOps
  /\ ops' = ops + 1
  /\ UNCHANGED <<ready, upsets, page, worker, toParent, toWorker, fromWorker>>

(* select of an inserted medium: eject it.                                  *)
Eject(m) ==
  /\ Begin /\ base' = Current
  /\ owner[m] # None
  /\ kept' = kept /\ latest' = latest
  /\ Proceed([NoOp EXCEPT !.out = <<m>>, !.m = m], owner)

(* The reset of a card: detach it, then forget its files.                   *)
Reset(c) ==
  /\ Begin
  /\ latest' = latest
  /\ base' = IF owner[c] = None THEN [Current EXCEPT ![c] = 0] ELSE Current
  /\ IF owner[c] = None
     THEN kept' = [kept EXCEPT ![c] = 0] /\ UNCHANGED <<owner, op, toPage>>
     ELSE kept' = kept /\ Proceed([NoOp EXCEPT !.out = <<c>>, !.m = c, !.wipe = TRUE], owner)

(* move: the other card in the target's reader goes first; what is not      *)
(* inserted anywhere needs no detaching.                                    *)
Occupant(m, d) == IF m = SD THEN {} ELSE {c \in Cards \ {m} : owner[c] = d}
ToDetach(m)    == IF owner[m] = None THEN <<>> ELSE <<m>>

Move(m, d) ==
  /\ Begin /\ base' = Current
  /\ d \in ready
  /\ owner[m] # d
  /\ kept' = kept /\ latest' = latest
  /\ \E first \in IF Occupant(m, d) = {} THEN {<<>>} ELSE {<<c>> : c \in Occupant(m, d)} :
       Proceed([NoOp EXCEPT !.out = first \o ToDetach(m), !.m = m, !.target = d], owner)

(* Files are added to the SD card, deleted from it, or all cleared.         *)
Edit ==
  /\ Begin /\ base' = Current
  /\ latest[SD] < MaxVersion
  /\ UNCHANGED owner
  /\ IF owner[SD] = None
     THEN /\ kept' = [kept EXCEPT ![SD] = NewVersion(SD)]
          /\ latest' = [latest EXCEPT ![SD] = NewVersion(SD)]
          /\ UNCHANGED <<op, toPage>>
     ELSE /\ UNCHANGED <<kept, latest>>
          /\ AskAfter(owner[SD], <<Command("edit", SD)>>, [NoOp EXCEPT !.at = "reading", !.m = SD])

(* "Refresh files".                                                         *)
Refresh ==
  /\ Begin /\ base' = Current
  /\ owner[SD] # None
  /\ UNCHANGED <<owner, kept, latest>>
  /\ AskAfter(owner[SD], <<>>, [NoOp EXCEPT !.at = "reading", !.m = SD])
-----------------------------------------------------------------------------
(* Messages of the pages.                                                   *)
Hears(d, type) == Has(toParent, d, type) /\ toParent' = Take(toParent, d)

HearsAwaiting(d) ==
  /\ Hears(d, "awaiting")
  /\ toPage' = Post(toPage, d, [Plain("provide") EXCEPT
                 !.files = [m \in Media |-> IF owner[m] = d THEN kept[m] ELSE 0]])
  /\ UNCHANGED <<page, worker, toWorker, fromWorker, latest, bench, upsets>>

HearsState(d) ==
  /\ \/ Hears(d, "running") /\ ready' = ready \cup {d}
     \/ Hears(d, "restarting") /\ ready' = ready \ {d}
     \/ Hears(d, "error") /\ ready' = ready \ {d}
  /\ UNCHANGED <<page, worker, toPage, toWorker, fromWorker, latest, owner, kept, op, base, ops, upsets>>

Answers(d) == busy /\ op.from = d /\ op.id = Head(toParent[d]).id

(* An answer nobody waits for any more.                                     *)
HearsStale(d) ==
  /\ Hears(d, "snapshot")
  /\ ~Answers(d)
  /\ UNCHANGED <<page, worker, toPage, toWorker, fromWorker, latest, bench, upsets>>

Continues(d, at) ==
  /\ Hears(d, "snapshot")
  /\ Answers(d) /\ op.at = at
  /\ base' = IF at = "clearing" /\ op.wipe THEN [base EXCEPT ![op.m] = 0] ELSE base
  /\ UNCHANGED <<page, worker, toWorker, fromWorker, latest, ready, ops, upsets>>

Answer(d) == Head(toParent[d]).files

(* detach: the files are saved, the medium is ejected and its files removed *)
(* from the device, and a second snapshot follows the commands.             *)
Saved(d) ==
  /\ Continues(d, "saving")
  /\ LET m == Head(op.out)
     IN  /\ kept' = [kept EXCEPT ![m] = Answer(d)[m]]
         /\ AskAfter(d, <<Command("eject", m), Command("remove", m)>>, [op EXCEPT !.at = "clearing"])
  /\ UNCHANGED owner

(* detach is over: the medium is in no device.                              *)
Cleared(d) ==
  /\ Continues(d, "clearing")
  /\ kept' = IF op.wipe THEN [kept EXCEPT ![op.m] = 0] ELSE kept
  /\ Proceed([op EXCEPT !.out = Tail(@)], [owner EXCEPT ![Head(op.out)] = None])

(* move is over.                                                            *)
Inserted(d) ==
  /\ Continues(d, "inserting")
  /\ kept' = [kept EXCEPT ![op.m] = Answer(d)[op.m]]
  /\ owner' = [owner EXCEPT ![op.m] = d]
  /\ op' = NoOp
  /\ UNCHANGED toPage

(* Mutation: busy is not released.                                          *)
ReadUnfinished(d) ==
  /\ Continues(d, "reading")
  /\ kept' = [kept EXCEPT ![op.m] = Answer(d)[op.m]]
  /\ op' = [NoOp EXCEPT !.at = "done"]
  /\ UNCHANGED <<owner, toPage>>

(* Clear, add, delete and refresh are over.                                 *)
Read(d) ==
  /\ Continues(d, "reading")
  /\ kept' = [kept EXCEPT ![op.m] = Answer(d)[op.m]]
  /\ op' = NoOp
  /\ UNCHANGED <<owner, toPage>>

(* The answer the operation waits for is still to come.                     *)
Awaited == \/ Occurs(toPage, op.from, "export", op.id)
           \/ Occurs(toParent, op.from, "snapshot", op.id)
           \/ \E a \in page[op.from].asked : a.for = "parent" /\ a.request = op.id

(* The 15 s timer of snapshot: the operation ends with what it did so far.  *)
(* A timer that beats the answer counts as an interruption.                 *)
Expires ==
  /\ busy
  /\ IF Awaited THEN GalleryExpires /\ upsets < MaxUpsets /\ upsets' = upsets + 1
                ELSE UNCHANGED upsets
  /\ op' = NoOp
  /\ UNCHANGED <<pageVars, owner, kept, ready, base, ops>>
-----------------------------------------------------------------------------
(* Interruptions.                                                           *)
Undisturbed ==
  \A d \in Devices :
    /\ d \in ready /\ worker[d].phase = "running" /\ ~page[d].restarting
    /\ ~Occurs(toPage, d, "restart", 0)
    /\ ~Occurs(fromWorker, d, "reboot", 0)
    /\ ~Occurs(toParent, d, "restarting", 0)

AtRest == /\ ~busy
          /\ \A d \in Devices :
               /\ d \in ready
               /\ worker[d].phase = "running"
               /\ page[d].asked = {} /\ ~page[d].restarting
               /\ toPage[d] = <<>> /\ toParent[d] = <<>>
               /\ toWorker[d] = <<>> /\ fromWorker[d] = <<>>

Upset(kind) ==
  /\ kind \in Upsets
  /\ upsets < MaxUpsets
  /\ upsets' = upsets + 1
  /\ Overlap \/ AtRest

(* The restart button, which no transfer disables.                          *)
RestartButton(d) ==
  /\ Upset("button")
  /\ ready' = ready \ {d}
  /\ toPage' = Post(toPage, d, Plain("restart"))
  /\ base' = Current
  /\ UNCHANGED <<page, worker, toParent, toWorker, fromWorker, latest, owner, kept, op, ops>>

Reboot(d) == Upset("reboot") /\ FirmwareReboots(d) /\ base' = Current
             /\ UNCHANGED <<owner, kept, ready, op, ops>>

(* What the firmware wrote since the page's last refresh is gone.           *)
Crash(d, retries) ==
  /\ Upset("crash")
  /\ WorkerCrashes(d, retries)
  /\ base' = [m \in Media |-> IF owner[m] = d THEN page[d].files[m] ELSE base[m]]
  /\ UNCHANGED <<owner, kept, ready, op, ops>>

(* The Playground switch: the page is loaded again, in another variant, and *)
(* what was under way to or in the old one is gone.                         *)
Reload(d) ==
  /\ Upset("reload")
  /\ ready' = ready \ {d}
  /\ page' = [page EXCEPT ![d] = LoadedPage]
  /\ worker' = [worker EXCEPT ![d] = NoWorker]
  /\ toPage' = [toPage EXCEPT ![d] = <<>>]
  /\ toParent' = Post(toParent, d, Plain("awaiting"))
  /\ Silence(d)
  /\ UNCHANGED <<latest, owner, kept, op, base, ops>>
-----------------------------------------------------------------------------
Init ==
  /\ PageInit
  /\ owner = [m \in Media |-> None]
  /\ kept = NoFiles
  /\ ready = {}
  /\ op = NoOp
  /\ base = NoFiles
  /\ ops = 0
  /\ upsets = 0

(* Without Overlap a transfer starts while no device is being restarted.    *)
User == /\ Overlap \/ Undisturbed
        /\ \/ \E m \in Media : Eject(m)
           \/ \E m \in Media, d \in Devices : Move(m, d)
           \/ \E c \in Cards : Reset(c)
           \/ Edit
           \/ Refresh

Bench(d) == \/ HearsAwaiting(d) \/ HearsState(d) \/ HearsStale(d)
            \/ Saved(d) \/ Cleared(d) \/ Inserted(d) \/ Read(d)

Device(d) == (PageSteps(d) \/ WorkerSteps(d)) /\ UNCHANGED <<bench, upsets>>

Firmware(d) == (\E m \in Media : FirmwareWrites(d, m)) /\ UNCHANGED <<bench, upsets>>

Interruption(d) == RestartButton(d) \/ Reboot(d) \/ Reload(d)
                   \/ \E retries \in BOOLEAN : Crash(d, retries)

Next == \/ User \/ Expires
        \/ \E d \in Devices : Bench(d) \/ Device(d) \/ Firmware(d) \/ Interruption(d)

Spec == Init /\ [][Next]_vars

(* The event loops of the gallery, the pages and the workers go on, their   *)
(* timers run out, and a worker that starts gets ready.  The timer of an    *)
(* operation may beat its answer, but nothing relies on it to: it is fair   *)
(* only where no answer can come any more.                                  *)
FairSpec == /\ Spec
            /\ WF_vars(busy /\ ~Awaited /\ Expires)
            /\ \A d \in Devices : WF_vars(Bench(d)) /\ WF_vars(Device(d))
-----------------------------------------------------------------------------
TypeOK ==
  /\ page \in [Devices -> [due : Dues, files : [Media -> Versions], reader : SUBSET Media,
                           restarting : BOOLEAN,
                           asked : SUBSET [id : Ids, request : Ids \cup {0},
                                           for : {"parent", "refresh", "restart", "abandoned"}]]]
  /\ worker \in [Devices -> [phase : {"none", "booting", "ready", "running"},
                             files : [Media -> Versions], reader : SUBSET Media]]
  /\ latest \in [Media -> Versions]
  /\ base \in [Media -> Versions]
  /\ owner \in [Media -> Devices \cup {None}]
  /\ kept \in [Media -> Versions]
  /\ ready \subseteq Devices
  /\ op.at \in {"idle", "saving", "clearing", "inserting", "reading"}

(* "Finish the worker's ordered commands before offering the card           *)
(* elsewhere" (simulators/site.js:247): a medium's files, and the medium as *)
(* the firmware sees it, are never in two devices.                          *)
IsIn(m, d) == m \in worker[d].reader \/ worker[d].files[m] # 0

OneDeviceHasIt ==
  \A m \in Media, d, e \in Devices : IsIn(m, d) /\ IsIn(m, e) => d = e

(* When everything came to rest, the label "Inserted in device n" is true:  *)
(* the firmware of that device, and of no other, sees the medium, and a     *)
(* restart would insert it again.                                           *)
LabelsAreTrue ==
  AtRest => \A m \in Media, d \in Devices :
              /\ m \in worker[d].reader <=> owner[m] = d
              /\ page[d].reader = worker[d].reader
              /\ owner[m] # d => worker[d].files[m] = 0

(* What was written to a medium before a transfer, a refresh or a restart   *)
(* began is still on it afterwards.                                         *)
BytesSurvive == ~busy => \A m \in Media : Bytes(m) >= base[m]

(* A transfer always comes to an end, so the workbench never stays busy:    *)
(* whatever happens to the page and its worker, the request it waits for is *)
(* answered, or it is lost and the 15 s timer of simulators/site.js:56 ends *)
(* it; that timer is not needed while an answer can come.                   *)
TransfersEnd == busy ~> ~busy

(* A restart that was asked for finds the page waiting on a snapshot that a *)
(* crash took the answer of: restart() returns that promise and does        *)
(* nothing (browser/site.js:869), though "Manual Retry/Restart starts a     *)
(* fresh sequence" (browser/STARTUP-VALIDATION.md:91).                      *)
Swallows(d) == /\ Has(toPage, d, "restart") /\ page[d].restarting
               /\ \E a \in page[d].asked : a.for = "abandoned"

GaveUp(d) == worker[d].phase = "none" /\ page[d].due = "no"

(* A device that is restarted or crashes is ready again in the end, unless  *)
(* its page gave up (simulator-error), or a restart of it was swallowed.    *)
DevicesReturn ==
  \A d \in Devices : ([]~Swallows(d)) => (d \notin ready ~> d \in ready \/ GaveUp(d))
=============================================================================
