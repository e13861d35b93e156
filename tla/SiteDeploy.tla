----------------------------- MODULE SiteDeploy -----------------------------
(***************************************************************************)
(* The deployment of the site (deploy/deploy-site-release.sh): a timer     *)
(* runs the script, which fetches the newest published release, unpacks it *)
(* beside the others, switches the link the web server follows, asks the   *)
(* web server for what it serves now, and either goes back or notes the    *)
(* release as deployed and prunes the old ones.                            *)
(*                                                                         *)
(* The steps are those between which a kill, or the administrator's own    *)
(* change of the link (SETUP.md:72), makes a difference.  flock lets one   *)
(* run at a time.  The staging directory is rebuilt by every run, so       *)
(* fetching, checking and unpacking are one step that succeeds or fails.   *)
(***************************************************************************)
EXTENDS Integers, FiniteSets

CONSTANTS
  MaxRun,       (* bound: releases are the run numbers 1..MaxRun            *)
  Kept,         (* how many releases are retained: 7 in the script          *)
  Overlap,      (* whether the administrator acts while rm -rf is due       *)
  MaxRollbacks, (* bound: how often the administrator acts                  *)
  MaxUpsets     (* bound: kills, failed downloads, failed requests          *)

ASSUME DeployAssumption == MaxRun \in Nat /\ Kept \in Nat \ {0} /\ Overlap \in BOOLEAN
ASSUME DeployBounds     == MaxRollbacks \in Nat /\ MaxUpsets \in Nat

Runs    == 1..MaxRun
None    == 0
Itself  == -1    (* the path of CURRENT_LINK, where a release is expected     *)
Quality == {"good", "unhealthy", "corrupt"}
Names   == {"current", "rollback"}  (* the links .current-RUN, .rollback-RUN *)
Steps   == {"idle", "fetch", "install", "link", "switch", "check", "undo", "restore",
            "record", "list", "prune", "remove"}

VARIABLES
  quality,   (* external: what the checks will find of a release            *)
  published, (* external: the complete releases on GitHub                   *)
  releases,  (* the directories below RELEASE_ROOT                          *)
  torn,      (* those of them that rm -rf has begun to remove               *)
  site,      (* the target of CURRENT_LINK, or None before it is made       *)
  links,     (* the targets of the temporary links, by name and RUN_ID      *)
  inner,     (* links that ln made inside a release: directory and target   *)
  stateFile, (* STATE_FILE                                                  *)
  at,        (* where the script is                                         *)
  run,       (* RUN_ID                                                      *)
  previous,  (* PREVIOUS_TARGET                                             *)
  old,       (* what is left of OLD_RELEASES                                *)
  tested,    (* auxiliary: the releases that passed the check while served  *)
  exposed,   (* auxiliary: a kill left the site on a release not yet tested *)
  rollbacks, (* how often the administrator acted                           *)
  upsets     (* how many upsets there were                                  *)

locals == <<run, previous, old>>
disk   == <<releases, torn, links, inner, stateFile>>
world  == <<quality, published, rollbacks>>
vars   == <<world, disk, site, at, locals, tested, exposed, upsets>>

Newest(r) == r \in published /\ \A x \in published : x <= r

Newer(d) == {x \in releases : x > d}
(* Mutation: tail -n +7.                                                    *)
SurplusOffByOne == {d \in releases : Cardinality({x \in releases : x > d}) >= Kept - 1}

Surplus == {d \in releases : Cardinality(Newer(d)) >= Kept}

Upset == upsets < MaxUpsets /\ upsets' = upsets + 1

Init ==
  /\ quality \in [Runs -> Quality]
  /\ published = {} /\ releases = {} /\ torn = {}
  /\ site = None /\ stateFile = None
  /\ links = [n \in Names |-> [r \in Runs |-> None]] /\ inner = {}
  /\ at = "idle" /\ run = None /\ previous = None /\ old = {}
  /\ tested = {} /\ exposed = FALSE /\ rollbacks = 0 /\ upsets = 0
-----------------------------------------------------------------------------
(* ln -s target NAME.  Without -n, a link of that name which is there       *)
(* already is followed and the new one is made inside the release it names, *)
(* under the target's last name; if that is taken too, or the link leads to *)
(* no directory, ln fails.                                                  *)
Dir(l) == IF l = Itself THEN site ELSE l

Blocked(name, target) ==
  /\ links[name][run] # None
  /\ \/ Dir(links[name][run]) \notin releases
     \/ <<Dir(links[name][run]), target>> \in inner

LinkTo(name, target) ==
  /\ ~Blocked(name, target)
  /\ IF links[name][run] = None
       THEN links' = [links EXCEPT ![name][run] = target] /\ UNCHANGED inner
       ELSE inner' = inner \cup {<<Dir(links[name][run]), target>>} /\ UNCHANGED links

(* mv -Tf NAME current: whatever the link points to is served; a link to    *)
(* the path of current becomes a link to itself, and nothing is.            *)
MoveOver(name) ==
  /\ site' = links[name][run]
  /\ links' = [links EXCEPT ![name][run] = None]

(* set -e: the script ends where a command fails.                           *)
Exit == at' = "idle" /\ run' = None /\ previous' = None /\ old' = {}
-----------------------------------------------------------------------------
(* The workflow uploads a release and its checksum; runs may end out of order. *)
Publish(r) ==
  /\ r \notin published
  /\ published' = published \cup {r}
  /\ UNCHANGED <<quality, rollbacks, disk, site, at, locals, tested, exposed, upsets>>

(* Mutation: any note ends the script.                                      *)
StartOnce ==
  /\ at = "idle" /\ stateFile = None
  /\ \E r \in published : Newest(r) /\ run' = r
  /\ at' = "fetch"
  /\ UNCHANGED <<world, disk, site, previous, old, tested, exposed, upsets>>

(* A run of the timer begins: the newest complete release, if it is not the *)
(* one that was deployed last.                                              *)
Start ==
  /\ at = "idle"
  /\ \E r \in published : Newest(r) /\ stateFile # r /\ run' = r
  /\ at' = "fetch"
  /\ UNCHANGED <<world, disk, site, previous, old, tested, exposed, upsets>>

(* Fetch, verify and unpack; a corrupt release ends the script.             *)
Verify ==
  /\ at = "fetch"
  /\ IF quality[run] = "corrupt" THEN Exit
     ELSE at' = "install" /\ UNCHANGED locals
  /\ UNCHANGED <<world, disk, site, tested, exposed, upsets>>

DownloadFails ==
  /\ at = "fetch" /\ Upset
  /\ Exit
  /\ UNCHANGED <<world, disk, site, tested, exposed>>

(* readlink -f of the link: of one that is not there it prints the path     *)
(* asked for and succeeds, of a loop it prints nothing.                     *)
Resolved == IF site = None THEN Itself ELSE IF site = Itself THEN None ELSE site

(* Mutation: unpacked in place, without a staging directory.                *)
InstallInPlace ==
  /\ at = "install"
  /\ releases' = releases \cup {run}
  /\ \/ previous' = Resolved /\ at' = "link" /\ UNCHANGED <<torn, upsets, run, old>>
     \/ Upset /\ run \notin releases /\ torn' = torn \cup {run} /\ Exit
  /\ UNCHANGED <<world, links, inner, stateFile, site, tested, exposed>>

(* A directory of that number which is there already is kept as it is.      *)
Install ==
  /\ at = "install"
  /\ releases' = releases \cup {run}
  /\ previous' = Resolved
  /\ at' = "link"
  /\ UNCHANGED <<world, torn, links, inner, stateFile, site, run, old, tested, exposed, upsets>>

Link ==
  /\ at = "link"
  /\ \/ LinkTo("current", run) /\ at' = "switch" /\ UNCHANGED locals
     \/ Blocked("current", run) /\ Exit /\ UNCHANGED <<links, inner>>
  /\ UNCHANGED <<world, releases, torn, stateFile, site, tested, exposed, upsets>>

(* Mutation: the previous target is read after the switch.                  *)
SwitchThenRead ==
  /\ at = "switch"
  /\ MoveOver("current")
  /\ at' = "check" /\ previous' = site'
  /\ UNCHANGED <<world, releases, torn, inner, stateFile, run, old, tested, exposed, upsets>>

Switch ==
  /\ at = "switch"
  /\ MoveOver("current")
  /\ at' = "check"
  /\ UNCHANGED <<world, releases, torn, inner, stateFile, locals, tested, exposed, upsets>>
-----------------------------------------------------------------------------
(* deployment.json as the web server serves it against the one unpacked.    *)
Healthy == site = run /\ quality[run] = "good"

CheckPasses ==
  /\ at = "check" /\ Healthy
  /\ at' = "record"
  /\ tested' = tested \cup {run}
  /\ UNCHANGED <<world, disk, site, locals, exposed, upsets>>

(* -d PREVIOUS_TARGET: a release that is still there, or the path of the    *)
(* link itself, which names a directory since the switch.                   *)
PreviousIsThere == Dir(previous) \in releases

CheckFails ==
  /\ at = "check"
  /\ \/ ~Healthy /\ UNCHANGED upsets
     \/ Healthy /\ Upset
  /\ IF PreviousIsThere THEN at' = "undo" /\ UNCHANGED locals ELSE Exit
  /\ UNCHANGED <<world, disk, site, tested, exposed>>

Undo ==
  /\ at = "undo"
  /\ \/ LinkTo("rollback", previous) /\ at' = "restore" /\ UNCHANGED locals
     \/ Blocked("rollback", previous) /\ Exit /\ UNCHANGED <<links, inner>>
  /\ UNCHANGED <<world, releases, torn, stateFile, site, tested, exposed, upsets>>

Restore ==
  /\ at = "restore"
  /\ MoveOver("rollback")
  /\ Exit
  /\ UNCHANGED <<world, releases, torn, inner, stateFile, tested, exposed, upsets>>
-----------------------------------------------------------------------------
Record ==
  /\ at = "record"
  /\ stateFile' = run
  /\ at' = "list"
  /\ UNCHANGED <<world, releases, torn, links, inner, site, locals, tested, exposed, upsets>>

List ==
  /\ at = "list"
  /\ old' = Surplus
  /\ at' = "prune"
  /\ UNCHANGED <<world, disk, site, run, previous, tested, exposed, upsets>>

(* The newest of those left is next: the link is read, and then rm begins.  *)
Following(d) == d \in old /\ \A x \in old : x <= d

Spare ==
  /\ at = "prune"
  /\ \E d \in old : Following(d) /\ site = d /\ old' = old \ {d}
  /\ UNCHANGED <<world, disk, site, at, run, previous, tested, exposed, upsets>>

Condemn ==
  /\ at = "prune"
  /\ \E d \in old : Following(d) /\ site # d
  /\ at' = "remove"
  /\ UNCHANGED <<world, disk, site, locals, tested, exposed, upsets>>

Tear ==
  /\ at = "remove"
  /\ \E d \in old : Following(d) /\ d \notin torn /\ torn' = torn \cup {d}
  /\ UNCHANGED <<world, releases, links, inner, stateFile, site, at, locals, tested, exposed, upsets>>

Remove ==
  /\ at = "remove"
  /\ \E d \in old :
       /\ Following(d) /\ d \in torn
       /\ releases' = releases \ {d} /\ torn' = torn \ {d} /\ old' = old \ {d}
       /\ inner' = {l \in inner : l[1] # d}
  /\ at' = "prune"
  /\ UNCHANGED <<world, links, stateFile, site, run, previous, tested, exposed, upsets>>

End ==
  /\ at = "prune" /\ old = {}
  /\ Exit
  /\ UNCHANGED <<world, disk, site, tested, exposed, upsets>>
-----------------------------------------------------------------------------
(* The service is stopped or the machine goes down: the disk stays as it    *)
(* is, a note that is being written possibly empty.                         *)
Killed ==
  /\ at # "idle" /\ Upset
  /\ Exit
  /\ exposed' = (exposed \/ at \in {"check", "undo", "restore"})
  /\ \/ at = "record" /\ stateFile' = None
     \/ UNCHANGED stateFile
  /\ UNCHANGED <<world, releases, torn, links, inner, site, tested>>

(* The administrator goes back to a release that is still there and checks  *)
(* it, whatever the script is doing.                                        *)
Rollback(d) ==
  /\ rollbacks < MaxRollbacks /\ rollbacks' = rollbacks + 1
  /\ Overlap \/ at # "remove"
  /\ d \in (releases \ torn) \cap tested
  /\ site' = d
  /\ UNCHANGED <<quality, published, disk, at, locals, tested, exposed, upsets>>

Script == \/ Start \/ Verify \/ Install \/ Link \/ Switch \/ CheckPasses \/ CheckFails
          \/ Undo \/ Restore \/ Record \/ List \/ Spare \/ Condemn \/ Tear \/ Remove \/ End

Next == \/ Script \/ DownloadFails \/ Killed
        \/ \E r \in Runs : Publish(r) \/ Rollback(r)

Spec     == Init /\ [][Next]_vars
(* The timer starts the script again and again, and a script that runs goes *)
(* on: curl has time limits, and nothing else waits.                        *)
FairSpec == Spec /\ WF_vars(Script)
-----------------------------------------------------------------------------
Targets == Runs \cup {None, Itself}

TypeOK ==
  /\ quality \in [Runs -> Quality]
  /\ published \subseteq Runs /\ releases \subseteq Runs /\ torn \subseteq releases
  /\ site \in Targets /\ stateFile \in Runs \cup {None}
  /\ links \in [Names -> [Runs -> Targets]]
  /\ inner \subseteq Runs \X (Runs \cup {Itself})
  /\ at \in Steps /\ previous \in Targets /\ old \subseteq releases
  /\ run \in Runs \cup {None} /\ (at # "idle" => run \in Runs)
  /\ (at = "undo" => previous \in Runs \cup {Itself})
  /\ tested \subseteq Runs /\ exposed \in BOOLEAN
  /\ rollbacks \in 0..MaxRollbacks /\ upsets \in 0..MaxUpsets

(* The link names a whole release, neither missing nor half removed,        *)
(* wherever the script was killed and however often (SETUP.md:47 and the    *)
(* comment on pruning, lines 152-153); but as long as no deployment is      *)
(* noted there may be no link yet, or one that a failed first deployment    *)
(* made a link to itself, where SETUP.md:48-50 has the failed check leave   *)
(* or restore the previous release.                                         *)
SiteIsWhole == \/ site \in releases \ torn
               \/ stateFile = None /\ site \in {None, Itself}

(* Pruning spares the newest ones (SETUP.md:50): a release that begins to   *)
(* go has at least Kept newer ones, and these stay.                         *)
RetentionKept ==
  [][\A d \in releases \ torn : d \notin releases' \ torn' =>
       Cardinality({x \in releases' \ torn' : x > d}) >= Kept]_vars

(* A failed check leaves or restores a release that passed (SETUP.md:48),   *)
(* unless none ever passed (then the first one is put back as a link to     *)
(* itself, see SiteIsWhole), or a kill came between a switch and the end of *)
(* its check: then the next run takes the untested release for the previous *)
(* one.                                                                     *)
RestsOnTested == at = "idle" => site \in tested \/ tested = {} \/ exposed

(* What is noted as deployed, and so is never tried again, was once served  *)
(* and passed its check.                                                    *)
NotedWasTested == stateFile # None => stateFile \in tested

(* The note never goes back to an older release, whatever the order in      *)
(* which they are published.                                                *)
NoteGoesForward == [][stateFile' # None => stateFile' >= stateFile]_vars

(* The newest release, if it is a good one, is deployed in the end, unless  *)
(* two kills between ln and mv have left both a link and a link inside it.  *)
Wedged(r) == <<links["current"][r], r>> \in inner
NewestIsDeployed ==
  <>[](\A r \in Runs : Newest(r) /\ quality[r] = "good" => stateFile = r \/ Wedged(r))
=============================================================================
