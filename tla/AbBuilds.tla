------------------------------ MODULE AbBuilds ------------------------------
(***************************************************************************)
(* The on-demand build service of the A/B page: pool/ab_builds.py behind   *)
(* the handlers of pool/ab_api.py.                                         *)
(*                                                                         *)
(* Request threads run Submit and Fetch, one worker thread builds the      *)
(* queued jobs, one cleaner thread deletes unused artifacts, and the       *)
(* process may be killed between any two steps and is started again by     *)
(* systemd.  What the code does while it holds jobs_lock is one step; what *)
(* it does to the artifact directories outside the lock is one step per    *)
(* file system effect another thread or a restart can see.                 *)
(*                                                                         *)
(* A key stands for one adapter:repository:commit.  The adapter is a       *)
(* function of the repository, so a key also names one artifact directory  *)
(* (repositories that differ in case only are not distinguished).          *)
(***************************************************************************)
EXTENDS Naturals, Sequences, FiniteSets

CONSTANTS
  Keys,        (* the revisions that are ever requested                    *)
  MaxId,       (* bound: job ids 1..MaxId; uuids, so any free one is taken *)
  Shipped,     (* revisions the deployed site already serves               *)
  Bundled,     (* revisions the trusted checkout SOURCE_ROOT contains      *)
  Cleaning,    (* whether the cleaner thread runs within the horizon       *)
  SaveFails,   (* whether writing the job state file may fail              *)
  MaxCrashes,  (* bound: how often the process is killed                   *)
  NoKey, NoId  (* "no key" and "no job"                                    *)

Ids == 1..MaxId

ASSUME KeysAssumption == /\ NoKey \notin Keys
                         /\ Shipped \subseteq Keys
                         /\ Bundled \subseteq Keys
ASSUME IdsAssumption == MaxId \in Nat /\ NoId \notin Ids
ASSUME FlagsAssumption == Cleaning \in BOOLEAN /\ SaveFails \in BOOLEAN
ASSUME CrashAssumption == MaxCrashes \in Nat

VARIABLES
  up,       (* the process is running                                       *)
  jobs,     (* the dict jobs, in memory                                     *)
  byKey,    (* the dict jobs_by_key, in memory                              *)
  queue,    (* build_queue, in memory                                       *)
  saved,    (* the content of AB_JOB_STATE_FILE                             *)
  worker,   (* the worker thread: where it is, and its job                  *)
  cleaner,  (* the cleaner thread: where it is, its snapshot, what is left  *)
  store,    (* the artifact directory of each key under AB_STORAGE          *)
  marker,   (* the usage marker of each key under AB_USAGE_ROOT             *)
  mtime,    (* the newest file time of each artifact (of the checkout's     *)
            (* copy for a bundled key)                                      *)
  answered, (* history: the job ids returned to clients                     *)
  crashes   (* how often the process was killed                             *)

memory == <<jobs, byKey, queue>>
disk   == <<store, marker, mtime>>
vars   == <<up, jobs, byKey, queue, saved, worker, cleaner, store, marker,
            mtime, answered, crashes>>

InFlight == {"queued", "building", "validating"}
Status   == InFlight \cup {"none", "ready", "failed"}
Job      == [key : Keys \cup {NoKey}, status : Status]
NoJob    == [key |-> NoKey, status |-> "none"]

(* "good": complete; "torn": build-info.json is there, an artifact is not;  *)
(* "stub": the directory is there, build-info.json is not.                  *)
Artifact == {"absent", "good", "torn", "stub"}
Age      == {"none", "stale", "fresh"}
-----------------------------------------------------------------------------
(* _existing_build(spec): what it answers, and what it leaves on disk.      *)
Existing(k) ==
  IF k \in Shipped THEN "ready"
  ELSE IF k \in Bundled
       THEN IF store[k] \in {"absent", "good"} THEN "ready" ELSE "raises"
       ELSE CASE store[k] = "good" -> "ready"
              [] store[k] = "torn" -> "raises"
              [] OTHER             -> "none"

Copies(k) == k \in Bundled \ Shipped /\ store[k] = "absent"
Marks(k)  == k \notin Shipped /\ (k \in Bundled \/ store[k] \in {"good", "torn"})

LookUp(looked) ==
  /\ store'  = [k \in Keys |-> IF k \in looked /\ Copies(k) THEN "good" ELSE store[k]]
  /\ marker' = [k \in Keys |-> IF k \in looked /\ Marks(k) THEN "fresh" ELSE marker[k]]
  /\ mtime'  = mtime

(* What shutil.rmtree may have left of a directory when it is seen part way. *)
Rests(k) == IF store[k] \in {"absent", "stub"} THEN {store[k]} ELSE {"torn", "stub"}

(* _save_jobs_locked: a failure is printed and the old file stays.          *)
Persist == \/ saved' = jobs'
           \/ SaveFails /\ saved' = saved

(* _mark_used *)
MarkUsed(k) == marker' = [marker EXCEPT ![k] = "fresh"]
-----------------------------------------------------------------------------
Init ==
  /\ up = TRUE
  /\ jobs = [id \in Ids |-> NoJob]
  /\ byKey = [k \in Keys |-> NoId]
  /\ queue = <<>>
  /\ saved = [id \in Ids |-> NoJob]
  /\ worker = [pc |-> "idle", id |-> NoId]
  /\ cleaner = [pc |-> "idle", active |-> {}, todo |-> {}, key |-> NoKey]
  /\ store = [k \in Keys |-> "absent"]
  /\ marker = [k \in Keys |-> "none"]
  /\ mtime = [k \in Keys |-> "stale"]
  /\ answered = {}
  /\ crashes = 0
-----------------------------------------------------------------------------
(* Request threads.                                                         *)

(* submit: the key has a job that did not fail.                             *)
SubmitKnown(k) ==
  /\ up
  /\ byKey[k] # NoId
  /\ jobs[byKey[k]].status # "failed"
  /\ IF jobs[byKey[k]].status = "ready" THEN MarkUsed(k) ELSE UNCHANGED marker
  /\ answered' = answered \cup {byKey[k]}
  /\ UNCHANGED <<up, memory, saved, worker, cleaner, store, mtime, crashes>>

(* Mutation: a queued job does not answer a second request.                 *)
NeedsJobWhileQueued(k) ==
  up /\ (byKey[k] # NoId => jobs[byKey[k]].status \in {"failed", "queued"})

NeedsJob(k) == up /\ (byKey[k] # NoId => jobs[byKey[k]].status = "failed")

(* submit: a fresh job, ready at once when a build exists.  When a failed   *)
(* job's key is dropped the jobs are saved before as well, and that may be  *)
(* the only one of the two saves that succeeds.                             *)
SubmitNew(k, id) ==
  /\ NeedsJob(k)
  /\ Existing(k) # "raises"
  /\ jobs[id] = NoJob /\ saved[id] = NoJob /\ id \notin answered
  /\ jobs' = [jobs EXCEPT ![id] = [key |-> k,
                status |-> IF Existing(k) = "ready" THEN "ready" ELSE "queued"]]
  /\ byKey' = [byKey EXCEPT ![k] = id]
  /\ queue' = IF Existing(k) = "ready" THEN queue ELSE Append(queue, id)
  /\ LookUp({k})
  /\ \/ Persist
     \/ byKey[k] # NoId /\ SaveFails /\ saved' = jobs
  /\ answered' = answered \cup {id}
  /\ UNCHANGED <<up, worker, cleaner, crashes>>

(* submit: the failed job's key is dropped, then the look-up raises.        *)
SubmitRaises(k) ==
  /\ NeedsJob(k)
  /\ Existing(k) = "raises"
  /\ byKey' = [byKey EXCEPT ![k] = NoId]
  /\ LookUp({k})
  /\ UNCHANGED jobs
  /\ IF byKey[k] = NoId THEN UNCHANGED saved ELSE Persist
  /\ UNCHANGED <<up, queue, worker, cleaner, answered, crashes>>

(* pointer_for_job: serving a pointer counts as use.                        *)
Fetch(id) ==
  /\ up
  /\ jobs[id].status = "ready"
  /\ MarkUsed(jobs[id].key)
  /\ UNCHANGED <<up, memory, saved, worker, cleaner, store, mtime, answered, crashes>>
-----------------------------------------------------------------------------
(* The worker thread.                                                       *)

Goto(pc) == worker' = [worker EXCEPT !.pc = pc]
At(pc)   == up /\ worker.pc = pc
BuildKey == jobs[worker.id].key

SetStatus(id, status) ==
  /\ jobs' = [jobs EXCEPT ![id].status = status]
  /\ Persist

WorkerTakes ==
  /\ At("idle")
  /\ queue # <<>>
  /\ worker' = [pc |-> "taken", id |-> Head(queue)]
  /\ queue' = Tail(queue)
  /\ SetStatus(Head(queue), "building")
  /\ UNCHANGED <<up, byKey, cleaner, disk, answered, crashes>>

(* Mutation: the revision is marked used only once it is published.         *)
WorkerMarksLater ==
  /\ At("taken")
  /\ Goto("marked")
  /\ UNCHANGED <<up, memory, saved, cleaner, disk, answered, crashes>>

(* The build directories are prepared and the revision is marked used.      *)
WorkerMarks ==
  /\ At("taken")
  /\ Goto("marked")
  /\ MarkUsed(BuildKey)
  /\ UNCHANGED <<up, memory, saved, cleaner, store, mtime, answered, crashes>>

(* build-ab.sh succeeded and named an artifact directory.                   *)
WorkerBuilds ==
  /\ At("marked")
  /\ Goto("built")
  /\ SetStatus(worker.id, "validating")
  /\ UNCHANGED <<up, byKey, queue, cleaner, disk, answered, crashes>>

(* The set is copied to staging, its manifest is valid, and a target that   *)
(* exists is being removed: some of its files are gone.                     *)
WorkerClears ==
  /\ At("built")
  /\ IF store[BuildKey] = "absent"
     THEN Goto("cleared") /\ UNCHANGED store
     ELSE /\ Goto("clearing")
          /\ \E rest \in Rests(BuildKey) : store' = [store EXCEPT ![BuildKey] = rest]
  /\ UNCHANGED <<up, memory, saved, cleaner, marker, mtime, answered, crashes>>

WorkerCleared ==
  /\ At("clearing")
  /\ Goto("cleared")
  /\ store' = [store EXCEPT ![BuildKey] = "absent"]
  /\ UNCHANGED <<up, memory, saved, cleaner, marker, mtime, answered, crashes>>

(* staging.rename(target) *)
WorkerRenames ==
  /\ At("cleared")
  /\ store[BuildKey] = "absent"
  /\ Goto("renamed")
  /\ store' = [store EXCEPT ![BuildKey] = "good"]
  /\ mtime' = [mtime EXCEPT ![BuildKey] = "fresh"]
  /\ UNCHANGED <<up, memory, saved, cleaner, marker, answered, crashes>>

(* The revision is marked used; the pointer is read from the target.        *)
WorkerConfirms ==
  /\ At("renamed")
  /\ MarkUsed(BuildKey)
  /\ Goto(IF store[BuildKey] = "good" THEN "confirmed" ELSE "broken")
  /\ UNCHANGED <<up, memory, saved, cleaner, store, mtime, answered, crashes>>

WorkerFinishes ==
  /\ At("confirmed")
  /\ worker' = [pc |-> "idle", id |-> NoId]
  /\ SetStatus(worker.id, "ready")
  /\ UNCHANGED <<up, byKey, queue, cleaner, disk, answered, crashes>>

(* Any step from the build to the pointer may raise; the job fails.         *)
WorkerFails ==
  /\ up
  /\ worker.pc \notin {"idle", "confirmed"}
  /\ worker' = [pc |-> "idle", id |-> NoId]
  /\ SetStatus(worker.id, "failed")
  /\ UNCHANGED <<up, byKey, queue, cleaner, disk, answered, crashes>>
-----------------------------------------------------------------------------
(* The cleaner thread: cleanup_unused_builds_once.                          *)

LastUsed(k) == IF marker[k] = "none" THEN mtime[k] ELSE marker[k]

CleanerStarts ==
  /\ up /\ Cleaning
  /\ cleaner.pc = "idle"
  /\ cleaner' = [pc |-> "scan", todo |-> Keys, key |-> NoKey,
                 active |-> {jobs[id].key : id \in {i \in Ids : jobs[i].status \in InFlight}}]
  /\ UNCHANGED <<up, memory, saved, worker, disk, answered, crashes>>

CleanerVisits(k) ==
  /\ up
  /\ cleaner.pc = "scan" /\ k \in cleaner.todo
  /\ cleaner' = [cleaner EXCEPT
       !.todo = @ \ {k},
       !.pc   = IF store[k] = "absent" \/ k \in cleaner.active \/ LastUsed(k) = "fresh"
                THEN "scan" ELSE "condemned",
       !.key  = k]
  /\ UNCHANGED <<up, memory, saved, worker, disk, answered, crashes>>

(* shutil.rmtree has removed some files ...                                 *)
CleanerTears ==
  /\ up
  /\ cleaner.pc = "condemned"
  /\ cleaner' = [cleaner EXCEPT !.pc = "tearing"]
  /\ \E rest \in Rests(cleaner.key) : store' = [store EXCEPT ![cleaner.key] = rest]
  /\ UNCHANGED <<up, memory, saved, worker, marker, mtime, answered, crashes>>

(* ... and now all of them; a directory renamed into the place of the old   *)
(* one meanwhile is not the one it walks.                                   *)
CleanerRemoves ==
  /\ up
  /\ cleaner.pc = "tearing"
  /\ cleaner' = [cleaner EXCEPT !.pc = "removed"]
  /\ store' = [store EXCEPT ![cleaner.key] = IF @ = "good" THEN "good" ELSE "absent"]
  /\ UNCHANGED <<up, memory, saved, worker, marker, mtime, answered, crashes>>

CleanerUnlinks ==
  /\ up
  /\ cleaner.pc = "removed"
  /\ cleaner' = [cleaner EXCEPT !.pc = "scan"]
  /\ marker' = [marker EXCEPT ![cleaner.key] = "none"]
  /\ UNCHANGED <<up, memory, saved, worker, store, mtime, answered, crashes>>

CleanerEnds ==
  /\ up
  /\ cleaner.pc = "scan" /\ cleaner.todo = {}
  /\ cleaner' = [cleaner EXCEPT !.pc = "idle"]
  /\ UNCHANGED <<up, memory, saved, worker, disk, answered, crashes>>
-----------------------------------------------------------------------------
(* The environment: time, the process killed and started again.             *)

(* RETENTION_DAYS pass without use; builds and passes take far less.        *)
Ages ==
  /\ ~up \/ (queue = <<>> /\ worker.pc = "idle" /\ cleaner.pc = "idle")
  /\ Cleaning
  /\ \E k \in Keys : marker[k] = "fresh" \/ mtime[k] = "fresh"
  /\ marker' = [k \in Keys |-> IF marker[k] = "fresh" THEN "stale" ELSE marker[k]]
  /\ mtime' = [k \in Keys |-> "stale"]
  /\ UNCHANGED <<up, memory, saved, worker, cleaner, store, answered, crashes>>

Crash ==
  /\ up
  /\ crashes < MaxCrashes
  /\ crashes' = crashes + 1
  /\ up' = FALSE
  /\ jobs' = [id \in Ids |-> NoJob]
  /\ byKey' = [k \in Keys |-> NoId]
  /\ queue' = <<>>
  /\ worker' = [pc |-> "idle", id |-> NoId]
  /\ cleaner' = [pc |-> "idle", active |-> {}, todo |-> {}, key |-> NoKey]
  /\ UNCHANGED <<saved, disk, answered>>

SavedIds == {id \in Ids : saved[id].status # "none"}

(* Mutations: a validating job is taken for a finished one; a failed job is *)
(* queued again.                                                            *)
RestoredUnchecked(job) ==
  IF job.status = "validating" THEN [job EXCEPT !.status = "ready"] ELSE job

RestoredRetrying(job) ==
  IF job.status \in InFlight \cup {"failed"} THEN [job EXCEPT !.status = "queued"] ELSE job

(* _load_jobs: what becomes of a saved job.                                 *)
Restored(job) ==
  IF job.status = "none" THEN NoJob
  ELSE IF Existing(job.key) = "ready" THEN [job EXCEPT !.status = "ready"]
  ELSE IF job.status \in InFlight THEN [job EXCEPT !.status = "queued"]
  ELSE job

(* Mutation: only jobs the worker had not taken yet are put back.           *)
ResumedUntaken == {id \in SavedIds : saved[id].status = "queued"
                                     /\ Existing(saved[id].key) = "none"}

Resumed == {id \in SavedIds : saved[id].status \in InFlight
                              /\ Existing(saved[id].key) = "none"}

(* The file is read in the order of the ids (sort_keys), so the greatest id *)
(* of a key ends up in jobs_by_key.                                         *)
Boot ==
  /\ ~up
  /\ \A id \in SavedIds : Existing(saved[id].key) # "raises"
  /\ up' = TRUE
  /\ jobs' = [id \in Ids |-> Restored(saved[id])]
  /\ byKey' \in [Keys -> Ids \cup {NoId}]
  /\ \A k \in Keys : LET mine == {id \in SavedIds : saved[id].key = k}
                     IN  IF mine = {} THEN byKey'[k] = NoId
                         ELSE byKey'[k] \in mine /\ \A id \in mine : id <= byKey'[k]
  /\ \E order \in [1..Cardinality(Resumed) -> Resumed] :
       /\ \A i, j \in DOMAIN order : i < j => order[i] < order[j]
       /\ \A id \in Resumed : \E i \in DOMAIN order : order[i] = id
       /\ queue' = order
  /\ LookUp({saved[id].key : id \in SavedIds})
  /\ IF jobs' = saved THEN saved' = saved ELSE Persist
  /\ UNCHANGED <<worker, cleaner, answered, crashes>>

(* _load_jobs raises, the import fails, the process exits and systemd tries *)
(* again; the jobs before the one that raised were looked up.               *)
BootFails(bad) ==
  /\ ~up
  /\ bad \in SavedIds /\ Existing(saved[bad].key) = "raises"
  /\ \A id \in SavedIds : id < bad => Existing(saved[id].key) # "raises"
  /\ LookUp({saved[id].key : id \in {i \in SavedIds : i <= bad}})
  /\ UNCHANGED <<up, memory, saved, worker, cleaner, answered, crashes>>
-----------------------------------------------------------------------------
Requests == \/ \E k \in Keys : SubmitKnown(k) \/ SubmitRaises(k)
            \/ \E k \in Keys, id \in Ids : SubmitNew(k, id)
            \/ \E id \in Ids : Fetch(id)

Worker == \/ WorkerTakes   \/ WorkerMarks   \/ WorkerBuilds   \/ WorkerClears
          \/ WorkerCleared \/ WorkerRenames \/ WorkerConfirms \/ WorkerFinishes
          \/ WorkerFails

Cleaner == \/ CleanerStarts \/ CleanerTears \/ CleanerRemoves \/ CleanerUnlinks
           \/ CleanerEnds   \/ \E k \in Keys : CleanerVisits(k)

Environment == Ages \/ Crash \/ Boot \/ \E bad \in Ids : BootFails(bad)

Next == Requests \/ Worker \/ Cleaner \/ Environment

Spec == Init /\ [][Next]_vars

(* The worker thread is never blocked for ever, and systemd restarts the    *)
(* service (Restart=on-failure).                                            *)
FairSpec == Spec /\ WF_vars(Worker) /\ WF_vars(Boot)
-----------------------------------------------------------------------------
TypeOK ==
  /\ up \in BOOLEAN
  /\ jobs \in [Ids -> Job]
  /\ byKey \in [Keys -> Ids \cup {NoId}]
  /\ queue \in Seq(Ids)
  /\ saved \in [Ids -> Job]
  /\ worker \in [pc : {"idle", "taken", "marked", "built", "clearing", "cleared",
                       "renamed", "confirmed", "broken"},
                 id : Ids \cup {NoId}]
  /\ cleaner \in [pc : {"idle", "scan", "condemned", "tearing", "removed"},
                  active : SUBSET (Keys \cup {NoKey}), todo : SUBSET Keys,
                  key : Keys \cup {NoKey}]
  /\ store \in [Keys -> Artifact]
  /\ marker \in [Keys -> Age]
  /\ mtime \in [Keys -> {"stale", "fresh"}]
  /\ answered \subseteq Ids
  /\ crashes \in Nat

InQueue(id) == \E i \in DOMAIN queue : queue[i] = id

(* No build is lost or started twice: while the service runs, a job is      *)
(* queued exactly when it waits in build_queue, once, and building or       *)
(* validating exactly when the worker holds it.                             *)
NoBuildLost ==
  up => /\ \A id \in Ids : jobs[id].status = "queued" <=> InQueue(id)
        /\ \A i, j \in DOMAIN queue : queue[i] = queue[j] => i = j
        /\ \A id \in Ids : jobs[id].status \in {"building", "validating"}
                             <=> worker.pc # "idle" /\ worker.id = id

(* "Persist allocator jobs atomically so API ids survive service restarts"  *)
(* (ab_builds.py:53): an id a client was given is known whenever the        *)
(* service runs and stays in the state file while it does not.              *)
IdsSurvive == \A id \in answered : saved[id].status # "none"
                                   /\ (up => jobs[id].status # "none")

(* Two jobs of one revision are in flight together only when a restart let  *)
(* an older failed job of that revision take over its jobs_by_key entry.    *)
DuplicateOnlyBesideFailed ==
  \A a, b \in Ids : a # b /\ jobs[a].status \in InFlight
                    /\ jobs[b].status \in InFlight /\ jobs[a].key = jobs[b].key
                    => \E c \in Ids : jobs[c].status = "failed" /\ jobs[c].key = jobs[a].key

(* A job that turns ready has a complete artifact to point at, whether the  *)
(* worker finished it, a request found the build or a restart did.  This is *)
(* a property of the requests, the worker and the restarts: it is checked   *)
(* without the cleaner, which may delete an artifact later.                 *)
Known(id) == IF up THEN jobs[id].status ELSE saved[id].status

ReadyPointsToArtifact ==
  [][\A id \in Ids : Known(id) # "ready" /\ jobs'[id].status = "ready"
       => jobs'[id].key \in Shipped \/ store'[jobs'[id].key] = "good"]_vars

(* The usage marker, not the snapshot of jobs in flight, is what protects a *)
(* running build: once the worker marked the revision, no cleanup pass,     *)
(* however old its snapshot, decides to delete that revision's directory.   *)
RunningBuildSpared ==
  [][\A k \in Keys : cleaner.pc = "scan" /\ cleaner'.pc = "condemned" /\ cleaner'.key = k
       => ~(worker.pc \notin {"idle", "taken"} /\ BuildKey = k)]_vars

(* The service implements the ledger its clients rely on, read off the      *)
(* state file (when saving does not fail).                                  *)
Outcome(status) == CASE status = "none"    -> "unknown"
                     [] status \in InFlight -> "pending"
                     [] status = "ready"    -> "ready"
                     [] status = "failed"   -> "failed"

LedgerView == [id \in Ids |-> Outcome(saved[id].status)]

Ledger == INSTANCE BuildLedger WITH ledger <- LedgerView

ImplementsLedger == Ledger!Spec

(* What keeps the service from starting: a saved job whose artifact was     *)
(* torn when the process was killed in an rmtree, the cleaner's or the      *)
(* worker's own, makes _load_jobs raise every time.                         *)
Barred == ~up /\ \E id \in SavedIds : Existing(saved[id].key) = "raises"

(* A build in flight ends, ready or failed, however often the process is    *)
(* killed and started again, unless a restart is barred for good: "Restore  *)
(* jobs and resume interrupted builds after an allocator restart"           *)
(* (ab_builds.py:64) does not hold then.                                    *)
BuildsEnd ==
  \A id \in Ids : saved[id].status \in InFlight
                  ~> saved[id].status \in {"ready", "failed"} \/ Barred
=============================================================================
