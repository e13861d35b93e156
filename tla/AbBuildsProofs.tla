--------------------------- MODULE AbBuildsProofs ---------------------------
(***************************************************************************)
(* Proofs about the A/B build service, for any set of revisions, any       *)
(* number of jobs and restarts, with or without the cleaner.               *)
(***************************************************************************)
EXTENDS AbBuilds, FiniteSetTheorems, SequenceTheorems, TLAPS

USE KeysAssumption, IdsAssumption, FlagsAssumption, CrashAssumption

LEMMA LookUpTypes ==
  ASSUME TypeOK, NEW looked, LookUp(looked)
  PROVE  /\ store' \in [Keys -> Artifact]
         /\ marker' \in [Keys -> Age]
         /\ mtime' \in [Keys -> {"stale", "fresh"}]
BY DEF TypeOK, LookUp, Artifact, Age

LEMMA PersistTypes ==
  ASSUME TypeOK, jobs' \in [Ids -> Job], Persist
  PROVE  saved' \in [Ids -> Job]
BY DEF TypeOK, Persist

LEMMA MarkUsedTypes ==
  ASSUME TypeOK, NEW k, MarkUsed(k)
  PROVE  marker' \in [Keys -> Age]
BY DEF TypeOK, MarkUsed, Age

LEMMA SetStatusTypes ==
  ASSUME TypeOK, NEW id, NEW s \in Status, SetStatus(id, s)
  PROVE  jobs' \in [Ids -> Job] /\ saved' \in [Ids -> Job]
<1>1. jobs' = [i \in Ids |-> IF i = id THEN [jobs[i] EXCEPT !.status = s] ELSE jobs[i]]
  BY DEF SetStatus, TypeOK
<1>2. \A i \in Ids : [jobs[i] EXCEPT !.status = s] \in Job
  BY DEF TypeOK, Job
<1>3. jobs' \in [Ids -> Job]
  BY <1>1, <1>2 DEF TypeOK
<1> QED
  BY <1>3, PersistTypes DEF SetStatus

LEMMA RestsTypes ==
  ASSUME TypeOK, NEW k, NEW rest \in Rests(k), store' = [store EXCEPT ![k] = rest]
  PROVE  store' \in [Keys -> Artifact]
<1>1. store' = [j \in Keys |-> IF j = k THEN rest ELSE store[j]]
  BY DEF TypeOK
<1>2. k \in Keys => rest \in Artifact
  BY DEF TypeOK, Rests, Artifact
<1>3. \A j \in Keys : store[j] \in Artifact
  BY DEF TypeOK
<1>4. \A j \in Keys : (IF j = k THEN rest ELSE store[j]) \in Artifact
  BY <1>2, <1>3
<1> QED
  BY <1>1, <1>4

LEMMA RestoredTypes ==
  ASSUME TypeOK, NEW id \in Ids
  PROVE  Restored(saved[id]) \in Job
<1>1. saved[id] \in Job
  BY DEF TypeOK
<1>2. NoJob \in Job
  BY DEF NoJob, Job, Status
<1>3. \A s \in {"ready", "queued"} : [saved[id] EXCEPT !.status = s] \in Job
  BY <1>1 DEF Job, Status, InFlight
<1> QED
  BY <1>1, <1>2, <1>3 DEF Restored

(* What a restart puts back on the queue is a sequence of job ids.          *)
LEMMA ResumedOrder ==
  ASSUME NEW order \in [1..Cardinality(Resumed) -> Resumed]
  PROVE  order \in Seq(Ids) /\ DOMAIN order = 1..Len(order)
<1>1. Resumed \subseteq Ids
  BY DEF Resumed, SavedIds
<1>2. IsFiniteSet(Ids)
  BY FS_Interval DEF Ids
<1>3. Cardinality(Resumed) \in Nat
  BY <1>1, <1>2, FS_Subset, FS_CardinalityType
<1>4. order \in [1..Cardinality(Resumed) -> Ids]
  BY <1>1
<1> QED
  BY <1>3, <1>4, IsASeq, LenProperties

LEMMA InitTypes == Init => TypeOK
<1> SUFFICES ASSUME Init PROVE TypeOK
  OBVIOUS
<1>1. NoJob \in Job
  BY DEF NoJob, Job, Status
<1>2. queue \in Seq(Ids)
  BY DEF Init
<1> QED
  BY <1>1, <1>2 DEF Init, TypeOK, Artifact, Age

LEMMA NextTypes == TypeOK /\ [Next]_vars => TypeOK'
<1>1. TypeOK /\ [Next]_vars => TypeOK'
  <2> SUFFICES ASSUME TypeOK, [Next]_vars PROVE TypeOK'
    OBVIOUS
  <2>1. ASSUME NEW k \in Keys, SubmitKnown(k) PROVE TypeOK'
    <3>1. marker' \in [Keys -> Age]
      BY <2>1, MarkUsedTypes DEF SubmitKnown, TypeOK
    <3> QED
      BY <2>1, <3>1 DEF SubmitKnown, TypeOK, memory
  <2>2. ASSUME NEW k \in Keys, SubmitRaises(k) PROVE TypeOK'
    <3>1. jobs' \in [Ids -> Job] /\ saved' \in [Ids -> Job]
      BY <2>2, PersistTypes DEF SubmitRaises, TypeOK
    <3> QED
      BY <2>2, <3>1, LookUpTypes DEF SubmitRaises, TypeOK
  <2>3. ASSUME NEW k \in Keys, NEW id \in Ids, SubmitNew(k, id) PROVE TypeOK'
    <3>1. jobs' \in [Ids -> Job]
      BY <2>3 DEF SubmitNew, TypeOK, Job, Status, InFlight
    <3>2. saved' \in [Ids -> Job]
      BY <2>3, <3>1, PersistTypes DEF SubmitNew, TypeOK
    <3>3. queue' \in Seq(Ids)
      BY <2>3, AppendProperties DEF SubmitNew, TypeOK
    <3> QED
      BY <2>3, <3>1, <3>2, <3>3, LookUpTypes DEF SubmitNew, TypeOK
  <2>4. ASSUME NEW id \in Ids, Fetch(id) PROVE TypeOK'
    BY <2>4, MarkUsedTypes DEF Fetch, TypeOK, memory
  <2>5. CASE Worker
    <3>2. CASE WorkerTakes
      <4>1. Head(queue) \in Ids /\ Tail(queue) \in Seq(Ids)
        BY <3>2, HeadTailProperties DEF WorkerTakes, TypeOK
      <4>2. jobs' \in [Ids -> Job] /\ saved' \in [Ids -> Job]
        BY <3>2, SetStatusTypes DEF WorkerTakes, Status, InFlight
      <4> QED
        BY <3>2, <4>1, <4>2 DEF WorkerTakes, TypeOK, disk
    <3>3. CASE WorkerMarks
      BY <3>3, MarkUsedTypes DEF WorkerMarks, Goto, TypeOK, memory
    <3>4. CASE WorkerBuilds
      <4>1. jobs' \in [Ids -> Job] /\ saved' \in [Ids -> Job]
        BY <3>4, SetStatusTypes DEF WorkerBuilds, Status, InFlight
      <4> QED
        BY <3>4, <4>1 DEF WorkerBuilds, Goto, TypeOK, disk
    <3>5. CASE WorkerClears
      <4>1. store' \in [Keys -> Artifact]
        BY <3>5, RestsTypes DEF WorkerClears, TypeOK
      <4>2. worker' = [worker EXCEPT !.pc = "cleared"] \/ worker' = [worker EXCEPT !.pc = "clearing"]
        BY <3>5 DEF WorkerClears, Goto
      <4> QED
        BY <3>5, <4>1, <4>2 DEF WorkerClears, TypeOK, memory
    <3>6. CASE WorkerCleared
      BY <3>6 DEF WorkerCleared, Goto, TypeOK, memory, Artifact
    <3>7. CASE WorkerRenames
      BY <3>7 DEF WorkerRenames, Goto, TypeOK, memory, Artifact
    <3>8. CASE WorkerConfirms
      BY <3>8, MarkUsedTypes DEF WorkerConfirms, Goto, TypeOK, memory
    <3>9. CASE WorkerFinishes
      <4>1. jobs' \in [Ids -> Job] /\ saved' \in [Ids -> Job]
        BY <3>9, SetStatusTypes DEF WorkerFinishes, Status
      <4> QED
        BY <3>9, <4>1 DEF WorkerFinishes, TypeOK, disk
    <3>10. CASE WorkerFails
      <4>1. jobs' \in [Ids -> Job] /\ saved' \in [Ids -> Job]
        BY <3>10, SetStatusTypes DEF WorkerFails, Status
      <4> QED
        BY <3>10, <4>1 DEF WorkerFails, TypeOK, disk
    <3> QED
      BY <2>5, <3>2, <3>3, <3>4, <3>5, <3>6, <3>7, <3>8, <3>9, <3>10 DEF Worker
  <2>6. CASE Cleaner
    <3>1. CASE CleanerStarts
      <4>1. {jobs[id].key : id \in {i \in Ids : jobs[i].status \in InFlight}}
              \subseteq Keys \cup {NoKey}
        BY DEF TypeOK, Job
      <4> QED
        BY <3>1, <4>1 DEF CleanerStarts, TypeOK, memory, disk
    <3>2. ASSUME NEW k \in Keys, CleanerVisits(k) PROVE TypeOK'
      BY <3>2 DEF CleanerVisits, TypeOK, memory, disk
    <3>3. CASE CleanerTears
      <4>1. store' \in [Keys -> Artifact]
        BY <3>3, RestsTypes DEF CleanerTears
      <4> QED
        BY <3>3, <4>1 DEF CleanerTears, TypeOK, memory
    <3>4. CASE CleanerRemoves
      BY <3>4 DEF CleanerRemoves, TypeOK, memory, Artifact
    <3>5. CASE CleanerUnlinks
      BY <3>5 DEF CleanerUnlinks, TypeOK, memory, Age
    <3>6. CASE CleanerEnds
      BY <3>6 DEF CleanerEnds, TypeOK, memory, disk
    <3> QED
      BY <2>6, <3>1, <3>2, <3>3, <3>4, <3>5, <3>6 DEF Cleaner
  <2>7. CASE Ages
    BY <2>7 DEF Ages, TypeOK, memory, Age
  <2>8. CASE Crash
    <3>1. NoJob \in Job
      BY DEF NoJob, Job, Status
    <3>2. crashes' \in Nat
      BY <2>8 DEF Crash, TypeOK
    <3>3. queue' \in Seq(Ids)
      BY <2>8 DEF Crash
    <3> QED
      BY <2>8, <3>1, <3>2, <3>3 DEF Crash, TypeOK, disk
  <2>9. CASE Boot
    <3>1. jobs' \in [Ids -> Job]
      BY <2>9, RestoredTypes DEF Boot
    <3>2. saved' \in [Ids -> Job]
      BY <2>9, <3>1, PersistTypes DEF Boot, TypeOK
    <3>3. queue' \in Seq(Ids)
      BY <2>9, ResumedOrder DEF Boot
    <3>4. /\ store' \in [Keys -> Artifact]
          /\ marker' \in [Keys -> Age]
          /\ mtime' \in [Keys -> {"stale", "fresh"}]
      BY <2>9, LookUpTypes DEF Boot
    <3> QED
      BY <2>9, <3>1, <3>2, <3>3, <3>4 DEF Boot, TypeOK
  <2>10. ASSUME NEW bad \in Ids, BootFails(bad) PROVE TypeOK'
    BY <2>10, LookUpTypes DEF BootFails, TypeOK, memory
  <2>11. CASE UNCHANGED vars
    BY <2>11 DEF vars, TypeOK
  <2> QED
    BY <2>1, <2>2, <2>3, <2>4, <2>5, <2>6, <2>7, <2>8, <2>9, <2>10, <2>11
       DEF Next, Requests, Environment
<1> QED
  BY <1>1

(* The types of the state are an invariant of the specification.            *)
THEOREM TypeCorrect == Spec => []TypeOK
BY InitTypes, NextTypes, PTL DEF Spec
-----------------------------------------------------------------------------
(***************************************************************************)
(* No build is lost.  NoBuildLost speaks of a running service only; it is  *)
(* inductive together with the types and with what a kill leaves behind.   *)
(***************************************************************************)
DownIsEmpty ==
  ~up => /\ worker.pc = "idle"
         /\ queue = <<>>
         /\ jobs = [id \in Ids |-> NoJob]

WorkerHoldsJob == worker.pc # "idle" => worker.id \in Ids

BuildInv == TypeOK /\ DownIsEmpty /\ WorkerHoldsJob /\ NoBuildLost

(* The queue and the worker hold the same jobs when none of them changes.   *)
LEMMA SameJobs ==
  ASSUME BuildInv, up' = up, UNCHANGED <<jobs, queue>>,
         worker'.id = worker.id, worker'.pc = "idle" <=> worker.pc = "idle",
         ~up => worker'.pc = "idle"
  PROVE  DownIsEmpty' /\ WorkerHoldsJob' /\ NoBuildLost'
BY DEF BuildInv, DownIsEmpty, WorkerHoldsJob, NoBuildLost, InQueue

LEMMA SetStatusJobs ==
  ASSUME TypeOK, NEW id \in Ids, NEW s, SetStatus(id, s)
  PROVE  \A i \in Ids : jobs'[i].status = IF i = id THEN s ELSE jobs[i].status
BY DEF TypeOK, SetStatus, Job

LEMMA TakeKeeps ==
  ASSUME BuildInv, WorkerTakes
  PROVE  NoBuildLost'
<1>1. /\ queue \in Seq(Ids) /\ queue # <<>> /\ up /\ worker.pc = "idle"
      /\ Head(queue) \in Ids /\ Head(queue) = queue[1]
      /\ Len(queue) \in Nat /\ Len(queue) > 0 /\ DOMAIN queue = 1..Len(queue)
      /\ Len(Tail(queue)) = Len(queue) - 1 /\ DOMAIN Tail(queue) = 1..(Len(queue) - 1)
      /\ \A i \in 1..(Len(queue) - 1) : Tail(queue)[i] = queue[i + 1]
  BY HeadTailProperties DEF BuildInv, TypeOK, WorkerTakes, At
<1>2. up' /\ queue' = Tail(queue) /\ worker'.id = Head(queue) /\ worker'.pc # "idle"
  BY <1>1 DEF WorkerTakes
<1>3. \A i \in Ids : jobs'[i].status = IF i = Head(queue) THEN "building" ELSE jobs[i].status
  BY <1>1, SetStatusJobs DEF BuildInv, WorkerTakes
<1>4. \A i, j \in 1..Len(queue) : queue[i] = queue[j] => i = j
  BY <1>1 DEF BuildInv, NoBuildLost
<1>5. \A i, j \in DOMAIN queue' : queue'[i] = queue'[j] => i = j
  BY <1>1, <1>2, <1>4
<1>6. ASSUME NEW id \in Ids PROVE InQueue(id)' <=> InQueue(id) /\ id # Head(queue)
  <2>1. InQueue(id)' <=> \E i \in 1..(Len(queue) - 1) : queue[i + 1] = id
    BY <1>1, <1>2 DEF InQueue
  <2>2. InQueue(id) <=> \E i \in 1..Len(queue) : queue[i] = id
    BY <1>1 DEF InQueue
  <2>3. (\E i \in 1..(Len(queue) - 1) : queue[i + 1] = id) => InQueue(id) /\ id # Head(queue)
    BY <1>1, <1>4, <2>2
  <2>4. ASSUME NEW i \in 1..Len(queue), queue[i] = id, id # Head(queue)
        PROVE  \E j \in 1..(Len(queue) - 1) : queue[j + 1] = id
    <3>1. i # 1 /\ i - 1 \in 1..(Len(queue) - 1) /\ (i - 1) + 1 = i
      BY <1>1, <2>4
    <3> QED
      BY <2>4, <3>1
  <2> QED
    BY <2>1, <2>2, <2>3, <2>4
<1>7. \A id \in Ids : /\ jobs[id].status = "queued" <=> InQueue(id)
                      /\ jobs[id].status \notin {"building", "validating"}
  BY <1>1 DEF BuildInv, NoBuildLost
<1>8. \A id \in Ids : jobs'[id].status = "queued" <=> InQueue(id)'
  BY <1>3, <1>6, <1>7
<1>9. \A id \in Ids : jobs'[id].status \in {"building", "validating"}
                        <=> worker'.pc # "idle" /\ worker'.id = id
  BY <1>2, <1>3, <1>7
<1> QED
  BY <1>5, <1>8, <1>9 DEF NoBuildLost

LEMMA SubmitKeeps ==
  ASSUME BuildInv, NEW k \in Keys, NEW id \in Ids, SubmitNew(k, id)
  PROVE  NoBuildLost'
<1>1. /\ up /\ up' /\ worker' = worker /\ queue \in Seq(Ids)
      /\ DOMAIN queue = 1..Len(queue) /\ Len(queue) \in Nat
  BY LenProperties DEF BuildInv, TypeOK, SubmitNew, NeedsJob
<1>2. jobs[id].status = "none" /\ ~InQueue(id) /\ ~(worker.pc # "idle" /\ worker.id = id)
  BY <1>1 DEF SubmitNew, NoJob, BuildInv, NoBuildLost
<1>3. \A i \in Ids : jobs'[i].status =
         IF i = id THEN IF Existing(k) = "ready" THEN "ready" ELSE "queued"
         ELSE jobs[i].status
  BY DEF SubmitNew, BuildInv, TypeOK, Job
<1>4. CASE Existing(k) = "ready"
  <2>1. queue' = queue
    BY <1>4 DEF SubmitNew
  <2>2. \A i \in Ids : InQueue(i)' <=> InQueue(i)
    BY <2>1 DEF InQueue
  <2> QED
    BY <1>1, <1>2, <1>3, <1>4, <2>1, <2>2 DEF BuildInv, NoBuildLost
<1>5. CASE Existing(k) # "ready"
  <2>1. queue' = Append(queue, id)
    BY <1>5 DEF SubmitNew
  <2>2. /\ Len(queue') = Len(queue) + 1 /\ DOMAIN queue' = 1..(Len(queue) + 1)
        /\ queue'[Len(queue) + 1] = id
        /\ \A i \in 1..Len(queue) : queue'[i] = queue[i]
    BY <1>1, <2>1, AppendProperties, LenProperties
  <2>3. \A i \in 1..Len(queue) : queue[i] # id
    BY <1>1, <1>2 DEF InQueue
  <2>4. \A i, j \in 1..Len(queue) : queue[i] = queue[j] => i = j
    BY <1>1 DEF BuildInv, NoBuildLost
  <2>5. \A i, j \in DOMAIN queue' : queue'[i] = queue'[j] => i = j
    BY <1>1, <2>2, <2>3, <2>4
  <2>6. \A i \in Ids : InQueue(i)' <=> InQueue(i) \/ i = id
    <3>1. ASSUME NEW i \in Ids PROVE InQueue(i)' <=> InQueue(i) \/ i = id
      <4>1. InQueue(i) <=> \E n \in 1..Len(queue) : queue[n] = i
        BY <1>1 DEF InQueue
      <4>2. InQueue(i)' <=> \E n \in 1..(Len(queue) + 1) : queue'[n] = i
        BY <2>2 DEF InQueue
      <4>3. 1..(Len(queue) + 1) = 1..Len(queue) \cup {Len(queue) + 1}
        BY <1>1
      <4> QED
        BY <2>2, <4>1, <4>2, <4>3
    <3> QED
      BY <3>1
  <2> QED
    BY <1>1, <1>2, <1>3, <1>5, <2>5, <2>6 DEF BuildInv, NoBuildLost
<1> QED
  BY <1>4, <1>5

LEMMA BootKeeps ==
  ASSUME BuildInv, Boot
  PROVE  NoBuildLost'
<1>1. worker'.pc = "idle"
  BY DEF Boot, BuildInv, DownIsEmpty
<1>2. PICK order \in [1..Cardinality(Resumed) -> Resumed] :
        /\ \A i, j \in DOMAIN order : i < j => order[i] < order[j]
        /\ \A id \in Resumed : \E i \in DOMAIN order : order[i] = id
        /\ queue' = order
  BY DEF Boot
<1>3. \A id \in Ids : InQueue(id)' <=> id \in Resumed
  BY <1>2 DEF InQueue
<1>4. \A i, j \in DOMAIN queue' : queue'[i] = queue'[j] => i = j
  <2>1. DOMAIN order \subseteq Nat /\ Resumed \subseteq Nat
    <3>1. DOMAIN order = 1..Len(order)
      BY ResumedOrder
    <3>2. Len(order) \in Nat
      BY ResumedOrder, LenProperties
    <3> QED
      BY <3>1, <3>2 DEF Resumed, SavedIds, Ids
  <2>2. \A i \in DOMAIN order : order[i] \in Nat
    BY <2>1
  <2>3. ASSUME NEW i \in DOMAIN order, NEW j \in DOMAIN order, order[i] = order[j]
        PROVE  i = j
    <3>1. i \in Nat /\ j \in Nat /\ order[i] \in Nat /\ order[j] \in Nat
      BY <2>1, <2>2
    <3>2. ~(i < j) /\ ~(j < i)
      BY <1>2, <2>3, <3>1
    <3> QED
      BY <3>1, <3>2
  <2> QED
    BY <1>2, <2>3
<1>5. ASSUME NEW id \in Ids
      PROVE  /\ jobs'[id].status = "queued" <=> id \in Resumed
             /\ jobs'[id].status \notin {"building", "validating"}
  <2>1. jobs'[id] = Restored(saved[id]) /\ saved[id] \in Job
    BY DEF Boot, BuildInv, TypeOK
  <2>2. CASE saved[id].status = "none"
    BY <2>1, <2>2 DEF Restored, NoJob, Resumed, SavedIds
  <2>3. CASE saved[id].status # "none" /\ Existing(saved[id].key) = "ready"
    <3>1. jobs'[id] = [saved[id] EXCEPT !.status = "ready"]
      BY <2>1, <2>3 DEF Restored
    <3> QED
      BY <2>1, <2>3, <3>1 DEF Resumed, Job
  <2>4. CASE saved[id].status # "none" /\ Existing(saved[id].key) # "ready"
    <3>1. Existing(saved[id].key) = "none"
      <4>1. Existing(saved[id].key) # "raises"
        BY <2>4 DEF Boot, SavedIds
      <4> QED
        BY <2>4, <4>1 DEF Existing
    <3>2. CASE saved[id].status \in InFlight
      <4>1. jobs'[id] = [saved[id] EXCEPT !.status = "queued"]
        BY <2>1, <2>4, <3>2 DEF Restored
      <4> QED
        BY <2>1, <3>1, <3>2, <2>4, <4>1 DEF Resumed, SavedIds, Job
    <3>3. CASE saved[id].status \notin InFlight
      <4>1. jobs'[id] = saved[id]
        BY <2>1, <2>4, <3>3 DEF Restored
      <4> QED
        BY <2>1, <3>3, <4>1 DEF Resumed, InFlight
    <3> QED
      BY <3>2, <3>3
  <2> QED
    BY <2>2, <2>3, <2>4
<1> QED
  BY <1>1, <1>3, <1>4, <1>5 DEF NoBuildLost

LEMMA InitBuilds == Init => BuildInv
<1>1. Init => TypeOK
  BY InitTypes
<1>2. Init => DownIsEmpty /\ WorkerHoldsJob /\ NoBuildLost
  BY DEF Init, DownIsEmpty, WorkerHoldsJob, NoBuildLost, InQueue, NoJob
<1> QED
  BY <1>1, <1>2 DEF BuildInv

LEMMA NextKeepsBuilds == BuildInv /\ [Next]_vars => BuildInv'
<1>1. BuildInv /\ [Next]_vars => BuildInv'
  <2> SUFFICES ASSUME BuildInv, [Next]_vars PROVE DownIsEmpty' /\ WorkerHoldsJob' /\ NoBuildLost'
    BY NextTypes DEF BuildInv
  <2> USE DEF memory, disk
  <2>1. ASSUME NEW k \in Keys, SubmitKnown(k) PROVE DownIsEmpty' /\ WorkerHoldsJob' /\ NoBuildLost'
    BY <2>1, SameJobs DEF SubmitKnown
  <2>2. ASSUME NEW k \in Keys, SubmitRaises(k) PROVE DownIsEmpty' /\ WorkerHoldsJob' /\ NoBuildLost'
    BY <2>2, SameJobs DEF SubmitRaises, NeedsJob
  <2>3. ASSUME NEW k \in Keys, NEW id \in Ids, SubmitNew(k, id)
        PROVE  DownIsEmpty' /\ WorkerHoldsJob' /\ NoBuildLost'
    BY <2>3, SubmitKeeps DEF SubmitNew, NeedsJob, DownIsEmpty, BuildInv, WorkerHoldsJob
  <2>4. ASSUME NEW id \in Ids, Fetch(id) PROVE DownIsEmpty' /\ WorkerHoldsJob' /\ NoBuildLost'
    BY <2>4, SameJobs DEF Fetch
  <2>5. CASE Worker
    <3>1. CASE WorkerTakes
      <4>1. Head(queue) \in Ids
        BY <3>1, HeadTailProperties DEF WorkerTakes, BuildInv, TypeOK
      <4> QED
        BY <3>1, <4>1, TakeKeeps DEF WorkerTakes, At, DownIsEmpty, WorkerHoldsJob
    <3>2. CASE WorkerMarks \/ WorkerClears \/ WorkerCleared \/ WorkerRenames \/ WorkerConfirms
      <4>1. /\ up /\ up' = up /\ UNCHANGED <<jobs, queue>> /\ worker.pc # "idle"
            /\ worker'.id = worker.id /\ worker'.pc # "idle"
        BY <3>2 DEF WorkerMarks, WorkerClears, WorkerCleared, WorkerRenames, WorkerConfirms,
                    At, Goto, BuildInv, TypeOK
      <4> QED
        BY <4>1, SameJobs
    <3>3. CASE WorkerBuilds \/ WorkerFinishes \/ WorkerFails
      <4>1. up /\ up' = up /\ queue' = queue /\ worker.pc # "idle"
        BY <3>3 DEF WorkerBuilds, WorkerFinishes, WorkerFails, At
      <4>2. worker.id \in Ids
        BY <4>1 DEF BuildInv, WorkerHoldsJob
      <4>3. \A i \in Ids : InQueue(i)' <=> InQueue(i)
        BY <4>1 DEF InQueue
      <4>4. DownIsEmpty'
        BY <4>1 DEF DownIsEmpty
      <4>5. \A i \in Ids : /\ jobs[i].status = "queued" <=> InQueue(i)
                           /\ jobs[i].status \in {"building", "validating"} <=> i = worker.id
        BY <4>1 DEF BuildInv, NoBuildLost
      <4>6. \A i, j \in DOMAIN queue' : queue'[i] = queue'[j] => i = j
        BY <4>1 DEF BuildInv, NoBuildLost
      <4>7. CASE WorkerBuilds
        <5>1. worker'.pc = "built" /\ worker'.id = worker.id
          BY <4>7 DEF WorkerBuilds, Goto, BuildInv, TypeOK
        <5>2. \A i \in Ids : jobs'[i].status = IF i = worker.id THEN "validating" ELSE jobs[i].status
          BY <4>2, <4>7, SetStatusJobs DEF WorkerBuilds, BuildInv
        <5> QED
          BY <4>1, <4>2, <4>3, <4>4, <4>5, <4>6, <5>1, <5>2 DEF WorkerHoldsJob, NoBuildLost
      <4>8. CASE WorkerFinishes \/ WorkerFails
        <5>1. worker'.pc = "idle"
          BY <4>8 DEF WorkerFinishes, WorkerFails
        <5>2. PICK s \in {"ready", "failed"} : SetStatus(worker.id, s)
          BY <4>8 DEF WorkerFinishes, WorkerFails
        <5>3. \A i \in Ids : jobs'[i].status = IF i = worker.id THEN s ELSE jobs[i].status
          BY <4>2, <5>2, SetStatusJobs DEF BuildInv
        <5> QED
          BY <4>1, <4>2, <4>3, <4>4, <4>5, <4>6, <5>1, <5>3 DEF WorkerHoldsJob, NoBuildLost
      <4> QED
        BY <3>3, <4>7, <4>8
    <3> QED
      BY <2>5, <3>1, <3>2, <3>3 DEF Worker
  <2>6. CASE Cleaner
    BY <2>6, SameJobs DEF Cleaner, CleanerStarts, CleanerVisits, CleanerTears, CleanerRemoves,
                          CleanerUnlinks, CleanerEnds
  <2>7. CASE Ages
    BY <2>7, SameJobs DEF Ages, BuildInv, DownIsEmpty
  <2>8. CASE Crash
    BY <2>8 DEF Crash, DownIsEmpty, WorkerHoldsJob, NoBuildLost
  <2>9. CASE Boot
    BY <2>9, BootKeeps DEF Boot, DownIsEmpty, WorkerHoldsJob, BuildInv
  <2>10. ASSUME NEW bad \in Ids, BootFails(bad) PROVE DownIsEmpty' /\ WorkerHoldsJob' /\ NoBuildLost'
    BY <2>10, SameJobs DEF BootFails, BuildInv, DownIsEmpty
  <2>11. CASE UNCHANGED vars
    BY <2>11, SameJobs DEF vars, BuildInv, DownIsEmpty
  <2> QED
    BY <2>1, <2>2, <2>3, <2>4, <2>5, <2>6, <2>7, <2>8, <2>9, <2>10, <2>11
       DEF Next, Requests, Environment
<1> QED
  BY <1>1

(* No build is lost or started twice, whatever the requests, the worker,    *)
(* the cleaner and any number of restarts do.                               *)
THEOREM BuildsKept == Spec => []NoBuildLost
<1>1. BuildInv => NoBuildLost
  BY DEF BuildInv
<1> QED
  BY <1>1, InitBuilds, NextKeepsBuilds, PTL DEF Spec
-----------------------------------------------------------------------------
(***************************************************************************)
(* When every save succeeds the state file equals the dict in memory while *)
(* the service runs.  The ids handed out are then in the file, and the     *)
(* file implements the ledger of outcomes.                                 *)
(***************************************************************************)
FileInv ==
  /\ BuildInv
  /\ up => saved = jobs
  /\ \A k \in Keys : byKey[k] # NoId => jobs[byKey[k]].status # "none"
  /\ \A id \in answered : saved[id].status # "none"

LEMMA InitFile == Init => FileInv
BY InitBuilds DEF FileInv, Init, NoJob

(* A change of one job's status, saved, is a step of the ledger.            *)
LEMMA StatusSaved ==
  ASSUME FileInv, SaveFails = FALSE, up, NEW id \in Ids, NEW s \in Status \ {"none"},
         SetStatus(id, s), UNCHANGED <<up, byKey, answered>>
  PROVE  /\ up' => saved' = jobs'
         /\ \A k \in Keys : byKey'[k] # NoId => jobs'[byKey'[k]].status # "none"
         /\ \A i \in answered' : saved'[i].status # "none"
         /\ LedgerView' = [LedgerView EXCEPT ![id] = Outcome(s)]
<1>1. saved' = jobs' /\ saved = jobs
  BY DEF SetStatus, Persist, FileInv
<1>2. \A i \in Ids : jobs'[i].status = IF i = id THEN s ELSE jobs[i].status
  BY SetStatusJobs DEF FileInv, BuildInv
<1>3. byKey \in [Keys -> Ids \cup {NoId}] /\ answered \subseteq Ids
  BY DEF FileInv, BuildInv, TypeOK
<1>4. LedgerView' = [LedgerView EXCEPT ![id] = Outcome(s)]
  BY <1>1, <1>2 DEF LedgerView
<1> QED
  BY <1>1, <1>2, <1>3, <1>4 DEF FileInv

LEMMA FileStep ==
  ASSUME FileInv, SaveFails = FALSE, [Next]_vars
  PROVE  FileInv' /\ [Ledger!Next]_LedgerView
<1>1. BuildInv'
  BY NextKeepsBuilds DEF FileInv
<1>2. /\ byKey \in [Keys -> Ids \cup {NoId}] /\ answered \subseteq Ids
      /\ jobs \in [Ids -> Job] /\ saved \in [Ids -> Job]
  BY DEF FileInv, BuildInv, TypeOK
<1> USE DEF memory, disk
<1> DEFINE Rest == /\ up' => saved' = jobs'
                   /\ \A k \in Keys : byKey'[k] # NoId => jobs'[byKey'[k]].status # "none"
                   /\ \A id \in answered' : saved'[id].status # "none"
<1> SUFFICES Rest /\ [Ledger!Next]_LedgerView
  BY <1>1 DEF FileInv
<1>3. ASSUME UNCHANGED <<up, jobs, byKey, saved, answered>>
      PROVE  Rest /\ UNCHANGED LedgerView
  BY <1>3 DEF FileInv, LedgerView
<1>4. ASSUME NEW k \in Keys, SubmitKnown(k) PROVE Rest /\ UNCHANGED LedgerView
  <2>1. byKey[k] \in Ids /\ jobs[byKey[k]].status # "none" /\ saved = jobs
    BY <1>2, <1>4 DEF SubmitKnown, FileInv
  <2> QED
    BY <1>4, <2>1 DEF SubmitKnown, FileInv, LedgerView
<1>5. ASSUME NEW k \in Keys, SubmitRaises(k) PROVE Rest /\ UNCHANGED LedgerView
  <2>1. up' /\ jobs' = jobs /\ saved' = jobs /\ saved = jobs
    BY <1>5 DEF SubmitRaises, NeedsJob, Persist, FileInv
  <2>2. \A j \in Keys : byKey'[j] = IF j = k THEN NoId ELSE byKey[j]
    BY <1>2, <1>5 DEF SubmitRaises
  <2> QED
    BY <1>5, <2>1, <2>2 DEF SubmitRaises, FileInv, LedgerView
<1>6. ASSUME NEW k \in Keys, NEW id \in Ids, SubmitNew(k, id) PROVE Rest /\ Ledger!Next
  <2> DEFINE s == IF Existing(k) = "ready" THEN "ready" ELSE "queued"
  <2>1. /\ up' /\ saved' = jobs' /\ saved = jobs /\ jobs[id].status = "none"
        /\ answered' = answered \cup {id}
    BY <1>6 DEF SubmitNew, NeedsJob, Persist, FileInv, NoJob
  <2>2. \A i \in Ids : jobs'[i].status = IF i = id THEN s ELSE jobs[i].status
    BY <1>2, <1>6 DEF SubmitNew
  <2>3. \A j \in Keys : byKey'[j] = IF j = k THEN id ELSE byKey[j]
    BY <1>2, <1>6 DEF SubmitNew
  <2>4. LedgerView' = [LedgerView EXCEPT ![id] = Outcome(s)]
    BY <2>1, <2>2 DEF LedgerView
  <2>5. LedgerView[id] = "unknown"
    BY <2>1 DEF LedgerView, Outcome, InFlight
  <2>6. Outcome(s) \in {"pending", "ready"}
    BY DEF Outcome, InFlight
  <2>7. Ledger!Next
    BY <2>4, <2>5, <2>6 DEF Ledger!Next, Ledger!Record
  <2>8. Rest
    BY <1>2, <2>1, <2>2, <2>3 DEF FileInv
  <2> QED
    BY <2>7, <2>8
<1>7. ASSUME NEW id \in Ids, Fetch(id) PROVE Rest /\ UNCHANGED LedgerView
  BY <1>3, <1>7 DEF Fetch
<1>8. CASE Worker
  <2>1. CASE WorkerMarks \/ WorkerClears \/ WorkerCleared \/ WorkerRenames \/ WorkerConfirms
    BY <1>3, <2>1 DEF WorkerMarks, WorkerClears, WorkerCleared, WorkerRenames, WorkerConfirms
  <2>2. \A i \in Ids : jobs[i].status \in InFlight => LedgerView[i] = "pending" \/ ~up
    BY DEF FileInv, LedgerView, Outcome, InFlight
  <2>3. CASE WorkerTakes
    <3>1. up /\ Head(queue) \in Ids /\ InQueue(Head(queue))
      BY <2>3, HeadTailProperties, LenProperties DEF WorkerTakes, At, FileInv, BuildInv, TypeOK, InQueue
    <3>2. LedgerView[Head(queue)] = "pending"
      BY <2>2, <3>1 DEF FileInv, BuildInv, NoBuildLost, InFlight
    <3>3. Rest /\ LedgerView' = [LedgerView EXCEPT ![Head(queue)] = Outcome("building")]
      BY <2>3, <3>1, StatusSaved DEF WorkerTakes, Status, InFlight
    <3>4. LedgerView' = LedgerView
      BY <3>1, <3>2, <3>3 DEF Outcome, InFlight, LedgerView
    <3> QED
      BY <3>3, <3>4
  <2>4. CASE WorkerBuilds \/ WorkerFinishes \/ WorkerFails
    <3>1. up /\ worker.id \in Ids /\ LedgerView[worker.id] = "pending"
      BY <2>2, <2>4 DEF WorkerBuilds, WorkerFinishes, WorkerFails, At, FileInv, BuildInv,
                        WorkerHoldsJob, NoBuildLost, InFlight
    <3>2. CASE WorkerBuilds
      <4>1. Rest /\ LedgerView' = [LedgerView EXCEPT ![worker.id] = Outcome("validating")]
        BY <3>1, <3>2, StatusSaved DEF WorkerBuilds, Status, InFlight
      <4>2. LedgerView' = LedgerView
        BY <3>1, <4>1 DEF Outcome, InFlight, LedgerView
      <4> QED
        BY <4>1, <4>2
    <3>3. CASE WorkerFinishes \/ WorkerFails
      <4>1. PICK s \in {"ready", "failed"} :
              SetStatus(worker.id, s) /\ UNCHANGED <<up, byKey, answered>>
        BY <3>3 DEF WorkerFinishes, WorkerFails
      <4>2. Rest /\ LedgerView' = [LedgerView EXCEPT ![worker.id] = Outcome(s)]
        BY <3>1, <4>1, StatusSaved DEF Status
      <4>3. Outcome(s) = s
        BY <4>1 DEF Outcome, InFlight
      <4>4. Ledger!Next
        BY <3>1, <4>1, <4>2, <4>3 DEF Ledger!Next, Ledger!Settle
      <4> QED
        BY <4>2, <4>4
    <3> QED
      BY <2>4, <3>2, <3>3
  <2> QED
    BY <1>8, <2>1, <2>3, <2>4 DEF Worker
<1>9. CASE Cleaner
  BY <1>3, <1>9 DEF Cleaner, CleanerStarts, CleanerVisits, CleanerTears, CleanerRemoves,
                    CleanerUnlinks, CleanerEnds
<1>10. CASE Ages
  BY <1>3, <1>10 DEF Ages
<1>11. CASE Crash
  BY <1>2, <1>11 DEF Crash, FileInv, LedgerView
<1>12. CASE Boot
  <2>1. up' /\ saved' = jobs' /\ answered' = answered
    BY <1>12 DEF Boot, Persist
  <2>2. \A id \in Ids : jobs'[id] = Restored(saved[id])
    BY <1>12 DEF Boot
  <2> DEFINE found == {id \in SavedIds : /\ Existing(saved[id].key) = "ready"
                                         /\ saved[id].status \in InFlight \cup {"failed"}}
  <2>3. \A id \in Ids : Outcome(Restored(saved[id]).status)
                         = IF id \in found THEN "ready" ELSE Outcome(saved[id].status)
    BY <1>2 DEF Restored, Outcome, SavedIds, Job, NoJob, InFlight, Status
  <2>4. \A id \in Ids : Restored(saved[id]).status = "none" <=> saved[id].status = "none"
    BY <1>2 DEF Restored, Job, NoJob, InFlight
  <2>5. LedgerView' = [id \in Ids |-> IF id \in found THEN "ready" ELSE LedgerView[id]]
    BY <2>1, <2>2, <2>3 DEF LedgerView
  <2>6. \A id \in found : LedgerView[id] \in {"pending", "failed"}
    BY DEF LedgerView, Outcome, InFlight, SavedIds
  <2>7. Ledger!Next
    BY <2>5, <2>6 DEF Ledger!Next, Ledger!Find, SavedIds
  <2>8. \A k \in Keys : byKey'[k] # NoId => byKey'[k] \in SavedIds
    BY <1>12 DEF Boot
  <2>9. Rest
    BY <1>2, <2>1, <2>2, <2>4, <2>8 DEF FileInv, SavedIds
  <2> QED
    BY <2>7, <2>9
<1>13. ASSUME NEW bad \in Ids, BootFails(bad) PROVE Rest /\ UNCHANGED LedgerView
  BY <1>3, <1>13 DEF BootFails
<1>14. CASE UNCHANGED vars
  BY <1>3, <1>14 DEF vars
<1> QED
  BY <1>4, <1>5, <1>6, <1>7, <1>8, <1>9, <1>10, <1>11, <1>12, <1>13, <1>14
     DEF Next, Requests, Environment

(* An id a client was given survives any number of restarts.                *)
THEOREM IdsAreKept == ASSUME SaveFails = FALSE PROVE Spec => []IdsSurvive
<1>1. FileInv => IdsSurvive
  BY DEF FileInv, IdsSurvive
<1>2. FileInv /\ [Next]_vars => FileInv'
  BY FileStep
<1> QED
  BY <1>1, <1>2, InitFile, PTL DEF Spec

(* The service implements the ledger of outcomes its clients rely on.       *)
THEOREM LedgerImplemented == ASSUME SaveFails = FALSE PROVE Spec => ImplementsLedger
<1>1. Init => Ledger!Init
  BY DEF Init, Ledger!Init, LedgerView, Outcome, NoJob, InFlight
<1>2. FileInv /\ [Next]_vars => FileInv' /\ [Ledger!Next]_LedgerView
  BY FileStep
<1> QED
  BY <1>1, <1>2, InitFile, PTL DEF Spec, ImplementsLedger, Ledger!Spec
-----------------------------------------------------------------------------
(***************************************************************************)
(* Duplicates.  What is in memory when a request comes was read from the   *)
(* state file by a restart, and with failing saves the file is an older    *)
(* state of the dict: the invariant speaks of both, and of what            *)
(* jobs_by_key must still know for the next request not to start a second  *)
(* build.                                                                  *)
(***************************************************************************)
HasFailed(js, k) == \E c \in Ids : js[c].status = "failed" /\ js[c].key = k

AloneOrFailed(js) ==
  \A a, b \in Ids : a # b /\ js[a].status \in InFlight /\ js[b].status \in InFlight
                    /\ js[a].key = js[b].key => HasFailed(js, js[a].key)

KeysAreIndexed ==
  \A k \in Keys :
    /\ byKey[k] # NoId => jobs[byKey[k]].key = k
    /\ (\E id \in Ids : jobs[id].status \in InFlight /\ jobs[id].key = k)
         => HasFailed(jobs, k) \/ (byKey[k] # NoId /\ jobs[byKey[k]].status # "failed")

DuplicateInv == /\ BuildInv
                /\ AloneOrFailed(jobs) /\ AloneOrFailed(saved)
                /\ KeysAreIndexed


LEMMA PersistKeepsAlone ==
  ASSUME AloneOrFailed(jobs'), AloneOrFailed(saved), Persist
  PROVE  AloneOrFailed(saved)'
BY DEF Persist, AloneOrFailed, HasFailed

LEMMA InitDuplicates == Init => DuplicateInv
<1>1. Init => \A id \in Ids : jobs[id].status = "none" /\ saved[id].status = "none"
  BY DEF Init, NoJob
<1>2. Init => \A k \in Keys : byKey[k] = NoId
  BY DEF Init
<1> QED
  BY <1>1, <1>2, InitBuilds DEF DuplicateInv, AloneOrFailed, KeysAreIndexed, InFlight

LEMMA SameDuplicates ==
  ASSUME DuplicateInv, UNCHANGED <<jobs, byKey, saved>>
  PROVE  AloneOrFailed(jobs)' /\ AloneOrFailed(saved)' /\ KeysAreIndexed'
BY DEF DuplicateInv, AloneOrFailed, HasFailed, KeysAreIndexed

(* A job in flight goes on or ends: no failed job disappears.               *)
LEMMA StatusKeepsDuplicates ==
  ASSUME DuplicateInv, NEW id \in Ids, jobs[id].status \in InFlight, NEW s,
         SetStatus(id, s), s \in {"building", "validating", "ready", "failed"},
         UNCHANGED byKey
  PROVE  AloneOrFailed(jobs)' /\ AloneOrFailed(saved)' /\ KeysAreIndexed'
<1>1. \A i \in Ids : jobs'[i].status = IF i = id THEN s ELSE jobs[i].status
  BY SetStatusJobs DEF DuplicateInv, BuildInv
<1>2. \A i \in Ids : jobs'[i].key = jobs[i].key
  BY DEF SetStatus, DuplicateInv, BuildInv, TypeOK, Job
<1>3. \A k : HasFailed(jobs, k) => HasFailed(jobs', k)
  BY <1>1, <1>2 DEF HasFailed, InFlight
<1>4. \A i \in Ids : jobs'[i].status \in InFlight => jobs[i].status \in InFlight
  BY <1>1
<1>5. AloneOrFailed(jobs')
  BY <1>2, <1>3, <1>4 DEF DuplicateInv, AloneOrFailed
<1>6. ASSUME NEW k \in Keys
      PROVE  /\ byKey'[k] # NoId => jobs'[byKey'[k]].key = k
             /\ (\E i \in Ids : jobs'[i].status \in InFlight /\ jobs'[i].key = k)
                  => \/ HasFailed(jobs', k)
                     \/ byKey'[k] # NoId /\ jobs'[byKey'[k]].status # "failed"
  <2>1. byKey' = byKey /\ byKey[k] \in Ids \cup {NoId}
    BY DEF DuplicateInv, BuildInv, TypeOK
  <2>2. byKey[k] # NoId => jobs'[byKey[k]].key = k
    BY <1>2, <2>1 DEF DuplicateInv, KeysAreIndexed
  <2>3. ASSUME NEW i \in Ids, jobs'[i].status \in InFlight, jobs'[i].key = k
        PROVE  \/ HasFailed(jobs', k)
               \/ byKey[k] # NoId /\ jobs'[byKey[k]].status # "failed"
    <3>1. HasFailed(jobs, k) \/ (byKey[k] # NoId /\ jobs[byKey[k]].status # "failed")
      BY <1>2, <1>4, <2>3 DEF DuplicateInv, KeysAreIndexed
    <3>2. CASE byKey[k] # NoId /\ jobs'[byKey[k]].status = "failed"
      BY <2>1, <2>2, <3>2 DEF HasFailed
    <3>3. CASE byKey[k] = NoId
      BY <1>3, <3>1, <3>3
    <3> QED
      BY <3>2, <3>3
  <2> QED
    BY <2>1, <2>2, <2>3
<1>7. KeysAreIndexed'
  BY <1>6 DEF KeysAreIndexed, HasFailed
<1>8. AloneOrFailed(jobs)'
  BY <1>5 DEF AloneOrFailed, HasFailed
<1> QED
  BY <1>5, <1>7, <1>8, PersistKeepsAlone DEF SetStatus, DuplicateInv

LEMMA SubmitKeepsDuplicates ==
  ASSUME DuplicateInv, NEW k \in Keys, NEW id \in Ids, SubmitNew(k, id)
  PROVE  AloneOrFailed(jobs)' /\ AloneOrFailed(saved)' /\ KeysAreIndexed'
<1> DEFINE s == IF Existing(k) = "ready" THEN "ready" ELSE "queued"
<1>1. /\ jobs \in [Ids -> Job] /\ byKey \in [Keys -> Ids \cup {NoId}]
      /\ jobs[id].status = "none" /\ s \notin {"none", "failed"}
  BY DEF SubmitNew, NoJob, DuplicateInv, BuildInv, TypeOK
<1>2. \A i \in Ids : jobs'[i] = IF i = id THEN [key |-> k, status |-> s] ELSE jobs[i]
  BY <1>1 DEF SubmitNew
<1>3. \A j \in Keys : byKey'[j] = IF j = k THEN id ELSE byKey[j]
  BY <1>1 DEF SubmitNew
<1>4. \A j : HasFailed(jobs, j) => HasFailed(jobs', j)
  BY <1>1, <1>2 DEF HasFailed
<1>5. ASSUME NEW i \in Ids, jobs[i].status \in InFlight, jobs[i].key = k
      PROVE  HasFailed(jobs, k)
  <2>1. CASE byKey[k] = NoId
    BY <1>5, <2>1 DEF DuplicateInv, KeysAreIndexed
  <2>2. CASE byKey[k] # NoId
    BY <1>1, <2>2 DEF SubmitNew, NeedsJob, DuplicateInv, KeysAreIndexed, HasFailed
  <2> QED
    BY <2>1, <2>2
<1>6. AloneOrFailed(jobs')
  <2>1. SUFFICES ASSUME NEW a \in Ids, NEW b \in Ids, a # b, jobs'[a].status \in InFlight,
                        jobs'[b].status \in InFlight, jobs'[a].key = jobs'[b].key
                 PROVE  HasFailed(jobs', jobs'[a].key)
    BY DEF AloneOrFailed
  <2>2. CASE a # id /\ b # id
    BY <1>2, <1>4, <2>1, <2>2 DEF DuplicateInv, AloneOrFailed
  <2>3. CASE a = id \/ b = id
    <3>1. PICK i \in Ids : jobs[i].status \in InFlight /\ jobs[i].key = k
      BY <1>2, <2>1, <2>3
    <3>2. jobs'[a].key = k
      BY <1>2, <2>1, <2>3
    <3> QED
      BY <1>4, <1>5, <3>1, <3>2
  <2> QED
    BY <2>2, <2>3
<1>7. ASSUME NEW j \in Keys
      PROVE  /\ byKey'[j] # NoId => jobs'[byKey'[j]].key = j
             /\ (\E i \in Ids : jobs'[i].status \in InFlight /\ jobs'[i].key = j)
                  => \/ HasFailed(jobs', j)
                     \/ byKey'[j] # NoId /\ jobs'[byKey'[j]].status # "failed"
  <2>1. CASE j = k
    BY <1>1, <1>2, <1>3, <2>1
  <2>2. CASE j # k
    <3>1. byKey'[j] = byKey[j] /\ byKey[j] \in Ids \cup {NoId}
      BY <1>1, <1>3, <2>2
    <3>2. byKey[j] # NoId => jobs[byKey[j]].key = j /\ byKey[j] # id
      <4>1. byKey[j] # NoId => jobs[byKey[j]].key = j
        BY DEF DuplicateInv, KeysAreIndexed
      <4>2. jobs[id].key = NoKey
        BY DEF SubmitNew, NoJob
      <4> QED
        BY <4>1, <4>2
    <3>3. ASSUME NEW i \in Ids, jobs'[i].status \in InFlight, jobs'[i].key = j
          PROVE  HasFailed(jobs, j) \/ (byKey[j] # NoId /\ jobs[byKey[j]].status # "failed")
      BY <1>2, <2>2, <3>3 DEF DuplicateInv, KeysAreIndexed
    <3> QED
      BY <1>2, <1>4, <3>1, <3>2, <3>3
  <2> QED
    BY <2>1, <2>2
<1>8. KeysAreIndexed'
  BY <1>7 DEF KeysAreIndexed, HasFailed
<1>9. AloneOrFailed(jobs)'
  BY <1>6 DEF AloneOrFailed, HasFailed
<1> QED
  BY <1>6, <1>8, <1>9, PersistKeepsAlone DEF SubmitNew, DuplicateInv

LEMMA BootKeepsDuplicates ==
  ASSUME DuplicateInv, Boot
  PROVE  AloneOrFailed(jobs)' /\ AloneOrFailed(saved)' /\ KeysAreIndexed'
<1>1. saved \in [Ids -> Job] /\ \A id \in Ids : jobs'[id] = Restored(saved[id])
  BY DEF Boot, DuplicateInv, BuildInv, TypeOK
<1>2. ASSUME NEW id \in Ids, saved[id].status # "none"
      PROVE  /\ jobs'[id].key = saved[id].key /\ jobs'[id].status # "none"
             /\ jobs'[id].status \in InFlight
                  => saved[id].status \in InFlight /\ Existing(saved[id].key) # "ready"
             /\ saved[id].status = "failed" /\ Existing(saved[id].key) # "ready"
                  => jobs'[id].status = "failed"
  BY <1>1, <1>2 DEF Restored, Job, InFlight
<1>3. ASSUME NEW id \in Ids, saved[id].status = "none" PROVE jobs'[id].status = "none"
  <2>1. jobs'[id] = NoJob
    BY <1>1, <1>3 DEF Restored
  <2> QED
    BY <2>1 DEF NoJob
<1>4. AloneOrFailed(jobs')
  <2>1. SUFFICES ASSUME NEW a \in Ids, NEW b \in Ids, a # b, jobs'[a].status \in InFlight,
                        jobs'[b].status \in InFlight, jobs'[a].key = jobs'[b].key
                 PROVE  HasFailed(jobs', jobs'[a].key)
    BY DEF AloneOrFailed
  <2>2. saved[a].status # "none" /\ saved[b].status # "none"
    BY <1>3, <2>1 DEF InFlight
  <2>3. /\ saved[a].status \in InFlight /\ saved[b].status \in InFlight
        /\ saved[a].key = saved[b].key /\ Existing(saved[a].key) # "ready"
        /\ jobs'[a].key = saved[a].key
    BY <1>2, <2>1, <2>2
  <2>4. PICK c \in Ids : saved[c].status = "failed" /\ saved[c].key = saved[a].key
    BY <2>1, <2>3 DEF DuplicateInv, AloneOrFailed, HasFailed
  <2>5. jobs'[c].status = "failed" /\ jobs'[c].key = saved[a].key
    BY <1>2, <2>3, <2>4
  <2> QED
    BY <2>3, <2>5 DEF HasFailed
<1>5. ASSUME NEW k \in Keys
      PROVE  /\ byKey'[k] # NoId => jobs'[byKey'[k]].key = k
             /\ (\E i \in Ids : jobs'[i].status \in InFlight /\ jobs'[i].key = k)
                  => \/ HasFailed(jobs', k)
                     \/ byKey'[k] # NoId /\ jobs'[byKey'[k]].status # "failed"
  <2> DEFINE mine == {id \in SavedIds : saved[id].key = k}
  <2>1. IF mine = {} THEN byKey'[k] = NoId ELSE byKey'[k] \in mine
    BY DEF Boot
  <2>2. byKey'[k] # NoId => byKey'[k] \in Ids /\ jobs'[byKey'[k]].key = k
    BY <1>2, <2>1 DEF SavedIds
  <2>3. ASSUME NEW i \in Ids, jobs'[i].status \in InFlight, jobs'[i].key = k
        PROVE  byKey'[k] \in mine
    <3>1. saved[i].status # "none"
      BY <1>3, <2>3 DEF InFlight
    <3>2. i \in mine
      BY <1>2, <2>3, <3>1 DEF SavedIds
    <3> QED
      BY <2>1, <3>2
  <2>4. byKey'[k] \in mine => byKey'[k] # NoId
    BY DEF SavedIds
  <2> QED
    BY <2>2, <2>3, <2>4 DEF HasFailed
<1>6. KeysAreIndexed'
  BY <1>5 DEF KeysAreIndexed, HasFailed
<1>7. AloneOrFailed(jobs)'
  BY <1>4 DEF AloneOrFailed, HasFailed
<1>8. saved' = jobs' \/ saved' = saved
  BY DEF Boot, Persist
<1>9. AloneOrFailed(saved)'
  BY <1>4, <1>8 DEF DuplicateInv, AloneOrFailed, HasFailed
<1> QED
  BY <1>6, <1>7, <1>9

LEMMA NextKeepsDuplicates == DuplicateInv /\ [Next]_vars => DuplicateInv'
<1> SUFFICES ASSUME DuplicateInv, [Next]_vars
             PROVE  AloneOrFailed(jobs)' /\ AloneOrFailed(saved)' /\ KeysAreIndexed'
  BY NextKeepsBuilds DEF DuplicateInv
<1> USE DEF memory, disk
<1> DEFINE Goal == AloneOrFailed(jobs)' /\ AloneOrFailed(saved)' /\ KeysAreIndexed'
<1>1. ASSUME NEW k \in Keys, SubmitKnown(k) PROVE Goal
  BY <1>1, SameDuplicates DEF SubmitKnown
<1>2. ASSUME NEW k \in Keys, SubmitRaises(k) PROVE Goal
  <2>1. jobs' = jobs /\ (saved' = jobs' \/ saved' = saved)
    BY <1>2 DEF SubmitRaises, Persist
  <2>2. \A j \in Keys : byKey'[j] = IF j = k THEN NoId ELSE byKey[j]
    BY <1>2 DEF SubmitRaises, DuplicateInv, BuildInv, TypeOK
  <2>3. (\E i \in Ids : jobs[i].status \in InFlight /\ jobs[i].key = k) => HasFailed(jobs, k)
    <3>1. CASE byKey[k] = NoId
      BY <3>1 DEF DuplicateInv, KeysAreIndexed
    <3>2. CASE byKey[k] # NoId
      BY <1>2, <3>2 DEF SubmitRaises, NeedsJob, DuplicateInv, BuildInv, TypeOK, KeysAreIndexed, HasFailed
    <3> QED
      BY <3>1, <3>2
  <2>4. KeysAreIndexed'
    BY <2>1, <2>2, <2>3 DEF DuplicateInv, KeysAreIndexed, HasFailed
  <2>5. AloneOrFailed(jobs)' /\ AloneOrFailed(saved)'
    BY <2>1 DEF DuplicateInv, AloneOrFailed, HasFailed
  <2> QED
    BY <2>4, <2>5
<1>3. ASSUME NEW k \in Keys, NEW id \in Ids, SubmitNew(k, id) PROVE Goal
  BY <1>3, SubmitKeepsDuplicates
<1>4. ASSUME NEW id \in Ids, Fetch(id) PROVE Goal
  BY <1>4, SameDuplicates DEF Fetch
<1>5. CASE Worker
  <2>1. CASE WorkerTakes
    <3>1. Head(queue) \in Ids /\ InQueue(Head(queue)) /\ up
      BY <2>1, HeadTailProperties, LenProperties
         DEF WorkerTakes, At, DuplicateInv, BuildInv, TypeOK, InQueue
    <3>2. jobs[Head(queue)].status \in InFlight
      BY <3>1 DEF DuplicateInv, BuildInv, NoBuildLost, InFlight
    <3> QED
      BY <2>1, <3>1, <3>2, StatusKeepsDuplicates DEF WorkerTakes
  <2>2. CASE WorkerMarks \/ WorkerClears \/ WorkerCleared \/ WorkerRenames \/ WorkerConfirms
    BY <2>2, SameDuplicates
       DEF WorkerMarks, WorkerClears, WorkerCleared, WorkerRenames, WorkerConfirms
  <2>3. CASE WorkerBuilds \/ WorkerFinishes \/ WorkerFails
    <3>1. up /\ worker.id \in Ids /\ jobs[worker.id].status \in InFlight
      BY <2>3 DEF WorkerBuilds, WorkerFinishes, WorkerFails, At, DuplicateInv, BuildInv,
                  WorkerHoldsJob, NoBuildLost, InFlight
    <3>2. PICK s \in {"validating", "ready", "failed"} :
            SetStatus(worker.id, s) /\ UNCHANGED byKey
      BY <2>3 DEF WorkerBuilds, WorkerFinishes, WorkerFails
    <3> QED
      BY <3>1, <3>2, StatusKeepsDuplicates
  <2> QED
    BY <1>5, <2>1, <2>2, <2>3 DEF Worker
<1>6. CASE Cleaner
  BY <1>6, SameDuplicates DEF Cleaner, CleanerStarts, CleanerVisits, CleanerTears,
                              CleanerRemoves, CleanerUnlinks, CleanerEnds
<1>7. CASE Ages
  BY <1>7, SameDuplicates DEF Ages
<1>8. CASE Crash
  <2>1. (\A id \in Ids : jobs'[id].status = "none") /\ (\A k \in Keys : byKey'[k] = NoId)
    BY <1>8 DEF Crash, NoJob
  <2>2. AloneOrFailed(jobs)' /\ KeysAreIndexed'
    BY <2>1 DEF AloneOrFailed, KeysAreIndexed, InFlight
  <2>3. AloneOrFailed(saved)'
    BY <1>8 DEF Crash, DuplicateInv, AloneOrFailed, HasFailed
  <2> QED
    BY <2>2, <2>3
<1>9. CASE Boot
  BY <1>9, BootKeepsDuplicates
<1>10. ASSUME NEW bad \in Ids, BootFails(bad) PROVE Goal
  BY <1>10, SameDuplicates DEF BootFails
<1>11. CASE UNCHANGED vars
  BY <1>11, SameDuplicates DEF vars
<1> QED
  BY <1>1, <1>2, <1>3, <1>4, <1>5, <1>6, <1>7, <1>8, <1>9, <1>10, <1>11
     DEF Next, Requests, Environment

(* A revision is never built twice at the same time, except beside a failed *)
(* job of that revision, however many saves fail and restarts follow.       *)
THEOREM DuplicatesOnlyBesideFailed == Spec => []DuplicateOnlyBesideFailed
<1>1. DuplicateInv => DuplicateOnlyBesideFailed
  BY DEF DuplicateInv, DuplicateOnlyBesideFailed, AloneOrFailed, HasFailed
<1> QED
  BY <1>1, InitDuplicates, NextKeepsDuplicates, PTL DEF Spec
-----------------------------------------------------------------------------
(***************************************************************************)
(* The cleaner and the running build.  A pass that has yet to visit the    *)
(* revision finds its marker fresh, unless the pass itself removed it; and *)
(* a pass that starts later has the revision in its snapshot.              *)
(***************************************************************************)
Building(k) == worker.pc \notin {"idle", "taken"} /\ BuildKey = k

BuildIsSpared ==
  \A k \in Keys : Building(k) => \/ marker[k] = "fresh"
                                 \/ cleaner.pc = "idle"
                                 \/ k \notin cleaner.todo
                                 \/ k \in cleaner.active

VisitIsOver ==
  cleaner.pc \in {"condemned", "tearing", "removed"} => cleaner.key \notin cleaner.todo

SparedInv == BuildInv /\ VisitIsOver /\ BuildIsSpared


LEMMA InitSpared == Init => SparedInv
BY InitBuilds DEF Init, SparedInv, VisitIsOver, BuildIsSpared, Building

(* What is marked used stays so, the cleaner does nothing, and the worker   *)
(* stays where it is.                                                       *)
LEMMA SparedMeanwhile ==
  ASSUME SparedInv, UNCHANGED <<worker, cleaner>>,
         worker.pc = "idle" \/ jobs'[worker.id].key = jobs[worker.id].key,
         worker.pc = "idle" \/ \A k \in Keys : marker[k] = "fresh" => marker'[k] = "fresh"
  PROVE  VisitIsOver' /\ BuildIsSpared'
BY DEF SparedInv, VisitIsOver, BuildIsSpared, Building, BuildKey

LEMMA MarkStaysFresh ==
  ASSUME TypeOK, NEW j, MarkUsed(j)
  PROVE  \A k \in Keys : marker'[k] = IF k = j THEN "fresh" ELSE marker[k]
BY DEF TypeOK, MarkUsed

LEMMA LookUpStaysFresh ==
  ASSUME TypeOK, NEW looked, LookUp(looked)
  PROVE  \A k \in Keys : marker[k] = "fresh" => marker'[k] = "fresh"
BY DEF TypeOK, LookUp

(* The worker goes on with the same job, the cleaner does nothing.          *)
LEMMA SparedByWorker ==
  ASSUME SparedInv, UNCHANGED cleaner, worker.pc \notin {"idle", "taken"},
         worker'.id = worker.id, \A i \in Ids : jobs'[i].key = jobs[i].key,
         \A k \in Keys : marker[k] = "fresh" => marker'[k] = "fresh"
  PROVE  VisitIsOver' /\ BuildIsSpared'
<1>1. worker.id \in Ids
  BY DEF SparedInv, BuildInv, WorkerHoldsJob
<1> QED
  BY <1>1 DEF SparedInv, VisitIsOver, BuildIsSpared, Building, BuildKey

LEMMA SetStatusKeys ==
  ASSUME TypeOK, NEW id, NEW s, SetStatus(id, s)
  PROVE  \A i \in Ids : jobs'[i].key = jobs[i].key
BY DEF TypeOK, SetStatus, Job

LEMMA WorkerKeepsSpared ==
  ASSUME SparedInv, Worker
  PROVE  VisitIsOver' /\ BuildIsSpared'
<1> USE DEF disk, memory
<1>0. TypeOK
  BY DEF SparedInv, BuildInv
<1>1. CASE WorkerTakes \/ WorkerFinishes \/ WorkerFails
  <2>1. cleaner' = cleaner /\ worker'.pc \in {"taken", "idle"}
    BY <1>1 DEF WorkerTakes, WorkerFinishes, WorkerFails
  <2> QED
    BY <2>1 DEF SparedInv, VisitIsOver, BuildIsSpared, Building
<1>2. CASE WorkerMarks
  <2>1. \/ cleaner' = cleaner /\ jobs' = jobs /\ worker'.id = worker.id /\ marker'[BuildKey] = "fresh"
        \/ BuildKey \notin Keys
    BY <1>0, <1>2, MarkStaysFresh DEF WorkerMarks, Goto, TypeOK
  <2>2. cleaner' = cleaner /\ jobs' = jobs /\ worker'.id = worker.id
    BY <1>0, <1>2 DEF WorkerMarks, Goto, TypeOK
  <2> QED
    BY <2>1, <2>2 DEF SparedInv, VisitIsOver, BuildIsSpared, Building, BuildKey
<1>3. CASE WorkerBuilds
  <2>1. /\ cleaner' = cleaner /\ worker'.id = worker.id /\ marker' = marker
        /\ worker.pc \notin {"idle", "taken"}
    BY <1>0, <1>3 DEF WorkerBuilds, At, Goto, TypeOK
  <2>2. \A i \in Ids : jobs'[i].key = jobs[i].key
    BY <1>0, <1>3, SetStatusKeys DEF WorkerBuilds
  <2> QED
    BY <2>1, <2>2, SparedByWorker
<1>4. CASE WorkerClears \/ WorkerCleared \/ WorkerRenames
  <2>1. /\ cleaner' = cleaner /\ worker'.id = worker.id /\ marker' = marker /\ jobs' = jobs
        /\ worker.pc \notin {"idle", "taken"}
    BY <1>0, <1>4 DEF WorkerClears, WorkerCleared, WorkerRenames, At, Goto, TypeOK
  <2> QED
    BY <2>1, SparedByWorker
<1>5. CASE WorkerConfirms
  <2>1. /\ cleaner' = cleaner /\ worker'.id = worker.id /\ jobs' = jobs
        /\ worker.pc \notin {"idle", "taken"}
    BY <1>0, <1>5 DEF WorkerConfirms, At, Goto, TypeOK
  <2>2. \A k \in Keys : marker[k] = "fresh" => marker'[k] = "fresh"
    BY <1>0, <1>5, MarkStaysFresh DEF WorkerConfirms
  <2> QED
    BY <2>1, <2>2, SparedByWorker
<1> QED
  BY <1>1, <1>2, <1>3, <1>4, <1>5 DEF Worker

LEMMA CleanerKeepsSpared ==
  ASSUME SparedInv, Cleaner
  PROVE  VisitIsOver' /\ BuildIsSpared'
<1> USE DEF disk, memory
<1>0. /\ cleaner \in [pc : {"idle", "scan", "condemned", "tearing", "removed"},
                      active : SUBSET (Keys \cup {NoKey}), todo : SUBSET Keys,
                      key : Keys \cup {NoKey}]
      /\ marker \in [Keys -> Age]
  BY DEF SparedInv, BuildInv, TypeOK
<1>1. worker' = worker /\ jobs' = jobs
  BY DEF Cleaner, CleanerStarts, CleanerVisits, CleanerTears, CleanerRemoves, CleanerUnlinks,
         CleanerEnds
<1>2. CASE CleanerStarts
  <2>1. ASSUME worker.pc \notin {"idle", "taken"}
        PROVE  BuildKey \in {jobs[id].key : id \in {i \in Ids : jobs[i].status \in InFlight}}
    BY <1>2, <2>1 DEF CleanerStarts, SparedInv, BuildInv, WorkerHoldsJob, NoBuildLost, BuildKey,
                      InFlight
  <2>2. /\ cleaner'.pc = "scan"
        /\ cleaner'.active = {jobs[id].key : id \in {i \in Ids : jobs[i].status \in InFlight}}
    BY <1>2 DEF CleanerStarts
  <2> QED
    BY <1>1, <2>1, <2>2 DEF VisitIsOver, BuildIsSpared, Building, BuildKey
<1>3. ASSUME NEW k \in Keys, CleanerVisits(k)
      PROVE  VisitIsOver' /\ BuildIsSpared'
  <2>1. /\ cleaner'.key = k /\ cleaner'.todo = cleaner.todo \ {k}
        /\ cleaner'.active = cleaner.active /\ cleaner.pc # "idle" /\ marker' = marker
    BY <1>0, <1>3 DEF CleanerVisits
  <2> QED
    BY <1>1, <2>1 DEF SparedInv, VisitIsOver, BuildIsSpared, Building, BuildKey
<1>4. CASE CleanerTears \/ CleanerRemoves \/ CleanerEnds
  <2>1. /\ cleaner'.key = cleaner.key /\ cleaner'.todo = cleaner.todo
        /\ cleaner'.active = cleaner.active /\ marker' = marker /\ cleaner.pc # "idle"
        /\ cleaner'.pc # "idle" => cleaner.pc \in {"condemned", "tearing", "removed"}
    BY <1>0, <1>4 DEF CleanerTears, CleanerRemoves, CleanerEnds
  <2> QED
    BY <1>1, <2>1 DEF SparedInv, VisitIsOver, BuildIsSpared, Building, BuildKey
<1>5. CASE CleanerUnlinks
  <2>1. /\ cleaner.key \notin cleaner.todo /\ cleaner.pc = "removed"
        /\ cleaner'.pc = "scan" /\ cleaner'.todo = cleaner.todo
        /\ cleaner'.active = cleaner.active
        /\ \A k \in Keys : k # cleaner.key => marker'[k] = marker[k]
    BY <1>0, <1>5 DEF CleanerUnlinks, SparedInv, VisitIsOver
  <2> QED
    BY <1>1, <2>1 DEF SparedInv, VisitIsOver, BuildIsSpared, Building, BuildKey
<1> QED
  BY <1>2, <1>3, <1>4, <1>5 DEF Cleaner

LEMMA NextKeepsSpared == SparedInv /\ [Next]_vars => SparedInv'
<1> SUFFICES ASSUME SparedInv, [Next]_vars PROVE VisitIsOver' /\ BuildIsSpared'
  BY NextKeepsBuilds DEF SparedInv
<1> USE DEF memory, disk
<1> DEFINE Goal == VisitIsOver' /\ BuildIsSpared'
<1>0. TypeOK
  BY DEF SparedInv, BuildInv
<1>1. ASSUME NEW k \in Keys, SubmitKnown(k) PROVE Goal
  BY <1>0, <1>1, MarkStaysFresh, SparedMeanwhile DEF SubmitKnown
<1>2. ASSUME NEW k \in Keys, SubmitRaises(k) PROVE Goal
  BY <1>0, <1>2, LookUpStaysFresh, SparedMeanwhile DEF SubmitRaises
<1>3. ASSUME NEW k \in Keys, NEW id \in Ids, SubmitNew(k, id) PROVE Goal
  <2>1. worker.pc # "idle" => worker.id # id
    BY <1>3 DEF SubmitNew, NeedsJob, NoJob, SparedInv, BuildInv, NoBuildLost
  <2>2. worker.pc = "idle" \/ jobs'[worker.id] = jobs[worker.id]
    BY <1>0, <1>3, <2>1 DEF SubmitNew, SparedInv, BuildInv, WorkerHoldsJob, TypeOK
  <2> QED
    BY <1>0, <1>3, <2>2, LookUpStaysFresh, SparedMeanwhile DEF SubmitNew
<1>4. ASSUME NEW id \in Ids, Fetch(id) PROVE Goal
  BY <1>0, <1>4, MarkStaysFresh, SparedMeanwhile DEF Fetch
<1>5. CASE Worker
  BY <1>5, WorkerKeepsSpared
<1>6. CASE Cleaner
  BY <1>6, CleanerKeepsSpared
<1>7. CASE Ages
  <2>1. worker.pc = "idle"
    BY <1>7 DEF Ages, SparedInv, BuildInv, DownIsEmpty
  <2> QED
    BY <1>7, <2>1, SparedMeanwhile DEF Ages
<1>8. CASE Crash
  BY <1>8 DEF Crash, VisitIsOver, BuildIsSpared, Building
<1>9. CASE Boot
  <2>1. worker.pc = "idle" /\ UNCHANGED <<worker, cleaner>>
    BY <1>9 DEF Boot, SparedInv, BuildInv, DownIsEmpty
  <2> QED
    BY <2>1, SparedMeanwhile
<1>10. ASSUME NEW bad \in Ids, BootFails(bad) PROVE Goal
  <2>1. worker.pc = "idle" /\ UNCHANGED <<worker, cleaner>>
    BY <1>10 DEF BootFails, SparedInv, BuildInv, DownIsEmpty
  <2> QED
    BY <2>1, SparedMeanwhile
<1>11. CASE UNCHANGED vars
  BY <1>11, SparedMeanwhile DEF vars
<1> QED
  BY <1>1, <1>2, <1>3, <1>4, <1>5, <1>6, <1>7, <1>8, <1>9, <1>10, <1>11
     DEF Next, Requests, Environment

(* No cleanup pass, however old its snapshot of the jobs in flight, decides *)
(* to delete the directory of the revision that is being built.             *)
THEOREM RunningBuildIsSpared == Spec => RunningBuildSpared
<1> DEFINE Condemns(k) == cleaner.pc = "scan" /\ cleaner'.pc = "condemned" /\ cleaner'.key = k
           Spares == \A k \in Keys : Condemns(k)
                       => ~(worker.pc \notin {"idle", "taken"} /\ BuildKey = k)
<1>1. ASSUME SparedInv, [Next]_vars, NEW k \in Keys, Condemns(k)
      PROVE  ~(worker.pc \notin {"idle", "taken"} /\ BuildKey = k)
  <2>1. cleaner' # cleaner /\ cleaner'.pc = "condemned"
    BY <1>1
  <2>2. cleaner \in [pc : {"idle", "scan", "condemned", "tearing", "removed"},
                     active : SUBSET (Keys \cup {NoKey}), todo : SUBSET Keys,
                     key : Keys \cup {NoKey}]
    BY <1>1 DEF SparedInv, BuildInv, TypeOK
  <2>3. PICK j \in Keys : CleanerVisits(j)
    <3>1. CASE Requests
      BY <2>1, <3>1 DEF Requests, SubmitKnown, SubmitRaises, SubmitNew, Fetch
    <3>2. CASE Worker
      BY <2>1, <3>2 DEF Worker, WorkerTakes, WorkerMarks, WorkerBuilds, WorkerClears,
         WorkerCleared, WorkerRenames, WorkerConfirms, WorkerFinishes, WorkerFails
    <3>3. CASE Environment
      <4>1. CASE Ages \/ \E bad \in Ids : BootFails(bad)
        BY <2>1, <4>1 DEF Ages, BootFails
      <4>2. CASE Crash
        BY <2>1, <4>2 DEF Crash
      <4>3. CASE Boot
        <5>1. cleaner' = cleaner
          BY <4>3 DEF Boot
        <5> QED
          BY <2>1, <5>1
      <4> QED
        BY <3>3, <4>1, <4>2, <4>3 DEF Environment
    <3>4. ~(CleanerStarts \/ CleanerTears \/ CleanerRemoves \/ CleanerUnlinks \/ CleanerEnds)
      BY <1>1, <2>1, <2>2 DEF CleanerStarts, CleanerTears, CleanerRemoves, CleanerUnlinks,
         CleanerEnds
    <3> QED
      BY <1>1, <2>1, <3>1, <3>2, <3>3, <3>4 DEF Next, Cleaner, vars
  <2>4. j = k /\ k \in cleaner.todo /\ k \notin cleaner.active /\ LastUsed(k) # "fresh"
    BY <1>1, <2>1, <2>3, <2>2 DEF CleanerVisits
  <2>5. marker[k] # "fresh" /\ cleaner.pc # "idle"
    BY <1>1, <2>4 DEF LastUsed
  <2> QED
    BY <1>1, <2>4, <2>5 DEF SparedInv, BuildIsSpared, Building
<1>2. SparedInv /\ [Next]_vars => [Spares]_vars
  BY <1>1
<1> QED
  BY <1>2, InitSpared, NextKeepsSpared, PTL DEF Spec, RunningBuildSpared
-----------------------------------------------------------------------------
(***************************************************************************)
(* Ready jobs.                                                             *)
(***************************************************************************)
HaveKeys(js) == \A id \in Ids : js[id].status # "none" => js[id].key \in Keys

ReadyInv == /\ BuildInv
            /\ HaveKeys(jobs) /\ HaveKeys(saved)
            /\ cleaner.pc = "idle"
            /\ worker.pc = "confirmed" => store[BuildKey] = "good"

LEMMA InitReady == Init => ReadyInv
BY InitBuilds DEF Init, ReadyInv, HaveKeys, NoJob

LEMMA PersistKeepsKeys ==
  ASSUME HaveKeys(jobs'), HaveKeys(saved), Persist
  PROVE  HaveKeys(saved)'
BY DEF Persist, HaveKeys

(* A complete artifact stays complete when a request or a restart looks.    *)
LEMMA LookUpKeepsGood ==
  ASSUME TypeOK, NEW looked, LookUp(looked)
  PROVE  \A k \in Keys : store[k] = "good" => store'[k] = "good"
BY DEF TypeOK, LookUp

LEMMA SetStatusHasKeys ==
  ASSUME ReadyInv, NEW id, NEW s, SetStatus(id, s), id \in Ids, jobs[id].status # "none"
  PROVE  HaveKeys(jobs)' /\ HaveKeys(saved)'
<1>1. \A i \in Ids : jobs'[i].key = jobs[i].key /\ (i # id => jobs'[i] = jobs[i])
  BY DEF ReadyInv, BuildInv, TypeOK, SetStatus, Job
<1>2. HaveKeys(jobs')
  BY <1>1 DEF ReadyInv, HaveKeys
<1>3. HaveKeys(jobs)'
  BY <1>2 DEF HaveKeys
<1> QED
  BY <1>2, <1>3, PersistKeepsKeys DEF SetStatus, ReadyInv

LEMMA SubmitHasKeys ==
  ASSUME ReadyInv, NEW k \in Keys, NEW id \in Ids, SubmitNew(k, id)
  PROVE  HaveKeys(jobs)' /\ HaveKeys(saved)'
<1>1. \A i \in Ids : jobs'[i].key = IF i = id THEN k ELSE jobs[i].key
  BY DEF SubmitNew, ReadyInv, BuildInv, TypeOK, Job
<1>2. \A i \in Ids : i # id => jobs'[i] = jobs[i]
  BY DEF SubmitNew, ReadyInv, BuildInv, TypeOK
<1>3. HaveKeys(jobs')
  BY <1>1, <1>2 DEF ReadyInv, HaveKeys
<1>4. HaveKeys(jobs)'
  BY <1>3 DEF HaveKeys
<1> QED
  BY <1>3, <1>4, PersistKeepsKeys DEF SubmitNew, ReadyInv

LEMMA BootHasKeys ==
  ASSUME ReadyInv, Boot
  PROVE  HaveKeys(jobs)' /\ HaveKeys(saved)'
<1>1. saved \in [Ids -> Job] /\ \A id \in Ids : jobs'[id] = Restored(saved[id])
  BY DEF Boot, ReadyInv, BuildInv, TypeOK
<1>2. ASSUME NEW id \in Ids, jobs'[id].status # "none" PROVE jobs'[id].key \in Keys
  <2>1. saved[id].status # "none"
    <3>1. SUFFICES ASSUME saved[id].status = "none" PROVE FALSE
      OBVIOUS
    <3>2. jobs'[id] = NoJob
      BY <1>1, <3>1 DEF Restored
    <3> QED
      BY <1>2, <3>2 DEF NoJob
  <2>2. jobs'[id].key = saved[id].key
    BY <1>1, <2>1 DEF Restored, Job
  <2> QED
    BY <2>1, <2>2 DEF ReadyInv, HaveKeys
<1>3. saved' = jobs' \/ saved' = saved
  BY DEF Boot, Persist
<1> QED
  BY <1>2, <1>3 DEF ReadyInv, HaveKeys

LEMMA NextKeepsReady ==
  ASSUME Cleaning = FALSE, ReadyInv, [Next]_vars
  PROVE  ReadyInv'
<1> DEFINE Confirmed == worker.pc = "confirmed" => store[BuildKey] = "good"
<1> SUFFICES HaveKeys(jobs)' /\ HaveKeys(saved)' /\ cleaner'.pc = "idle" /\ Confirmed'
  BY NextKeepsBuilds DEF ReadyInv
<1> USE DEF memory, disk
<1>0. TypeOK
  BY DEF ReadyInv, BuildInv
<1>1. ASSUME UNCHANGED <<jobs, saved>> PROVE HaveKeys(jobs)' /\ HaveKeys(saved)'
  BY <1>1 DEF ReadyInv, HaveKeys
<1>2. ASSUME UNCHANGED <<worker, cleaner>>,
             worker.pc = "confirmed" =>
               /\ jobs'[worker.id].key = jobs[worker.id].key
               /\ store[BuildKey] = "good" => store'[BuildKey] = "good"
      PROVE  cleaner'.pc = "idle" /\ Confirmed'
  BY <1>2 DEF ReadyInv, BuildKey
<1>3. worker.pc = "confirmed" => BuildKey \in Keys
  <2>1. SUFFICES ASSUME worker.pc = "confirmed" PROVE BuildKey \in Keys
    OBVIOUS
  <2>2. up /\ worker.id \in Ids
    BY <2>1 DEF ReadyInv, BuildInv, DownIsEmpty, WorkerHoldsJob
  <2>3. jobs[worker.id].status # "none"
    BY <2>1, <2>2 DEF ReadyInv, BuildInv, NoBuildLost
  <2> QED
    BY <2>2, <2>3 DEF ReadyInv, HaveKeys, BuildKey
<1> DEFINE Goal == HaveKeys(jobs)' /\ HaveKeys(saved)' /\ cleaner'.pc = "idle" /\ Confirmed'
<1>4. ASSUME NEW k \in Keys, SubmitKnown(k) PROVE Goal
  BY <1>1, <1>2, <1>4 DEF SubmitKnown, BuildKey
<1>5. ASSUME NEW k \in Keys, SubmitRaises(k) PROVE Goal
  <2>1. jobs' = jobs /\ (saved' = jobs \/ saved' = saved) /\ UNCHANGED <<worker, cleaner>>
    BY <1>5 DEF SubmitRaises, Persist
  <2>2. HaveKeys(jobs)' /\ HaveKeys(saved)'
    BY <2>1 DEF ReadyInv, HaveKeys
  <2>3. worker.pc = "confirmed" => (store[BuildKey] = "good" => store'[BuildKey] = "good")
    BY <1>0, <1>3, <1>5, LookUpKeepsGood DEF SubmitRaises
  <2> QED
    BY <1>2, <2>1, <2>2, <2>3
<1>6. ASSUME NEW k \in Keys, NEW id \in Ids, SubmitNew(k, id) PROVE Goal
  <2>1. UNCHANGED <<worker, cleaner>> /\ up
    BY <1>6 DEF SubmitNew, NeedsJob
  <2>2. worker.pc # "idle" => worker.id # id /\ worker.id \in Ids
    BY <1>6, <2>1 DEF SubmitNew, NoJob, ReadyInv, BuildInv, NoBuildLost, WorkerHoldsJob
  <2>3. worker.pc # "idle" => jobs'[worker.id] = jobs[worker.id]
    BY <1>0, <1>6, <2>2 DEF SubmitNew, TypeOK
  <2>4. worker.pc = "confirmed" => (store[BuildKey] = "good" => store'[BuildKey] = "good")
    BY <1>0, <1>3, <1>6, LookUpKeepsGood DEF SubmitNew
  <2> QED
    BY <1>2, <1>6, <2>1, <2>3, <2>4, SubmitHasKeys
<1>7. ASSUME NEW id \in Ids, Fetch(id) PROVE Goal
  BY <1>1, <1>2, <1>7 DEF Fetch, BuildKey
<1>8. CASE Worker
  <2>1. cleaner' = cleaner /\ up
    BY <1>8 DEF Worker, WorkerTakes, WorkerMarks, WorkerBuilds, WorkerClears, WorkerCleared,
                WorkerRenames, WorkerConfirms, WorkerFinishes, WorkerFails, At
  <2>2. CASE WorkerTakes
    <3>1. Head(queue) \in Ids /\ InQueue(Head(queue))
      BY <2>2, HeadTailProperties, LenProperties
         DEF WorkerTakes, At, ReadyInv, BuildInv, TypeOK, InQueue
    <3>2. jobs[Head(queue)].status # "none"
      BY <2>1, <3>1 DEF ReadyInv, BuildInv, NoBuildLost
    <3>3. worker'.pc = "taken"
      BY <2>2 DEF WorkerTakes
    <3> QED
      BY <2>1, <2>2, <3>1, <3>2, <3>3, SetStatusHasKeys DEF WorkerTakes, ReadyInv
  <2>3. CASE WorkerMarks \/ WorkerClears \/ WorkerCleared \/ WorkerRenames
    <3>1. UNCHANGED <<jobs, saved>> /\ worker'.pc # "confirmed"
      BY <1>0, <2>3 DEF WorkerMarks, WorkerClears, WorkerCleared, WorkerRenames, Goto, TypeOK
    <3> QED
      BY <1>1, <2>1, <3>1 DEF ReadyInv
  <2>4. CASE WorkerConfirms
    <3>1. UNCHANGED <<jobs, saved, store>> /\ worker'.id = worker.id
      BY <1>0, <2>4 DEF WorkerConfirms, Goto, TypeOK
    <3>2. worker'.pc = "confirmed" => store[BuildKey] = "good"
      BY <1>0, <2>4 DEF WorkerConfirms, Goto, TypeOK
    <3> QED
      BY <1>1, <2>1, <3>1, <3>2 DEF ReadyInv, BuildKey
  <2>5. CASE WorkerBuilds \/ WorkerFinishes \/ WorkerFails
    <3>1. worker.id \in Ids /\ jobs[worker.id].status # "none"
      BY <2>1, <2>5 DEF WorkerBuilds, WorkerFinishes, WorkerFails, At, ReadyInv, BuildInv,
                        WorkerHoldsJob, NoBuildLost
    <3>2. \E s : SetStatus(worker.id, s)
      BY <2>5 DEF WorkerBuilds, WorkerFinishes, WorkerFails
    <3>3. worker'.pc # "confirmed"
      BY <1>0, <2>5 DEF WorkerBuilds, WorkerFinishes, WorkerFails, Goto, TypeOK
    <3> QED
      BY <2>1, <3>1, <3>2, <3>3, SetStatusHasKeys DEF ReadyInv
  <2> QED
    BY <1>8, <2>2, <2>3, <2>4, <2>5 DEF Worker
<1>9. CASE Cleaner
  BY <1>9 DEF Cleaner, CleanerStarts, CleanerVisits, CleanerTears, CleanerRemoves,
              CleanerUnlinks, CleanerEnds, ReadyInv
<1>10. CASE Ages
  BY <1>10 DEF Ages
<1>11. CASE Crash
  <2>1. \A id \in Ids : jobs'[id].status = "none"
    BY <1>11 DEF Crash, NoJob
  <2>2. saved' = saved /\ cleaner'.pc = "idle" /\ worker'.pc = "idle"
    BY <1>11 DEF Crash
  <2> QED
    BY <2>1, <2>2 DEF ReadyInv, HaveKeys
<1>12. CASE Boot
  <2>1. worker.pc = "idle" /\ UNCHANGED <<worker, cleaner>>
    BY <1>12 DEF Boot, ReadyInv, BuildInv, DownIsEmpty
  <2> QED
    BY <1>2, <1>12, <2>1, BootHasKeys
<1>13. ASSUME NEW bad \in Ids, BootFails(bad) PROVE Goal
  <2>1. worker.pc = "idle" /\ UNCHANGED <<worker, cleaner, jobs, saved>>
    BY <1>13 DEF BootFails, ReadyInv, BuildInv, DownIsEmpty
  <2> QED
    BY <1>1, <1>2, <2>1
<1>14. CASE UNCHANGED vars
  BY <1>1, <1>2, <1>14 DEF vars, BuildKey
<1> QED
  BY <1>4, <1>5, <1>6, <1>7, <1>8, <1>9, <1>10, <1>11, <1>12, <1>13, <1>14
     DEF Next, Requests, Environment

(* What a look-up answers "ready" for is there when the look-up is done.    *)
LEMMA ExistingIsThere ==
  ASSUME TypeOK, NEW looked, LookUp(looked), NEW k \in Keys, k \in looked,
         Existing(k) = "ready"
  PROVE  k \in Shipped \/ store'[k] = "good"
BY DEF TypeOK, LookUp, Existing, Copies

(* While no cleaner runs, a job turns ready only with a complete artifact   *)
(* to point at: when the worker ends it, a request finds the build or a     *)
(* restart does.                                                            *)
THEOREM ReadyHasArtifact == ASSUME Cleaning = FALSE PROVE Spec => ReadyPointsToArtifact
<1> DEFINE Turns(id) == Known(id) # "ready" /\ jobs'[id].status = "ready"
           Points == \A id \in Ids : Turns(id)
                       => jobs'[id].key \in Shipped \/ store'[jobs'[id].key] = "good"
<1>1. ASSUME ReadyInv, [Next]_vars, NEW id \in Ids, Turns(id)
      PROVE  jobs'[id].key \in Shipped \/ store'[jobs'[id].key] = "good"
  <2> USE DEF memory, disk
  <2>0. TypeOK
    BY <1>1 DEF ReadyInv, BuildInv
  <2>1. jobs' # jobs
    BY <1>1 DEF Known, ReadyInv, BuildInv, DownIsEmpty, NoJob
  <2>2. ASSUME NEW k \in Keys, NEW i \in Ids, SubmitNew(k, i)
        PROVE  jobs'[id].key \in Shipped \/ store'[jobs'[id].key] = "good"
    <3>1. \A j \in Ids : jobs'[j] = IF j = i THEN [key |-> k,
             status |-> IF Existing(k) = "ready" THEN "ready" ELSE "queued"] ELSE jobs[j]
      BY <2>0, <2>2 DEF SubmitNew, TypeOK
    <3>2. id = i /\ Existing(k) = "ready" /\ jobs'[id].key = k
      BY <1>1, <2>2, <3>1 DEF Known, SubmitNew, NeedsJob
    <3> QED
      BY <2>0, <2>2, <3>2, ExistingIsThere DEF SubmitNew
  <2>3. CASE Worker
    <3>1. up
      BY <2>3 DEF Worker, WorkerTakes, WorkerMarks, WorkerBuilds, WorkerClears, WorkerCleared,
                  WorkerRenames, WorkerConfirms, WorkerFinishes, WorkerFails, At
    <3>2. CASE WorkerFinishes
      <4>1. worker.id \in Ids /\ worker.pc = "confirmed" /\ store' = store
        BY <1>1, <3>2 DEF WorkerFinishes, At, ReadyInv, BuildInv, WorkerHoldsJob
      <4>2. \A i \in Ids : jobs'[i].key = jobs[i].key
        BY <2>0, <3>2, SetStatusKeys DEF WorkerFinishes
      <4>3. \A i \in Ids : i # worker.id => jobs'[i].status = jobs[i].status
        BY <2>0, <3>2, <4>1, SetStatusJobs DEF WorkerFinishes
      <4>4. id = worker.id
        BY <1>1, <3>1, <4>3 DEF Known
      <4> QED
        BY <1>1, <4>1, <4>2, <4>4 DEF ReadyInv, BuildKey
    <3>3. CASE WorkerTakes
      <4>1. Head(queue) \in Ids
        BY <2>0, <3>3, HeadTailProperties DEF WorkerTakes, TypeOK
      <4>2. \A i \in Ids : jobs'[i].status = IF i = Head(queue) THEN "building" ELSE jobs[i].status
        BY <2>0, <3>3, <4>1, SetStatusJobs DEF WorkerTakes
      <4> QED
        BY <1>1, <3>1, <4>2 DEF Known
    <3>4. CASE WorkerBuilds \/ WorkerFails
      <4>1. worker.id \in Ids
        BY <1>1, <3>4 DEF WorkerBuilds, WorkerFails, At, ReadyInv, BuildInv, WorkerHoldsJob
      <4>2. PICK s \in {"validating", "failed"} : SetStatus(worker.id, s)
        BY <3>4 DEF WorkerBuilds, WorkerFails
      <4>3. \A i \in Ids : jobs'[i].status = IF i = worker.id THEN s ELSE jobs[i].status
        BY <2>0, <4>1, <4>2, SetStatusJobs
      <4> QED
        BY <1>1, <3>1, <4>2, <4>3 DEF Known
    <3> QED
      BY <2>1, <2>3, <3>2, <3>3, <3>4 DEF Worker, WorkerMarks, WorkerClears, WorkerCleared,
         WorkerRenames, WorkerConfirms
  <2>4. CASE Crash
    BY <1>1, <2>4 DEF Crash, NoJob
  <2>5. CASE Boot
    <3>1. jobs'[id] = Restored(saved[id]) /\ saved[id] \in Job /\ ~up
      BY <2>0, <2>5 DEF Boot, TypeOK
    <3>2. saved[id].status # "none"
      <4>1. saved[id].status = "none" => jobs'[id] = NoJob
        BY <3>1 DEF Restored
      <4> QED
        BY <1>1, <4>1 DEF NoJob
    <3>3. saved[id].status # "ready"
      BY <1>1, <3>1 DEF Known
    <3>4. Existing(saved[id].key) = "ready" /\ jobs'[id].key = saved[id].key
      BY <1>1, <3>1, <3>2, <3>3 DEF Restored, Job
    <3>5. saved[id].key \in Keys /\ saved[id].key \in {saved[i].key : i \in SavedIds}
      BY <1>1, <3>2 DEF ReadyInv, HaveKeys, SavedIds
    <3> QED
      BY <2>0, <2>5, <3>4, <3>5, ExistingIsThere DEF Boot
  <2> QED
    BY <1>1, <2>1, <2>2, <2>3, <2>4, <2>5
       DEF Next, Requests, Cleaner, Environment, SubmitKnown, SubmitRaises, Fetch, CleanerStarts,
           CleanerVisits, CleanerTears, CleanerRemoves, CleanerUnlinks, CleanerEnds, Ages,
           BootFails, vars
<1>2. ReadyInv /\ [Next]_vars => [Points]_vars
  BY <1>1
<1>3. ReadyInv /\ [Next]_vars => ReadyInv'
  BY NextKeepsReady
<1> QED
  BY <1>2, <1>3, InitReady, PTL DEF Spec, ReadyPointsToArtifact
=============================================================================
