--------------------------- MODULE PoolAllocator ---------------------------
(***************************************************************************)
(* One pool of the simulator allocator (pool/server.py): the sessions, the *)
(* set of instances it believes to run, the clean-up thread, and the       *)
(* threads that call systemctl.  The pools share the code and the clean-up *)
(* thread, which visits one after the other, but no state.                 *)
(*                                                                         *)
(* What happens under the lock is one step.  Everything else, calls to     *)
(* systemctl above all, is several: a thread checks, calls, and marks what *)
(* it did, and any other thread may run in between.                        *)
(*                                                                         *)
(* Times are ages: how long ago idle_since was set, in the classes the     *)
(* thresholds tell apart (300 s, 600 s), and whether a session's last      *)
(* heartbeat is more than 600 s old.  last_reset is never younger than     *)
(* idle_since, so its threshold adds nothing.  The maximum of a pool is    *)
(* not below its number of instances, so it adds nothing either.           *)
(***************************************************************************)
EXTENDS Integers, FiniteSets

CONSTANTS
  Clients,   (* who may have a session, one each at a time                 *)
  Size,      (* the pool's instances are 1..Size                           *)
  MinRunning, (* "min" of the pool                                         *)
  None,      (* no instance                                                *)
  MaxAllocs, (* bound: allocations asked for                               *)
  Upsets,    (* what may go wrong: a subset of UpsetKinds                  *)
  MaxUpsets, (* bound: how often                                           *)
  Switches   (* whether the interpreter switches threads in line 514       *)

Instances  == 1..Size
UpsetKinds == {"death", "overrun", "failure", "asked", "reboot"}
Ages       == {"none", "young", "old"}

ASSUME PoolAssumption == /\ Size \in Nat \ {0} /\ MinRunning \in Instances
                         /\ None \notin Instances
ASSUME PoolBounds == /\ MaxAllocs \in Nat /\ MaxUpsets \in Nat
                     /\ Upsets \subseteq UpsetKinds /\ Switches \in BOOLEAN

VARIABLES
  alive,    (* external: the processes of an instance live                 *)
  sessions, (* sessions: the instance, and whether a heartbeat came lately *)
  running,  (* running                                                     *)
  idle,     (* idle_since                                                  *)
  request,  (* the thread that allocates for a client                      *)
  threads,  (* the threads that restart or stop an instance                *)
  cleaner,  (* the thread in cleanup_and_scale                             *)
  allocs,   (* how many allocations were asked for                         *)
  upsets    (* how many upsets there were                                  *)

books   == <<running, idle>>
vars    == <<alive, sessions, books, request, threads, cleaner, allocs, upsets>>

NoSession == [inst |-> None, beat |-> FALSE]
NoTask    == [do |-> "nothing", inst |-> None, at |-> "done"]
Tasks     == [do : {"start", "stop", "restart"}, inst : Instances,
              at : {"check", "call", "up", "mark"}]
Task(do, i, at) == [do |-> do, inst |-> i, at |-> at]

First(insts) == {i \in insts : \A j \in insts : i <= j}

Occupied == {sessions[c].inst : c \in Clients} \ {None}
Healthy  == {i \in Instances : alive[i]}
-----------------------------------------------------------------------------
(* start_instance, stop_instance and restart_instance_proc.                 *)

(* A thread is started for each of the instances.  Bound: not while another *)
(* one is about to do the same to it.                                       *)
Spawned(do, insts) == threads \cup {Task(do, i, "call") : i \in insts}
RoomFor(do, insts) ==
  \A i \in insts : \A t \in threads : ~(t.do = do /\ t.inst = i)

(* systemctl stop ends the instance, systemctl restart ends it and then     *)
(* brings up a fresh one.                                                   *)
Call(t) == alive' = [alive EXCEPT ![t.inst] = (t.at = "up")]

(* What the thread notes afterwards.                                        *)
Mark(t) ==
  IF t.do = "stop"
  THEN running' = running \ {t.inst} /\ idle' = [idle EXCEPT ![t.inst] = "none"]
  ELSE running' = running \cup {t.inst} /\ idle' = [idle EXCEPT ![t.inst] = "young"]

(* "if inst_id in running: return", and its opposite.                       *)
Pointless(t) == \/ t.do = "start" /\ t.at = "check" /\ t.inst \in running
                \/ t.do = "stop" /\ t.at = "call" /\ t.inst \notin running

Effect(t) == IF Pointless(t) \/ t.at = "check" THEN UNCHANGED <<alive, books>>
             ELSE IF t.at = "mark" THEN Mark(t) /\ UNCHANGED alive
             ELSE Call(t) /\ UNCHANGED books

(* The step after this one.                                                 *)
Following(t) == CASE t.at = "check" -> "call"
                  [] t.at = "call" -> IF t.do = "stop" THEN "mark" ELSE "up"
                  [] t.at = "up" -> "mark"

After(t) == IF Pointless(t) \/ t.at = "mark" THEN NoTask ELSE [t EXCEPT !.at = Following(t)]

Upset(kind) == kind \in Upsets /\ upsets < MaxUpsets /\ upsets' = upsets + 1

Calling(t) == t.at \in {"call", "up"} /\ ~Pointless(t)

(* systemctl takes too long: subprocess.run raises, nothing is noted, and   *)
(* the rest of the call has its effect or not.                              *)
Overrun(t) == /\ Upset("overrun") /\ Calling(t)
              /\ \/ UNCHANGED alive
                 \/ Call(t)
                 \/ t.do # "stop" /\ alive' = [alive EXCEPT ![t.inst] = TRUE]
              /\ UNCHANGED books

(* systemctl exits with an error, which nobody looks at: what it did not do *)
(* is noted all the same.                                                   *)
Fails(t) == /\ Upset("failure") /\ Calling(t)
            /\ UNCHANGED <<alive, books>>

ThreadGoesOn(t) ==
  /\ t \in threads
  /\ \/ Effect(t) /\ threads' = (threads \ {t}) \cup ({After(t)} \ {NoTask}) /\ UNCHANGED upsets
     \/ Overrun(t) /\ threads' = threads \ {t}
     \/ Fails(t) /\ threads' = (threads \ {t}) \cup {[t EXCEPT !.at = "mark"]}
  /\ UNCHANGED <<sessions, request, cleaner, allocs>>
-----------------------------------------------------------------------------
(* allocate_session.  A request is a task, or "place" once it was started.  *)
NoRequest == NoTask

(* main starts to serve when the minimum was started.                       *)
Serving == cleaner.serves

Give(c, i) == /\ sessions' = [sessions EXCEPT ![c] = [inst |-> i, beat |-> TRUE]]
              /\ idle' = [idle EXCEPT ![i] = "none"]

(* The first free running instance that is healthy; if there is none, the   *)
(* first that is not running is to be started; or the pool is full.         *)
Allocate(c) ==
  /\ Serving
  /\ request[c] = NoRequest /\ sessions[c] = NoSession
  /\ allocs < MaxAllocs
  /\ allocs' = allocs + 1
  /\ LET free    == (running \cap Healthy) \ Occupied
         stopped == Instances \ running
     IN  \/ \E i \in First(free) : Give(c, i) /\ UNCHANGED request
         \/ /\ free = {}
            /\ \E i \in First(stopped) : request' = [request EXCEPT ![c] = Task("start", i, "check")]
            /\ UNCHANGED <<sessions, idle>>
         \/ free = {} /\ stopped = {} /\ UNCHANGED <<sessions, idle, request>>
  /\ UNCHANGED <<alive, running, threads, cleaner, upsets>>

(* start_instance, outside the lock; an error is the end of the request.    *)
AllocateStarts(c) ==
  /\ request[c].do = "start"
  /\ LET t == request[c]
     IN  \/ /\ Effect(t) /\ UNCHANGED upsets
            /\ request' = [request EXCEPT ![c] =
                             IF After(t) = NoTask THEN Task("place", t.inst, "done") ELSE After(t)]
         \/ Overrun(t) /\ request' = [request EXCEPT ![c] = NoRequest]
         \/ Fails(t) /\ request' = [request EXCEPT ![c].at = "mark"]
  /\ UNCHANGED <<sessions, threads, cleaner, allocs>>

(* Mutation: the started instance is taken for free.                        *)
AllocatePlacesUnseen(c) ==
  /\ request[c].do = "place"
  /\ request' = [request EXCEPT ![c] = NoRequest]
  /\ Give(c, request[c].inst)
  /\ UNCHANGED <<alive, running, threads, cleaner, allocs, upsets>>

(* Four seconds later, under the lock: unless another client has it by now. *)
AllocatePlaces(c) ==
  /\ request[c].do = "place"
  /\ request' = [request EXCEPT ![c] = NoRequest]
  /\ IF request[c].inst \in Occupied THEN UNCHANGED <<sessions, idle>>
     ELSE Give(c, request[c].inst)
  /\ UNCHANGED <<alive, running, threads, cleaner, allocs, upsets>>
-----------------------------------------------------------------------------
(* The other requests.                                                      *)
Heartbeat(c) ==
  /\ sessions[c].inst # None
  /\ sessions' = [sessions EXCEPT ![c].beat = TRUE]
  /\ UNCHANGED <<alive, books, request, threads, cleaner, allocs, upsets>>

(* release_session: the restart is left to a thread.                        *)
Frees(c) ==
  /\ sessions[c].inst # None
  /\ sessions' = [sessions EXCEPT ![c] = NoSession]
  /\ RoomFor("restart", {sessions[c].inst})
  /\ threads' = Spawned("restart", {sessions[c].inst})

Release(c) == Frees(c) /\ UNCHANGED <<alive, books, request, cleaner, allocs, upsets>>

(* restart_by_pool_num: the instance's sessions end, the same thread        *)
(* restarts it.                                                             *)
RestartAsked(i) ==
  /\ Serving /\ Upset("asked")
  /\ sessions' = [c \in Clients |-> IF sessions[c].inst = i THEN NoSession ELSE sessions[c]]
  /\ RoomFor("restart", {i})
  /\ threads' = Spawned("restart", {i})
  /\ UNCHANGED <<alive, books, request, cleaner, allocs>>
-----------------------------------------------------------------------------
(* cleanup_and_scale.  A turn of its loop reads and decides in two steps,   *)
(* then starts what is missing; at names the next step.  What it decides is *)
(* carried out later, when what it read may be old.  due tells whether the  *)
(* health check is.                                                         *)
At(step) == cleaner.at = step
Goes(step) == [cleaner EXCEPT !.at = step]

(* Mutation: only the sessions of what runs.                                *)
LapsedIfRunning == {c \in Clients : sessions[c].inst \in running /\ ~sessions[c].beat}

Lapsed == {c \in Clients : sessions[c].inst # None /\ ~sessions[c].beat}

(* Mutation: of what is dead, only what is idle is restarted.               *)
IllIfIdle == IF cleaner.due THEN running \ (Healthy \cup Occupied) ELSE {}

(* 2. Every second time: what runs without living processes, occupied or    *)
(* not.                                                                     *)
Ill == IF cleaner.due THEN running \ Healthy ELSE {}

(* 1. The sessions without a heartbeat for 600 s end.  Restarting their     *)
(* instances and the ill ones is left to threads.                           *)
Expire ==
  LET insts == {sessions[c].inst : c \in Lapsed} \cup Ill
  IN  /\ At("expire")
      /\ RoomFor("restart", insts)
      /\ sessions' = [c \in Clients |-> IF c \in Lapsed THEN NoSession ELSE sessions[c]]
      /\ threads' = Spawned("restart", insts)
      /\ cleaner' = [Goes("scale") EXCEPT !.due = ~@]
      /\ UNCHANGED <<alive, books, request, allocs, upsets>>

Done == [Goes("expire") EXCEPT !.todo = {}, !.missing = 0, !.serves = TRUE]

(* Mutation: one too few.                                                   *)
MissingButOne(insts) ==
  IF Cardinality(insts) + 1 >= MinRunning THEN 0 ELSE MinRunning - 1 - Cardinality(insts)

(* 5. ensure_min_for_pool: start the first ones that do not run, as many as *)
(* are missing now.                                                         *)
Missing(insts) ==
  IF Cardinality(insts) >= MinRunning THEN 0 ELSE MinRunning - Cardinality(insts)

(* 3. Idle instances are timed.  4. Some of the old ones (those of 600 s)   *)
(* are restarted, and of more than the minimum all the old ones (300 s) are *)
(* stopped.  Both is left to threads, so that running does not shrink here. *)
Timed == [i \in Instances |-> IF i \notin running THEN idle[i]
                             ELSE IF i \in Occupied THEN "none"
                             ELSE IF idle[i] = "none" THEN "young" ELSE idle[i]]

Scale ==
  LET old     == {i \in running \ Occupied : Timed[i] = "old"}
      surplus == IF Cardinality(running) > MinRunning THEN old ELSE {}
  IN  /\ At("scale")
      /\ idle' = Timed
      /\ \E tired \in SUBSET old :
           /\ RoomFor("restart", tired) /\ RoomFor("stop", surplus)
           /\ threads' = Spawned("restart", tired) \cup Spawned("stop", surplus)
      /\ cleaner' = [Goes("start") EXCEPT !.todo = Instances, !.missing = Missing(running)]
      /\ UNCHANGED <<alive, sessions, running, request, allocs, upsets>>

(* Here the sessions are read without the lock: when one goes meanwhile the *)
(* iteration raises, and the thread ends.                                   *)
ScanRaises ==
  /\ Switches /\ At("scale")
  /\ \E c \in Clients : Frees(c)
  /\ cleaner' = Goes("dead")
  /\ UNCHANGED <<alive, books, request, allocs, upsets>>

EnsurePicks ==
  /\ At("start") /\ cleaner.task = NoTask
  /\ \/ /\ cleaner.missing = 0 \/ cleaner.todo \subseteq running
        /\ cleaner' = Done
     \/ /\ cleaner.missing # 0
        /\ \E i \in First(cleaner.todo \ running) :
             cleaner' = [cleaner EXCEPT !.todo = {j \in @ : j > i}, !.missing = @ - 1,
                                        !.task = Task("start", i, "check")]
  /\ UNCHANGED <<alive, sessions, books, request, threads, allocs, upsets>>

EnsureStarts ==
  /\ At("start") /\ cleaner.task # NoTask
  /\ LET t == cleaner.task
     IN  \/ Effect(t) /\ cleaner' = [cleaner EXCEPT !.task = After(t)] /\ UNCHANGED upsets
         \/ Overrun(t) /\ cleaner' = [cleaner EXCEPT !.task = NoTask]
         \/ Fails(t) /\ cleaner' = [cleaner EXCEPT !.task.at = "mark"]
  /\ UNCHANGED <<sessions, request, threads, allocs>>

Cleaner == Expire \/ Scale \/ ScanRaises \/ EnsurePicks \/ EnsureStarts
-----------------------------------------------------------------------------
(* Time and the world.                                                      *)
TimePasses == /\ \E i \in Instances : idle[i] = "young"
              /\ idle' = [i \in Instances |-> IF idle[i] = "young" THEN "old" ELSE idle[i]]
              /\ UNCHANGED <<alive, sessions, running, request, threads, cleaner, allocs, upsets>>

(* No heartbeat for 600 s.                                                  *)
Lapse(c) == /\ sessions[c].beat
            /\ sessions' = [sessions EXCEPT ![c].beat = FALSE]
            /\ UNCHANGED <<alive, books, request, threads, cleaner, allocs, upsets>>

Dies(i) == /\ Upset("death") /\ alive[i]
           /\ alive' = [alive EXCEPT ![i] = FALSE]
           /\ UNCHANGED <<sessions, books, request, threads, cleaner, allocs>>

(* detect_running: what is healthy is found running, and so is what only    *)
(* has its micropython process left, or a pid file with a number that is    *)
(* another process's now.                                                   *)
Detectable == {found \in SUBSET Instances : Healthy \subseteq found}

(* main: the sessions are gone, and so are the threads; what is found runs. *)
AtStartUp(found) ==
  [at |-> "start", due |-> FALSE, todo |-> Instances,
   missing |-> Missing(found), task |-> NoTask, serves |-> FALSE]

Starts(found) ==
  /\ sessions' = [c \in Clients |-> NoSession]
  /\ running' = found
  /\ idle' = [i \in Instances |-> IF i \in found THEN "young" ELSE "none"]
  /\ request' = [c \in Clients |-> NoRequest]
  /\ threads' = {}
  /\ cleaner' = AtStartUp(found)

ServerRestarts == /\ Upset("reboot")
                  /\ \E found \in Detectable : Starts(found)
                  /\ UNCHANGED <<alive, allocs>>

Init ==
  /\ alive \in [Instances -> BOOLEAN]
  /\ sessions = [c \in Clients |-> NoSession]
  /\ running \in Detectable
  /\ idle = [i \in Instances |-> IF i \in running THEN "young" ELSE "none"]
  /\ request = [c \in Clients |-> NoRequest]
  /\ threads = {}
  /\ cleaner = AtStartUp(running)
  /\ allocs = 0
  /\ upsets = 0

Next == \/ \E c \in Clients : \/ Allocate(c) \/ AllocateStarts(c) \/ AllocatePlaces(c)
                              \/ Heartbeat(c) \/ Release(c) \/ Lapse(c)
        \/ \E t \in threads : ThreadGoesOn(t)
        \/ Cleaner
        \/ \E i \in Instances : RestartAsked(i) \/ Dies(i)
        \/ TimePasses \/ ServerRestarts

Spec == Init /\ [][Next]_vars

(* The threads go on, systemctl returns, and time passes.                   *)
FairSpec == /\ Spec
            /\ WF_vars(Cleaner) /\ WF_vars(TimePasses)
            /\ WF_vars(\E t \in threads : ThreadGoesOn(t))
            /\ \A c \in Clients : WF_vars(AllocateStarts(c) \/ AllocatePlaces(c))
-----------------------------------------------------------------------------
TypeOK ==
  /\ alive \in [Instances -> BOOLEAN]
  /\ sessions \in [Clients -> [inst : Instances \cup {None}, beat : BOOLEAN]]
  /\ running \subseteq Instances
  /\ idle \in [Instances -> Ages]
  /\ request \in [Clients -> Tasks \cup {NoTask} \cup {Task("place", i, "done") : i \in Instances}]
  /\ threads \subseteq Tasks
  /\ cleaner \in [at : {"expire", "scale", "start", "dead"}, due : BOOLEAN, serves : BOOLEAN,
                 todo : SUBSET Instances, missing : 0..MinRunning, task : Tasks \cup {NoTask}]
  /\ allocs \in 0..MaxAllocs /\ upsets \in 0..MaxUpsets

(* However allocations, starts, stops and expiries interleave, no two       *)
(* sessions have the same simulator (the second check of allocate_session). *)
OneSessionPerInstance ==
  \A a, b \in Clients :
    sessions[a].inst = sessions[b].inst /\ sessions[a].inst # None => a = b

(* "active users are never kicked" (pool/server.py:457): the simulator of a *)
(* session that gets its heartbeats is not restarted or stopped under it.   *)
CalledOn(i) == \E t \in threads : /\ t.inst = i /\ t.at = "call"
                                  /\ Calling(t) /\ t \notin threads'

ActiveNeverKicked ==
  [][\A c \in Clients : sessions[c].beat /\ alive[sessions[c].inst]
                           => ~CalledOn(sessions[c].inst)]_vars

(* "no heartbeat = session dies" (pool/server.py:78)                        *)
SessionsEnd ==
  \A c \in Clients : sessions[c].inst # None /\ ~sessions[c].beat
                        ~> sessions[c].inst = None \/ sessions[c].beat

(* An instance that counts as running and is dead does not stay so,         *)
(* occupied or not.                                                         *)
DeadIsRestarted ==
  \A i \in Instances : i \in running /\ ~alive[i] ~> alive[i] \/ i \notin running

(* A pool that shrank below its minimum grows again: the scale-down counts  *)
(* instances that its own threads have not stopped yet, and may stop all of *)
(* them ("min 2, max 5", pool/server.py:3).                                 *)
MinimumReturns == Cardinality(running) < MinRunning ~> Cardinality(running) >= MinRunning
=============================================================================
