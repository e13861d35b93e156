------------------------ MODULE PoolAllocatorProofs ------------------------
(* What PoolAllocator keeps for every pool, every set of clients and every  *)
(* bound.                                                                   *)
EXTENDS PoolAllocator, TLAPS, FiniteSetTheorems

LEMMA RunningIsFinite ==
  ASSUME NEW insts \in SUBSET Instances
  PROVE  IsFiniteSet(insts) /\ Cardinality(insts) \in Nat
<1>1. IsFiniteSet(1..Size)
  BY PoolAssumption, FS_Interval
<1>2. QED
  BY <1>1, FS_Subset, FS_CardinalityType DEF Instances

(* What ensure_min_for_pool starts is between nothing and the minimum.      *)
LEMMA MissingType ==
  ASSUME NEW insts \in SUBSET Instances
  PROVE  Missing(insts) \in 0..MinRunning
<1>1. Cardinality(insts) \in Nat
  BY RunningIsFinite
<1>2. MinRunning \in Nat
  BY PoolAssumption DEF Instances
<1>3. QED
  BY <1>1, <1>2 DEF Missing
-----------------------------------------------------------------------------
(* The steps of a thread that starts, stops or restarts.                    *)
LEMMA AfterType ==
  ASSUME NEW t \in Tasks
  PROVE  After(t) \in Tasks \cup {NoTask} /\ (After(t) # NoTask => After(t).inst = t.inst)
  BY DEF After, Following, Tasks, NoTask

LEMMA EffectType ==
  ASSUME TypeOK, NEW t \in Tasks, Effect(t)
  PROVE  /\ alive' \in [Instances -> BOOLEAN] /\ running' \subseteq Instances
         /\ idle' \in [Instances -> Ages]
<1>1. t.inst \in Instances
  BY DEF Tasks
<1>2. QED
  BY <1>1 DEF Effect, Call, Mark, books, TypeOK, Ages

LEMMA OverrunType ==
  ASSUME TypeOK, NEW t \in Tasks, Overrun(t)
  PROVE  /\ alive' \in [Instances -> BOOLEAN] /\ UNCHANGED <<running, idle>>
         /\ upsets' \in 0..MaxUpsets
<1>1. t.inst \in Instances
  BY DEF Tasks
<1>2. upsets' \in 0..MaxUpsets
  BY PoolBounds DEF Overrun, Upset, TypeOK
<1>3. alive' \in [Instances -> BOOLEAN]
  <2>1. CASE Call(t)
    BY <1>1, <2>1 DEF Call, TypeOK
  <2>2. CASE UNCHANGED alive \/ alive' = [alive EXCEPT ![t.inst] = TRUE]
    BY <2>2 DEF TypeOK
  <2>3. QED
    BY <2>1, <2>2 DEF Overrun
<1>4. QED
  BY <1>2, <1>3 DEF Overrun, books

LEMMA FailsType ==
  ASSUME TypeOK, NEW t \in Tasks, Fails(t)
  PROVE  /\ UNCHANGED <<alive, running, idle>> /\ upsets' \in 0..MaxUpsets
         /\ [t EXCEPT !.at = "mark"] \in Tasks
<1>1. upsets' \in 0..MaxUpsets
  BY PoolBounds DEF Fails, Upset, TypeOK
<1>2. [t EXCEPT !.at = "mark"] \in Tasks
  BY DEF Tasks
<1>3. QED
  BY <1>1, <1>2 DEF Fails, books

LEMMA SpawnedType ==
  ASSUME TypeOK, NEW do \in {"stop", "restart"}, NEW insts \in SUBSET Instances
  PROVE  Spawned(do, insts) \subseteq Tasks
  BY DEF Spawned, Task, Tasks, TypeOK
-----------------------------------------------------------------------------
LEMMA TypeInit == Init => TypeOK
<1> SUFFICES ASSUME Init PROVE TypeOK
  OBVIOUS
<1>1. running \in SUBSET Instances
  BY DEF Init, Detectable
<1>2. AtStartUp(running) \in [at : {"expire", "scale", "start", "dead"}, due : BOOLEAN,
        serves : BOOLEAN, todo : SUBSET Instances, missing : 0..MinRunning,
        task : Tasks \cup {NoTask}]
  BY <1>1, MissingType DEF AtStartUp
<1>3. idle \in [Instances -> Ages]
  BY DEF Init, Ages
<1>4. sessions \in [Clients -> [inst : Instances \cup {None}, beat : BOOLEAN]]
  BY DEF Init, NoSession
<1>5. request \in [Clients -> Tasks \cup {NoTask} \cup {Task("place", i, "done") : i \in Instances}]
  BY DEF Init, NoRequest
<1>6. QED
  BY <1>1, <1>2, <1>3, <1>4, <1>5, PoolBounds DEF Init, TypeOK

(* A request is a task, or waits to be placed.                              *)
Requests == Tasks \cup {NoTask} \cup {Task("place", i, "done") : i \in Instances}
CleanerStates == [at : {"expire", "scale", "start", "dead"}, due : BOOLEAN, serves : BOOLEAN,
                  todo : SUBSET Instances, missing : 0..MinRunning, task : Tasks \cup {NoTask}]

LEMMA GiveType ==
  ASSUME TypeOK, NEW c \in Clients, NEW i \in Instances, Give(c, i)
  PROVE  /\ sessions' \in [Clients -> [inst : Instances \cup {None}, beat : BOOLEAN]]
         /\ idle' \in [Instances -> Ages]
  BY DEF Give, TypeOK, Ages

LEMMA FreesType ==
  ASSUME TypeOK, NEW c \in Clients, Frees(c)
  PROVE  /\ sessions' \in [Clients -> [inst : Instances \cup {None}, beat : BOOLEAN]]
         /\ threads' \subseteq Tasks
<1>1. sessions[c].inst \in Instances
  BY DEF Frees, TypeOK
<1>2. threads' \subseteq Tasks
  BY <1>1, SpawnedType DEF Frees
<1>3. QED
  BY <1>2 DEF Frees, TypeOK, NoSession

LEMMA AllocationType ==
  ASSUME TypeOK, NEW c \in Clients, Allocate(c) \/ AllocateStarts(c) \/ AllocatePlaces(c)
  PROVE  TypeOK'
<1>1. CASE Allocate(c)
  <2>1. allocs' \in 0..MaxAllocs
    BY <1>1, PoolBounds DEF Allocate, TypeOK
  <2>2. CASE \E i \in First((running \cap Healthy) \ Occupied) : Give(c, i) /\ UNCHANGED request
    <3>1. PICK i \in Instances : Give(c, i) /\ UNCHANGED request
      BY <2>2 DEF First, TypeOK
    <3>2. QED
      BY <1>1, <2>1, <3>1, GiveType DEF Allocate, TypeOK
  <2>3. CASE \E i \in First(Instances \ running) :
                 request' = [request EXCEPT ![c] = Task("start", i, "check")] /\ UNCHANGED <<sessions, idle>>
    <3>1. PICK i \in Instances : request' = [request EXCEPT ![c] = Task("start", i, "check")]
                                 /\ UNCHANGED <<sessions, idle>>
      BY <2>3 DEF First
    <3>2. Task("start", i, "check") \in Requests
      BY DEF Task, Tasks, Requests
    <3>3. request' \in [Clients -> Requests]
      BY <3>1, <3>2 DEF TypeOK, Requests
    <3>4. QED
      BY <1>1, <2>1, <3>1, <3>3 DEF Allocate, TypeOK, Requests
  <2>4. CASE UNCHANGED <<sessions, idle, request>>
    BY <1>1, <2>1, <2>4 DEF Allocate, TypeOK
  <2>5. QED
    BY <1>1, <2>2, <2>3, <2>4 DEF Allocate
<1>2. CASE AllocateStarts(c)
  <2>1. request[c] \in Tasks
    BY <1>2 DEF AllocateStarts, TypeOK, NoTask, Task
  <2>2. PICK r \in Requests : request' = [request EXCEPT ![c] = r]
    <3>1. NoRequest \in Requests
      BY DEF NoRequest, Requests
    <3>2. Task("place", request[c].inst, "done") \in Requests
      BY <2>1 DEF Requests, Tasks
    <3>3. After(request[c]) \in Requests
      BY <2>1, AfterType DEF Requests
    <3>4. [request[c] EXCEPT !.at = "mark"] \in Requests
      BY <2>1 DEF Requests, Tasks
    <3>5. CASE Fails(request[c]) /\ request' = [request EXCEPT ![c].at = "mark"]
      BY <3>4, <3>5
    <3>6. QED
      BY <1>2, <3>1, <3>2, <3>3, <3>5 DEF AllocateStarts
  <2>3. request' \in [Clients -> Requests]
    BY <2>2 DEF TypeOK, Requests
  <2>4. CASE Effect(request[c]) /\ UNCHANGED upsets
    BY <1>2, <2>1, <2>3, <2>4, EffectType DEF AllocateStarts, TypeOK, Requests
  <2>5. CASE Overrun(request[c])
    BY <1>2, <2>1, <2>3, <2>5, OverrunType DEF AllocateStarts, TypeOK, Requests
  <2>6. CASE Fails(request[c])
    BY <1>2, <2>1, <2>3, <2>6, FailsType DEF AllocateStarts, TypeOK, Requests
  <2>7. QED
    BY <1>2, <2>4, <2>5, <2>6 DEF AllocateStarts
<1>3. CASE AllocatePlaces(c)
  <2>1. request' \in [Clients -> Requests]
    BY <1>3 DEF AllocatePlaces, TypeOK, Requests, NoRequest
  <2>2. request[c].inst \in Instances
    BY <1>3 DEF AllocatePlaces, TypeOK, Tasks, NoTask, Task
  <2>3. CASE UNCHANGED <<sessions, idle>>
    BY <1>3, <2>1, <2>3 DEF AllocatePlaces, TypeOK, Requests
  <2>4. CASE Give(c, request[c].inst)
    BY <1>3, <2>1, <2>2, <2>4, GiveType DEF AllocatePlaces, TypeOK, Requests
  <2>5. QED
    BY <1>3, <2>3, <2>4 DEF AllocatePlaces
<1>4. QED
  BY <1>1, <1>2, <1>3

LEMMA ClientType ==
  ASSUME TypeOK, NEW c \in Clients, Heartbeat(c) \/ Release(c) \/ Lapse(c)
  PROVE  TypeOK'
<1>1. CASE Heartbeat(c)
  BY <1>1 DEF Heartbeat, TypeOK, books
<1>2. CASE Release(c)
  BY <1>2, FreesType DEF Release, TypeOK, books
<1>3. CASE Lapse(c)
  BY <1>3 DEF Lapse, TypeOK, books
<1>4. QED
  BY <1>1, <1>2, <1>3

LEMMA ThreadType ==
  ASSUME TypeOK, NEW t \in threads, ThreadGoesOn(t)
  PROVE  TypeOK'
<1>1. t \in Tasks
  BY DEF TypeOK
<1>2. threads' \subseteq Tasks
  BY <1>1, AfterType, FailsType DEF ThreadGoesOn, TypeOK
<1>3. CASE Effect(t) /\ UNCHANGED upsets
  BY <1>1, <1>2, <1>3, EffectType DEF ThreadGoesOn, TypeOK
<1>4. CASE Overrun(t)
  BY <1>1, <1>2, <1>4, OverrunType DEF ThreadGoesOn, TypeOK
<1>5. CASE Fails(t)
  BY <1>1, <1>2, <1>5, FailsType DEF ThreadGoesOn, TypeOK
<1>6. QED
  BY <1>3, <1>4, <1>5 DEF ThreadGoesOn

LEMMA CleanerType ==
  ASSUME TypeOK, Cleaner
  PROVE  TypeOK'
<1>1. CASE Expire
  <2>1. {sessions[c].inst : c \in Lapsed} \cup Ill \in SUBSET Instances
    BY DEF Lapsed, Ill, TypeOK
  <2>2. threads' \subseteq Tasks
    BY <1>1, <2>1, SpawnedType DEF Expire
  <2>3. sessions' \in [Clients -> [inst : Instances \cup {None}, beat : BOOLEAN]]
    BY <1>1 DEF Expire, TypeOK, NoSession
  <2>4. cleaner' \in CleanerStates
    BY <1>1 DEF Expire, Goes, CleanerStates, TypeOK
  <2>5. QED
    BY <1>1, <2>2, <2>3, <2>4 DEF Expire, TypeOK, CleanerStates, books
<1>2. CASE Scale
  <2>1. PICK tired \in SUBSET Instances, surplus \in SUBSET Instances :
          threads' = Spawned("restart", tired) \cup Spawned("stop", surplus)
    <3> DEFINE old     == {i \in running \ Occupied : Timed[i] = "old"}
               surplus == IF Cardinality(running) > MinRunning THEN old ELSE {}
    <3>1. old \in SUBSET Instances /\ surplus \in SUBSET Instances
      BY DEF TypeOK
    <3>2. PICK tired \in SUBSET old : threads' = Spawned("restart", tired) \cup Spawned("stop", surplus)
      BY <1>2 DEF Scale
    <3>3. QED
      BY <3>1, <3>2
  <2>2. threads' \subseteq Tasks
    BY <2>1, SpawnedType
  <2>3. idle' \in [Instances -> Ages]
    BY <1>2 DEF Scale, Timed, Ages, TypeOK
  <2>4. cleaner' \in CleanerStates
    <3>1. Missing(running) \in 0..MinRunning
      BY MissingType DEF TypeOK
    <3>2. QED
      BY <1>2, <3>1 DEF Scale, Goes, CleanerStates, TypeOK
  <2>5. QED
    BY <1>2, <2>2, <2>3, <2>4 DEF Scale, TypeOK, CleanerStates
<1>3. CASE ScanRaises
  <2>1. cleaner' \in CleanerStates
    BY <1>3 DEF ScanRaises, Goes, CleanerStates, TypeOK
  <2>2. PICK c \in Clients : Frees(c)
    BY <1>3 DEF ScanRaises
  <2>3. QED
    BY <1>3, <2>1, <2>2, FreesType DEF ScanRaises, TypeOK, CleanerStates, books
<1>4. CASE EnsurePicks
  <2>1. cleaner' \in CleanerStates
    <3>0. MinRunning \in Nat /\ cleaner \in CleanerStates
      BY PoolAssumption DEF Instances, TypeOK, CleanerStates
    <3>1. CASE cleaner' = Done
      <4>1. Goes("expire") \in CleanerStates
        BY <3>0 DEF Goes, CleanerStates
      <4>2. 0 \in 0..MinRunning
        BY <3>0
      <4>3. QED
        BY <3>1, <4>1, <4>2 DEF Done, CleanerStates
    <3>2. CASE cleaner.missing # 0 /\ cleaner' # Done
      <4>1. PICK i \in Instances :
              cleaner' = [cleaner EXCEPT !.todo = {j \in @ : j > i}, !.missing = @ - 1,
                                         !.task = Task("start", i, "check")]
        BY <1>4, <3>0, <3>2 DEF EnsurePicks, First, CleanerStates
      <4>2. Task("start", i, "check") \in Tasks
        BY DEF Task, Tasks
      <4>3. cleaner.missing - 1 \in 0..MinRunning
        BY <3>0, <3>2 DEF CleanerStates
      <4>4. {j \in cleaner.todo : j > i} \in SUBSET Instances
        BY <3>0 DEF CleanerStates
      <4>5. QED
        BY <3>0, <4>1, <4>2, <4>3, <4>4 DEF CleanerStates
    <3>3. QED
      BY <1>4, <3>1, <3>2 DEF EnsurePicks
  <2>2. QED
    BY <1>4, <2>1 DEF EnsurePicks, TypeOK, CleanerStates, books
<1>5. CASE EnsureStarts
  <2>1. cleaner.task \in Tasks
    BY <1>5 DEF EnsureStarts, TypeOK
  <2>2. PICK u \in Tasks \cup {NoTask} : cleaner' = [cleaner EXCEPT !.task = u]
    <3>1. CASE Fails(cleaner.task) /\ cleaner' = [cleaner EXCEPT !.task.at = "mark"]
      BY <2>1, <3>1, FailsType
    <3>2. QED
      BY <1>5, <2>1, <3>1, AfterType DEF EnsureStarts
  <2>3. cleaner' \in CleanerStates
    BY <2>2 DEF TypeOK, CleanerStates
  <2>4. CASE Effect(cleaner.task) /\ UNCHANGED upsets
    BY <1>5, <2>1, <2>3, <2>4, EffectType DEF EnsureStarts, TypeOK, CleanerStates
  <2>5. CASE Overrun(cleaner.task)
    BY <1>5, <2>1, <2>3, <2>5, OverrunType DEF EnsureStarts, TypeOK, CleanerStates
  <2>6. CASE Fails(cleaner.task)
    BY <1>5, <2>1, <2>3, <2>6, FailsType DEF EnsureStarts, TypeOK, CleanerStates
  <2>7. QED
    BY <1>5, <2>4, <2>5, <2>6 DEF EnsureStarts
<1>6. QED
  BY <1>1, <1>2, <1>3, <1>4, <1>5 DEF Cleaner

LEMMA WorldType ==
  ASSUME TypeOK, TimePasses \/ ServerRestarts \/ \E i \in Instances : RestartAsked(i) \/ Dies(i)
  PROVE  TypeOK'
<1>1. CASE TimePasses
  BY <1>1 DEF TimePasses, TypeOK, Ages
<1>2. CASE ServerRestarts
  <2>1. PICK found \in SUBSET Instances : Starts(found)
    BY <1>2 DEF ServerRestarts, Detectable
  <2>2. cleaner' \in CleanerStates
    BY <2>1, MissingType DEF Starts, AtStartUp, CleanerStates
  <2>3. idle' \in [Instances -> Ages]
    BY <2>1 DEF Starts, Ages
  <2>4. upsets' \in 0..MaxUpsets
    BY <1>2, PoolBounds DEF ServerRestarts, Upset, TypeOK
  <2>5. sessions' \in [Clients -> [inst : Instances \cup {None}, beat : BOOLEAN]]
    BY <2>1 DEF Starts, NoSession
  <2>6. QED
    BY <1>2, <2>1, <2>2, <2>3, <2>4, <2>5
    DEF ServerRestarts, Starts, NoRequest, TypeOK, CleanerStates
<1>3. ASSUME NEW i \in Instances, RestartAsked(i)
      PROVE  TypeOK'
  <2>1. upsets' \in 0..MaxUpsets
    BY <1>3, PoolBounds DEF RestartAsked, Upset, TypeOK
  <2>2. threads' \subseteq Tasks
    BY <1>3, SpawnedType DEF RestartAsked
  <2>3. sessions' \in [Clients -> [inst : Instances \cup {None}, beat : BOOLEAN]]
    BY <1>3 DEF RestartAsked, TypeOK, NoSession
  <2>4. QED
    BY <1>3, <2>1, <2>2, <2>3 DEF RestartAsked, TypeOK, books
<1>4. ASSUME NEW i \in Instances, Dies(i)
      PROVE  TypeOK'
  <2>1. upsets' \in 0..MaxUpsets
    BY <1>4, PoolBounds DEF Dies, Upset, TypeOK
  <2>2. QED
    BY <1>4, <2>1 DEF Dies, TypeOK, books
<1>5. QED
  BY <1>1, <1>2, <1>3, <1>4

LEMMA TypeStep == TypeOK /\ [Next]_vars => TypeOK'
<1> SUFFICES ASSUME TypeOK, [Next]_vars PROVE TypeOK'
  OBVIOUS
<1>1. CASE UNCHANGED vars
  BY <1>1 DEF TypeOK, vars, books
<1>2. CASE Next
  BY <1>2, AllocationType, ClientType, ThreadType, CleanerType, WorldType DEF Next
<1>3. QED
  BY <1>1, <1>2

(* The allocator's variables keep their types.                              *)
THEOREM TypeCorrect == Spec => []TypeOK
<1>1. QED
  BY TypeInit, TypeStep, PTL DEF Spec
-----------------------------------------------------------------------------
(* A session is given only what no session has, and nothing else gives one. *)
LEMMA GivenAlone ==
  ASSUME TypeOK, OneSessionPerInstance, NEW c \in Clients,
         NEW i \in Instances \ Occupied, Give(c, i)
  PROVE  OneSessionPerInstance'
  BY DEF Give, OneSessionPerInstance, Occupied, TypeOK

LEMMA FewerSessions ==
  ASSUME OneSessionPerInstance,
         \A c \in Clients : sessions'[c].inst \in {sessions[c].inst, None}
  PROVE  OneSessionPerInstance'
  BY DEF OneSessionPerInstance

LEMMA OneSessionStep == TypeOK /\ OneSessionPerInstance /\ [Next]_vars => OneSessionPerInstance'
<1> SUFFICES ASSUME TypeOK, OneSessionPerInstance, [Next]_vars PROVE OneSessionPerInstance'
  OBVIOUS
<1> DEFINE Fewer == \A c \in Clients : sessions'[c].inst \in {sessions[c].inst, None}
<1>1. ASSUME UNCHANGED sessions PROVE Fewer
  BY <1>1
<1>2. ASSUME NEW c \in Clients, Frees(c) PROVE Fewer
  BY <1>2 DEF Frees, NoSession, TypeOK
<1>3. ASSUME NEW c \in Clients, Allocate(c) PROVE OneSessionPerInstance'
  <2>1. CASE UNCHANGED sessions
    BY <1>1, <2>1, FewerSessions
  <2>2. CASE \E i \in First((running \cap Healthy) \ Occupied) : Give(c, i)
    <3>1. PICK i \in Instances \ Occupied : Give(c, i)
      BY <2>2 DEF First, TypeOK
    <3>2. QED
      BY <3>1, GivenAlone
  <2>3. QED
    BY <1>3, <2>1, <2>2 DEF Allocate
<1>4. ASSUME NEW c \in Clients, AllocatePlaces(c) PROVE OneSessionPerInstance'
  <2>1. request[c].inst \in Instances
    BY <1>4 DEF AllocatePlaces, TypeOK, Tasks, NoTask, Task
  <2>2. CASE request[c].inst \in Occupied
    BY <1>1, <1>4, <2>2, FewerSessions DEF AllocatePlaces
  <2>3. CASE request[c].inst \notin Occupied
    BY <1>4, <2>1, <2>3, GivenAlone DEF AllocatePlaces
  <2>4. QED
    BY <2>2, <2>3
<1>5. ASSUME NEW c \in Clients, AllocateStarts(c) PROVE Fewer
  BY <1>1, <1>5 DEF AllocateStarts
<1>6. ASSUME NEW c \in Clients, Heartbeat(c) \/ Release(c) \/ Lapse(c) PROVE Fewer
  <2>1. CASE Heartbeat(c) \/ Lapse(c)
    BY <2>1 DEF Heartbeat, Lapse, TypeOK
  <2>2. CASE Release(c)
    BY <1>2, <2>2 DEF Release
  <2>3. QED
    BY <1>6, <2>1, <2>2
<1>7. ASSUME Cleaner PROVE Fewer
  <2>1. CASE Expire
    BY <2>1 DEF Expire, NoSession
  <2>2. CASE ScanRaises
    BY <1>2, <2>2 DEF ScanRaises
  <2>3. CASE Scale \/ EnsurePicks \/ EnsureStarts
    BY <1>1, <2>3 DEF Scale, EnsurePicks, EnsureStarts
  <2>4. QED
    BY <1>7, <2>1, <2>2, <2>3 DEF Cleaner
<1>8. ASSUME NEW t \in threads, ThreadGoesOn(t) PROVE Fewer
  BY <1>1, <1>8 DEF ThreadGoesOn
<1>9. ASSUME NEW i \in Instances, RestartAsked(i) \/ Dies(i) PROVE Fewer
  BY <1>1, <1>9 DEF RestartAsked, Dies, NoSession
<1>10. ASSUME TimePasses \/ ServerRestarts PROVE Fewer
  BY <1>1, <1>10 DEF TimePasses, ServerRestarts, Starts, NoSession
<1>11. CASE UNCHANGED vars
  BY <1>1, <1>11, FewerSessions DEF vars
<1>12. CASE Next
  BY <1>3, <1>4, <1>5, <1>6, <1>7, <1>8, <1>9, <1>10, <1>12, FewerSessions DEF Next
<1>13. QED
  BY <1>11, <1>12

(* No two sessions ever have the same instance, for any number of clients,  *)
(* instances, crashes and restarts (the second check of allocate_session).  *)
THEOREM SessionsAreAlone == Spec => []OneSessionPerInstance
<1>1. Init => OneSessionPerInstance
  BY DEF Init, OneSessionPerInstance, NoSession
<1>2. QED
  BY <1>1, TypeInit, TypeStep, OneSessionStep, PTL DEF Spec
=============================================================================
