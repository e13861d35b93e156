------------------------ MODULE WalletNetworkProofs ------------------------
(* What WalletNetwork keeps for every number of slots and every set of      *)
(* requests.                                                                *)
EXTENDS WalletNetwork, TLAPS, FiniteSetTheorems

(* A step does one of four things to the requests: nothing, a new one is    *)
(* made, some that have slots get on, or one that has an outcome ends.      *)
Made(f) ==
  \/ Fresh(f, "post") /\ reads' = reads
  \/ \E p \in Reads : Makes(p, f)

Moved ==
  /\ UNCHANGED <<active, waiters, path, reads>> /\ call' \in [Fetches -> Calls]
  /\ \A f \in Fetches : \/ call'[f] = call[f]
                        \/ {call[f], call'[f]} \cap {"idle", "waiting"} = {}

Finished(f) ==
  /\ call[f] \in Outcomes /\ Release(f) /\ reads' = Unread(f)
  /\ path' = [path EXCEPT ![f] = "post"]

Steps ==
  \/ UNCHANGED requests \/ Moved
  \/ \E f \in Fetches : Made(f) \/ Finished(f)

LEMMA AsksIsStep ==
  ASSUME TypeOK, NEW p \in Reads, NEW f \in Fetches \cup {None}, NEW off \in BOOLEAN, Asks(p, f, off)
  PROVE  f \in Fetches /\ (UNCHANGED requests \/ Made(f))
  BY FetchesAssumption DEF Asks, Joins, Makes, Fresh, Made, TypeOK

LEMMA MovedIsStep ==
  ASSUME TypeOK, UNCHANGED <<slots, path, reads>>,
         NEW g \in [Fetches -> Calls], call' = g,
         \A f \in Fetches : g[f] = call[f] \/ {call[f], g[f]} \cap {"idle", "waiting"} = {}
  PROVE  Moved
  BY DEF Moved, slots

LEMMA AbortedIsStep ==
  ASSUME TypeOK, UNCHANGED <<slots, path, reads>>, call' = Aborted
  PROVE  Moved
<1>1. Aborted \in [Fetches -> Calls]
  BY DEF Aborted, TypeOK, Calls, Outcomes
<1>2. \A f \in Fetches : Aborted[f] = call[f] \/ {call[f], Aborted[f]} \cap {"idle", "waiting"} = {}
  BY DEF Aborted
<1>3. QED
  BY <1>1, <1>2, MovedIsStep

LEMMA ProgressIsStep ==
  ASSUME TypeOK, NEW f \in Fetches, Progress(f)
  PROVE  Steps
<1>1. ASSUME NEW o \in {"failed", "sent"} \cup Outcomes, call[f] \in {"granted", "sent"},
             call' = [call EXCEPT ![f] = o], UNCHANGED <<slots, path, reads>>
      PROVE  Moved
  <2>1. call' \in [Fetches -> Calls]
    BY <1>1 DEF TypeOK, Calls, Outcomes
  <2>2. \A g \in Fetches : call'[g] = call[g] \/ {call[g], call'[g]} \cap {"idle", "waiting"} = {}
    BY <1>1 DEF TypeOK, Outcomes
  <2>3. QED
    BY <1>1, <2>1, <2>2 DEF Moved, slots
<1>2. CASE Proceed(f)
  BY <1>1, <1>2 DEF Proceed, Steps
<1>3. CASE Answers(f)
  BY <1>1, <1>3 DEF Answers, Steps, Outcomes
<1>4. CASE Fails(f)
  BY <1>1, <1>4 DEF Fails, Steps
<1>5. CASE Done(f)
  BY <1>5 DEF Done, Finished, Steps
<1>6. QED
  BY <1>2, <1>3, <1>4, <1>5 DEF Progress

LEMMA NextIsStep ==
  ASSUME TypeOK, [Next]_vars
  PROVE  Steps
<1>1. ASSUME NEW f \in Fetches \cup {None}, NEW p \in Reads, NEW off \in BOOLEAN, Asks(p, f, off)
      PROVE  Steps
  BY <1>1, AsksIsStep DEF Steps
<1>2. CASE GoesOn
  <2>1. ASSUME NEW f \in Fetches \cup {None}, ConnectGetsGenesis(f) PROVE Steps
    <3>1. CASE UNCHANGED requests
      BY <3>1 DEF Steps
    <3>2. CASE Asks("tip", f, disabled)
      BY <1>1, <3>2 DEF Reads, TypeOK
    <3>3. QED
      BY <2>1, <3>1, <3>2 DEF ConnectGetsGenesis
  <2>2. QED
    BY <1>2, <2>1 DEF GoesOn, ConnectGetsTip, PingGetsTip, FeaturesGetGenesis, Steps
<1>3. CASE Boot
  <2>1. ASSUME NEW f \in Fetches, BeginConnect(f, FALSE) PROVE Steps
    BY <1>1, <2>1 DEF BeginConnect, Reads
  <2>2. QED
    BY <1>3, <2>1 DEF Boot, Steps
<1>4. CASE Settings
  <2>1. CASE ConnectDisabled
    BY <2>1 DEF ConnectDisabled, Steps
  <2>2. CASE Disable
    BY <2>2, AbortedIsStep DEF Disable, Steps
  <2>3. CASE ForceDisconnect
    BY <2>3, AbortedIsStep DEF ForceDisconnect, Steps
  <2>4. ASSUME NEW f \in Fetches \cup {None}, Enable(f) PROVE Steps
    <3>1. UNCHANGED requests \/ Asks("genesis", f, FALSE)
      BY <2>4 DEF Enable, BeginConnect
    <3>2. QED
      BY <1>1, <3>1 DEF Steps, Reads
  <2>5. QED
    BY <1>4, <2>1, <2>2, <2>3, <2>4 DEF Settings
<1>5. ASSUME NEW f \in Fetches, UserAsks(f) PROVE Steps
  <2>1. CASE \E p \in {"tip", "other"} : Read(p, f)
    BY <2>1 DEF Read, Made, Steps, Reads
  <2>2. CASE Post(f)
    BY <2>2 DEF Post, Made, Steps
  <2>3. CASE EnsureConnected(f)
    BY <1>1, <2>3 DEF EnsureConnected, BeginConnect, Reads
  <2>4. CASE Ping(f)
    BY <1>1, <2>4 DEF Ping, Reads, TypeOK
  <2>5. CASE ServerFeatures(f)
    BY <1>1, <2>5 DEF ServerFeatures, Reads, TypeOK
  <2>6. QED
    BY <1>5, <2>1, <2>2, <2>3, <2>4, <2>5 DEF UserAsks
<1>6. CASE UNCHANGED vars
  BY <1>6 DEF vars, Steps
<1>7. QED
  BY <1>2, <1>3, <1>4, <1>5, <1>6, ProgressIsStep DEF Next
-----------------------------------------------------------------------------
(* The types of what requests are made of.                                  *)
RequestTypes ==
  /\ active \in Nat /\ waiters \in Seq(Fetches)
  /\ call \in [Fetches -> Calls] /\ path \in [Fetches -> Paths]
  /\ reads \in [Reads -> Fetches \cup {None}]

LEMMA HoldingIsFinite ==
  IsFiniteSet(Holding) /\ Cardinality(Holding) \in Nat
<1>1. Holding \subseteq Fetches
  BY DEF Holding
<1>2. QED
  BY <1>1, FetchesAssumption, FS_Subset, FS_CardinalityType

LEMMA HolderCounts ==
  ASSUME SlotsHeld, NEW f \in Holding
  PROVE  active >= 1
<1>1. Cardinality(Holding) # 0
  BY HoldingIsFinite, FS_EmptySet
<1>2. QED
  BY <1>1, HoldingIsFinite DEF SlotsHeld

LEMMA MadeTypes ==
  ASSUME TypeOK, NEW f \in Fetches, Made(f)
  PROVE  RequestTypes'
<1>1. f \in Fetches /\ Enter(f) /\ \E p \in Paths : path' = [path EXCEPT ![f] = p]
  BY DEF Made, Makes, Fresh, Paths
<1>2. active' \in Nat /\ waiters' \in Seq(Fetches)
  <2>1. active \in Nat /\ waiters \in Seq(Fetches)
    BY DEF TypeOK
  <2>2. Append(waiters, f) \in Seq(Fetches)
    BY <2>1
  <2>3. QED
    BY <1>1, <2>1, <2>2 DEF Enter
<1>3. call' \in [Fetches -> Calls]
  BY <1>1 DEF Enter, TypeOK, Calls
<1>4. path' \in [Fetches -> Paths] /\ reads' \in [Reads -> Fetches \cup {None}]
  BY <1>1 DEF Made, Makes, TypeOK
<1>5. QED
  BY <1>2, <1>3, <1>4 DEF RequestTypes

LEMMA FinishedTypes ==
  ASSUME TypeOK, SlotsCounted, NEW f \in Fetches, Finished(f)
  PROVE  RequestTypes'
<1>1. active \in Nat /\ active >= 1
  <2>1. f \in Holding
    BY DEF Finished, Holding, Outcomes
  <2>2. QED
    BY <2>1, HolderCounts DEF SlotsCounted, TypeOK
<1>2. active' \in Nat /\ waiters' \in Seq(Fetches)
  <2>1. waiters \in Seq(Fetches)
    BY DEF TypeOK
  <2>2. waiters # <<>> => Tail(waiters) \in Seq(Fetches)
    BY <2>1
  <2>3. QED
    BY <1>1, <2>1, <2>2 DEF Finished, Release
<1>3. call' \in [Fetches -> Calls]
  BY DEF Finished, Release, TypeOK, Calls
<1>4. path' \in [Fetches -> Paths]
  BY DEF Finished, TypeOK, Paths
<1>5. reads' \in [Reads -> Fetches \cup {None}]
  BY DEF Finished, Unread, TypeOK
<1>6. QED
  BY <1>2, <1>3, <1>4, <1>5 DEF RequestTypes

LEMMA StepTypes ==
  ASSUME TypeOK, SlotsCounted, Steps
  PROVE  RequestTypes'
<1>1. CASE UNCHANGED requests
  BY <1>1 DEF requests, slots, TypeOK, RequestTypes
<1>2. CASE Moved
  BY <1>2 DEF Moved, TypeOK, RequestTypes
<1>3. QED
  BY <1>1, <1>2, MadeTypes, FinishedTypes DEF Steps
-----------------------------------------------------------------------------
(* Slots are neither lost nor doubled.                                      *)
LEMMA EnterKeepsSlots ==
  ASSUME TypeOK, SlotsCounted, NEW f \in Fetches, call[f] = "idle", Enter(f)
  PROVE  SlotsCounted'
<1>1. active \in Nat /\ waiters \in Seq(Fetches) /\ Slots \in Nat /\ call \in [Fetches -> Calls]
  BY SlotsAssumption DEF TypeOK
<1>2. \A i \in 1..Len(waiters) : waiters[i] # f
  BY DEF SlotsCounted, QueuedOnce
<1>3. CASE active >= Slots
  <2>1. waiters' = Append(waiters, f) /\ call' = [call EXCEPT ![f] = "waiting"] /\ active' = active
    BY <1>3 DEF Enter
  <2>2. Holding' = Holding
    BY <1>1, <2>1 DEF Holding
  <2>3. SlotsHeld' /\ NoSlotFree'
    BY <1>1, <1>3, <2>1, <2>2 DEF SlotsCounted, SlotsHeld, NoSlotFree
  <2>4. Len(waiters') = Len(waiters) + 1 /\ waiters'[Len(waiters) + 1] = f
        /\ \A i \in 1..Len(waiters) : waiters'[i] = waiters[i]
    BY <1>1, <2>1
  <2>5. QueuedOnce'
    <3>1. \A g \in Fetches : call'[g] = "waiting" <=> \E i \in 1..Len(waiters') : waiters'[i] = g
      BY <1>1, <2>1, <2>4 DEF SlotsCounted, QueuedOnce
    <3>2. \A i, j \in 1..Len(waiters') : waiters'[i] = waiters'[j] => i = j
      BY <1>1, <1>2, <2>4 DEF SlotsCounted, QueuedOnce
    <3>3. QED
      BY <3>1, <3>2 DEF QueuedOnce
  <2>6. QED
    BY <2>3, <2>5 DEF SlotsCounted
<1>4. CASE ~(active >= Slots)
  <2>1. waiters' = waiters /\ call' = [call EXCEPT ![f] = "granted"] /\ active' = active + 1
    BY <1>4 DEF Enter
  <2>2. Holding' = Holding \cup {f} /\ f \notin Holding
    BY <1>1, <2>1 DEF Holding
  <2>3. Cardinality(Holding') = Cardinality(Holding) + 1
    BY <2>2, HoldingIsFinite, FS_AddElement
  <2>4. SlotsHeld' /\ NoSlotFree'
    BY <1>1, <1>4, <2>1, <2>3 DEF SlotsCounted, SlotsHeld, NoSlotFree
  <2>5. QueuedOnce'
    BY <1>1, <2>1 DEF SlotsCounted, QueuedOnce
  <2>6. QED
    BY <2>4, <2>5 DEF SlotsCounted
<1>5. QED
  BY <1>3, <1>4

LEMMA ReleaseKeepsSlots ==
  ASSUME TypeOK, SlotsCounted, NEW f \in Fetches, call[f] \in Outcomes, Release(f)
  PROVE  SlotsCounted'
<1>1. active \in Nat /\ waiters \in Seq(Fetches) /\ Slots \in Nat /\ call \in [Fetches -> Calls]
  BY SlotsAssumption DEF TypeOK
<1>2. f \in Holding /\ call[f] # "waiting"
  BY DEF Holding, Outcomes
<1>3. CASE waiters = <<>>
  <2>1. waiters' = <<>> /\ call' = [call EXCEPT ![f] = "idle"] /\ active' = active - 1
    BY <1>3 DEF Release
  <2>2. Holding' = Holding \ {f}
    BY <1>1, <2>1 DEF Holding
  <2>3. Cardinality(Holding') = Cardinality(Holding) - 1
    BY <1>2, <2>2, HoldingIsFinite, FS_RemoveElement
  <2>4. SlotsHeld' /\ NoSlotFree'
    BY <1>1, <2>1, <2>3 DEF SlotsCounted, SlotsHeld, NoSlotFree
  <2>5. QueuedOnce'
    BY <1>1, <1>2, <1>3, <2>1 DEF SlotsCounted, QueuedOnce
  <2>6. QED
    BY <2>4, <2>5 DEF SlotsCounted
<1>4. CASE waiters # <<>>
  <2> DEFINE h == Head(waiters)
  <2>1. waiters' = Tail(waiters) /\ call' = [call EXCEPT ![f] = "idle", ![h] = "granted"] /\ active' = active
    BY <1>4 DEF Release
  <2>2. Len(waiters) >= 1 /\ h = waiters[1] /\ h \in Fetches /\ call[h] = "waiting" /\ h # f
    BY <1>1, <1>2, <1>4 DEF SlotsCounted, QueuedOnce
  <2>3. Len(waiters') = Len(waiters) - 1 /\ \A i \in 1..Len(waiters') : waiters'[i] = waiters[i + 1]
    BY <1>1, <1>4, <2>1
  <2>4. Holding' = (Holding \ {f}) \cup {h} /\ h \notin Holding \ {f}
    BY <1>1, <2>1, <2>2 DEF Holding
  <2>5. Cardinality(Holding') = Cardinality(Holding)
    <3>1. IsFiniteSet(Holding \ {f}) /\ Cardinality(Holding \ {f}) = Cardinality(Holding) - 1
      BY <1>2, HoldingIsFinite, FS_RemoveElement
    <3>2. Cardinality(Holding') = Cardinality(Holding \ {f}) + 1
      BY <2>4, <3>1, FS_AddElement
    <3>3. QED
      BY <3>1, <3>2, HoldingIsFinite
  <2>6. SlotsHeld' /\ NoSlotFree'
    BY <1>1, <1>4, <2>1, <2>5 DEF SlotsCounted, SlotsHeld, NoSlotFree
  <2>7. QueuedOnce'
    <3>1. ASSUME NEW g \in Fetches
          PROVE  call'[g] = "waiting" <=> \E i \in 1..Len(waiters') : waiters'[i] = g
      <4>1. call'[g] = "waiting" <=> (call[g] = "waiting" /\ g # h)
        BY <1>1, <1>2, <2>1, <2>2
      <4>2. (\E i \in 1..Len(waiters') : waiters'[i] = g) <=> \E i \in 2..Len(waiters) : waiters[i] = g
        <5>1. ASSUME NEW i \in 2..Len(waiters), waiters[i] = g
              PROVE  i - 1 \in 1..Len(waiters') /\ waiters'[i - 1] = g
          BY <1>1, <2>3, <5>1
        <5>2. QED
          BY <1>1, <2>3, <5>1
      <4>3. (\E i \in 2..Len(waiters) : waiters[i] = g)
              <=> ((\E i \in 1..Len(waiters) : waiters[i] = g) /\ g # h)
        BY <1>1, <2>2 DEF SlotsCounted, QueuedOnce
      <4>4. QED
        BY <4>1, <4>2, <4>3 DEF SlotsCounted, QueuedOnce
    <3>2. \A i, j \in 1..Len(waiters') : waiters'[i] = waiters'[j] => i = j
      BY <1>1, <2>3 DEF SlotsCounted, QueuedOnce
    <3>3. QED
      BY <3>1, <3>2 DEF QueuedOnce
  <2>8. QED
    BY <2>6, <2>7 DEF SlotsCounted
<1>5. QED
  BY <1>3, <1>4

LEMMA StepKeepsSlots ==
  ASSUME TypeOK, SlotsCounted, Steps
  PROVE  SlotsCounted'
<1>1. CASE UNCHANGED requests
  BY <1>1 DEF requests, slots, SlotsCounted, SlotsHeld, QueuedOnce, NoSlotFree, Holding
<1>2. CASE Moved
  <2>1. Holding' = Holding
    BY <1>2 DEF Moved, Holding
  <2>2. \A f \in Fetches : call'[f] = "waiting" <=> call[f] = "waiting"
    BY <1>2 DEF Moved
  <2>3. QED
    BY <1>2, <2>1, <2>2 DEF Moved, SlotsCounted, SlotsHeld, QueuedOnce, NoSlotFree
<1>3. ASSUME NEW f \in Fetches, Made(f) PROVE SlotsCounted'
  BY <1>3, EnterKeepsSlots DEF Made, Makes, Fresh
<1>4. ASSUME NEW f \in Fetches, Finished(f) PROVE SlotsCounted'
  BY <1>4, ReleaseKeepsSlots DEF Finished
<1>5. QED
  BY <1>1, <1>2, <1>3, <1>4 DEF Steps
-----------------------------------------------------------------------------
(* Types and slots over a behaviour.                                        *)
OtherTypes ==
  /\ wallet \in {"blue", "keeper"} /\ disabled \in BOOLEAN
  /\ state \in {"disabled", "disconnected", "connecting", "connected"}
  /\ verified \in BOOLEAN /\ cached \in BOOLEAN
  /\ at \in [Callers -> {"idle", "genesis", "tip"}]
  /\ on \in [Callers -> Fetches \cup {None}]
  /\ got \in [Callers -> {"none"} \cup Outcomes]
  /\ booted \in BOOLEAN /\ switches \in 0..MaxSwitches

LEMMA AwaitTypes ==
  ASSUME TypeOK, NEW c \in Callers, NEW what \in {"idle", "genesis", "tip"},
         NEW f \in Fetches \cup {None}, Await(c, what, f)
  PROVE  /\ at' \in [Callers -> {"idle", "genesis", "tip"}]
         /\ on' \in [Callers -> Fetches \cup {None}]
         /\ got' \in [Callers -> {"none"} \cup Outcomes]
  BY DEF Await, TypeOK

LEMMA SwitchType ==
  ASSUME TypeOK, Switch
  PROVE  switches' \in 0..MaxSwitches
  BY SlotsAssumption DEF Switch, TypeOK

LEMMA GoesOnTypes ==
  ASSUME TypeOK, GoesOn
  PROVE  OtherTypes'
<1>1. ASSUME NEW f \in Fetches \cup {None}, ConnectGetsGenesis(f) PROVE OtherTypes'
  <2>1. (Await("connect", "idle", None) \/ Await("connect", "tip", f))
        /\ state' \in {"disconnected", "connected", state}
    BY <1>1 DEF ConnectGetsGenesis, ConnectEnds, Ended
  <2>2. QED
    BY <1>1, <2>1, AwaitTypes DEF ConnectGetsGenesis, rest, OtherTypes, TypeOK, Callers
<1>2. CASE ConnectGetsTip
  BY <1>2, AwaitTypes DEF ConnectGetsTip, ConnectEnds, Ended, rest, OtherTypes, TypeOK, Callers
<1>3. CASE PingGetsTip
  BY <1>3, AwaitTypes DEF PingGetsTip, Ended, rest, OtherTypes, TypeOK, Callers
<1>4. CASE FeaturesGetGenesis
  BY <1>4, AwaitTypes DEF FeaturesGetGenesis, Ended, rest, OtherTypes, TypeOK, Callers
<1>5. QED
  BY <1>1, <1>2, <1>3, <1>4 DEF GoesOn

LEMMA SettingsTypes ==
  ASSUME TypeOK, Settings
  PROVE  OtherTypes'
<1>1. CASE ConnectDisabled
  BY <1>1 DEF ConnectDisabled, rest, asking, OtherTypes, TypeOK
<1>2. CASE Disable
  BY <1>2, SwitchType DEF Disable, asking, OtherTypes, TypeOK
<1>3. CASE ForceDisconnect
  BY <1>3, SwitchType DEF ForceDisconnect, asking, OtherTypes, TypeOK
<1>4. ASSUME NEW f \in Fetches \cup {None}, Enable(f) PROVE OtherTypes'
  <2>1. UNCHANGED asking \/ Await("connect", "genesis", f)
    BY <1>4 DEF Enable, BeginConnect
  <2>2. QED
    BY <1>4, <2>1, SwitchType, AwaitTypes DEF Enable, asking, OtherTypes, TypeOK, Callers
<1>5. QED
  BY <1>1, <1>2, <1>3, <1>4 DEF Settings

LEMMA BootTypes ==
  ASSUME TypeOK, Boot
  PROVE  OtherTypes'
<1>1. UNCHANGED <<state, asking>> \/ (state' = "connecting" /\ \E f \in Fetches : Await("connect", "genesis", f))
  BY DEF Boot, BeginConnect
<1>2. QED
  BY <1>1, AwaitTypes DEF Boot, asking, OtherTypes, TypeOK, Callers

LEMMA ProgressTypes ==
  ASSUME TypeOK, NEW f \in Fetches, Progress(f)
  PROVE  OtherTypes'
<1>1. CASE Done(f)
  <2>1. state' \in {"disabled", "disconnected", "connecting", "connected"}
    BY <1>1 DEF Done, Published, TypeOK
  <2>2. on' \in [Callers -> Fetches \cup {None}] /\ got' \in [Callers -> {"none"} \cup Outcomes]
    BY <1>1 DEF Done, TypeOK
  <2>3. cached' \in BOOLEAN
    BY <1>1 DEF Done, TypeOK
  <2>4. QED
    BY <1>1, <2>1, <2>2, <2>3 DEF Done, rest, OtherTypes, TypeOK
<1>2. CASE Proceed(f) \/ Answers(f) \/ Fails(f)
  BY <1>2 DEF Proceed, Answers, Fails, rest, asking, OtherTypes, TypeOK
<1>3. QED
  BY <1>1, <1>2 DEF Progress

LEMMA UserAsksTypes ==
  ASSUME TypeOK, NEW f \in Fetches, UserAsks(f)
  PROVE  OtherTypes'
<1>1. CASE (\E p \in {"tip", "other"} : Read(p, f)) \/ Post(f)
  BY <1>1 DEF Read, Post, rest, asking, OtherTypes, TypeOK
<1>2. CASE EnsureConnected(f)
  BY <1>2, AwaitTypes DEF EnsureConnected, BeginConnect, rest, OtherTypes, TypeOK, Callers
<1>3. CASE Ping(f)
  BY <1>3, AwaitTypes DEF Ping, rest, OtherTypes, TypeOK, Callers
<1>4. CASE ServerFeatures(f)
  BY <1>4, AwaitTypes DEF ServerFeatures, rest, OtherTypes, TypeOK, Callers
<1>5. QED
  BY <1>1, <1>2, <1>3, <1>4 DEF UserAsks

LEMMA NextTypes ==
  ASSUME TypeOK, SlotsCounted, [Next]_vars
  PROVE  TypeOK'
<1>1. RequestTypes'
  BY NextIsStep, StepTypes
<1>2. OtherTypes'
  <2>1. CASE UNCHANGED vars
    BY <2>1 DEF vars, asking, OtherTypes, TypeOK
  <2>2. QED
    BY <2>1, GoesOnTypes, SettingsTypes, BootTypes, ProgressTypes, UserAsksTypes DEF Next
<1>3. QED
  BY <1>1, <1>2 DEF RequestTypes, OtherTypes, TypeOK

LEMMA InitHolds ==
  ASSUME Init
  PROVE  TypeOK /\ SlotsCounted
<1>1. TypeOK
  <2>1. RequestTypes
    <3>1. active \in Nat /\ waiters \in Seq(Fetches)
      BY DEF Init
    <3>2. call \in [Fetches -> Calls] /\ path \in [Fetches -> Paths]
      BY DEF Init, Calls, Paths
    <3>3. reads \in [Reads -> Fetches \cup {None}]
      BY DEF Init
    <3>4. QED
      BY <3>1, <3>2, <3>3 DEF RequestTypes
  <2>2. OtherTypes
    <3>1. 0 \in 0..MaxSwitches
      BY SlotsAssumption
    <3>2. /\ at \in [Callers -> {"idle", "genesis", "tip"}]
          /\ on \in [Callers -> Fetches \cup {None}]
          /\ got \in [Callers -> {"none"} \cup Outcomes]
      BY DEF Init
    <3>3. QED
      BY <3>1, <3>2 DEF Init, OtherTypes
  <2>3. QED
    BY <2>1, <2>2 DEF RequestTypes, OtherTypes, TypeOK
<1>2. Holding = {}
  BY DEF Init, Holding
<1>3. SlotsCounted
  BY <1>2, FS_EmptySet, SlotsAssumption DEF Init, SlotsCounted, SlotsHeld, QueuedOnce, NoSlotFree
<1>4. QED
  BY <1>1, <1>3

(* Every variable keeps its type; the counter of the requests in flight is  *)
(* never below zero.                                                        *)
THEOREM TypesHold == Spec => []TypeOK
<1>1. Init => TypeOK /\ SlotsCounted
  BY InitHolds
<1>2. TypeOK /\ SlotsCounted /\ [Next]_vars => (TypeOK /\ SlotsCounted)'
  BY NextTypes, NextIsStep, StepKeepsSlots
<1>3. QED
  BY <1>1, <1>2, PTL DEF Spec

(* With any number of slots and requests: the counter is the number of      *)
(* requests that have a slot and at most Slots, the queue holds each waiting *)
(* request once, and no request waits beside a free slot - which is what    *)
(* passing the slot on without counting could break.                        *)
THEOREM SlotsHold == Spec => []SlotsCounted
<1>1. Init => TypeOK /\ SlotsCounted
  BY InitHolds
<1>2. TypeOK /\ SlotsCounted /\ [Next]_vars => (TypeOK /\ SlotsCounted)'
  BY NextTypes, NextIsStep, StepKeepsSlots
<1>3. QED
  BY <1>1, <1>2, PTL DEF Spec
-----------------------------------------------------------------------------
(* Requests are served as SlotQueue says.                                   *)
LEMMA SameCardinality ==
  Queue!Cardinality(Holding) = Cardinality(Holding)
  BY DEF Cardinality, Queue!Cardinality

LEMMA StepIsQueueStep ==
  ASSUME TypeOK, SlotsCounted, Steps
  PROVE  [Queue!Next]_<<Holding, waiters>>
<1>1. active \in Nat /\ waiters \in Seq(Fetches) /\ call \in [Fetches -> Calls]
  BY DEF TypeOK
<1>2. CASE UNCHANGED requests
  BY <1>2 DEF requests, slots, Holding
<1>3. CASE Moved
  BY <1>3 DEF Moved, Holding
<1>4. ASSUME NEW f \in Fetches, Made(f) PROVE Queue!Take(f) \/ Queue!Wait(f)
  <2>1. call[f] = "idle" /\ Enter(f)
    BY <1>4 DEF Made, Makes, Fresh
  <2>2. f \notin Holding \cup Queue!Queued
    BY <2>1 DEF Holding, Queue!Queued, SlotsCounted, QueuedOnce
  <2>3. CASE active >= Slots
    <3>1. Holding' = Holding
      BY <1>1, <2>1, <2>3 DEF Enter, Holding
    <3>2. waiters' = Append(waiters, f)
      BY <2>1, <2>3 DEF Enter
    <3>3. Cardinality(Holding) >= Slots
      BY <2>3 DEF SlotsCounted, SlotsHeld
    <3>4. QED
      BY <2>2, <3>1, <3>2, <3>3, SameCardinality DEF Queue!Wait
  <2>4. CASE ~(active >= Slots)
    <3>1. Holding' = Holding \cup {f}
      BY <1>1, <2>1, <2>4 DEF Enter, Holding
    <3>2. Cardinality(Holding) < Slots
      BY <1>1, <2>4, SlotsAssumption DEF SlotsCounted, SlotsHeld
    <3>3. waiters' = waiters
      BY <2>1, <2>4 DEF Enter
    <3>4. QED
      BY <2>2, <3>1, <3>2, <3>3, SameCardinality DEF Queue!Take
  <2>5. QED
    BY <2>3, <2>4
<1>5. ASSUME NEW f \in Fetches, Finished(f) PROVE Queue!GiveBack(f)
  <2>1. f \in Holding /\ call[f] # "waiting" /\ Release(f)
    BY <1>5 DEF Finished, Holding, Outcomes
  <2>2. CASE waiters = <<>>
    BY <1>1, <2>1, <2>2 DEF Release, Queue!GiveBack, Holding
  <2>3. CASE waiters # <<>>
    <3>1. Head(waiters) \in Fetches /\ call[Head(waiters)] = "waiting"
      BY <1>1, <2>3 DEF SlotsCounted, QueuedOnce
    <3>2. Holding' = (Holding \ {f}) \cup {Head(waiters)}
      BY <1>1, <2>1, <2>3, <3>1 DEF Release, Holding
    <3>3. QED
      BY <2>1, <2>3, <3>2 DEF Release, Queue!GiveBack
  <2>4. QED
    BY <2>2, <2>3
<1>6. QED
  BY <1>2, <1>3, <1>4, <1>5 DEF Steps, Queue!Next

(* The adapter implements the queue of slots: requests get their slots in   *)
(* the order they came, none gets two, and none is passed over, whatever    *)
(* the setting, the timers and the network do.                              *)
THEOREM AdapterImplementsSlotQueue == Spec => ServedInOrder
<1>1. Init => TypeOK /\ SlotsCounted
  BY InitHolds
<1>2. TypeOK /\ SlotsCounted /\ [Next]_vars => (TypeOK /\ SlotsCounted)'
  BY NextTypes, NextIsStep, StepKeepsSlots
<1>3. Init => Queue!Init
  BY DEF Init, Queue!Init, Holding
<1>4. TypeOK /\ SlotsCounted /\ [Next]_vars => [Queue!Next]_<<Holding, waiters>>
  BY NextIsStep, StepIsQueueStep
<1>5. QED
  BY <1>1, <1>2, <1>3, <1>4, PTL DEF Spec, ServedInOrder, Queue!Spec
-----------------------------------------------------------------------------
(* Reads are shared.                                                        *)
LEMMA StepKeepsReads ==
  ASSUME TypeOK, SlotsCounted, OneReadPerPath, Steps
  PROVE  OneReadPerPath'
<1>1. /\ call \in [Fetches -> Calls] /\ path \in [Fetches -> Paths]
      /\ reads \in [Reads -> Fetches \cup {None}] /\ waiters \in Seq(Fetches)
  BY DEF TypeOK
<1>2. CASE UNCHANGED requests
  BY <1>2 DEF requests, OneReadPerPath
<1>3. CASE Moved
  <2>1. \A f \in Fetches : call'[f] # "idle" <=> call[f] # "idle"
    BY <1>3 DEF Moved
  <2>2. QED
    BY <1>1, <1>3, <2>1 DEF Moved, OneReadPerPath
<1>4. ASSUME NEW f \in Fetches, Made(f) PROVE OneReadPerPath'
  <2>1. PICK p \in Paths : /\ call[f] = "idle" /\ path' = [path EXCEPT ![f] = p]
                           /\ \/ p = "post" /\ reads' = reads
                              \/ p \in Reads /\ reads[p] = None /\ reads' = [reads EXCEPT ![p] = f]
    BY <1>4 DEF Made, Makes, Fresh, Paths
  <2>2. call'[f] # "idle" /\ \A g \in Fetches \ {f} : call'[g] = call[g]
    BY <1>1, <1>4 DEF Made, Makes, Fresh, Enter
  <2>3. ASSUME NEW g \in Fetches, call'[g] # "idle", path'[g] # "post"
        PROVE  reads'[path'[g]] = g
    <3>1. CASE g = f
      BY <1>1, <2>1, <2>3, <3>1
    <3>2. CASE g # f
      <4>1. path'[g] = path[g] /\ path[g] \in Reads /\ reads[path[g]] = g
        BY <1>1, <2>1, <2>2, <2>3, <3>2 DEF OneReadPerPath, Paths
      <4>2. QED
        BY <1>1, <2>1, <4>1, FetchesAssumption
    <3>3. QED
      BY <3>1, <3>2
  <2>4. ASSUME NEW q \in Reads, reads'[q] # None
        PROVE  call'[reads'[q]] # "idle" /\ path'[reads'[q]] = q
    <3>1. CASE reads'[q] = f
      BY <1>1, <2>1, <2>2, <2>4, <3>1 DEF OneReadPerPath
    <3>2. CASE reads'[q] # f
      BY <1>1, <2>1, <2>2, <2>4, <3>2 DEF OneReadPerPath
    <3>3. QED
      BY <3>1, <3>2
  <2>5. QED
    BY <2>3, <2>4 DEF OneReadPerPath
<1>5. ASSUME NEW f \in Fetches, Finished(f) PROVE OneReadPerPath'
  <2>1. /\ call[f] # "idle" /\ call'[f] = "idle"
        /\ \A g \in Fetches \ {f} : call'[g] # "idle" <=> call[g] # "idle"
    <3>1. CASE waiters = <<>>
      BY <1>1, <1>5, <3>1 DEF Finished, Release, Outcomes
    <3>2. CASE waiters # <<>>
      <4>1. Head(waiters) \in Fetches /\ call[Head(waiters)] = "waiting"
        BY <1>1, <3>2 DEF SlotsCounted, QueuedOnce
      <4>2. QED
        BY <1>1, <1>5, <3>2, <4>1 DEF Finished, Release, Outcomes
    <3>3. QED
      BY <3>1, <3>2
  <2>2. path' = [path EXCEPT ![f] = "post"] /\ reads' = [p \in Reads |-> IF reads[p] = f THEN None ELSE reads[p]]
    BY <1>5 DEF Finished, Unread
  <2>3. ASSUME NEW g \in Fetches, call'[g] # "idle", path'[g] # "post"
        PROVE  reads'[path'[g]] = g
    <3>1. g # f /\ path'[g] = path[g] /\ path[g] \in Reads /\ reads[path[g]] = g
      BY <1>1, <2>1, <2>2, <2>3 DEF OneReadPerPath, Paths
    <3>2. QED
      BY <2>2, <3>1
  <2>4. ASSUME NEW q \in Reads, reads'[q] # None
        PROVE  call'[reads'[q]] # "idle" /\ path'[reads'[q]] = q
    <3>1. reads'[q] = reads[q] /\ reads[q] \in Fetches \ {f}
      BY <1>1, <2>2, <2>4
    <3>2. QED
      BY <1>1, <2>1, <2>2, <3>1, FetchesAssumption DEF OneReadPerPath
  <2>5. QED
    BY <2>3, <2>4 DEF OneReadPerPath
<1>6. QED
  BY <1>2, <1>3, <1>4, <1>5 DEF Steps

(* The same thing is never read twice at a time, however reads join,        *)
(* queue, fail and are aborted.                                             *)
THEOREM ReadsAreShared == Spec => []OneReadPerPath
<1>1. Init => TypeOK /\ SlotsCounted /\ OneReadPerPath
  <2>1. Init => OneReadPerPath
    BY DEF Init, OneReadPerPath
  <2>2. QED
    BY <2>1, InitHolds
<1>2. TypeOK /\ SlotsCounted /\ OneReadPerPath /\ [Next]_vars
        => (TypeOK /\ SlotsCounted /\ OneReadPerPath)'
  BY NextTypes, NextIsStep, StepKeepsSlots, StepKeepsReads
<1>3. QED
  BY <1>1, <1>2, PTL DEF Spec
-----------------------------------------------------------------------------
(* The state shown.  A call that waits for the tip has seen the genesis, or *)
(* was made when the network had been verified.                             *)
TipIsSecond == at["connect"] = "tip" \/ at["ping"] = "tip" => verified
VerifiedInv == ConnectedIsVerified /\ TipIsSecond

LEMMA AwaitMoves ==
  ASSUME TypeOK, NEW c \in Callers, NEW what, NEW f, Await(c, what, f)
  PROVE  at'[c] = what /\ \A d \in Callers \ {c} : at'[d] = at[d]
  BY DEF Await, TypeOK

LEMMA NextKeepsVerified ==
  ASSUME TypeOK, VerifiedInv, [Next]_vars
  PROVE  VerifiedInv'
<1> USE DEF VerifiedInv, ConnectedIsVerified, TipIsSecond
<1>1. ASSUME NEW f \in Fetches, Progress(f) PROVE VerifiedInv'
  <2>1. CASE Done(f)
    BY <2>1 DEF Done, Published
  <2>2. CASE Proceed(f) \/ Answers(f) \/ Fails(f)
    BY <2>2 DEF Proceed, Answers, Fails, asking
  <2>3. QED
    BY <1>1, <2>1, <2>2 DEF Progress
<1>2. ASSUME NEW f \in Fetches, UserAsks(f) PROVE VerifiedInv'
  <2>1. CASE (\E p \in {"tip", "other"} : Read(p, f)) \/ Post(f)
    BY <2>1 DEF Read, Post, asking
  <2>2. CASE EnsureConnected(f)
    BY <2>2, AwaitMoves DEF EnsureConnected, BeginConnect, Callers
  <2>3. CASE Ping(f)
    BY <2>3, AwaitMoves DEF Ping, Callers
  <2>4. CASE ServerFeatures(f)
    BY <2>4, AwaitMoves DEF ServerFeatures, Callers
  <2>5. QED
    BY <1>2, <2>1, <2>2, <2>3, <2>4 DEF UserAsks
<1>3. CASE GoesOn
  <2>1. ASSUME NEW f \in Fetches \cup {None}, ConnectGetsGenesis(f) PROVE VerifiedInv'
    <3>1. CASE got["connect"] # "answered"
      <4>1. state' = "disconnected" /\ Await("connect", "idle", None)
        BY <2>1, <3>1 DEF ConnectGetsGenesis, ConnectEnds, Ended
      <4>2. at'["connect"] = "idle" /\ at'["ping"] = at["ping"]
        BY <4>1, AwaitMoves DEF Callers
      <4>3. verified' = (verified \/ got["connect"] = "answered")
        BY <2>1 DEF ConnectGetsGenesis
      <4>4. verified => verified'
        BY <4>3
      <4>5. QED
        BY <4>1, <4>2, <4>4
    <3>2. CASE got["connect"] = "answered"
      <4>1. verified' = (verified \/ got["connect"] = "answered")
        BY <2>1 DEF ConnectGetsGenesis
      <4>2. verified'
        BY <3>2, <4>1
      <4>3. QED
        BY <4>2
    <3>3. QED
      BY <3>1, <3>2
  <2>2. CASE ConnectGetsTip
    BY <2>2, AwaitMoves DEF ConnectGetsTip, ConnectEnds, Ended, Callers
  <2>3. CASE PingGetsTip
    BY <2>3, AwaitMoves DEF PingGetsTip, Ended, Callers
  <2>4. CASE FeaturesGetGenesis
    BY <2>4, AwaitMoves DEF FeaturesGetGenesis, Ended, Callers
  <2>5. QED
    BY <1>3, <2>1, <2>2, <2>3, <2>4 DEF GoesOn
<1>4. CASE Boot
  <2>1. verified' = verified
    BY <1>4 DEF Boot
  <2>2. CASE UNCHANGED <<state, asking>>
    BY <2>1, <2>2 DEF asking
  <2>3. ASSUME state' = "connecting", NEW f \in Fetches, Await("connect", "genesis", f)
        PROVE  VerifiedInv'
    BY <2>1, <2>3, AwaitMoves DEF Callers
  <2>4. QED
    BY <1>4, <2>2, <2>3 DEF Boot, BeginConnect
<1>5. CASE Settings
  <2>1. CASE ConnectDisabled \/ Disable \/ ForceDisconnect
    BY <2>1 DEF ConnectDisabled, Disable, ForceDisconnect, asking
  <2>2. ASSUME NEW f \in Fetches \cup {None}, Enable(f) PROVE VerifiedInv'
    <3>1. verified' = verified /\ state' = "connecting"
      BY <2>2 DEF Enable
    <3>2. CASE UNCHANGED asking
      BY <3>1, <3>2 DEF asking
    <3>3. CASE Await("connect", "genesis", f)
      BY <3>1, <3>3, AwaitMoves DEF Callers
    <3>4. QED
      BY <2>2, <3>2, <3>3 DEF Enable, BeginConnect
  <2>3. QED
    BY <1>5, <2>1, <2>2 DEF Settings
<1>6. CASE UNCHANGED vars
  BY <1>6 DEF vars, asking
<1>7. QED
  BY <1>1, <1>2, <1>3, <1>4, <1>5, <1>6 DEF Next

(* BlueWallet never shows "connected" before some call has seen the genesis *)
(* of Testnet3, although any request may publish the state.                 *)
THEOREM ConnectionIsVerified == Spec => []ConnectedIsVerified
<1>1. Init => TypeOK /\ SlotsCounted /\ VerifiedInv
  BY InitHolds DEF Init, VerifiedInv, ConnectedIsVerified, TipIsSecond, Callers
<1>2. TypeOK /\ SlotsCounted /\ VerifiedInv /\ [Next]_vars => (TypeOK /\ SlotsCounted /\ VerifiedInv)'
  BY NextTypes, NextIsStep, StepKeepsSlots, NextKeepsVerified
<1>3. VerifiedInv => ConnectedIsVerified
  BY DEF VerifiedInv
<1>4. QED
  BY <1>1, <1>2, <1>3, PTL DEF Spec
-----------------------------------------------------------------------------
(* The closed transport.                                                    *)
QuietStep == wallet = "keeper" /\ disabled => \A f \in Fetches : call[f] # "sent" => call'[f] # "sent"

LEMMA RequestStepIsQuiet ==
  ASSUME TypeOK, SlotsCounted,
         UNCHANGED requests \/ \E f \in Fetches : Made(f) \/ Finished(f)
  PROVE  \A g \in Fetches : call[g] # "sent" => call'[g] # "sent"
<1>1. call \in [Fetches -> Calls] /\ waiters \in Seq(Fetches)
  BY DEF TypeOK
<1>2. CASE UNCHANGED requests
  BY <1>2 DEF requests
<1>3. ASSUME NEW f \in Fetches, Made(f), NEW g \in Fetches, call[g] # "sent" PROVE call'[g] # "sent"
  BY <1>1, <1>3 DEF Made, Makes, Fresh, Enter
<1>4. ASSUME NEW f \in Fetches, Finished(f), NEW g \in Fetches, call[g] # "sent" PROVE call'[g] # "sent"
  BY <1>1, <1>4 DEF Finished, Release
<1>5. QED
  BY <1>2, <1>3, <1>4

LEMMA NextIsQuiet ==
  ASSUME TypeOK, SlotsCounted, [Next]_vars
  PROVE  QuietStep
<1>1. SUFFICES ASSUME wallet = "keeper", disabled
               PROVE  \A f \in Fetches : call[f] # "sent" => call'[f] # "sent"
  BY DEF QuietStep
<1>2. call \in [Fetches -> Calls]
  BY DEF TypeOK
<1>3. ASSUME NEW f \in Fetches, Progress(f)
      PROVE  \A g \in Fetches : call[g] # "sent" => call'[g] # "sent"
  <2>1. CASE Proceed(f)
    BY <1>1, <1>2, <2>1 DEF Proceed
  <2>2. CASE Answers(f) \/ Fails(f)
    BY <1>2, <2>2 DEF Answers, Fails
  <2>3. CASE Done(f)
    BY <2>3, RequestStepIsQuiet DEF Done, Finished
  <2>4. QED
    BY <1>3, <2>1, <2>2, <2>3 DEF Progress
<1>4. ASSUME NEW f \in Fetches, UserAsks(f)
      PROVE  \A g \in Fetches : call[g] # "sent" => call'[g] # "sent"
  <2>1. \/ \E p \in Reads : Makes(p, f)
        \/ Fresh(f, "post") /\ reads' = reads
        \/ \E p \in Reads : Asks(p, f, disabled)
    BY <1>1, <1>4 DEF UserAsks, Read, Post, EnsureConnected, Ping, ServerFeatures, Reads
  <2>2. QED
    BY <2>1, AsksIsStep, RequestStepIsQuiet DEF Made, TypeOK
<1>5. CASE GoesOn
  <2>1. \/ UNCHANGED requests
        \/ \E f \in Fetches \cup {None} : Asks("tip", f, disabled)
    BY <1>5 DEF GoesOn, ConnectGetsGenesis, ConnectGetsTip, PingGetsTip, FeaturesGetGenesis
  <2>2. QED
    BY <2>1, AsksIsStep, RequestStepIsQuiet DEF TypeOK, Reads
<1>6. CASE Settings
  <2>1. UNCHANGED requests \/ call' = Aborted
    BY <1>1, <1>6 DEF Settings, ConnectDisabled, Disable, ForceDisconnect, Enable
  <2>2. QED
    BY <1>2, <2>1 DEF requests, Aborted
<1>7. CASE Boot
  BY <1>1, <1>7 DEF Boot
<1>8. CASE UNCHANGED vars
  BY <1>8 DEF vars, requests
<1>9. QED
  BY <1>3, <1>4, <1>5, <1>6, <1>7, <1>8 DEF Next

(* Once it is closed Keeper's transport sends nothing, for every number of  *)
(* requests that were in flight or waiting.                                 *)
THEOREM ClosedStaysQuiet == Spec => ClosedIsQuiet
<1>1. Init => TypeOK /\ SlotsCounted
  BY InitHolds
<1>2. TypeOK /\ SlotsCounted /\ [Next]_vars => (TypeOK /\ SlotsCounted)'
  BY NextTypes, NextIsStep, StepKeepsSlots
<1>3. TypeOK /\ SlotsCounted /\ [Next]_vars => [QuietStep]_vars
  BY NextIsQuiet
<1>4. QED
  BY <1>1, <1>2, <1>3, PTL DEF Spec, ClosedIsQuiet, QuietStep
=============================================================================
