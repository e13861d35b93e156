------------------------ MODULE ElectrumRelayProofs ------------------------
(* What ElectrumRelay keeps for every set of requests and servers and every *)
(* number of slots and of calls in a batch.                                 *)
EXTENDS ElectrumRelay, TLAPS, FiniteSetTheorems

\* A thread that talks to a server has its lock, and nobody else has one.
LocksHeld ==
  /\ \A r \in Requests : at[r] \in Talking => lock[server[r]] = r
  /\ \A v \in Servers : lock[v] # None => server[lock[v]] = v /\ at[lock[v]] \in Talking

\* What a thread has read and what is to come are its own calls.
OwnCalls ==
  \A r \in Requests :
    /\ at[r] = "greeting" => due[server[r]] \subseteq {Answer(r, 0)}
    /\ at[r] = "reading" => got[r] \subseteq Asked(r) /\ due[server[r]] \subseteq Asked(r) \ got[r]

Unsent == {"new", "waiting", "busy", "calling", "greeting"}

\* Each attempt sends once, and a broadcast has one attempt.
SentCounted ==
  \A r \in Requests :
    /\ sent[r] <= attempt[r] + IF at[r] \in Unsent THEN 0 ELSE 1
    /\ r \in Broadcasts => attempt[r] = 0

Inv == TypeOK /\ SlotsCounted /\ LocksHeld /\ KeptIsClean /\ OwnCalls /\ AnswersAreItsOwn /\ SentCounted

USE DEF Talking, Holding, Ended

LEMMA AskedType ==
  ASSUME NEW r \in Requests
  PROVE  Asked(r) \subseteq Answers /\ \A a \in Asked(r) : a.of = r /\ a.id \in Ids(r)
  BY RelayAssumption DEF Asked, Answers, Answer, Ids

LEMMA InitInv ==
  ASSUME Init
  PROVE  Inv
<1>1. TypeOK
  BY DEF Init, TypeOK
<1>2. {r \in Requests : at[r] \in Holding} = {}
  BY DEF Init
<1>3. SlotsCounted
  BY <1>2, FS_EmptySet, RelayAssumption DEF Init, SlotsCounted
<1>4. LocksHeld /\ KeptIsClean /\ OwnCalls /\ AnswersAreItsOwn
  BY RelayAssumption DEF Init, LocksHeld, KeptIsClean, OwnCalls, AnswersAreItsOwn
<1>5. SentCounted
  BY DEF Init, SentCounted, Unsent
<1>6. QED
  BY <1>1, <1>3, <1>4, <1>5 DEF Inv

---------------------------------------------------------------------------
(* Types and the number of times a request is sent. *)

LEMMA TypeStep ==
  ASSUME TypeOK, SentCounted, [Next]_vars
  PROVE  TypeOK' /\ SentCounted'
<1>1. ASSUME NEW r \in Requests, Arrives(r)
      PROVE  TypeOK' /\ SentCounted'
  BY <1>1, RelayAssumption DEF Arrives, Goes, TypeOK, SentCounted, Unsent
<1>2. ASSUME NEW r \in Requests, TakesLock(r)
      PROVE  TypeOK' /\ SentCounted'
  BY <1>2 DEF TakesLock, Goes, TypeOK, SentCounted, Unsent
<1>3. ASSUME NEW r \in Requests, Connects(r)
      PROVE  TypeOK' /\ SentCounted'
  <2>1. Answer(r, 0) \in Answers
    BY RelayAssumption DEF Answer, Answers
  <2>2. QED
    BY <1>3, <2>1 DEF Connects, Goes, TypeOK, SentCounted, Unsent
<1>4. ASSUME NEW r \in Requests, Sends(r)
      PROVE  TypeOK' /\ SentCounted'
  <2>1. TypeOK'
    BY <1>4, AskedType DEF Sends, Goes, TypeOK, SentCounted, Unsent
  <2>2. SentCounted'
    BY <1>4 DEF Sends, Goes, TypeOK, SentCounted, Unsent
  <2>3. QED
    BY <2>1, <2>2
<1>5. ASSUME NEW r \in Requests, Reads(r)
      PROVE  TypeOK' /\ SentCounted'
  <2>1. PICK a \in due[server[r]] : Reads(r)!(a)
    BY <1>5 DEF Reads
  <2>2. a \in Answers
    BY <2>1 DEF TypeOK
  <2>3. CASE at[r] = "greeting"
    BY <2>1, <2>2, <2>3 DEF Goes, TypeOK, SentCounted, Unsent
  <2>4. CASE at[r] = "reading"
    BY <2>1, <2>2, <2>4 DEF Goes, TypeOK, SentCounted, Unsent
  <2>5. QED
    BY <2>1, <2>3, <2>4
<1>6. ASSUME NEW r \in Requests, Returns(r)
      PROVE  TypeOK' /\ SentCounted'
  BY <1>6 DEF Returns, Goes, TypeOK, SentCounted, Unsent
<1>7. ASSUME NEW r \in Requests, Fails(r)
      PROVE  TypeOK' /\ SentCounted'
  BY <1>7 DEF Fails, Goes, TypeOK, SentCounted, Unsent
<1>8. ASSUME NEW r \in Requests, Recovers(r)
      PROVE  TypeOK' /\ SentCounted'
  <2>1. TypeOK'
    BY <1>8 DEF Recovers, Closes, Goes, TypeOK
  <2>2. SentCounted'
    BY <1>8 DEF Recovers, Retries, Goes, TypeOK, SentCounted, Unsent
  <2>3. QED
    BY <2>1, <2>2
<1>9. ASSUME NEW r \in Requests, Leaves(r)
      PROVE  TypeOK' /\ SentCounted'
  BY <1>9 DEF Leaves, Frees, Goes, TypeOK, SentCounted, Unsent
<1>10. CASE UNCHANGED vars
  BY <1>10 DEF vars, TypeOK, SentCounted, Unsent
<1>11. QED
  BY <1>1, <1>2, <1>3, <1>4, <1>5, <1>6, <1>7, <1>8, <1>9, <1>10 DEF Next, GoesOn
---------------------------------------------------------------------------
(* Slots: they are counted with the requests that are in the relay. *)

Inside == {r \in Requests : at[r] \in Holding}

LEMMA InsideFinite == IsFiniteSet(Inside) /\ Cardinality(Inside) \in Nat
<1>1. Inside \subseteq Requests
  BY DEF Inside
<1>2. QED
  BY <1>1, RelayAssumption, FS_Subset, FS_CardinalityType

LEMMA SameSlots ==
  ASSUME SlotsCounted, used' = used, Inside' = Inside
  PROVE  SlotsCounted'
  BY DEF SlotsCounted, Inside

LEMMA SlotsStep ==
  ASSUME TypeOK, SlotsCounted, [Next]_vars
  PROVE  SlotsCounted'
<1>1. ASSUME NEW r \in Requests, Arrives(r)
      PROVE  SlotsCounted'
  <2>1. CASE HasRoom
    <3>1. r \notin Inside /\ Inside' = Inside \cup {r}
      BY <1>1, <2>1 DEF Arrives, Goes, Inside, TypeOK
    <3>2. Cardinality(Inside') = Cardinality(Inside) + 1
      BY <3>1, InsideFinite, FS_AddElement
    <3>3. QED
      BY <1>1, <2>1, <3>2, RelayAssumption DEF Arrives, HasRoom, SlotsCounted, Inside, TypeOK
  <2>2. CASE ~HasRoom
    <3>1. used' = used /\ Inside' = Inside
      BY <1>1, <2>2 DEF Arrives, Goes, Inside, TypeOK
    <3>2. QED
      BY <3>1, SameSlots
  <2>3. QED
    BY <2>1, <2>2
<1>2. ASSUME NEW r \in Requests, Leaves(r)
      PROVE  SlotsCounted'
  <2>1. r \in Inside /\ Inside' = Inside \ {r}
    BY <1>2 DEF Leaves, Goes, Inside, TypeOK
  <2>2. Cardinality(Inside') = Cardinality(Inside) - 1
    BY <2>1, InsideFinite, FS_RemoveElement
  <2>3. QED
    BY <1>2, <2>2, RelayAssumption DEF Leaves, Frees, SlotsCounted, Inside, TypeOK
<1>3. ASSUME NEW r \in Requests, TakesLock(r) \/ Connects(r) \/ Sends(r) \/ Reads(r)
                                  \/ Returns(r) \/ Fails(r) \/ Recovers(r)
      PROVE  SlotsCounted'
  <2>1. used' = used
    BY <1>3 DEF TakesLock, Connects, Sends, Reads, Returns, Fails, Recovers
  <2>2. \A q \in Requests : at'[q] \in Holding <=> at[q] \in Holding
    BY <1>3 DEF TakesLock, Connects, Sends, Reads, Returns, Fails, Recovers, Goes, TypeOK
  <2>3. QED
    BY <2>1, <2>2, SameSlots DEF Inside
<1>4. CASE UNCHANGED vars
  BY <1>4, SameSlots DEF vars, Inside
<1>5. QED
  BY <1>1, <1>2, <1>3, <1>4 DEF Next, GoesOn

---------------------------------------------------------------------------
(* Locks, connections and answers. *)

Wire == LocksHeld /\ KeptIsClean /\ OwnCalls /\ AnswersAreItsOwn

LEMMA SameWire ==
  ASSUME TypeOK, Wire, NEW r \in Requests, UNCHANGED <<lock, due, server, got>>,
         NEW where \in {"waiting", "busy", "failed", "result", "error"}, Goes(r, where),
         (at[r] \notin Talking /\ where # "failed") \/ (where = "failed" /\ at[r] \in {"calling", "greeting", "reading"}),
         (where \in {"waiting", "busy"}) => at[r] = "new",
         where = "result" => at[r] = "answered"
  PROVE  Wire'
<1>1. LocksHeld'
  BY DEF Goes, TypeOK, Wire, LocksHeld
<1>2. KeptIsClean'
  BY DEF Goes, TypeOK, Wire, LocksHeld, KeptIsClean, Answers
<1>3. OwnCalls'
  BY DEF Goes, TypeOK, Wire, OwnCalls, Asked, Answer
<1>4. AnswersAreItsOwn'
  BY DEF Goes, TypeOK, Wire, AnswersAreItsOwn, Asked
<1>5. QED
  BY <1>1, <1>2, <1>3, <1>4 DEF Wire

LEMMA TakesLockKeeps ==
  ASSUME TypeOK, Wire, NEW r \in Requests, TakesLock(r)
  PROVE  Wire'
<1>1. LocksHeld'
  BY RelayAssumption DEF TakesLock, Goes, TypeOK, Wire, LocksHeld
<1>2. KeptIsClean'
  BY RelayAssumption DEF TakesLock, Goes, TypeOK, Wire, KeptIsClean, Answers
<1>3. OwnCalls' /\ AnswersAreItsOwn'
  BY DEF TakesLock, Goes, TypeOK, Wire, OwnCalls, AnswersAreItsOwn, Asked
<1>4. QED
  BY <1>1, <1>2, <1>3 DEF Wire

\* Of two threads that talk to the same server there is only one.
LEMMA Alone ==
  ASSUME LocksHeld, NEW r \in Requests, NEW q \in Requests,
         at[r] \in Talking, at[q] \in Talking, server[q] = server[r]
  PROVE  q = r
  BY DEF LocksHeld

\* Before a thread sends, nothing is to come.
LEMMA NothingDue ==
  ASSUME TypeOK, Wire, NEW r \in Requests, at[r] = "calling"
  PROVE  due[server[r]] = {}
  BY DEF TypeOK, Wire, LocksHeld, KeptIsClean

LEMMA ConnectsKeeps ==
  ASSUME TypeOK, Wire, NEW r \in Requests, Connects(r)
  PROVE  Wire'
<1>1. LocksHeld'
  BY DEF Connects, Goes, TypeOK, Wire, LocksHeld
<1>2. KeptIsClean'
  BY DEF Connects, Goes, TypeOK, Wire, LocksHeld, KeptIsClean, Answers, Answer
<1>3. OwnCalls'
  BY Alone DEF Connects, Goes, TypeOK, Wire, OwnCalls, Asked
<1>4. AnswersAreItsOwn'
  BY DEF Connects, Goes, TypeOK, Wire, AnswersAreItsOwn, Asked
<1>5. QED
  BY <1>1, <1>2, <1>3, <1>4 DEF Wire

LEMMA SendsKeeps ==
  ASSUME TypeOK, Wire, NEW r \in Requests, Sends(r)
  PROVE  Wire'
<1>1. due' = [due EXCEPT ![server[r]] = Asked(r)]
  BY NothingDue DEF Sends
<1>2. LocksHeld'
  BY DEF Sends, Goes, TypeOK, Wire, LocksHeld
<1>3. KeptIsClean'
  BY <1>1, AskedType DEF Sends, Goes, TypeOK, Wire, LocksHeld, KeptIsClean, Answers
<1>4. \A q \in Requests : Asked(q)' = Asked(q)
  BY DEF Asked
<1>5. OwnCalls'
  BY <1>1, <1>4, Alone DEF Sends, Goes, TypeOK, Wire, OwnCalls
<1>6. AnswersAreItsOwn'
  BY <1>4 DEF Sends, Goes, TypeOK, Wire, AnswersAreItsOwn
<1>7. QED
  BY <1>2, <1>3, <1>5, <1>6 DEF Wire

LEMMA ReadsKeeps ==
  ASSUME TypeOK, Wire, NEW r \in Requests, Reads(r)
  PROVE  Wire'
<1>1. PICK a \in due[server[r]] : Reads(r)!(a)
  BY DEF Reads
<1>2. \A q \in Requests : Asked(q)' = Asked(q)
  BY DEF Asked
<1>3. due' = [due EXCEPT ![server[r]] = @ \ {a}] /\ lock' = lock /\ server' = server
  BY <1>1
<1>4. \A q \in Requests : at'[q] = at[q] \/ (q = r /\ at[r] = "greeting" /\ at'[r] = "calling" /\ a.id = 0)
  BY <1>1 DEF Goes, TypeOK
<1>5. LocksHeld'
  BY <1>3, <1>4 DEF TypeOK, Wire, LocksHeld
<1>6. KeptIsClean'
  <2>1. ASSUME NEW v \in Servers, NEW b \in due'[v]
        PROVE  lock'[v] = b.of /\ at'[b.of] \in {"greeting", "reading", "failed"}
    <3>1. b \in due[v] /\ b \in Answers
      BY <1>3, <2>1 DEF TypeOK
    <3>2. lock[v] = b.of /\ at[b.of] \in {"greeting", "reading", "failed"}
      BY <3>1 DEF Wire, KeptIsClean
    <3>3. CASE at'[b.of] = at[b.of]
      BY <1>3, <3>2, <3>3
    <3>4. CASE at'[b.of] # at[b.of]
      <4>1. b.of = r /\ at[r] = "greeting" /\ a.id = 0 /\ v = server[r]
        BY <1>4, <3>1, <3>2, <3>4, RelayAssumption DEF Answers, Wire, LocksHeld
      <4>2. b = a
        BY <3>1, <4>1 DEF Wire, OwnCalls
      <4>3. QED
        BY <1>3, <2>1, <4>1, <4>2 DEF TypeOK
    <3>5. QED
      BY <3>3, <3>4
  <2>2. QED
    BY <2>1 DEF KeptIsClean
<1>7. OwnCalls'
  <2>0. ASSUME NEW q \in Requests, at'[q] = "greeting"
        PROVE  due'[server[q]] \subseteq {Answer(q, 0)}
    BY <1>3, <1>4, <2>0 DEF Wire, OwnCalls, TypeOK
  <2>1. ASSUME NEW q \in Requests, at'[q] = "reading"
        PROVE  got'[q] \subseteq Asked(q) /\ due'[server[q]] \subseteq Asked(q) \ got'[q]
    <3>1. at[q] = "reading"
      BY <1>4, <2>1
    <3>2. got[q] \subseteq Asked(q) /\ due[server[q]] \subseteq Asked(q) \ got[q]
      BY <3>1 DEF Wire, OwnCalls
    <3>3. got'[q] \subseteq got[q] \cup (IF q = r THEN {a} ELSE {}) /\ got[q] \subseteq got'[q]
      BY <1>1, <3>1 DEF TypeOK
    <3>4. CASE q = r
      BY <1>3, <3>2, <3>3, <3>4 DEF TypeOK
    <3>5. CASE q # r
      BY <1>3, <3>2, <3>3, <3>5 DEF TypeOK
    <3>6. QED
      BY <3>4, <3>5
  <2>2. QED
    BY <1>2, <1>3, <2>0, <2>1 DEF OwnCalls, Answer
<1>8. AnswersAreItsOwn'
  BY <1>1, <1>2, <1>4 DEF TypeOK, Wire, AnswersAreItsOwn
<1>9. QED
  BY <1>5, <1>6, <1>7, <1>8 DEF Wire

\* The ids say which call an answer is for.
LEMMA CompleteIsAll ==
  ASSUME NEW r \in Requests, NEW S \in SUBSET Asked(r), {a.id : a \in S} = Ids(r)
  PROVE  S = Asked(r)
<1>1. ASSUME NEW id \in Ids(r)
      PROVE  Answer(r, id) \in S
  <2>1. PICK a \in S : a.id = id
    BY <1>1
  <2>2. PICK i \in Ids(r) : a = Answer(r, i)
    BY DEF Asked
  <2>3. QED
    BY <2>1, <2>2 DEF Answer
<1>2. QED
  BY <1>1 DEF Asked

LEMMA ReturnsKeeps ==
  ASSUME TypeOK, Wire, NEW r \in Requests, Returns(r)
  PROVE  Wire'
<1>1. got[r] = Asked(r)
  BY CompleteIsAll DEF Returns, Complete, Wire, OwnCalls
<1>2. \A q \in Requests : Asked(q)' = Asked(q)
  BY DEF Asked
<1>3. LocksHeld'
  BY RelayAssumption DEF Returns, Goes, TypeOK, Wire, LocksHeld
<1>4. KeptIsClean'
  <2>1. due[server[r]] = {}
    BY <1>1 DEF Returns, Wire, OwnCalls
  <2>2. ASSUME NEW v \in Servers, NEW b \in due[v]
        PROVE  b.of \in Requests /\ lock'[v] = b.of /\ at'[b.of] = at[b.of]
    BY <2>1, <2>2, RelayAssumption DEF Returns, Goes, TypeOK, Wire, LocksHeld, KeptIsClean, Answers
  <2>3. QED
    BY <2>2 DEF Returns, Wire, KeptIsClean
<1>5. OwnCalls' /\ AnswersAreItsOwn'
  BY <1>1, <1>2 DEF Returns, Goes, TypeOK, Wire, OwnCalls, AnswersAreItsOwn
<1>6. QED
  BY <1>3, <1>4, <1>5 DEF Wire

LEMMA RecoversKeeps ==
  ASSUME TypeOK, Wire, NEW r \in Requests, Recovers(r)
  PROVE  Wire'
<1>1. \A q \in Requests : Asked(q)' = Asked(q)
  BY DEF Asked
<1>2. LocksHeld'
  BY RelayAssumption DEF Recovers, Closes, Goes, TypeOK, Wire, LocksHeld
<1>3. KeptIsClean'
  <2>1. \A v \in Servers : due'[v] = IF v = server[r] THEN {} ELSE due[v]
    BY DEF Recovers, Closes, TypeOK
  <2>2. ASSUME NEW v \in Servers, NEW b \in due[v], v # server[r]
        PROVE  b.of \in Requests /\ lock'[v] = b.of /\ at'[b.of] = at[b.of]
    BY <2>2, RelayAssumption DEF Recovers, Goes, TypeOK, Wire, LocksHeld, KeptIsClean, Answers
  <2>3. QED
    BY <2>1, <2>2 DEF Wire, KeptIsClean
<1>4. OwnCalls' /\ AnswersAreItsOwn'
  BY <1>1 DEF Recovers, Closes, Goes, TypeOK, Wire, OwnCalls, AnswersAreItsOwn
<1>5. QED
  BY <1>2, <1>3, <1>4 DEF Wire

LEMMA WireStep ==
  ASSUME TypeOK, Wire, [Next]_vars
  PROVE  Wire'
<1>1. ASSUME NEW r \in Requests, Arrives(r)
      PROVE  Wire'
  BY <1>1, SameWire DEF Arrives
<1>2. ASSUME NEW r \in Requests, Fails(r)
      PROVE  Wire'
  BY <1>2, SameWire DEF Fails
<1>3. ASSUME NEW r \in Requests, Leaves(r)
      PROVE  Wire'
  BY <1>3, SameWire DEF Leaves
<1>4. CASE UNCHANGED vars
  BY <1>4 DEF vars, Wire, LocksHeld, KeptIsClean, OwnCalls, AnswersAreItsOwn, Asked
<1>5. QED
  BY <1>1, <1>2, <1>3, <1>4, TakesLockKeeps, ConnectsKeeps, SendsKeeps, ReadsKeeps,
     ReturnsKeeps, RecoversKeeps DEF Next, GoesOn

---------------------------------------------------------------------------
THEOREM Invariance == Spec => []Inv
<1>1. Init => Inv
  BY InitInv
<1>2. Inv /\ [Next]_vars => Inv'
  BY TypeStep, SlotsStep, WireStep DEF Inv, Wire
<1>3. QED
  BY <1>1, <1>2, PTL DEF Spec

\* Every variable keeps its type.
THEOREM TypesHold == Spec => []TypeOK
  BY Invariance, PTL DEF Inv

\* Slots are neither lost nor given back twice, and their number is kept to.
THEOREM SlotsHold == Spec => []SlotsCounted
  BY Invariance, PTL DEF Inv

\* Whatever fails when, a connection is handed on with nothing to come on it.
THEOREM ConnectionsAreClean == Spec => []KeptIsClean
  BY Invariance, PTL DEF Inv

\* Nobody is given the answer to another's call.
THEOREM OwnAnswers == Spec => []AnswersAreItsOwn
  BY Invariance, PTL DEF Inv

\* A transaction is never sent a second time.
THEOREM BroadcastsOnce == Spec => []BroadcastOnce
<1>1. ASSUME TypeOK, SentCounted
      PROVE  BroadcastOnce
  BY <1>1, RelayAssumption DEF TypeOK, SentCounted, BroadcastOnce
<1>2. QED
  BY <1>1, Invariance, PTL DEF Inv
=============================================================================
