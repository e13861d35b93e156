--------------------------- MODULE WalletNetwork ---------------------------
(***************************************************************************)
(* The HTTPS adapters that stand for an Electrum server in the BlueWallet  *)
(* and the Keeper page.  Both limit the requests in flight, let a read     *)
(* join the same read that is under way, and give a finished request's     *)
(* slot to the first one that waits.  BlueWallet's adapter can be disabled *)
(* and enabled and publishes a connection state; Keeper's is closed for    *)
(* good.  A behaviour is about one of the two.                             *)
(*                                                                         *)
(* A page runs what one event set off to its end, promises included,       *)
(* before it takes the next one: the user's actions and the timers wait    *)
(* until Quiet.  An answer may be noted earlier than the page would take   *)
(* it, which only adds orders of the promises' continuations.              *)
(***************************************************************************)
EXTENDS Naturals, Sequences, FiniteSets

CONSTANTS Fetches,     \* requests that may exist at a time, reused when done
          Slots,       \* requests that may be in flight, 4 in the code
          MaxSwitches, \* bound: changes of the setting, connections dropped
          None

ASSUME SlotsAssumption == Slots \in Nat \ {0} /\ MaxSwitches \in Nat
ASSUME FetchesAssumption == IsFiniteSet(Fetches) /\ None \notin Fetches

VARIABLES
  wallet,    \* whose adapter it is: "blue" or "keeper"
  disabled,  \* connectionDisabled, or closed
  state,     \* connectionState
  verified,  \* networkVerified
  cached,    \* tipCache has been set
  active,    \* activeRequests
  waiters,   \* the requests that wait for a slot
  call,      \* what each request does
  path,      \* what it asks for
  reads,     \* pendingReads: path to request
  at,        \* what connectMain, ping and serverFeatures wait for
  on, got,   \* the request they wait for, and what came of it
  booted,    \* the timer that connects after loading has fired
  switches

slots == <<active, waiters>>
requests == <<slots, call, path, reads>>
asking == <<at, on, got>>
rest == <<wallet, booted, switches>>
vars == <<wallet, disabled, state, verified, cached, requests, asking, booted, switches>>

\* Two paths the adapter itself reads, all others, and the POST of a transaction.
Reads == {"genesis", "tip", "other"}
Paths == Reads \cup {"post"}
\* A network answer is as expected, not as expected (another chain's genesis,
\* no height), or an error, timeout or abort.
Outcomes == {"answered", "wrong", "failed"}
Calls == {"idle", "waiting", "granted", "sent"} \cup Outcomes
Callers == {"connect", "ping", "features"}

Init ==
  /\ wallet \in {"blue", "keeper"} /\ disabled = FALSE
  /\ state = "connecting" /\ verified = FALSE /\ cached = FALSE
  /\ active = 0 /\ waiters = <<>>
  /\ call = [f \in Fetches |-> "idle"] /\ path = [f \in Fetches |-> "post"]
  /\ reads = [p \in Reads |-> None]
  /\ at = [c \in Callers |-> "idle"] /\ on = [c \in Callers |-> None]
  /\ got = [c \in Callers |-> "none"]
  /\ booted = FALSE /\ switches = 0

\* Nothing is left to run of what the last event set off.
Quiet ==
  /\ \A f \in Fetches : call[f] \in {"idle", "waiting", "sent"}
  /\ \A c \in Callers : got[c] = "none"

Switch == switches < MaxSwitches /\ switches' = switches + 1

---------------------------------------------------------------------------
(* Requests. *)

\* acquireRequestSlot
Enter(f) ==
  IF active >= Slots
  THEN waiters' = Append(waiters, f) /\ call' = [call EXCEPT ![f] = "waiting"] /\ UNCHANGED active
  ELSE active' = active + 1 /\ call' = [call EXCEPT ![f] = "granted"] /\ UNCHANGED waiters

Fresh(f, p) ==
  /\ f # None /\ call[f] = "idle"
  /\ Enter(f) /\ path' = [path EXCEPT ![f] = p]

\* A read that is under way is joined; Keeper looks at closed before that,
\* BlueWallet at the setting only when it makes a request of its own.
Joins(p, off) == reads[p] # None /\ (off => wallet = "blue")
Refused(p, off) == off /\ ~Joins(p, off)
\* Mutation: the read is not noted.
MakesUnnoted(p, f) == reads[p] = None /\ Fresh(f, p) /\ UNCHANGED reads
Makes(p, f) == reads[p] = None /\ Fresh(f, p) /\ reads' = [reads EXCEPT ![p] = f]
\* request: the read of p that the caller gets is f.
Asks(p, f, off) ==
  \/ Joins(p, off) /\ f = reads[p] /\ UNCHANGED requests
  \/ ~off /\ Makes(p, f)

\* Mutation: the slot of a request that waited is counted down when it ends.
ReleaseForgets(f) ==
  /\ active' = active - 1 /\ waiters' = waiters
  /\ call' = [call EXCEPT ![f] = "idle"]
\* Mutation: the last that came is served first.
ReleaseLast(f) ==
  IF waiters = <<>>
  THEN active' = active - 1 /\ waiters' = waiters /\ call' = [call EXCEPT ![f] = "idle"]
  ELSE /\ waiters' = SubSeq(waiters, 1, Len(waiters) - 1) /\ active' = active
       /\ call' = [call EXCEPT ![f] = "idle", ![waiters[Len(waiters)]] = "granted"]
\* releaseRequestSlot
Release(f) ==
  IF waiters = <<>>
  THEN active' = active - 1 /\ waiters' = waiters /\ call' = [call EXCEPT ![f] = "idle"]
  ELSE /\ waiters' = Tail(waiters) /\ active' = active
       /\ call' = [call EXCEPT ![f] = "idle", ![Head(waiters)] = "granted"]

\* Mutation: what waited is sent although the transport was closed meanwhile.
ProceedUnchecked(f) ==
  /\ call[f] = "granted"
  /\ call' = [call EXCEPT ![f] = "sent"]
  /\ UNCHANGED <<rest, disabled, state, verified, cached, slots, path, reads, asking>>
\* Its slot in hand a request is sent; only Keeper looks again.
Proceed(f) ==
  /\ call[f] = "granted"
  /\ call' = [call EXCEPT ![f] = IF disabled /\ wallet = "keeper" THEN "failed" ELSE "sent"]
  /\ UNCHANGED <<rest, disabled, state, verified, cached, slots, path, reads, asking>>

Answers(f) ==
  /\ call[f] = "sent"
  /\ \E outcome \in {"answered"} \cup (IF path[f] \in {"genesis", "tip"} THEN {"wrong"} ELSE {}) :
       call' = [call EXCEPT ![f] = outcome]
  /\ UNCHANGED <<rest, disabled, state, verified, cached, slots, path, reads, asking>>

\* A network or HTTP error, or the request's own timer.
Fails(f) ==
  /\ call[f] = "sent"
  /\ call' = [call EXCEPT ![f] = "failed"]
  /\ UNCHANGED <<rest, disabled, state, verified, cached, slots, path, reads, asking>>

\* Mutation: any answer counts as a connection.
PublishedUnverified(outcome) ==
  IF wallet = "keeper" THEN state
  ELSE IF outcome # "failed" THEN "connected"
  ELSE IF disabled THEN state ELSE "disconnected"
\* The connection state after a request, whoever made it.
Published(outcome) ==
  IF wallet = "keeper" THEN state
  ELSE IF outcome # "failed" THEN (IF verified THEN "connected" ELSE state)
  ELSE IF disabled THEN state ELSE "disconnected"

Unread(f) == [p \in Reads |-> IF reads[p] = f THEN None ELSE reads[p]]

\* The end of fetchResponse and request: all that joined the read get it.
\* Publishing and giving back the slot are one turn of the page; pendingReads
\* forgets the read some promises later, and who asks for it in between joins
\* a read that is over, here before Done instead of after.
Done(f) ==
  /\ call[f] \in Outcomes
  /\ state' = Published(call[f])
  /\ Release(f)
  /\ reads' = Unread(f)
  /\ cached' = (cached \/ (wallet = "blue" /\ path[f] = "tip" /\ call[f] = "answered"))
  /\ got' = [c \in Callers |-> IF on[c] = f THEN call[f] ELSE got[c]]
  /\ on' = [c \in Callers |-> IF on[c] = f THEN None ELSE on[c]]
  /\ path' = [path EXCEPT ![f] = "post"]
  /\ UNCHANGED <<rest, disabled, verified, at>>

\* The wallet's own code reads something or sends a transaction.  (Keeper's
\* reads of the genesis are as any other; BlueWallet's are below.)
Read(p, f) ==
  /\ Quiet /\ ~disabled /\ Makes(p, f)
  /\ UNCHANGED <<rest, disabled, state, verified, cached, asking>>

Post(f) ==
  /\ Quiet /\ ~disabled /\ Fresh(f, "post")
  /\ UNCHANGED <<rest, disabled, state, verified, cached, reads, asking>>

---------------------------------------------------------------------------
(* The connection of BlueWallet. *)

Await(c, what, f) ==
  /\ at' = [at EXCEPT ![c] = what] /\ on' = [on EXCEPT ![c] = f]
  /\ got' = [got EXCEPT ![c] = "none"]

Ended(c) == Await(c, "idle", None)

\* connectMain up to its first wait.
BeginConnect(f, off) == Asks("genesis", f, off) /\ Await("connect", "genesis", f)

EnsureConnected(f) ==
  /\ Quiet /\ wallet = "blue" /\ ~disabled /\ at["connect"] = "idle"
  /\ state' = "connecting" /\ BeginConnect(f, FALSE)
  /\ UNCHANGED <<rest, disabled, verified, cached>>

ConnectDisabled ==
  /\ Quiet /\ wallet = "blue" /\ disabled
  /\ state' = "disabled"
  /\ UNCHANGED <<rest, disabled, verified, cached, requests, asking>>

\* The timer set when the module was loaded.
Boot ==
  /\ Quiet /\ wallet = "blue" /\ ~booted /\ booted' = TRUE
  /\ IF disabled \/ at["connect"] # "idle"
     THEN UNCHANGED <<state, requests, asking>>
     ELSE state' = "connecting" /\ \E f \in Fetches : BeginConnect(f, FALSE)
  /\ UNCHANGED <<wallet, switches, disabled, verified, cached>>

\* Mutation: a failed connection is only logged.
ConnectEndsSilently(s) == state' = state /\ Ended("connect")
ConnectEnds(s) == state' = s /\ Ended("connect")

\* connectMain goes on with the genesis; the tip is read again when the one
\* it has is old.
ConnectGetsGenesis(f) ==
  /\ at["connect"] = "genesis" /\ got["connect"] # "none"
  /\ verified' = (verified \/ got["connect"] = "answered")
  /\ IF got["connect"] # "answered"
     THEN f = None /\ ConnectEnds("disconnected") /\ UNCHANGED requests
     ELSE \/ f = None /\ cached /\ ConnectEnds("connected") /\ UNCHANGED requests
          \/ /\ f = None /\ Refused("tip", disabled)
             /\ ConnectEnds("disconnected") /\ UNCHANGED requests
          \/ Asks("tip", f, disabled) /\ Await("connect", "tip", f) /\ UNCHANGED state
  /\ UNCHANGED <<rest, disabled, cached>>

ConnectGetsTip ==
  /\ at["connect"] = "tip" /\ got["connect"] # "none"
  /\ ConnectEnds(IF got["connect"] = "answered" THEN "connected" ELSE "disconnected")
  /\ UNCHANGED <<rest, disabled, verified, cached, requests>>

\* ping before the network is verified is connectMain.
Ping(f) ==
  /\ Quiet /\ wallet = "blue" /\ ~disabled /\ verified /\ at["ping"] = "idle"
  /\ Asks("tip", f, disabled) /\ Await("ping", "tip", f)
  /\ UNCHANGED <<rest, disabled, state, verified, cached>>

PingGetsTip ==
  /\ at["ping"] = "tip" /\ got["ping"] # "none" /\ Ended("ping")
  /\ state' = IF got["ping"] = "answered" THEN "connected" ELSE "disconnected"
  /\ UNCHANGED <<rest, disabled, verified, cached, requests>>

ServerFeatures(f) ==
  /\ Quiet /\ wallet = "blue" /\ at["features"] = "idle"
  /\ Asks("genesis", f, disabled) /\ Await("features", "genesis", f)
  /\ UNCHANGED <<rest, disabled, state, verified, cached>>

FeaturesGetGenesis ==
  /\ at["features"] = "genesis" /\ got["features"] # "none" /\ Ended("features")
  /\ IF got["features"] = "answered"
     THEN verified' = TRUE /\ state' = "connected" ELSE UNCHANGED <<verified, state>>
  /\ UNCHANGED <<rest, disabled, cached, requests>>

---------------------------------------------------------------------------
(* The setting. *)

\* The controllers of the requests that were sent; those that wait have none.
Aborted == [f \in Fetches |-> IF call[f] = "sent" THEN "failed" ELSE call[f]]

\* setDisabled(true), close
Disable ==
  /\ Quiet /\ Switch
  /\ disabled' = TRUE /\ call' = Aborted
  /\ state' = IF wallet = "blue" THEN "disabled" ELSE state
  /\ UNCHANGED <<wallet, booted, verified, cached, slots, path, reads, asking>>

\* setDisabled(false); a connection that is being made is joined.
Enable(f) ==
  /\ Quiet /\ wallet = "blue" /\ Switch
  /\ disabled' = FALSE /\ state' = "connecting"
  /\ \/ at["connect"] # "idle" /\ f = None /\ UNCHANGED <<requests, asking>>
     \/ at["connect"] = "idle" /\ BeginConnect(f, FALSE)
  /\ UNCHANGED <<wallet, booted, verified, cached>>

ForceDisconnect ==
  /\ Quiet /\ wallet = "blue" /\ Switch
  /\ call' = Aborted /\ state' = IF disabled THEN "disabled" ELSE "disconnected"
  /\ UNCHANGED <<wallet, booted, disabled, verified, cached, slots, path, reads, asking>>

---------------------------------------------------------------------------
Progress(f) == Proceed(f) \/ Answers(f) \/ Fails(f) \/ Done(f)
GoesOn ==
  \/ \E f \in Fetches \cup {None} : ConnectGetsGenesis(f)
  \/ ConnectGetsTip \/ PingGetsTip \/ FeaturesGetGenesis

UserAsks(f) ==
  \/ \E p \in {"tip", "other"} : Read(p, f)
  \/ Post(f) \/ EnsureConnected(f) \/ Ping(f) \/ ServerFeatures(f)
Settings ==
  \/ ConnectDisabled \/ Disable \/ ForceDisconnect
  \/ \E f \in Fetches \cup {None} : Enable(f)

Next == GoesOn \/ Boot \/ Settings \/ \E f \in Fetches : Progress(f) \/ UserAsks(f)

\* A sent request is answered or its timer aborts it (20 s, 15 s in Keeper);
\* promises are continued; the boot timer fires when the page has time for it,
\* again and again if it did not have a request to spare.
Fairness ==
  /\ \A f \in Fetches : WF_vars(Progress(f))
  /\ WF_vars(GoesOn) /\ SF_vars(Boot)

Spec == Init /\ [][Next]_vars /\ Fairness

---------------------------------------------------------------------------
TypeOK ==
  /\ wallet \in {"blue", "keeper"} /\ disabled \in BOOLEAN
  /\ state \in {"disabled", "disconnected", "connecting", "connected"}
  /\ verified \in BOOLEAN /\ cached \in BOOLEAN
  /\ active \in Nat /\ waiters \in Seq(Fetches)
  /\ call \in [Fetches -> Calls] /\ path \in [Fetches -> Paths]
  /\ reads \in [Reads -> Fetches \cup {None}]
  /\ at \in [Callers -> {"idle", "genesis", "tip"}]
  /\ on \in [Callers -> Fetches \cup {None}]
  /\ got \in [Callers -> {"none"} \cup Outcomes]
  /\ booted \in BOOLEAN /\ switches \in 0..MaxSwitches

Holding == {f \in Fetches : call[f] \notin {"idle", "waiting"}}

SlotsHeld == active = Cardinality(Holding) /\ active <= Slots
QueuedOnce ==
  /\ \A f \in Fetches : call[f] = "waiting" <=> \E i \in 1..Len(waiters) : waiters[i] = f
  /\ \A i, j \in 1..Len(waiters) : waiters[i] = waiters[j] => i = j
NoSlotFree == waiters # <<>> => active = Slots
\* The counter is the number of requests that have a slot, those to whom a
\* finished one passed its own included; the queue is exactly the requests that
\* wait, each once, and nobody waits while a slot is free.
SlotsCounted == SlotsHeld /\ QueuedOnce /\ NoSlotFree

\* The same thing is never read twice at a time: each read under way is the one
\* pendingReads has, and pendingReads has no other.
OneReadPerPath ==
  /\ \A f \in Fetches : call[f] # "idle" /\ path[f] # "post" => reads[path[f]] = f
  /\ \A p \in Reads : reads[p] # None => call[reads[p]] # "idle" /\ path[reads[p]] = p

\* BlueWallet shows a connection only to a server that has proved to be on
\* Testnet3, whichever of its calls found out and in whatever order.
ConnectedIsVerified == state = "connected" => verified

\* A closed Keeper transport sends nothing more, not even what had been waiting
\* for a slot when it was closed.
ClosedIsQuiet ==
  [][wallet = "keeper" /\ disabled => \A f \in Fetches : call[f] # "sent" => call'[f] # "sent"]_vars

\* The requests are served as SlotQueue says: in order, and none twice.
Queue == INSTANCE SlotQueue WITH Clients <- Fetches, holding <- Holding, queue <- waiters
ServedInOrder == Queue!Spec

\* Every request comes to its end, those that had to wait too.
RequestsEnd == \A f \in Fetches : call[f] # "idle" ~> call[f] = "idle"

\* BlueWallet does not stay at "connecting": whatever happens to the connection
\* being made, and to the setting, another state follows.
ConnectingEnds == state = "connecting" /\ wallet = "blue" ~> state # "connecting"
=============================================================================
