--------------------------- MODULE ElectrumRelay ---------------------------
(***************************************************************************)
(* The Electrum relay: threads of the HTTP server that carry wallet        *)
(* requests to a few public Electrum servers.  Eight slots bound how many  *)
(* are in it, a lock per server lets one of them talk to the server, and   *)
(* the connection is kept for the next one.  Every request uses the same   *)
(* ids on it, so that an answer that is still to come when the connection  *)
(* is handed on would be taken for the next one's.                         *)
(*                                                                         *)
(* What a server has been asked and the thread has not read is due on the  *)
(* connection; the server answers in any order, late, or not at all.       *)
(***************************************************************************)
EXTENDS Integers, FiniteSets

CONSTANTS Requests,  \* HTTP requests, one thread each
          Batches, Broadcasts, \* those that are a batch, and those not to be repeated
          Servers,
          Slots,     \* _slots
          Batch,     \* calls in a batch
          None

ASSUME RelayAssumption ==
  /\ Batches \subseteq Requests /\ Broadcasts \subseteq Requests \ Batches
  /\ None \notin Requests \cup Servers /\ IsFiniteSet(Requests)
  /\ Slots \in Nat \ {0} /\ Batch \in Nat \ {0}

VARIABLES
  used,    \* slots taken
  lock,    \* _locks: who has a server's
  up,      \* _connections: whether there is one
  due,     \* the answers to come on it
  at,      \* where a request's thread is
  server,  \* the server it is for
  attempt,
  got,     \* responses
  sent     \* how often it was sent

vars == <<used, lock, up, due, at, server, attempt, got, sent>>

Talking == {"calling", "greeting", "reading", "failed"}
Holding == Talking \cup {"waiting", "answered", "failing"}
Ended == {"result", "error", "busy"}

Answer(r, id) == [of |-> r, id |-> id]
Answers == [of : Requests, id : 0..Batch]
Ids(r) == IF r \in Batches THEN 1..Batch ELSE {1}
Asked(r) == {Answer(r, id) : id \in Ids(r)}

Init ==
  /\ used = 0 /\ lock = [v \in Servers |-> None]
  /\ up = [v \in Servers |-> FALSE] /\ due = [v \in Servers |-> {}]
  /\ at = [r \in Requests |-> "new"]
  /\ server \in [Requests -> Servers]
  /\ attempt = [r \in Requests |-> 0] /\ got = [r \in Requests |-> {}]
  /\ sent = [r \in Requests |-> 0]

Goes(r, where) == at' = [at EXCEPT ![r] = where]
---------------------------------------------------------------------------
\* _slots.acquire(blocking=False)
HasRoom == used < Slots

Arrives(r) ==
  /\ at[r] = "new"
  /\ IF HasRoom THEN Goes(r, "waiting") /\ used' = used + 1
     ELSE Goes(r, "busy") /\ UNCHANGED used
  /\ UNCHANGED <<lock, up, due, server, attempt, got, sent>>

\* with _locks[server]
TakesLock(r) ==
  /\ at[r] = "waiting" /\ lock[server[r]] = None
  /\ lock' = [lock EXCEPT ![server[r]] = r] /\ Goes(r, "calling")
  /\ UNCHANGED <<used, up, due, server, attempt, got, sent>>

\* _connection: there is none, the server's version is asked on a new one.
Connects(r) ==
  /\ at[r] = "calling" /\ ~up[server[r]] /\ Goes(r, "greeting")
  /\ up' = [up EXCEPT ![server[r]] = TRUE]
  /\ due' = [due EXCEPT ![server[r]] = {Answer(r, 0)}]
  /\ UNCHANGED <<used, lock, server, attempt, got, sent>>

\* _call, _call_many: the calls of the request go out on the connection.
Sends(r) ==
  /\ at[r] = "calling" /\ up[server[r]] /\ Goes(r, "reading")
  /\ due' = [due EXCEPT ![server[r]] = @ \cup Asked(r)]
  /\ got' = [got EXCEPT ![r] = {}] /\ sent' = [sent EXCEPT ![r] = @ + 1]
  /\ UNCHANGED <<used, lock, up, server, attempt>>

\* _read and the loop of _call_many: another id than those waited for is
\* passed over.
Reads(r) ==
  \E a \in due[server[r]] :
    /\ due' = [due EXCEPT ![server[r]] = @ \ {a}]
    /\ \/ /\ at[r] = "greeting" /\ UNCHANGED got
          /\ IF a.id = 0 THEN Goes(r, "calling") ELSE UNCHANGED at
       \/ /\ at[r] = "reading" /\ UNCHANGED at
          /\ got' = IF a.id \in Ids(r) THEN [got EXCEPT ![r] = @ \cup {a}] ELSE got
    /\ UNCHANGED <<used, lock, up, server, attempt, sent>>

\* All the ids have come.
Complete(r) == {a.id : a \in got[r]} = Ids(r)

\* Mutation: the lock stays taken when the answer is returned.
ReturnsLocked(r) ==
  /\ at[r] = "reading" /\ Complete(r) /\ Goes(r, "answered")
  /\ UNCHANGED <<used, lock, up, due, server, attempt, got, sent>>
\* The answer is returned, which leaves the lock.
Returns(r) ==
  /\ at[r] = "reading" /\ Complete(r) /\ Goes(r, "answered")
  /\ lock' = [lock EXCEPT ![server[r]] = None]
  /\ UNCHANGED <<used, up, due, server, attempt, got, sent>>

\* Connecting, sending or reading fails, or runs into its timeout, or what came
\* is an error of one of a batch.
Fails(r) ==
  /\ at[r] \in {"calling", "greeting", "reading"} /\ Goes(r, "failed")
  /\ UNCHANGED <<used, lock, up, due, server, attempt, got, sent>>

\* Mutation: broadcasts as well.
RetriesAll(r) == attempt[r] = 0
\* if attempt or method == "blockchain.transaction.broadcast": raise
Retries(r) == attempt[r] = 0 /\ r \notin Broadcasts

\* Mutation: it is closed for a second attempt only.
ClosesToRetry(r) ==
  IF ~Retries(r) THEN UNCHANGED <<up, due>>
  ELSE up' = [up EXCEPT ![server[r]] = FALSE] /\ due' = [due EXCEPT ![server[r]] = {}]
\* _connections.pop(server): whatever was to come on it is lost.
Closes(r) ==
  up' = [up EXCEPT ![server[r]] = FALSE] /\ due' = [due EXCEPT ![server[r]] = {}]

\* The except clause of query.
Recovers(r) ==
  /\ at[r] = "failed" /\ Closes(r)
  /\ IF Retries(r)
     THEN Goes(r, "calling") /\ attempt' = [attempt EXCEPT ![r] = 1] /\ UNCHANGED lock
     ELSE /\ Goes(r, "failing") /\ UNCHANGED attempt
          /\ lock' = [lock EXCEPT ![server[r]] = None]
  /\ UNCHANGED <<used, server, got, sent>>

\* Mutation: the slot of a request that failed is not given back.
FreesIfAnswered(r) == IF at[r] = "answered" THEN used - 1 ELSE used
\* _slots.release() in the finally clause
Frees(r) == used - 1

Leaves(r) ==
  /\ at[r] \in {"answered", "failing"} /\ used' = Frees(r)
  /\ Goes(r, IF at[r] = "answered" THEN "result" ELSE "error")
  /\ UNCHANGED <<lock, up, due, server, attempt, got, sent>>

---------------------------------------------------------------------------
\* A thread that has the lock goes on; a read ends by its timeout at the latest.
GoesOn(r) ==
  Connects(r) \/ Sends(r) \/ Reads(r) \/ Returns(r) \/ Fails(r) \/ Recovers(r) \/ Leaves(r)

Next == \E r \in Requests : Arrives(r) \/ TakesLock(r) \/ GoesOn(r)

\* Requests come or do not; the operating system gives a free lock to one of
\* those who wait.
Fairness == \A r \in Requests : WF_vars(TakesLock(r)) /\ WF_vars(GoesOn(r))

Spec == Init /\ [][Next]_vars /\ Fairness

---------------------------------------------------------------------------
TypeOK ==
  /\ used \in Int /\ lock \in [Servers -> Requests \cup {None}]
  /\ up \in [Servers -> BOOLEAN] /\ due \in [Servers -> SUBSET Answers]
  /\ at \in [Requests -> Holding \cup Ended \cup {"new"}]
  /\ server \in [Requests -> Servers]
  /\ attempt \in [Requests -> 0..1] /\ got \in [Requests -> SUBSET Answers]
  /\ sent \in [Requests -> 0..2]

\* A slot is given back once, whichever way its request ends, and no more than
\* there are are taken.
SlotsCounted == used = Cardinality({r \in Requests : at[r] \in Holding}) /\ used <= Slots

\* A connection is handed on, or opened again, with nothing to come on it: a
\* request whose call has not gone out finds no answer to another's.
KeptIsClean ==
  \A v \in Servers : \A a \in due[v] :
    lock[v] = a.of /\ at[a.of] \in {"greeting", "reading", "failed"}

\* What a request returns are the answers to its own calls, one for each,
\* though all requests use the same ids on the same connections.
AnswersAreItsOwn == \A r \in Requests : at[r] \in {"answered", "result"} => got[r] = Asked(r)

\* A transaction goes out at most once, whatever fails when.
BroadcastOnce == \A r \in Broadcasts : sent[r] <= 1

\* Every request comes to an end.
RequestsEnd == \A r \in Requests : at[r] \in Holding ~> at[r] \in Ended
=============================================================================
