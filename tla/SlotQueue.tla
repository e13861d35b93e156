----------------------------- MODULE SlotQueue -----------------------------
(* What the wallets' network adapters promise of their request slots: at    *)
(* most Slots clients hold one, the others are served in the order they     *)
(* came, and a slot that is given back is never free while a client waits.  *)
EXTENDS Naturals, Sequences, FiniteSets

CONSTANTS Clients, Slots

VARIABLES holding, queue

Queued == {queue[i] : i \in 1..Len(queue)}

Init == holding = {} /\ queue = <<>>

Take(c) ==
  /\ c \notin holding \cup Queued
  /\ Cardinality(holding) < Slots
  /\ holding' = holding \cup {c} /\ queue' = queue

Wait(c) ==
  /\ c \notin holding \cup Queued
  /\ Cardinality(holding) >= Slots
  /\ queue' = Append(queue, c) /\ holding' = holding

GiveBack(c) ==
  /\ c \in holding
  /\ \/ queue = <<>> /\ holding' = holding \ {c} /\ queue' = queue
     \/ /\ queue # <<>>
        /\ holding' = (holding \ {c}) \cup {Head(queue)} /\ queue' = Tail(queue)

Next == \E c \in Clients : Take(c) \/ Wait(c) \/ GiveBack(c)

Spec == Init /\ [][Next]_<<holding, queue>>
=============================================================================
