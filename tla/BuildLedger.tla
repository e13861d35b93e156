---------------------------- MODULE BuildLedger ----------------------------
(***************************************************************************)
(* What the A/B build service promises about the job ids it hands out,     *)
(* whatever threads, restarts and clean-up do behind it: an id that was    *)
(* recorded is never forgotten, a pending build ends ready or failed, a    *)
(* ready build stays ready, and a failed one changes only when a restart   *)
(* finds its artifact.                                                     *)
(***************************************************************************)
CONSTANT Ids

VARIABLE ledger

Init == ledger = [id \in Ids |-> "unknown"]

Record(id, outcome) == /\ ledger[id] = "unknown"
                       /\ ledger' = [ledger EXCEPT ![id] = outcome]

Settle(id, outcome) == /\ ledger[id] = "pending"
                       /\ ledger' = [ledger EXCEPT ![id] = outcome]

(* A restart finds the artifacts of some jobs in place.                     *)
Find(found) == /\ \A id \in found : ledger[id] \in {"pending", "failed"}
               /\ ledger' = [id \in Ids |-> IF id \in found THEN "ready" ELSE ledger[id]]

Next == \/ \E id \in Ids, outcome \in {"pending", "ready"} : Record(id, outcome)
        \/ \E id \in Ids, outcome \in {"ready", "failed"} : Settle(id, outcome)
        \/ \E found \in SUBSET Ids : Find(found)

Spec == Init /\ [][Next]_ledger
=============================================================================
