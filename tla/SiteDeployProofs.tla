-------------------------- MODULE SiteDeployProofs --------------------------
(* What SiteDeploy keeps for any number of releases, kills and rollbacks.   *)
EXTENDS SiteDeploy, TLAPS, FiniteSetTheorems

LEMMA RunsAreNumbers ==
  /\ Runs \subseteq Nat /\ IsFiniteSet(Runs)
  /\ None \notin Runs /\ Itself \notin Runs /\ None # Itself
BY DeployAssumption, FS_Interval DEF Runs, None, Itself
-----------------------------------------------------------------------------
(* The types of the state are invariant.                                    *)
LEMMA LinkToType ==
  ASSUME TypeOK, run \in Runs, NEW name \in Names, NEW target \in Runs \cup {Itself},
         LinkTo(name, target)
  PROVE  /\ links' \in [Names -> [Runs -> Targets]]
         /\ inner' \subseteq Runs \X (Runs \cup {Itself})
<1>1. links[name][run] \in Targets
  BY DEF TypeOK
<1>2. CASE links[name][run] = None
  <2>1. target \in Targets
    BY DEF Targets
  <2>2. QED
    BY <1>2, <2>1 DEF LinkTo, TypeOK
<1>3. CASE links[name][run] # None
  <2>1. Dir(links[name][run]) \in Runs
    BY <1>3 DEF LinkTo, Blocked, TypeOK
  <2>2. <<Dir(links[name][run]), target>> \in Runs \X (Runs \cup {Itself})
    BY <2>1
  <2>3. QED
    BY <1>3, <2>2 DEF LinkTo, TypeOK
<1>4. QED
  BY <1>2, <1>3

LEMMA MoveOverType ==
  ASSUME TypeOK, run \in Runs, NEW name \in Names, MoveOver(name)
  PROVE  /\ links' \in [Names -> [Runs -> Targets]]
         /\ site' \in Targets
BY DEF MoveOver, TypeOK, Targets

LEMMA ExitType ==
  ASSUME Exit
  PROVE  /\ at' \in Steps /\ previous' \in Targets /\ old' = {}
         /\ run' \in Runs \cup {None} /\ at' = "idle"
BY DEF Exit, Steps, Targets

LEMMA UpsetType ==
  ASSUME TypeOK, Upset
  PROVE  upsets' \in 0..MaxUpsets
BY DeployBounds DEF TypeOK, Upset

LEMMA TypeStep ==
  ASSUME TypeOK, [Next]_vars
  PROVE  TypeOK'
<1> USE DEF world, disk, locals
<1>1. CASE Start
  BY <1>1 DEF Start, TypeOK, Steps
<1>2. CASE Verify
  BY <1>2, ExitType DEF Verify, TypeOK, Steps
<1>3. CASE Install
  BY <1>3 DEF Install, Resolved, TypeOK, Steps, Targets
<1>4. CASE Link
  <2>1. run \in Runs /\ "current" \in Names
    BY <1>4 DEF Link, TypeOK, Names
  <2>2. CASE LinkTo("current", run) /\ at' = "switch" /\ UNCHANGED locals
    <3>1. /\ links' \in [Names -> [Runs -> Targets]]
          /\ inner' \subseteq Runs \X (Runs \cup {Itself})
      BY <2>1, <2>2, LinkToType
    <3>2. QED
      BY <1>4, <2>1, <2>2, <3>1 DEF Link, TypeOK, Steps
  <2>3. CASE Exit /\ UNCHANGED <<links, inner>>
    BY <1>4, <2>3, ExitType DEF Link, TypeOK
  <2>4. QED
    BY <1>4, <2>2, <2>3 DEF Link
<1>5. CASE Switch
  <2>1. run \in Runs /\ "current" \in Names
    BY <1>5 DEF Switch, TypeOK, Names
  <2>2. /\ links' \in [Names -> [Runs -> Targets]]
        /\ site' \in Targets
    BY <1>5, <2>1, MoveOverType DEF Switch
  <2>3. QED
    BY <1>5, <2>1, <2>2 DEF Switch, TypeOK, Steps
<1>6. CASE CheckPasses
  BY <1>6 DEF CheckPasses, TypeOK, Steps
<1>7. CASE CheckFails
  <2>1. upsets' \in 0..MaxUpsets
    BY <1>7, UpsetType DEF CheckFails, TypeOK
  <2>2. CASE PreviousIsThere
    <3>1. previous \in Runs \cup {Itself}
      BY <2>2, RunsAreNumbers DEF PreviousIsThere, Dir, TypeOK
    <3>2. QED
      BY <1>7, <2>1, <2>2, <3>1 DEF CheckFails, TypeOK, Steps
  <2>3. CASE ~PreviousIsThere
    BY <1>7, <2>1, <2>3, ExitType DEF CheckFails, TypeOK
  <2>4. QED
    BY <2>2, <2>3
<1>8. CASE Undo
  <2>1. run \in Runs /\ "rollback" \in Names
    BY <1>8 DEF Undo, TypeOK, Names
  <2>2. CASE Exit /\ UNCHANGED <<links, inner>>
    BY <1>8, <2>2, ExitType DEF Undo, TypeOK
  <2>3. CASE LinkTo("rollback", previous) /\ at' = "restore" /\ UNCHANGED locals
    <3>1. previous \in Runs \cup {Itself}
      BY <1>8 DEF Undo, TypeOK
    <3>2. /\ links' \in [Names -> [Runs -> Targets]]
          /\ inner' \subseteq Runs \X (Runs \cup {Itself})
      BY <2>1, <2>3, <3>1, LinkToType
    <3>3. QED
      BY <1>8, <2>1, <2>3, <3>2 DEF Undo, TypeOK, Steps
  <2>4. QED
    BY <1>8, <2>2, <2>3 DEF Undo
<1>9. CASE Restore
  <2>1. run \in Runs /\ "rollback" \in Names
    BY <1>9 DEF Restore, TypeOK, Names
  <2>2. /\ links' \in [Names -> [Runs -> Targets]]
        /\ site' \in Targets
    BY <1>9, <2>1, MoveOverType DEF Restore
  <2>3. QED
    BY <1>9, <2>2, ExitType DEF Restore, TypeOK
<1>10. CASE Record \/ List \/ Spare \/ Condemn
  <2>1. CASE Record
    BY <2>1 DEF Record, TypeOK, Steps
  <2>2. CASE List
    BY <2>2 DEF List, Surplus, TypeOK, Steps
  <2>3. CASE Spare
    BY <2>3 DEF Spare, TypeOK, Steps
  <2>4. CASE Condemn
    BY <2>4 DEF Condemn, TypeOK, Steps
  <2>5. QED
    BY <1>10, <2>1, <2>2, <2>3, <2>4
<1>11. CASE Tear
  BY <1>11 DEF Tear, Following, TypeOK, Steps
<1>12. CASE Remove
  BY <1>12 DEF Remove, TypeOK, Steps
<1>13. CASE End
  BY <1>13, ExitType DEF End, TypeOK
<1>14. CASE DownloadFails
  BY <1>14, ExitType, UpsetType DEF DownloadFails, TypeOK
<1>15. CASE Killed
  BY <1>15, ExitType, UpsetType DEF Killed, TypeOK
<1>16. ASSUME NEW r \in Runs, Publish(r) PROVE TypeOK'
  BY <1>16 DEF Publish, TypeOK
<1>17. ASSUME NEW r \in Runs, Rollback(r) PROVE TypeOK'
  BY <1>17, DeployBounds DEF Rollback, TypeOK, Targets
<1>18. CASE UNCHANGED vars
  BY <1>18 DEF vars, TypeOK
<1>19. QED
  BY <1>1, <1>2, <1>3, <1>4, <1>5, <1>6, <1>7, <1>8, <1>9, <1>10, <1>11, <1>12, <1>13,
     <1>14, <1>15, <1>16, <1>17, <1>18 DEF Next, Script

(* The deployment's variables keep their types.                             *)
THEOREM TypeCorrect == Spec => []TypeOK
<1>1. Init => TypeOK
  <2>1. ASSUME Init PROVE links \in [Names -> [Runs -> Targets]]
    BY <2>1 DEF Init, Targets
  <2>2. 0 \in 0..MaxRollbacks /\ 0 \in 0..MaxUpsets
    BY DeployBounds
  <2>3. QED
    BY <2>1, <2>2 DEF Init, TypeOK, Steps, Targets
<1>2. TypeOK /\ [Next]_vars => TypeOK'
  BY TypeStep
<1>3. QED
  BY <1>1, <1>2, PTL DEF Spec
-----------------------------------------------------------------------------
(* How far the script has come.  Before its note is written the release it  *)
(* deploys is newer than the one noted, and it is as new as any directory.  *)
Whole     == releases \ torn
Early     == at \in {"fetch", "install", "link", "switch", "check", "undo", "restore", "record"}
Late      == at \in {"list", "prune", "remove"}
Installed == at \in Steps \ {"idle", "fetch", "install"}

OrderInv ==
  /\ releases \subseteq published
  /\ stateFile \in published \cup {None}
  /\ at # "idle" => run \in published /\ \A x \in releases : x <= run
  /\ Early => stateFile < run
  /\ Late => stateFile = run

LEMMA OrderStep ==
  ASSUME TypeOK, OrderInv, [Next]_vars
  PROVE  OrderInv'
<1> USE RunsAreNumbers DEF world, disk, locals
<1>1. CASE Start
  <2>1. PICK r \in published : Newest(r) /\ stateFile # r /\ run' = r
    BY <1>1 DEF Start
  <2>2. r \in Nat /\ 0 < r /\ stateFile <= r /\ stateFile \in Nat
    BY <2>1 DEF TypeOK, OrderInv, Newest, None, Runs
  <2>3. \A x \in releases : x <= r
    BY <2>1 DEF OrderInv, Newest
  <2>4. QED
    BY <1>1, <2>1, <2>2, <2>3 DEF Start, OrderInv, Early, Late
<1>2. CASE Verify \/ DownloadFails \/ CheckPasses \/ CheckFails
  BY <1>2 DEF Verify, DownloadFails, CheckPasses, CheckFails, Exit, OrderInv, Early, Late
<1>3. CASE Install
  <2>1. run \in Nat
    BY <1>3 DEF Install, TypeOK
  <2>2. QED
    BY <1>3, <2>1 DEF Install, OrderInv, Early, Late
<1>4. CASE Link \/ Undo
  BY <1>4 DEF Link, Undo, Exit, OrderInv, Early, Late
<1>5. CASE Switch \/ Restore
  BY <1>5 DEF Switch, Restore, Exit, OrderInv, Early, Late
<1>6. CASE Record
  BY <1>6 DEF Record, OrderInv, Early, Late
<1>7. CASE List \/ Spare \/ Condemn \/ Tear \/ End
  BY <1>7 DEF List, Spare, Condemn, Tear, End, Exit, OrderInv, Early, Late
<1>8. CASE Remove
  BY <1>8 DEF Remove, OrderInv, Early, Late
<1>9. CASE Killed
  BY <1>9 DEF Killed, Exit, OrderInv, Early, Late
<1>10. ASSUME NEW r \in Runs, Publish(r) PROVE OrderInv'
  BY <1>10 DEF Publish, OrderInv, Early, Late
<1>11. ASSUME NEW r \in Runs, Rollback(r) PROVE OrderInv'
  BY <1>11 DEF Rollback, OrderInv, Early, Late
<1>12. CASE UNCHANGED vars
  BY <1>12 DEF vars, OrderInv, Early, Late
<1>13. QED
  BY <1>1, <1>2, <1>3, <1>4, <1>5, <1>6, <1>7, <1>8, <1>9, <1>10, <1>11, <1>12 DEF Next, Script
-----------------------------------------------------------------------------
(* What is served or will be is whole, and what is torn, or will be, has    *)
(* enough newer releases that are whole.                                    *)
WholeAfter(d) == {x \in Whole : x > d}

WholeInv ==
  /\ Installed => run \in Whole
  /\ \A d \in torn : Cardinality(WholeAfter(d)) >= Kept
  /\ at \in {"prune", "remove"} => \A d \in old : Cardinality(WholeAfter(d)) >= Kept

(* A set of releases has no more members than a set that includes it.       *)
LEMMA MoreAreMore ==
  ASSUME NEW S \in SUBSET Runs, NEW T \in SUBSET Runs, S \subseteq T, Cardinality(S) >= Kept
  PROVE  Cardinality(T) >= Kept
<1>1. IsFiniteSet(T)
  BY RunsAreNumbers, FS_Subset
<1>2. Cardinality(S) <= Cardinality(T) /\ IsFiniteSet(S)
  BY <1>1, FS_Subset
<1>3. Cardinality(S) \in Nat /\ Cardinality(T) \in Nat /\ Kept \in Nat
  BY <1>1, <1>2, FS_CardinalityType, DeployAssumption
<1>4. QED
  BY <1>2, <1>3

(* As many as are retained are at least one.                                *)
LEMMA SomeAreAfter ==
  ASSUME TypeOK, NEW d \in Runs, Cardinality(WholeAfter(d)) >= Kept
  PROVE  \E x \in Whole : x > d
<1>1. WholeAfter(d) # {}
  BY FS_EmptySet, DeployAssumption
<1>2. QED
  BY <1>1 DEF WholeAfter

(* A directory in the way of the script is a whole one.                     *)
LEMMA NewestIsWhole ==
  ASSUME TypeOK, OrderInv, WholeInv, at # "idle"
  PROVE  run \in Runs \ torn
<1>1. run \in Runs
  BY DEF TypeOK
<1>2. SUFFICES ASSUME run \in torn PROVE FALSE
  BY <1>1
<1>3. PICK x \in Whole : x > run
  BY <1>1, <1>2, SomeAreAfter DEF WholeInv
<1>4. x <= run /\ x \in Nat /\ run \in Nat
  BY <1>1, RunsAreNumbers DEF OrderInv, Whole, TypeOK
<1>5. QED
  BY <1>3, <1>4

(* A step that takes nothing from the whole releases and adds nothing to    *)
(* what is torn or condemned keeps the counts.                              *)
LEMMA CountsStay ==
  ASSUME TypeOK, TypeOK', WholeInv, Whole \subseteq Whole', torn' \subseteq torn,
         at' \in {"prune", "remove"} => at \in {"prune", "remove"} /\ old' \subseteq old
  PROVE  /\ \A d \in torn' : Cardinality(WholeAfter(d)') >= Kept
         /\ at' \in {"prune", "remove"} => \A d \in old' : Cardinality(WholeAfter(d)') >= Kept
<1>1. ASSUME NEW d \in Runs, Cardinality(WholeAfter(d)) >= Kept
      PROVE  Cardinality(WholeAfter(d)') >= Kept
  <2>1. WholeAfter(d) \subseteq WholeAfter(d)'
    BY DEF WholeAfter
  <2>2. WholeAfter(d) \subseteq Runs /\ WholeAfter(d)' \subseteq Runs
    BY DEF WholeAfter, Whole, TypeOK
  <2>3. QED
    BY <1>1, <2>1, <2>2, MoreAreMore
<1>2. torn \subseteq Runs /\ old \subseteq Runs
  BY DEF TypeOK
<1>3. QED
  BY <1>1, <1>2 DEF WholeInv

(* What is surplus has enough newer releases that are whole: a torn one     *)
(* among the newer ones has enough of its own.                              *)
LEMMA SurplusIsAfter ==
  ASSUME TypeOK, WholeInv, NEW d \in Surplus
  PROVE  Cardinality(WholeAfter(d)) >= Kept
<1>1. d \in Nat /\ releases \subseteq Nat /\ releases \subseteq Runs
  BY RunsAreNumbers DEF Surplus, TypeOK
<1>2. CASE \E t \in torn : t > d
  <2>1. PICK t \in torn : t > d
    BY <1>2
  <2>2. Cardinality(WholeAfter(t)) >= Kept /\ t \in Nat
    BY <1>1, <2>1 DEF WholeInv, TypeOK
  <2>3. ASSUME NEW x \in Whole, x > t PROVE x > d
    BY <1>1, <2>1, <2>2, <2>3 DEF Whole
  <2>4. WholeAfter(t) \in SUBSET Runs /\ WholeAfter(d) \in SUBSET Runs
    BY <1>1 DEF WholeAfter, Whole
  <2>5. WholeAfter(t) \subseteq WholeAfter(d)
    BY <2>3 DEF WholeAfter
  <2>6. QED
    BY <2>2, <2>4, <2>5, MoreAreMore
<1>3. CASE ~\E t \in torn : t > d
  <2>1. Newer(d) = WholeAfter(d)
    BY <1>3 DEF Newer, WholeAfter, Whole
  <2>2. QED
    BY <2>1 DEF Surplus
<1>4. QED
  BY <1>2, <1>3

(* What is torn is older than all the whole releases that come after it.    *)
LEMMA TearCounts ==
  ASSUME TypeOK, TypeOK', WholeInv, at = "remove", Tear
  PROVE  /\ \A t \in torn' : Cardinality(WholeAfter(t)') >= Kept
         /\ \A t \in old' : Cardinality(WholeAfter(t)') >= Kept
<1>1. PICK d \in old : Following(d) /\ d \notin torn /\ torn' = torn \cup {d}
  BY DEF Tear
<1>2. /\ UNCHANGED <<releases, old>>
      /\ Whole' = Whole \ {d}
  BY <1>1 DEF Tear, Whole, locals
<1>3. /\ d \in Nat /\ releases \subseteq Nat /\ releases \subseteq Runs
      /\ old \subseteq releases /\ torn \subseteq releases
  BY <1>1, RunsAreNumbers DEF TypeOK
<1>4. ASSUME NEW t \in releases, t <= d PROVE Cardinality(WholeAfter(t)') >= Kept
  <2>1. ASSUME NEW x \in Whole, x > d PROVE x \in Whole' /\ x > t
    BY <1>2, <1>3, <1>4, <2>1 DEF Whole
  <2>2. WholeAfter(d) \in SUBSET Runs /\ WholeAfter(t)' \in SUBSET Runs
    BY <1>2, <1>3 DEF WholeAfter, Whole
  <2>3. Cardinality(WholeAfter(d)) >= Kept
    BY <1>1 DEF WholeInv
  <2>4. WholeAfter(d) \subseteq WholeAfter(t)'
    BY <2>1 DEF WholeAfter
  <2>5. QED
    BY <2>2, <2>3, <2>4, MoreAreMore
<1>5. ASSUME NEW t \in torn, ~(t <= d) PROVE Cardinality(WholeAfter(t)') >= Kept
  <2>1. WholeAfter(t)' = WholeAfter(t)
    BY <1>2, <1>3, <1>5 DEF WholeAfter, Whole
  <2>2. QED
    BY <1>5, <2>1 DEF WholeInv
<1>6. \A t \in old : t <= d
  BY <1>1 DEF Following
<1>7. QED
  BY <1>1, <1>2, <1>3, <1>4, <1>5, <1>6

LEMMA WholeStep ==
  ASSUME TypeOK, TypeOK', OrderInv, WholeInv, [Next]_vars
  PROVE  WholeInv'
<1> USE DEF world, disk, locals
<1>1. CASE Tear
  <2>1. PICK d \in old : Following(d) /\ d \notin torn /\ torn' = torn \cup {d}
    BY <1>1 DEF Tear
  <2>2. at = "remove" /\ UNCHANGED <<releases, run, old, at>>
    BY <1>1 DEF Tear
  <2>3. PICK x \in Whole : x > d
    BY <2>1, <2>2, SomeAreAfter DEF WholeInv, TypeOK
  <2>4. d # run
    BY <2>1, <2>2, <2>3, RunsAreNumbers DEF OrderInv, Whole, TypeOK
  <2>5. run \in Whole'
    BY <2>1, <2>2, <2>4 DEF WholeInv, Installed, Whole, Steps
  <2>6. QED
    BY <1>1, <2>2, <2>5, TearCounts DEF WholeInv
<1>2. CASE List
  <2>1. UNCHANGED <<releases, torn, run>> /\ old' = Surplus /\ at = "list" /\ at' = "prune"
    BY <1>2 DEF List
  <2>2. Whole' = Whole /\ \A d : WholeAfter(d)' = WholeAfter(d)
    BY <2>1 DEF Whole, WholeAfter
  <2>3. \A d \in old' : Cardinality(WholeAfter(d)') >= Kept
    BY <2>1, <2>2, SurplusIsAfter
  <2>4. QED
    BY <2>1, <2>2, <2>3 DEF WholeInv, Installed, Steps
<1>3. CASE Install
  <2>1. run \in Runs \ torn
    BY <1>3, NewestIsWhole DEF Install
  <2>2. Whole \subseteq Whole' /\ run' \in Whole' /\ torn' = torn /\ at' = "link"
    BY <1>3, <2>1 DEF Install, Whole
  <2>3. QED
    BY <2>2, CountsStay DEF WholeInv
<1>4. CASE Remove
  <2>1. PICK d \in old : d \in torn /\ releases' = releases \ {d} /\ torn' = torn \ {d} /\ old' = old \ {d}
    BY <1>4 DEF Remove
  <2>2. Whole' = Whole /\ torn' \subseteq torn /\ old' \subseteq old /\ at = "remove" /\ run' = run
    BY <1>4, <2>1 DEF Remove, Whole
  <2>3. QED
    BY <2>2, CountsStay DEF WholeInv, Installed, Steps
<1>5. CASE UNCHANGED <<releases, torn, run>> /\ (Installed' => Installed)
           /\ (at' \in {"prune", "remove"} => at \in {"prune", "remove"} /\ old' \subseteq old)
  <2>1. Whole' = Whole
    BY <1>5 DEF Whole
  <2>2. QED
    BY <1>5, <2>1, CountsStay DEF WholeInv
<1>6. CASE Exit /\ UNCHANGED <<releases, torn>>
  <2>1. Whole' = Whole
    BY <1>6 DEF Whole
  <2>2. QED
    BY <1>6, <2>1, CountsStay DEF WholeInv, Exit, Installed
<1>7. CASE Start
  <2>1. at' = "fetch" /\ UNCHANGED <<releases, torn>>
    BY <1>7 DEF Start
  <2>2. Whole' = Whole
    BY <2>1 DEF Whole
  <2>3. QED
    BY <2>1, <2>2, CountsStay DEF WholeInv, Installed
<1>8. CASE Verify \/ DownloadFails \/ Killed \/ End
  BY <1>5, <1>6, <1>8 DEF Verify, DownloadFails, Killed, End, Installed
<1>9. CASE Link \/ Switch
  BY <1>5, <1>6, <1>9 DEF Link, Switch, Installed, Steps
<1>10. CASE CheckPasses \/ CheckFails \/ Undo \/ Restore
  BY <1>5, <1>6, <1>10 DEF CheckPasses, CheckFails, Undo, Restore, Installed, Steps
<1>11. CASE Record \/ Spare \/ Condemn
  BY <1>5, <1>11 DEF Record, Spare, Condemn, Installed, Steps
<1>12. ASSUME NEW r \in Runs, Publish(r) \/ Rollback(r) PROVE WholeInv'
  BY <1>5, <1>12 DEF Publish, Rollback, Installed
<1>13. CASE UNCHANGED vars
  BY <1>5, <1>13 DEF vars, Installed
<1>14. QED
  BY <1>1, <1>2, <1>3, <1>4, <1>7, <1>8, <1>9, <1>10, <1>11, <1>12, <1>13 DEF Next, Script
-----------------------------------------------------------------------------
(* The temporary links.  One that a kill left behind names a whole release  *)
(* for as long as its run can come again; once the run has been noted, or a *)
(* newer one published, nothing uses it any more.                           *)
Reusable(r) == \/ Early /\ run = r
               \/ stateFile # r /\ \A x \in published : x <= r

CurrentInv ==
  /\ \A r \in Runs : links["current"][r] \in {None, r}
  /\ at = "switch" => links["current"][run] = run

RollbackInv ==
  /\ \A r \in Runs : links["rollback"][r] # None => \E x \in Whole : r <= x
  /\ \A r \in Runs : links["rollback"][r] # None /\ Reusable(r) =>
       links["rollback"][r] \in Whole \/ (links["rollback"][r] = Itself /\ stateFile = None)
  /\ at = "restore" => links["rollback"][run] # None

PreviousInv ==
  /\ at \in {"link", "switch", "check", "undo"} =>
       \/ previous \in Whole \cup {None}
       \/ previous = Itself /\ stateFile = None
  /\ at = "undo" => previous # None

LinkInv == CurrentInv /\ RollbackInv /\ PreviousInv

SiteInv ==
  /\ SiteIsWhole
  /\ at \in {"check", "undo", "restore", "record"} => site \in Whole
  /\ at = "remove" => \A d \in old : Following(d) => site # d

LEMMA CurrentStep ==
  ASSUME TypeOK, CurrentInv, [Next]_vars
  PROVE  CurrentInv'
<1> USE DEF world, disk, locals
<1>1. CASE Link
  <2>1. run \in Runs /\ "current" \in Names
    BY <1>1 DEF Link, TypeOK, Names
  <2>2. CASE LinkTo("current", run) /\ at' = "switch" /\ UNCHANGED locals
    BY <2>1, <2>2 DEF LinkTo, CurrentInv, TypeOK
  <2>3. CASE Exit /\ UNCHANGED <<links, inner>>
    BY <2>3 DEF Exit, CurrentInv
  <2>4. QED
    BY <1>1, <2>2, <2>3 DEF Link
<1>2. CASE Undo
  <2>1. UNCHANGED links \/ (\E t : links' = [links EXCEPT !["rollback"][run] = t])
    BY <1>2 DEF Undo, LinkTo
  <2>2. links'["current"] = links["current"]
    BY <2>1 DEF TypeOK, Names
  <2>3. QED
    BY <1>2, <2>2 DEF Undo, Exit, CurrentInv
<1>3. CASE Switch
  <2>1. links' = [links EXCEPT !["current"][run] = None] /\ at' = "check" /\ run \in Runs
    BY <1>3 DEF Switch, MoveOver, TypeOK
  <2>2. QED
    BY <2>1 DEF CurrentInv, TypeOK, Names
<1>4. CASE Restore
  <2>1. links' = [links EXCEPT !["rollback"][run] = None] /\ at' = "idle"
    BY <1>4 DEF Restore, MoveOver, Exit
  <2>2. links'["current"] = links["current"]
    BY <2>1 DEF TypeOK, Names
  <2>3. QED
    BY <2>1, <2>2 DEF CurrentInv
<1>5. CASE links' = links /\ (at' # "switch" \/ UNCHANGED <<at, run>>)
  BY <1>5 DEF CurrentInv
<1>6. CASE Start \/ Verify \/ DownloadFails \/ Install \/ CheckPasses \/ CheckFails \/ Record \/ List
  BY <1>5, <1>6 DEF Start, Verify, DownloadFails, Install, CheckPasses, CheckFails, Record, List, Exit
<1>7. CASE Spare \/ Condemn \/ Tear \/ Remove \/ End \/ Killed
  BY <1>5, <1>7 DEF Spare, Condemn, Tear, Remove, End, Killed, Exit
<1>8. ASSUME NEW r \in Runs, Publish(r) \/ Rollback(r) PROVE CurrentInv'
  BY <1>5, <1>8 DEF Publish, Rollback
<1>9. CASE UNCHANGED vars
  BY <1>5, <1>9 DEF vars
<1>10. QED
  BY <1>1, <1>2, <1>3, <1>4, <1>6, <1>7, <1>8, <1>9 DEF Next, Script

LEMMA PreviousStep ==
  ASSUME TypeOK, WholeInv, SiteIsWhole, PreviousInv, [Next]_vars
  PROVE  PreviousInv'
<1> USE DEF world, disk, locals
<1>1. CASE Install
  <2>1. previous' = Resolved /\ at' = "link" /\ UNCHANGED <<torn, stateFile>> /\ releases \subseteq releases'
    BY <1>1 DEF Install
  <2>2. Resolved \in Whole \cup {None} \/ (Resolved = Itself /\ stateFile = None)
    BY RunsAreNumbers DEF Resolved, SiteIsWhole, Whole, TypeOK
  <2>3. QED
    BY <2>1, <2>2 DEF PreviousInv, Whole
<1>2. CASE CheckFails
  <2>1. PreviousIsThere => previous # None
    BY RunsAreNumbers DEF PreviousIsThere, Dir, TypeOK
  <2>2. UNCHANGED <<releases, torn, stateFile>> /\ at = "check"
    BY <1>2 DEF CheckFails
  <2>3. CASE PreviousIsThere
    BY <1>2, <2>1, <2>2, <2>3 DEF CheckFails, PreviousInv, Whole
  <2>4. CASE ~PreviousIsThere
    BY <1>2, <2>4 DEF CheckFails, Exit, PreviousInv
  <2>5. QED
    BY <2>3, <2>4
<1>3. CASE UNCHANGED <<releases, torn, previous, stateFile>> /\ (at' # "undo" \/ at' = at)
           /\ (at' \in {"link", "switch", "check"} => at \in {"link", "switch", "check"})
  BY <1>3 DEF PreviousInv, Whole
<1>4. CASE at' \notin {"link", "switch", "check", "undo"}
  BY <1>4 DEF PreviousInv
<1>5. CASE Start \/ Verify \/ DownloadFails \/ Link \/ Switch \/ CheckPasses
  BY <1>3, <1>4, <1>5 DEF Start, Verify, DownloadFails, Link, Switch, CheckPasses, Exit
<1>6. CASE Undo \/ Restore \/ Record \/ List \/ Spare \/ Condemn
  BY <1>4, <1>6 DEF Undo, Restore, Record, List, Spare, Condemn, Exit
<1>7. CASE Tear \/ Remove \/ End \/ Killed
  BY <1>4, <1>7 DEF Tear, Remove, End, Killed, Exit
<1>8. ASSUME NEW r \in Runs, Publish(r) \/ Rollback(r) PROVE PreviousInv'
  BY <1>3, <1>8 DEF Publish, Rollback
<1>9. CASE UNCHANGED vars
  BY <1>3, <1>9 DEF vars
<1>10. QED
  BY <1>1, <1>2, <1>5, <1>6, <1>7, <1>8, <1>9 DEF Next, Script

(* When a note is written or a release removed, no link that was left       *)
(* behind can be used again.                                                *)
LEMMA NoneReusable ==
  ASSUME TypeOK, OrderInv, WholeInv, RollbackInv, Installed, at # "restore",
         NEW r \in Runs, links["rollback"][r] # None, \A x \in published : x <= r
  PROVE  r = run
<1>1. PICK x \in Whole : r <= x
  BY DEF RollbackInv
<1>2. run \in published /\ x <= run
  BY <1>1 DEF OrderInv, Installed, Whole
<1>3. run \in Nat /\ x \in Nat /\ r \in Nat
  BY <1>1, <1>2, RunsAreNumbers DEF TypeOK, Whole
<1>4. QED
  BY <1>1, <1>2, <1>3

LEMMA RollbackStep ==
  ASSUME TypeOK, TypeOK', OrderInv, WholeInv, WholeInv', LinkInv, [Next]_vars
  PROVE  RollbackInv'
<1> USE RunsAreNumbers DEF world, disk, locals
<1> DEFINE back == links["rollback"]
<1>1. CASE back' = back /\ Whole \subseteq Whole' /\ (\A r \in Runs : Reusable(r)' => Reusable(r))
           /\ (at' # "restore" \/ UNCHANGED <<at, run>>) /\ stateFile' \in {stateFile, None}
  BY <1>1 DEF LinkInv, RollbackInv
<1>2. CASE Undo
  <2>1. at = "undo" /\ run \in Runs /\ Whole' = Whole /\ UNCHANGED <<stateFile, published>>
    BY <1>2 DEF Undo, Whole, TypeOK
  <2>2. /\ run \in Whole /\ previous # None /\ Early
        /\ previous \in Whole \/ (previous = Itself /\ stateFile = None)
    BY <2>1 DEF WholeInv, Installed, Steps, LinkInv, PreviousInv, Early
  <2>3. CASE LinkTo("rollback", previous) /\ at' = "restore" /\ UNCHANGED locals
    <3>1. \A r \in Runs : Reusable(r)' <=> Reusable(r)
      BY <2>1, <2>2, <2>3 DEF Reusable, Early
    <3>2. CASE links["rollback"][run] = None
      <4>1. \A r \in Runs : back'[r] = IF r = run THEN previous ELSE back[r]
        BY <2>1, <2>3, <3>2 DEF LinkTo, TypeOK, Names
      <4>2. run <= run
        BY <2>1
      <4>3. QED
        BY <2>1, <2>2, <2>3, <3>1, <4>1, <4>2 DEF LinkInv, RollbackInv
    <3>3. CASE links["rollback"][run] # None
      BY <2>1, <2>3, <3>1, <3>3 DEF LinkTo, LinkInv, RollbackInv
    <3>4. QED
      BY <3>2, <3>3
  <2>4. CASE Exit /\ UNCHANGED <<links, inner>>
    BY <1>1, <2>1, <2>4 DEF Exit, Reusable, Early
  <2>5. QED
    BY <1>2, <2>3, <2>4 DEF Undo
<1>3. CASE Restore
  <2>1. /\ links' = [links EXCEPT !["rollback"][run] = None] /\ at' = "idle" /\ run \in Runs
        /\ Whole' = Whole /\ UNCHANGED <<stateFile, published>>
    BY <1>3 DEF Restore, MoveOver, Exit, Whole, TypeOK
  <2>2. \A r \in Runs : back'[r] = IF r = run THEN None ELSE back[r]
    BY <2>1 DEF TypeOK, Names
  <2>3. \A r \in Runs : r # run /\ Reusable(r)' => Reusable(r)
    BY <2>1 DEF Reusable, Early
  <2>4. QED
    BY <2>1, <2>2, <2>3 DEF LinkInv, RollbackInv
<1>4. CASE Tear
  <2>1. /\ at = "remove" /\ UNCHANGED <<releases, links, stateFile, published, at, run>>
        /\ run \in Whole' /\ Late /\ Installed /\ run \in Runs
    BY <1>4 DEF Tear, Late, Installed, Steps, WholeInv, TypeOK
  <2>2. ASSUME NEW r \in Runs, back'[r] # None
        PROVE  r <= run /\ ~Reusable(r)'
    <3>1. PICK x \in Whole : r <= x
      BY <2>1, <2>2 DEF LinkInv, RollbackInv
    <3>2. x <= run /\ x \in Nat /\ run \in Nat /\ r \in Nat
      BY <2>1, <3>1 DEF OrderInv, Whole, TypeOK
    <3>3. CASE \A y \in published : y <= r
      <4>1. r = run
        BY <2>1, <2>2, <3>3, NoneReusable DEF LinkInv
      <4>2. QED
        BY <2>1, <3>2, <4>1 DEF OrderInv, Reusable, Early
    <3>4. CASE ~\A y \in published : y <= r
      BY <2>1, <3>1, <3>2, <3>4 DEF Reusable, Early
    <3>5. QED
      BY <3>3, <3>4
  <2>3. QED
    BY <2>1, <2>2 DEF RollbackInv
<1>5. CASE Record
  <2>1. /\ at = "record" /\ at' = "list" /\ stateFile' = run /\ UNCHANGED <<links, published, releases, torn>>
        /\ Installed
    BY <1>5 DEF Record, Installed, Steps
  <2>2. ASSUME NEW r \in Runs, back'[r] # None PROVE ~Reusable(r)'
    BY <2>1, <2>2, NoneReusable DEF LinkInv, Reusable, Early
  <2>3. QED
    BY <2>1, <2>2 DEF LinkInv, RollbackInv, Whole
<1>6. CASE Killed
  <2>1. /\ at' = "idle" /\ Whole' = Whole /\ UNCHANGED <<links, published>>
        /\ stateFile' \in {stateFile, None} /\ (stateFile' = stateFile \/ at = "record")
    BY <1>6 DEF Killed, Exit, Whole
  <2>2. CASE stateFile' = stateFile
    BY <1>1, <2>1, <2>2 DEF Reusable, Early
  <2>3. CASE at = "record"
    <3>1. ASSUME NEW r \in Runs, Reusable(r)' PROVE Reusable(r)
      <4>1. run \in published /\ stateFile < run /\ \A x \in published : x <= r
        BY <2>1, <2>3, <3>1 DEF OrderInv, Early, Reusable
      <4>2. run \in Nat /\ r \in Nat /\ stateFile \in Nat
        BY <4>1 DEF TypeOK, None
      <4>3. QED
        BY <4>1, <4>2 DEF Reusable
    <3>2. QED
      BY <1>1, <2>1, <3>1
  <2>4. QED
    BY <2>1, <2>2, <2>3
<1>7. CASE Start
  BY <1>1, <1>7 DEF Start, Newest, Reusable, Early, Whole
<1>8. CASE Verify \/ DownloadFails \/ Install \/ CheckPasses \/ CheckFails
  BY <1>1, <1>8 DEF Verify, DownloadFails, Install, CheckPasses, CheckFails, Exit, Reusable, Early, Whole
<1>9. CASE List \/ Spare \/ Condemn \/ Remove \/ End
  BY <1>1, <1>9 DEF List, Spare, Condemn, Remove, End, Exit, Reusable, Early, Whole
<1>10. CASE Link \/ Switch
  <2>1. back' = back
    BY <1>10 DEF Link, Switch, LinkTo, MoveOver, TypeOK, Names
  <2>2. QED
    BY <1>1, <1>10, <2>1 DEF Link, Switch, Exit, Reusable, Early, Whole
<1>11. ASSUME NEW r \in Runs, Publish(r) \/ Rollback(r) PROVE RollbackInv'
  BY <1>1, <1>11 DEF Publish, Rollback, Reusable, Early, Whole
<1>12. CASE UNCHANGED vars
  BY <1>1, <1>12 DEF vars, Reusable, Early, Whole
<1>13. QED
  BY <1>2, <1>3, <1>4, <1>5, <1>6, <1>7, <1>8, <1>9, <1>10, <1>11, <1>12 DEF Next, Script

(* The one step that tears a release is not about the one that is served:   *)
(* the link was read, and the administrator does not act in between.        *)
LEMMA SiteStep ==
  ASSUME Overlap = FALSE, TypeOK, TypeOK', OrderInv, WholeInv, WholeInv', LinkInv, SiteInv, [Next]_vars
  PROVE  SiteInv'
<1> USE RunsAreNumbers DEF world, disk, locals
<1>1. CASE /\ UNCHANGED site /\ Whole \subseteq Whole' /\ stateFile' \in {stateFile, None}
           /\ at' # "remove" \/ UNCHANGED <<at, old>>
           /\ at' \in {"check", "undo", "restore", "record"} => at \in {"check", "undo", "restore"} \/ at' = at
  BY <1>1 DEF SiteInv, SiteIsWhole, Following, Whole
<1>2. CASE Switch
  <2>1. site' = run /\ at' = "check" /\ Whole' = Whole /\ run \in Whole
    BY <1>2 DEF Switch, MoveOver, LinkInv, CurrentInv, WholeInv, Installed, Steps, Whole
  <2>2. QED
    BY <2>1 DEF SiteInv, SiteIsWhole, Whole
<1>3. CASE Restore
  <2>1. site' = links["rollback"][run] /\ at' = "idle" /\ Whole' = Whole /\ run \in Runs /\ Early
    BY <1>3 DEF Restore, MoveOver, Exit, Whole, TypeOK, Early
  <2>2. \/ links["rollback"][run] \in Whole
        \/ links["rollback"][run] = Itself /\ stateFile = None
    BY <1>3, <2>1 DEF Restore, LinkInv, RollbackInv, Reusable
  <2>3. stateFile' = stateFile
    BY <1>3 DEF Restore
  <2>4. QED
    BY <2>1, <2>2, <2>3 DEF SiteInv, SiteIsWhole, Whole
<1>4. CASE Condemn
  <2>1. PICK d \in old : Following(d) /\ site # d
    BY <1>4 DEF Condemn
  <2>2. UNCHANGED <<site, old, releases, torn, stateFile>> /\ at' = "remove"
    BY <1>4 DEF Condemn
  <2>3. ASSUME NEW e \in old, Following(e) PROVE e = d
    <3>1. e \in Nat /\ d \in Nat /\ e <= d /\ d <= e
      BY <2>1, <2>3 DEF Following, TypeOK
    <3>2. QED
      BY <3>1
  <2>4. QED
    BY <2>1, <2>2, <2>3 DEF SiteInv, SiteIsWhole, Following
<1>5. CASE Tear
  <2>1. PICK d \in old : Following(d) /\ torn' = torn \cup {d}
    BY <1>5 DEF Tear
  <2>2. at = "remove" /\ UNCHANGED <<site, old, releases, at, stateFile>>
    BY <1>5 DEF Tear
  <2>3. site # d
    BY <2>1, <2>2 DEF SiteInv
  <2>4. QED
    BY <2>1, <2>2, <2>3 DEF SiteInv, SiteIsWhole, Following
<1>6. ASSUME NEW r \in Runs, Rollback(r) PROVE SiteInv'
  <2>1. site' \in Whole /\ UNCHANGED <<releases, torn, at, old>> /\ at # "remove"
    BY <1>6 DEF Rollback, Whole
  <2>2. QED
    BY <2>1 DEF SiteInv, SiteIsWhole, Whole
<1>7. CASE Start \/ Verify \/ DownloadFails \/ Install \/ Link
  BY <1>1, <1>7 DEF Start, Verify, DownloadFails, Install, Link, Exit, Whole
<1>8. CASE CheckPasses \/ CheckFails \/ Undo \/ List
  BY <1>1, <1>8 DEF CheckPasses, CheckFails, Undo, List, Exit, Whole
<1>9. CASE Spare \/ Remove \/ End \/ Killed
  BY <1>1, <1>9 DEF Spare, Remove, End, Killed, Exit, Whole
<1>10. ASSUME NEW r \in Runs, Publish(r) PROVE SiteInv'
  BY <1>1, <1>10 DEF Publish, Whole
<1>11. CASE UNCHANGED vars
  BY <1>1, <1>11 DEF vars, Whole
<1>12. CASE Record
  <2>1. site \in Whole /\ UNCHANGED <<site, releases, torn>> /\ at' = "list"
    BY <1>12 DEF Record, SiteInv
  <2>2. QED
    BY <2>1 DEF SiteInv, SiteIsWhole, Whole
<1>13. QED
  BY <1>2, <1>3, <1>4, <1>5, <1>6, <1>7, <1>8, <1>9, <1>10, <1>11, <1>12 DEF Next, Script

DeployInv == TypeOK /\ OrderInv /\ WholeInv

LEMMA InitDeploy ==
  ASSUME Init
  PROVE  DeployInv /\ LinkInv /\ SiteInv
<1>1. TypeOK
  <2>1. links \in [Names -> [Runs -> Targets]]
    BY DEF Init, Targets
  <2>2. 0 \in 0..MaxRollbacks /\ 0 \in 0..MaxUpsets
    BY DeployBounds
  <2>3. QED
    BY <2>1, <2>2 DEF Init, TypeOK, Steps, Targets
<1>2. OrderInv /\ WholeInv
  BY DEF Init, OrderInv, WholeInv, Early, Late, Installed
<1>3. LinkInv /\ SiteInv
  BY DEF Init, LinkInv, CurrentInv, RollbackInv, PreviousInv, SiteInv, SiteIsWhole, Names
<1>4. QED
  BY <1>1, <1>2, <1>3 DEF DeployInv

LEMMA DeployHolds == Spec => []DeployInv
<1>1. Init => DeployInv
  BY InitDeploy
<1>2. DeployInv /\ [Next]_vars => DeployInv'
  BY TypeStep, OrderStep, WholeStep DEF DeployInv
<1>3. QED
  BY <1>1, <1>2, PTL DEF Spec

(* For any number of releases, kept or not, and wherever the script is      *)
(* killed, the link names a whole release, from the first note of a         *)
(* deployment on; before it the link may be missing, or be the link to      *)
(* itself that a failed first deployment leaves.  Needs that the            *)
(* administrator does not act between the look at the link and the removal. *)
THEOREM SiteStaysWhole ==
  ASSUME Overlap = FALSE
  PROVE  Spec => []SiteIsWhole
<1> DEFINE Inv == DeployInv /\ LinkInv /\ SiteInv
<1>1. Init => Inv
  BY InitDeploy
<1>2. Inv /\ [Next]_vars => Inv'
  <2>1. SUFFICES ASSUME Inv, [Next]_vars PROVE Inv'
    OBVIOUS
  <2>2. TypeOK' /\ OrderInv' /\ WholeInv'
    BY <2>1, TypeStep, OrderStep, WholeStep DEF DeployInv
  <2>3. LinkInv'
    BY <2>1, <2>2, CurrentStep, RollbackStep, PreviousStep DEF DeployInv, LinkInv, SiteInv
  <2>4. SiteInv'
    BY <2>1, <2>2, SiteStep DEF DeployInv
  <2>5. QED
    BY <2>2, <2>3, <2>4 DEF DeployInv
<1>3. Inv => SiteIsWhole
  BY DEF SiteInv
<1>4. QED
  BY <1>1, <1>2, <1>3, PTL DEF Spec
-----------------------------------------------------------------------------
(* Pruning spares the newest releases, also after it was killed half way.   *)
THEOREM RetentionIsKept == Spec => RetentionKept
<1> DEFINE Spared == \A d \in releases \ torn : d \notin releases' \ torn' =>
                       Cardinality({x \in releases' \ torn' : x > d}) >= Kept
<1>1. DeployInv /\ DeployInv' /\ [Next]_vars => [Spared]_vars
  <2>1. SUFFICES ASSUME DeployInv, DeployInv', Next PROVE Spared
    OBVIOUS
  <2>2. CASE Tear
    <3>1. SUFFICES ASSUME NEW d \in releases \ torn, d \notin releases' \ torn'
                   PROVE Cardinality({x \in releases' \ torn' : x > d}) >= Kept
      OBVIOUS
    <3>2. d \in torn'
      BY <2>2, <3>1 DEF Tear, disk
    <3>3. Cardinality(WholeAfter(d)') >= Kept
      BY <2>1, <3>2 DEF DeployInv, WholeInv
    <3>4. QED
      BY <3>3 DEF WholeAfter, Whole
  <2>3. CASE releases \ torn \subseteq releases' \ torn'
    BY <2>3
  <2>4. CASE Remove
    BY <2>3, <2>4 DEF Remove
  <2>5. CASE Start \/ Verify \/ DownloadFails \/ Install \/ Link \/ Switch
    BY <2>3, <2>5 DEF Start, Verify, DownloadFails, Install, Link, Switch, disk
  <2>6. CASE CheckPasses \/ CheckFails \/ Undo \/ Restore \/ Record \/ List
    BY <2>3, <2>6 DEF CheckPasses, CheckFails, Undo, Restore, Record, List, disk
  <2>7. CASE Spare \/ Condemn \/ End \/ Killed
    BY <2>3, <2>7 DEF Spare, Condemn, End, Killed, disk
  <2>8. ASSUME NEW r \in Runs, Publish(r) \/ Rollback(r) PROVE Spared
    BY <2>3, <2>8 DEF Publish, Rollback, disk
  <2>9. QED
    BY <2>1, <2>2, <2>4, <2>5, <2>6, <2>7, <2>8 DEF Next, Script
<1>2. QED
  BY <1>1, DeployHolds, PTL DEF Spec, RetentionKept

(* The note never goes back to an older release.                            *)
THEOREM NotesGoForward == Spec => NoteGoesForward
<1>1. DeployInv /\ [Next]_vars => [stateFile' # None => stateFile' >= stateFile]_vars
  <2>1. SUFFICES ASSUME DeployInv, Next PROVE stateFile' # None => stateFile' >= stateFile
    OBVIOUS
  <2>2. stateFile \in Nat
    BY <2>1, RunsAreNumbers DEF DeployInv, TypeOK, None
  <2>3. CASE Record
    <3>1. stateFile < run /\ stateFile' = run /\ run \in Nat
      BY <2>1, <2>3, RunsAreNumbers DEF Record, DeployInv, OrderInv, Early, TypeOK
    <3>2. QED
      BY <2>2, <3>1
  <2>4. CASE stateFile' = stateFile
    BY <2>2, <2>4
  <2>5. CASE Killed
    BY <2>2, <2>5 DEF Killed
  <2>6. CASE Start \/ Verify \/ DownloadFails \/ Install \/ Link \/ Switch \/ CheckPasses
    BY <2>4, <2>6 DEF Start, Verify, DownloadFails, Install, Link, Switch, CheckPasses, disk
  <2>7. CASE CheckFails \/ Undo \/ Restore \/ List \/ Spare \/ Condemn \/ Tear \/ Remove \/ End
    BY <2>4, <2>7 DEF CheckFails, Undo, Restore, List, Spare, Condemn, Tear, Remove, End, disk
  <2>8. ASSUME NEW r \in Runs, Publish(r) \/ Rollback(r) PROVE stateFile' = stateFile
    BY <2>8 DEF Publish, Rollback, disk
  <2>9. QED
    BY <2>1, <2>3, <2>4, <2>5, <2>6, <2>7, <2>8 DEF Next, Script
<1>2. QED
  BY <1>1, DeployHolds, PTL DEF Spec, NoteGoesForward
-----------------------------------------------------------------------------
(* A release is noted only after its check, while it was served, passed.    *)
NoteInv == NotedWasTested /\ (at \in {"record", "list", "prune", "remove"} => run \in tested)

LEMMA NoteStep ==
  ASSUME NoteInv, [Next]_vars
  PROVE  NoteInv'
<1> USE DEF world, disk, locals
<1>1. CASE CheckPasses
  BY <1>1 DEF CheckPasses, NoteInv, NotedWasTested
<1>2. CASE Record
  BY <1>2 DEF Record, NoteInv, NotedWasTested
<1>3. CASE Start \/ Verify \/ DownloadFails \/ Install \/ Link \/ Switch
  BY <1>3 DEF Start, Verify, DownloadFails, Install, Link, Switch, Exit, NoteInv, NotedWasTested
<1>4. CASE CheckFails \/ Undo \/ Restore \/ Killed
  BY <1>4 DEF CheckFails, Undo, Restore, Killed, Exit, NoteInv, NotedWasTested
<1>5. CASE List \/ Spare \/ Condemn \/ Tear \/ Remove \/ End
  BY <1>5 DEF List, Spare, Condemn, Tear, Remove, End, Exit, NoteInv, NotedWasTested
<1>6. ASSUME NEW r \in Runs, Publish(r) \/ Rollback(r) PROVE NoteInv'
  BY <1>6 DEF Publish, Rollback, NoteInv, NotedWasTested
<1>7. CASE UNCHANGED vars
  BY <1>7 DEF vars, NoteInv, NotedWasTested
<1>8. QED
  BY <1>1, <1>2, <1>3, <1>4, <1>5, <1>6, <1>7 DEF Next, Script

(* What is noted as deployed passed its check while it was served.          *)
THEOREM NotesAreTested == Spec => []NotedWasTested
<1>1. Init => NoteInv
  BY DEF Init, NoteInv, NotedWasTested
<1>2. NoteInv /\ [Next]_vars => NoteInv'
  BY NoteStep
<1>3. NoteInv => NotedWasTested
  BY DEF NoteInv
<1>4. QED
  BY <1>1, <1>2, <1>3, PTL DEF Spec
-----------------------------------------------------------------------------
(* Where a failed check leaves the site.  As long as no kill exposed an     *)
(* untested release, no rollback link is ever left behind, and what a run   *)
(* takes for the previous release has been tested.                          *)
RestInv ==
  /\ ~exposed =>
       /\ at \notin {"check", "undo", "restore"} => site \in tested \/ tested = {}
       /\ at \in {"link", "switch", "check", "undo", "restore"} => previous \in tested \/ tested = {}
       /\ \A r \in Runs : links["rollback"][r] # None =>
            at = "restore" /\ r = run /\ links["rollback"][r] = previous

LEMMA RestStep ==
  ASSUME TypeOK, TypeOK', LinkInv, RestInv, [Next]_vars
  PROVE  RestInv'
<1> USE RunsAreNumbers DEF world, disk, locals
<1> DEFINE back == links["rollback"]
<1>1. CASE UNCHANGED <<site, tested, exposed, previous>> /\ back' = back
           /\ (at' \notin {"check", "undo", "restore"} => at \notin {"check", "undo", "restore"})
           /\ (at' \in {"link", "switch", "check", "undo", "restore"}
                 => at \in {"link", "switch", "check", "undo", "restore"})
           /\ (at = "restore" => UNCHANGED <<at, run>>)
  BY <1>1 DEF RestInv
<1>2. CASE Exit /\ UNCHANGED <<site, tested, exposed, links>> /\ at \notin {"check", "undo", "restore"}
  BY <1>2 DEF Exit, RestInv
<1>3. CASE Install
  BY <1>3 DEF Install, Resolved, RestInv, TypeOK
<1>4. CASE Link
  <2>1. back' = back
    BY <1>4 DEF Link, LinkTo, TypeOK, Names
  <2>2. QED
    BY <1>1, <1>2, <1>4, <2>1 DEF Link
<1>5. CASE Switch
  <2>1. back' = back /\ site' = run /\ run \in Runs
    BY <1>5 DEF Switch, MoveOver, LinkInv, CurrentInv, TypeOK, Names
  <2>2. QED
    BY <1>5, <2>1 DEF Switch, RestInv
<1>6. CASE CheckPasses
  BY <1>6 DEF CheckPasses, Healthy, RestInv, TypeOK
<1>7. CASE CheckFails
  <2>1. CASE PreviousIsThere
    BY <1>1, <1>7, <2>1 DEF CheckFails
  <2>2. CASE ~PreviousIsThere
    <3>1. previous \in {None, Itself}
      BY <1>7, <2>2, RunsAreNumbers DEF CheckFails, PreviousIsThere, Dir, LinkInv, PreviousInv, Whole, TypeOK
    <3>2. ~exposed => tested = {}
      BY <1>7, <3>1 DEF CheckFails, RestInv, TypeOK
    <3>3. QED
      BY <1>7, <2>2, <3>2 DEF CheckFails, Exit, RestInv
  <2>3. QED
    BY <2>1, <2>2
<1>8. CASE Undo
  <2>1. at = "undo" /\ run \in Runs /\ UNCHANGED <<site, tested, exposed>>
    BY <1>8 DEF Undo, TypeOK
  <2>2. CASE LinkTo("rollback", previous) /\ at' = "restore" /\ UNCHANGED <<run, previous, old>>
    <3>1. ASSUME ~exposed PROVE back[run] = None
      BY <2>1, <3>1 DEF RestInv
    <3>2. ASSUME ~exposed PROVE \A r \in Runs : back'[r] = IF r = run THEN previous ELSE back[r]
      BY <2>1, <2>2, <3>1, <3>2 DEF LinkTo, TypeOK, Names
    <3>3. QED
      BY <2>1, <2>2, <3>2 DEF RestInv
  <2>3. CASE Blocked("rollback", previous) /\ Exit /\ UNCHANGED <<links, inner>>
    <3>1. links["rollback"][run] # None
      BY <2>3 DEF Blocked, TypeOK
    <3>2. exposed
      BY <2>1, <3>1 DEF RestInv
    <3>3. QED
      BY <2>1, <3>2 DEF RestInv
  <2>4. QED
    BY <1>8, <2>2, <2>3 DEF Undo
<1>9. CASE Restore
  <2>1. /\ links' = [links EXCEPT !["rollback"][run] = None] /\ at = "restore" /\ at' = "idle"
        /\ site' = links["rollback"][run] /\ run \in Runs /\ UNCHANGED <<tested, exposed>>
    BY <1>9 DEF Restore, MoveOver, Exit, TypeOK
  <2>2. \A r \in Runs : back'[r] = IF r = run THEN None ELSE back[r]
    BY <2>1 DEF TypeOK, Names
  <2>3. links["rollback"][run] # None
    BY <2>1 DEF LinkInv, RollbackInv
  <2>4. QED
    BY <2>1, <2>2, <2>3 DEF RestInv
<1>10. CASE Killed
  <2>1. /\ Exit /\ UNCHANGED <<site, tested, links>> /\ exposed \in BOOLEAN
        /\ exposed' = (exposed \/ at \in {"check", "undo", "restore"})
    BY <1>10 DEF Killed, TypeOK
  <2>2. CASE at \in {"check", "undo", "restore"}
    BY <2>1, <2>2 DEF RestInv
  <2>3. CASE at \notin {"check", "undo", "restore"}
    BY <2>1, <2>3, <1>2
  <2>4. QED
    BY <2>2, <2>3
<1>11. ASSUME NEW r \in Runs, Rollback(r) PROVE RestInv'
  BY <1>11 DEF Rollback, RestInv
<1>12. CASE Start \/ Verify \/ DownloadFails \/ End
  BY <1>1, <1>2, <1>12 DEF Start, Verify, DownloadFails, End
<1>13. CASE Record \/ List \/ Spare \/ Condemn \/ Tear \/ Remove
  BY <1>1, <1>13 DEF Record, List, Spare, Condemn, Tear, Remove
<1>14. ASSUME NEW r \in Runs, Publish(r) PROVE RestInv'
  BY <1>1, <1>14 DEF Publish
<1>15. CASE UNCHANGED vars
  BY <1>1, <1>15 DEF vars
<1>16. QED
  BY <1>3, <1>4, <1>5, <1>6, <1>7, <1>8, <1>9, <1>10, <1>11, <1>12, <1>13, <1>14, <1>15 DEF Next, Script

(* Between runs the site is a tested release, unless none is or a kill      *)
(* interrupted a check.                                                     *)
THEOREM RestsAreTested ==
  ASSUME Overlap = FALSE
  PROVE  Spec => []RestsOnTested
<1> DEFINE Inv == DeployInv /\ LinkInv /\ SiteInv /\ RestInv
<1>1. Init => Inv
  BY InitDeploy DEF Init, RestInv, Names
<1>2. Inv /\ [Next]_vars => Inv'
  <2>1. SUFFICES ASSUME Inv, [Next]_vars PROVE Inv'
    OBVIOUS
  <2>2. DeployInv' /\ LinkInv' /\ SiteInv'
    BY <2>1, TypeStep, OrderStep, WholeStep, CurrentStep, RollbackStep, PreviousStep, SiteStep
    DEF DeployInv, LinkInv, SiteInv
  <2>3. RestInv'
    BY <2>1, <2>2, RestStep DEF DeployInv
  <2>4. QED
    BY <2>2, <2>3
<1>3. Inv => RestsOnTested
  BY DEF RestInv, RestsOnTested
<1>4. QED
  BY <1>1, <1>2, <1>3, PTL DEF Spec
=============================================================================
