----------------------- MODULE PublishTransactionProofs -----------------------
(***************************************************************************)
(* Proofs about publish_staged_transaction, for any set of bundles, any    *)
(* sequence of publishes, crashes at any step and staging that moves under *)
(* them.  The rollback theorems assume what the code needs: exceptions at  *)
(* the steps of CoveredFaults only (SafelyFaulty); that no snapshots are   *)
(* lost, only that none occurs while their backup is made.                 *)
(***************************************************************************)
EXTENDS PublishTransaction, Integers, TLAPS

\* Directories an interrupted operation leaves are directories.
LEMMA LeftoversAreTrees ==
    ASSUME NEW t \in Trees
    PROVE  Remnants(t) \subseteq Trees /\ TornCopies(t) \subseteq Trees
BY DEF Trees, Remnants, TornCopies, SomeFiles, HoldsFiles, Absent, Empty, Whole, Partial

LEMMA CopiesAreTrees ==
    /\ Absent \in Trees /\ Empty \in Trees
    /\ \A b \in Bundles : Whole(b) \in Trees /\ Partial(b) \in Trees
BY DEF Trees

\* What the control operators do to the locals
LEMMA GotoTypes ==
    ASSUME TypeOK, NEW next \in Steps, Goto(next)
    PROVE  /\ pc' = next /\ staged' \in Bundles /\ replaced' \in BOOLEAN
           /\ result' \in Results /\ pre' \in Trees \X (Bundles \cup {Torn})
BY DEF Goto, TypeOK

LEMMA InterruptedTypes ==
    ASSUME TypeOK, Interrupted
    PROVE  /\ pc' \in Steps \cup {"idle"} /\ staged' \in Bundles
           /\ replaced' \in BOOLEAN
           /\ result' \in Results /\ pre' \in Trees \X (Bundles \cup {Torn})
BY DEF Interrupted, Goto, End, TypeOK, Steps, Results

LEMMA TypeStep == TypeOK /\ [Next]_vars => TypeOK'
<1> SUFFICES ASSUME TypeOK, [Next]_vars PROVE TypeOK'
  OBVIOUS
<1> USE LeftoversAreTrees, CopiesAreTrees
<1>0. {target, newTree, oldTree, snapBackup} \subseteq Trees /\ staged \in Bundles
  BY DEF TypeOK
<1>1. CASE RemoveBackup
  BY <1>0, <1>1, GotoTypes, InterruptedTypes DEF RemoveBackup, TypeOK, Steps
<1>2. CASE CopyBackup
  BY <1>0, <1>2, GotoTypes, InterruptedTypes DEF CopyBackup, TypeOK, Steps
<1>3. CASE CopyManifest
  BY <1>0, <1>3, GotoTypes, InterruptedTypes DEF CopyManifest, TypeOK, Steps
<1>4. CASE RemoveNew
  BY <1>0, <1>4, GotoTypes, InterruptedTypes DEF RemoveNew, TypeOK, Steps
<1>5. CASE CopyNew
  BY <1>0, <1>5, GotoTypes, InterruptedTypes DEF CopyNew, TypeOK, Steps
<1>6. CASE RemoveOld("rm_old", "move_old")
  BY <1>0, <1>6, GotoTypes, InterruptedTypes DEF RemoveOld, TypeOK, Steps
<1>7. CASE MoveOld
  BY <1>0, <1>7, GotoTypes, InterruptedTypes DEF MoveOld, TypeOK, Steps
<1>8. CASE MoveNew
  BY <1>0, <1>8, InterruptedTypes DEF MoveNew, TypeOK, Steps
<1>9. CASE RemoveOld("rm_old_after", "write_manifest")
  BY <1>0, <1>9, GotoTypes, InterruptedTypes DEF RemoveOld, TypeOK, Steps
<1>10. CASE WriteManifest
  BY <1>0, <1>10, GotoTypes, InterruptedTypes DEF WriteManifest, TypeOK, Steps
<1>11. CASE Validate
  <2>1. CASE Goto("undo_rm") BY <1>11, <2>1, GotoTypes DEF Validate, TypeOK, Steps, files
  <2>2. CASE End("published") BY <1>11, <2>2 DEF Validate, End, TypeOK, Results, files
  <2>3. CASE Interrupted BY <1>11, <2>3, InterruptedTypes DEF Validate, TypeOK, files
  <2> QED BY <1>11, <2>1, <2>2, <2>3 DEF Validate
<1>12. CASE UndoRemove
  BY <1>0, <1>12, GotoTypes, InterruptedTypes DEF UndoRemove, TypeOK, Steps
<1>13. CASE UndoCopy
  BY <1>0, <1>13, GotoTypes, InterruptedTypes DEF UndoCopy, TypeOK, Steps
<1>14. CASE UndoManifest
  <2>1. manifest' \in Bundles \cup {Torn}
    BY <1>14 DEF UndoManifest, RestoredManifest, TypeOK
  <2>2. CASE End("rolled_back") BY <1>14, <2>1, <2>2 DEF UndoManifest, End, TypeOK, Results
  <2>3. CASE Interrupted BY <1>14, <2>1, <2>3, InterruptedTypes DEF UndoManifest, TypeOK
  <2> QED BY <1>14, <2>2, <2>3 DEF UndoManifest
<1>15. CASE Begin
  BY <1>0, <1>15 DEF Begin, TypeOK, Steps, files
<1>16. CASE Refuse
  BY <1>16 DEF Refuse, TypeOK, Results, files
<1>17. CASE \E b \in Bundles : Restage(b)
  BY <1>17 DEF Restage, TypeOK, files
<1>18. CASE UNCHANGED vars
  BY <1>18 DEF vars, files, TypeOK
<1> QED
  BY <1>1, <1>2, <1>3, <1>4, <1>5, <1>6, <1>7, <1>8, <1>9, <1>10, <1>11, <1>12, <1>13,
     <1>14, <1>15, <1>16, <1>17, <1>18 DEF Next, Step

LEMMA InitTypes == Init => TypeOK
<1> SUFFICES ASSUME Init PROVE TypeOK
  OBVIOUS
<1>1. target \in Trees /\ manifest \in Bundles
  BY CopiesAreTrees DEF Init
<1>2. pre \in Trees \X (Bundles \cup {Torn})
  BY <1>1 DEF Init
<1> QED BY <1>1, <1>2, CopiesAreTrees DEF Init, TypeOK, Steps, Results

\* The files and the locals keep their types, whatever fails or crashes.
THEOREM PublishTypes == Spec => []TypeOK
BY InitTypes, TypeStep, PTL DEF Spec

-----------------------------------------------------------------------------
(* The rollback *)

Untouched == {"rm_backup", "copy_backup", "copy_manifest", "rm_new", "copy_new",
              "rm_old", "move_old"}
NoBackupYet == {"idle", "rm_backup", "copy_backup"}

\* What production is at each step, relative to what it was at the beginning
RollbackInv ==
    /\ TypeOK
    /\ pc \in Untouched => <<target, manifest>> = pre /\ ~replaced
    /\ pc \notin NoBackupYet => snapBackup = IF pre[1] = Absent THEN Empty ELSE pre[1]
    /\ pc \notin NoBackupYet \cup {"copy_manifest"} => manifestBackup = pre[2]
    /\ pc \in {"rm_old_after", "write_manifest", "validate"} => replaced
    /\ pc = "undo_rm" => replaced \/ target = pre[1]
    /\ pc = "undo_copy" => target = Absent
    /\ pc = "undo_manifest" => Snapshots(target) = Snapshots(pre[1])

\* The faults the theorems allow
SafelyFaulty == FaultPoints \subseteq CoveredFaults

LEMMA SafelyInterrupted ==
    ASSUME SafelyFaulty, Interrupted
    PROVE  \/ pc \in CoveredFaults /\ ~Undoing /\ Goto("undo_rm")
           \/ pc' = "idle" /\ result' \in {"rollback_failed", "crashed"}
                /\ UNCHANGED <<staged, replaced, pre>>
BY DEF SafelyFaulty, Interrupted, Undoing, Goto, End

LEMMA SnapshotsOfCopies ==
    /\ Snapshots(Absent) = Absent /\ Snapshots(Empty) = Absent
    /\ ~HoldsFiles(Absent) /\ ~HoldsFiles(Empty)
    /\ \A t : HoldsFiles(t) => Snapshots(t) = t
    /\ \A t : ~HoldsFiles(t) => Snapshots(t) = Absent
    /\ \A b : HoldsFiles(Whole(b))
BY DEF HoldsFiles, Snapshots, Absent, Empty, Whole

\* Only the snapshots of a bundle validate against a manifest.
LEMMA ValidBundle == ASSUME TypeOK, Valid PROVE manifest \in Bundles
<1>1. target = [kind |-> "whole", bundle |-> manifest] BY DEF Valid, Whole
<1>2. target.kind = "whole" /\ target.bundle = manifest BY <1>1
<1>3. target \in Trees BY DEF TypeOK
<1>4. PICK b \in Bundles : target = Whole(b)
  BY <1>2, <1>3 DEF Trees, Absent, Empty, Whole, Partial
<1> QED BY <1>2, <1>4 DEF Whole

LEMMA RollbackStep ==
    ASSUME SafelyFaulty, RollbackInv, [Next]_vars
    PROVE  RollbackInv'
<1>0. TypeOK'
  BY TypeStep DEF RollbackInv
<1> USE SafelyInterrupted, SnapshotsOfCopies DEF RollbackInv, Untouched, NoBackupYet, CoveredFaults, Undoing
<1>1. CASE RemoveBackup
  BY <1>0, <1>1 DEF RemoveBackup, Goto
<1>2. CASE CopyBackup
  BY <1>0, <1>2 DEF CopyBackup, Goto
<1>3. CASE CopyManifest
  BY <1>0, <1>3 DEF CopyManifest, Goto
<1>4. CASE RemoveNew
  BY <1>0, <1>4 DEF RemoveNew, Goto
<1>5. CASE CopyNew
  BY <1>0, <1>5 DEF CopyNew, Goto
<1>6. CASE RemoveOld("rm_old", "move_old")
  BY <1>0, <1>6 DEF RemoveOld, Goto
<1>7. CASE MoveOld
  BY <1>0, <1>7 DEF MoveOld, Goto
<1>8. CASE MoveNew
  BY <1>0, <1>8 DEF MoveNew, Goto
<1>9. CASE RemoveOld("rm_old_after", "write_manifest")
  BY <1>0, <1>9 DEF RemoveOld, Goto
<1>10. CASE WriteManifest
  <2>1. staged \in Bundles BY DEF TypeOK
  <2> QED BY <1>0, <1>10, <2>1 DEF WriteManifest, Goto
<1>11. CASE Validate
  BY <1>0, <1>11 DEF Validate, Goto, End, files
<1>12. CASE UndoRemove
  BY <1>0, <1>12 DEF UndoRemove, Goto
<1>13. CASE UndoCopy
  BY <1>0, <1>13 DEF UndoCopy, Goto
<1>14. CASE UndoManifest
  BY <1>0, <1>14, PublishConstants DEF UndoManifest, RestoredManifest, Goto, End
<1>15. CASE Begin
  BY <1>0, <1>15 DEF Begin, files
<1>16. CASE Refuse
  BY <1>0, <1>16 DEF Refuse, files
<1>17. CASE \E b \in Bundles : Restage(b)
  BY <1>0, <1>17 DEF Restage, files
<1>18. CASE UNCHANGED vars
  BY <1>0, <1>18 DEF vars, files
<1> QED
  BY <1>1, <1>2, <1>3, <1>4, <1>5, <1>6, <1>7, <1>8, <1>9, <1>10, <1>11, <1>12, <1>13,
     <1>14, <1>15, <1>16, <1>17, <1>18 DEF Next, Step

LEMMA RollbackInit == Init => RollbackInv
BY InitTypes DEF Init, RollbackInv, Untouched, NoBackupYet

LEMMA RollbackInvariant == ASSUME SafelyFaulty PROVE Spec => []RollbackInv
<1>1. RollbackInv /\ [Next]_vars => RollbackInv'
  BY RollbackStep
<1> QED BY <1>1, RollbackInit, PTL DEF Spec

\* Where a publish ends
LEMMA EndsOnlyThere ==
    ASSUME SafelyFaulty, RollbackInv, [Next]_vars
    PROVE  \/ UNCHANGED <<pc, target, oldTree, snapBackup, manifest, pre, result>>
           \/ pc = "idle" /\ pc' = "idle" /\ result' = "refused"
                /\ UNCHANGED <<target, manifest, pre>>
           \/ Begin
           \/ pc # "idle" /\ pc' # "idle" /\ UNCHANGED <<pre, result>>
           \/ pc # "idle" /\ pc' = "idle" /\ result' \in {"rollback_failed", "crashed"}
                /\ Step /\ UNCHANGED pre
           \/ Validate /\ End("published") /\ Valid /\ UNCHANGED files
           \/ UndoManifest /\ End("rolled_back") /\ manifest' = RestoredManifest
<1> USE SafelyInterrupted DEF CoveredFaults
<1>1. CASE Step
  <2>1. CASE RemoveBackup \/ CopyBackup \/ CopyManifest \/ RemoveNew \/ CopyNew
    BY <1>1, <2>1 DEF RemoveBackup, CopyBackup, CopyManifest, RemoveNew, CopyNew, Goto
  <2>2. CASE RemoveOld("rm_old", "move_old") \/ RemoveOld("rm_old_after", "write_manifest")
    BY <1>1, <2>2 DEF RemoveOld, Goto
  <2>3. CASE MoveOld \/ MoveNew \/ WriteManifest
    BY <1>1, <2>3 DEF MoveOld, MoveNew, WriteManifest, Goto
  <2>4. CASE Validate
    BY <1>1, <2>4 DEF Validate, Goto
  <2>5. CASE UndoRemove \/ UndoCopy
    BY <1>1, <2>5 DEF UndoRemove, UndoCopy, Goto
  <2>6. CASE UndoManifest
    BY <1>1, <2>6 DEF UndoManifest, Goto
  <2> QED BY <1>1, <2>1, <2>2, <2>3, <2>4, <2>5, <2>6 DEF Step
<1>2. CASE Refuse BY <1>2 DEF Refuse, files
<1>3. CASE \E b \in Bundles : Restage(b) BY <1>3 DEF Restage, files
<1>4. CASE UNCHANGED vars BY <1>4 DEF vars, files
<1> QED BY <1>1, <1>2, <1>3, <1>4 DEF Next

\* At the end of the rollback production is what it was.
LEMMA RolledBack ==
    ASSUME RollbackInv, UndoManifest, manifest' = RestoredManifest
    PROVE  Snapshots(target') = Snapshots(pre[1]) /\ manifest' = pre[2]
<1>1. /\ Snapshots(target) = Snapshots(pre[1]) /\ target' = target
      /\ manifestBackup = pre[2] /\ pre[2] \in Bundles \cup {Torn}
  BY DEF RollbackInv, TypeOK, UndoManifest, NoBackupYet
<1>2. manifest' = pre[2]
  BY <1>1, PublishConstants DEF RestoredManifest
<1> QED BY <1>1, <1>2

\* A publish that returned left one whole bundle in production; one that reports
\* a rollback left what it found.
THEOREM PublishIsAllOrNothing == ASSUME SafelyFaulty PROVE Spec => []AllOrNothing
<1>1. Init => AllOrNothing
  BY DEF Init, AllOrNothing
<1>2. RollbackInv /\ AllOrNothing /\ [Next]_vars => AllOrNothing'
  <2> SUFFICES ASSUME RollbackInv, AllOrNothing, [Next]_vars PROVE AllOrNothing'
    OBVIOUS
  <2>1. CASE UNCHANGED <<pc, target, manifest, pre, result>>
    BY <2>1 DEF AllOrNothing, Snapshots
  <2>2. CASE pc' = "idle" /\ result' \in {"refused", "rollback_failed", "crashed"}
    BY <2>2 DEF AllOrNothing
  <2>3. CASE Begin \/ pc' # "idle"
    BY <2>3 DEF Begin, AllOrNothing
  <2>4. CASE Validate /\ End("published") /\ Valid /\ UNCHANGED files
    <3>1. manifest \in Bundles
      BY <2>4, ValidBundle DEF RollbackInv
    <3> QED BY <2>4, <3>1 DEF End, Valid, files, AllOrNothing
  <2>5. CASE UndoManifest /\ End("rolled_back") /\ manifest' = RestoredManifest
    <3>1. Snapshots(target') = Snapshots(pre[1]) /\ manifest' = pre[2] BY <2>5, RolledBack
    <3>2. pre' = pre /\ result' = "rolled_back" BY <2>5 DEF End
    <3> QED BY <3>1, <3>2 DEF AllOrNothing, Snapshots
  <2> QED BY <2>1, <2>2, <2>3, <2>4, <2>5, EndsOnlyThere
<1> QED BY <1>1, <1>2, RollbackInvariant, PTL DEF Spec

-----------------------------------------------------------------------------
(* The backup *)

BackingUp == {"rm_backup", "copy_backup"}

\* Until its backup is made production is what the publish found; from then on the
\* backup is
BackupInv ==
    /\ TypeOK
    /\ pc \in BackingUp => target = pre[1]
    /\ pc \notin BackingUp \cup {"idle"} =>
           snapBackup = IF pre[1] = Absent THEN Empty ELSE pre[1]

\* Where only a crash interrupts the making of the backup
LEMMA LateInterrupted ==
    ASSUME FaultPoints \subseteq LateFaults, Interrupted
    PROVE  \/ pc \notin BackingUp /\ pc' \in {"undo_rm", "idle"} /\ UNCHANGED pre
           \/ pc' = "idle" /\ result' = "crashed" /\ UNCHANGED pre
BY DEF LateFaults, BackingUp, Interrupted, Goto, End

\* Only the making of the backup writes it, and while it is made nothing else is
\* written.
LEMMA BackupSteps ==
    ASSUME FaultPoints \subseteq LateFaults, Step
    PROVE  /\ pc # "idle" /\ UNCHANGED pre
           /\ \/ /\ pc \in BackingUp
                 /\ UNCHANGED target
                 /\ \/ pc' = "idle" /\ result' = "crashed"
                    \/ pc = "rm_backup" /\ pc' = "copy_backup"
                    \/ /\ pc = "copy_backup" /\ pc' = "copy_manifest"
                       /\ snapBackup' = IF target = Absent THEN Empty ELSE target
              \/ /\ pc \notin BackingUp
                 /\ pc' \notin BackingUp
                 /\ UNCHANGED snapBackup
<1> USE LateInterrupted DEF BackingUp
<1>1. CASE RemoveBackup BY <1>1 DEF RemoveBackup, Goto
<1>2. CASE CopyBackup BY <1>2 DEF CopyBackup, Goto
<1>3. CASE CopyManifest \/ RemoveNew \/ CopyNew
  BY <1>3 DEF CopyManifest, RemoveNew, CopyNew, Goto
<1>4. CASE RemoveOld("rm_old", "move_old") \/ RemoveOld("rm_old_after", "write_manifest")
  BY <1>4 DEF RemoveOld, Goto
<1>5. CASE MoveOld \/ MoveNew \/ WriteManifest
  BY <1>5 DEF MoveOld, MoveNew, WriteManifest, Goto
<1>6. CASE Validate BY <1>6 DEF Validate, Goto, End, files
<1>7. CASE UndoRemove \/ UndoCopy
  BY <1>7 DEF UndoRemove, UndoCopy, Goto
<1>8. CASE UndoManifest BY <1>8 DEF UndoManifest, End
<1> QED BY <1>1, <1>2, <1>3, <1>4, <1>5, <1>6, <1>7, <1>8 DEF Step

\* Whatever fails once the snapshots are backed up, the rollback and the process
\* included, the snapshots that were published are still on disk.
THEOREM PreviousIsNeverLost ==
    ASSUME FaultPoints \subseteq LateFaults
    PROVE  Spec => []PreviousSurvives
<1>1. Init => BackupInv /\ PreviousSurvives
  BY InitTypes DEF Init, BackupInv, BackingUp, PreviousSurvives
<1>2. BackupInv /\ PreviousSurvives /\ [Next]_vars => BackupInv' /\ PreviousSurvives'
  <2> SUFFICES ASSUME BackupInv, PreviousSurvives, [Next]_vars
               PROVE  BackupInv' /\ PreviousSurvives'
    OBVIOUS
  <2>0. TypeOK' BY TypeStep DEF BackupInv
  <2>1. CASE Step
    <3>1. BackupInv'
      BY <2>0, <2>1, BackupSteps DEF BackupInv, BackingUp
    <3>2. pre' = pre /\ (HoldsFiles(pre[1]) => pre[1] \in {target', snapBackup'})
      BY <2>1, BackupSteps, SnapshotsOfCopies DEF BackupInv, BackingUp
    <3> QED BY <3>1, <3>2 DEF PreviousSurvives, HoldsFiles
  <2>2. CASE Begin
    BY <2>0, <2>2 DEF Begin, files, BackupInv, BackingUp, PreviousSurvives
  <2>3. CASE Refuse
    BY <2>0, <2>3 DEF Refuse, files, BackupInv, BackingUp, PreviousSurvives
  <2>4. CASE \/ \E b \in Bundles : Restage(b)
             \/ UNCHANGED vars
    <3>1. UNCHANGED <<pc, target, oldTree, snapBackup, pre, result>>
      BY <2>4 DEF Restage, vars, files
    <3> QED BY <2>0, <3>1 DEF BackupInv, BackingUp, PreviousSurvives, HoldsFiles
  <2> QED BY <2>1, <2>2, <2>3, <2>4 DEF Next
<1> QED BY <1>1, <1>2, PTL DEF Spec

-----------------------------------------------------------------------------
(* Refinement *)

\* The transaction, with all its copies, renames and rollbacks, replaces
\* production atomically.
THEOREM PublishIsAtomic == ASSUME SafelyFaulty PROVE Spec => AtomicSpec
<1> DEFINE Prod == IF pc = "idle" THEN <<Snapshots(target), manifest>>
                   ELSE <<Snapshots(pre[1]), pre[2]>>
<1>1. Init => Atomic!Init
  BY DEF Init, Atomic!Init
<1>2. RollbackInv /\ [Next]_vars => [Atomic!Next]_<<Prod, result>>
  <2> SUFFICES ASSUME RollbackInv, [Next]_vars PROVE [Atomic!Next]_<<Prod, result>>
    OBVIOUS
  <2>1. CASE UNCHANGED <<pc, target, manifest, pre, result>>
    BY <2>1 DEF Snapshots, HoldsFiles
  <2>2. CASE /\ pc = "idle" /\ pc' = "idle" /\ result' = "refused"
             /\ UNCHANGED <<target, manifest, pre>>
    BY <2>2 DEF Atomic!Next, Atomic!Unchanged, Snapshots, HoldsFiles
  <2>3. CASE Begin
    BY <2>3 DEF Begin, files, Snapshots, HoldsFiles
  <2>4. CASE pc # "idle" /\ pc' # "idle" /\ UNCHANGED <<pre, result>>
    BY <2>4 DEF Snapshots, HoldsFiles
  <2>5. CASE result' \in {"rollback_failed", "crashed"}
    BY <2>5 DEF Atomic!Next, Atomic!Broken
  <2>6. CASE Validate /\ End("published") /\ Valid /\ UNCHANGED files
    <3>1. manifest \in Bundles BY <2>6, ValidBundle DEF RollbackInv
    <3>2. Snapshots(target') = Whole(manifest) BY <2>6, SnapshotsOfCopies DEF Valid, files
    <3>3. Prod' = <<Whole(manifest), manifest>> /\ result' = "published"
      BY <2>6, <3>2 DEF End, files
    <3>4. Atomic!Publish(manifest)
      BY <3>3 DEF Atomic!Publish, Atomic!Whole, Whole
    <3> QED BY <3>1, <3>4 DEF Atomic!Next
  <2>7. CASE UndoManifest /\ End("rolled_back") /\ manifest' = RestoredManifest
    <3>1. Snapshots(target') = Snapshots(pre[1]) /\ manifest' = pre[2] BY <2>7, RolledBack
    <3>2. Prod' = Prod /\ result' = "rolled_back"
      BY <2>7, <3>1 DEF End, UndoManifest
    <3> QED BY <3>2 DEF Atomic!Next, Atomic!Unchanged
  <2> QED BY <2>1, <2>2, <2>3, <2>4, <2>5, <2>6, <2>7, EndsOnlyThere
<1> QED BY <1>1, <1>2, RollbackInvariant, PTL DEF Spec, AtomicSpec, Atomic!Spec

-----------------------------------------------------------------------------
(* Progress *)

\* How many steps a publish has left at most
StepsLeft ==
    CASE pc = "rm_backup" -> 14 [] pc = "copy_backup" -> 13 [] pc = "copy_manifest" -> 12
      [] pc = "rm_new" -> 11 [] pc = "copy_new" -> 10 [] pc = "rm_old" -> 9
      [] pc = "move_old" -> 8 [] pc = "move_new" -> 7 [] pc = "rm_old_after" -> 6
      [] pc = "write_manifest" -> 5 [] pc = "validate" -> 4 [] pc = "undo_rm" -> 3
      [] pc = "undo_copy" -> 2 [] pc = "undo_manifest" -> 1 [] pc = "idle" -> 0

\* What each step does to the counter of the program
LEMMA StepGoesOn ==
    ASSUME Step
    PROVE  pc # "idle" /\ StepsLeft' < StepsLeft /\ StepsLeft \in 1 .. 14
<1> USE DEF StepsLeft, Goto, End, Interrupted, Undoing
<1>1. CASE RemoveBackup BY <1>1 DEF RemoveBackup
<1>2. CASE CopyBackup BY <1>2 DEF CopyBackup
<1>3. CASE CopyManifest BY <1>3 DEF CopyManifest
<1>4. CASE RemoveNew BY <1>4 DEF RemoveNew
<1>5. CASE CopyNew BY <1>5 DEF CopyNew
<1>6. CASE RemoveOld("rm_old", "move_old") BY <1>6 DEF RemoveOld
<1>7. CASE MoveOld BY <1>7 DEF MoveOld
<1>8. CASE MoveNew BY <1>8 DEF MoveNew
<1>9. CASE RemoveOld("rm_old_after", "write_manifest") BY <1>9 DEF RemoveOld
<1>10. CASE WriteManifest BY <1>10 DEF WriteManifest
<1>11. CASE Validate BY <1>11 DEF Validate
<1>12. CASE UndoRemove BY <1>12 DEF UndoRemove
<1>13. CASE UndoCopy BY <1>13 DEF UndoCopy
<1>14. CASE UndoManifest BY <1>14 DEF UndoManifest
<1> QED BY <1>1, <1>2, <1>3, <1>4, <1>5, <1>6, <1>7, <1>8, <1>9, <1>10, <1>11, <1>12, <1>13, <1>14 DEF Step

\* A publish goes on to its end, rollback and all, in at most 14 steps, whatever
\* fails: no step of it is taken twice, and while it runs only the staging
\* directory changes beside it.
THEOREM PublishGoesForward ==
    Spec => [][pc # "idle" => StepsLeft' < StepsLeft \/ \E b \in Bundles : Restage(b)]_vars
<1>1. [Next]_vars =>
          [pc # "idle" => StepsLeft' < StepsLeft \/ \E b \in Bundles : Restage(b)]_vars
  BY StepGoesOn DEF Next, Begin, Refuse
<1> QED BY <1>1, PTL DEF Spec
==============================================================================
