-------------------------- MODULE PublishTransaction --------------------------
(***************************************************************************)
(* publish_staged_transaction (persist.py): replace the production         *)
(* snapshot tree and manifest by a staged bundle through a backup, a copy  *)
(* beside the target (.new), two renames (.old) and a rewritten manifest;  *)
(* roll back in an exception handler.                                      *)
(*                                                                         *)
(* Every filesystem call is a step of its own.  It completes, or it is     *)
(* interrupted: by an exception (at the steps in FaultPoints), which runs  *)
(* the handler, or by the end of the process (MayCrash).  An interrupted   *)
(* copy or removal of a directory leaves any part of it behind; a rename   *)
(* and write_manifest (a temporary file, then replace) are atomic; an      *)
(* interrupted copy2 tears the file.  Files are told apart only by the     *)
(* bundle they come from.  Nothing locks the staging directory: another    *)
(* process may restage while a publish runs (StagingMoves).                *)
(***************************************************************************)
EXTENDS FiniteSets

CONSTANTS Bundles,      \* bundles that pass preflight_staged_bundle
          NoBundle,     \* of a directory that holds no file
          NoFile,       \* content of a file that does not exist
          Torn,         \* content of a half-written file
          FaultPoints,  \* the steps that may raise
          MayCrash,     \* may the process end at any step?
          StagingMoves  \* may staging change while a publish runs?

Steps == {"rm_backup", "copy_backup", "copy_manifest", "rm_new", "copy_new",
          "rm_old", "move_old", "move_new", "rm_old_after", "write_manifest",
          "validate", "undo_rm", "undo_copy", "undo_manifest"}

ASSUME PublishConstants ==
    /\ NoBundle \notin Bundles
    /\ NoFile \notin Bundles /\ Torn \notin Bundles /\ NoFile # Torn
    /\ FaultPoints \subseteq Steps
    /\ MayCrash \in BOOLEAN
    /\ StagingMoves \in BOOLEAN

VARIABLES pc,
          target,     \* data/corpus/snapshots/by_source
          newTree,    \* by_source.new
          oldTree,    \* by_source.old
          snapBackup, \* artifacts/publish_backup/by_source.bak
          manifest,   \* data/corpus/corpus_manifest.csv
          manifestBackup, \* artifacts/publish_backup/corpus_manifest.csv.bak
          staged,     \* the bundle in the staging directory
          replaced,   \* snapshots_replaced
          result,     \* of the last publish: returned, raised or killed
          pre         \* (history) <<target, manifest>> when it began

files == <<target, newTree, oldTree, snapBackup, manifest, manifestBackup>>
vars == <<pc, files, staged, replaced, result, pre>>

Absent     == [kind |-> "absent", bundle |-> NoBundle]
Empty      == [kind |-> "empty", bundle |-> NoBundle]
Whole(b)   == [kind |-> "whole", bundle |-> b]
Partial(b) == [kind |-> "partial", bundle |-> b]

Trees == {Absent, Empty} \cup {Whole(b) : b \in Bundles} \cup {Partial(b) : b \in Bundles}

HoldsFiles(t) == t.kind \in {"partial", "whole"}

\* The snapshots found there: a missing directory holds no more than an empty one
Snapshots(t) == IF HoldsFiles(t) THEN t ELSE Absent

\* What an interrupted rmtree or copytree of t may leave behind; nothing to
\* remove, nothing to interrupt
SomeFiles(t) == IF HoldsFiles(t) THEN {Partial(t.bundle)} ELSE {}
Remnants(t)  == IF t = Absent THEN {} ELSE {t, Empty} \cup SomeFiles(t)
TornCopies(t) == {Absent, Empty} \cup SomeFiles(t)

-----------------------------------------------------------------------------
(* Control *)

Goto(next) == pc' = next /\ UNCHANGED <<staged, replaced, result, pre>>

End(r) == pc' = "idle" /\ result' = r /\ UNCHANGED <<staged, replaced, pre>>

\* The step at pc is interrupted: by an exception, caught by the handler of the
\* mutation or by the handler of the handler, or by the end of the process
Undoing == pc \in {"undo_rm", "undo_copy", "undo_manifest"}

Interrupted ==
    \/ pc \in FaultPoints /\ ~Undoing /\ Goto("undo_rm")
    \/ pc \in FaultPoints /\ Undoing /\ End("rollback_failed")
    \/ MayCrash /\ End("crashed")

\* The preflight of the staged bundle passes; nothing is mutated before
Begin ==
    /\ pc = "idle"
    /\ pc' = "rm_backup"
    /\ replaced' = FALSE
    /\ pre' = <<target, manifest>>
    /\ UNCHANGED <<files, staged, result>>

\* Paths or bundle rejected before any mutation
Refuse ==
    /\ pc = "idle"
    /\ result' = "refused"
    /\ UNCHANGED <<pc, files, staged, replaced, pre>>

\* Another bundle in the staging directory
Restage(b) ==
    /\ pc = "idle" \/ StagingMoves
    /\ staged' = b
    /\ UNCHANGED <<pc, files, replaced, result, pre>>

-----------------------------------------------------------------------------
(* The mutation *)

RemoveBackup ==
    /\ pc = "rm_backup"
    /\ \/ Goto("copy_backup") /\ snapBackup' = Absent
       \/ Interrupted /\ snapBackup' \in Remnants(snapBackup)
    /\ UNCHANGED <<target, newTree, oldTree, manifest, manifestBackup>>

\* Mutant: errors of the copy are ignored
CopyBackupUnchecked ==
    /\ pc = "copy_backup"
    /\ Goto("copy_manifest")
    /\ snapBackup' \in {target} \cup TornCopies(target)
    /\ UNCHANGED <<target, newTree, oldTree, manifest, manifestBackup>>

CopyBackup ==
    /\ pc = "copy_backup"
    /\ \/ Goto("copy_manifest") /\ snapBackup' = IF target = Absent THEN Empty ELSE target
       \/ Interrupted /\ snapBackup' \in TornCopies(target)
    /\ UNCHANGED <<target, newTree, oldTree, manifest, manifestBackup>>

\* Production always has a manifest: stage_snapshots read its rows from it before
\* there was a bundle to publish, and no command removes it
CopyManifest ==
    /\ pc = "copy_manifest"
    /\ \/ Goto("rm_new") /\ manifestBackup' = manifest
       \/ Interrupted /\ manifestBackup' \in {manifestBackup, Torn}
    /\ UNCHANGED <<target, newTree, oldTree, snapBackup, manifest>>

RemoveNew ==
    /\ pc = "rm_new"
    /\ \/ Goto("copy_new") /\ newTree' = Absent
       \/ Interrupted /\ newTree' \in Remnants(newTree)
    /\ UNCHANGED <<target, oldTree, snapBackup, manifest, manifestBackup>>

\* A copy made while staging moves may hold files of more than one bundle
CopyNew ==
    /\ pc = "copy_new"
    /\ \/ /\ Goto("rm_old")
          /\ \/ newTree' = Whole(staged)
             \/ StagingMoves /\ newTree' = Partial(staged)
       \/ Interrupted /\ newTree' \in TornCopies(Whole(staged))
    /\ UNCHANGED <<target, oldTree, snapBackup, manifest, manifestBackup>>

\* Before the renames and after them
RemoveOld(at, next) ==
    /\ pc = at
    /\ \/ Goto(next) /\ oldTree' = Absent
       \/ Interrupted /\ oldTree' \in Remnants(oldTree)
    /\ UNCHANGED <<target, newTree, snapBackup, manifest, manifestBackup>>

\* target.rename(old), if target exists
MoveOld ==
    /\ pc = "move_old"
    /\ \/ Goto("move_new") /\ target' = Absent /\ oldTree' = target
       \/ Interrupted /\ UNCHANGED <<target, oldTree>>
    /\ UNCHANGED <<newTree, snapBackup, manifest, manifestBackup>>

\* new.rename(target), then snapshots_replaced
MoveNew ==
    /\ pc = "move_new"
    /\ \/ /\ pc' = "rm_old_after"
          /\ target' = newTree
          /\ newTree' = Absent
          /\ replaced' = TRUE
          /\ UNCHANGED <<staged, result, pre>>
       \/ Interrupted /\ UNCHANGED <<target, newTree>>
    /\ UNCHANGED <<oldTree, snapBackup, manifest, manifestBackup>>

WriteManifest ==
    /\ pc = "write_manifest"
    /\ \/ Goto("validate") /\ manifest' = staged
       \/ Interrupted /\ UNCHANGED manifest
    /\ UNCHANGED <<target, newTree, oldTree, snapBackup, manifestBackup>>

\* Mutant: post_validate off
ValidUnchecked == TRUE

\* validate_snapshot_manifest_bundle: all snapshots there, with the hashes of
\* the manifest
Valid == target = Whole(manifest)

Validate ==
    /\ pc = "validate"
    /\ \/ Valid /\ End("published")
       \/ ~Valid /\ Goto("undo_rm")
       \/ Interrupted
    /\ UNCHANGED files

-----------------------------------------------------------------------------
(* The rollback *)

\* Mutant: the handler goes on only if there is a target to remove
UndoRemoveTarget ==
    /\ pc = "undo_rm"
    /\ target # Absent
    /\ Goto("undo_copy")
    /\ target' = Absent
    /\ UNCHANGED <<newTree, oldTree, snapBackup, manifest, manifestBackup>>

UndoRemove ==
    /\ pc = "undo_rm"
    /\ \/ /\ replaced \/ target # Absent
          /\ \/ Goto("undo_copy") /\ target' = Absent
             \/ Interrupted /\ target' \in Remnants(target)
       \/ ~replaced /\ target = Absent /\ Goto("undo_manifest") /\ UNCHANGED target
    /\ UNCHANGED <<newTree, oldTree, snapBackup, manifest, manifestBackup>>

UndoCopy ==
    /\ pc = "undo_copy"
    /\ \/ /\ HoldsFiles(snapBackup)
          /\ \/ Goto("undo_manifest") /\ target' = snapBackup
             \/ Interrupted /\ target' \in TornCopies(snapBackup)
       \/ ~HoldsFiles(snapBackup) /\ Goto("undo_manifest") /\ UNCHANGED target
    /\ UNCHANGED <<newTree, oldTree, snapBackup, manifest, manifestBackup>>

\* Mutant: the manifest is not restored
KeepManifest == manifest

RestoredManifest == IF manifestBackup = NoFile THEN manifest ELSE manifestBackup

UndoManifest ==
    /\ pc = "undo_manifest"
    /\ \/ End("rolled_back") /\ manifest' = RestoredManifest
       \/ /\ manifestBackup # NoFile
          /\ Interrupted
          /\ manifest' \in {manifest, Torn}
    /\ UNCHANGED <<target, newTree, oldTree, snapBackup, manifestBackup>>

-----------------------------------------------------------------------------

\* Production at the start: a published bundle, or a manifest whose snapshots
\* have not been published yet
Init ==
    /\ pc = "idle"
    /\ manifest \in Bundles
    /\ target \in {Absent, Whole(manifest)}
    /\ newTree = Absent
    /\ oldTree = Absent
    /\ snapBackup = Absent
    /\ manifestBackup = NoFile
    /\ staged = manifest
    /\ replaced = FALSE
    /\ result = "none"
    /\ pre = <<target, manifest>>

Step ==
    \/ RemoveBackup \/ CopyBackup \/ CopyManifest
    \/ RemoveNew \/ CopyNew
    \/ RemoveOld("rm_old", "move_old") \/ MoveOld
    \/ MoveNew \/ RemoveOld("rm_old_after", "write_manifest")
    \/ WriteManifest \/ Validate
    \/ UndoRemove \/ UndoCopy \/ UndoManifest

Next == Step \/ Begin \/ Refuse \/ \E b \in Bundles : Restage(b)

Spec == Init /\ [][Next]_vars

\* A started publish runs on: no step waits for anything
FairSpec == Spec /\ WF_vars(Step)

-----------------------------------------------------------------------------
(* Properties *)

Results == {"none", "refused", "published", "rolled_back", "rollback_failed", "crashed"}

\* Types of the files and of the transaction's locals.
TypeOK ==
    /\ pc \in Steps \cup {"idle"}
    /\ {target, newTree, oldTree, snapBackup} \subseteq Trees
    /\ manifest \in Bundles \cup {Torn}
    /\ manifestBackup \in Bundles \cup {NoFile, Torn}
    /\ staged \in Bundles
    /\ replaced \in BOOLEAN
    /\ result \in Results
    /\ pre \in Trees \X (Bundles \cup {Torn})

\* Exceptions outside the two windows that the rollback does not cover: while
\* the backups are being made, and between the two renames
CoveredFaults == Steps \ {"rm_backup", "copy_backup", "copy_manifest", "move_new"}

\* persist.py:157-159: snapshots and manifest are updated "in one transaction",
\* rolled back "on any exception after mutation phase starts".  A publish that
\* returned left one bundle, snapshots and manifest, even if staging moved under
\* it; one that reports a rollback left the snapshots and the manifest it found,
\* even if an earlier publish died and left half of them.
AllOrNothing ==
    pc = "idle" =>
        /\ result = "published" => manifest \in Bundles /\ target = Whole(manifest)
        /\ result = "rolled_back" =>
               Snapshots(target) = Snapshots(pre[1]) /\ manifest = pre[2]

\* Exceptions once the backup of the snapshots is made, covered by the rollback or not
LateFaults == Steps \ {"rm_backup", "copy_backup"}

\* While a publish runs and after one that failed, rolled back, failed to roll back
\* or killed, the snapshots it found still exist in full on disk, whatever fails
\* after their backup is made: also where the rollback restores nothing or a torn
\* manifest.
PreviousSurvives ==
    HoldsFiles(pre[1])
        /\ (pc # "idle" \/ result \in {"rolled_back", "rollback_failed", "crashed"})
        => pre[1] \in {target, oldTree, snapBackup}

\* Read as an atomic replacement: until the transaction ends, production is what
\* it found; at its end it is what it left.
Atomic == INSTANCE AtomicPublish WITH
    production <- IF pc = "idle" THEN <<Snapshots(target), manifest>>
                  ELSE <<Snapshots(pre[1]), pre[2]>>,
    outcome    <- result

AtomicSpec == Atomic!Spec

\* Every publish ends, published, rolled back or reported as failed.
PublishEnds == pc # "idle" ~> pc = "idle"
==============================================================================
