------------------------------ MODULE MCPublish ------------------------------
(* Two bundles: whichever is in production, the other or the same is staged. *)
EXTENDS PublishTransaction

CONSTANTS b1, b2

TwoBundles == {b1, b2}

\* The steps whose failure the rollback does not undo: the backups, and the second of
\* the two renames that replace the target
BackupFaults == {"rm_backup", "copy_backup", "copy_manifest", "move_new"}
==============================================================================
