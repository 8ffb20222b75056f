------------------------ MODULE BundleLifecycleProofs ------------------------
(***************************************************************************)
(* Only bundles that the Research Lead approved reach production, an       *)
(* approval stands until something touches the directory, and fixtures     *)
(* stay out: for any documents and editions, any number of commands and    *)
(* hand edits, and any interleaving that Alone allows.                     *)
(***************************************************************************)
EXTENDS BundleLifecycle, TLAPS

\* Where each command may be
PlacesOf(c) ==
    IF c = "stage" THEN {"idle", "clear", "docs", "digest", "provenance"}
    ELSE IF c = "publish" THEN {"idle", "verify", "copy"}
    ELSE {"idle", "hash", "write"}

\* Types, and what a command has computed by the place it is at
WorkInv ==
    /\ TypeOK
    /\ \A c \in Commands : pc[c] \in PlacesOf(c)
    /\ pc["stage"] # "idle" => edition \in Editions
    /\ pc["stage"] = "provenance" => digest["stage"] \in Bundles
    /\ pc["stage"] \in {"idle", "clear", "docs"} => digest["stage"] = Missing
    /\ \A c \in {"approve", "rebase"} :
         /\ pc[c] # "idle" => read[c] \in Provenances
         /\ pc[c] = "write" => digest[c] \in Bundles
    /\ \A c \in Commands \ {"stage"} : pc[c] = "idle" => digest[c] = Missing
    /\ pc["publish"] # "idle" => read["publish"] \in Provenances

LEMMA BundlesAreHashes == Bundles \subseteq Hashes /\ Missing \notin Bundles
BY LifecycleConstants DEF Bundles, Hashes, Snapshots

\* What is staged has a digest, or not
LEMMA DigestType ==
    ASSUME TypeOK
    PROVE  Digest \in Bundles \cup {Missing}
<1>1. CASE manifest = Missing \/ \E d \in Docs : docs[d] = Missing
  BY <1>1 DEF Digest
<1>2. CASE manifest # Missing /\ \A d \in Docs : docs[d] # Missing
  <2>1. manifest \in [Docs -> Editions]
    BY <1>2 DEF TypeOK
  <2>2. docs \in [Docs -> Editions]
    BY <1>2 DEF TypeOK, Snapshots
  <2> QED
    BY <1>2, <2>1, <2>2 DEF Digest, Bundles
<1> QED
  BY <1>1, <1>2

\* What is hashed next, and when it is all
LEMMA HashedType ==
    ASSUME TypeOK, NEW c \in Commands, NEW hashes \in Hashed(c)
    PROVE  /\ hashes \in Hashes \cup {Missing}
           /\ Complete(hashes) => hashes \in Bundles
<1> USE LifecycleConstants
<1>1. hashes \in Hashes \cup {Missing}
  <2>1. CASE digest[c] = Missing
    <3>1. [d \in Docs |-> Missing] \in Snapshots
      BY DEF Snapshots
    <3>2. Digest # Missing => manifest \in [Docs -> Editions]
      BY DEF Digest, TypeOK
    <3> QED BY <2>1, <3>1, <3>2 DEF Hashed, Hashes
  <2>2. CASE digest[c] # Missing
    <3>1. digest[c] \in Hashes
      BY <2>2 DEF TypeOK
    <3>2. PICK d \in Docs : hashes = IF docs[d] = Missing THEN Missing ELSE [digest[c] EXCEPT !.docs[d] = docs[d]]
      BY <2>2 DEF Hashed
    <3>3. [digest[c] EXCEPT !.docs[d] = docs[d]]
            = [docs |-> [digest[c].docs EXCEPT ![d] = docs[d]], manifest |-> digest[c].manifest]
      BY <3>1 DEF Hashes
    <3>4. [digest[c].docs EXCEPT ![d] = docs[d]] \in Snapshots
      BY <3>1 DEF Hashes, Snapshots, TypeOK
    <3> QED BY <3>1, <3>2, <3>3, <3>4 DEF Hashes
  <2> QED BY <2>1, <2>2
<1>2. ASSUME Complete(hashes) PROVE hashes \in Bundles
  <2>1. hashes \in Hashes /\ \A d \in Docs : hashes.docs[d] # Missing
    BY <1>1, <1>2 DEF Complete
  <2>2. hashes.docs \in [Docs -> Editions]
    BY <2>1 DEF Hashes, Snapshots
  <2> QED BY <2>1, <2>2 DEF Hashes, Bundles
<1> QED BY <1>1, <1>2

\* A command hashes on, is done with it, or ends; the others stay as they are
LEMMA HashStepEffect ==
    ASSUME TypeOK, NEW c \in Commands, NEW at \in Places, NEW next \in Places,
           NEW hashes \in Hashed(c), HashStep(c, at, hashes, next)
    PROVE  /\ pc[c] = at
           /\ \A other \in Alone \ {c} : pc[other] = "idle"
           /\ pc' \in [Commands -> Places]
           /\ \A other \in Commands \ {c} :
                pc'[other] = pc[other] /\ digest'[other] = digest[other] /\ read'[other] = read[other]
           /\ digest' \in [Commands -> Hashes \cup {Missing}]
           /\ read' \in [Commands -> Provenances \cup {Missing}]
           /\ \/ pc'[c] = "idle" /\ digest'[c] = Missing /\ read'[c] = Missing
              \/ /\ pc'[c] # "idle" /\ digest'[c] = hashes /\ hashes # Missing /\ read'[c] = read[c]
                 /\ pc'[c] = IF Complete(hashes) THEN next ELSE at
           /\ UNCHANGED <<edition, todo>>
<1> USE LifecycleConstants
<1> DEFINE to == IF hashes = Missing THEN "idle" ELSE IF Complete(hashes) THEN next ELSE at
<1>1. Step(c, at, to) /\ to \in Places
  BY DEF HashStep, Places
<1>2. hashes \in Hashes \cup {Missing}
  BY HashedType
<1>3. CASE to = "idle"
  <2>1. Forget(c)
    BY <1>3 DEF HashStep
  <2> HIDE DEF to
  <2> QED BY <1>1, <1>3, <2>1 DEF Step, Forget, TypeOK
<1>4. CASE to # "idle"
  <2>1. digest' = [digest EXCEPT ![c] = hashes] /\ UNCHANGED <<edition, todo, read>>
    BY <1>4 DEF HashStep
  <2>2. hashes # Missing /\ to = IF Complete(hashes) THEN next ELSE at
    BY <1>4
  <2> HIDE DEF to
  <2>3. /\ pc[c] = at /\ (\A other \in Alone \ {c} : pc[other] = "idle")
        /\ pc' \in [Commands -> Places] /\ pc'[c] = to
        /\ \A other \in Commands \ {c} : pc'[other] = pc[other]
    BY <1>1 DEF Step, TypeOK
  <2>4. /\ digest' \in [Commands -> Hashes \cup {Missing}] /\ digest'[c] = hashes
        /\ \A other \in Commands \ {c} : digest'[other] = digest[other]
    BY <1>2, <2>1 DEF TypeOK
  <2>5. read' = read /\ read' \in [Commands -> Provenances \cup {Missing}]
    BY <2>1 DEF TypeOK
  <2> QED BY <1>4, <2>1, <2>2, <2>3, <2>4, <2>5
<1> QED BY <1>3, <1>4

\* What has been hashed is what is staged
Agrees(hashes) ==
    /\ manifest # Missing /\ hashes.manifest = manifest
    /\ \A d \in Docs : hashes.docs[d] \in {Missing, docs[d]}

LEMMA HashedAgrees ==
    ASSUME TypeOK, NEW c \in Commands, digest[c] # Missing => Agrees(digest[c]),
           NEW hashes \in Hashed(c), hashes # Missing
    PROVE  /\ Agrees(hashes)
           /\ Complete(hashes) => hashes = Digest
<1> USE LifecycleConstants
<1>1. Agrees(hashes)
  <2>1. CASE digest[c] = Missing
    BY <2>1 DEF Hashed, Agrees, Digest
  <2>2. CASE digest[c] # Missing
    <3>1. digest[c] \in Hashes
      BY <2>2 DEF TypeOK
    <3>2. PICK d \in Docs : hashes = [digest[c] EXCEPT !.docs[d] = docs[d]]
      BY <2>2 DEF Hashed
    <3>3. hashes.manifest = digest[c].manifest /\ hashes.docs = [digest[c].docs EXCEPT ![d] = docs[d]]
      BY <3>1, <3>2 DEF Hashes
    <3> QED BY <2>2, <3>1, <3>3 DEF Agrees, Hashes, Snapshots
  <2> QED BY <2>1, <2>2
<1>2. ASSUME Complete(hashes) PROVE hashes = Digest
  <2>1. hashes \in Hashes /\ \A d \in Docs : hashes.docs[d] # Missing
    BY <1>2, HashedType DEF Complete
  <2>2. hashes.manifest = manifest /\ manifest # Missing /\ \A d \in Docs : docs[d] # Missing /\ hashes.docs[d] = docs[d]
    BY <1>1, <2>1 DEF Agrees
  <2>3. hashes.docs = docs
    BY <2>1, <2>2 DEF Hashes, Snapshots, TypeOK
  <2> QED BY <2>1, <2>2, <2>3 DEF Hashes, Digest
<1> QED BY <1>1, <1>2

\* Every step keeps them
LEMMA WorkStep == WorkInv /\ [Next]_vars => WorkInv'
<1> SUFFICES ASSUME WorkInv, [Next]_vars PROVE WorkInv'
  OBVIOUS
<1> USE LifecycleConstants DEF history
<1>0. TypeOK /\ Digest \in Bundles \cup {Missing}
  BY DigestType DEF WorkInv
<1>1. ASSUME NEW e \in Editions, StageBegin(e) PROVE WorkInv'
  BY <1>1 DEF WorkInv, TypeOK, StageBegin, Step, PlacesOf, Places, Commands, staging
<1>2. CASE StageClear
  <2>1. /\ docs' \in Snapshots /\ manifest' \in {manifest, Missing} /\ prov' \in {prov, Missing}
        /\ UNCHANGED <<production, edition, todo, digest, read, approvals, late>>
        /\ untouched' = FALSE /\ certified' = FALSE
    BY <1>0, <1>2 DEF TypeOK, StageClear, Snapshots, staging, locals, Touched
  <2>2. /\ pc' \in [Commands -> Places] /\ pc["stage"] = "clear" /\ pc'["stage"] \in {"clear", "docs"}
        /\ \A c \in Commands \ {"stage"} : pc'[c] = pc[c]
    BY <1>0, <1>2 DEF TypeOK, StageClear, Step, Places, Commands
  <2>3. TypeOK'
    BY <1>0, <2>1, <2>2 DEF TypeOK
  <2> QED
    BY <2>1, <2>2, <2>3 DEF WorkInv, PlacesOf, Commands
<1>3. CASE StageWrite
  <2>1. /\ docs' \in Snapshots /\ manifest' \in [Docs -> Editions] \cup {Missing} /\ todo' \subseteq Docs
        /\ UNCHANGED <<prov, production, edition, digest, read, approvals, late>>
        /\ untouched' = FALSE /\ certified' = FALSE
    BY <1>0, <1>3 DEF WorkInv, TypeOK, StageWrite, Step, Snapshots, Touched
  <2>2. /\ pc' \in [Commands -> Places] /\ pc["stage"] = "docs" /\ pc'["stage"] \in {"docs", "digest"}
        /\ \A c \in Commands \ {"stage"} : pc'[c] = pc[c]
    BY <1>0, <1>3 DEF TypeOK, StageWrite, Step, Places, Commands
  <2>3. TypeOK'
    BY <1>0, <2>1, <2>2 DEF TypeOK
  <2> QED
    BY <2>1, <2>2, <2>3 DEF WorkInv, PlacesOf, Commands
<1>4. CASE StageDigest
  <2>1. PICK hashes \in Hashed("stage") : HashStep("stage", "digest", hashes, "provenance")
    BY <1>4 DEF StageDigest
  <2>2. "stage" \in Commands /\ {"digest", "provenance"} \subseteq Places
    BY DEF Commands, Places
  <2>3. Complete(hashes) => hashes \in Bundles
    BY <1>0, <2>2, HashedType
  <2>4. UNCHANGED <<staging, production, history>>
    BY <1>4 DEF StageDigest
  <2>5. TypeOK'
    BY <1>0, <2>1, <2>2, <2>4, HashStepEffect DEF TypeOK, staging, history
  <2> QED
    BY <1>0, <2>1, <2>2, <2>3, <2>5, HashStepEffect DEF WorkInv, PlacesOf, Commands
<1>5. CASE StageProvenance
  BY <1>5 DEF WorkInv, TypeOK, StageProvenance, Step, PlacesOf, Places, Commands, Touched, Forget,
              Provenances, OriginOf, Promotion
<1>6. CASE ApproveRead
  BY <1>6 DEF WorkInv, TypeOK, ApproveRead, Step, PlacesOf, Places, Commands, staging
<1>7. CASE ApproveHash
  <2>1. PICK hashes \in Hashed("approve") :
          HashStep("approve", "hash", hashes, IF hashes = read["approve"].staged THEN "write" ELSE "idle")
    BY <1>7 DEF ApproveHash
  <2>2. "approve" \in Commands /\ {"hash", "write", "idle"} \subseteq Places
    BY DEF Commands, Places
  <2>3. Complete(hashes) => hashes \in Bundles
    BY <1>0, <2>2, HashedType
  <2>4. UNCHANGED <<staging, production, approvals, certified, late>> /\ untouched' \in BOOLEAN
    BY <1>7 DEF ApproveHash
  <2>5. TypeOK'
    BY <1>0, <2>1, <2>2, <2>4, HashStepEffect DEF TypeOK, staging
  <2> QED
    BY <1>0, <2>1, <2>2, <2>3, <2>5, HashStepEffect DEF WorkInv, PlacesOf, Commands
<1>8. CASE ApproveWrite
  BY <1>8 DEF WorkInv, TypeOK, ApproveWrite, Step, PlacesOf, Places, Commands, Forget, Provenances, Approved
<1>9. ASSUME NEW d \in Docs, NEW e \in Live, Edit(d, e) PROVE WorkInv'
  <2>1. /\ docs' \in Snapshots /\ manifest' \in [Docs -> Editions] \cup {Missing}
        /\ UNCHANGED <<prov, production, pc, edition, todo, digest, read, approvals, late>>
        /\ untouched' = FALSE /\ certified' = FALSE
    BY <1>0, <1>9 DEF TypeOK, Edit, Snapshots, Editions, locals, Touched
  <2>2. TypeOK'
    BY <1>0, <2>1 DEF TypeOK
  <2> QED
    BY <2>1, <2>2 DEF WorkInv, PlacesOf, Commands
<1>10. CASE RebaseRead
  BY <1>10 DEF WorkInv, TypeOK, RebaseRead, Step, PlacesOf, Places, Commands, staging
<1>11. CASE RebaseHash
  <2>1. PICK hashes \in Hashed("rebase") : HashStep("rebase", "hash", hashes, "write")
    BY <1>11 DEF RebaseHash
  <2>2. "rebase" \in Commands /\ {"hash", "write"} \subseteq Places
    BY DEF Commands, Places
  <2>3. Complete(hashes) => hashes \in Bundles
    BY <1>0, <2>2, HashedType
  <2>4. UNCHANGED <<staging, production, history>>
    BY <1>11 DEF RebaseHash
  <2>5. TypeOK'
    BY <1>0, <2>1, <2>2, <2>4, HashStepEffect DEF TypeOK, staging, history
  <2> QED
    BY <1>0, <2>1, <2>2, <2>3, <2>5, HashStepEffect DEF WorkInv, PlacesOf, Commands
<1>12. CASE RebaseWrite
  BY <1>12 DEF WorkInv, TypeOK, RebaseWrite, Step, PlacesOf, Places, Commands, Forget, Provenances, Touched
<1>13. CASE PublishRead
  BY <1>13 DEF WorkInv, TypeOK, PublishRead, Step, PlacesOf, Places, Commands, staging, Promotable
<1>14. CASE PublishVerify
  <2>1. PICK hashes \in Hashed("publish") :
          HashStep("publish", "verify", hashes, IF Verified(hashes) THEN "copy" ELSE "idle")
    BY <1>14 DEF PublishVerify
  <2>2. "publish" \in Commands /\ {"verify", "copy", "idle"} \subseteq Places
    BY DEF Commands, Places
  <2>4. UNCHANGED <<staging, production, history>>
    BY <1>14 DEF PublishVerify
  <2>5. TypeOK'
    BY <1>0, <2>1, <2>2, <2>4, HashStepEffect DEF TypeOK, staging, history
  <2> QED
    BY <1>0, <2>1, <2>2, <2>5, HashStepEffect DEF WorkInv, PlacesOf, Commands
<1>15. CASE PublishCopy
  BY <1>0, <1>15 DEF WorkInv, TypeOK, PublishCopy, Step, PlacesOf, Places, Commands, staging, Forget, Consistent
<1>16. ASSUME NEW c \in Commands, Abort(c) PROVE WorkInv'
  BY <1>16 DEF WorkInv, TypeOK, Abort, PlacesOf, Places, Commands, staging, Forget
<1>17. CASE UNCHANGED vars
  BY <1>17 DEF WorkInv, TypeOK, vars, staging, locals
<1> QED
  BY <1>1, <1>2, <1>3, <1>4, <1>5, <1>6, <1>7, <1>8, <1>9, <1>10, <1>11, <1>12, <1>13, <1>14,
     <1>15, <1>16, <1>17 DEF Next

LEMMA WorkInit == Init => WorkInv
BY LifecycleConstants DEF Init, WorkInv, TypeOK, PlacesOf, Places, Commands, Snapshots

\* Types of the files, the provenance and the commands' locals, for any number
\* of documents, editions, commands and edits.
THEOREM LifecycleTypes == Spec => []TypeOK
<1>1. WorkInv => TypeOK
  BY DEF WorkInv
<1> QED
  BY <1>1, WorkInit, WorkStep, PTL DEF Spec

-----------------------------------------------------------------------------

\* The approved bundle a provenance names, if any, was approved
Backed(p) == p # Missing /\ p.approved # Missing => p.approved \in approvals

\* A publish works from a provenance that is backed, and by the time it copies,
\* what is staged is the bundle that provenance names
ApprovedInv ==
    /\ Backed(prov)
    /\ \A c \in Commands : Backed(read[c])
    /\ pc["publish"] # "idle" => Promotable(read["publish"])
    /\ pc["publish"] = "verify" /\ digest["publish"] # Missing => Agrees(digest["publish"])
    /\ pc["publish"] = "copy" => Digest = read["publish"].approved
    /\ OnlyApprovedIsPublished

\* Nothing else touches the staging directory or the files' digest
Undisturbed == docs' = docs /\ manifest' = manifest

LEMMA DigestKept == ASSUME Undisturbed PROVE Digest' = Digest
BY DEF Undisturbed, Digest

\* Every step keeps the invariant: the commands that write staging wait for the
\* publish, and an approval adds what it writes to the approvals.
LEMMA ApprovedStep ==
    ASSUME "publish" \in Alone, WorkInv, ApprovedInv, [Next]_vars
    PROVE  ApprovedInv'
<1> USE LifecycleConstants DEF history, Agrees
<1>0. TypeOK
  BY DEF WorkInv
<1>1. ASSUME NEW e \in Editions, StageBegin(e) PROVE ApprovedInv'
  BY <1>1, DigestKept DEF ApprovedInv, WorkInv, TypeOK, StageBegin, Step, Commands, staging, Undisturbed,
        Backed, Promotable, OnlyApprovedIsPublished
<1>2. CASE StageClear
  BY <1>2 DEF ApprovedInv, WorkInv, TypeOK, StageClear, Step, Commands, staging, locals, Backed, Promotable,
        OnlyApprovedIsPublished
<1>3. CASE StageWrite
  BY <1>3 DEF ApprovedInv, WorkInv, TypeOK, StageWrite, Step, Commands, Backed, Promotable, OnlyApprovedIsPublished
<1>4. CASE StageDigest
  <2>1. PICK hashes \in Hashed("stage") : HashStep("stage", "digest", hashes, "provenance")
    BY <1>4 DEF StageDigest
  <2>2. "stage" \in Commands /\ {"digest", "provenance"} \subseteq Places
    BY DEF Commands, Places
  <2>3. Digest' = Digest /\ UNCHANGED <<docs, manifest, prov, production, approvals>>
    BY <1>4, DigestKept DEF StageDigest, staging, history, Undisturbed
  <2> QED
    BY <1>0, <2>1, <2>2, <2>3, HashStepEffect DEF ApprovedInv, Commands, Backed, OnlyApprovedIsPublished
<1>5. CASE StageProvenance
  BY <1>5 DEF ApprovedInv, WorkInv, TypeOK, StageProvenance, Step, Commands, Forget, Backed, Promotable,
        OnlyApprovedIsPublished
<1>6. CASE ApproveRead
  BY <1>6, DigestKept DEF ApprovedInv, WorkInv, TypeOK, ApproveRead, Step, Commands, staging, Undisturbed,
        Backed, Promotable, OnlyApprovedIsPublished
<1>7. CASE ApproveHash
  <2>1. PICK hashes \in Hashed("approve") : HashStep("approve", "hash", hashes, IF hashes = read["approve"].staged THEN "write" ELSE "idle")
    BY <1>7 DEF ApproveHash
  <2>2. "approve" \in Commands /\ {"hash", "write", "idle"} \subseteq Places
    BY DEF Commands, Places
  <2>3. Digest' = Digest /\ UNCHANGED <<docs, manifest, prov, production, approvals>>
    BY <1>7, DigestKept DEF ApproveHash, staging, history, Undisturbed
  <2> QED
    BY <1>0, <2>1, <2>2, <2>3, HashStepEffect DEF ApprovedInv, Commands, Backed, OnlyApprovedIsPublished
<1>8. CASE ApproveWrite
  BY <1>8 DEF ApprovedInv, WorkInv, TypeOK, ApproveWrite, Step, Commands, Forget, Approved, Backed, Promotable,
        OnlyApprovedIsPublished
<1>9. ASSUME NEW d \in Docs, NEW e \in Live, Edit(d, e) PROVE ApprovedInv'
  BY <1>9 DEF ApprovedInv, WorkInv, TypeOK, Edit, Commands, locals, Backed, Promotable, OnlyApprovedIsPublished
<1>10. CASE RebaseRead
  BY <1>10, DigestKept DEF ApprovedInv, WorkInv, TypeOK, RebaseRead, Step, Commands, staging, Undisturbed,
        Backed, Promotable, OnlyApprovedIsPublished
<1>11. CASE RebaseHash
  <2>1. PICK hashes \in Hashed("rebase") : HashStep("rebase", "hash", hashes, "write")
    BY <1>11 DEF RebaseHash
  <2>2. "rebase" \in Commands /\ {"hash", "write"} \subseteq Places
    BY DEF Commands, Places
  <2>3. Digest' = Digest /\ UNCHANGED <<docs, manifest, prov, production, approvals>>
    BY <1>11, DigestKept DEF RebaseHash, staging, history, Undisturbed
  <2> QED
    BY <1>0, <2>1, <2>2, <2>3, HashStepEffect DEF ApprovedInv, Commands, Backed, OnlyApprovedIsPublished
<1>12. CASE RebaseWrite
  BY <1>12 DEF ApprovedInv, WorkInv, TypeOK, RebaseWrite, Step, Commands, Forget, Backed, Promotable,
        OnlyApprovedIsPublished
<1>13. CASE PublishRead
  BY <1>13, DigestKept DEF ApprovedInv, WorkInv, TypeOK, PublishRead, Step, Commands, staging, Undisturbed,
        Backed, Promotable, OnlyApprovedIsPublished
<1>14. CASE PublishVerify
  <2>1. PICK hashes \in Hashed("publish") : HashStep("publish", "verify", hashes, IF Verified(hashes) THEN "copy" ELSE "idle")
    BY <1>14 DEF PublishVerify
  <2>2. "publish" \in Commands /\ {"verify", "copy", "idle"} \subseteq Places
    BY DEF Commands, Places
  <2>3. Digest' = Digest /\ UNCHANGED <<docs, manifest, prov, production, approvals>>
    BY <1>14, DigestKept DEF PublishVerify, staging, history, Undisturbed
  <2>4. pc["publish"] = "verify"
    BY <1>0, <2>1, <2>2, HashStepEffect
  <2>5. hashes # Missing => Agrees(hashes) /\ (Complete(hashes) => hashes = Digest)
    BY <1>0, <2>2, <2>4, HashedAgrees DEF ApprovedInv
  <2>6. CASE pc'["publish"] = "idle" /\ digest'["publish"] = Missing /\ read'["publish"] = Missing
    BY <1>0, <2>1, <2>2, <2>3, <2>6, HashStepEffect DEF ApprovedInv, Commands, Backed, OnlyApprovedIsPublished
  <2>7. CASE /\ digest'["publish"] = hashes /\ hashes # Missing /\ read'["publish"] = read["publish"]
             /\ pc'["publish"] = IF Complete(hashes) THEN IF Verified(hashes) THEN "copy" ELSE "idle" ELSE "verify"
    <3>1. pc'["publish"] = "copy" => Digest' = read'["publish"].approved
      BY <2>3, <2>5, <2>7 DEF Verified
    <3>2. Agrees(hashes)'
      BY <2>3, <2>5, <2>7
    <3>3. \A c \in Commands : read'[c] = read[c]
      BY <1>0, <2>1, <2>2, <2>7, HashStepEffect DEF Commands
    <3>4. Promotable(read'["publish"])
      BY <2>4, <2>7 DEF ApprovedInv
    <3> QED
      BY <2>3, <2>7, <3>1, <3>2, <3>3, <3>4 DEF ApprovedInv, Backed, OnlyApprovedIsPublished
  <2> QED
    BY <1>0, <2>1, <2>2, <2>6, <2>7, HashStepEffect
<1>15. CASE PublishCopy
  BY <1>15, DigestKept DEF ApprovedInv, WorkInv, TypeOK, PublishCopy, Step, Commands, staging, Forget, Undisturbed,
        Backed, Promotable, OnlyApprovedIsPublished, Consistent
<1>16. ASSUME NEW c \in Commands, Abort(c) PROVE ApprovedInv'
  BY <1>16, DigestKept DEF ApprovedInv, WorkInv, TypeOK, Abort, Commands, staging, Forget, Undisturbed,
        Backed, Promotable, OnlyApprovedIsPublished
<1>17. CASE UNCHANGED vars
  BY <1>17, DigestKept DEF ApprovedInv, vars, staging, locals, Undisturbed, Backed, Promotable,
        OnlyApprovedIsPublished
<1> QED
  BY <1>1, <1>2, <1>3, <1>4, <1>5, <1>6, <1>7, <1>8, <1>9, <1>10, <1>11, <1>12, <1>13, <1>14,
     <1>15, <1>16, <1>17 DEF Next

LEMMA ApprovedInit == Init => ApprovedInv
BY DEF Init, ApprovedInv, Backed, OnlyApprovedIsPublished, Commands

\* docs/HUONG_DAN_TOAN_DIEN.md:238: whatever was staged, edited, rebaselined or
\* interrupted, and however the other commands interleave, production holds a
\* bundle that was approved, if a publish runs undisturbed.
THEOREM PublishedIsApproved ==
    ASSUME "publish" \in Alone
    PROVE  Spec => []OnlyApprovedIsPublished
<1>1. Init => WorkInv /\ ApprovedInv
  BY WorkInit, ApprovedInit
<1>2. WorkInv /\ ApprovedInv /\ [Next]_vars => WorkInv' /\ ApprovedInv'
  BY WorkStep, ApprovedStep
<1>3. ApprovedInv => OnlyApprovedIsPublished
  BY DEF ApprovedInv
<1> QED
  BY <1>1, <1>2, <1>3, PTL DEF Spec

-----------------------------------------------------------------------------

\* From the first hash of an approval on, as long as nothing touches the directory,
\* what it has hashed, and what is approved, is what is staged
CertifiedInv ==
    /\ pc["approve"] # "idle" => read["approve"].origin = "live"
    /\ pc["approve"] = "hash" /\ untouched /\ digest["approve"] # Missing => Agrees(digest["approve"])
    /\ pc["approve"] = "write" /\ untouched => digest["approve"] = Digest
    /\ ApprovalStands

LEMMA CertifiedStep == WorkInv /\ CertifiedInv /\ [Next]_vars => CertifiedInv'
<1> SUFFICES ASSUME WorkInv, CertifiedInv, [Next]_vars PROVE CertifiedInv'
  OBVIOUS
<1> USE LifecycleConstants DEF history, Agrees
<1>0. TypeOK
  BY DEF WorkInv
<1>1. ASSUME NEW e \in Editions, StageBegin(e) PROVE CertifiedInv'
  BY <1>1, DigestKept DEF CertifiedInv, WorkInv, TypeOK, StageBegin, Step, Commands, staging, Undisturbed,
        Promotable, ApprovalStands
<1>2. CASE StageClear
  BY <1>2 DEF CertifiedInv, WorkInv, TypeOK, StageClear, Step, Commands, locals, Touched, ApprovalStands
<1>3. CASE StageWrite
  BY <1>3 DEF CertifiedInv, WorkInv, TypeOK, StageWrite, Step, Commands, Touched, ApprovalStands
<1>4. CASE StageDigest
  <2>1. PICK hashes \in Hashed("stage") : HashStep("stage", "digest", hashes, "provenance")
    BY <1>4 DEF StageDigest
  <2>2. "stage" \in Commands /\ {"digest", "provenance"} \subseteq Places
    BY DEF Commands, Places
  <2>3. Digest' = Digest /\ UNCHANGED <<docs, manifest, prov, production, approvals, certified, late>>
    BY <1>4, DigestKept DEF StageDigest, staging, history, Undisturbed
  <2>4. untouched' = untouched
    BY <1>4 DEF StageDigest
  <2> QED
    BY <1>0, <2>1, <2>2, <2>3, <2>4, HashStepEffect DEF CertifiedInv, Commands, ApprovalStands, Promotable
<1>5. CASE StageProvenance
  BY <1>5 DEF CertifiedInv, WorkInv, TypeOK, StageProvenance, Step, Commands, Forget, Touched, ApprovalStands
<1>6. CASE ApproveRead
  BY <1>6, DigestKept DEF CertifiedInv, WorkInv, TypeOK, ApproveRead, Step, Commands, staging, Undisturbed,
        Promotable, ApprovalStands
<1>7. CASE ApproveHash
  <2>1. PICK hashes \in Hashed("approve") : HashStep("approve", "hash", hashes, IF hashes = read["approve"].staged THEN "write" ELSE "idle")
    BY <1>7 DEF ApproveHash
  <2>2. "approve" \in Commands /\ {"hash", "write", "idle"} \subseteq Places
    BY DEF Commands, Places
  <2>3. Digest' = Digest /\ UNCHANGED <<docs, manifest, prov, production, approvals, certified, late>>
    BY <1>7, DigestKept DEF ApproveHash, staging, history, Undisturbed
  <2>4. ApprovalStands'
    BY <2>3 DEF CertifiedInv, ApprovalStands, Promotable
  <2>5. pc["approve"] = "hash" /\ untouched' = (untouched \/ digest["approve"] = Missing)
    BY <1>0, <1>7, <2>1, <2>2, HashStepEffect DEF ApproveHash
  <2>6. CASE pc'["approve"] = "idle"
    BY <2>4, <2>6 DEF CertifiedInv
  <2>7. CASE /\ digest'["approve"] = hashes /\ hashes # Missing /\ read'["approve"] = read["approve"]
             /\ pc'["approve"] = IF Complete(hashes) THEN IF hashes = read["approve"].staged THEN "write" ELSE "idle" ELSE "hash"
    <3>1. untouched' => Agrees(hashes) /\ (Complete(hashes) => hashes = Digest)
      <4>1. untouched' => (digest["approve"] # Missing => Agrees(digest["approve"]))
        BY <2>5 DEF CertifiedInv
      <4> QED BY <1>0, <2>2, <2>7, <4>1, HashedAgrees
    <3>2. read'["approve"].origin = "live"
      BY <2>5, <2>7 DEF CertifiedInv
    <3> QED
      BY <2>3, <2>4, <2>7, <3>1, <3>2 DEF CertifiedInv
  <2> QED
    BY <1>0, <2>1, <2>2, <2>6, <2>7, HashStepEffect
<1>8. CASE ApproveWrite
  <2>1. digest["approve"] # Missing
    BY <1>8, BundlesAreHashes DEF WorkInv, ApproveWrite, Step, Commands
  <2>2. Digest' = Digest
    BY <1>8, DigestKept DEF ApproveWrite, Undisturbed
  <2>3. pc["approve"] = "write" /\ pc'["approve"] = "idle"
    BY <1>8 DEF WorkInv, TypeOK, ApproveWrite, Step, Commands
  <2>4. certified' = untouched
    BY <1>8 DEF ApproveWrite
  <2>5. prov' # Missing
    BY <1>8, <2>3 DEF WorkInv, Commands, ApproveWrite, Approved, Provenances
  <2>6. untouched => Promotable(prov') /\ prov'.approved = Digest
    BY <1>8, <2>1, <2>3, <2>5 DEF CertifiedInv, ApproveWrite, Approved, Promotable
  <2> QED
    BY <2>2, <2>3, <2>4, <2>6 DEF CertifiedInv, ApprovalStands, Promotable
<1>9. ASSUME NEW d \in Docs, NEW e \in Live, Edit(d, e) PROVE CertifiedInv'
  BY <1>9 DEF CertifiedInv, WorkInv, TypeOK, Edit, Commands, locals, Touched, ApprovalStands
<1>10. CASE RebaseRead
  BY <1>10, DigestKept DEF CertifiedInv, WorkInv, TypeOK, RebaseRead, Step, Commands, staging, Undisturbed,
        Promotable, ApprovalStands
<1>11. CASE RebaseHash
  <2>1. PICK hashes \in Hashed("rebase") : HashStep("rebase", "hash", hashes, "write")
    BY <1>11 DEF RebaseHash
  <2>2. "rebase" \in Commands /\ {"hash", "write"} \subseteq Places
    BY DEF Commands, Places
  <2>3. Digest' = Digest /\ UNCHANGED <<docs, manifest, prov, production, approvals, certified, late>>
    BY <1>11, DigestKept DEF RebaseHash, staging, history, Undisturbed
  <2>4. untouched' = untouched
    BY <1>11 DEF RebaseHash
  <2> QED
    BY <1>0, <2>1, <2>2, <2>3, <2>4, HashStepEffect DEF CertifiedInv, Commands, ApprovalStands, Promotable
<1>12. CASE RebaseWrite
  BY <1>12 DEF CertifiedInv, WorkInv, TypeOK, RebaseWrite, Step, Commands, Forget, Touched, ApprovalStands
<1>13. CASE PublishRead
  BY <1>13, DigestKept DEF CertifiedInv, WorkInv, TypeOK, PublishRead, Step, Commands, staging, Undisturbed,
        Promotable, ApprovalStands
<1>14. CASE PublishVerify
  <2>1. PICK hashes \in Hashed("publish") : HashStep("publish", "verify", hashes, IF Verified(hashes) THEN "copy" ELSE "idle")
    BY <1>14 DEF PublishVerify
  <2>2. "publish" \in Commands /\ {"verify", "copy", "idle"} \subseteq Places
    BY DEF Commands, Places
  <2>3. Digest' = Digest /\ UNCHANGED <<docs, manifest, prov, production, approvals, certified, late>>
    BY <1>14, DigestKept DEF PublishVerify, staging, history, Undisturbed
  <2>4. untouched' = untouched
    BY <1>14 DEF PublishVerify
  <2> QED
    BY <1>0, <2>1, <2>2, <2>3, <2>4, HashStepEffect DEF CertifiedInv, Commands, ApprovalStands, Promotable
<1>15. CASE PublishCopy
  BY <1>15, DigestKept DEF CertifiedInv, WorkInv, TypeOK, PublishCopy, Step, Commands, staging, Forget,
        Undisturbed, Promotable, ApprovalStands
<1>16. ASSUME NEW c \in Commands, Abort(c) PROVE CertifiedInv'
  BY <1>16, DigestKept DEF CertifiedInv, WorkInv, TypeOK, Abort, Commands, staging, Forget, Undisturbed,
        Promotable, ApprovalStands
<1>17. CASE UNCHANGED vars
  BY <1>17, DigestKept DEF CertifiedInv, vars, staging, locals, Undisturbed, Promotable, ApprovalStands
<1> QED
  BY <1>1, <1>2, <1>3, <1>4, <1>5, <1>6, <1>7, <1>8, <1>9, <1>10, <1>11, <1>12, <1>13, <1>14,
     <1>15, <1>16, <1>17 DEF Next

LEMMA CertifiedInit == Init => CertifiedInv
BY DEF Init, CertifiedInv, ApprovalStands, Commands

\* An approval written over the files it hashed is accepted by publish until
\* something touches the staging directory, however the commands interleave.
THEOREM ApprovalsStand == Spec => []ApprovalStands
<1>1. Init => WorkInv /\ CertifiedInv
  BY WorkInit, CertifiedInit
<1>2. WorkInv /\ CertifiedInv /\ [Next]_vars => WorkInv' /\ CertifiedInv'
  BY WorkStep, CertifiedStep
<1>3. CertifiedInv => ApprovalStands
  BY DEF CertifiedInv
<1> QED
  BY <1>1, <1>2, <1>3, PTL DEF Spec

-----------------------------------------------------------------------------

LiveFiles == \A d \in Docs : docs[d] \in Live \cup {Missing}

LiveBundle(b) == b # Missing => \A d \in Docs : b.docs[d] \in Live
LiveHashes(b) == b # Missing => \A d \in Docs : b.docs[d] \in Live \cup {Missing}

\* Until an approval is late: where a live provenance lies, or a live edition is
\* being staged, no file is a fixture's; a stage empties the directory before it
\* writes, so no provenance lies over a mixture; what is approved is what the
\* live provenance that was read says is staged
LiveInv ==
    /\ prov # Missing /\ prov.origin = "live" => LiveFiles /\ LiveBundle(prov.staged)
    /\ prov # Missing /\ prov.status = "approved" => prov.origin = "live" /\ prov.approved # Missing /\ LiveBundle(prov.approved)
    /\ pc["stage"] = "docs" => prov = Missing /\ manifest = Missing
    /\ pc["stage"] \in {"docs", "digest", "provenance"} /\ edition \in Live => LiveFiles
    /\ pc["stage"] \in {"digest", "provenance"} /\ edition \in Live => LiveHashes(digest["stage"])
    /\ pc["approve"] # "idle" => LiveBundle(read["approve"].staged)
    /\ pc["approve"] = "write" => digest["approve"] = read["approve"].staged
    /\ pc["rebase"] # "idle" => read["rebase"] = prov
    /\ pc["rebase"] = "hash" /\ digest["rebase"] # Missing => Agrees(digest["rebase"])
    /\ pc["rebase"] = "write" => digest["rebase"] = Digest
    /\ pc["publish"] # "idle" => LiveBundle(read["publish"].approved)
    /\ pc["publish"] = "verify" /\ digest["publish"] # Missing => Agrees(digest["publish"])
    /\ pc["publish"] = "copy" => Digest = read["publish"].approved
    /\ LiveBundle(production)

\* Files of which none is a fixture's have a digest of which none is
LEMMA LiveDigest == ASSUME LiveFiles PROVE LiveBundle(Digest)
BY LifecycleConstants DEF LiveFiles, LiveBundle, Digest

LEMMA LiveHashed ==
    ASSUME TypeOK, LiveFiles, NEW c \in Commands, LiveHashes(digest[c]), NEW hashes \in Hashed(c)
    PROVE  LiveHashes(hashes)
<1> USE LifecycleConstants
<1>1. CASE digest[c] = Missing
  BY <1>1 DEF Hashed, LiveHashes
<1>2. CASE digest[c] # Missing
  <2>1. digest[c] \in Hashes
    BY <1>2 DEF TypeOK
  <2>2. PICK d \in Docs : hashes = IF docs[d] = Missing THEN Missing ELSE [digest[c] EXCEPT !.docs[d] = docs[d]]
    BY <1>2 DEF Hashed
  <2>3. [digest[c] EXCEPT !.docs[d] = docs[d]].docs = [digest[c].docs EXCEPT ![d] = docs[d]]
    BY <2>1 DEF Hashes
  <2> QED BY <1>2, <2>1, <2>2, <2>3 DEF LiveHashes, LiveFiles, Hashes, Snapshots
<1> QED BY <1>1, <1>2

\* Every step but a late approval keeps the invariant.
LEMMA LiveStep ==
    ASSUME {"publish", "rebase"} \subseteq Alone, WorkInv, CertifiedInv, LiveInv, [Next]_vars, ~late'
    PROVE  LiveInv'
<1> USE LifecycleConstants DEF history, Agrees, LiveHashes
<1>0. TypeOK
  BY DEF WorkInv
<1>1. ASSUME NEW e \in Editions, StageBegin(e) PROVE LiveInv'
  BY <1>1, DigestKept DEF LiveInv, WorkInv, TypeOK, StageBegin, Step, Commands, LiveFiles, LiveBundle,
        staging, Undisturbed
<1>2. CASE StageClear
  <2>1. /\ pc["rebase"] = "idle" /\ pc'["rebase"] = "idle"
        /\ pc["publish"] = "idle" /\ pc'["publish"] = "idle"
        /\ pc'["approve"] = pc["approve"] /\ pc'["stage"] \in {"clear", "docs"}
    BY <1>2 DEF WorkInv, TypeOK, StageClear, Step, Commands
  <2>2. pc'["stage"] = "docs" => prov' = Missing /\ manifest' = Missing /\ LiveFiles'
    BY <1>2 DEF WorkInv, TypeOK, StageClear, Step, Commands, LiveFiles, staging
  <2>3. LiveFiles => LiveFiles'
    BY <1>2 DEF WorkInv, TypeOK, StageClear, Snapshots, LiveFiles, staging
  <2>4. prov' \in {prov, Missing} /\ UNCHANGED <<production, locals>>
    BY <1>2 DEF StageClear, staging
  <2> QED
    BY <2>1, <2>2, <2>3, <2>4 DEF LiveInv, LiveBundle, locals
<1>3. CASE StageWrite
  BY <1>3 DEF LiveInv, WorkInv, TypeOK, StageWrite, Step, Commands, LiveFiles, LiveBundle,
        Snapshots
<1>4. CASE StageDigest
  <2>1. PICK hashes \in Hashed("stage") : HashStep("stage", "digest", hashes, "provenance")
    BY <1>4 DEF StageDigest
  <2>2. "stage" \in Commands /\ {"digest", "provenance"} \subseteq Places
    BY DEF Commands, Places
  <2>3. Digest' = Digest /\ UNCHANGED <<docs, manifest, prov, production, approvals, certified, late>>
    BY <1>4, DigestKept DEF StageDigest, staging, history, Undisturbed
  <2>4. pc["stage"] = "digest"
    BY <1>0, <2>1, <2>2, HashStepEffect
  <2>5. edition \in Live => LiveHashes(hashes)
    <3> SUFFICES ASSUME edition \in Live PROVE LiveHashes(hashes)
      OBVIOUS
    <3>1. LiveFiles /\ LiveHashes(digest["stage"])
      BY <2>4 DEF LiveInv
    <3> QED
      BY <3>1, <1>0, <2>2, LiveHashed
  <2> QED
    BY <1>0, <2>1, <2>2, <2>3, <2>4, <2>5, HashStepEffect DEF LiveInv, Commands, LiveFiles, LiveBundle
<1>5. CASE StageProvenance
  <2>1. /\ pc["stage"] = "provenance" /\ pc'["stage"] = "idle" /\ pc'["approve"] = pc["approve"]
        /\ pc["rebase"] = "idle" /\ pc'["rebase"] = "idle"
        /\ pc["publish"] = "idle" /\ pc'["publish"] = "idle"
    BY <1>0, <1>5 DEF TypeOK, StageProvenance, Step, Commands
  <2>2. /\ UNCHANGED <<docs, manifest, production, edition>>
        /\ digest'["approve"] = digest["approve"] /\ read'["approve"] = read["approve"]
    BY <1>0, <1>5 DEF TypeOK, StageProvenance, Forget, Commands
  <2>3. /\ prov'.origin = OriginOf(edition) /\ prov'.status # "approved"
        /\ prov'.staged = digest["stage"]
    BY <1>5 DEF StageProvenance, Promotion
  <2>4. OriginOf(edition) = "live" => edition \in Live /\ LiveFiles /\ LiveHashes(digest["stage"])
    BY <2>1 DEF LiveInv, OriginOf
  <2>5. digest["stage"] \in Bundles
    BY <2>1 DEF WorkInv
  <2>6. OriginOf(edition) = "live" => LiveBundle(digest["stage"])
    BY <2>4, <2>5 DEF LiveBundle, Bundles
  <2>7. LiveFiles' <=> LiveFiles
    BY <2>2 DEF LiveFiles
  <2> QED
    BY <2>1, <2>2, <2>3, <2>4, <2>6, <2>7 DEF LiveInv, LiveBundle
<1>6. CASE ApproveRead
  BY <1>6, DigestKept DEF LiveInv, WorkInv, TypeOK, ApproveRead, Step, Commands, LiveFiles, LiveBundle,
        staging, Undisturbed
<1>7. CASE ApproveHash
  <2>1. PICK hashes \in Hashed("approve") : HashStep("approve", "hash", hashes, IF hashes = read["approve"].staged THEN "write" ELSE "idle")
    BY <1>7 DEF ApproveHash
  <2>2. "approve" \in Commands /\ {"hash", "write", "idle"} \subseteq Places
    BY DEF Commands, Places
  <2>3. Digest' = Digest /\ UNCHANGED <<docs, manifest, prov, production, approvals, certified, late>>
    BY <1>7, DigestKept DEF ApproveHash, staging, history, Undisturbed
  <2> QED
    BY <1>0, <2>1, <2>2, <2>3, HashStepEffect DEF LiveInv, Commands, LiveFiles, LiveBundle
<1>8. CASE ApproveWrite
  <2>1. /\ pc["approve"] = "write" /\ pc'["approve"] = "idle" /\ pc'["stage"] = pc["stage"]
        /\ pc["rebase"] = "idle" /\ pc'["rebase"] = "idle"
        /\ pc["publish"] = "idle" /\ pc'["publish"] = "idle"
    BY <1>8 DEF WorkInv, TypeOK, ApproveWrite, Step, Commands
  <2>2. /\ digest["approve"] \in Bundles /\ digest["approve"] = Digest
        /\ digest["approve"] = read["approve"].staged /\ read["approve"].origin = "live"
    BY <1>8, <2>1 DEF WorkInv, LiveInv, CertifiedInv, ApproveWrite
  <2>3. LiveBundle(digest["approve"])
    BY <2>1, <2>2 DEF LiveInv
  <2>4. manifest # Missing /\ docs = digest["approve"].docs
    BY <2>2, BundlesAreHashes DEF Digest
  <2>5. LiveFiles'
    BY <1>8, <2>2, <2>3, <2>4, BundlesAreHashes DEF LiveFiles, LiveBundle, ApproveWrite
  <2>6. prov' = [origin |-> "live", status |-> "approved",
                 staged |-> digest["approve"], approved |-> digest["approve"]]
    BY <1>8, <2>2 DEF ApproveWrite, Approved
  <2>7. digest'["stage"] = digest["stage"] /\ UNCHANGED <<docs, manifest, production, edition>>
    BY <1>8 DEF ApproveWrite, Forget, WorkInv, TypeOK, Commands
  <2> QED
    BY <2>1, <2>2, <2>3, <2>4, <2>5, <2>6, <2>7, BundlesAreHashes DEF LiveInv, LiveBundle
<1>9. ASSUME NEW d \in Docs, NEW e \in Live, Edit(d, e) PROVE LiveInv'
  BY <1>9 DEF LiveInv, WorkInv, TypeOK, Edit, Step, Commands, LiveFiles, LiveBundle,
        locals, Snapshots
<1>10. CASE RebaseRead
  BY <1>10, DigestKept DEF LiveInv, WorkInv, TypeOK, RebaseRead, Step, Commands, LiveFiles, LiveBundle,
        staging, Undisturbed
<1>11. CASE RebaseHash
  <2>1. PICK hashes \in Hashed("rebase") : HashStep("rebase", "hash", hashes, "write")
    BY <1>11 DEF RebaseHash
  <2>2. "rebase" \in Commands /\ {"hash", "write"} \subseteq Places
    BY DEF Commands, Places
  <2>3. Digest' = Digest /\ UNCHANGED <<docs, manifest, prov, production, approvals, certified, late>>
    BY <1>11, DigestKept DEF RebaseHash, staging, history, Undisturbed
  <2>4. pc["rebase"] = "hash"
    BY <1>0, <2>1, <2>2, HashStepEffect
  <2>5. hashes # Missing => Agrees(hashes) /\ (Complete(hashes) => hashes = Digest)
    BY <1>0, <2>2, <2>4, HashedAgrees DEF LiveInv
  <2> QED
    BY <1>0, <2>1, <2>2, <2>3, <2>4, <2>5, HashStepEffect DEF LiveInv, Commands, LiveFiles, LiveBundle
<1>12. CASE RebaseWrite
  BY <1>12, DigestKept, LiveDigest DEF LiveInv, WorkInv, TypeOK, RebaseWrite, Step, Commands, LiveFiles, LiveBundle,
        Forget, Undisturbed, Provenances
<1>13. CASE PublishRead
  BY <1>13, DigestKept DEF LiveInv, WorkInv, TypeOK, PublishRead, Step, Commands, LiveFiles, LiveBundle,
        staging, Undisturbed, Promotable
<1>14. CASE PublishVerify
  <2>1. PICK hashes \in Hashed("publish") : HashStep("publish", "verify", hashes, IF Verified(hashes) THEN "copy" ELSE "idle")
    BY <1>14 DEF PublishVerify
  <2>2. "publish" \in Commands /\ {"verify", "copy", "idle"} \subseteq Places
    BY DEF Commands, Places
  <2>3. Digest' = Digest /\ UNCHANGED <<docs, manifest, prov, production, approvals, certified, late>>
    BY <1>14, DigestKept DEF PublishVerify, staging, history, Undisturbed
  <2>4. pc["publish"] = "verify"
    BY <1>0, <2>1, <2>2, HashStepEffect
  <2>5. hashes # Missing => Agrees(hashes) /\ (Complete(hashes) => hashes = Digest)
    BY <1>0, <2>2, <2>4, HashedAgrees DEF LiveInv
  <2> QED
    BY <1>0, <2>1, <2>2, <2>3, <2>4, <2>5, HashStepEffect DEF LiveInv, Commands, LiveFiles, LiveBundle, Verified
<1>15. CASE PublishCopy
  BY <1>15, DigestKept DEF LiveInv, WorkInv, TypeOK, PublishCopy, Step, Commands, LiveFiles, LiveBundle,
        staging, Forget, Undisturbed, Consistent
<1>16. ASSUME NEW c \in Commands, Abort(c) PROVE LiveInv'
  BY <1>16, DigestKept DEF LiveInv, WorkInv, TypeOK, Abort, Step, Commands, LiveFiles, LiveBundle,
        staging, Forget, Undisturbed
<1>17. CASE UNCHANGED vars
  BY <1>17, DigestKept DEF LiveInv, vars, staging, locals, Undisturbed, LiveFiles, LiveBundle
<1> QED
  BY <1>1, <1>2, <1>3, <1>4, <1>5, <1>6, <1>7, <1>8, <1>9, <1>10, <1>11, <1>12, <1>13, <1>14,
     <1>15, <1>16, <1>17 DEF Next

LEMMA LiveInit == Init => LiveInv
BY DEF Init, LiveInv, LiveBundle, Commands

\* Only an approval sets late, for good.
LEMMA LateStays == [Next]_vars /\ ~late' => ~late
BY DEF Next, vars, history, StageBegin, StageClear, StageWrite, StageDigest, StageProvenance, ApproveRead,
       ApproveHash, ApproveWrite, Edit, RebaseRead, RebaseHash, RebaseWrite, PublishRead, PublishVerify,
       PublishCopy, Abort

\* Fixture content reaches neither production nor an approved provenance, if
\* publish and rebaseline run undisturbed and no approval is written into a
\* directory that was touched since it looked.
THEOREM FixturesNeverPublished ==
    ASSUME {"publish", "rebase"} \subseteq Alone
    PROVE  Spec => []FixturesStayOut
<1>1. Init => WorkInv /\ CertifiedInv /\ (~late => LiveInv)
  BY WorkInit, CertifiedInit, LiveInit
<1>2. WorkInv /\ CertifiedInv /\ (~late => LiveInv) /\ [Next]_vars
        => WorkInv' /\ CertifiedInv' /\ (~late => LiveInv)'
  BY WorkStep, CertifiedStep, LiveStep, LateStays
<1>3. WorkInv /\ (~late => LiveInv) => FixturesStayOut
  <2> SUFFICES ASSUME WorkInv, LiveInv PROVE FixturesStayOut
    BY DEF FixturesStayOut
  <2> QED
    BY LifecycleConstants DEF LiveInv, LiveBundle, FixturesStayOut
<1> QED
  BY <1>1, <1>2, <1>3, PTL DEF Spec
==============================================================================
