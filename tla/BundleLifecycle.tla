--------------------------- MODULE BundleLifecycle ---------------------------
(***************************************************************************)
(* The way of a corpus bundle from staging to production (pipeline.py,     *)
(* provenance.py and their scripts): staged from live pages or from        *)
(* fixtures, approved by the Research Lead, perhaps edited by hand and     *)
(* rebaselined, published.  Each command is a process of its own over one  *)
(* staging directory, which nothing locks; a command takes several steps   *)
(* and may die, or raise, before any of them.                              *)
(*                                                                         *)
(*   stage:    clear -> docs -> digest -> provenance                       *)
(*   approve:  hash -> write          rebase:  hash -> write               *)
(*   publish:  verify -> copy                                              *)
(*                                                                         *)
(* A digest is modelled by the files it is a digest of; they are read one  *)
(* by one.  Both switches of config/corpus_snapshot.yaml,                  *)
(* live_fetch_enabled and publish_enabled, are on.  The transaction that   *)
(* copies is PublishTransaction: one step here.                            *)
(***************************************************************************)
EXTENDS Naturals, FiniteSets

CONSTANTS Docs,      \* source ids of the corpus contract
          Live,      \* editions that live pages, or editors, may yield
          Fixtures,  \* editions of tests/fixtures/corpus
          Missing,   \* a file, digest or provenance that is not there
          Alone,     \* commands during which nothing else takes a step
          MaxStages, \* bound on the stage commands
          MaxEdits   \* bound on the hand edits

Commands == {"stage", "approve", "rebase", "publish"}
Editions == Live \cup Fixtures

Snapshots == [Docs -> Editions \cup {Missing}]
Bundles == [docs : [Docs -> Editions], manifest : [Docs -> Editions]]
Hashes == [docs : Snapshots, manifest : [Docs -> Editions]]

Provenances ==
    [origin : {"live", "offline"},
     status : {"not_promotable", "pending", "approved"},
     staged : Bundles, approved : Bundles \cup {Missing}]

ASSUME LifecycleConstants ==
    /\ Live \cap Fixtures = {}
    /\ Docs # {}
    /\ Missing \notin Editions \cup Hashes \cup Provenances
    /\ Alone \subseteq Commands
    /\ MaxStages \in Nat /\ MaxEdits \in Nat

VARIABLES docs,       \* staged by_source/*.json
          manifest,   \* staged corpus_manifest.csv: the hash it has for each doc
          prov,       \* bundle_provenance.json
          production, \* the bundle in production
          pc,         \* of each command
          edition,    \* what the stage command fetched
          todo,       \* documents it has not written yet
          digest,     \* the files each command has hashed
          read,       \* the provenance each command read
          stages, edits,
          approvals,  \* (history) bundles the Research Lead approved
          untouched,  \* (history) since the last approval began to hash the files
          certified,  \* (history) is the directory approved, untouched since then?
          late        \* (history) was an approval written over touched files?

staging == <<docs, manifest, prov>>
locals  == <<edition, todo, digest, read>>
history == <<approvals, untouched, certified, late>>
vars    == <<staging, production, pc, locals, stages, edits, history>>

-----------------------------------------------------------------------------
(* Helpers *)

\* Of a staging directory with every file in it
Digest ==
    IF manifest = Missing \/ \E d \in Docs : docs[d] = Missing
    THEN Missing
    ELSE [docs |-> docs, manifest |-> manifest]

\* compute_staging_bundle_digest reads the manifest, if every file is there, then
\* the snapshots; it raises when one is gone by then.  What c may have hashed next:
Hashed(c) ==
    IF digest[c] = Missing
    THEN {IF Digest = Missing THEN Missing
          ELSE [docs |-> [d \in Docs |-> Missing], manifest |-> manifest]}
    ELSE {IF docs[d] = Missing THEN Missing ELSE [digest[c] EXCEPT !.docs[d] = docs[d]] :
             d \in {e \in Docs : digest[c].docs[e] = Missing}}

Complete(hashes) == hashes # Missing /\ \A d \in Docs : hashes.docs[d] # Missing

\* preflight_staged_bundle: the manifest has the hashes of the snapshots
Consistent == Digest # Missing /\ manifest = docs

\* Mutant: the origin is not told from the mode
OriginLive(e) == "live"

OriginOf(e) == IF e \in Live THEN "live" ELSE "offline"

Promotion(e) == IF OriginOf(e) = "live" THEN "pending" ELSE "not_promotable"

\* A command takes a step, unless another one is not to be disturbed
Step(c, from, to) ==
    /\ pc[c] = from
    /\ \A other \in Alone \ {c} : pc[other] = "idle"
    /\ pc' = [pc EXCEPT ![c] = to]

\* The locals of a command that ends
Forget(c) ==
    /\ digest' = [digest EXCEPT ![c] = Missing]
    /\ read' = [read EXCEPT ![c] = Missing]
    /\ UNCHANGED <<edition, todo>>

\* c hashes one file more; next is where it goes when it has hashed all
HashStep(c, at, hashes, next) ==
    LET to == IF hashes = Missing THEN "idle" ELSE IF Complete(hashes) THEN next ELSE at
    IN  /\ Step(c, at, to)
        /\ IF to = "idle" THEN Forget(c)
           ELSE digest' = [digest EXCEPT ![c] = hashes] /\ UNCHANGED <<edition, todo, read>>

\* After the staging directory was touched
Touched == untouched' = FALSE /\ certified' = FALSE

-----------------------------------------------------------------------------
(* scripts/snapshot_corpus.py --mode: stage_snapshots *)

StageBegin(e) ==
    /\ stages < MaxStages
    /\ Step("stage", "idle", "clear")
    /\ stages' = stages + 1
    /\ edition' = e
    /\ todo' = Docs
    /\ UNCHANGED <<staging, production, digest, read, edits, history>>

\* rmtree removes the entries one by one, in any order
StageClear ==
    /\ \/ /\ Step("stage", "clear", "clear")
          /\ \/ \E d \in Docs :
                  /\ docs[d] # Missing
                  /\ docs' = [docs EXCEPT ![d] = Missing]
                  /\ UNCHANGED <<manifest, prov>>
             \/ manifest # Missing /\ manifest' = Missing /\ UNCHANGED <<docs, prov>>
             \/ prov # Missing /\ prov' = Missing /\ UNCHANGED <<docs, manifest>>
       \/ /\ Step("stage", "clear", "docs")
          /\ manifest = Missing /\ prov = Missing /\ \A d \in Docs : docs[d] = Missing
          /\ UNCHANGED staging
    /\ Touched
    /\ UNCHANGED <<production, locals, stages, edits, approvals, late>>

\* Fetch, materialize, normalize and write the snapshots; then the manifest,
\* with the hashes of what was written
StageWrite ==
    /\ \/ \E d \in todo :
            /\ Step("stage", "docs", "docs")
            /\ docs' = [docs EXCEPT ![d] = edition]
            /\ todo' = todo \ {d}
            /\ UNCHANGED manifest
       \/ /\ Step("stage", "docs", "digest")
          /\ todo = {}
          /\ manifest' = [d \in Docs |-> edition]
          /\ UNCHANGED <<docs, todo>>
    /\ Touched
    /\ UNCHANGED <<prov, production, edition, digest, read, stages, edits, approvals, late>>

StageDigest ==
    /\ \E hashes \in Hashed("stage") : HashStep("stage", "digest", hashes, "provenance")
    /\ UNCHANGED <<staging, production, stages, edits, history>>

StageProvenance ==
    /\ Step("stage", "provenance", "idle")
    /\ prov' = [origin |-> OriginOf(edition), status |-> Promotion(edition),
                staged |-> digest["stage"], approved |-> Missing]
    /\ Touched
    /\ Forget("stage")
    /\ UNCHANGED <<docs, manifest, production, stages, edits, approvals, late>>

-----------------------------------------------------------------------------
(* scripts/research_approve_staging_bundle.py: mark_research_approved *)

\* Refusals leave the command idle
ApproveRead ==
    /\ prov # Missing
    /\ prov.origin = "live"
    /\ prov.status # "not_promotable"
    /\ Step("approve", "idle", "hash")
    /\ read' = [read EXCEPT !["approve"] = prov]
    /\ UNCHANGED <<staging, production, edition, todo, digest, stages, edits, history>>

ApproveHash ==
    /\ \E hashes \in Hashed("approve") :
         HashStep("approve", "hash", hashes,
                  IF hashes = read["approve"].staged THEN "write" ELSE "idle")
    /\ untouched' = (untouched \/ digest["approve"] = Missing)
    /\ UNCHANGED <<staging, production, stages, edits, approvals, certified, late>>

\* Mutant: the approved digest is not recorded
WithoutApprovedDigest(p, b) ==
    [origin |-> p.origin, status |-> "approved", staged |-> b, approved |-> p.approved]

Approved(p, b) ==
    [origin |-> p.origin, status |-> "approved", staged |-> b, approved |-> b]

ApproveWrite ==
    /\ Step("approve", "write", "idle")
    /\ prov' = Approved(read["approve"], digest["approve"])
    /\ approvals' = approvals \cup {digest["approve"]}
    /\ certified' = untouched
    /\ late' = (late \/ ~untouched)
    /\ Forget("approve")
    /\ UNCHANGED <<docs, manifest, production, stages, edits, untouched>>

-----------------------------------------------------------------------------
(* Hand edits, and scripts/_apply_pass_b11_evidence.py, which gives the files *)
(* found on disk a new digest and takes the approval back                     *)

Edit(d, e) ==
    /\ edits < MaxEdits
    /\ \A other \in Alone : pc[other] = "idle"
    /\ edits' = edits + 1
    /\ \/ docs[d] # Missing /\ docs' = [docs EXCEPT ![d] = e] /\ UNCHANGED manifest
       \/ manifest # Missing /\ manifest' = [manifest EXCEPT ![d] = e] /\ UNCHANGED docs
    /\ Touched
    /\ UNCHANGED <<prov, production, pc, locals, stages, approvals, late>>

RebaseRead ==
    /\ prov # Missing
    /\ Step("rebase", "idle", "hash")
    /\ read' = [read EXCEPT !["rebase"] = prov]
    /\ UNCHANGED <<staging, production, edition, todo, digest, stages, edits, history>>

RebaseHash ==
    /\ \E hashes \in Hashed("rebase") : HashStep("rebase", "hash", hashes, "write")
    /\ UNCHANGED <<staging, production, stages, edits, history>>

RebaseWrite ==
    /\ Step("rebase", "write", "idle")
    /\ prov' = [origin |-> read["rebase"].origin, status |-> "pending",
                staged |-> digest["rebase"], approved |-> Missing]
    /\ Touched
    /\ Forget("rebase")
    /\ UNCHANGED <<docs, manifest, production, stages, edits, approvals, late>>

-----------------------------------------------------------------------------
(* scripts/snapshot_corpus.py --publish-existing: publish_existing_bundle *)

\* The clauses of assert_publishable_live_provenance that look at no file
Promotable(p) ==
    /\ p # Missing
    /\ p.origin = "live"
    /\ p.status = "approved"
    /\ p.approved # Missing
    /\ p.staged = p.approved

PublishRead ==
    /\ Promotable(prov)
    /\ Step("publish", "idle", "verify")
    /\ read' = [read EXCEPT !["publish"] = prov]
    /\ UNCHANGED <<staging, production, edition, todo, digest, stages, edits, history>>

\* Mutant: the digest of the provenance is trusted
TrustsProvenance(hashes) == TRUE

Verified(hashes) == hashes = read["publish"].approved

PublishVerify ==
    /\ \E hashes \in Hashed("publish") :
         HashStep("publish", "verify", hashes, IF Verified(hashes) THEN "copy" ELSE "idle")
    /\ UNCHANGED <<staging, production, stages, edits, history>>

\* The files are read again: preflight, then the transaction
PublishCopy ==
    /\ Step("publish", "copy", "idle")
    /\ production' = IF Consistent THEN Digest ELSE production
    /\ Forget("publish")
    /\ UNCHANGED <<staging, stages, edits, history>>

-----------------------------------------------------------------------------

\* A command dies or raises; what it wrote stays
Abort(c) ==
    /\ pc[c] # "idle"
    /\ pc' = [pc EXCEPT ![c] = "idle"]
    /\ Forget(c)
    /\ UNCHANGED <<staging, production, stages, edits, history>>

Init ==
    /\ docs = [d \in Docs |-> Missing]
    /\ manifest = Missing
    /\ prov = Missing
    /\ production = Missing
    /\ pc = [c \in Commands |-> "idle"]
    /\ edition = Missing
    /\ todo = {}
    /\ digest = [c \in Commands |-> Missing]
    /\ read = [c \in Commands |-> Missing]
    /\ stages = 0
    /\ edits = 0
    /\ approvals = {}
    /\ untouched = FALSE
    /\ certified = FALSE
    /\ late = FALSE

Next ==
    \/ \E e \in Editions : StageBegin(e)
    \/ StageClear
    \/ StageWrite
    \/ StageDigest
    \/ StageProvenance
    \/ ApproveRead
    \/ ApproveHash
    \/ ApproveWrite
    \/ \E d \in Docs, e \in Live : Edit(d, e)
    \/ RebaseRead
    \/ RebaseHash
    \/ RebaseWrite
    \/ PublishRead
    \/ PublishVerify
    \/ PublishCopy
    \/ \E c \in Commands : Abort(c)

Spec == Init /\ [][Next]_vars

-----------------------------------------------------------------------------
(* Properties *)

Places == {"idle", "clear", "docs", "digest", "provenance", "hash", "write", "verify", "copy"}

\* Types of the files, of the provenance and of the commands' locals.
TypeOK ==
    /\ docs \in Snapshots
    /\ manifest \in [Docs -> Editions] \cup {Missing}
    /\ prov \in Provenances \cup {Missing}
    /\ production \in Bundles \cup {Missing}
    /\ pc \in [Commands -> Places]
    /\ edition \in Editions \cup {Missing}
    /\ todo \subseteq Docs
    /\ digest \in [Commands -> Hashes \cup {Missing}]
    /\ read \in [Commands -> Provenances \cup {Missing}]
    /\ approvals \subseteq Bundles
    /\ untouched \in BOOLEAN /\ certified \in BOOLEAN /\ late \in BOOLEAN

\* docs/HUONG_DAN_TOAN_DIEN.md:238: publish only what is live and approved by
\* Research.  Whatever was staged, edited, rebaselined or interrupted meanwhile,
\* production holds a bundle the Research Lead approved, file by file.
OnlyApprovedIsPublished ==
    production # Missing => production \in approvals

\* Fixture content never reaches production, nor a provenance that says approved,
\* as long as no approval was written into a directory restaged since it looked.
FixturesStayOut ==
    ~late =>
        /\ production # Missing => \A d \in Docs : production.docs[d] \in Live
        /\ prov # Missing /\ prov.status = "approved" =>
               prov.origin = "live" /\ \A d \in Docs : prov.approved.docs[d] \in Live

\* An approval nobody interferes with stands: while the staging directory is as
\* the approval found it, publish accepts its provenance and its digest, whatever
\* other commands did or left unfinished before.
ApprovalStands ==
    certified => Promotable(prov) /\ prov.approved = Digest
=============================================================================
