------------------------------ MODULE Knowledge ------------------------------
(***************************************************************************)
(* The fact catalog and its validation (fact_catalog.py,                   *)
(* validate_knowledge.py, bundle.py and the two scripts that write the     *)
(* catalog).  A fact of the corpus is evidenced by a quote, the place of   *)
(* the quote in a snapshot and the hash of that snapshot.  Scripts propose *)
(* evidence, the Research Lead approves it by hand, and the validation     *)
(* says READY or NOT_READY of what it reads while staging, a publish and   *)
(* the scripts go on.  Each is a process of its own; it may die anywhere.  *)
(*                                                                         *)
(*   pass_b:  read -> truncate -> write     b11: texts -> read -> ...      *)
(*   publish: begin -> away -> in -> manifest                              *)
(*   validate: catalog -> pending -> rows -> list -> documents -> verdict  *)
(*             -> exit                                                     *)
(*                                                                         *)
(* An edition of a document stands for its text, and its hash for the      *)
(* edition.  A catalog half written parses as none: it is Missing.         *)
(***************************************************************************)
EXTENDS Naturals

CONSTANTS Docs,       \* source ids of the corpus contract
          Editions,   \* texts a document may have
          Corpus,     \* facts of kind CORPUS
          Others,     \* facts of the other kinds
          SourceOf,   \* the document a corpus fact is from
          Requoted,   \* the corpus facts that Pass B.1.1 gives another quote
          Place,      \* where the quote of a fact is in an edition, or Missing
          Reviewed,   \* the sets of facts that the Research Lead approves at once
          Earlier,    \* bundles that may be there in the beginning
          Missing,
          MaxStages, MaxHands, \* bounds on the files staged and on the hand edits
          MaxStarts   \* bound on the processes started

Facts == Corpus \cup Others
Quotes == {"pass_b", "b11"}
Bundles == [Docs -> Editions]
MaybeBundles == [Docs -> Editions \cup {Missing}]
Productions == [docs : Bundles \cup {Missing}, rows : MaybeBundles]

Spans == [quote : Quotes, at : Nat]
Evidence ==
    [status  : {"pending_live_review", "candidate_live", "approved"},
     span    : Spans \cup {Missing},
     content : Editions \cup {Missing}]
\* signed: reviewed_by, reviewed_at and reviewed_snapshot_sha256 are filled in
Reviews == [status : {"pending", "approved"}, signed : BOOLEAN]
Catalogs == [facts : [Facts -> Evidence], review : Reviews]

ASSUME KnowledgeConstants ==
    /\ SourceOf \in [Corpus -> Docs]
    /\ Requoted \subseteq Corpus
    /\ Reviewed \subseteq SUBSET Facts
    /\ Earlier \subseteq Bundles
    /\ Corpus # {} /\ Corpus \cap Others = {}
    /\ Place \in [Quotes -> [Corpus -> [Editions -> Nat \cup {Missing}]]]
    /\ Missing \notin Nat \cup Spans \cup Editions \cup Bundles \cup Productions \cup Catalogs
    /\ MaxStages \in Nat /\ MaxHands \in Nat /\ MaxStarts \in Nat

VARIABLES catalog,   \* fact_catalog.yaml
          staged,    \* artifacts/live_staging/by_source
          docs,      \* data/corpus/snapshots/by_source
          rows,      \* corpus_manifest.csv: the hash of each document, Missing if pending
          pc,
          texts,     \* what Pass B.1.1 read of staging
          draft,     \* the catalog a script is about to write
          incoming, outgoing, \* the bundle a publish brings in, and what was there
          seenCatalog, nonePending, seenRows, seenDocs, unread, \* what the validation read
          strict,    \* its --strict
          verdict, passed, \* the readiness it prints, and whether it exits with 0
          stages, hands, starts,
          approvals, \* (history) catalogs approved and signed, as the review left them
          published, \* (history) bundles the production manifest described
          fresh      \* (history) nothing it reads was written since it began

corpus == <<staged, docs, rows>>
scripts == <<texts, draft>>
publishing == <<incoming, outgoing, published>>
reading == <<seenCatalog, nonePending, seenRows, seenDocs, unread>>
validation == <<reading, strict, verdict, passed>>
reviews == <<hands, approvals>>
vars == <<catalog, corpus, pc, scripts, publishing, validation, stages, reviews, starts, fresh>>

Processes == {"pass_b", "b11", "publish", "validate"}
Points == {"idle", "read", "truncate", "write",
           "away", "in", "manifest", "done", "restore", "unmanifest",
           "pending", "rows", "list", "docs", "verdict", "clean", "errors"}

Step(p, from, to) ==
    /\ pc[p] = from
    /\ from = "idle" => starts < MaxStarts
    /\ starts' = IF from = "idle" THEN starts + 1 ELSE starts
    /\ pc' = [pc EXCEPT ![p] = to]

NoBundle == [d \in Docs |-> Missing]

-----------------------------------------------------------------------------
(* fact_catalog.py *)

\* Every corpus fact has that status, and evidence
AllEvidenced(c, status) ==
    \A f \in Corpus :
      /\ c.facts[f].status = status
      /\ c.facts[f].span # Missing
      /\ c.facts[f].content # Missing

\* detect_production_phase, of a catalog that has corpus facts
Skeleton(c) ==
    \A f \in Corpus : c.facts[f].status = "pending_live_review" /\ c.facts[f].span = Missing
Candidate(c) == AllEvidenced(c, "candidate_live")
Verified(c)  == AllEvidenced(c, "approved")

\* validate_catalog_structure.  A catalog of none of the three phases passes: the
\* scope it is called with is the phase, never "production".
WellFormed(c) ==
    /\ Skeleton(c) => \A f \in Others : c.facts[f].status = "pending_live_review"
    /\ Candidate(c) => \A f \in Others : c.facts[f].status = "candidate_live"
    /\ Verified(c) =>
         /\ \A f \in Others : c.facts[f].status = "approved"
         /\ c.review.status = "approved" /\ c.review.signed

\* production_evidence_verified
EvidenceVerified(c) ==
    /\ Verified(c)
    /\ \A f \in Facts : c.facts[f].status = "approved"
    /\ c.review.status = "approved" /\ c.review.signed

Certified(c) == c # Missing /\ EvidenceVerified(c)

\* Mutant: the place of a quote is compared, the hash of the document is not
QuotesFound(c, bundle) ==
    \A f \in Corpus : c.facts[f].span # Missing =>
      Place[c.facts[f].span.quote][f][bundle[SourceOf[f]]] = c.facts[f].span.at

\* validate_corpus_evidence_against_texts; codepoint_span finds the quote again
QuotesStand(c, bundle) ==
    \A f \in Corpus : c.facts[f].span # Missing =>
      /\ c.facts[f].content # Missing => c.facts[f].content = bundle[SourceOf[f]]
      /\ Place[c.facts[f].span.quote][f][bundle[SourceOf[f]]] = c.facts[f].span.at

-----------------------------------------------------------------------------
(* scripts/build_production_fact_catalog_pass_b.py *)

Cited(quote, f, bundle) ==
    [status |-> "candidate_live",
     span |-> [quote |-> quote, at |-> Place[quote][f][bundle[SourceOf[f]]]],
     content |-> bundle[SourceOf[f]]]

\* The text is there, and the quote is in it
CanCite(quote, f, bundle) ==
    /\ bundle[SourceOf[f]] # Missing
    /\ Place[quote][f][bundle[SourceOf[f]]] # Missing

\* _load_texts: of staging if it has any snapshot, else of production
SnapshotTexts ==
    IF docs # Missing /\ \A d \in Docs : staged[d] = Missing THEN docs ELSE staged

\* Mutant: what was reviewed before is still reviewed
KeepsApprovals(bundle) ==
    [facts  |-> [f \in Facts |->
         IF f \in Corpus
         THEN [status |-> "approved", span |-> Cited("pass_b", f, bundle).span,
               content |-> bundle[SourceOf[f]]]
         ELSE [status |-> "approved", span |-> Missing, content |-> Missing]],
     review |-> [status |-> "approved", signed |-> TRUE]]

PassBCatalog(bundle) ==
    [facts  |-> [f \in Facts |->
         IF f \in Corpus THEN Cited("pass_b", f, bundle)
         ELSE [status |-> "candidate_live", span |-> Missing, content |-> Missing]],
     review |-> [status |-> "pending", signed |-> FALSE]]

\* It reads the catalog for the facts there are, and stops if a quote is missing
PassBRead ==
    /\ catalog # Missing
    /\ \A f \in Corpus : CanCite("pass_b", f, SnapshotTexts)
    /\ Step("pass_b", "idle", "truncate")
    /\ draft' = [draft EXCEPT !["pass_b"] = PassBCatalog(SnapshotTexts)]
    /\ UNCHANGED <<catalog, corpus, texts, publishing, validation, stages, reviews, fresh>>

(* scripts/_apply_pass_b11_evidence.py, as far as the catalog goes *)

B11Texts ==
    /\ \A f \in Requoted : CanCite("b11", f, staged)
    /\ Step("b11", "idle", "read")
    /\ texts' = staged
    /\ UNCHANGED <<catalog, corpus, draft, publishing, validation, stages, reviews, fresh>>

\* Mutant: the hash of the document is left as it was
KeepsHash(c, bundle) ==
    [facts  |-> [f \in Facts |->
         IF f \in Requoted
         THEN [status |-> "candidate_live", span |-> Cited("b11", f, bundle).span,
               content |-> c.facts[f].content]
         ELSE c.facts[f]],
     review |-> c.review]

Recited(c, bundle) ==
    [facts  |-> [f \in Facts |-> IF f \in Requoted THEN Cited("b11", f, bundle) ELSE c.facts[f]],
     review |-> c.review]

\* What it has given new evidence counts as candidate when it looks for others
B11Allows(c) ==
    /\ c.review.status = "pending"
    /\ \A f \in Facts : c.facts[f].status = "candidate_live"

B11Read ==
    /\ catalog # Missing
    /\ Step("b11", "read", "truncate")
    /\ B11Allows(Recited(catalog, texts))
    /\ draft' = [draft EXCEPT !["b11"] = Recited(catalog, texts)]
    /\ texts' = Missing
    /\ UNCHANGED <<catalog, corpus, publishing, validation, stages, reviews, fresh>>

\* Path.write_text empties the file before it fills it
Truncate(script) ==
    /\ Step(script, "truncate", "write")
    /\ catalog' = Missing
    /\ fresh' = FALSE
    /\ UNCHANGED <<corpus, scripts, publishing, validation, stages, reviews>>

WriteCatalog(script) ==
    /\ Step(script, "write", "idle")
    /\ catalog' = draft[script]
    /\ draft' = [draft EXCEPT ![script] = Missing]
    /\ fresh' = FALSE
    /\ UNCHANGED <<corpus, texts, publishing, validation, stages, reviews>>

\* The Research Lead approves some facts and signs the review, or does not.  (A
\* fact rejected leaves the phases as one not approved does.)
Review(F, signs) ==
    /\ hands < MaxHands
    /\ catalog # Missing
    /\ hands' = hands + 1
    /\ catalog' = [facts |-> [f \in Facts |->
                       IF f \in F THEN [status |-> "approved", span |-> catalog.facts[f].span,
                                        content |-> catalog.facts[f].content]
                       ELSE catalog.facts[f]],
                   review |-> IF signs THEN [status |-> "approved", signed |-> TRUE]
                              ELSE catalog.review]
    /\ approvals' = approvals \cup (IF Certified(catalog') THEN {catalog'} ELSE {})
    /\ fresh' = FALSE
    /\ UNCHANGED <<corpus, pc, scripts, publishing, validation, stages, starts>>

-----------------------------------------------------------------------------
(* The corpus changes: stage_snapshots, publish_staged_transaction *)

Stage(d, e) ==
    /\ stages < MaxStages
    /\ stages' = stages + 1
    /\ staged' = [staged EXCEPT ![d] = e]
    /\ UNCHANGED <<catalog, docs, rows, pc, scripts, publishing, validation, reviews, starts, fresh>>

PublishBegin ==
    /\ \A d \in Docs : staged[d] # Missing
    /\ Step("publish", "idle", "away")
    /\ incoming' = staged
    /\ outgoing' = [docs |-> docs, rows |-> rows]
    /\ UNCHANGED <<catalog, corpus, scripts, published, validation, stages, reviews, fresh>>

\* The old snapshots are renamed away, the new ones renamed in
PublishSwap ==
    /\ \/ Step("publish", "away", "in") /\ docs' = Missing
       \/ Step("publish", "in", "manifest") /\ docs' = incoming
    /\ fresh' = FALSE
    /\ UNCHANGED <<catalog, staged, rows, scripts, publishing, validation, stages, reviews>>

\* write_manifest replaces the manifest in one step
PublishManifest ==
    /\ Step("publish", "manifest", "done")
    /\ rows' = incoming
    /\ published' = published \cup {incoming}
    /\ fresh' = FALSE
    /\ UNCHANGED <<catalog, staged, docs, scripts, incoming, outgoing, validation, stages, reviews>>

PublishEnd ==
    /\ Step("publish", "done", "idle")
    /\ incoming' = Missing /\ outgoing' = Missing
    /\ UNCHANGED <<catalog, corpus, scripts, published, validation, stages, reviews, fresh>>

\* It fails, up to its last check, and puts back the snapshots, unless none are
\* there, then the manifest
PublishRollback ==
    /\ \/ /\ pc["publish"] \in {"away", "manifest", "done"}
          /\ Step("publish", pc["publish"], IF docs = Missing THEN "unmanifest" ELSE "restore")
          /\ docs' = Missing
          /\ UNCHANGED <<rows, incoming, outgoing>>
       \/ /\ Step("publish", "in", "unmanifest")
          /\ UNCHANGED <<docs, rows, incoming, outgoing>>
       \/ /\ Step("publish", "restore", "unmanifest")
          /\ docs' = outgoing.docs
          /\ UNCHANGED <<rows, incoming, outgoing>>
       \/ /\ Step("publish", "unmanifest", "idle")
          /\ rows' = outgoing.rows
          /\ incoming' = Missing /\ outgoing' = Missing
          /\ UNCHANGED docs
    /\ fresh' = FALSE
    /\ UNCHANGED <<catalog, staged, scripts, published, validation, stages, reviews>>

-----------------------------------------------------------------------------
(* validate_knowledge, scope production *)

ValidateBegin(s) ==
    /\ catalog # Missing
    /\ Step("validate", "idle", "pending")
    /\ strict' = s
    /\ verdict' = "none" /\ passed' = FALSE
    /\ seenCatalog' = catalog
    /\ fresh' = TRUE
    /\ UNCHANGED <<catalog, corpus, scripts, publishing, nonePending, seenRows, seenDocs, unread,
                   stages, reviews>>

\* The manifest is read for the rows without a snapshot (and, before that, for its
\* ids, which never change)
ValidatePending ==
    /\ Step("validate", "pending", "rows")
    /\ nonePending' = (\A d \in Docs : rows[d] # Missing)
    /\ UNCHANGED <<catalog, corpus, scripts, publishing, seenCatalog, seenRows, seenDocs, unread,
                   strict, verdict, passed, stages, reviews, fresh>>

\* Then again, by validate_snapshot_manifest_bundle up to its loop: without a
\* directory, or with a file too few in it, the bundle is refused
ValidateRows ==
    /\ Step("validate", "rows", IF docs = Missing THEN "verdict" ELSE "list")
    /\ seenRows' = rows
    /\ seenDocs' = NoBundle
    /\ unread' = Docs
    /\ UNCHANGED <<catalog, corpus, scripts, publishing, seenCatalog, nonePending, strict,
                   verdict, passed, stages, reviews, fresh>>

\* What a validation that is over has read, but for the documents it found READY
Forget ==
    /\ seenCatalog' = Missing /\ nonePending' = FALSE
    /\ seenRows' = NoBundle /\ unread' = {}

\* The directory is listed twice; gone for the second time, the command fails
\* with an exception that nothing catches
ValidateList ==
    /\ \/ docs # Missing /\ Step("validate", "list", "docs") /\ UNCHANGED reading
       \/ docs = Missing /\ Step("validate", "list", "verdict") /\ UNCHANGED reading
       \/ /\ docs = Missing
          /\ Step("validate", "list", "idle")
          /\ Forget /\ seenDocs' = NoBundle
    /\ UNCHANGED <<catalog, corpus, scripts, publishing, strict, verdict, passed, stages, reviews,
                   fresh>>

\* Mutant: any snapshot will do
AnySnapshot(d) == docs # Missing

\* The file is there, and is what the manifest says it is
MatchesManifest(d) ==
    docs # Missing /\ seenRows[d] # Missing /\ docs[d] = seenRows[d]

ValidateDoc ==
    /\ \/ \E d \in unread :
            IF MatchesManifest(d)
            THEN /\ Step("validate", "docs", "docs")
                 /\ seenDocs' = [seenDocs EXCEPT ![d] = docs[d]]
                 /\ unread' = unread \ {d}
            ELSE /\ Step("validate", "docs", "verdict")
                 /\ UNCHANGED <<seenDocs, unread>>
       \/ /\ unread = {}
          /\ Step("validate", "docs", "verdict")
          /\ UNCHANGED <<seenDocs, unread>>
    /\ UNCHANGED <<catalog, corpus, scripts, publishing, seenCatalog, nonePending, seenRows,
                   strict, verdict, passed, stages, reviews, fresh>>

BundleOk == \A d \in Docs : seenDocs[d] # Missing

\* Mutant: strict does not ask for the approval
StrictWithoutApproval ==
    strict =>
      /\ BundleOk /\ ~Skeleton(seenCatalog) /\ ~Candidate(seenCatalog) /\ nonePending
      /\ Verified(seenCatalog) => QuotesStand(seenCatalog, seenDocs)

\* What --strict adds
StrictChecks ==
    strict =>
      /\ BundleOk
      /\ ~Skeleton(seenCatalog) /\ ~Candidate(seenCatalog)
      /\ nonePending
      /\ EvidenceVerified(seenCatalog)
      /\ Verified(seenCatalog) => QuotesStand(seenCatalog, seenDocs)

NoErrors == WellFormed(seenCatalog) /\ StrictChecks

IsReady ==
    /\ Verified(seenCatalog)
    /\ nonePending
    /\ BundleOk
    /\ EvidenceVerified(seenCatalog)
    /\ NoErrors

\* Readiness is printed before the evaluation scenarios are compared
ValidateVerdict ==
    /\ Step("validate", "verdict", IF NoErrors THEN "clean" ELSE "errors")
    /\ verdict' = IF IsReady THEN "READY" ELSE "NOT_READY"
    /\ Forget
    /\ seenDocs' = IF IsReady THEN seenDocs ELSE NoBundle
    /\ UNCHANGED <<catalog, corpus, scripts, publishing, strict, passed, stages, reviews, fresh>>

\* Somebody may have edited scenarios_eval.yaml since the validation began: then it
\* fails, whatever it has printed
ValidateExit ==
    /\ \/ Step("validate", "clean", "idle") /\ passed' = TRUE
       \/ pc["validate"] \in {"clean", "errors"} /\ Step("validate", pc["validate"], "idle")
          /\ UNCHANGED passed
    /\ UNCHANGED <<catalog, corpus, scripts, publishing, reading, strict, verdict, stages, reviews,
                   fresh>>

-----------------------------------------------------------------------------

\* A process ends where it is; what it wrote stays, what it knew is lost
Abort(p) ==
    /\ pc[p] # "idle"
    /\ pc' = [pc EXCEPT ![p] = "idle"]
    /\ texts' = IF p = "b11" THEN Missing ELSE texts
    /\ draft' = [s \in {"pass_b", "b11"} |-> IF s = p THEN Missing ELSE draft[s]]
    /\ incoming' = IF p = "publish" THEN Missing ELSE incoming
    /\ outgoing' = IF p = "publish" THEN Missing ELSE outgoing
    /\ IF p = "validate"
       THEN /\ Forget
            /\ seenDocs' = IF verdict = "READY" THEN seenDocs ELSE NoBundle
            /\ UNCHANGED <<strict, verdict, passed>>
       ELSE UNCHANGED validation
    /\ UNCHANGED <<catalog, corpus, published, stages, reviews, starts, fresh>>

\* The catalog as the Pass A.1 generator writes it; staging and production empty,
\* or holding what an earlier command left
Init ==
    /\ catalog = [facts |-> [f \in Facts |->
                     [status |-> "pending_live_review", span |-> Missing, content |-> Missing]],
                  review |-> [status |-> "pending", signed |-> FALSE]]
    /\ staged \in {NoBundle} \cup Earlier
    /\ \/ docs = Missing /\ rows = NoBundle /\ published = {}
       \/ docs \in Earlier /\ rows = docs /\ published = {docs}
    /\ pc = [p \in Processes |-> "idle"]
    /\ texts = Missing
    /\ draft = [s \in {"pass_b", "b11"} |-> Missing]
    /\ incoming = Missing
    /\ outgoing = Missing
    /\ seenCatalog = Missing
    /\ nonePending = FALSE
    /\ seenRows = NoBundle /\ seenDocs = NoBundle
    /\ unread = {}
    /\ strict = FALSE
    /\ verdict = "none"
    /\ passed = FALSE
    /\ stages = 0
    /\ hands = 0
    /\ starts = 0
    /\ approvals = {}
    /\ fresh = FALSE

Next ==
    \/ PassBRead
    \/ B11Texts
    \/ B11Read
    \/ \E s \in {"pass_b", "b11"} : Truncate(s) \/ WriteCatalog(s)
    \/ \E F \in Reviewed, signs \in BOOLEAN : Review(F, signs)
    \/ \E d \in Docs, e \in Editions \cup {Missing} : Stage(d, e)
    \/ PublishBegin
    \/ PublishSwap
    \/ PublishManifest
    \/ PublishEnd
    \/ PublishRollback
    \/ \E s \in BOOLEAN : ValidateBegin(s)
    \/ ValidatePending
    \/ ValidateRows
    \/ ValidateList
    \/ ValidateDoc
    \/ ValidateVerdict
    \/ ValidateExit
    \/ \E p \in Processes : Abort(p)

Spec == Init /\ [][Next]_vars

-----------------------------------------------------------------------------
(* Properties *)

\* Types of the files, of the scripts' drafts and of what the validation read.
TypeOK ==
    /\ catalog \in Catalogs \cup {Missing}
    /\ staged \in MaybeBundles
    /\ docs \in Bundles \cup {Missing}
    /\ rows \in MaybeBundles
    /\ pc \in [Processes -> Points]
    /\ texts \in MaybeBundles \cup {Missing}
    /\ draft \in [{"pass_b", "b11"} -> Catalogs \cup {Missing}]
    /\ incoming \in Bundles \cup {Missing}
    /\ outgoing \in Productions \cup {Missing}
    /\ seenCatalog \in Catalogs \cup {Missing}
    /\ seenRows \in MaybeBundles
    /\ seenDocs \in MaybeBundles
    /\ unread \subseteq Docs
    /\ nonePending \in BOOLEAN
    /\ strict \in BOOLEAN /\ passed \in BOOLEAN /\ fresh \in BOOLEAN
    /\ approvals \subseteq Catalogs
    /\ verdict \in {"none", "READY", "NOT_READY"}
    /\ published \subseteq Bundles

\* Whichever script wrote the catalog, from staging or from production, while
\* either changed: every quote is where its span says, in the very document whose
\* hash is recorded beside it.
EvidenceIsGenuine ==
    catalog # Missing =>
      \A f \in Corpus : catalog.facts[f].span # Missing =>
        /\ catalog.facts[f].content # Missing
        /\ Place[catalog.facts[f].span.quote][f][catalog.facts[f].content] =
             catalog.facts[f].span.at

\* A strict READY holds of the files, as long as none was written since the
\* validation began: the production documents have every quote at its place, they
\* are the ones the evidence was taken from, and all of it is approved and signed.
StrictReadyIsQuoted ==
    verdict = "READY" /\ strict /\ fresh =>
      /\ catalog # Missing /\ docs # Missing
      /\ QuotesStand(catalog, docs)
      /\ \A f \in Corpus : catalog.facts[f].content = docs[SourceOf[f]]
      /\ \A f \in Facts : catalog.facts[f].status = "approved"
      /\ catalog.review.signed

\* Files are read one by one while a publish swaps them, yet READY is said of a
\* bundle that was whole: one that the production manifest described.
ReadyWasPublished ==
    verdict = "READY" => seenDocs \in published

\* What a strict validation says READY of, or exits with 0 for, was reviewed as it
\* stands: the Research Lead approved and signed a catalog whose evidence is of the
\* very documents that were read, at its place in them, whatever the scripts and a
\* publish wrote meanwhile.
ReadyWasApproved ==
    strict /\ (passed \/ verdict = "READY") =>
      \E c \in approvals :
        /\ QuotesStand(c, seenDocs)
        /\ \A f \in Corpus : c.facts[f].span # Missing /\ c.facts[f].content = seenDocs[SourceOf[f]]

\* docs/HUONG_DAN_TOAN_DIEN.md:116,230: no script approves its own evidence.  A
\* catalog that was not approved becomes so by the Research Lead's hand only,
\* however the scripts interleave with it, or die and run again.
ScriptsNeverCertify ==
    [][Certified(catalog') /\ ~Certified(catalog) => hands' # hands]_vars
=============================================================================
