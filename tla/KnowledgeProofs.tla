--------------------------- MODULE KnowledgeProofs ---------------------------
(***************************************************************************)
(* Evidence is genuine, no script certifies its own evidence, and READY is *)
(* said of what was published and quoted: for any documents, facts, quotes *)
(* and editions, any number of processes started and hand edits made.      *)
(***************************************************************************)
EXTENDS Knowledge, TLAPS

Scripts == {"pass_b", "b11"}

\* A quote is where the span says, in the edition recorded with it
Genuine(c) ==
    \A f \in Corpus : c.facts[f].span # Missing =>
      /\ c.facts[f].content # Missing
      /\ Place[c.facts[f].span.quote][f][c.facts[f].content] = c.facts[f].span.at

Proposal(c) == c \in Catalogs /\ Genuine(c) /\ c.review.status = "pending"

\* What a script holds by the place it is at
ScriptInv ==
    /\ TypeOK
    /\ catalog # Missing => Genuine(catalog)
    /\ pc["b11"] = "read" =>
         texts \in MaybeBundles /\ \A f \in Requoted : CanCite("b11", f, texts)
    /\ \A s \in Scripts : pc[s] \in {"truncate", "write"} => Proposal(draft[s])
    /\ pc["publish"] # "idle" =>
         incoming \in Bundles /\ outgoing \in Productions

-----------------------------------------------------------------------------

LEMMA StepType ==
    ASSUME pc \in [Processes -> Points], NEW p \in Processes, NEW from, NEW to \in Points,
           Step(p, from, to)
    PROVE  pc' \in [Processes -> Points] /\ \A q \in Processes : pc'[q] = IF q = p THEN to ELSE pc[q]
BY DEF Step

LEMMA CitedIsEvidence ==
    ASSUME NEW q \in Quotes, NEW f \in Corpus, NEW b \in MaybeBundles, CanCite(q, f, b)
    PROVE  /\ Cited(q, f, b) \in Evidence
           /\ Cited(q, f, b).span # Missing
           /\ Cited(q, f, b).content # Missing
           /\ Cited(q, f, b).span.quote = q
           /\ Place[q][f][Cited(q, f, b).content] = Cited(q, f, b).span.at
<1> USE KnowledgeConstants DEF reviews, reading
<1>1. b[SourceOf[f]] \in Editions
  BY DEF CanCite, MaybeBundles
<1>2. Place[q][f][b[SourceOf[f]]] \in Nat
  BY <1>1 DEF CanCite, Quotes
<1>3. [quote |-> q, at |-> Place[q][f][b[SourceOf[f]]]] \in Spans
  BY <1>2 DEF Spans
<1> QED
  BY <1>1, <1>2, <1>3 DEF Cited, Evidence

LEMMA PassBProposes ==
    ASSUME NEW b \in MaybeBundles, \A f \in Corpus : CanCite("pass_b", f, b)
    PROVE  Proposal(PassBCatalog(b))
<1> USE KnowledgeConstants DEF reviews, reading
<1>1. \A f \in Corpus :
        /\ Cited("pass_b", f, b) \in Evidence
        /\ Cited("pass_b", f, b).span # Missing
        /\ Cited("pass_b", f, b).content # Missing
        /\ Cited("pass_b", f, b).span.quote = "pass_b"
        /\ Place["pass_b"][f][Cited("pass_b", f, b).content] = Cited("pass_b", f, b).span.at
  BY CitedIsEvidence DEF Quotes
<1>2. [status |-> "candidate_live", span |-> Missing, content |-> Missing] \in Evidence
  BY DEF Evidence
<1>3. PassBCatalog(b) \in Catalogs
  BY <1>1, <1>2 DEF PassBCatalog, Catalogs, Facts, Reviews
<1>4. \A f \in Corpus : PassBCatalog(b).facts[f] = Cited("pass_b", f, b)
  BY DEF PassBCatalog, Facts
<1>5. PassBCatalog(b).review.status = "pending"
  BY DEF PassBCatalog
<1> QED
  BY <1>1, <1>3, <1>4, <1>5 DEF Proposal, Genuine

LEMMA B11Proposes ==
    ASSUME NEW b \in MaybeBundles, \A f \in Requoted : CanCite("b11", f, b),
           NEW c \in Catalogs, Genuine(c), c.review.status = "pending"
    PROVE  Proposal(Recited(c, b))
<1> USE KnowledgeConstants DEF reviews, reading
<1>1. \A f \in Requoted :
        /\ Cited("b11", f, b) \in Evidence
        /\ Cited("b11", f, b).span # Missing
        /\ Cited("b11", f, b).content # Missing
        /\ Cited("b11", f, b).span.quote = "b11"
        /\ Place["b11"][f][Cited("b11", f, b).content] = Cited("b11", f, b).span.at
  BY CitedIsEvidence DEF Quotes
<1>2. c.facts \in [Facts -> Evidence] /\ c.review \in Reviews
  BY DEF Catalogs
<1>3. Recited(c, b) \in Catalogs /\ Recited(c, b).review.status = "pending"
  BY <1>1, <1>2 DEF Recited, Catalogs
<1>4. \A f \in Corpus :
        Recited(c, b).facts[f] = IF f \in Requoted THEN Cited("b11", f, b) ELSE c.facts[f]
  BY DEF Recited, Facts
<1>5. Genuine(Recited(c, b))
  BY <1>1, <1>4 DEF Genuine
<1> QED
  BY <1>3, <1>5 DEF Proposal

-----------------------------------------------------------------------------

LEMMA ScriptInit == Init => ScriptInv
<1> SUFFICES ASSUME Init PROVE ScriptInv
  OBVIOUS
<1> USE KnowledgeConstants DEF reviews, reading
<1>1. catalog \in Catalogs
  BY DEF Init, Catalogs, Evidence, Reviews
<1>2. NoBundle \in MaybeBundles /\ Bundles \subseteq MaybeBundles
  BY DEF NoBundle, MaybeBundles, Bundles
<1>3. TypeOK
  BY <1>1, <1>2 DEF Init, TypeOK, Processes, Points
<1>4. Genuine(catalog)
  BY DEF Init, Genuine, Facts
<1> QED
  BY <1>3, <1>4 DEF Init, ScriptInv, Scripts, Processes

LEMMA ScriptStep == ScriptInv /\ [Next]_vars => ScriptInv'
<1> SUFFICES ASSUME ScriptInv, [Next]_vars PROVE ScriptInv'
  OBVIOUS
<1> USE KnowledgeConstants DEF reviews, reading
<1>0. TypeOK /\ SnapshotTexts \in MaybeBundles /\ NoBundle \in MaybeBundles /\ Bundles \subseteq MaybeBundles
  BY DEF ScriptInv, TypeOK, SnapshotTexts, MaybeBundles, Bundles, NoBundle
<1>1. CASE PassBRead
  <2>0. pc' \in [Processes -> Points]
    BY <1>0, <1>1, StepType DEF PassBRead, TypeOK, Processes, Points
  <2>1. Proposal(PassBCatalog(SnapshotTexts))
    BY <1>0, <1>1, PassBProposes DEF PassBRead
  <2>2. TypeOK'
    BY <2>0, <1>1, <2>1 DEF ScriptInv, TypeOK, PassBRead, Step, corpus, publishing, validation, Proposal, Processes
  <2> QED
    BY <1>1, <2>1, <2>2 DEF ScriptInv, TypeOK, PassBRead, Step, corpus, publishing, validation, Scripts, Processes
<1>2. CASE B11Texts
  <2>0. pc' \in [Processes -> Points]
    BY <1>0, <1>2, StepType DEF B11Texts, TypeOK, Processes, Points
  <2>1. TypeOK'
    BY <2>0, <1>2 DEF ScriptInv, TypeOK, B11Texts, Step, corpus, publishing, validation, Processes
  <2> QED
    BY <1>2, <2>1 DEF ScriptInv, TypeOK, B11Texts, Step, corpus, publishing, validation, Scripts, Processes
<1>3. CASE B11Read
  <2>0. pc' \in [Processes -> Points]
    BY <1>0, <1>3, StepType DEF B11Read, TypeOK, Processes, Points
  <2>1. Recited(catalog, texts).review = catalog.review
    BY DEF Recited
  <2>2. Proposal(Recited(catalog, texts))
    BY <1>3, <2>1, B11Proposes DEF B11Read, Step, B11Allows, ScriptInv, TypeOK
  <2>3. TypeOK'
    BY <2>0, <1>3, <2>2 DEF ScriptInv, TypeOK, B11Read, Step, corpus, publishing, validation, Proposal, Processes
  <2> QED
    BY <1>3, <2>2, <2>3 DEF ScriptInv, TypeOK, B11Read, Step, corpus, publishing, validation, Scripts, Processes
<1>4. ASSUME NEW s \in Scripts, Truncate(s) PROVE ScriptInv'
  <2>0. pc' \in [Processes -> Points]
    BY <1>0, <1>4, StepType DEF Truncate, TypeOK, Processes, Points, Scripts
  <2>1. TypeOK'
    BY <2>0, <1>4 DEF ScriptInv, TypeOK, Truncate, Step, corpus, scripts, publishing, validation, Processes
  <2> QED
    BY <1>4, <2>1 DEF ScriptInv, TypeOK, Truncate, Step, corpus, scripts, publishing, validation, Scripts, Processes
<1>5. ASSUME NEW s \in Scripts, WriteCatalog(s) PROVE ScriptInv'
  <2>0. pc' \in [Processes -> Points]
    BY <1>0, <1>5, StepType DEF WriteCatalog, TypeOK, Processes, Points, Scripts
  <2>1. Proposal(draft[s])
    BY <1>5 DEF ScriptInv, WriteCatalog, Step
  <2>2. TypeOK'
    BY <2>0, <1>5, <2>1 DEF ScriptInv, TypeOK, WriteCatalog, Step, corpus, publishing, validation, Processes, Proposal
  <2>3. \A t \in Scripts : pc'[t] \in {"truncate", "write"} => t # s /\ pc[t] = pc'[t] /\ draft'[t] = draft[t]
    BY <1>5 DEF ScriptInv, TypeOK, WriteCatalog, Step, Scripts, Processes
  <2> QED
    BY <1>5, <2>1, <2>2, <2>3 DEF ScriptInv, TypeOK, WriteCatalog, Step, corpus, publishing, validation, Scripts, Processes, Proposal
<1>6. ASSUME NEW F \in Reviewed, NEW signs \in BOOLEAN, Review(F, signs) PROVE ScriptInv'
  <2>1. catalog \in Catalogs /\ catalog.facts \in [Facts -> Evidence] /\ catalog.review \in Reviews
    BY <1>6 DEF ScriptInv, TypeOK, Review, Catalogs
  <2>2. \A f \in Facts : catalog.facts[f] \in Evidence
    BY <2>1
  <2>3. \A f \in Facts : [status |-> "approved", span |-> catalog.facts[f].span,
                          content |-> catalog.facts[f].content] \in Evidence
    BY <2>2 DEF Evidence
  <2>4. catalog' \in Catalogs
    BY <1>6, <2>1, <2>3 DEF Review, Catalogs, Reviews
  <2>5. \A f \in Corpus : catalog'.facts[f].span = catalog.facts[f].span
                       /\ catalog'.facts[f].content = catalog.facts[f].content
    BY <1>6 DEF Review, Facts
  <2>6. Genuine(catalog')
    BY <1>6, <2>5 DEF ScriptInv, Genuine, Review
  <2>7. TypeOK'
    <3>1. approvals' \subseteq Catalogs
      BY <1>6, <2>4 DEF ScriptInv, TypeOK, Review
    <3> QED
      BY <1>6, <2>4, <3>1 DEF ScriptInv, TypeOK, Review, corpus, scripts, publishing, validation
  <2> QED
    BY <1>6, <2>6, <2>7 DEF ScriptInv, Review, corpus, scripts, publishing, validation, CanCite
<1>7. ASSUME NEW d \in Docs, NEW e \in Editions \cup {Missing}, Stage(d, e) PROVE ScriptInv'
  <2>1. TypeOK'
    BY <1>7 DEF ScriptInv, TypeOK, Stage, MaybeBundles, scripts, publishing, validation
  <2> QED
    BY <1>7, <2>1 DEF ScriptInv, Stage, scripts, publishing, validation
<1>8. CASE PublishBegin
  <2>0. pc' \in [Processes -> Points]
    BY <1>0, <1>8, StepType DEF PublishBegin, TypeOK, Processes, Points
  <2>1. staged \in Bundles
    BY <1>8 DEF ScriptInv, TypeOK, PublishBegin, MaybeBundles, Bundles
  <2>2. TypeOK'
    BY <2>0, <1>8, <2>1 DEF ScriptInv, TypeOK, PublishBegin, Step, corpus, scripts, validation, Processes, Productions
  <2> QED
    BY <1>8, <2>1, <2>2 DEF ScriptInv, TypeOK, PublishBegin, Step, corpus, scripts, validation, Scripts, Processes, Productions
<1>9. CASE PublishSwap
  <2>0. pc' \in [Processes -> Points]
    BY <1>0, <1>9, StepType DEF PublishSwap, TypeOK, Processes, Points
  <2>1. TypeOK'
    BY <2>0, <1>9 DEF ScriptInv, TypeOK, PublishSwap, Step, scripts, publishing, validation, Processes
  <2> QED
    BY <1>9, <2>1 DEF ScriptInv, TypeOK, PublishSwap, Step, scripts, publishing, validation, Scripts, Processes
<1>10. CASE PublishManifest
  <2>0. pc' \in [Processes -> Points]
    BY <1>0, <1>10, StepType DEF PublishManifest, TypeOK, Processes, Points
  <2>1. TypeOK'
    BY <2>0, <1>0, <1>10 DEF ScriptInv, TypeOK, PublishManifest, Step, scripts, validation, Processes
  <2> QED
    BY <1>10, <2>1 DEF ScriptInv, TypeOK, PublishManifest, Step, scripts, validation, Scripts, Processes
<1>11. CASE PublishEnd
  <2>0. pc' \in [Processes -> Points]
    BY <1>0, <1>11, StepType DEF PublishEnd, TypeOK, Processes, Points
  <2>1. TypeOK'
    BY <2>0, <1>11 DEF ScriptInv, TypeOK, PublishEnd, Step, corpus, scripts, validation, Processes
  <2> QED
    BY <1>11, <2>1 DEF ScriptInv, TypeOK, PublishEnd, Step, corpus, scripts, validation, Scripts, Processes
<1>12. CASE PublishRollback
  <2>a. outgoing.docs \in Bundles \cup {Missing} /\ outgoing.rows \in MaybeBundles
    BY <1>12 DEF ScriptInv, PublishRollback, Step, Productions
  <2>b. /\ docs' \in Bundles \cup {Missing} /\ rows' \in MaybeBundles
        /\ incoming' \in {incoming, Missing} /\ outgoing' \in {outgoing, Missing}
    BY <1>12, <2>a DEF ScriptInv, TypeOK, PublishRollback
  <2>c. pc' \in [Processes -> Points]
    BY <1>12 DEF ScriptInv, TypeOK, PublishRollback, Step, Processes, Points
  <2>1. TypeOK'
    BY <1>12, <2>b, <2>c DEF ScriptInv, TypeOK, PublishRollback, scripts, validation
  <2> QED
    BY <1>12, <2>1 DEF ScriptInv, TypeOK, PublishRollback, Step, scripts, validation, Scripts, Processes
<1>13. ASSUME NEW s \in BOOLEAN, ValidateBegin(s) PROVE ScriptInv'
  <2>0. pc' \in [Processes -> Points]
    BY <1>0, <1>13, StepType DEF ValidateBegin, TypeOK, Processes, Points
  <2>1. TypeOK'
    BY <2>0, <1>13 DEF ScriptInv, TypeOK, ValidateBegin, Step, corpus, scripts, publishing, Processes
  <2> QED
    BY <1>13, <2>1 DEF ScriptInv, TypeOK, ValidateBegin, Step, corpus, scripts, publishing, Scripts, Processes
<1>14. CASE ValidatePending \/ ValidateRows
  <2>0. pc' \in [Processes -> Points]
    BY <1>0, <1>14, StepType DEF ValidatePending, ValidateRows, TypeOK, Processes, Points
  <2>1. TypeOK'
    BY <2>0, <1>0, <1>14 DEF ScriptInv, TypeOK, ValidatePending, ValidateRows, corpus, scripts, publishing, validation
  <2>2. \A p \in Processes \ {"validate"} : pc'[p] = pc[p]
    BY <1>0, <1>14 DEF ValidatePending, ValidateRows, Step, TypeOK
  <2>3. UNCHANGED <<catalog, texts, draft, incoming, outgoing>>
    BY <1>14 DEF ValidatePending, ValidateRows, scripts, publishing
  <2> QED
    BY <2>1, <2>2, <2>3 DEF ScriptInv, Scripts, Processes, CanCite
<1>19. CASE ValidateList
  <2>0. pc' \in [Processes -> Points]
    BY <1>0, <1>19, StepType DEF ValidateList, TypeOK, Processes, Points
  <2>1. UNCHANGED <<catalog, corpus, scripts, publishing, strict, verdict, passed, stages, reviews, fresh>>
    BY <1>19 DEF ValidateList
  <2>2. /\ seenCatalog' \in {seenCatalog, Missing} /\ nonePending' \in {nonePending, FALSE}
        /\ seenRows' \in {seenRows, NoBundle} /\ seenDocs' \in {seenDocs, NoBundle}
        /\ unread' \in {unread, {}}
    BY <1>19 DEF ValidateList, Forget
  <2>3. TypeOK'
    <3>1. /\ catalog' = catalog /\ staged' = staged /\ docs' = docs /\ rows' = rows
          /\ texts' = texts /\ draft' = draft /\ incoming' = incoming /\ outgoing' = outgoing
          /\ published' = published /\ approvals' = approvals
          /\ verdict' = verdict /\ strict' = strict /\ passed' = passed /\ fresh' = fresh
      BY <2>1 DEF corpus, scripts, publishing
    <3>2. nonePending' \in BOOLEAN
      BY <1>0, <2>2 DEF TypeOK
    <3>3. /\ seenCatalog' \in Catalogs \cup {Missing} /\ unread' \subseteq Docs
          /\ seenRows' \in MaybeBundles /\ seenDocs' \in MaybeBundles
      BY <1>0, <2>2 DEF TypeOK
    <3> QED
      BY <1>0, <2>0, <3>1, <3>2, <3>3 DEF TypeOK
  <2>4. \A p \in Processes \ {"validate"} : pc'[p] = pc[p]
    BY <1>0, <1>19 DEF ValidateList, Step, TypeOK
  <2> QED
    BY <2>1, <2>3, <2>4 DEF ScriptInv, Scripts, Processes, CanCite, scripts, publishing
<1>20. CASE ValidateExit
  <2>0. pc' \in [Processes -> Points]
    BY <1>0, <1>20, StepType DEF ValidateExit, TypeOK, Processes, Points
  <2>1. UNCHANGED <<catalog, corpus, scripts, publishing, reading, strict, verdict, stages, reviews, fresh>>
    BY <1>20 DEF ValidateExit
  <2>2. passed' \in {passed, TRUE}
    BY <1>20 DEF ValidateExit
  <2>3. TypeOK'
    <3>1. /\ catalog' = catalog /\ staged' = staged /\ docs' = docs /\ rows' = rows
          /\ texts' = texts /\ draft' = draft /\ incoming' = incoming /\ outgoing' = outgoing
          /\ published' = published /\ approvals' = approvals
          /\ seenCatalog' = seenCatalog /\ seenRows' = seenRows /\ seenDocs' = seenDocs
          /\ unread' = unread /\ nonePending' = nonePending
          /\ verdict' = verdict /\ strict' = strict /\ fresh' = fresh
      BY <2>1 DEF corpus, scripts, publishing
    <3>2. passed' \in BOOLEAN
      BY <1>0, <2>2 DEF TypeOK
    <3> QED
      BY <1>0, <2>0, <3>1, <3>2 DEF TypeOK
  <2>4. \A p \in Processes \ {"validate"} : pc'[p] = pc[p]
    BY <1>0, <1>20 DEF ValidateExit, Step, TypeOK
  <2> QED
    BY <2>1, <2>3, <2>4 DEF ScriptInv, Scripts, Processes, CanCite, scripts, publishing
<1>15. CASE ValidateDoc
  <2>0. pc' \in [Processes -> Points]
    BY <1>0, <1>15, StepType DEF ValidateDoc, TypeOK, Processes, Points
  <2>1. TypeOK'
    BY <2>0, <1>15 DEF ScriptInv, TypeOK, ValidateDoc, MatchesManifest, Step, corpus, scripts, publishing, Processes, MaybeBundles, Bundles
  <2> QED
    BY <1>15, <2>1 DEF ScriptInv, TypeOK, ValidateDoc, Step, corpus, scripts, publishing, Scripts, Processes
<1>16. CASE ValidateVerdict
  <2>0. pc' \in [Processes -> Points]
    BY <1>0, <1>16, StepType DEF ValidateVerdict, TypeOK, Processes, Points
  <2>1. TypeOK'
    BY <2>0, <1>0, <1>16 DEF ScriptInv, TypeOK, ValidateVerdict, Forget, Step, corpus, scripts, publishing, Processes
  <2> QED
    BY <1>16, <2>1 DEF ScriptInv, TypeOK, ValidateVerdict, Step, corpus, scripts, publishing, Scripts, Processes
<1>17. ASSUME NEW p \in Processes, Abort(p) PROVE ScriptInv'
  <2>0. pc' \in [Processes -> Points]
    BY <1>0, <1>17, StepType DEF Abort, TypeOK, Processes, Points
  <2>1. TypeOK'
    BY <2>0, <1>0, <1>17 DEF ScriptInv, TypeOK, Abort, Forget, corpus, validation, Processes
  <2> QED
    BY <1>17, <2>1 DEF ScriptInv, TypeOK, Abort, corpus, validation, Scripts, Processes
<1>18. CASE UNCHANGED vars
  BY <1>18 DEF ScriptInv, TypeOK, vars, corpus, scripts, publishing, validation, CanCite
<1> QED
  BY <1>1, <1>2, <1>3, <1>4, <1>5, <1>6, <1>7, <1>8, <1>9, <1>10, <1>11, <1>12, <1>13, <1>14,
     <1>15, <1>16, <1>17, <1>18, <1>19, <1>20 DEF Next, Scripts

-----------------------------------------------------------------------------

\* A manifest without pending rows is of a published bundle, wherever it is kept
ManifestInv ==
    /\ rows \in Bundles => rows \in published
    /\ seenRows \in Bundles => seenRows \in published
    /\ outgoing # Missing => (outgoing.rows \in Bundles => outgoing.rows \in published)

Reading == {"pending", "rows", "list", "docs", "verdict"}

\* What the validation has read, and still finds if nothing was written
ReadInv ==
    /\ pc["validate"] \in Reading => verdict = "none" /\ seenCatalog \in Catalogs
    /\ pc["validate"] # "idle" => ~passed
    /\ pc["validate"] \in {"list", "docs", "verdict"} =>
         \A d \in Docs : seenDocs[d] # Missing => seenDocs[d] = seenRows[d]
    /\ fresh /\ pc["validate"] \in Reading => seenCatalog = catalog
    /\ fresh /\ pc["validate"] \in {"list", "docs", "verdict"} =>
         \A d \in Docs : seenDocs[d] # Missing => docs # Missing /\ docs[d] = seenDocs[d]
    /\ StrictReadyIsQuoted
    /\ ReadyWasPublished

\* Whatever is certified was reviewed as it stands, on disk and in what was read
ApprovedInv ==
    /\ Certified(catalog) => catalog \in approvals
    /\ pc["validate"] \in Reading /\ Certified(seenCatalog) => seenCatalog \in approvals
    /\ pc["validate"] = "clean" /\ strict => verdict = "READY"
    /\ ReadyWasApproved

KnowledgeInv == ScriptInv /\ ManifestInv /\ ReadInv /\ ApprovedInv /\ hands \in Nat

\* A bundle with every row or document there is a bundle
LEMMA NothingMissing ==
    ASSUME NEW b \in MaybeBundles, \A d \in Docs : b[d] # Missing
    PROVE  b \in Bundles
BY DEF MaybeBundles, Bundles

LEMMA ManifestInit == Init => ManifestInv
<1> SUFFICES ASSUME Init PROVE ManifestInv
  OBVIOUS
<1> USE KnowledgeConstants DEF reviews, reading
<1>1. NoBundle \notin Bundles
  BY DEF NoBundle, Bundles
<1> QED
  BY <1>1 DEF Init, ManifestInv

LEMMA ManifestStep == ScriptInv /\ ManifestInv /\ [Next]_vars => ManifestInv'
<1> SUFFICES ASSUME ScriptInv, ManifestInv, [Next]_vars PROVE ManifestInv'
  OBVIOUS
<1> USE KnowledgeConstants DEF reviews, reading
<1>0. NoBundle \notin Bundles
  BY DEF NoBundle, Bundles
<1>1. CASE PublishBegin
  BY <1>1 DEF ManifestInv, PublishBegin, corpus, validation
<1>2. CASE PublishManifest
  BY <1>2 DEF ManifestInv, PublishManifest, validation
<1>3. CASE PublishRollback
  BY <1>3 DEF ScriptInv, ManifestInv, PublishRollback, Step, validation
<1>4. CASE ValidateRows
  BY <1>4 DEF ManifestInv, ValidateRows, corpus, publishing
<1>5. CASE ValidateVerdict \/ ValidateList
  BY <1>0, <1>5 DEF ManifestInv, ValidateVerdict, ValidateList, Forget, corpus, publishing
<1>6. ASSUME NEW p \in Processes, Abort(p) PROVE ManifestInv'
  BY <1>0, <1>6 DEF ManifestInv, Abort, Forget, corpus, validation
<1>7. CASE UNCHANGED <<rows, seenRows, outgoing, published>>
  BY <1>7 DEF ManifestInv
<1>8. CASE PublishEnd
  BY <1>8 DEF ManifestInv, PublishEnd, corpus, validation
<1>9. PassBRead \/ B11Texts \/ B11Read => UNCHANGED <<rows, seenRows, outgoing, published>>
  BY DEF PassBRead, B11Texts, B11Read, corpus, publishing, validation
<1>10. \A s \in Scripts : Truncate(s) \/ WriteCatalog(s) => UNCHANGED <<rows, seenRows, outgoing, published>>
  BY DEF Truncate, WriteCatalog, corpus, publishing, validation
<1>11. \A F \in Reviewed, s \in BOOLEAN : Review(F, s) => UNCHANGED <<rows, seenRows, outgoing, published>>
  BY DEF Review, corpus, publishing, validation
<1>12. \A d \in Docs, e \in Editions \cup {Missing} :
         Stage(d, e) => UNCHANGED <<rows, seenRows, outgoing, published>>
  BY DEF Stage, publishing, validation
<1>13. PublishSwap \/ ValidatePending \/ ValidateDoc \/ ValidateExit => UNCHANGED <<rows, seenRows, outgoing, published>>
  BY DEF PublishSwap, ValidatePending, ValidateDoc, ValidateExit, corpus, publishing, validation
<1>15. UNCHANGED vars => UNCHANGED <<rows, seenRows, outgoing, published>>
  BY DEF vars, corpus, publishing, validation
<1>14. \A s \in BOOLEAN : ValidateBegin(s) => UNCHANGED <<rows, seenRows, outgoing, published>>
  BY DEF ValidateBegin, corpus, publishing
<1> QED
  BY <1>1, <1>2, <1>3, <1>4, <1>5, <1>6, <1>7, <1>8, <1>9, <1>10, <1>11, <1>12, <1>13, <1>14, <1>15 DEF Next, Scripts

\* A step of another process that writes nothing the validation reads
Silent ==
    /\ UNCHANGED <<catalog, docs, validation, fresh>>
    /\ pc'["validate"] = pc["validate"]
    /\ published \subseteq published'

\* One that may have
Intruding ==
    /\ fresh' = FALSE
    /\ UNCHANGED validation
    /\ pc'["validate"] = pc["validate"]
    /\ published \subseteq published'

LEMMA VerdictStep == KnowledgeInv /\ ValidateVerdict => ReadInv'
<1> SUFFICES ASSUME KnowledgeInv, ValidateVerdict PROVE ReadInv'
  OBVIOUS
<1> USE KnowledgeConstants DEF reviews, reading
<1>1. /\ pc["validate"] = "verdict" /\ pc'["validate"] \in {"clean", "errors"}
      /\ seenCatalog \in Catalogs /\ ~passed
      /\ \A d \in Docs : seenDocs[d] # Missing => seenDocs[d] = seenRows[d]
  BY DEF KnowledgeInv, ScriptInv, TypeOK, ReadInv, ValidateVerdict, Step, Processes, Reading
<1>2. UNCHANGED <<catalog, docs, published, strict, passed, fresh>>
  BY DEF ValidateVerdict, corpus, publishing
<1>3. BundleOk => seenDocs \in Bundles /\ seenDocs = seenRows /\ seenDocs \in published
  <2> SUFFICES ASSUME BundleOk PROVE seenDocs \in Bundles /\ seenDocs = seenRows /\ seenDocs \in published
    OBVIOUS
  <2>1. seenDocs \in Bundles /\ seenRows \in MaybeBundles
    BY NothingMissing DEF BundleOk, KnowledgeInv, ScriptInv, TypeOK
  <2>2. seenDocs = seenRows
    BY <1>1, <2>1 DEF BundleOk, Bundles, MaybeBundles
  <2> QED
    BY <2>1, <2>2 DEF KnowledgeInv, ManifestInv
<1>4. IsReady => BundleOk /\ EvidenceVerified(seenCatalog) /\ NoErrors
  BY DEF IsReady
<1>5. ReadyWasPublished'
  BY <1>2, <1>3, <1>4 DEF ReadyWasPublished, ValidateVerdict
<1>7. StrictReadyIsQuoted'
  <2> SUFFICES ASSUME IsReady, strict, fresh PROVE StrictReadyIsQuoted'
    BY <1>2 DEF StrictReadyIsQuoted, ValidateVerdict
  <2>1. seenCatalog = catalog
    BY <1>1 DEF KnowledgeInv, ReadInv, Reading
  <2>2. PICK d \in Docs : TRUE
    BY DEF BundleOk
  <2>3. docs # Missing /\ \A c \in Docs : docs[c] = seenDocs[c]
    BY <1>1, <1>4, <2>2 DEF BundleOk, KnowledgeInv, ReadInv
  <2>4. seenDocs = docs
    BY <1>3, <1>4, <2>3 DEF KnowledgeInv, ScriptInv, TypeOK, Bundles
  <2>5. EvidenceVerified(catalog) /\ QuotesStand(catalog, docs)
    BY <1>4, <2>1, <2>4 DEF IsReady, NoErrors, StrictChecks
  <2>6. \A f \in Corpus : catalog.facts[f].content = docs[SourceOf[f]]
    BY <2>5 DEF EvidenceVerified, Verified, AllEvidenced, QuotesStand
  <2>7. catalog # Missing
    BY <1>1, <2>1
  <2>8. (\A f \in Facts : catalog.facts[f].status = "approved") /\ catalog.review.signed
    BY <2>5 DEF EvidenceVerified
  <2> QED
    BY <1>2, <2>3, <2>5, <2>6, <2>7, <2>8 DEF StrictReadyIsQuoted, QuotesStand
<1> QED
  BY <1>1, <1>2, <1>5, <1>7 DEF ReadInv, Reading

LEMMA ReadStep == KnowledgeInv /\ [Next]_vars => ReadInv'
<1> SUFFICES ASSUME KnowledgeInv, [Next]_vars PROVE ReadInv'
  OBVIOUS
<1> USE KnowledgeConstants DEF reviews, reading
<1>0. TypeOK
  BY DEF KnowledgeInv, ScriptInv
<1>1. CASE Silent
  BY <1>1 DEF Silent, KnowledgeInv, ReadInv, StrictReadyIsQuoted, ReadyWasPublished,
              validation, QuotesStand
<1>2. CASE Intruding
  BY <1>2 DEF Intruding, KnowledgeInv, ReadInv, StrictReadyIsQuoted, ReadyWasPublished,
              validation
<1>3. ASSUME NEW s \in BOOLEAN, ValidateBegin(s) PROVE ReadInv'
  <2>1. /\ pc'["validate"] = "pending" /\ verdict' = "none" /\ passed' = FALSE
        /\ seenCatalog' = catalog' /\ catalog' \in Catalogs
    BY <1>0, <1>3 DEF ValidateBegin, Step, TypeOK, Processes
  <2> QED
    BY <2>1 DEF Reading, ReadInv, StrictReadyIsQuoted, ReadyWasPublished
<1>16. CASE ValidatePending
  <2>1. pc["validate"] = "pending" /\ pc'["validate"] = "rows"
    BY <1>0, <1>16 DEF ValidatePending, Step, TypeOK, Processes
  <2>2. UNCHANGED <<catalog, seenCatalog, verdict, passed, strict, fresh>>
    BY <1>16 DEF ValidatePending
  <2> QED
    BY <2>1, <2>2 DEF KnowledgeInv, ReadInv, Reading, StrictReadyIsQuoted, ReadyWasPublished
<1>4. CASE ValidateRows
  <2>1. /\ pc["validate"] = "rows" /\ verdict = "none" /\ ~passed /\ seenCatalog \in Catalogs
        /\ pc'["validate"] \in Reading
    BY <1>0, <1>4 DEF ValidateRows, Step, KnowledgeInv, ReadInv, Reading, TypeOK, Processes
  <2>2. \A d \in Docs : seenDocs'[d] = Missing
    BY <1>4 DEF ValidateRows, NoBundle
  <2>3. UNCHANGED <<catalog, seenCatalog, verdict, passed, fresh>>
    BY <1>4 DEF ValidateRows
  <2> QED
    BY <2>1, <2>2, <2>3 DEF Reading, KnowledgeInv, ReadInv, StrictReadyIsQuoted, ReadyWasPublished
<1>5. CASE ValidateList
  <2>1. /\ pc["validate"] = "list" /\ verdict = "none" /\ ~passed
        /\ pc'["validate"] \in {"idle", "docs", "verdict"}
    BY <1>0, <1>5 DEF ValidateList, Step, TypeOK, Processes, KnowledgeInv, ReadInv, Reading
  <2>2. UNCHANGED <<catalog, docs, strict, verdict, passed, fresh>>
    BY <1>5 DEF ValidateList, corpus
  <2>3. CASE UNCHANGED reading
    BY <2>1, <2>2, <2>3 DEF KnowledgeInv, ReadInv, Reading, StrictReadyIsQuoted, ReadyWasPublished
  <2>4. CASE pc'["validate"] = "idle"
    BY <2>1, <2>2, <2>4 DEF KnowledgeInv, ReadInv, Reading, StrictReadyIsQuoted, ReadyWasPublished
  <2> QED
    BY <1>0, <1>5, <2>3, <2>4 DEF ValidateList, Step, TypeOK, Processes
<1>6. CASE ValidateDoc
  <2>1. pc["validate"] = "docs" /\ pc'["validate"] \in {"docs", "verdict"}
    BY <1>0, <1>6 DEF ValidateDoc, Step, TypeOK, Processes
  <2>2. UNCHANGED <<catalog, docs, seenCatalog, seenRows, verdict, passed, fresh>>
    BY <1>6 DEF ValidateDoc, corpus
  <2>3. \A d \in Docs : seenDocs'[d] = seenDocs[d]
                     \/ (docs # Missing /\ seenDocs'[d] = docs[d] /\ docs[d] = seenRows[d])
    BY <1>0, <1>6 DEF ValidateDoc, MatchesManifest, TypeOK, MaybeBundles
  <2> QED
    BY <2>1, <2>2, <2>3 DEF KnowledgeInv, ReadInv, Reading, StrictReadyIsQuoted, ReadyWasPublished
<1>7. CASE ValidateVerdict
  BY <1>7, VerdictStep
<1>8. CASE Abort("validate")
  <2>1. /\ pc'["validate"] = "idle" /\ UNCHANGED <<catalog, docs, strict, verdict, fresh, published>>
        /\ verdict = "READY" => seenDocs' = seenDocs
    BY <1>0, <1>8 DEF Abort, TypeOK, Processes, corpus
  <2> QED
    BY <2>1 DEF KnowledgeInv, ReadInv, Reading, StrictReadyIsQuoted, ReadyWasPublished, QuotesStand
<1>17. CASE ValidateExit
  <2>1. pc'["validate"] = "idle" /\ UNCHANGED <<catalog, docs, strict, verdict, fresh, published, seenDocs>>
    BY <1>0, <1>17 DEF ValidateExit, Step, TypeOK, Processes, corpus, publishing
  <2> QED
    BY <2>1 DEF KnowledgeInv, ReadInv, Reading, StrictReadyIsQuoted, ReadyWasPublished, QuotesStand
<1>9. CASE UNCHANGED vars
  BY <1>1, <1>9 DEF vars, Silent, corpus, publishing, validation
<1>10. CASE PassBRead \/ B11Texts \/ B11Read \/ PublishBegin \/ PublishEnd
  BY <1>0, <1>1, <1>10 DEF Silent, PassBRead, B11Texts, B11Read, PublishBegin, PublishEnd, Step, corpus, publishing, validation, Processes, TypeOK
<1>11. ASSUME NEW d \in Docs, NEW e \in Editions \cup {Missing}, Stage(d, e) PROVE ReadInv'
  BY <1>1, <1>11 DEF Silent, Stage, publishing, validation
<1>12. ASSUME NEW p \in Processes \ {"validate"}, Abort(p) PROVE ReadInv'
  BY <1>0, <1>1, <1>12 DEF Silent, Abort, corpus, validation, Processes, TypeOK
<1>13. ASSUME NEW s \in Scripts, Truncate(s) \/ WriteCatalog(s) PROVE ReadInv'
  BY <1>0, <1>2, <1>13 DEF Intruding, Truncate, WriteCatalog, Step, corpus, publishing, validation, Processes, Scripts, TypeOK
<1>14. ASSUME NEW F \in Reviewed, NEW b \in BOOLEAN, Review(F, b) PROVE ReadInv'
  BY <1>2, <1>14 DEF Intruding, Review, publishing, validation
<1>15. CASE PublishSwap \/ PublishManifest \/ PublishRollback
  BY <1>0, <1>2, <1>15 DEF Intruding, PublishSwap, PublishManifest, PublishRollback, Step, publishing, validation, Processes, TypeOK
<1> QED
  BY <1>3, <1>4, <1>5, <1>6, <1>7, <1>8, <1>9, <1>10, <1>11, <1>12, <1>13, <1>14, <1>15, <1>16, <1>17
     DEF Next, Scripts

\* A step beside the validation, after which what is certified was reviewed
Beside ==
    /\ UNCHANGED validation
    /\ pc'["validate"] = pc["validate"]
    /\ approvals \subseteq approvals'
    /\ Certified(catalog') => catalog' \in approvals'

LEMMA ApprovedStep == KnowledgeInv /\ [Next]_vars => ApprovedInv'
<1> SUFFICES ASSUME KnowledgeInv, [Next]_vars PROVE ApprovedInv'
  OBVIOUS
<1> USE KnowledgeConstants DEF reviews, reading
<1>0. TypeOK /\ ApprovedInv
  BY DEF KnowledgeInv, ScriptInv
<1>1. CASE Beside
  BY <1>0, <1>1 DEF Beside, ApprovedInv, ReadyWasApproved, validation, QuotesStand, Certified,
                    EvidenceVerified, Verified, AllEvidenced
<1>2. ASSUME UNCHANGED <<catalog, validation, approvals>>, pc'["validate"] = pc["validate"]
      PROVE  ApprovedInv'
  <2>1. Beside
    BY <1>0, <1>2 DEF Beside, ApprovedInv, Certified, EvidenceVerified, Verified, AllEvidenced
  <2> QED BY <1>1, <2>1
<1>3. ASSUME NEW s \in Scripts, Truncate(s) \/ WriteCatalog(s) PROVE ApprovedInv'
  <2>1. ~Certified(catalog')
    <3>1. CASE Truncate(s)
      BY <3>1 DEF Truncate, Certified
    <3>2. CASE WriteCatalog(s)
      BY <3>2 DEF KnowledgeInv, ScriptInv, WriteCatalog, Step, Proposal, Certified, EvidenceVerified
    <3> QED BY <1>3, <3>1, <3>2
  <2>2. Beside
    BY <1>0, <1>3, <2>1 DEF Beside, Truncate, WriteCatalog, Step, Processes, Scripts, TypeOK
  <2> QED BY <1>1, <2>2
<1>4. ASSUME NEW F \in Reviewed, NEW b \in BOOLEAN, Review(F, b) PROVE ApprovedInv'
  <2>1. Beside
    BY <1>4 DEF Beside, Review
  <2> QED BY <1>1, <2>1
<1>5. ASSUME pc'["validate"] \in Reading, pc["validate"] \in Reading,
             UNCHANGED <<catalog, seenCatalog, strict, verdict, passed, approvals>>
      PROVE  ApprovedInv'
  <2>1. verdict' = "none" /\ ~passed'
    BY <1>5 DEF KnowledgeInv, ReadInv, Reading
  <2> QED
    BY <1>0, <1>5, <2>1 DEF ApprovedInv, ReadyWasApproved, Reading, Certified, EvidenceVerified,
                            Verified, AllEvidenced
<1>6. ASSUME NEW s \in BOOLEAN, ValidateBegin(s) PROVE ApprovedInv'
  <2>1. /\ pc'["validate"] = "pending" /\ verdict' = "none" /\ passed' = FALSE
        /\ seenCatalog' = catalog /\ catalog' = catalog /\ approvals' = approvals
    BY <1>0, <1>6 DEF ValidateBegin, Step, TypeOK, Processes
  <2> QED
    BY <1>0, <2>1 DEF ApprovedInv, ReadyWasApproved, Reading
<1>7. CASE ValidatePending \/ ValidateRows \/ ValidateDoc
  <2>1. pc["validate"] \in Reading /\ pc'["validate"] \in Reading
    BY <1>0, <1>7 DEF ValidatePending, ValidateRows, ValidateDoc, Step, TypeOK, Processes, Reading
  <2>2. UNCHANGED <<catalog, seenCatalog, strict, verdict, passed, approvals>>
    BY <1>7 DEF ValidatePending, ValidateRows, ValidateDoc
  <2> QED BY <1>5, <2>1, <2>2
<1>8. CASE ValidateList
  <2>1. pc["validate"] = "list" /\ pc'["validate"] \in {"idle", "docs", "verdict"}
    BY <1>0, <1>8 DEF ValidateList, Step, TypeOK, Processes
  <2>2. UNCHANGED <<catalog, strict, verdict, passed, approvals>>
    BY <1>8 DEF ValidateList
  <2>3. CASE UNCHANGED reading /\ pc'["validate"] # "idle"
    BY <1>5, <2>1, <2>2, <2>3 DEF Reading
  <2>4. CASE pc'["validate"] = "idle"
    <3>1. verdict' = "none" /\ ~passed'
      BY <2>1, <2>2 DEF KnowledgeInv, ReadInv, Reading
    <3> QED
      BY <1>0, <2>2, <2>4, <3>1 DEF ApprovedInv, ReadyWasApproved, Reading, Certified,
         EvidenceVerified, Verified, AllEvidenced
  <2> QED
    BY <1>0, <1>8, <2>3, <2>4 DEF ValidateList, Step, TypeOK, Processes
<1>9. CASE ValidateVerdict
  <2>1. /\ pc["validate"] = "verdict" /\ ~passed
        /\ pc'["validate"] = IF NoErrors THEN "clean" ELSE "errors"
        /\ seenCatalog \in Catalogs
    BY <1>0, <1>9 DEF ValidateVerdict, Step, TypeOK, Processes, KnowledgeInv, ReadInv, Reading
  <2>2. /\ UNCHANGED <<catalog, strict, passed, approvals>>
        /\ verdict' = IF IsReady THEN "READY" ELSE "NOT_READY"
        /\ IsReady => seenDocs' = seenDocs
    BY <1>9 DEF ValidateVerdict
  <2>3. strict /\ NoErrors => IsReady
    BY DEF NoErrors, StrictChecks, IsReady, EvidenceVerified
  <2>4. ASSUME strict, IsReady PROVE ReadyWasApproved'
    <3>1. Certified(seenCatalog) /\ QuotesStand(seenCatalog, seenDocs)
      BY <2>1, <2>4 DEF IsReady, NoErrors, StrictChecks, Certified
    <3>2. seenCatalog \in approvals
      BY <1>0, <2>1, <3>1 DEF ApprovedInv, Reading
    <3>3. \A f \in Corpus : /\ seenCatalog.facts[f].span # Missing
                            /\ seenCatalog.facts[f].content = seenDocs[SourceOf[f]]
      BY <3>1 DEF Certified, EvidenceVerified, Verified, AllEvidenced, QuotesStand
    <3>4. \E c \in approvals : /\ QuotesStand(c, seenDocs)
                               /\ \A f \in Corpus : /\ c.facts[f].span # Missing
                                                    /\ c.facts[f].content = seenDocs[SourceOf[f]]
      BY <3>1, <3>2, <3>3
    <3> QED BY <2>2, <2>4, <3>4 DEF ReadyWasApproved, QuotesStand
  <2>5. ReadyWasApproved'
    BY <2>1, <2>2, <2>4 DEF ReadyWasApproved
  <2> QED
    BY <1>0, <2>1, <2>2, <2>3, <2>5 DEF ApprovedInv, Reading, Certified, EvidenceVerified, Verified,
       AllEvidenced
<1>10. CASE ValidateExit
  <2>1. /\ pc'["validate"] = "idle"
        /\ passed' => passed \/ pc["validate"] = "clean"
        /\ UNCHANGED <<catalog, seenDocs, strict, verdict, approvals>>
    BY <1>0, <1>10 DEF ValidateExit, Step, TypeOK, Processes
  <2>2. ReadyWasApproved'
    BY <1>0, <2>1 DEF ApprovedInv, ReadyWasApproved, QuotesStand
  <2> QED
    BY <1>0, <2>1, <2>2 DEF ApprovedInv, Reading, Certified, EvidenceVerified, Verified, AllEvidenced
<1>11. CASE Abort("validate")
  <2>1. /\ pc'["validate"] = "idle" /\ UNCHANGED <<catalog, strict, verdict, passed, approvals>>
        /\ verdict = "READY" => seenDocs' = seenDocs
        /\ verdict # "READY" => seenDocs' = NoBundle
    BY <1>0, <1>11 DEF Abort, TypeOK, Processes
  <2>2. pc["validate"] # "idle" /\ (passed => verdict = "READY")
    BY <1>0, <1>11 DEF Abort, KnowledgeInv, ReadInv
  <2>3. ReadyWasApproved'
    BY <1>0, <2>1, <2>2 DEF ApprovedInv, ReadyWasApproved, QuotesStand
  <2> QED
    BY <1>0, <2>1, <2>3 DEF ApprovedInv, Reading, Certified, EvidenceVerified, Verified, AllEvidenced
<1>12. CASE PassBRead \/ B11Texts \/ B11Read \/ PublishBegin \/ PublishEnd
  BY <1>0, <1>2, <1>12 DEF PassBRead, B11Texts, B11Read, PublishBegin, PublishEnd, Step, Processes, TypeOK
<1>13. CASE PublishSwap \/ PublishManifest \/ PublishRollback
  BY <1>0, <1>2, <1>13 DEF PublishSwap, PublishManifest, PublishRollback, Step, Processes, TypeOK
<1>14. ASSUME NEW d \in Docs, NEW e \in Editions \cup {Missing}, Stage(d, e) PROVE ApprovedInv'
  BY <1>2, <1>14 DEF Stage
<1>15. ASSUME NEW p \in Processes \ {"validate"}, Abort(p) PROVE ApprovedInv'
  BY <1>0, <1>2, <1>15 DEF Abort, Processes, TypeOK
<1>16. CASE UNCHANGED vars
  BY <1>2, <1>16 DEF vars
<1> QED
  BY <1>3, <1>4, <1>6, <1>7, <1>8, <1>9, <1>10, <1>11, <1>12, <1>13, <1>14, <1>15, <1>16
     DEF Next, Scripts

-----------------------------------------------------------------------------

LEMMA HandsStep == hands \in Nat /\ [Next]_vars => hands' \in Nat
<1> SUFFICES ASSUME hands \in Nat, [Next]_vars PROVE hands' \in Nat
  OBVIOUS
<1> USE DEF reviews
<1>1. ASSUME NEW F \in Reviewed, NEW b \in BOOLEAN, Review(F, b) PROVE hands' \in Nat
  BY <1>1 DEF Review
<1>2. CASE PassBRead \/ B11Texts \/ B11Read
  BY <1>2 DEF PassBRead, B11Texts, B11Read
<1>3. ASSUME NEW s \in Scripts, Truncate(s) \/ WriteCatalog(s) PROVE hands' \in Nat
  BY <1>3 DEF Truncate, WriteCatalog
<1>4. ASSUME NEW d \in Docs, NEW e \in Editions \cup {Missing}, Stage(d, e) PROVE hands' \in Nat
  BY <1>4 DEF Stage
<1>5. CASE PublishBegin \/ PublishSwap \/ PublishManifest \/ PublishEnd \/ PublishRollback
  BY <1>5 DEF PublishBegin, PublishSwap, PublishManifest, PublishEnd, PublishRollback
<1>6. ASSUME NEW s \in BOOLEAN, ValidateBegin(s) PROVE hands' \in Nat
  BY <1>6 DEF ValidateBegin
<1>7. CASE \/ ValidatePending \/ ValidateRows \/ ValidateList \/ ValidateDoc
           \/ ValidateVerdict \/ ValidateExit
  BY <1>7 DEF ValidatePending, ValidateRows, ValidateList, ValidateDoc, ValidateVerdict, ValidateExit
<1>8. ASSUME NEW p \in Processes, Abort(p) PROVE hands' \in Nat
  BY <1>8 DEF Abort
<1>9. CASE UNCHANGED vars
  BY <1>9 DEF vars
<1> QED
  BY <1>1, <1>2, <1>3, <1>4, <1>5, <1>6, <1>7, <1>8, <1>9 DEF Next, Scripts

LEMMA KnowledgeAlways == Spec => []KnowledgeInv
<1>1. Init => KnowledgeInv
  <2>1. Init => ReadInv
    BY DEF Init, ReadInv, Reading, StrictReadyIsQuoted, ReadyWasPublished, Processes
  <2>2. Init => ApprovedInv
    <3> SUFFICES ASSUME Init PROVE ApprovedInv
      OBVIOUS
    <3>1. catalog.review.status = "pending"
      BY DEF Init
    <3> QED
      BY <3>1 DEF Init, ApprovedInv, Reading, ReadyWasApproved, Processes, Certified, EvidenceVerified
  <2> QED
    BY <2>1, <2>2, ScriptInit, ManifestInit DEF KnowledgeInv, Init
<1>2. KnowledgeInv /\ [Next]_vars => KnowledgeInv'
  BY ScriptStep, ManifestStep, ReadStep, ApprovedStep, HandsStep DEF KnowledgeInv
<1> QED
  BY <1>1, <1>2, PTL DEF Spec

\* Files, drafts and what the validation read have their types.
THEOREM KnowledgeTypes == Spec => []TypeOK
<1>1. KnowledgeInv => TypeOK
  BY DEF KnowledgeInv, ScriptInv
<1> QED
  BY <1>1, KnowledgeAlways, PTL

\* Every quote in the catalog is where its span says, in the document whose hash
\* is recorded with it, in every interleaving of the scripts with staging,
\* publishing, hand edits and death.
THEOREM EvidenceAlwaysGenuine == Spec => []EvidenceIsGenuine
<1>1. KnowledgeInv => EvidenceIsGenuine
  BY DEF KnowledgeInv, ScriptInv, EvidenceIsGenuine, Genuine
<1> QED
  BY <1>1, KnowledgeAlways, PTL

\* A strict READY holds of the files as long as none is written: the production
\* documents bear out every quote, and all of the evidence is approved.
THEOREM StrictReadyHolds == Spec => []StrictReadyIsQuoted
<1>1. KnowledgeInv => StrictReadyIsQuoted
  BY DEF KnowledgeInv, ReadInv
<1> QED
  BY <1>1, KnowledgeAlways, PTL

\* READY is never said of a bundle that was half one publish, half another.
THEOREM ReadyIsWhole == Spec => []ReadyWasPublished
<1>1. KnowledgeInv => ReadyWasPublished
  BY DEF KnowledgeInv, ReadInv
<1> QED
  BY <1>1, KnowledgeAlways, PTL

\* A strict READY, or exit with 0, is of evidence that was approved and signed as it
\* stands and of the documents that were read: for any number of scripts, hand edits
\* and publishes during the validation.
THEOREM ReadyIsReviewed == Spec => []ReadyWasApproved
<1>1. KnowledgeInv => ReadyWasApproved
  BY DEF KnowledgeInv, ApprovedInv
<1> QED
  BY <1>1, KnowledgeAlways, PTL

\* Only a hand edit makes a catalog approved that was not.
THEOREM ScriptsDoNotCertify == Spec => ScriptsNeverCertify
<1>1. KnowledgeInv /\ [Next]_vars => [Certified(catalog') /\ ~Certified(catalog) => hands' # hands]_vars
  <2> SUFFICES ASSUME KnowledgeInv, Next, Certified(catalog'), ~Certified(catalog), hands' = hands PROVE FALSE
    OBVIOUS
  <2>0. catalog' # catalog /\ catalog' # Missing
    BY DEF Certified
  <2>1. ASSUME NEW s \in Scripts, WriteCatalog(s) PROVE FALSE
    <3>1. catalog'.review.status = "pending"
      BY <2>1 DEF KnowledgeInv, ScriptInv, WriteCatalog, Step, Proposal
    <3> QED
      BY <3>1 DEF Certified, EvidenceVerified
  <2>2. ASSUME NEW s \in Scripts, Truncate(s) PROVE FALSE
    BY <2>0, <2>2 DEF Truncate
  <2>3. ASSUME NEW F \in Reviewed, NEW b \in BOOLEAN, Review(F, b) PROVE FALSE
    BY <2>3, KnowledgeConstants DEF Review, KnowledgeInv, ScriptInv, TypeOK
  <2>4. ~PassBRead /\ ~B11Texts /\ ~B11Read
    BY <2>0 DEF PassBRead, B11Texts, B11Read
  <2>5. \A d \in Docs, e \in Editions \cup {Missing} : ~Stage(d, e)
    BY <2>0 DEF Stage
  <2>6. ~PublishBegin /\ ~PublishSwap /\ ~PublishManifest /\ ~PublishEnd /\ ~PublishRollback
    BY <2>0 DEF PublishBegin, PublishSwap, PublishManifest, PublishEnd, PublishRollback
  <2>7. /\ ~ValidatePending /\ ~ValidateRows /\ ~ValidateList /\ ~ValidateDoc /\ ~ValidateVerdict
        /\ ~ValidateExit
        /\ \A s \in BOOLEAN : ~ValidateBegin(s)
    BY <2>0 DEF ValidateBegin, ValidatePending, ValidateRows, ValidateList, ValidateDoc, ValidateVerdict,
       ValidateExit
  <2>8. \A p \in Processes : ~Abort(p)
    BY <2>0 DEF Abort
  <2> QED
    BY <2>1, <2>2, <2>3, <2>4, <2>5, <2>6, <2>7, <2>8 DEF Next, Scripts
<1> QED
  BY <1>1, KnowledgeAlways, PTL DEF Spec, ScriptsNeverCertify
=============================================================================
