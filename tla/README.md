# Verification of PoC_GSM

PoC_GSM is a proof of concept of a Vietnamese customer-support assistant (Green
SM). Its Python code has two halves that meet only in files:

- **the runtime** (`src/poc_runtime`): a ticket store, a policy, a language-model
  client under a cost ledger, an orchestrator that handles one query after
  another, and a runner that plays whole scenario files;
- **the corpus pipeline** (`src/poc_corpus`): fetch or load pages, build a bundle
  of 18 snapshots and a manifest in a staging directory, have it approved by the
  Research Lead, publish it to production.

This directory holds TLA+ models of both, the configurations that check them with
TLC, and proofs checked by TLAPS. Paths below are relative to the repository.

## 1. Inventory

| Part | State | Operations | Modelled in |
| --- | --- | --- | --- |
| Ticket store `ticket_service.py`, `db.py`, `clock.py` | tables `tickets`, `ticket_events`; the clock | seed, create, update, transition, close, get, lookup, list | `TicketService` |
| State machine, vocabulary `state_machine.py`, `models.py`, `config/policy.yaml` | none | `can_transition` | `TicketLifecycle` |
| Policy `policy.py` | none | `validate` | `Policy` |
| Orchestrator `orchestrator.py`, `llm/types.py` | locals of the query, conversation window | `handle_query` | `Orchestrator`, `SupportDesk` |
| Cost guard `cost_guard.py` | spent, reserved, stack of reservations | authorize, commit, release | `CostGuard` |
| Gemini client `llm/gemini.py`, `llm/errors.py` | locals of the retry loop | `propose_action` | `GeminiClient` |
| Fake LLM `llm/fake.py` | fixtures | `propose_action` | by its possible answers, in `Orchestrator` |
| Runner `runner.py`, `scripts/run_b0.py` | run directory, traces, stores, ledger, results | `run_b0` | `Runner` (partly) |
| Publish transaction `persist.py` | target, `.new`, `.old`, backup, manifests | `publish_staged_transaction` | `PublishTransaction`, `AtomicPublish` |
| Stage, approve, publish commands `pipeline.py`, `provenance.py`, scripts | staging directory, provenance, production | stage, approve, rebaseline, publish | `BundleLifecycle` (partly) |
| Corpus files `bundle.py`, `paths.py`, `checksum.py`, `models.py` | none | validate, remove trees | inside `PublishTransaction`, `BundleLifecycle`, `Knowledge` (partly) |
| Paid-run gates `gates.py`, `config/gemini.yaml` | the configuration file | `validate_gemini_invocation_gates` | `Runner` |
| Fetcher and raw cache `fetch.py` | locals of the call, two cache files per URL | `fetch_url`, cache load and save | `Fetch` |
| Materializer, selectors, normalizer `materialize.py`, `selectors.py`, `normalize.py` | none | page to unit | `Selectors`, `StagePages` (partly) |
| Fact catalog and knowledge validation `fact_catalog.py`, `validate_knowledge.py` | `fact_catalog.yaml`, what a validation has read | detect phase, check evidence, READY or not | `Knowledge` (partly) |
| Catalog generation scripts | `fact_catalog.yaml` | Pass A.1, B.1 and B.1.1 | `Knowledge` (partly) |
| Contract validation `poc_contracts` | none | compares configuration and scenario files with constants | no |
| Prompt `llm/prompt.py` | none | text | no |

**How the parts interact.** The runner opens one store per scenario, creates one
orchestrator for it, and shares one cost guard among all. The orchestrator asks
the LLM client for a proposal, resolves symbolic ticket references against the
store, looks the ticket up, asks the policy, and only on ALLOW calls the store;
every path ends in `_finalize`, which hashes the store into a trace. The client
authorizes each attempt with the ledger and settles it afterwards. In the corpus
half the commands share a staging directory that nothing locks; the approval and
the publish find what to trust in `bundle_provenance.json`. A live stage fetches
each URL of the manifest once and cuts the rows' units out of the pages. The
catalog scripts quote staging (or production), the Research Lead approves the
quotes, and the knowledge validation reads catalog, manifest and production
snapshots, in that order, to call the knowledge READY.

**What is hard.** There are no threads; the hard part is failure and order. An
exception may leave a committed write, an open reservation or half a directory
behind; handlers run in states nobody listed; a process may be killed between any
two file operations; separate commands may interleave on one directory; checks
and uses of the same files are apart in time. `PROJECT.json` lists these hazards
line by line.

**What makes each part correct.** The store: rows and events tell the same story.
The orchestrator: the traces account for every change of the store, and the policy
and the store agree. The client: no attempt unpaid for, nothing beyond the cap.
The publish: all or nothing. The commands: only an approved live bundle reaches
production. The runner: the files of a run id describe one complete run or are
recognisably unfinished, and what it pays for passed the gates. The fetcher: a
result is one answer and the redirects that led to it. The selectors: a unit is
its FAQ or section and nothing of the neighbours. The catalog: evidence is of the
document whose hash it carries, no script approves it, and READY is true of the
files.

## 2. Modules

Runtime:

- `TicketLifecycle` - statuses, action types, the allowed transitions.
- `TicketService` - a call is one action: its guarding reads, its transaction (all
  or nothing, by `with self.conn`), its read-back. `reply` is what it returned or
  raised. `WriteFaults` and `ReadFaults` allow the database to fail; a failing
  read-back surfaces after the write is durable. Text columns and `updated_at` are
  abstracted: every write increments `version`.
- `Policy` - `PolicyEngine.validate` as a function, clause by clause.
- `Orchestrator` - extends both: `phase` is the position in `handle_query`, one
  action per stretch between two points where an exception matters; `traces` is
  what was returned, with the store (for its hash) as `_finalize` saw it.
- `SupportDesk` - the abstract specification: a query is one atomic step that makes
  at most one legal write to a ticket of the trusted user. `Orchestrator!Desk`
  is the refinement mapping.
- `CostGuard` - the ledger's variables and operations. Amounts are whole units.
- `GeminiClient` - the retry loop over `CostGuard`. The provider is external: it
  answers with a usage or its SDK raises, with a message whose words
  `_map_sdk_exception` searches.
- `Runner` - the gates and the loops of `run_b0`. `gemini.yaml` is read at the gates
  and again for the client, and `Configure` edits it at any time. A query is one
  step; `Orchestrator` and `GeminiClient` have its detail.

Corpus:

- `PublishTransaction` - one action per file-system call, each of which may raise
  (where `FaultPoints` says so) and leave part of its work, the rollback included;
  the process may die at any step; staging may change under it.
- `AtomicPublish` - the abstract specification: publish replaces production in one
  step or leaves it. `PublishTransaction!Atomic` is the refinement mapping.
- `BundleLifecycle` - stage, approve, rebaseline and publish as processes of a few
  steps over one staging directory, with hand edits. Its publish copies in one
  step; `PublishTransaction` has the detail.
- `Fetch` - `fetch_url` as a call of several steps: each request is answered, redirected,
  refused or raises, at the choice of the site; the cache is two files, and each of
  their writes may be cut off. Allowed URLs are a set, an answer is a body or none.
- `Selectors` - no state: a page is a sequence of blocks (tag, `data-faq`, the number
  its text begins with, the `data-section` around it), a unit a set of positions.
  `Extract` is the code, strategy by strategy; `Unit` is an independent definition of
  what a reader would cut out of a `WellFormed` page.
- `StagePages` - composes the two as `stage_snapshots` does in live mode: all fetches,
  then all rows. Stages write the raw cache and do not read it; `Replay` is a caller of
  `fetch_url` that prefers the cache, external because `src` has none.
- `Knowledge` - two catalog scripts, the Research Lead's edits, staging, publish and
  the validation as processes of several steps, each of which may die. An edition of
  a document stands for its text and its hash, `Place` says where a quote is in it.
  `write_text` empties the file before it fills it; an empty catalog is `Missing`.

`MC*` modules give TLC its constants. `*Proofs` modules hold the theorems. The
operators with a `Mutant:` comment are faulty variants of a definition, used only
to confirm that the properties notice the fault; no specification refers to them.

## 3. Runs

| Run | Configuration | Distinct states | Shows |
| --- | --- | --- | --- |
| `ticket_service` | `MCTicketService.cfg` | 227 thousand | the event table explains the ticket table; CLOSED rows never change |
| `orchestrator` | `MCOrchestrator.cfg` | 854 thousand | traces, policy and store agree; queries end; refinement of `SupportDesk` |
| `gemini` | `MCGeminiClient.cfg` | 120 thousand | every attempt settled, cap kept, bills covered, retries only after what reads as transient |
| `runner` | `MCRunner.cfg` | 930 thousand | paid runs are gated; traces, ledger, stores and summary belong to one run and one plan |
| `publish` | `MCPublish.cfg` | 115 thousand | all or nothing; the old snapshots survive; refinement of `AtomicPublish` |
| `bundle_lifecycle` | `MCBundleLifecycle.cfg` | 1.1 million | only approved live bundles are published; an approval stands |
| `stage_pages` | `MCStagePages.cfg` | 1.2 million | results and cache hits are of one answer; units are exact; fetches and stages end |
| `knowledge` | `MCKnowledge.cfg` | 3.5 million | evidence is genuine, READY is of a published bundle and of approved evidence, scripts do not certify |

Four more runs each show one disagreement between the code and what its
documents say (section 6).

**Bounds, and why they are enough.**

- `ticket_service`: two users, two ids, four events. A ticket needs create, two
  transitions and a close, or a seed and a refused write; two tickets of two users
  give every ownership case. The users are interchangeable, so symmetry is sound.
- `orchestrator`: three queries and a window of two turns: a query meets the effects of
  two others, the window holds two turns in their order, and the third pushes the first
  out. Fixtures cover no ticket, an open one, a stranger's, two that tie or not, and a
  repeated id; a ticket is closed by one query and written again by the next. Proposals
  cover every action that reaches the store, each kind of reference, and denials for the
  claimed user, a promise, the lookup, a closed ticket and the state machine. A new ticket takes the id 1 or 2,
  so a collision with a fixture occurs.
- `gemini`: three queries of up to three attempts against a cap of 7, with
  estimates 2 and 3 and usages 0, 1, 2 and 4: the cap is hit exactly and just missed,
  usage falls below and above the estimate, and reservations leak. Messages name their
  own cause, or beside it the request ("rate" is in GenerateContentRequest) or the model.
- `stage_pages`: four rows of one page (a FAQ, a range that overlaps it, a section, the
  page): the first stage may get any of some 35 pages, with the FAQs as headings of two
  kinds, annotated headings, articles, containers or lines, in or out of order, and with a text or an h3
  between them that looks like a section; two payloads, one of two sections. Two
  attempts of one redirect each let a failed attempt leave hops behind. The second
  stage and the replay meet a cache of another page. Three URLs, one not allowed.
- `knowledge`: two documents, two editions, two corpus facts, one other. From one edition
  to the other one quote moves, one stays in place though the text changes, and
  the requoted one is in the second edition only. Four processes may start, one file
  be staged and one hand edit be made: pass B.1, an approval, a publish or a script
  and a validation, in every order, is the longest story the properties need.
- `publish`: two bundles; there are never more than an old and a new one.
- `bundle_lifecycle`: two documents stand for the 18 (a bundle can then be half of
  each, and be hashed in two reads), two live editions and one fixture edition, two
  stage commands and one hand edit. The other commands are unbounded. Documents are
  symmetric.
- `runner`: three scenario files of up to three queries, with an empty scenario and
  a repeated scenario id; fourteen invocations, each of which fails another gate or
  none, with and without selection, limit and budget; two contents of `gemini.yaml`,
  edited at any step; costs 1 and 2 under caps of 2 to 4; two processes with the
  same run id.

Deadlock is checked in `ticket_service` and `publish`, which always have a next call to
make, and off elsewhere: a scenario, a run and the bounded stage commands end.

**Fairness.** `Orchestrator` and `GeminiClient` assume weak fairness of the steps of
the running process: it is one thread, the provider call has a timeout and SQLite
answers or raises. A killed process is a state (`dead`) from which nothing is
required. `PublishTransaction` assumes weak fairness of the steps of a started
publish, which waits for nothing. `StagePages` assumes weak fairness of its next step: a request
is answered, fails or times out, and every delay is clamped or raises. Nothing is assumed of users, of the clock or of the
commands that begin a publish.

## 4. What the properties say

- **Ticket store.** `LogExplainsTable`: replaying the events of a ticket gives its row,
  by legal transitions, whatever failed in between. `VersionCountsEvents`: for a
  created ticket the version is the number of its events. `ClosedIsFinal`,
  `RowsEvolveLegally`: action properties over every call, with or without the policy.
- **Orchestrator.** `TracesAccountUpToReadBack`: from the traces alone one can tell
  which query changed which ticket; the exception is an allowed action whose
  read-back failed. `AllowedIsExecutable`: what the policy allows the service does not
  refuse by a rule of its own, though it validated an earlier look at the ticket.
  `OneTracePerQuery`, `WindowIsRecentTurns`, `QueriesAnswered`; `DeskSpec`, the refinement.
- **Client and ledger.** `SpentWithinCap`, `ReservationsSettled`. `UsageCovered`: what the
  provider billed, for timed-out, rejected and escaped attempts too, is spent or reserved
  but for two amounts the property names: an attempt's excess over its estimate where no
  response was accepted, and the charge that commit refuses at the cap. That the handler
  may then settle another attempt's reservation loses nothing more.
  `RetriesReadTransient`: a query sends again only after a message that reads as transient
  and as no permanent error. What the guide promises is stronger, `RetriesOnlyTransient`,
  and false (section 6). `QueriesEnd`.
- **Publish.** `AllOrNothing`, `PreviousSurvives` (one failed publish never loses the
  snapshots, even where its rollback goes wrong), `AtomicSpec`, `PublishEnds`.
- **Commands.** `OnlyApprovedIsPublished`. `FixturesStayOut`, until an approval is `late`.
  `ApprovalStands`: a directory that nothing touched since the approval began to hash it
  (`certified`) is one that publish accepts.
- **Runner.** `TracesFollowThePlan` compares the trace file with a declarative
  reading of the scenario file, the selection and the limit; `OneLedgerPerRun`;
  `StoresAreIsolated`; `SummaryIsFinal`. `PaidRunsAreGated`: whatever is edited between the
  gates and the client, a paid run had its confirmations, asks allowlisted queries of
  the development split only, and keeps to the budget its gates reported.
- **Pages.** `FetchIsFaithful`: only allowed URLs are asked, within both limits, and the
  hops of a result are those of the attempt that succeeded. `CacheHitIsGenuine`: a hit
  is one answer of the site, and after a cut-off save each half still is. `NoForeignFaq`:
  on any flat page a FAQ unit has its range and nothing after it. `UnitsAreExact`: on a
  well-formed page the code's strategies agree with `Unit`. `FetchEnds`.
- **Knowledge.** `EvidenceIsGenuine`: whichever script wrote it, a quote stands at its span
  in the document whose hash is beside it. `StrictReadyIsQuoted`: a strict READY is true
  of the files until one is written. `ReadyWasPublished`: READY is of one bundle, though
  its files are read one by one during a publish. `ReadyWasApproved`: what a strict
  validation says READY of, or passes, the Research Lead approved and signed with evidence
  of the very documents that were read, whatever was written meanwhile, scripts that
  take the approval back included. `ScriptsNeverCertify`: only a hand edit turns an unapproved catalog
  into an approved one.

## 5. Proofs

TLAPS checks these for every value of the constants that satisfies the `ASSUME` of
the module.

`TicketServiceProofs` (`ServiceSpec`, any users, ids, clock, faults):

- `ServiceTypes`, `ClosedStaysClosed`, `RowsAlwaysEvolveLegally`,
  `HistoryExplainsTable`. The argument: every step has one of three shapes (nothing
  written, one row and one event written together, the clock), proved once per call;
  the invariants are preserved per shape. `LogExplainsTable` is inductive together
  with the type invariant, because the new event starts from the status of the row,
  which is where the last event of that ticket ended.
- `VersionsCountEvents`: the same shapes, with the lemma that one more event of a ticket
  adds one to the cardinality of its events.

`OrchestratorProofs` (any users, fixtures, proposals, window length, clock, faults):

- `OrchestratorTypes`. `$LATEST_OWNED_TICKET` names a ticket because a finite table that
  is not empty has a row listed last (`SomeLast`, by well-founded induction on subsets).
- `TracesAccount`, `AllowedCanBeExecuted`, `TracesCountQueries`: `StoreInv` relates the store
  to `Base`, the store the last trace ended with: equal to it until the call is made, and
  afterwards equal or one legal write away (`Outcome`). `AllowMeansPermitted` carries
  what the policy saw to the call: nothing else writes in between.
- `WindowIsRecent`: `WindowInv` is the property at every phase, with the turns' queries
  among those answered; a remembered turn drops at most the oldest (`Forgets`). It leaves out a
  run that dies, which may have remembered a turn whose trace it could not return.
- `ImplementsDesk`, the refinement of `SupportDesk`, from the same invariant: a step shows
  when the trace is returned, and every other step of a query stutters.

`GeminiClientProofs` (no assumption beyond the constants'):

- `LedgerTypes`: `LoopInv` adds to the types that an attempt is left in the loop and
  that only failures carry a category.
- `CapHolds`: the charge at commit is tested against the cap, so `spent` cannot pass it
  whatever was reserved or leaked.
- `AttemptsAreSettled`: `SettledInv` relates the height of the stack to the phase and
  to the exceptions that escaped. It is needed because a failed commit pops the
  reservation and the handler settles a second time.
- `BillsAreCovered`: `CoveredInv` says that the open reservations add up to the reserved
  amount (by the partial sums of the stack, as a function, since a recursive sum is out of
  reach), and that the ledger beside the attempt's own reservation covers all that was
  billed before it. The sum is needed where the handler settles a second time: the
  reservation it takes may be another attempt's, but it is part of what is reserved, so
  that it fits the cap and moves to `spent` unchanged.
- `RetriesAreTransient`, for any messages. The tests of `_map_sdk_exception` come in an
  order that lets a permanent word win (`RetryableMessages`), and only the SDK's last
  exception makes the loop go round (`RetryInv`).

`PublishTransactionProofs`:

- `PublishTypes`, without assumptions.
- `PublishIsAllOrNothing`, `PublishIsAtomic`, under `SafelyFaulty`: exceptions occur
  anywhere but in the steps that make the backups and in the rename that puts the new
  tree in place; crashes occur everywhere. `RollbackInv` says, for each step, which of
  target, `.old` and backup holds the old snapshots in full and that the backups are
  whole from the moment anything is replaced; that is what the handlers rely on, and
  neither property is inductive without it. Without `SafelyFaulty` they are false
  (sections 6 and 7).
- `PreviousIsNeverLost` needs less: exceptions anywhere but while the backup of the snapshots
  is made (`LateFaults`), so also in the rename and in the copy of the manifest, which the
  run leaves out. Its
  `BackupInv` is that production is what the publish found until the backup is, and the
  backup from then on; no step, the rollback's included, writes the backup again.
- `PublishGoesForward`, without assumptions (see the end of this section).

`BundleLifecycleProofs` (any documents, editions, commands, hand edits):

- `LifecycleTypes`: `WorkInv` adds to the types what each command has computed by the
  place it is at: a digest it goes on with is of every file (`HashStepEffect`).
- `PublishedIsApproved`, if a publish runs undisturbed (`"publish" \in Alone`; without
  it the property is false, section 6). `ApprovedInv` says that every provenance, on
  disk or already read by a command, names a bundle that was approved, and that a
  publish about to copy has the bundle it verified before it.
- `ApprovalsStand`, without assumptions. `CertifiedInv`: from the first file it hashes on,
  what an approval has hashed agrees with what is staged (`Agrees`) unless something
  touched the directory.
- `FixturesNeverPublished`, if publish and rebaseline run undisturbed. `LiveInv`: until
  an approval is late, a live provenance never lies over a fixture's file, because a
  stage empties the directory, provenance included, before it writes.

`KnowledgeProofs` (any documents, editions, facts and places; no assumption beyond the
constants'):

- `KnowledgeTypes`. `EvidenceAlwaysGenuine`: the inductive invariant extends the
  property to the drafts the scripts hold, because a draft is written over whatever the
  catalog has become meanwhile. `StrictReadyHolds` and `ReadyIsWhole`: the invariant says of
  each place of the validation which of the files it has read still are as it read
  them (while `fresh`), that the bundle read so far agrees with the manifest read, and
  that a manifest without pending rows is one that was published, whether or not a
  rollback has put it back.
- `ReadyIsReviewed`: `ApprovedInv` says that every certified catalog, on disk or already
  read by the validation, is one that the Research Lead approved: hand edits are recorded,
  and what the scripts draft is not certified. What was approved is then compared
  with the documents read, not with those on disk.
- `ScriptsDoNotCertify`: what the scripts draft is a candidate, so that writing it never
  makes a catalog approved; the invariant says so of the drafts.

`StagePagesProofs` (any URLs, bodies, cuts, limits, rows, site):

- `FetchTypes`, `AnswersAreFaithful`, `CacheHitsAreGenuine`. `FetchInv` ties the trail of an
  attempt to its hops and counts the requests of the attempts before it; `CacheInv` says
  of each cache file whose answer it is or what is left of one, and, until a save is
  cut off, that the two are of the same answer. `CallStep` abstracts the composition:
  every step of `StagePages` is one of `Fetch`'s, or leaves the call and the cache alone.
- `FaqUnitsAreOwn` and `UnitsAreWhatAReaderCutsOut`, on pages of any length. `PagesInv` adds to
  the properties that every page met is a sequence of blocks and that what was extracted is
  `Extract` of it, and `ExtractIsExact` is then about one page and one selector: strategy by
  strategy, the code's scans (the first heading, the next stop) and the reader's `Unit`
  pick the same positions. The scans end at least elements, and the groups of
  `materialize_helps_faq` are flattened one by one; both are inductions, done by least
  counterexample (`LeastNatural`, from the library's well-foundedness of `<`), because the
  library's induction rules take an operator. `HelpsPageIsWellFormed` makes the second
  theorem apply to every page laid out from a payload.

`RunnerProofs` (any scenario files, arguments, contents of `gemini.yaml`, costs, runs):

- `RunnerTypes`: `LocalInv` says of each run by itself what bounds its counters; a step of
  one run is none of another (`Bystanders`).
- `PaidRunsGated`: the gates' conditions are remembered from the moment a run is admitted
  (`Confirmed`), and `StoreInv` says that whatever is in a store was written by an
  admitted run for a query it may serve.
- `StoresIsolated`, also for runs that overlap: a store is opened by one scenario of one
  run, which owns it (`Owned`) until its result is written; no two runs are in one
  store at once, because each found it missing.
- `SummariesAreFinal` and `OneLedger`, under `~Overlap`: at most one run is between the look at
  the directory and its summary (`BusyInv`), and its buffer after the trace file is a log
  of rising cost that ends with the ledger's (`LedgerInv`). With `Overlap` the first is
  false, as `runner_started_twice` shows.
- `TracesFollow`, under `~Overlap` too, for scenario files of any length. `PlanInv` says that the
  file and the buffer together are what the run was asked before its position
  (`Before`), that their number is its `query_count`, and that no store holds a query
  without a trace. At the limit the position runs ahead of the traces, so that the
  invariant then only keeps them a beginning of the plan of the right length
  (`AskedIsCut`). `Positions` says how the plan grows from turn to turn and from scenario
  to scenario; like the flattening itself it is an induction by least counterexample.

**Model-checked only.** Liveness: `QueriesAnswered`, `QueriesEnd`, `PublishEnds`, `FetchEnds`; TLAPS
reasons neither about fairness nor about `ENABLED`. Of the last three (of
`FetchEnds`, for the calls) the other half is proved: `QueriesGoForward`, `PublishGoesForward` and `CallsGoForward` give a measure that every step
of the query, the publish or the call lowers (four steps per attempt left; the steps of
the code in their order; phase, attempt and hops), so that none can run for ever, for
any limits. What TLC adds is that none gets stuck. Every invariant, action property and
refinement that a run checks has a theorem.

## 6. Disagreements found

| Run | The code | The documents |
| --- | --- | --- |
| `gemini_retries_permanent` | any message with "rate" in it is a rate limit: a permanent 400 that names GenerateContentRequest is sent again (`llm/gemini.py:144`) | `docs/HUONG_DAN_TOAN_DIEN.md:602` |
| `publish_backup_fails` | an error while a backup is made, or in the second rename, makes the handler delete production or leaves it without snapshots | `persist.py:157-159`, `:235` |
| `bundle_restaged_during_publish` | the files are read again after their digest was checked | `DECISION_LOG.md:29` |
| `runner_started_twice` | two runs of one id that start together both find the directory fresh; the second truncates the first one's traces | `runner.py:96`, `scripts/run_b0.py:22` |

Further differences the models show without a run of their own:

- A committed write whose read-back fails is traced as not executed, while the guide
  (`docs/HUONG_DAN_TOAN_DIEN.md:145`) says that the trace tells whether the store was
  written. `TracesAccountUpToReadBack` names the exception.
- A charge that commit refuses at the cap is in no total, because the reservation was
  released before (`cost_guard.py:112-119`), and the run goes on, while
  `config/experiment.yaml:32` says `stop_before_exceeding_cap`. `UsageCovered` names it `lost`.
- `validate_knowledge` prints the readiness before it compares `scenarios_eval.yaml` with what
  it was (`validate_knowledge.py:193-217`): if the file is edited meanwhile, a command that
  said READY exits with 1. `ValidateExit` has the case.
- Under the fixed clock of a scenario all tickets created in it tie, and
  `$LATEST_OWNED_TICKET` picks one by its id; the guide (line 577) says that nothing is
  picked when it is unclear which. `Orchestrator` has both cases in its fixtures.
- `--preflight` is looked at by the gates of the gemini provider only; a fake run with
  the flag runs all its scenarios, and the script then asserts that what it got is a
  gate report (`scripts/run_b0.py:72`). `Runner` models the run.
- `validate_catalog_structure` knows an error for a catalog of no phase, but
  `validate_knowledge` passes it the phase instead of `production`, so that the error is
  never raised (`validate_knowledge.py:77`). Without `--strict` such a catalog passes, NOT_READY.
- READY without `--strict` does not look for the quotes in the texts;
  `StrictReadyIsQuoted` is about `--strict` for that reason.

## 7. Left out, on purpose

Within the modelled parts:

- `publish`: exceptions of the second rename (`move_new`), of the backup's making and of
  the copy of the manifest backup. The handler does not cover them and
  `AllOrNothing` fails, as `publish_backup_fails` shows. The snapshots survive the first and
  the last of them (`PreviousIsNeverLost`); an exception while their own backup is made
  can lose them. A second publish after a crash first deletes the copies that survived
  it; no property is stated of it.
- `bundle_lifecycle`: publish and rebaseline run undisturbed (`Alone`), stage and approve
  overlap freely. An approval may be written over a restaged directory (`late`);
  `FixturesStayOut` is stated without it, `OnlyApprovedIsPublished` holds with it.
- `publish` always finds a production manifest to back up (`persist.py:189`), as
  `stage_snapshots` read its rows from it before there was a bundle and no command removes
  it. Were there none, a rollback would leave the new one.
- `gemini`: the refusal where no transport was configured (`CONFIG_ERROR`) sends nothing and
  is in `Ask`; the ledger adds integers, the code floats.
- `runner`: two processes between the look at the directory and its creation
  (`Overlap`; `runner_started_twice` shows what happens), and the counters of the summary
  other than queries, scenarios and cost. Without `--budget-usd` the second read of
  `gemini.yaml` alone decides the cap, and the planned cost is no bound.
- `stage_pages`: well-formedness excludes pages on which the unit is in fact not exact: an
  h3 or a paragraph that begins like a section ("2. ...") leaks into the FAQ before it or
  cuts it short. They are among the run's pages, and `NoForeignFaq` covers them. Pages are
  flat: a sibling with another FAQ inside it would be collected whole, a layout that neither
  the fixtures nor `materialize_helps_faq` has. The
  sleeps, the terms pages and the images of the regulations are left out.
- `knowledge`: scope `offline-fixture`, structured references and the ids of the development
  scenarios.
- One process per ticket store: SQLite's locking is not modelled, as each store is
  opened by one run only.

Not modelled: text (prompts, normalization, HTML tables, redaction), path confinement, and
the contract validation, which compares files with constants and keeps no state.

## 8. Plan

Order in which the rest is to be added:

1. A composition of `Orchestrator` and `GeminiClient` in place of the one-step query.
2. `BundleLifecycle` with the steps of `PublishTransaction` in place of its one-step copy, and
   a second publish after a crash.
