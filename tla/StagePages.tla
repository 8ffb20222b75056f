------------------------------ MODULE StagePages ------------------------------
(***************************************************************************)
(* The middle of stage_snapshots (pipeline.py), live mode: every URL of    *)
(* the manifest is fetched once, in the order of its first row; then each  *)
(* row's unit is cut out of the page of its URL.  An exception of either   *)
(* ends the stage.  Stages write the raw cache and never read it; what     *)
(* prefer_cache reads later is a call of its own, Replay.  (What a stage   *)
(* writes to the staging directory is BundleLifecycle's.)                  *)
(***************************************************************************)
EXTENDS Fetch, Selectors

CONSTANTS Rows,      \* of the manifest: [url, selector]
          MaxStages, \* bound: stages begun, before the one Replay
          Site(_)    \* their number -> bodies the site may answer with then

\* form "next": a Next.js payload with counts[s] FAQs in section s; "html": blocks as
\* they stand; "broken": a payload cut short
Body == [form : {"next", "html", "broken"}, counts : Seq(Nat), blocks : Seq(Block)]

ASSUME StageConstants ==
    /\ Rows \in Seq([url : Urls, selector : [kind : {"page"}]
                          \cup [kind : {"section"}, num : Nat]
                          \cup [kind : {"faq"}, from : Nat \X Nat, to : Nat \X Nat]])
    /\ Files \subseteq Body
    /\ MaxStages \in Nat
    /\ \A n \in 1 .. MaxStages + 1 : Site(n) \subseteq Bodies

VARIABLES stage,   \* stages, and replays, begun
          at,      \* "idle", "fetching", "extracting", "replaying", "staged" or "failed"
          fetched, \* url -> result, of this stage
          docs     \* rows extracted so far

stageVars == <<stage, at, fetched, docs>>
vars == <<fetchVars, stageVars>>

Pending == {i \in 1 .. Len(Rows) : Rows[i].url \notin DOMAIN fetched}

BeginStage ==
    /\ at \in {"idle", "staged", "failed"}
    /\ stage < MaxStages
    /\ stage' = stage + 1
    /\ at' = "fetching"
    /\ UNCHANGED <<fetchVars, fetched, docs>>

\* A caller of fetch_url that prefers the cache
Replay(u) ==
    /\ at \in {"idle", "staged", "failed"}
    /\ stage = MaxStages
    /\ stage' = stage + 1
    /\ at' = "replaying"
    /\ Call(u, TRUE)
    /\ UNCHANGED <<fetched, docs>>

FetchNext ==
    /\ at = "fetching"
    /\ phase = "idle"
    /\ \E i \in Pending : (\A j \in Pending : i <= j) /\ Call(Rows[i].url, FALSE)
    /\ UNCHANGED stageVars

Fetching == at \in {"fetching", "replaying"} /\ FetchStep(Site(stage)) /\ UNCHANGED stageVars

TakePage ==
    /\ at = "fetching"
    /\ phase = "done"
    /\ Return
    /\ fetched' = [u \in DOMAIN fetched \cup {url} |-> IF u = url THEN result ELSE fetched[u]]
    /\ UNCHANGED <<stage, at, docs>>

ReplayEnds ==
    /\ at = "replaying"
    /\ phase \in {"done", "failed"}
    /\ Return
    /\ at' = "idle"
    /\ UNCHANGED <<stage, fetched, docs>>

\* The locals of a stage end with it
Forget ==
    /\ fetched' = [u \in {} |-> Missing]
    /\ docs' = <<>>

\* The first failure ends the stage
FetchFails ==
    /\ at = "fetching"
    /\ phase = "failed"
    /\ Return
    /\ at' = "failed"
    /\ Forget
    /\ UNCHANGED stage

AllFetched ==
    /\ at = "fetching"
    /\ phase = "idle"
    /\ Pending = {}
    /\ at' = "extracting"
    /\ UNCHANGED <<fetchVars, stage, fetched, docs>>

\* materialize_html: a payload is laid out anew, other HTML is left as it is
MaterializeHtml(body) == IF body.form = "next" THEN HelpsPage(body.counts) ELSE body.blocks

ExtractRow ==
    LET row == Rows[Len(docs) + 1]
        body == fetched[row.url].body
    IN  /\ at = "extracting"
        /\ Len(docs) < Len(Rows)
        /\ \E page \in {MaterializeHtml(body)} : \E unit \in {Extract(page, row.selector)} :
            IF body.form # "broken" /\ unit.found
            THEN /\ docs' = Append(docs, [unit |-> unit.unit, page |-> page])
                 /\ UNCHANGED <<at, fetched>>
            ELSE at' = "failed" /\ Forget
        /\ UNCHANGED <<fetchVars, stage>>

StageEnds ==
    /\ at = "extracting"
    /\ Len(docs) = Len(Rows)
    /\ at' = "staged"
    /\ Forget
    /\ UNCHANGED <<fetchVars, stage>>

Init ==
    /\ FetchInit
    /\ stage = 0
    /\ at = "idle"
    /\ fetched = [u \in {} |-> Missing]
    /\ docs = <<>>

Next ==
    \/ BeginStage
    \/ \E u \in Urls : Replay(u)
    \/ FetchNext
    \/ Fetching
    \/ TakePage
    \/ ReplayEnds
    \/ FetchFails
    \/ AllFetched
    \/ ExtractRow
    \/ StageEnds

Spec == Init /\ [][Next]_vars

\* A live process goes on: a request ends by an answer, an error or its timeout,
\* and every delay is bounded (clamp_retry_after) or raises.
FairSpec == Spec /\ WF_vars(Next)

-----------------------------------------------------------------------------
(* Properties *)

\* The row extracted last: earlier ones were the last in an earlier state
Latest == Last(docs)
Selected == Rows[Len(docs)].selector

\* selectors.py:256, "Never falls back to full page on FAQ miss".  On any flat page,
\* a staged FAQ unit cut out at nodes has the FAQs of its range and no other, where a
\* data-faq counts before the text; one cut out by lines has the heading line of every
\* FAQ of its range and none after the range.
NoForeignFaq ==
    docs # <<>> /\ Selected.kind = "faq" =>
        LET page == Latest.page
            range == ExpectedKeys(Selected.from, Selected.to)
            nodes == {j \in Latest.unit : page[j].faq # <<>> \/ IsFaq(page[j])}
            keys == {IF page[i].faq # <<>> THEN page[i].faq ELSE page[i].says : i \in nodes}
            lines == {page[i].says : i \in {j \in Latest.unit : IsFaq(page[j])}}
        IN  IF DomFaq(page, Selected.from, Selected.to).found
            THEN keys = range
            ELSE range \subseteq lines /\ \A k \in lines : AtMost(k, Selected.to)

\* On a well-formed page, by whichever strategy it is cut out, the unit of a row is
\* what a reader would cut out: from its heading, or its range of headings, to the
\* next FAQ or section.  The pages materialize_helps_faq lays out are well-formed.
UnitsAreExact ==
    docs # <<>> =>
        /\ WellFormed(Latest.page) => Found(Latest.unit) = Unit(Latest.page, Selected)
        /\ fetched[Rows[Len(docs)].url].body.form = "next" => WellFormed(Latest.page)

\* Every call of fetch_url ends, and so does every stage.
FetchEnds ==
    /\ (phase \in {"cache", "ask"}) ~> (phase \in {"done", "failed"})
    /\ (at = "fetching") ~> (at \in {"staged", "failed"})
===============================================================================
