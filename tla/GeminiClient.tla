----------------------------- MODULE GeminiClient -----------------------------
(***************************************************************************)
(* GeminiLLMClient.propose_action (llm/gemini.py) against the ledger: the  *)
(* bounded retry loop of one query after another, each attempt authorized, *)
(* sent, and settled by its response or by the exception handlers.         *)
(*                                                                         *)
(*   idle --Ask--> next --Attempt--> sent --(response)--> parsed           *)
(*     parsed --CommitActual--> idle, or failed when it overcharges        *)
(*     sent --(error, bad text)--> failed --Handle--> next or idle         *)
(*                                                                         *)
(* The provider is external: it answers, with a usage, or its SDK raises,  *)
(* and it may have billed the attempt whose answer never arrived.          *)
(***************************************************************************)
EXTENDS CostGuard, FiniteSets

CONSTANTS Estimates,    \* estimated costs of an attempt (prompt length varies)
          Usages,       \* what the provider bills for an attempt
          Causes,       \* why the SDK raises: [kind, words of its message]
          MaxAttempts,  \* max_attempts
          MaxQueries    \* bound on the queries of a run

TransientCategories == {"RATE_LIMITED", "TIMEOUT", "SERVER_ERROR"}
PermanentCategories == {"AUTH_ERROR", "PERMISSION_ERROR", "MODEL_NOT_FOUND",
                        "SAFETY_BLOCKED", "UNKNOWN_PROVIDER_ERROR",
                        "SCHEMA_VALIDATION_ERROR", "BUDGET_REJECTED", "CONFIG_ERROR"}
Categories == TransientCategories \cup PermanentCategories

\* What really happened at the provider: docs/HUONG_DAN_TOAN_DIEN.md, section
\* 15, lets only the first three be retried
TransientKinds == {"timeout", "too many requests", "server error"}
Kinds == TransientKinds \cup {"unauthorized", "forbidden", "no model", "safety",
                              "bad request"}

ASSUME ClientConstants ==
    /\ Estimates \subseteq Nat
    /\ Usages \subseteq Nat
    /\ Causes \subseteq [kind : Kinds, words : SUBSET STRING]
    /\ MaxAttempts \in Nat \ {0}
    /\ MaxQueries \in Nat

NoCause == [kind |-> "none", words |-> {}]

VARIABLES phase,
          queries,   \* queries begun
          attempts,  \* of the current query
          estimate,  \* of the current attempt
          error,     \* category of the exception being handled, or "none"
          answer,    \* how the last query ended: a category, "ok", "raised"
          transport, \* whether the constructor was given or built one
          usage,     \* (history) what the provider has billed so far
          lost,      \* (history) the part of it that no settlement charges
          escaped,   \* (history) exceptions that no handler caught
          sends,     \* (history) requests sent
          cause      \* (history) SDK exception of the query's last attempt, if one

billed == <<usage, lost>>
clientVars == <<phase, queries, attempts, estimate, error, answer, transport, billed, escaped,
                sends, cause>>
vars == <<ledger, clientVars>>

\* _map_sdk_exception searches the lower-cased message, in this order
Mentions(words, set) == words \cap set # {}

MapSdkException(words) ==
    IF Mentions(words, {"401", "unauthor", "api key"}) THEN "AUTH_ERROR"
    ELSE IF Mentions(words, {"403", "permission"}) THEN "PERMISSION_ERROR"
    ELSE IF Mentions(words, {"404", "not found"}) \/ {"model", "not"} \subseteq words
         THEN "MODEL_NOT_FOUND"
    ELSE IF Mentions(words, {"429", "rate"}) THEN "RATE_LIMITED"
    ELSE IF Mentions(words, {"timeout", "timed out"}) THEN "TIMEOUT"
    ELSE IF Mentions(words, {"500", "502", "503", "504"}) THEN "SERVER_ERROR"
    ELSE IF Mentions(words, {"safety", "blocked"}) THEN "SAFETY_BLOCKED"
    ELSE "UNKNOWN_PROVIDER_ERROR"

-----------------------------------------------------------------------------

End(outcome) == phase' = "idle" /\ answer' = outcome /\ error' = "none"

\* propose_action refuses at once where the gate left no transport
Ask ==
    /\ phase = "idle"
    /\ queries < MaxQueries
    /\ queries' = queries + 1
    /\ attempts' = 0
    /\ cause' = NoCause
    /\ IF transport
       THEN phase' = "next" /\ UNCHANGED <<error, answer>>
       ELSE End("CONFIG_ERROR")
    /\ UNCHANGED <<ledger, estimate, transport, billed, escaped, sends>>

\* Mutant: waits for the budget instead of raising
AttemptWaits(e) ==
    /\ phase = "next"
    /\ Authorize(e)
    /\ attempts' = attempts + 1
    /\ estimate' = e
    /\ phase' = "sent"
    /\ sends' = sends + 1
    /\ UNCHANGED <<queries, error, answer, transport, billed, escaped, cause>>

\* Authorization is outside the try block: its rejection leaves the loop
Attempt(e) ==
    /\ phase = "next"
    /\ attempts' = attempts + 1
    /\ estimate' = e
    /\ \/ /\ Authorize(e)
          /\ phase' = "sent"
          /\ sends' = sends + 1
          /\ UNCHANGED <<error, answer>>
       \/ /\ ~Fits(e)
          /\ End("BUDGET_REJECTED")
          /\ UNCHANGED <<ledger, sends>>
    /\ UNCHANGED <<queries, transport, billed, escaped, cause>>

Fail(category) == phase' = "failed" /\ error' = category

\* Billed u, of which the ledger will show at most the estimate
BillAtEstimate(u) == usage' = usage + u /\ lost' = lost + AtLeastZero(u - estimate)

SdkRaises(c, u) ==
    /\ phase = "sent"
    /\ Fail(MapSdkException(c.words))
    /\ cause' = c
    /\ BillAtEstimate(u)
    /\ UNCHANGED <<ledger, queries, attempts, estimate, answer, transport, escaped, sends>>

\* A response arrives; _parse_structured accepts its text or raises, before the
\* usage is read
Respond(u, wellFormed) ==
    /\ phase = "sent"
    /\ IF wellFormed
       THEN phase' = "parsed" /\ estimate' = u /\ usage' = usage + u /\ UNCHANGED <<lost, error>>
       ELSE Fail("SCHEMA_VALIDATION_ERROR") /\ BillAtEstimate(u) /\ UNCHANGED estimate
    /\ cause' = NoCause
    /\ UNCHANGED <<ledger, queries, attempts, answer, transport, escaped, sends>>

\* Raised after the response by code that maps no exception: neither handler
\* catches it and the reservation stays open
RaiseUnexpected(u) ==
    /\ phase = "sent"
    /\ End("raised")
    /\ escaped' = escaped + 1
    /\ BillAtEstimate(u)
    /\ UNCHANGED <<ledger, queries, attempts, estimate, transport, sends, cause>>

\* Settle with the actual usage (estimate holds actual_est here)
CommitActual ==
    /\ phase = "parsed"
    /\ Commit(estimate)
    /\ IF Overcharges(estimate)
       THEN Fail("BUDGET_REJECTED") /\ lost' = lost + estimate /\ UNCHANGED answer
       ELSE End("ok") /\ UNCHANGED lost
    /\ UNCHANGED <<queries, attempts, estimate, transport, usage, escaped, sends, cause>>

\* Mutants: retries what it does not know; one attempt too many
RetryableOrUnknown(category) == category \in TransientCategories \cup {"UNKNOWN_PROVIDER_ERROR"}
AttemptLeftOrEqual == attempts <= MaxAttempts

Retryable(category) == category \in TransientCategories
AttemptLeft == attempts < MaxAttempts

\* except ProviderError: settle, then raise or go round the loop
Handle ==
    /\ phase = "failed"
    /\ KeepCharge
    /\ IF Overcharges(Latest)
       THEN End("BUDGET_REJECTED")
       ELSE IF Retryable(error) /\ AttemptLeft
       THEN phase' = "next" /\ error' = "none" /\ UNCHANGED answer
       ELSE End(error)
    /\ UNCHANGED <<queries, attempts, estimate, transport, billed, escaped, sends, cause>>

Init ==
    /\ LedgerInit
    /\ phase = "idle"
    /\ queries = 0
    /\ attempts = 0
    /\ estimate = 0
    /\ error = "none"
    /\ answer = "ok"
    /\ transport \in BOOLEAN
    /\ usage = 0
    /\ lost = 0
    /\ escaped = 0
    /\ sends = 0
    /\ cause = NoCause

Next ==
    \/ Ask
    \/ \E e \in Estimates : Attempt(e)
    \/ \E c \in Causes, u \in Usages : SdkRaises(c, u)
    \/ \E u \in Usages, wellFormed \in BOOLEAN : Respond(u, wellFormed)
    \/ \E u \in Usages : RaiseUnexpected(u)
    \/ CommitActual
    \/ Handle

Spec == Init /\ [][Next]_vars

\* The loop runs on; a request ends because the transport has a timeout
FairSpec == Spec /\ WF_vars(Next)

-----------------------------------------------------------------------------
(* Properties *)

\* Types of the ledger and of the loop.
TypeOK ==
    /\ spent \in Nat
    /\ reserved \in Nat
    /\ open \in Seq(Nat)
    /\ authorized \in Nat
    /\ committed \in Nat
    /\ phase \in {"idle", "next", "sent", "parsed", "failed"}
    /\ queries \in 0 .. MaxQueries
    /\ attempts \in 0 .. MaxAttempts
    /\ estimate \in Nat
    /\ error \in Categories \cup {"none"}
    /\ answer \in Categories \cup {"ok", "raised"}
    /\ transport \in BOOLEAN
    /\ usage \in Nat
    /\ lost \in Nat
    /\ escaped \in Nat
    /\ sends \in Nat
    /\ cause \in Causes \cup {NoCause}

\* The run never records more than its hard cap, whatever the provider bills,
\* fails or leaks (config/experiment.yaml, stop_before_exceeding_cap).
SpentWithinCap == spent <= HardCap

InFlight == phase \in {"sent", "parsed", "failed"}

\* A request is on its way only with its own estimate reserved, under the cap,
\* and every authorized attempt is settled exactly once, retries included: what
\* stays open between queries was left by exceptions that no handler caught.
ReservationsSettled ==
    /\ phase = "sent" => Latest = estimate /\ cumulative <= HardCap
    /\ Len(open) <= escaped + (IF InFlight THEN 1 ELSE 0)
    /\ committed <= authorized

\* The ledger shows what the provider billed but for two losses: what an attempt
\* without an accepted response (rejected text, timeout, SDK error, escaped
\* exception) cost above its estimate, and the charge that commit refuses at the
\* cap after it has released the reservation.  No retry, leaked or misplaced
\* reservation, or second settlement by a handler loses anything more.
UsageCovered == phase # "parsed" => usage <= cumulative + lost

\* The messages the SDK's exceptions carry when a retry may help, and when not
SaysTransient(words) == Mentions(words, {"429", "rate", "timeout", "timed out",
                                         "500", "502", "503", "504"})
SaysPermanent(words) ==
    \/ Mentions(words, {"401", "unauthor", "api key", "403", "permission", "404", "not found"})
    \/ {"model", "not"} \subseteq words

\* A query sends again only if its last attempt ended in an exception of the SDK
\* whose message reads as a rate limit, a timeout or a 5xx and as no permanent
\* error, and it never sends more than max_attempts requests.
RetriesReadTransient ==
    [][sends' > sends =>
          /\ attempts' <= MaxAttempts
          /\ attempts' > 1 => SaysTransient(cause.words) /\ ~SaysPermanent(cause.words)]_vars

\* docs/HUONG_DAN_TOAN_DIEN.md, section 15: a query sends again only after a
\* timeout, a 429 or a 5xx.
RetriesOnlyTransient ==
    [][sends' > sends => (attempts' > 1 => cause.kind \in TransientKinds)]_vars

\* Every query ends, within max_attempts requests.
QueriesEnd == phase # "idle" ~> phase = "idle"
==============================================================================
