-------------------------------- MODULE Runner --------------------------------
(***************************************************************************)
(* run_b0 (runner.py): the gates of a paid run (gates.py), then the        *)
(* scenarios of a split, one after another, each with a store of its own,  *)
(* under one run directory and one cost ledger.  A run may be killed at    *)
(* any step and started again with the same run id; gemini.yaml may be     *)
(* edited at any time, and is read at the gates and once more for the      *)
(* client.                                                                 *)
(*                                                                         *)
(*   start -> create -> client -> scenarios <-> turns                      *)
(*         -> ledger -> summary -> results -> done                         *)
(*                                                                         *)
(* A query (Orchestrator, GeminiClient, CostGuard) is one step here: it    *)
(* writes the store or not, is charged or refused by the budget, and       *)
(* returns a trace, or an exception escapes.                               *)
(***************************************************************************)
EXTENDS Naturals, SequencesExt

CONSTANTS Runs,        \* processes started with the same run id
          Plans,       \* what the scenario files of the splits hold
          Invocations, \* arguments of run_b0
          Configs,     \* contents of gemini.yaml
          Allowlist,   \* CANARY_QUERY_ALLOWLIST
          Costs,       \* estimates of a query
          Overlap,     \* may two runs be between the look at the directory and its creation?
          All, Missing, Torn

Scenario == [id : STRING, seeds : BOOLEAN, turns : Seq(STRING)]

\* ids: --query-id, in order; confirmed: --allow-paid, the token and the API key
Invocation == [provider : {"fake", "gemini"}, split : STRING, allowEval : BOOLEAN,
               ids : Seq(STRING), limit : Nat \cup {All}, budget : Nat \cup {Missing},
               preflight : BOOLEAN, confirmed : BOOLEAN]

ASSUME RunnerConstants ==
    /\ \A files \in Plans : \A split \in DOMAIN files : files[split] \in Seq(Scenario)
    /\ Invocations \subseteq Invocation
    /\ Configs \subseteq [live : BOOLEAN, queries : Nat, budget : Nat]
    /\ Costs \subseteq Nat
    /\ Overlap \in BOOLEAN
    /\ {All, Missing} \cap Nat = {} /\ Missing \notin Invocations
    /\ Missing \notin Seq([run : Runs, s : Nat, query : STRING \cup {"seed"}])
    /\ Missing \notin Seq([s : Nat, query : STRING, cumulative : Nat,
                          error : {"none", "CONFIG_ERROR", "BUDGET_REJECTED"}])

VARIABLES plan,      \* the scenario files
          config,    \* gemini.yaml
          pc,        \* of each run
          args,      \* the arguments of each run
          planned,   \* planned_max_cost_usd, as the gates reported it
          cap,       \* hard_cap_usd of the run's ledger; 0 and unused with zero_cost
          open,      \* has the client a transport?
          place,     \* [s, t]: scenario and turn each run is at
          count,     \* query_count
          here,      \* sc_queries
          spent,     \* the run's ledger
          buffer,    \* traces written and not flushed
          results,   \* scenario_results
          directory, \* "fresh", also when it exists and is empty, or "used"
          traces,    \* traces.jsonl
          stores,    \* scenarios/<id>/tickets.sqlite: who wrote what
          ledgerFile, summaryFile, resultsFile

asked  == <<plan, config, args, planned, cap, open>>
files  == <<directory, traces, stores, ledgerFile, summaryFile, resultsFile>>
vars   == <<asked, pc, place, count, here, spent, buffer, results, files>>

Ids == UNION {{plan[split][s].id : s \in 1 .. Len(plan[split])} : split \in DOMAIN plan}
Scenarios(r) == plan[args[r].split]
Current(r) == Scenarios(r)[place[r].s]
Selective(r) == args[r].ids # <<>>
Selects(r, q) == Selective(r) => q \in ToSet(args[r].ids)

\* Mutant: the limit is only looked at between scenarios
NoLimit(r) == pc[r] = "scenarios" /\ args[r].limit # All /\ count[r] >= args[r].limit

LimitReached(r) == args[r].limit # All /\ count[r] >= args[r].limit

-----------------------------------------------------------------------------

Budget(a, default) == IF a.budget = Missing THEN default ELSE a.budget

\* Mutant: the number of queries is checked, not which they are
CountsOnly(a) ==
    /\ a.split = "development"
    /\ a.ids # <<>>
    /\ Len(a.ids) <= config.queries
    /\ a.budget # Missing => a.budget <= config.budget

\* The gates of a paid run up to --preflight ...
CanaryGates(a) ==
    /\ a.split = "development"
    /\ a.ids # <<>>
    /\ Len(a.ids) <= config.queries
    /\ ToSet(a.ids) \subseteq Allowlist
    /\ a.budget # Missing => a.budget <= config.budget

\* ... and those of the live path
LiveGates(a) == config.live /\ a.confirmed

SplitAllowed(a) ==
    a.split = "evaluation" => a.allowEval /\ a.provider = "fake"

\* pinned: the protected files have their pinned hashes
Gated(a, pinned) ==
    /\ SplitAllowed(a)
    /\ a.provider = "gemini" => pinned /\ CanaryGates(a)

\* Mutant: no refusal
AnyRunDir == TRUE

FreshRunDir == directory = "fresh"      \* _ensure_fresh_run_dir

\* The checks of run_b0 up to the run directory.  --preflight is looked at by
\* the gates of the gemini provider only.
Invoke(r, a, pinned) ==
    LET stops == a.provider = "gemini" /\ a.preflight
    IN  /\ pc[r] = "start"
        /\ Overlap \/ \A q \in Runs : pc[q] # "create"
        /\ args' = [args EXCEPT ![r] = a]
        /\ pc' = [pc EXCEPT ![r] =
              IF ~Gated(a, pinned) THEN "refused"
              ELSE IF stops THEN "preflighted"
              ELSE IF a.provider = "gemini" /\ ~LiveGates(a) THEN "refused"
              ELSE IF a.split \in DOMAIN plan /\ FreshRunDir THEN "create"
              ELSE "refused"]
        /\ planned' = [planned EXCEPT ![r] =
              IF a.provider = "gemini" /\ Budget(a, config.budget) < config.budget
              THEN a.budget ELSE config.budget]
        /\ UNCHANGED <<plan, config, cap, open, place, count, here, spent, buffer,
                       results, files>>

CreateRunDir(r) ==
    /\ pc[r] = "create"
    /\ pc' = [pc EXCEPT ![r] = "client"]
    /\ directory' = "used"
    /\ UNCHANGED <<asked, place, count, here, spent, buffer, results,
                   traces, stores, ledgerFile, summaryFile, resultsFile>>

\* The ledger and the client, from gemini.yaml as it is now, then traces.jsonl
\* opened with "w"; what fails before that leaves the directory behind
MakeClient(r) ==
    LET paid == args[r].provider = "gemini"
    IN  /\ pc[r] = "client"
        /\ \/ pc' = [pc EXCEPT ![r] = "scenarios"] /\ traces' = <<>>
           \/ pc' = [pc EXCEPT ![r] = "failed"] /\ UNCHANGED traces
        /\ cap' = [cap EXCEPT ![r] = IF paid THEN Budget(args[r], config.budget) ELSE 0]
        /\ open' = [open EXCEPT ![r] = paid /\ config.live]
        /\ UNCHANGED <<plan, config, args, planned, place, count, here, spent, buffer,
                       results, directory, stores, ledgerFile, summaryFile, resultsFile>>

\* gemini.yaml is edited
Configure(c) ==
    /\ config' = c
    /\ UNCHANGED <<plan, args, planned, cap, open, pc, place, count, here, spent,
                   buffer, results, files>>

Written(entries) == IF traces = Missing THEN entries ELSE traces \o entries

\* Leaving the with block, by its end or by an exception, flushes the traces
Close(r, next) ==
    /\ pc' = [pc EXCEPT ![r] = next]
    /\ traces' = Written(buffer[r])
    /\ buffer' = [buffer EXCEPT ![r] = <<>>]

EndScenarios(r) ==
    /\ pc[r] = "scenarios"
    /\ place[r].s > Len(Scenarios(r)) \/ LimitReached(r)
    /\ Close(r, "ledger")
    /\ UNCHANGED <<asked, place, count, here, spent, results,
                   directory, stores, ledgerFile, summaryFile, resultsFile>>

SkipScenario(r) ==
    /\ pc[r] = "scenarios"
    /\ place[r].s <= Len(Scenarios(r)) /\ ~LimitReached(r)
    /\ \A q \in ToSet(Current(r).turns) : ~Selects(r, q)
    /\ Selective(r)
    /\ place' = [place EXCEPT ![r].s = @ + 1]
    /\ UNCHANGED <<asked, pc, count, here, spent, buffer, results, files>>

\* Mutants: an existing store is opened; the ledger belongs to the scenario
OpensExisting(r) == FALSE
OwnLedger(r) == spent' = [spent EXCEPT ![r] = 0]

RefusesDb(r) == stores[Current(r).id] # Missing     \* _refuse_existing_db
KeepLedger(r) == UNCHANGED spent

\* The store of the next scenario: refused when it exists, else seeded; a
\* fixture that seed_ticket rejects ends the run
OpenScenario(r) ==
    LET id == Current(r).id
        found == IF stores[id] = Missing THEN <<>> ELSE stores[id]
    IN  /\ pc[r] = "scenarios"
        /\ place[r].s <= Len(Scenarios(r)) /\ ~LimitReached(r)
        /\ Selective(r) => \E q \in ToSet(Current(r).turns) : Selects(r, q)
        /\ IF RefusesDb(r)
           THEN Close(r, "failed") /\ UNCHANGED stores
           ELSE \/ /\ pc' = [pc EXCEPT ![r] = "turns"]
                   /\ stores' = [stores EXCEPT ![id] =
                         IF Current(r).seeds
                         THEN Append(found, [run |-> r, s |-> place[r].s, query |-> "seed"])
                         ELSE found]
                   /\ UNCHANGED <<buffer, traces>>
                \/ /\ Current(r).seeds
                   /\ Close(r, "failed")
                   /\ stores' = [stores EXCEPT ![id] = found]
        /\ KeepLedger(r)
        /\ here' = [here EXCEPT ![r] = 0]
        /\ place' = [place EXCEPT ![r].t = 1]
        /\ UNCHANGED <<asked, count, results, directory,
                       ledgerFile, summaryFile, resultsFile>>

AtTurn(r) == pc[r] = "turns" /\ place[r].t <= Len(Current(r).turns) /\ ~LimitReached(r)
Query(r) == Current(r).turns[place[r].t]

\* Mutant: turns not selected count
SkipTurnCounted(r) ==
    /\ AtTurn(r)
    /\ ~Selects(r, Query(r))
    /\ place' = [place EXCEPT ![r].t = @ + 1]
    /\ count' = [count EXCEPT ![r] = @ + 1]
    /\ UNCHANGED <<asked, pc, here, spent, buffer, results, files>>

SkipTurn(r) ==
    /\ AtTurn(r)
    /\ ~Selects(r, Query(r))
    /\ place' = [place EXCEPT ![r].t = @ + 1]
    /\ UNCHANGED <<asked, pc, count, here, spent, buffer, results, files>>

\* Appends what the query wrote to the store of its scenario
Writes(r) ==
    stores' = [stores EXCEPT ![Current(r).id] =
                  Append(@, [run |-> r, s |-> place[r].s, query |-> Query(r)])]

Fits(r, cost) == spent[r] + cost <= cap[r]

\* Without a transport the client raises CONFIG_ERROR before it costs anything
Outcome(r, cost) ==
    IF args[r].provider = "gemini" /\ ~open[r] THEN "CONFIG_ERROR"
    ELSE IF Fits(r, cost) THEN "none" ELSE "BUDGET_REJECTED"

CostsOf(r) == IF open[r] THEN Costs ELSE {0}

\* orch.handle_query returned a trace
HandleQuery(r, cost) ==
    LET error == Outcome(r, cost)
        total == IF error = "none" THEN spent[r] + cost ELSE spent[r]
    IN  /\ AtTurn(r)
        /\ Selects(r, Query(r))
        /\ count' = [count EXCEPT ![r] = @ + 1]
        /\ here' = [here EXCEPT ![r] = @ + 1]
        /\ place' = [place EXCEPT ![r].t = @ + 1]
        /\ spent' = [spent EXCEPT ![r] = total]
        /\ \/ error = "none" /\ Writes(r)
           \/ UNCHANGED stores
        /\ buffer' = [buffer EXCEPT ![r] =
                         Append(@, [s |-> place[r].s, query |-> Query(r),
                                    cumulative |-> total, error |-> error])]
        /\ UNCHANGED <<asked, pc, results, directory, traces, ledgerFile, summaryFile, resultsFile>>

\* An exception escaped it
QueryRaises(r, cost) ==
    /\ AtTurn(r)
    /\ Selects(r, Query(r))
    /\ \/ /\ Outcome(r, cost) = "none"
          /\ spent' = [spent EXCEPT ![r] = @ + cost]
          /\ Writes(r) \/ UNCHANGED stores
       \/ UNCHANGED <<spent, stores>>
    /\ Close(r, "failed")
    /\ UNCHANGED <<asked, place, count, here, results,
                   directory, ledgerFile, summaryFile, resultsFile>>

\* The buffer of traces.jsonl fills up
Flush(r) ==
    /\ buffer[r] # <<>>
    /\ pc[r] \in {"scenarios", "turns"}
    /\ Close(r, pc[r])
    /\ UNCHANGED <<asked, place, count, here, spent, results,
                   directory, stores, ledgerFile, summaryFile, resultsFile>>

CloseScenario(r) ==
    /\ pc[r] = "turns"
    /\ ~AtTurn(r)
    /\ results' =
         IF here[r] = 0 /\ Selective(r)
         THEN results
         ELSE [results EXCEPT ![r] =
                 Append(@, [id |-> Current(r).id, queries |-> here[r],
                            final |-> stores[Current(r).id]])]
    /\ place' = [place EXCEPT ![r].s = @ + 1]
    /\ pc' = [pc EXCEPT ![r] = "scenarios"]
    /\ UNCHANGED <<asked, count, here, spent, buffer, files>>

\* write_text: killed inside, it leaves a torn file
Puts(r, file, content, next) ==
    \/ file' = content /\ pc' = [pc EXCEPT ![r] = next]
    \/ file' = Torn /\ pc' = [pc EXCEPT ![r] = "dead"]

WriteLedger(r) ==
    /\ pc[r] = "ledger"
    /\ Puts(r, ledgerFile, spent[r], "summary")
    /\ UNCHANGED <<asked, place, count, here, spent, buffer, results,
                   directory, traces, stores, summaryFile, resultsFile>>

WriteSummary(r) ==
    /\ pc[r] = "summary"
    /\ Puts(r, summaryFile,
            [run |-> r, queries |-> count[r], scenarios |-> Len(results[r]), cost |-> spent[r]],
            "results")
    /\ UNCHANGED <<asked, place, count, here, spent, buffer, results,
                   directory, traces, stores, ledgerFile, resultsFile>>

WriteResults(r) ==
    /\ pc[r] = "results"
    /\ Puts(r, resultsFile, results[r], "done")
    /\ UNCHANGED <<asked, place, count, here, spent, buffer, results,
                   directory, traces, stores, ledgerFile, summaryFile>>

\* Killed: what was not flushed is lost
Crash(r) ==
    /\ pc[r] \in {"create", "client", "scenarios", "turns", "ledger", "summary", "results"}
    /\ pc' = [pc EXCEPT ![r] = "dead"]
    /\ UNCHANGED <<asked, place, count, here, spent, buffer, results, files>>

Init ==
    /\ plan \in Plans
    /\ config \in Configs
    /\ pc = [r \in Runs |-> "start"]
    /\ args = [r \in Runs |-> Missing]
    /\ planned = [r \in Runs |-> 0]
    /\ cap = [r \in Runs |-> 0]
    /\ open = [r \in Runs |-> FALSE]
    /\ place = [r \in Runs |-> [s |-> 1, t |-> 1]]
    /\ count = [r \in Runs |-> 0]
    /\ here = [r \in Runs |-> 0]
    /\ spent = [r \in Runs |-> 0]
    /\ buffer = [r \in Runs |-> <<>>]
    /\ results = [r \in Runs |-> <<>>]
    /\ directory = "fresh"
    /\ traces = Missing
    /\ stores = [id \in Ids |-> Missing]
    /\ ledgerFile = Missing
    /\ summaryFile = Missing
    /\ resultsFile = Missing

Next ==
    \/ \E c \in Configs : Configure(c)
    \/ \E r \in Runs :
         \/ \E a \in Invocations, pinned \in BOOLEAN : Invoke(r, a, pinned)
         \/ CreateRunDir(r)
         \/ MakeClient(r)
         \/ EndScenarios(r)
         \/ SkipScenario(r)
         \/ OpenScenario(r)
         \/ SkipTurn(r)
         \/ \E c \in CostsOf(r) : HandleQuery(r, c) \/ QueryRaises(r, c)
         \/ Flush(r)
         \/ CloseScenario(r)
         \/ WriteLedger(r)
         \/ WriteSummary(r)
         \/ WriteResults(r)
         \/ Crash(r)

Spec == Init /\ [][Next]_vars

-----------------------------------------------------------------------------
(* Properties *)

Whole(file) == file \notin {Missing, Torn}

Places == {"start", "refused", "preflighted", "create", "client", "scenarios", "turns",
           "ledger", "summary", "results", "done", "failed", "dead"}

\* Past the gates and the look at the run directory
Admitted(r) == pc[r] \notin {"start", "refused", "preflighted"}

\* Types of the runs and of their files; every query counted is charged within the cap.
TypeOK ==
    /\ plan \in Plans
    /\ config \in Configs
    /\ pc \in [Runs -> Places]
    /\ directory \in {"fresh", "used"}
    /\ \A r \in Runs :
         /\ args[r] \in Invocations \cup {Missing}
         /\ Admitted(r) => args[r] # Missing /\ args[r].split \in DOMAIN plan
         /\ count[r] \in Nat
         /\ here[r] \in 0 .. count[r]
         /\ Admitted(r) => args[r].limit = All \/ count[r] <= args[r].limit
         /\ spent[r] \in 0 .. cap[r]
         /\ pc[r] = "turns" => place[r].s \in 1 .. Len(Scenarios(r))
    /\ Whole(ledgerFile) => ledgerFile \in Nat

\* The queries of scenario s that run r selects, and what it is asked to do: those of
\* all scenarios in the order of the file, up to the limit
Chosen(r, s) ==
    FlattenSeq([t \in 1 .. Len(Scenarios(r)[s].turns) |->
        LET query == Scenarios(r)[s].turns[t]
        IN  IF Selects(r, query) THEN << <<s, query>> >> ELSE << >>])

Asked(r) ==
    LET chosen == FlattenSeq([s \in 1 .. Len(Scenarios(r)) |-> Chosen(r, s)])
        limit == args[r].limit
    IN  IF limit = All \/ Len(chosen) <= limit THEN chosen ELSE SubSeq(chosen, 1, limit)

Logged == IF traces = Missing THEN <<>> ELSE [i \in 1 .. Len(traces) |-> <<traces[i].s, traces[i].query>>]

\* The trace file never holds anything but the first queries one run was asked,
\* in order and each once, whatever died or was flushed when; a summary stands
\* beside the traces of all of them, counts them, and no query wrote without one.
TracesFollowThePlan ==
    /\ Logged # <<>> => \E r \in Runs : Admitted(r) /\ IsPrefix(Logged, Asked(r))
    /\ Whole(summaryFile) =>
         /\ Logged = Asked(summaryFile.run)
         /\ summaryFile.queries = Len(traces)
         /\ \A id \in Ids : stores[id] # Missing =>
              \A w \in ToSet(stores[id]) : w.query = "seed" \/ <<w.s, w.query>> \in ToSet(Logged)

\* docs/HUONG_DAN_TOAN_DIEN.md:462: the budget is the run's, all scenarios
\* together.  Along the trace file the cumulative cost never falls, and the
\* ledger and the summary end with the cost of the last trace.
OneLedgerPerRun ==
    /\ \A i, j \in 1 .. Len(Logged) : i < j => traces[i].cumulative <= traces[j].cumulative
    /\ Whole(summaryFile) =>
         /\ summaryFile.cost = ledgerFile
         /\ traces # <<>> => summaryFile.cost = Last(traces).cumulative

\* docs/DECISION_LOG.md:14: no shared mutable store.  All that a scenario's store
\* holds was written by one scenario of one run, a scenario file that repeats an id
\* included; the results report the stores as they are on disk.
StoresAreIsolated ==
    /\ \A id \in Ids : stores[id] # Missing =>
         \A i, j \in 1 .. Len(stores[id]) :
             stores[id][i].run = stores[id][j].run /\ stores[id][i].s = stores[id][j].s
    /\ Whole(resultsFile) =>
         \A i \in 1 .. Len(resultsFile) : resultsFile[i].final = stores[resultsFile[i].id]

\* A run id is used once: nothing changes a run that has its summary, except that
\* its scenario results are still written.
SummaryIsFinal ==
    [][Whole(summaryFile) => UNCHANGED <<traces, stores, ledgerFile, summaryFile>>]_vars

\* docs/HUONG_DAN_TOAN_DIEN.md:330: a paid run needs the flags, the token and the key
\* together, on the development split, and serves queries of the allowlist only.
\* With --budget-usd it never spends more than the gates reported, however
\* gemini.yaml is edited before the client reads it again; a fake run spends nothing.
PaidRunsAreGated ==
    \A r \in Runs :
        /\ Admitted(r) /\ args[r].provider = "gemini" =>
             /\ args[r].confirmed /\ ~args[r].preflight /\ args[r].split = "development"
             /\ args[r].budget # Missing => spent[r] <= planned[r]
             /\ \A id \in Ids : stores[id] # Missing =>
                  \A w \in ToSet(stores[id]) :
                      w.run = r => w.query \in Allowlist \cup {"seed"}
        /\ spent[r] > 0 => args[r].provider = "gemini"
===============================================================================
