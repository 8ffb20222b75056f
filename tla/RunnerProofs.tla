----------------------------- MODULE RunnerProofs -----------------------------
(***************************************************************************)
(* What run_b0 keeps to for any scenario files, invocations, contents of   *)
(* gemini.yaml and costs, and any number of processes with one run id.     *)
(***************************************************************************)
EXTENDS Runner, SequenceTheorems, WellFoundedInduction, TLAPS

Entry == [run : Runs, s : Nat, query : STRING \cup {"seed"}]
Early == {"start", "refused", "preflighted", "create", "client"}
PlaceIn == [s : Nat \ {0}, t : Nat \ {0}]

TypeInv ==
    /\ plan \in Plans
    /\ config \in Configs
    /\ pc \in [Runs -> Places]
    /\ args \in [Runs -> Invocations \cup {Missing}]
    /\ planned \in [Runs -> Nat]
    /\ cap \in [Runs -> Nat]
    /\ open \in [Runs -> BOOLEAN]
    /\ place \in [Runs -> PlaceIn]
    /\ count \in [Runs -> Nat]
    /\ here \in [Runs -> Nat]
    /\ spent \in [Runs -> Nat]
    /\ directory \in {"fresh", "used"}
    /\ Whole(ledgerFile) => ledgerFile \in Nat
    /\ \A r \in Runs : Admitted(r) => args[r] \in Invocations /\ args[r].split \in DOMAIN plan

\* What one run does
RunStep(r) ==
    \/ \E a \in Invocations, pinned \in BOOLEAN : Invoke(r, a, pinned)
    \/ CreateRunDir(r)
    \/ MakeClient(r)
    \/ EndScenarios(r)
    \/ SkipScenario(r)
    \/ OpenScenario(r)
    \/ SkipTurn(r)
    \/ \E c \in CostsOf(r) : HandleQuery(r, c)
    \/ \E c \in CostsOf(r) : QueryRaises(r, c)
    \/ Flush(r)
    \/ CloseScenario(r)
    \/ WriteLedger(r)
    \/ WriteSummary(r)
    \/ WriteResults(r)
    \/ Crash(r)

\* Every step is one of gemini.yaml or of one run.
LEMMA NextIsRunStep ==
    ASSUME [Next]_vars
    PROVE  \/ \E c \in Configs : Configure(c)
           \/ \E r \in Runs : RunStep(r)
           \/ UNCHANGED vars
BY DEF Next, RunStep

-----------------------------------------------------------------------------
(* Types *)

\* A budget is a number.
LEMMA BudgetType ==
    ASSUME NEW a \in Invocations, NEW d \in Nat
    PROVE  Budget(a, d) \in Nat
BY RunnerConstants DEF Budget, Invocation

\* A cost is a number.
LEMMA CostType ==
    ASSUME NEW r, NEW c \in CostsOf(r)
    PROVE  c \in Nat
BY RunnerConstants DEF CostsOf

\* The budget of gemini.yaml is a number.
LEMMA ConfigType == config \in Configs => config.budget \in Nat
BY RunnerConstants

\* How the position moves: to the next scenario
LEMMA NextScenario ==
    ASSUME NEW p \in [Runs -> PlaceIn], NEW r \in Runs
    PROVE  /\ [p EXCEPT ![r].s = @ + 1] \in [Runs -> PlaceIn]
           /\ [p EXCEPT ![r].s = @ + 1][r].s = p[r].s + 1
           /\ \A q \in Runs \ {r} : [p EXCEPT ![r].s = @ + 1][q] = p[q]
<1>1. [p EXCEPT ![r].s = @ + 1] \in [Runs -> PlaceIn]
  BY DEF PlaceIn
<1>2. [p EXCEPT ![r].s = @ + 1][r].s = p[r].s + 1
  BY DEF PlaceIn
<1>3. \A q \in Runs \ {r} : [p EXCEPT ![r].s = @ + 1][q] = p[q]
  BY DEF PlaceIn
<1> QED
  BY <1>1, <1>2, <1>3

\* To the next turn
LEMMA NextTurn ==
    ASSUME NEW p \in [Runs -> PlaceIn], NEW r \in Runs
    PROVE  /\ [p EXCEPT ![r].t = @ + 1] \in [Runs -> PlaceIn]
           /\ [p EXCEPT ![r].t = @ + 1][r].s = p[r].s
           /\ \A q \in Runs \ {r} : [p EXCEPT ![r].t = @ + 1][q] = p[q]
<1>1. [p EXCEPT ![r].t = @ + 1] \in [Runs -> PlaceIn]
  BY DEF PlaceIn
<1>2. [p EXCEPT ![r].t = @ + 1][r].s = p[r].s
  BY DEF PlaceIn
<1>3. \A q \in Runs \ {r} : [p EXCEPT ![r].t = @ + 1][q] = p[q]
  BY DEF PlaceIn
<1> QED
  BY <1>1, <1>2, <1>3

\* To the first turn of a scenario
LEMMA FirstTurn ==
    ASSUME NEW p \in [Runs -> PlaceIn], NEW r \in Runs
    PROVE  /\ [p EXCEPT ![r].t = 1] \in [Runs -> PlaceIn]
           /\ [p EXCEPT ![r].t = 1][r].s = p[r].s
           /\ \A q \in Runs \ {r} : [p EXCEPT ![r].t = 1][q] = p[q]
<1>1. [p EXCEPT ![r].t = 1] \in [Runs -> PlaceIn]
  BY DEF PlaceIn
<1>2. [p EXCEPT ![r].t = 1][r].s = p[r].s
  BY DEF PlaceIn
<1>3. \A q \in Runs \ {r} : [p EXCEPT ![r].t = 1][q] = p[q]
  BY DEF PlaceIn
<1> QED
  BY <1>1, <1>2, <1>3

\* The types hold at first ...
LEMMA TypeInit == Init => TypeInv
BY DEF Init, TypeInv, Places, Whole, Admitted, PlaceIn

\* ... and every step keeps them.
LEMMA TypeStep ==
    ASSUME TypeInv, [Next]_vars
    PROVE  TypeInv'
<1> USE DEF TypeInv, Places, Admitted
<1>1. ASSUME NEW c \in Configs, Configure(c) PROVE TypeInv'
  BY <1>1 DEF Configure, files
<1>2. ASSUME NEW r \in Runs, RunStep(r) PROVE TypeInv'
  <2>1. ASSUME NEW a \in Invocations, NEW pinned \in BOOLEAN, Invoke(r, a, pinned) PROVE TypeInv'
    <3>1. config.budget \in Nat
      BY ConfigType
    <3>2. planned' \in [Runs -> Nat]
      BY <2>1, <3>1, RunnerConstants DEF Invoke, Budget, Invocation
    <3> QED
      BY <2>1, <3>2 DEF Invoke, files
  <2>2. CASE CreateRunDir(r)
    BY <2>2 DEF CreateRunDir, asked
  <2>3. CASE MakeClient(r)
    <3>1. config.budget \in Nat
      BY ConfigType
    <3>2. Budget(args[r], config.budget) \in Nat
      BY <2>3, <3>1, BudgetType DEF MakeClient
    <3>3. cap' \in [Runs -> Nat] /\ open' \in [Runs -> BOOLEAN] /\ pc' \in [Runs -> Places]
      <4>1. cap' \in [Runs -> Nat]
        BY <2>3, <3>2 DEF MakeClient
      <4>2. (config.live) \in BOOLEAN
        BY RunnerConstants
      <4>3. open' \in [Runs -> BOOLEAN]
        BY <2>3, <4>2 DEF MakeClient
      <4> QED
        BY <2>3, <4>1, <4>3 DEF MakeClient
    <3> QED
      BY <2>3, <3>3 DEF MakeClient
  <2>4. CASE EndScenarios(r)
    BY <2>4 DEF EndScenarios, Close, asked
  <2>5. CASE SkipScenario(r)
    BY <2>5, NextScenario DEF SkipScenario, asked, files
  <2>6. CASE OpenScenario(r)
    <3>1. place' \in [Runs -> PlaceIn]
      BY <2>6, FirstTurn DEF OpenScenario
    <3>2. pc' = [pc EXCEPT ![r] = "failed"] \/ pc' = [pc EXCEPT ![r] = "turns"]
      BY <2>6 DEF OpenScenario, Close
    <3>3. here' \in [Runs -> Nat] /\ pc[r] = "scenarios"
      BY <2>6 DEF OpenScenario
    <3>4. UNCHANGED <<asked, count, spent, directory, ledgerFile>>
      BY <2>6 DEF OpenScenario, KeepLedger
    <3> QED
      BY <3>1, <3>2, <3>3, <3>4 DEF asked
  <2>7. CASE SkipTurn(r)
    BY <2>7, NextTurn DEF SkipTurn, asked, files
  <2>8. ASSUME NEW c \in CostsOf(r), HandleQuery(r, c) PROVE TypeInv'
    <3>1. place' \in [Runs -> PlaceIn]
      BY <2>8, NextTurn DEF HandleQuery
    <3>2. /\ count' \in [Runs -> Nat]
          /\ here' \in [Runs -> Nat]
          /\ spent' \in [Runs -> Nat]
      BY <2>8, CostType DEF HandleQuery
    <3>3. UNCHANGED <<asked, pc, directory, ledgerFile>>
      BY <2>8 DEF HandleQuery
    <3> QED
      BY <3>1, <3>2, <3>3 DEF asked
  <2>9. ASSUME NEW c \in CostsOf(r), QueryRaises(r, c) PROVE TypeInv'
    <3>1. spent' \in [Runs -> Nat]
      BY <2>9, CostType DEF QueryRaises
    <3>2. pc[r] = "turns" /\ pc' = [pc EXCEPT ![r] = "failed"]
      BY <2>9 DEF QueryRaises, Close, AtTurn
    <3>3. UNCHANGED <<asked, place, count, here, directory, ledgerFile>>
      BY <2>9 DEF QueryRaises
    <3> QED
      BY <3>1, <3>2, <3>3 DEF asked
  <2>10. CASE Flush(r)
    BY <2>10 DEF Flush, Close, asked
  <2>11. CASE CloseScenario(r)
    <3>1. place' \in [Runs -> PlaceIn]
      BY <2>11, NextScenario DEF CloseScenario
    <3>2. pc[r] = "turns" /\ pc' = [pc EXCEPT ![r] = "scenarios"]
      BY <2>11 DEF CloseScenario
    <3>3. UNCHANGED <<asked, count, here, spent, files>>
      BY <2>11 DEF CloseScenario
    <3> QED
      BY <3>1, <3>2, <3>3 DEF asked, files
  <2>12. CASE WriteLedger(r)
    BY <2>12 DEF WriteLedger, Puts, asked, Whole
  <2>13. CASE WriteSummary(r)
    BY <2>13 DEF WriteSummary, Puts, asked
  <2>14. CASE WriteResults(r)
    BY <2>14 DEF WriteResults, Puts, asked
  <2>15. CASE Crash(r)
    BY <2>15 DEF Crash, asked, files
  <2> QED
    BY <1>2, <2>1, <2>2, <2>3, <2>4, <2>5, <2>6, <2>7, <2>8, <2>9, <2>10, <2>11, <2>12,
       <2>13, <2>14, <2>15 DEF RunStep
<1>3. CASE UNCHANGED vars
  BY <1>3 DEF vars, asked, files, Whole
<1> QED
  BY <1>1, <1>2, <1>3, NextIsRunStep

-----------------------------------------------------------------------------
(* What a run keeps to by itself *)

Confirmed(a) ==
    /\ a.confirmed /\ ~a.preflight
    /\ a.split = "development"
    /\ a.ids # <<>> /\ ToSet(a.ids) \subseteq Allowlist

LocalInv(r) ==
    /\ pc[r] \in Early => count[r] = 0 /\ here[r] = 0 /\ spent[r] = 0 /\ cap[r] = 0
    /\ here[r] <= count[r]
    /\ spent[r] <= cap[r]
    /\ pc[r] = "turns" => place[r].s <= Len(Scenarios(r))
    /\ Admitted(r) =>
         /\ args[r].limit = All \/ count[r] <= args[r].limit
         /\ args[r].provider = "fake" => cap[r] = 0
         /\ args[r].provider = "gemini" => Confirmed(args[r])
         /\ args[r].provider = "gemini" /\ args[r].budget # Missing =>
              planned[r] = args[r].budget /\ cap[r] <= planned[r]

Same(q) ==
    /\ plan' = plan
    /\ pc'[q] = pc[q] /\ args'[q] = args[q]
    /\ planned'[q] = planned[q] /\ cap'[q] = cap[q] /\ open'[q] = open[q]
    /\ place'[q] = place[q] /\ count'[q] = count[q] /\ here'[q] = here[q]
    /\ spent'[q] = spent[q]

\* What a run keeps to depends on itself alone.
LEMMA SameIsLocal ==
    ASSUME NEW q, Same(q), LocalInv(q)
    PROVE  LocalInv(q)'
BY DEF Same, LocalInv, Admitted, Scenarios

\* A step of one run is none of another
LEMMA Bystanders ==
    ASSUME TypeInv, NEW r \in Runs, RunStep(r), NEW q \in Runs, q # r
    PROVE  Same(q)
<1> USE DEF TypeInv, Same
<1>1. ASSUME NEW a \in Invocations, NEW pinned \in BOOLEAN, Invoke(r, a, pinned) PROVE Same(q)
  BY <1>1 DEF Invoke
<1>2. CASE CreateRunDir(r)
  BY <1>2 DEF CreateRunDir, asked
<1>3. CASE MakeClient(r)
  BY <1>3 DEF MakeClient
<1>4. CASE EndScenarios(r)
  BY <1>4 DEF EndScenarios, Close, asked
<1>5. CASE SkipScenario(r)
  <2>1. place'[q] = place[q]
    BY <1>5, NextScenario DEF SkipScenario
  <2> QED
    BY <1>5, <2>1 DEF SkipScenario, asked
<1>6. CASE OpenScenario(r)
  <2>1. place'[q] = place[q]
    BY <1>6, FirstTurn DEF OpenScenario
  <2>2. pc' = [pc EXCEPT ![r] = "failed"] \/ pc' = [pc EXCEPT ![r] = "turns"]
    BY <1>6 DEF OpenScenario, Close
  <2>3. here' = [here EXCEPT ![r] = 0]
    BY <1>6 DEF OpenScenario
  <2>4. UNCHANGED <<asked, count, spent>>
    BY <1>6 DEF OpenScenario, KeepLedger
  <2> QED
    BY <2>1, <2>2, <2>3, <2>4 DEF asked
<1>7. CASE SkipTurn(r)
  <2>1. place'[q] = place[q]
    BY <1>7, NextTurn DEF SkipTurn
  <2> QED
    BY <1>7, <2>1 DEF SkipTurn, asked
<1>8. ASSUME NEW c \in CostsOf(r), HandleQuery(r, c) PROVE Same(q)
  <2>1. place'[q] = place[q]
    BY <1>8, NextTurn DEF HandleQuery
  <2>2. count'[q] = count[q] /\ here'[q] = here[q] /\ spent'[q] = spent[q]
    BY <1>8 DEF HandleQuery
  <2>3. UNCHANGED <<asked, pc>>
    BY <1>8 DEF HandleQuery
  <2> QED
    BY <2>1, <2>2, <2>3 DEF asked
<1>9. ASSUME NEW c \in CostsOf(r), QueryRaises(r, c) PROVE Same(q)
  <2>1. spent'[q] = spent[q] /\ pc'[q] = pc[q]
    BY <1>9 DEF QueryRaises, Close
  <2>2. UNCHANGED <<asked, place, count, here>>
    BY <1>9 DEF QueryRaises
  <2> QED
    BY <2>1, <2>2 DEF asked
<1>10. CASE Flush(r)
  BY <1>10 DEF Flush, Close, asked
<1>11. CASE CloseScenario(r)
  <2>1. place'[q] = place[q]
    BY <1>11, NextScenario DEF CloseScenario
  <2>2. pc'[q] = pc[q] /\ UNCHANGED <<asked, count, here, spent>>
    BY <1>11 DEF CloseScenario
  <2> QED
    BY <2>1, <2>2 DEF asked
<1>12. CASE WriteLedger(r)
  BY <1>12 DEF WriteLedger, Puts, asked
<1>13. CASE WriteSummary(r)
  BY <1>13 DEF WriteSummary, Puts, asked
<1>14. CASE WriteResults(r)
  BY <1>14 DEF WriteResults, Puts, asked
<1>15. CASE Crash(r)
  BY <1>15 DEF Crash, asked
<1> QED
  BY <1>1, <1>2, <1>3, <1>4, <1>5, <1>6, <1>7, <1>8, <1>9, <1>10, <1>11, <1>12, <1>13,
     <1>14, <1>15 DEF RunStep

\* A step that leaves a run where it is or ends it, counters and all
Moves(r, next) ==
    /\ next \notin Early
    /\ next # "turns" \/ pc[r] = "turns"
    /\ pc' = [pc EXCEPT ![r] = next]
    /\ UNCHANGED <<asked, count, here, spent>>

\* Such a step keeps what the run keeps to.
LEMMA MovesIsLocal ==
    ASSUME TypeInv, NEW r \in Runs, LocalInv(r), NEW next, Moves(r, next), Admitted(r),
           next = "turns" => place'[r].s = place[r].s
    PROVE  LocalInv(r)'
BY DEF TypeInv, LocalInv, Moves, asked, Admitted, Scenarios, Early

\* Past the gates with these arguments
LEMMA GatesConfirm ==
    ASSUME NEW a \in Invocations, NEW pinned, Gated(a, pinned), a.provider = "gemini",
           ~a.preflight, LiveGates(a)
    PROVE  Confirmed(a)
BY DEF Gated, CanaryGates, LiveGates, Confirmed

\* Every step of a run keeps what the run keeps to.
LEMMA ActorStep ==
    ASSUME TypeInv, TypeInv', NEW r \in Runs, LocalInv(r), RunStep(r)
    PROVE  LocalInv(r)'
<1>1. ASSUME NEW a \in Invocations, NEW pinned \in BOOLEAN, Invoke(r, a, pinned) PROVE LocalInv(r)'
  <2>1. /\ pc[r] = "start" /\ args'[r] = a
        /\ pc'[r] \in {"refused", "preflighted", "create"}
        /\ UNCHANGED <<count, here, spent, cap, place>>
    BY <1>1 DEF Invoke, TypeInv
  <2>2. pc'[r] = "create" => Gated(a, pinned)
    BY <1>1 DEF Invoke, TypeInv
  <2>3. pc'[r] = "create" /\ a.provider = "gemini" => ~a.preflight /\ LiveGates(a)
    BY <1>1 DEF Invoke, TypeInv
  <2>4. pc'[r] = "create" /\ a.provider = "gemini" => Confirmed(a)
    BY <2>2, <2>3, GatesConfirm
  <2>5. pc'[r] = "create" /\ a.provider = "gemini" /\ a.budget # Missing =>
          planned'[r] = a.budget
    <3> SUFFICES ASSUME pc'[r] = "create", a.provider = "gemini", a.budget # Missing
                 PROVE  planned'[r] = a.budget
      OBVIOUS
    <3>1. a.budget <= config.budget /\ a.budget \in Nat /\ config.budget \in Nat
      BY <2>2, RunnerConstants, ConfigType DEF Gated, CanaryGates, Invocation, TypeInv
    <3> QED
      BY <1>1, <3>1 DEF Invoke, TypeInv, Budget
  <2>6. count[r] = 0 /\ here[r] = 0 /\ spent[r] = 0 /\ cap[r] = 0
    BY <2>1 DEF LocalInv, Early
  <2>7. a.limit = All \/ a.limit \in Nat
    BY RunnerConstants DEF Invocation
  <2>8. a.budget = Missing \/ a.budget \in Nat
    BY RunnerConstants DEF Invocation
  <2> QED
    BY <2>1, <2>4, <2>5, <2>6, <2>7, <2>8 DEF LocalInv, Early, Admitted
<1>2. CASE CreateRunDir(r)
  BY <1>2 DEF CreateRunDir, asked, TypeInv, LocalInv, Early, Admitted, Scenarios
<1>3. CASE MakeClient(r)
  <2>1. /\ pc[r] = "client" /\ pc'[r] \in {"scenarios", "failed"}
        /\ UNCHANGED <<args, planned, count, here, spent>>
    BY <1>3 DEF MakeClient, TypeInv
  <2>2. cap'[r] = IF args[r].provider = "gemini" THEN Budget(args[r], config.budget) ELSE 0
    BY <1>3 DEF MakeClient, TypeInv
  <2>3. cap'[r] \in Nat
    BY DEF TypeInv
  <2>4. args[r].provider = "gemini" /\ args[r].budget # Missing =>
          cap'[r] = args[r].budget /\ planned'[r] = args[r].budget
    BY <2>1, <2>2 DEF LocalInv, Admitted, Budget
  <2>5. planned'[r] \in Nat
    BY DEF TypeInv
  <2> QED
    BY <2>1, <2>2, <2>3, <2>4, <2>5 DEF LocalInv, Admitted, Early
<1>4. CASE EndScenarios(r)
  <2>1. Moves(r, "ledger") /\ pc[r] = "scenarios"
    BY <1>4 DEF EndScenarios, Close, Moves, Early
  <2> QED
    BY <2>1, MovesIsLocal DEF Admitted
<1>5. CASE SkipScenario(r)
  <2>1. pc[r] = "scenarios" /\ UNCHANGED <<asked, pc, count, here, spent>>
    BY <1>5 DEF SkipScenario
  <2> QED
    BY <2>1 DEF LocalInv, asked, Admitted, Early
<1>6. CASE OpenScenario(r)
  <2>1. pc' = [pc EXCEPT ![r] = "failed"] \/ pc' = [pc EXCEPT ![r] = "turns"]
    BY <1>6 DEF OpenScenario, Close
  <2>2. here'[r] = 0 /\ pc[r] = "scenarios" /\ place[r].s <= Len(Scenarios(r))
    BY <1>6 DEF OpenScenario, TypeInv
  <2>3. UNCHANGED <<asked, count, spent>>
    BY <1>6 DEF OpenScenario, KeepLedger
  <2>4. place'[r].s = place[r].s
    BY <1>6, FirstTurn DEF OpenScenario, TypeInv
  <2>5. count[r] \in Nat
    BY DEF TypeInv
  <2>6. pc'[r] \in {"failed", "turns"}
    BY <2>1 DEF TypeInv
  <2> QED
    BY <2>2, <2>3, <2>4, <2>5, <2>6 DEF LocalInv, asked, Admitted, Early, Scenarios
<1>7. CASE SkipTurn(r)
  <2>1. place'[r].s = place[r].s
    BY <1>7, NextTurn DEF SkipTurn, TypeInv
  <2>2. UNCHANGED <<asked, pc, count, here, spent>> /\ pc[r] = "turns"
    BY <1>7 DEF SkipTurn, AtTurn
  <2> QED
    BY <2>1, <2>2 DEF LocalInv, asked, Admitted, Early, Scenarios
<1>8. ASSUME NEW c \in CostsOf(r), HandleQuery(r, c) PROVE LocalInv(r)'
  <2>1. place'[r].s = place[r].s
    BY <1>8, NextTurn DEF HandleQuery, TypeInv
  <2>2. UNCHANGED <<asked, pc>> /\ AtTurn(r)
    BY <1>8 DEF HandleQuery
  <2>3. count'[r] = count[r] + 1 /\ here'[r] = here[r] + 1
    BY <1>8 DEF HandleQuery, TypeInv
  <2>4. spent'[r] = spent[r] \/ (Outcome(r, c) = "none" /\ spent'[r] = spent[r] + c)
    BY <1>8 DEF HandleQuery, TypeInv
  <2>5. Outcome(r, c) = "none" => spent[r] + c <= cap[r]
    BY DEF Outcome, Fits
  <2>6. pc[r] = "turns" /\ (args[r].limit = All \/ ~(count[r] >= args[r].limit))
    BY <2>2 DEF AtTurn, LimitReached
  <2>7. args[r].limit = All \/ args[r].limit \in Nat
    BY <2>6, RunnerConstants DEF Invocation, TypeInv, Admitted
  <2>8. count[r] \in Nat /\ here[r] \in Nat /\ spent[r] \in Nat /\ cap[r] \in Nat /\ c \in Nat
    BY CostType DEF TypeInv
  <2>9. (args[r].limit = All \/ count'[r] <= args[r].limit) /\ here'[r] <= count'[r]
    BY <2>3, <2>6, <2>7, <2>8 DEF LocalInv
  <2>10. spent'[r] <= cap[r]
    BY <2>4, <2>5, <2>8 DEF LocalInv
  <2> QED
    BY <2>1, <2>2, <2>6, <2>9, <2>10 DEF LocalInv, asked, Admitted, Early, Scenarios
<1>9. ASSUME NEW c \in CostsOf(r), QueryRaises(r, c) PROVE LocalInv(r)'
  <2>1. UNCHANGED <<asked, place, count, here>> /\ pc[r] = "turns" /\ pc'[r] = "failed"
    BY <1>9 DEF QueryRaises, Close, AtTurn, TypeInv
  <2>2. spent'[r] = spent[r] \/ (Outcome(r, c) = "none" /\ spent'[r] = spent[r] + c)
    BY <1>9 DEF QueryRaises, TypeInv
  <2>3. Outcome(r, c) = "none" => spent[r] + c <= cap[r]
    BY DEF Outcome, Fits
  <2>4. spent'[r] <= cap[r]
    BY <2>2, <2>3 DEF LocalInv
  <2> QED
    BY <2>1, <2>4 DEF LocalInv, asked, Admitted, Early
<1>10. CASE Flush(r)
  <2>1. UNCHANGED <<asked, place, count, here, spent>> /\ pc'[r] = pc[r]
    BY <1>10 DEF Flush, Close, TypeInv
  <2> QED
    BY <2>1 DEF LocalInv, asked, Admitted, Scenarios
<1>11. CASE CloseScenario(r)
  <2>1. Moves(r, "scenarios") /\ pc[r] = "turns"
    BY <1>11 DEF CloseScenario, Moves, Early
  <2> QED
    BY <2>1, MovesIsLocal DEF Admitted
<1>12. CASE WriteLedger(r)
  <2>1. (Moves(r, "summary") \/ Moves(r, "dead")) /\ pc[r] = "ledger"
    BY <1>12 DEF WriteLedger, Puts, Moves, Early
  <2> QED
    BY <2>1, MovesIsLocal DEF Admitted
<1>13. CASE WriteSummary(r)
  <2>1. (Moves(r, "results") \/ Moves(r, "dead")) /\ pc[r] = "summary"
    BY <1>13 DEF WriteSummary, Puts, Moves, Early
  <2> QED
    BY <2>1, MovesIsLocal DEF Admitted
<1>14. CASE WriteResults(r)
  <2>1. (Moves(r, "done") \/ Moves(r, "dead")) /\ pc[r] = "results"
    BY <1>14 DEF WriteResults, Puts, Moves, Early
  <2> QED
    BY <2>1, MovesIsLocal DEF Admitted
<1>15. CASE Crash(r)
  <2>1. Moves(r, "dead") /\ Admitted(r)
    BY <1>15 DEF Crash, Moves, Early, Admitted
  <2> QED
    BY <2>1, MovesIsLocal
<1> QED
  BY <1>1, <1>2, <1>3, <1>4, <1>5, <1>6, <1>7, <1>8, <1>9, <1>10, <1>11, <1>12, <1>13,
     <1>14, <1>15 DEF RunStep

RunsInv == TypeInv /\ \A r \in Runs : LocalInv(r)

\* Every step keeps what all runs keep to.
LEMMA RunsStep == RunsInv /\ [Next]_vars => RunsInv'
<1> SUFFICES ASSUME RunsInv, [Next]_vars PROVE RunsInv'
  OBVIOUS
<1> USE DEF RunsInv
<1>0. TypeInv'
  BY TypeStep
<1>1. ASSUME NEW c \in Configs, Configure(c) PROVE RunsInv'
  BY <1>0, <1>1, SameIsLocal DEF Configure, Same
<1>2. ASSUME NEW r \in Runs, RunStep(r) PROVE RunsInv'
  <2>1. LocalInv(r)'
    BY <1>0, <1>2, ActorStep
  <2>2. ASSUME NEW q \in Runs, q # r PROVE LocalInv(q)'
    BY <1>2, <2>2, Bystanders, SameIsLocal
  <2> QED
    BY <1>0, <2>1, <2>2
<1>3. CASE UNCHANGED vars
  BY <1>0, <1>3, SameIsLocal DEF vars, asked, Same
<1> QED
  BY <1>1, <1>2, <1>3, NextIsRunStep

\* What the runs keep to holds throughout.
LEMMA RunsAlways == Spec => []RunsInv
<1>1. Init => RunsInv
  BY TypeInit DEF RunsInv, Init, LocalInv, Admitted, Early
<1> QED
  BY <1>1, RunsStep, PTL DEF Spec

\* Types, and every query counted and charged within the limits of its run.
THEOREM RunnerTypes == Spec => []TypeOK
<1>1. RunsInv => TypeOK
  <2> SUFFICES ASSUME RunsInv PROVE TypeOK
    OBVIOUS
  <2>1. ASSUME NEW r \in Runs
        PROVE  /\ args[r] \in Invocations \cup {Missing}
               /\ Admitted(r) => args[r] # Missing /\ args[r].split \in DOMAIN plan
               /\ count[r] \in Nat
               /\ here[r] \in 0 .. count[r]
               /\ Admitted(r) => args[r].limit = All \/ count[r] <= args[r].limit
               /\ spent[r] \in 0 .. cap[r]
               /\ pc[r] = "turns" => place[r].s \in 1 .. Len(Scenarios(r))
    <3>1. pc[r] = "turns" => Scenarios(r) \in Seq(Scenario)
      BY RunnerConstants DEF RunsInv, TypeInv, Scenarios, Admitted
    <3>2. args[r] \in Invocations \cup {Missing} /\ count[r] \in Nat
      BY DEF RunsInv, TypeInv
    <3>3. Admitted(r) => args[r] # Missing /\ args[r].split \in DOMAIN plan
      BY RunnerConstants DEF RunsInv, TypeInv
    <3>4. Admitted(r) => args[r].limit = All \/ count[r] <= args[r].limit
      BY DEF RunsInv, LocalInv
    <3>5. pc[r] = "turns" => place[r].s \in 1 .. Len(Scenarios(r))
      BY <3>1 DEF RunsInv, TypeInv, LocalInv, PlaceIn
    <3>6. here[r] \in 0 .. count[r] /\ spent[r] \in 0 .. cap[r]
      BY DEF RunsInv, TypeInv, LocalInv
    <3> QED
      BY <3>2, <3>3, <3>4, <3>5, <3>6
  <2>2. plan \in Plans /\ config \in Configs /\ pc \in [Runs -> Places]
    BY DEF RunsInv, TypeInv
  <2>3. directory \in {"fresh", "used"} /\ (Whole(ledgerFile) => ledgerFile \in Nat)
    BY DEF RunsInv, TypeInv
  <2> QED
    BY <2>1, <2>2, <2>3 DEF TypeOK
<1> QED
  BY <1>1, RunsAlways, PTL

-----------------------------------------------------------------------------
(* A run id is used once *)

Busy == {"create", "client", "scenarios", "turns", "ledger", "summary"}

BusyInv ==
    /\ \A r, q \in Runs : pc[r] \in Busy /\ pc[q] \in Busy => r = q
    /\ \A r \in Runs : pc[r] \in Busy => directory = IF pc[r] = "create" THEN "fresh" ELSE "used"
    /\ Whole(summaryFile) => directory = "used" /\ \A r \in Runs : pc[r] \notin Busy

\* What a step does to the run directory
Enters(r) ==
    /\ pc[r] = "start" /\ pc'[r] \in {"refused", "preflighted", "create"}
    /\ pc'[r] = "create" => directory = "fresh" /\ (Overlap \/ \A q \in Runs : pc[q] # "create")
    /\ UNCHANGED <<directory, summaryFile, traces, stores, ledgerFile>>
Creates(r) == pc[r] = "create" /\ pc'[r] = "client" /\ directory' = "used" /\ summaryFile' = summaryFile
Proceeds(r) ==
    /\ pc[r] \in Busy \ {"create"} /\ pc'[r] # "create"
    /\ UNCHANGED <<directory, summaryFile>>
Summarises(r) == pc[r] = "summary" /\ pc'[r] \in {"results", "dead"} /\ UNCHANGED directory
Leaves(r) == pc'[r] \notin Busy /\ UNCHANGED <<directory, traces, stores, ledgerFile, summaryFile>>

\* Every step of a run is one of these.
LEMMA DirectorySteps ==
    ASSUME TypeInv, NEW r \in Runs, RunStep(r)
    PROVE  Enters(r) \/ Creates(r) \/ Proceeds(r) \/ Summarises(r) \/ Leaves(r)
<1> USE DEF TypeInv, Busy
<1>1. ASSUME NEW a \in Invocations, NEW pinned \in BOOLEAN, Invoke(r, a, pinned) PROVE Enters(r)
  BY <1>1 DEF Invoke, Enters, FreshRunDir, files
<1>2. CASE CreateRunDir(r)
  BY <1>2 DEF CreateRunDir, Creates
<1>3. CASE MakeClient(r)
  BY <1>3 DEF MakeClient, Proceeds
<1>4. CASE EndScenarios(r)
  BY <1>4 DEF EndScenarios, Close, Proceeds
<1>5. CASE SkipScenario(r)
  BY <1>5 DEF SkipScenario, files, Proceeds
<1>6. CASE OpenScenario(r)
  <2>1. pc' = [pc EXCEPT ![r] = "failed"] \/ pc' = [pc EXCEPT ![r] = "turns"]
    BY <1>6 DEF OpenScenario, Close
  <2>2. pc[r] = "scenarios" /\ UNCHANGED <<directory, summaryFile>>
    BY <1>6 DEF OpenScenario
  <2> QED
    BY <2>1, <2>2 DEF Proceeds
<1>7. CASE SkipTurn(r)
  BY <1>7 DEF SkipTurn, AtTurn, files, Proceeds
<1>8. ASSUME NEW c \in CostsOf(r), HandleQuery(r, c) PROVE Proceeds(r)
  BY <1>8 DEF HandleQuery, AtTurn, Proceeds
<1>9. ASSUME NEW c \in CostsOf(r), QueryRaises(r, c) PROVE Proceeds(r)
  BY <1>9 DEF QueryRaises, AtTurn, Close, Proceeds
<1>10. CASE Flush(r)
  BY <1>10 DEF Flush, Close, Proceeds
<1>11. CASE CloseScenario(r)
  BY <1>11 DEF CloseScenario, files, Proceeds
<1>12. CASE WriteLedger(r)
  BY <1>12 DEF WriteLedger, Puts, Proceeds
<1>13. CASE WriteSummary(r)
  BY <1>13 DEF WriteSummary, Puts, Summarises
<1>14. CASE WriteResults(r)
  BY <1>14 DEF WriteResults, Puts, Leaves
<1>15. CASE Crash(r)
  BY <1>15 DEF Crash, files, Leaves
<1> QED
  BY <1>1, <1>2, <1>3, <1>4, <1>5, <1>6, <1>7, <1>8, <1>9, <1>10, <1>11, <1>12, <1>13,
     <1>14, <1>15 DEF RunStep

\* At most one run is busy, when the runs do not overlap.
LEMMA BusyStep ==
    ASSUME ~Overlap, TypeInv, BusyInv, [Next]_vars
    PROVE  BusyInv'
<1>1. ASSUME NEW c \in Configs, Configure(c) PROVE BusyInv'
  BY <1>1 DEF Configure, files, BusyInv, Whole
<1>2. ASSUME NEW r \in Runs, RunStep(r) PROVE BusyInv'
  <2>1. \A q \in Runs : q # r => pc'[q] = pc[q]
    BY <1>2, Bystanders DEF Same
  <2>2. CASE Enters(r)
    BY <2>1, <2>2 DEF Enters, BusyInv, Busy, Whole
  <2>3. CASE Creates(r)
    BY <2>1, <2>3 DEF Creates, BusyInv, Busy, Whole
  <2>4. CASE Proceeds(r)
    BY <2>1, <2>4 DEF Proceeds, BusyInv, Busy, Whole
  <2>5. CASE Summarises(r)
    BY <2>1, <2>5 DEF Summarises, BusyInv, Busy
  <2>6. CASE Leaves(r)
    BY <2>1, <2>6 DEF Leaves, BusyInv, Whole
  <2> QED
    BY <1>2, <2>2, <2>3, <2>4, <2>5, <2>6, DirectorySteps
<1>3. CASE UNCHANGED vars
  BY <1>3 DEF vars, files, BusyInv, Whole
<1> QED
  BY <1>1, <1>2, <1>3, NextIsRunStep

Settled == <<traces, stores, ledgerFile, summaryFile>>

\* Nothing is written beside a summary.
LEMMA SummaryStep ==
    ASSUME TypeInv, BusyInv, [Next]_vars, Whole(summaryFile)
    PROVE  UNCHANGED Settled
<1>1. ASSUME NEW c \in Configs, Configure(c) PROVE UNCHANGED Settled
  BY <1>1 DEF Configure, files, Settled
<1>2. ASSUME NEW r \in Runs, RunStep(r) PROVE UNCHANGED Settled
  <2>1. pc[r] \notin Busy
    BY DEF BusyInv
  <2>2. Enters(r) \/ Leaves(r)
    BY <1>2, <2>1, DirectorySteps DEF Creates, Proceeds, Summarises, Busy
  <2> QED
    BY <2>2 DEF Enters, Leaves, Settled
<1>3. CASE UNCHANGED vars
  BY <1>3 DEF vars, files, Settled
<1> QED
  BY <1>1, <1>2, <1>3, NextIsRunStep

\* A run that has its summary keeps its traces, stores, ledger and summary, when no
\* two runs look at the directory before either has created it (_ensure_fresh_run_dir).
THEOREM SummariesAreFinal == ~Overlap => (Spec => SummaryIsFinal)
<1> SUFFICES ASSUME ~Overlap PROVE Spec => SummaryIsFinal
  OBVIOUS
<1>1. Init => BusyInv
  BY DEF Init, BusyInv, Busy, Whole
<1>2. BusyInv /\ TypeInv /\ [Next]_vars => BusyInv'
  BY BusyStep
<1>3. BusyInv /\ TypeInv /\ [Next]_vars
        => [Whole(summaryFile) => UNCHANGED <<traces, stores, ledgerFile, summaryFile>>]_vars
  BY SummaryStep DEF Settled
<1>4. RunsInv => TypeInv
  BY DEF RunsInv
<1> QED
  BY <1>1, <1>2, <1>3, <1>4, RunsAlways, PTL DEF Spec, SummaryIsFinal

-----------------------------------------------------------------------------
(* What the stores hold *)

Result == [id : STRING, queries : Nat, final : Seq(Entry)]
Owner(q) == pc[q] = "turns"

\* A paid run wrote w only for a query it may serve
Permitted(w) ==
    /\ w.run \in Runs /\ Admitted(w.run)
    /\ args[w.run].provider = "gemini" => w.query \in Allowlist \cup {"seed"}

\* The store of the scenario run q is in is its own
Owned(q) ==
    LET id == Current(q).id
    IN  /\ id \in Ids /\ stores[id] # Missing
        /\ \A i \in 1 .. Len(stores[id]) :
             stores[id][i].run = q /\ stores[id][i].s = place[q].s

OneWriter(id) ==
    \A i, j \in 1 .. Len(stores[id]) :
        stores[id][i].run = stores[id][j].run /\ stores[id][i].s = stores[id][j].s

\* Nobody writes the store a result reports any more
Closed(e) ==
    /\ e.id \in Ids /\ stores[e.id] # Missing /\ e.final = stores[e.id]
    /\ \A q \in Runs : Owner(q) => Current(q).id # e.id

StoreInv ==
    /\ stores \in [Ids -> Seq(Entry) \cup {Missing}]
    /\ \A q \in Runs : Owner(q) => Owned(q)
    /\ \A q, p \in Runs : Owner(q) /\ Owner(p) /\ Current(q).id = Current(p).id => q = p
    /\ \A id \in Ids : stores[id] # Missing =>
         OneWriter(id) /\ \A i \in 1 .. Len(stores[id]) : Permitted(stores[id][i])
    /\ results \in [Runs -> Seq(Result)]
    /\ \A q \in Runs : \A i \in 1 .. Len(results[q]) : Closed(results[q][i])
    /\ Whole(resultsFile) =>
         resultsFile \in Seq(Result) /\ \A i \in 1 .. Len(resultsFile) : Closed(resultsFile[i])

\* Stores and positions stay; who is admitted stays
Still ==
    /\ UNCHANGED <<plan, stores>>
    /\ \A q \in Runs : pc'[q] = "turns" =>
         pc[q] = "turns" /\ args'[q] = args[q] /\ place'[q].s = place[q].s
    /\ \A q \in Runs : Admitted(q) => Admitted(q)' /\ args'[q] = args[q]

\* Such a step keeps stores with their owners ...
LEMMA StillOwned ==
    ASSUME Still, NEW q \in Runs, Owner(q)'
    PROVE  Owner(q) /\ Current(q)' = Current(q) /\ (Owned(q) => Owned(q)')
<1>1. Owner(q) /\ args'[q] = args[q] /\ place'[q].s = place[q].s /\ plan' = plan /\ stores' = stores
  BY DEF Still, Owner
<1>2. Current(q)' = Current(q)
  BY <1>1 DEF Current, Scenarios
<1>3. Ids' = Ids
  BY <1>1 DEF Ids
<1> QED
  BY <1>1, <1>2, <1>3 DEF Owned

\* ... and results with their stores.
LEMMA StillClosed ==
    ASSUME Still, NEW e, Closed(e)
    PROVE  e.id \in Ids' /\ stores'[e.id] # Missing /\ e.final = stores'[e.id]
           /\ \A q \in Runs : Owner(q)' => Current(q)'.id # e.id
<1>1. Ids' = Ids /\ stores' = stores
  BY DEF Still, Ids
<1> QED
  BY <1>1, StillOwned DEF Closed

\* What such a step leaves of the invariant.
LEMMA StillStores ==
    ASSUME StoreInv, Still
    PROVE  /\ stores' \in [Ids' -> Seq(Entry) \cup {Missing}]
           /\ \A q \in Runs : Owner(q)' => Owned(q)'
           /\ \A q, p \in Runs : Owner(q)' /\ Owner(p)' /\ Current(q)'.id = Current(p)'.id => q = p
           /\ \A id \in Ids' : stores'[id] # Missing =>
                OneWriter(id)' /\ \A i \in 1 .. Len(stores'[id]) : Permitted(stores[id][i])'
<1>1. Ids' = Ids /\ stores' = stores
  BY DEF Still, Ids
<1>2. \A q \in Runs : Owner(q)' => Owned(q)'
  BY StillOwned DEF StoreInv
<1>3. \A q, p \in Runs : Owner(q)' /\ Owner(p)' /\ Current(q)'.id = Current(p)'.id => q = p
  BY StillOwned DEF StoreInv
<1>4. ASSUME NEW id \in Ids, stores[id] # Missing PROVE OneWriter(id)'
  BY <1>1, <1>4 DEF StoreInv, OneWriter
<1>5. ASSUME NEW id \in Ids, stores[id] # Missing, NEW i \in 1 .. Len(stores[id])
      PROVE  Permitted(stores[id][i])'
  <2>1. Permitted(stores[id][i])
    BY <1>5 DEF StoreInv
  <2> QED
    BY <1>1, <2>1 DEF Permitted, Still
<1> QED
  BY <1>1, <1>2, <1>3, <1>4, <1>5 DEF StoreInv

\* A step that neither writes a store nor reports one
LEMMA QuietStep ==
    ASSUME StoreInv, Still, UNCHANGED results, resultsFile' = resultsFile \/ ~Whole(resultsFile)'
    PROVE  StoreInv'
<1>1. ASSUME NEW q \in Runs, NEW i \in 1 .. Len(results'[q]) PROVE Closed(results[q][i])'
  <2>1. Closed(results[q][i])
    BY <1>1 DEF StoreInv
  <2> QED
    BY <2>1, StillClosed DEF Closed
<1>2. ASSUME Whole(resultsFile)'
      PROVE  resultsFile' \in Seq(Result) /\ \A i \in 1 .. Len(resultsFile') : Closed(resultsFile[i])'
  <2>1. resultsFile' = resultsFile /\ Whole(resultsFile)
    BY <1>2 DEF Whole
  <2>2. ASSUME NEW i \in 1 .. Len(resultsFile') PROVE Closed(resultsFile[i])'
    <3>1. Closed(resultsFile[i])
      BY <2>1, <2>2 DEF StoreInv
    <3> QED
      BY <2>1, <3>1, StillClosed DEF Closed
  <2> QED
    BY <2>1, <2>2 DEF StoreInv
<1> QED
  BY <1>1, <1>2, StillStores DEF StoreInv

\* A step on the store of the scenario that run r is in or opens
Grows(r, new, next) ==
    LET id == Current(r).id
    IN  /\ Owner(r) \/ (pc[r] = "scenarios" /\ stores[id] = Missing)
        /\ pc' = [pc EXCEPT ![r] = next] /\ next \in {"turns", "failed"}
        /\ stores' = [stores EXCEPT ![id] = new]
        /\ new \in Seq(Entry)
        /\ \A i \in 1 .. Len(new) :
             new[i].run = r /\ new[i].s = place[r].s /\ Permitted(new[i])
        /\ UNCHANGED <<asked, results, resultsFile>>
        /\ \A q \in Runs : place'[q].s = place[q].s

\* A step on the own store keeps the invariant.
LEMMA GrowStep ==
    ASSUME TypeInv, StoreInv, NEW r \in Runs, NEW new, NEW next, Grows(r, new, next),
           Current(r).id \in Ids
    PROVE  StoreInv'
<1> DEFINE own == Current(r).id
<1>1. /\ Ids' = Ids
      /\ \A q \in Runs : Current(q)' = Current(q)
      /\ stores \in [Ids -> Seq(Entry) \cup {Missing}]
      /\ \A id \in Ids : stores'[id] = IF id = own THEN new ELSE stores[id]
      /\ \A q \in Runs \ {r} : pc'[q] = pc[q]
      /\ new # Missing
  <2>1. Ids' = Ids
    BY DEF Grows, asked, Ids
  <2>2. ASSUME NEW q \in Runs PROVE Current(q)' = Current(q)
    BY DEF Grows, asked, Current, Scenarios
  <2>3. new # Missing
    BY RunnerConstants DEF Grows, Entry
  <2> QED
    BY <2>1, <2>2, <2>3 DEF Grows, StoreInv, TypeInv
<1>2. ASSUME NEW q \in Runs, q # r, Owner(q) PROVE Current(q).id # own
  BY <1>2 DEF StoreInv, Grows, Owned
<1>3. stores' \in [Ids' -> Seq(Entry) \cup {Missing}]
  BY <1>1 DEF Grows
<1>4. ASSUME NEW q \in Runs, Owner(q)' PROVE Owned(q)'
  <2>1. CASE q = r
    <3>1. \A i \in 1 .. Len(stores'[own]) : stores'[own][i].run = r /\ stores'[own][i].s = place'[r].s
      BY <1>1 DEF Grows
    <3> QED
      BY <1>1, <2>1, <3>1 DEF Owned
  <2>2. CASE q # r
    <3>1. Owner(q)
      BY <1>1, <1>4, <2>2 DEF Owner
    <3>2. Owned(q) /\ Current(q).id # own
      BY <1>2, <2>2, <3>1 DEF StoreInv
    <3>3. place'[q].s = place[q].s
      BY DEF Grows
    <3> QED
      BY <1>1, <3>2, <3>3 DEF Owned
  <2> QED
    BY <2>1, <2>2
<1>5. ASSUME NEW q \in Runs, NEW p \in Runs, Owner(q)', Owner(p)', Current(q)'.id = Current(p)'.id
      PROVE  q = p
  BY <1>1, <1>2, <1>5 DEF StoreInv, Owner
<1>6. ASSUME NEW w, Permitted(w) PROVE Permitted(w)'
  BY <1>6 DEF Permitted, Grows, Admitted, asked, TypeInv
<1>7. ASSUME NEW id \in Ids, stores'[id] # Missing
      PROVE  OneWriter(id)' /\ \A i \in 1 .. Len(stores'[id]) : Permitted(stores[id][i])'
  <2>1. CASE id = own
    <3>1. stores'[id] = new
      BY <1>1, <2>1
    <3>2. OneWriter(id)'
      BY <3>1 DEF OneWriter, Grows
    <3>3. ASSUME NEW i \in 1 .. Len(stores'[id]) PROVE Permitted(stores[id][i])'
      BY <1>6, <3>1, <3>3 DEF Grows, Permitted
    <3> QED
      BY <3>2, <3>3
  <2>2. CASE id # own
    <3>1. stores'[id] = stores[id] /\ OneWriter(id)
      BY <1>1, <1>7, <2>2 DEF StoreInv
    <3>2. OneWriter(id)'
      BY <3>1 DEF OneWriter
    <3>3. ASSUME NEW i \in 1 .. Len(stores'[id]) PROVE Permitted(stores[id][i])'
      BY <1>6, <1>7, <3>1, <3>3 DEF StoreInv, Permitted
    <3> QED
      BY <3>2, <3>3
  <2> QED
    BY <2>1, <2>2
<1>8. ASSUME NEW e, Closed(e)
      PROVE  e.id \in Ids' /\ stores'[e.id] # Missing /\ e.final = stores'[e.id]
             /\ \A q \in Runs : Owner(q)' => Current(q)'.id # e.id
  <2>1. e.id # own
    BY <1>8 DEF Closed, Grows
  <2>2. ASSUME NEW q \in Runs, Owner(q)' PROVE Current(q)'.id # e.id
    BY <1>1, <1>8, <2>1, <2>2 DEF Closed, Owner
  <2> QED
    BY <1>1, <1>8, <2>1, <2>2 DEF Closed
<1>9. ASSUME NEW q \in Runs, NEW i \in 1 .. Len(results'[q]) PROVE Closed(results[q][i])'
  <2>1. Closed(results[q][i]) /\ results' = results
    BY <1>9 DEF StoreInv, Grows
  <2> QED
    BY <1>8, <2>1 DEF Closed
<1>10. ASSUME Whole(resultsFile)'
       PROVE  resultsFile' \in Seq(Result) /\ \A i \in 1 .. Len(resultsFile') : Closed(resultsFile[i])'
  <2>1. resultsFile' = resultsFile /\ Whole(resultsFile)
    BY <1>10 DEF Whole, Grows
  <2>2. ASSUME NEW i \in 1 .. Len(resultsFile') PROVE Closed(resultsFile[i])'
    <3>1. Closed(resultsFile[i])
      BY <2>1, <2>2 DEF StoreInv
    <3> QED
      BY <1>8, <2>1, <3>1 DEF Closed
  <2> QED
    BY <2>1, <2>2 DEF StoreInv
<1>11. results' \in [Runs -> Seq(Result)]
  BY DEF StoreInv, Grows
<1> QED
  BY <1>1, <1>3, <1>4, <1>5, <1>7, <1>9, <1>10, <1>11 DEF StoreInv

\* The scenario a run is at, and what its turns are
LEMMA CurrentType ==
    ASSUME TypeInv, NEW r \in Runs, Admitted(r), place[r].s <= Len(Scenarios(r))
    PROVE  Current(r) \in Scenario /\ Current(r).id \in Ids
<1>1. args[r].split \in DOMAIN plan /\ Scenarios(r) \in Seq(Scenario)
  BY RunnerConstants DEF TypeInv, Scenarios
<1>2. place[r].s \in 1 .. Len(Scenarios(r))
  BY <1>1 DEF TypeInv, PlaceIn
<1>3. Current(r) \in Scenario
  BY <1>1, <1>2 DEF Current
<1>4. Current(r).id \in Ids
  BY <1>1, <1>2 DEF Ids, Current, Scenarios
<1> QED
  BY <1>3, <1>4

\* A paid run only asks what the allowlist names
LEMMA QueryPermitted ==
    ASSUME TypeInv, NEW r \in Runs, LocalInv(r), AtTurn(r), Selects(r, Query(r))
    PROVE  /\ Current(r).id \in Ids /\ Query(r) \in STRING
           /\ args[r].provider = "gemini" => Query(r) \in Allowlist
<1>1. Admitted(r) /\ place[r].s <= Len(Scenarios(r)) /\ place[r].t <= Len(Current(r).turns)
  BY DEF AtTurn, Admitted, LocalInv
<1>2. Current(r) \in Scenario /\ Current(r).id \in Ids
  BY <1>1, CurrentType
<1>3. Query(r) \in STRING
  <2>1. Current(r).turns \in Seq(STRING)
    BY <1>2 DEF Scenario
  <2>2. place[r].t \in 1 .. Len(Current(r).turns)
    BY <1>1, <2>1 DEF TypeInv, PlaceIn
  <2> QED
    BY <2>1, <2>2 DEF Query
<1>4. args[r].provider = "gemini" => Query(r) \in Allowlist
  BY <1>1 DEF LocalInv, Confirmed, Selects, Selective
<1> QED
  BY <1>2, <1>3, <1>4

\* A query writes to the own store.
LEMMA WriteStep ==
    ASSUME TypeInv, StoreInv, NEW r \in Runs, LocalInv(r), AtTurn(r), Selects(r, Query(r)),
           Writes(r), NEW next \in {"turns", "failed"}, pc' = [pc EXCEPT ![r] = next],
           UNCHANGED <<asked, results, resultsFile>>, \A q \in Runs : place'[q].s = place[q].s
    PROVE  StoreInv'
<1> DEFINE w == [run |-> r, s |-> place[r].s, query |-> Query(r)]
           old == stores[Current(r).id]
<1>1. pc[r] = "turns" /\ Current(r).id \in Ids
  BY QueryPermitted DEF AtTurn
<1>2. Owned(r) /\ old \in Seq(Entry)
  BY <1>1 DEF StoreInv, Owner, Owned
<1>3. w \in Entry /\ Permitted(w)
  BY <1>1, QueryPermitted DEF Entry, Permitted, Admitted, TypeInv, PlaceIn
<1>4. \A i \in 1 .. Len(old) : old[i].run = r /\ old[i].s = place[r].s /\ Permitted(old[i])
  BY <1>1, <1>2 DEF Owned, StoreInv
<1>5. Append(old, w) \in Seq(Entry)
  BY <1>2, <1>3
<1>6. ASSUME NEW i \in 1 .. Len(Append(old, w))
      PROVE  /\ Append(old, w)[i].run = r /\ Append(old, w)[i].s = place[r].s
             /\ Permitted(Append(old, w)[i])
  <2>1. CASE i \in 1 .. Len(old)
    <3>1. Append(old, w)[i] = old[i]
      BY <1>2, <1>3, <2>1
    <3> QED
      BY <1>4, <2>1, <3>1
  <2>2. CASE i = Len(old) + 1
    <3>1. Append(old, w)[i] = w
      BY <1>2, <1>3, <2>2
    <3> QED
      BY <1>3, <3>1
  <2>3. Len(Append(old, w)) = Len(old) + 1 /\ Len(old) \in Nat
    BY <1>2, <1>3
  <2>4. i \in 1 .. Len(old) \/ i = Len(old) + 1
    BY <1>6, <2>3
  <2> HIDE DEF old, w
  <2> QED
    BY <2>1, <2>2, <2>4
<1>7. stores' = [stores EXCEPT ![Current(r).id] = Append(old, w)]
  BY DEF Writes
<1>8. Grows(r, Append(old, w), next)
  BY <1>1, <1>5, <1>6, <1>7 DEF Grows, Owner
<1> QED
  BY <1>1, <1>8, GrowStep

\* Opening a scenario makes its store the own one.
LEMMA OpenStep ==
    ASSUME TypeInv, StoreInv, NEW r \in Runs, OpenScenario(r)
    PROVE  StoreInv'
<1> DEFINE id == Current(r).id
           fixture == [run |-> r, s |-> place[r].s, query |-> "seed"]
<1>1. /\ pc[r] = "scenarios" /\ place[r].s <= Len(Scenarios(r))
      /\ UNCHANGED <<asked, results, resultsFile>>
  BY DEF OpenScenario
<1>2. \A q \in Runs : place'[q].s = place[q].s
  BY FirstTurn DEF OpenScenario, TypeInv
<1>3. id \in Ids
  BY <1>1, CurrentType DEF Admitted
<1>4. CASE RefusesDb(r)
  <2>1. pc' = [pc EXCEPT ![r] = "failed"] /\ UNCHANGED stores
    BY <1>4 DEF OpenScenario, Close
  <2>2. Still
    BY <1>1, <1>2, <2>1 DEF Still, asked, Admitted, TypeInv
  <2> QED
    BY <1>1, <2>2, QuietStep
<1>5. CASE ~RefusesDb(r)
  <2>1. stores[id] = Missing
    BY <1>5 DEF RefusesDb
  <2>2. \/ pc' = [pc EXCEPT ![r] = "turns"] /\ stores' = [stores EXCEPT ![id] = <<fixture>>]
        \/ pc' = [pc EXCEPT ![r] = "turns"] /\ stores' = [stores EXCEPT ![id] = << >>]
        \/ pc' = [pc EXCEPT ![r] = "failed"] /\ stores' = [stores EXCEPT ![id] = << >>]
    BY <1>5, <2>1 DEF OpenScenario, Close
  <2>3. fixture \in Entry /\ Permitted(fixture)
    <3>1. place[r].s \in Nat
      BY DEF TypeInv, PlaceIn
    <3>2. fixture \in Entry
      BY <3>1 DEF Entry
    <3>3. fixture.run = r /\ fixture.query \in Allowlist \cup {"seed"}
      OBVIOUS
    <3>4. Admitted(r)
      BY <1>1 DEF Admitted
    <3> HIDE DEF fixture
    <3> QED
      BY <3>2, <3>3, <3>4 DEF Permitted
  <2>4. ASSUME NEW next \in {"turns", "failed"}, pc' = [pc EXCEPT ![r] = next],
               stores' = [stores EXCEPT ![id] = << >>]
        PROVE  StoreInv'
    <3>1. Grows(r, << >>, next)
      BY <1>1, <1>2, <2>1, <2>4 DEF Grows
    <3> QED
      BY <1>3, <3>1, GrowStep
  <2>5. ASSUME pc' = [pc EXCEPT ![r] = "turns"], stores' = [stores EXCEPT ![id] = <<fixture>>]
        PROVE  StoreInv'
    <3>1. <<fixture>> \in Seq(Entry) /\ Len(<<fixture>>) = 1 /\ <<fixture>>[1] = fixture
      BY <2>3
    <3>2. Grows(r, <<fixture>>, "turns")
      BY <1>1, <1>2, <2>1, <2>3, <2>5, <3>1 DEF Grows
    <3> QED
      BY <1>3, <3>2, GrowStep
  <2> QED
    BY <2>2, <2>4, <2>5
<1> QED
  BY <1>4, <1>5

\* Closing a scenario reports a store nobody writes any more.
LEMMA CloseStep ==
    ASSUME TypeInv, StoreInv, NEW r \in Runs, LocalInv(r), CloseScenario(r)
    PROVE  StoreInv'
<1> DEFINE id == Current(r).id
           new == [id |-> id, queries |-> here[r], final |-> stores[id]]
<1>1. /\ pc[r] = "turns" /\ pc' = [pc EXCEPT ![r] = "scenarios"]
      /\ UNCHANGED <<asked, files>>
      /\ results' = results \/ results' = [results EXCEPT ![r] = Append(@, new)]
  BY DEF CloseScenario
<1>2. \A q \in Runs \ {r} : place'[q] = place[q]
  BY NextScenario DEF CloseScenario, TypeInv
<1>3. Still
  BY <1>1, <1>2 DEF Still, asked, files, Admitted, TypeInv
<1>4. ~Owner(r)'
  BY <1>1 DEF Owner, TypeInv
<1>5. Owned(r) /\ new \in Result
  <2>1. Owned(r)
    BY <1>1 DEF StoreInv, Owner
  <2>2. Current(r) \in Scenario
    BY <1>1, CurrentType DEF Admitted, LocalInv
  <2>3. stores[id] \in Seq(Entry)
    BY <2>1 DEF Owned, StoreInv
  <2> QED
    BY <2>1, <2>2, <2>3 DEF Scenario, Result, TypeInv
<1>6. /\ id \in Ids' /\ stores'[id] # Missing /\ new.id = id /\ new.final = stores'[id]
      /\ \A q \in Runs : Owner(q)' => Current(q)'.id # id
  <2>1. id \in Ids' /\ stores' = stores /\ stores[id] # Missing
    BY <1>1, <1>5 DEF Owned, files, asked, Ids
  <2>2. ASSUME NEW q \in Runs, Owner(q)' PROVE Current(q)'.id # id
    BY <1>1, <1>3, <1>4, <2>2, StillOwned DEF StoreInv, Owner
  <2> QED
    BY <2>1, <2>2
<1>7. ASSUME NEW q \in Runs, NEW i \in 1 .. Len(results'[q])
      PROVE  results'[q] \in Seq(Result) /\ Closed(results[q][i])'
  <2>1. results[q] \in Seq(Result)
    BY DEF StoreInv
  <2>2. CASE results'[q] = results[q]
    <3>1. Closed(results[q][i])
      BY <1>7, <2>2 DEF StoreInv
    <3> QED
      BY <1>3, <2>1, <2>2, <3>1, StillClosed DEF Closed
  <2>3. CASE results'[q] = Append(results[q], new)
    <3>1. results'[q] \in Seq(Result)
      BY <1>5, <2>1, <2>3
    <3>2. CASE i = Len(results[q]) + 1
      <4>1. results'[q][i] = new
        BY <1>5, <2>1, <2>3, <3>2
      <4> QED
        BY <1>6, <3>1, <4>1 DEF Closed
    <3>3. CASE i \in 1 .. Len(results[q])
      <4>1. results'[q][i] = results[q][i] /\ Closed(results[q][i])
        BY <1>5, <2>1, <2>3, <3>3 DEF StoreInv
      <4> QED
        BY <1>3, <3>1, <4>1, StillClosed DEF Closed
    <3>4. i \in 1 .. Len(results[q]) + 1
      BY <1>5, <1>7, <2>1, <2>3
    <3> QED
      BY <2>1, <3>2, <3>3, <3>4
  <2>4. results'[q] = results[q] \/ results'[q] = Append(results[q], new)
    BY <1>1 DEF StoreInv
  <2> QED
    BY <2>2, <2>3, <2>4
<1>8. results' \in [Runs -> Seq(Result)]
  <2>1. results[r] \in Seq(Result) /\ Append(results[r], new) \in Seq(Result)
    BY <1>5 DEF StoreInv
  <2> HIDE DEF new
  <2> QED
    BY <1>1, <2>1 DEF StoreInv
<1>9. ASSUME Whole(resultsFile)'
      PROVE  resultsFile' \in Seq(Result) /\ \A i \in 1 .. Len(resultsFile') : Closed(resultsFile[i])'
  <2>1. resultsFile' = resultsFile /\ Whole(resultsFile)
    BY <1>1, <1>9 DEF Whole, files
  <2>2. ASSUME NEW i \in 1 .. Len(resultsFile') PROVE Closed(resultsFile[i])'
    <3>1. Closed(resultsFile[i])
      BY <2>1, <2>2 DEF StoreInv
    <3> QED
      BY <1>3, <2>1, <3>1, StillClosed DEF Closed
  <2> QED
    BY <2>1, <2>2 DEF StoreInv
<1> QED
  BY <1>3, <1>7, <1>8, <1>9, StillStores DEF StoreInv

\* Every step keeps what the stores hold.
LEMMA StoreStep ==
    ASSUME RunsInv, StoreInv, [Next]_vars
    PROVE  StoreInv'
<1> USE DEF RunsInv
<1>1. ASSUME NEW c \in Configs, Configure(c) PROVE StoreInv'
  <2>1. Still /\ UNCHANGED <<results, resultsFile>>
    BY <1>1 DEF Configure, files, Still, Admitted
  <2> QED
    BY <2>1, QuietStep
<1>2. ASSUME NEW r \in Runs, RunStep(r) PROVE StoreInv'
  <2> USE DEF TypeInv
  <2>1. ASSUME NEW a \in Invocations, NEW pinned \in BOOLEAN, Invoke(r, a, pinned) PROVE StoreInv'
    <3>1. Still /\ UNCHANGED <<results, resultsFile>>
      BY <2>1 DEF Invoke, files, Still, Admitted
    <3> QED
      BY <3>1, QuietStep
  <2>2. CASE CreateRunDir(r)
    <3>1. Still /\ UNCHANGED <<results, resultsFile>>
      BY <2>2 DEF CreateRunDir, asked, Still, Admitted
    <3> QED
      BY <3>1, QuietStep
  <2>3. CASE MakeClient(r)
    <3>1. Still /\ UNCHANGED <<results, resultsFile>>
      BY <2>3 DEF MakeClient, Still, Admitted
    <3> QED
      BY <3>1, QuietStep
  <2>4. CASE EndScenarios(r)
    <3>1. Still /\ UNCHANGED <<results, resultsFile>>
      BY <2>4 DEF EndScenarios, Close, asked, Still, Admitted
    <3> QED
      BY <3>1, QuietStep
  <2>5. CASE SkipScenario(r)
    <3>1. Still /\ UNCHANGED <<results, resultsFile>>
      BY <2>5, NextScenario DEF SkipScenario, asked, files, Still, Admitted
    <3> QED
      BY <3>1, QuietStep
  <2>6. CASE OpenScenario(r)
    BY <2>6, OpenStep
  <2>7. CASE SkipTurn(r)
    <3>1. Still /\ UNCHANGED <<results, resultsFile>>
      BY <2>7, NextTurn DEF SkipTurn, asked, files, Still, Admitted
    <3> QED
      BY <3>1, QuietStep
  <2>8. ASSUME NEW c \in CostsOf(r), HandleQuery(r, c) PROVE StoreInv'
    <3>1. /\ UNCHANGED <<asked, pc, results, resultsFile>>
          /\ \A q \in Runs : place'[q].s = place[q].s
      BY <2>8, NextTurn DEF HandleQuery
    <3>2. CASE UNCHANGED stores
      <4>1. Still
        BY <3>1, <3>2 DEF asked, Still, Admitted
      <4> QED
        BY <3>1, <4>1, QuietStep
    <3>3. CASE Writes(r)
      <4>1. AtTurn(r) /\ Selects(r, Query(r)) /\ pc' = [pc EXCEPT ![r] = "turns"]
        BY <2>8, <3>1 DEF HandleQuery, AtTurn
      <4> QED
        BY <3>1, <3>3, <4>1, WriteStep
    <3> QED
      BY <2>8, <3>2, <3>3 DEF HandleQuery
  <2>9. ASSUME NEW c \in CostsOf(r), QueryRaises(r, c) PROVE StoreInv'
    <3>1. /\ UNCHANGED <<asked, place, results, resultsFile>>
          /\ pc' = [pc EXCEPT ![r] = "failed"] /\ pc[r] = "turns"
      BY <2>9 DEF QueryRaises, Close, AtTurn
    <3>2. CASE UNCHANGED stores
      <4>1. Still
        BY <3>1, <3>2 DEF asked, Still, Admitted
      <4> QED
        BY <3>1, <4>1, QuietStep
    <3>3. CASE Writes(r)
      <4>1. AtTurn(r) /\ Selects(r, Query(r))
        BY <2>9 DEF QueryRaises
      <4> QED
        BY <3>1, <3>3, <4>1, WriteStep
    <3> QED
      BY <2>9, <3>2, <3>3 DEF QueryRaises
  <2>10. CASE Flush(r)
    <3>1. Still /\ UNCHANGED <<results, resultsFile>>
      BY <2>10 DEF Flush, Close, asked, Still, Admitted
    <3> QED
      BY <3>1, QuietStep
  <2>11. CASE CloseScenario(r)
    BY <2>11, CloseStep
  <2>12. CASE WriteLedger(r)
    <3>1. Still /\ UNCHANGED <<results, resultsFile>>
      BY <2>12 DEF WriteLedger, Puts, asked, Still, Admitted
    <3> QED
      BY <3>1, QuietStep
  <2>13. CASE WriteSummary(r)
    <3>1. Still /\ UNCHANGED <<results, resultsFile>>
      BY <2>13 DEF WriteSummary, Puts, asked, Still, Admitted
    <3> QED
      BY <3>1, QuietStep
  <2>14. CASE WriteResults(r)
    <3>1. Still /\ UNCHANGED results
      BY <2>14 DEF WriteResults, Puts, asked, Still, Admitted
    <3>2. CASE ~Whole(resultsFile)'
      BY <3>1, <3>2, QuietStep
    <3>3. CASE resultsFile' = results[r]
      <4>1. ASSUME NEW q \in Runs, NEW i \in 1 .. Len(results[q]) PROVE Closed(results[q][i])'
        <5>1. Closed(results[q][i])
          BY <4>1 DEF StoreInv
        <5> QED
          BY <3>1, <5>1, StillClosed DEF Closed
      <4>2. resultsFile' \in Seq(Result) /\ \A i \in 1 .. Len(resultsFile') : Closed(resultsFile[i])'
        BY <3>1, <3>3, <4>1 DEF StoreInv, Closed
      <4> QED
        BY <3>1, <4>1, <4>2, StillStores DEF StoreInv
    <3> QED
      BY <2>14, <3>2, <3>3 DEF WriteResults, Puts, Whole
  <2>15. CASE Crash(r)
    <3>1. Still /\ UNCHANGED <<results, resultsFile>>
      BY <2>15 DEF Crash, asked, files, Still, Admitted
    <3> QED
      BY <3>1, QuietStep
  <2> QED
    BY <1>2, <2>1, <2>2, <2>3, <2>4, <2>5, <2>6, <2>7, <2>8, <2>9, <2>10, <2>11, <2>12,
       <2>13, <2>14, <2>15 DEF RunStep
<1>3. CASE UNCHANGED vars
  <2>1. Still /\ UNCHANGED <<results, resultsFile>>
    BY <1>3 DEF vars, asked, files, Still, Admitted
  <2> QED
    BY <2>1, QuietStep
<1> QED
  BY <1>1, <1>2, <1>3, NextIsRunStep

\* What the stores hold holds throughout.
LEMMA StoreAlways == Spec => []StoreInv
<1>1. Init => StoreInv
  BY DEF Init, StoreInv, Owner, Whole
<1> QED
  BY <1>1, StoreStep, RunsAlways, PTL DEF Spec

\* Every store is one scenario's of one run, and the results report it as it is
\* on disk, for any number of runs at once and a scenario file that repeats an id.
THEOREM StoresIsolated == Spec => []StoresAreIsolated
<1>1. StoreInv => StoresAreIsolated
  <2> SUFFICES ASSUME StoreInv PROVE StoresAreIsolated
    OBVIOUS
  <2>1. ASSUME NEW id \in Ids, stores[id] # Missing PROVE OneWriter(id)
    BY <2>1 DEF StoreInv
  <2>2. ASSUME Whole(resultsFile), NEW i \in 1 .. Len(resultsFile)
        PROVE  resultsFile[i].final = stores[resultsFile[i].id]
    BY <2>2 DEF StoreInv, Closed
  <2> QED
    BY <2>1, <2>2 DEF StoresAreIsolated, OneWriter
<1> QED
  BY <1>1, StoreAlways, PTL

\* A paid run passed every gate, asks only what the allowlist names, keeps to the
\* budget the gates reported, and no other run pays, for any edit of gemini.yaml.
THEOREM PaidRunsGated == Spec => []PaidRunsAreGated
<1>1. RunsInv /\ StoreInv => PaidRunsAreGated
  <2> SUFFICES ASSUME RunsInv, StoreInv, NEW r \in Runs
               PROVE  /\ Admitted(r) /\ args[r].provider = "gemini" =>
                           /\ args[r].confirmed /\ ~args[r].preflight
                           /\ args[r].split = "development"
                           /\ args[r].budget # Missing => spent[r] <= planned[r]
                           /\ \A id \in Ids : stores[id] # Missing =>
                                \A w \in ToSet(stores[id]) :
                                    w.run = r => w.query \in Allowlist \cup {"seed"}
                      /\ spent[r] > 0 => args[r].provider = "gemini"
    BY DEF PaidRunsAreGated
  <2>1. ASSUME Admitted(r), args[r].provider = "gemini"
        PROVE  /\ args[r].confirmed /\ ~args[r].preflight /\ args[r].split = "development"
               /\ args[r].budget # Missing => spent[r] <= planned[r]
    BY <2>1 DEF RunsInv, TypeInv, LocalInv, Confirmed
  <2>2. ASSUME args[r].provider = "gemini",
               NEW id \in Ids, stores[id] # Missing, NEW w \in ToSet(stores[id]), w.run = r
        PROVE  w.query \in Allowlist \cup {"seed"}
    <3>1. PICK i \in 1 .. Len(stores[id]) : w = stores[id][i]
      BY <2>2 DEF ToSet, StoreInv
    <3> QED
      BY <2>2, <3>1 DEF StoreInv, Permitted
  <2>3. spent[r] > 0 => args[r].provider = "gemini"
    <3> SUFFICES ASSUME spent[r] > 0 PROVE args[r].provider = "gemini"
      OBVIOUS
    <3>1. cap[r] > 0 /\ pc[r] \notin Early
      BY DEF RunsInv, TypeInv, LocalInv
    <3>2. Admitted(r) /\ args[r].provider # "fake"
      BY <3>1 DEF RunsInv, LocalInv, Admitted, Early
    <3> QED
      BY <3>2, RunnerConstants DEF RunsInv, TypeInv, Invocation
  <2> QED
    BY <2>1, <2>2, <2>3
<1> QED
  BY <1>1, RunsAlways, StoreAlways, PTL

-----------------------------------------------------------------------------
(* One ledger per run *)

Trace == [s : Nat, query : STRING, cumulative : Nat,
          error : {"none", "CONFIG_ERROR", "BUDGET_REJECTED"}]
Log(r) == traces \o buffer[r]
Rising(log) == \A i, j \in 1 .. Len(log) : i < j => log[i].cumulative <= log[j].cumulative
EndsAt(log, cost) == log # << >> => Last(log).cumulative = cost

LedgerInv ==
    /\ buffer \in [Runs -> Seq(Trace)]
    /\ traces \in Seq(Trace) \cup {Missing}
    /\ \A r \in Runs : pc[r] \in Early => buffer[r] = << >>
    /\ traces # Missing => Rising(traces)
    /\ \A r \in Runs : pc[r] \in {"scenarios", "turns"} =>
         traces # Missing /\ Rising(Log(r)) /\ EndsAt(Log(r), spent[r])
    /\ \A r \in Runs : pc[r] \in {"ledger", "summary"} =>
         traces # Missing /\ EndsAt(traces, spent[r])
    /\ \A r \in Runs : pc[r] = "summary" => ledgerFile = spent[r]
    /\ Whole(summaryFile) =>
         /\ summaryFile.cost = ledgerFile
         /\ traces # Missing /\ EndsAt(traces, ledgerFile)

\* A trace of no smaller cost at the end of a log
LEMMA RisingAppend ==
    ASSUME NEW log \in Seq(Trace), NEW x \in Trace, NEW cost,
           Rising(log), EndsAt(log, cost), cost <= x.cumulative
    PROVE  Rising(Append(log, x)) /\ EndsAt(Append(log, x), x.cumulative)
<1>1. /\ Len(Append(log, x)) = Len(log) + 1 /\ Append(log, x)[Len(log) + 1] = x
      /\ Append(log, x) # << >>
      /\ \A i \in 1 .. Len(log) : Append(log, x)[i] = log[i]
  OBVIOUS
<1>2. ASSUME NEW i \in 1 .. Len(log) PROVE log[i].cumulative <= x.cumulative
  <2>1. log # << >> /\ Last(log) = log[Len(log)] /\ log[Len(log)].cumulative = cost
    BY <1>2 DEF EndsAt, Last
  <2>2. log[i].cumulative \in Nat /\ x.cumulative \in Nat
    <3>1. log[i] \in Trace
      BY <1>2
    <3> QED
      BY <3>1 DEF Trace
  <2>3. Len(log) \in 1 .. Len(log) /\ (i = Len(log) \/ i < Len(log))
    BY <1>2
  <2>4. log[i].cumulative <= cost
    <3>1. i < Len(log) => log[i].cumulative <= log[Len(log)].cumulative
      BY <1>2, <2>3 DEF Rising
    <3> QED
      BY <2>1, <2>2, <2>3, <3>1
  <2>5. cost \in Nat
    <3>1. log[Len(log)] \in Trace
      BY <2>3
    <3> QED
      BY <2>1, <3>1 DEF Trace
  <2> QED
    BY <2>2, <2>4, <2>5
<1> HIDE DEF Trace
<1>3. Rising(Append(log, x))
  <2> SUFFICES ASSUME NEW i \in 1 .. Len(log) + 1, NEW j \in 1 .. Len(log) + 1, i < j
               PROVE  Append(log, x)[i].cumulative <= Append(log, x)[j].cumulative
    BY <1>1 DEF Rising
  <2>1. i \in 1 .. Len(log)
    OBVIOUS
  <2>2. CASE j = Len(log) + 1
    BY <1>1, <1>2, <2>1, <2>2
  <2>3. CASE j \in 1 .. Len(log)
    BY <1>1, <2>1, <2>3 DEF Rising
  <2> QED
    BY <2>2, <2>3
<1>4. EndsAt(Append(log, x), x.cumulative)
  BY <1>1 DEF EndsAt, Last
<1> QED
  BY <1>3, <1>4

\* Neither a trace nor a cost is added or written
Unwritten ==
    /\ UNCHANGED <<buffer, traces, spent, ledgerFile, summaryFile>>
    /\ \A q \in Runs :
         \/ pc'[q] = pc[q]
         \/ pc'[q] \in {"results", "done", "failed", "dead"}
         \/ pc[q] \in {"scenarios", "turns"} /\ pc'[q] \in {"scenarios", "turns"}
         \/ pc[q] \in Early /\ pc'[q] \in {"refused", "preflighted", "create", "client"}

\* Such a step keeps the invariant.
LEMMA UnwrittenStep ==
    ASSUME LedgerInv, Unwritten
    PROVE  LedgerInv'
<1>1. \A r \in Runs : Log(r)' = Log(r)
  BY DEF Unwritten, Log
<1>2. \A r \in Runs : pc'[r] \in Early => buffer'[r] = << >>
  BY DEF LedgerInv, Unwritten, Early
<1>3. \A r \in Runs : pc'[r] \in {"scenarios", "turns"} =>
        traces' # Missing /\ Rising(Log(r))' /\ EndsAt(Log(r), spent[r])'
  BY <1>1 DEF LedgerInv, Unwritten, Early, Rising, EndsAt
<1>4. \A r \in Runs : pc'[r] \in {"ledger", "summary"} =>
        traces' # Missing /\ EndsAt(traces, spent[r])'
  BY DEF LedgerInv, Unwritten, Early, EndsAt
<1>5. \A r \in Runs : pc'[r] = "summary" => ledgerFile' = spent'[r]
  BY DEF LedgerInv, Unwritten, Early
<1> QED
  BY <1>2, <1>3, <1>4, <1>5 DEF LedgerInv, Unwritten, Rising, EndsAt, Whole

\* A busy run writes the directory alone, and there is no summary yet
LEMMA Alone ==
    ASSUME BusyInv, NEW r \in Runs, pc[r] \in Busy
    PROVE  ~Whole(summaryFile) /\ \A q \in Runs \ {r} : pc[q] \notin Busy
BY DEF BusyInv

\* Leaving or flushing moves the buffer to the file.
LEMMA FlushStep ==
    ASSUME TypeInv, BusyInv, LedgerInv, NEW r \in Runs, NEW next, Close(r, next),
           pc[r] \in {"scenarios", "turns"}, UNCHANGED <<ledgerFile, summaryFile>>,
           \/ next = "failed" /\ \A q \in Runs \ {r} : spent'[q] = spent[q]
           \/ next \in {"scenarios", "turns", "ledger"} /\ UNCHANGED spent
    PROVE  LedgerInv'
<1>1. /\ traces # Missing /\ Rising(Log(r)) /\ EndsAt(Log(r), spent[r])
      /\ ~Whole(summaryFile)
      /\ \A q \in Runs \ {r} : pc[q] \notin Busy /\ pc'[q] = pc[q]
      /\ pc'[r] = next
  BY Alone DEF LedgerInv, Close, TypeInv, Busy
<1>2. traces' = Log(r)
  BY <1>1 DEF Close, Written, Log
<1>3. buffer'[r] = << >> /\ \A q \in Runs \ {r} : buffer'[q] = buffer[q]
  BY DEF Close, LedgerInv
<1>4. traces \in Seq(Trace) /\ buffer[r] \in Seq(Trace)
  BY <1>1 DEF LedgerInv
<1>5. Log(r) \in Seq(Trace)
  BY <1>4 DEF Log
<1>6. Log(r)' = Log(r)
  BY <1>2, <1>3, <1>5 DEF Log
<1>7. Log(r) # Missing
  BY <1>5, RunnerConstants DEF Trace
<1>8. buffer' \in [Runs -> Seq(Trace)]
  BY <1>4 DEF Close, LedgerInv
<1>9. \A q \in Runs : pc'[q] \in Early => buffer'[q] = << >>
  BY <1>1, <1>3 DEF LedgerInv
<1>10. \A q \in Runs : pc'[q] \in Busy => q = r /\ spent' = spent
  BY <1>1 DEF Busy
<1>11. Rising(traces)' /\ (spent' = spent => EndsAt(traces, spent[r])' /\ Rising(Log(r))' /\ EndsAt(Log(r), spent[r])')
  BY <1>1, <1>2, <1>6 DEF Rising, EndsAt
<1>12. pc'[r] # "summary"
  BY <1>1
<1> QED
  BY <1>1, <1>2, <1>5, <1>7, <1>8, <1>9, <1>10, <1>11, <1>12 DEF LedgerInv, Busy, Whole

\* A query leaves one trace, of the query and what the run has spent by then.
LEMMA QueryTraced ==
    ASSUME TypeInv, LedgerInv, NEW r \in Runs, LocalInv(r), NEW c \in CostsOf(r), HandleQuery(r, c)
    PROVE  \E x \in Trace :
               /\ x.s = place[r].s /\ x.query = Query(r) /\ x.cumulative = spent'[r]
               /\ buffer' = [buffer EXCEPT ![r] = Append(@, x)]
               /\ Log(r) \in Seq(Trace) /\ Log(r)' = Append(Log(r), x)
<1> DEFINE total == IF Outcome(r, c) = "none" THEN spent[r] + c ELSE spent[r]
           x == [s |-> place[r].s, query |-> Query(r), cumulative |-> total,
                 error |-> Outcome(r, c)]
<1>1. /\ AtTurn(r) /\ Selects(r, Query(r)) /\ traces' = traces
      /\ buffer' = [buffer EXCEPT ![r] = Append(@, x)]
      /\ spent'[r] = total
  BY DEF HandleQuery, TypeInv
<1>2. x \in Trace
  <2>1. Query(r) \in STRING /\ place[r].s \in Nat
    BY <1>1, QueryPermitted DEF TypeInv, PlaceIn
  <2>2. Outcome(r, c) \in {"none", "CONFIG_ERROR", "BUDGET_REJECTED"}
    BY DEF Outcome
  <2>3. total \in Nat
    BY CostType DEF TypeInv
  <2> HIDE DEF total
  <2> QED
    BY <2>1, <2>2, <2>3 DEF Trace
<1>3. x.s = place[r].s /\ x.query = Query(r) /\ x.cumulative = total
  OBVIOUS
<1> HIDE DEF x, total
<1>4. traces \in Seq(Trace) /\ buffer[r] \in Seq(Trace)
  BY <1>1 DEF LedgerInv, AtTurn
<1>5. Log(r) \in Seq(Trace) /\ Log(r)' = Append(Log(r), x)
  BY <1>1, <1>2, <1>4 DEF Log, LedgerInv
<1> QED
  BY <1>1, <1>2, <1>3, <1>5

\* A query appends the next cost.
LEMMA TraceStep ==
    ASSUME TypeInv, BusyInv, LedgerInv, NEW r \in Runs, LocalInv(r), NEW c \in CostsOf(r),
           HandleQuery(r, c)
    PROVE  LedgerInv'
<1>1. /\ pc[r] = "turns" /\ UNCHANGED <<pc, traces, ledgerFile, summaryFile>>
      /\ spent[r] <= spent'[r] /\ \A q \in Runs \ {r} : spent'[q] = spent[q]
  BY CostType DEF HandleQuery, AtTurn, TypeInv
<1>2. traces # Missing /\ Rising(Log(r)) /\ EndsAt(Log(r), spent[r]) /\ ~Whole(summaryFile)
      /\ \A q \in Runs \ {r} : pc[q] \notin Busy
  BY <1>1, Alone DEF LedgerInv, Busy
<1>3. PICK x \in Trace :
             /\ x.cumulative = spent'[r] /\ buffer' = [buffer EXCEPT ![r] = Append(@, x)]
             /\ Log(r) \in Seq(Trace) /\ Log(r)' = Append(Log(r), x)
  BY QueryTraced
<1>4. Rising(Append(Log(r), x)) /\ EndsAt(Append(Log(r), x), spent'[r])
  BY <1>1, <1>2, <1>3, RisingAppend
<1>5. Rising(Log(r))' /\ EndsAt(Log(r), spent[r])'
  BY <1>3, <1>4 DEF Rising, EndsAt
<1>6. buffer' \in [Runs -> Seq(Trace)]
  <2>1. Append(buffer[r], x) \in Seq(Trace)
    BY DEF LedgerInv
  <2> QED
    BY <1>3, <2>1 DEF LedgerInv
<1>7. \A q \in Runs : pc'[q] \in Early => buffer'[q] = << >>
  BY <1>1, <1>3 DEF LedgerInv, Early
<1>8. Rising(traces)'
  BY <1>1, <1>2 DEF LedgerInv, Rising
<1> QED
  BY <1>1, <1>2, <1>5, <1>6, <1>7, <1>8 DEF LedgerInv, Busy, Whole

\* Every step keeps ledger, traces and summary together.
LEMMA LedgerStep ==
    ASSUME RunsInv, BusyInv, LedgerInv, [Next]_vars
    PROVE  LedgerInv'
<1> USE DEF RunsInv
<1>1. ASSUME NEW c \in Configs, Configure(c) PROVE LedgerInv'
  <2>1. Unwritten
    BY <1>1 DEF Configure, files, Unwritten
  <2> QED
    BY <2>1, UnwrittenStep
<1>2. ASSUME NEW r \in Runs, RunStep(r) PROVE LedgerInv'
  <2> USE DEF TypeInv
  <2>1. ASSUME NEW a \in Invocations, NEW pinned \in BOOLEAN, Invoke(r, a, pinned) PROVE LedgerInv'
    <3>1. Unwritten
      BY <2>1 DEF Invoke, files, Unwritten, Early
    <3> QED
      BY <3>1, UnwrittenStep
  <2>2. CASE CreateRunDir(r)
    <3>1. Unwritten
      BY <2>2 DEF CreateRunDir, Unwritten, Early
    <3> QED
      BY <3>1, UnwrittenStep
  <2>3. CASE MakeClient(r)
    <3>1. /\ pc[r] = "client" /\ UNCHANGED <<buffer, spent, ledgerFile, summaryFile>>
          /\ \/ pc'[r] = "scenarios" /\ traces' = << >>
             \/ pc'[r] = "failed" /\ UNCHANGED traces
          /\ \A q \in Runs \ {r} : pc'[q] = pc[q]
      BY <2>3 DEF MakeClient
    <3>2. CASE UNCHANGED traces /\ pc'[r] = "failed"
      <4>1. Unwritten
        BY <3>1, <3>2 DEF Unwritten
      <4> QED
        BY <4>1, UnwrittenStep
    <3>3. CASE pc'[r] = "scenarios" /\ traces' = << >>
      <4>1. ~Whole(summaryFile) /\ \A q \in Runs \ {r} : pc[q] \notin Busy
        BY <3>1, Alone DEF Busy
      <4>2. buffer[r] = << >>
        BY <3>1 DEF LedgerInv, Early
      <4>3. << >> \in Seq(Trace) /\ << >> # Missing
        <5>1. << >> \in Seq(Trace)
          OBVIOUS
        <5>2. Missing \notin Seq(Trace)
          BY RunnerConstants DEF Trace
        <5> QED
          BY <5>1, <5>2
      <4>4. Log(r)' = << >>
        BY <3>1, <3>3, <4>2 DEF Log
      <4>5. Rising(Log(r))' /\ EndsAt(Log(r), spent[r])' /\ Rising(traces)'
        BY <3>3, <4>4 DEF Rising, EndsAt
      <4>6. \A q \in Runs : pc'[q] \in Early => buffer'[q] = << >>
        BY <3>1, <3>3 DEF LedgerInv, Early
      <4> QED
        BY <3>1, <3>3, <4>1, <4>3, <4>5, <4>6 DEF LedgerInv, Busy, Whole
    <3> QED
      BY <3>1, <3>2, <3>3
  <2>4. CASE EndScenarios(r)
    BY <2>4, FlushStep DEF EndScenarios
  <2>5. CASE SkipScenario(r)
    <3>1. Unwritten
      BY <2>5 DEF SkipScenario, files, Unwritten
    <3> QED
      BY <3>1, UnwrittenStep
  <2>6. CASE OpenScenario(r)
    <3>1. UNCHANGED <<spent, ledgerFile, summaryFile>> /\ pc[r] = "scenarios"
      BY <2>6 DEF OpenScenario, KeepLedger
    <3>2. CASE Close(r, "failed")
      BY <3>1, <3>2, FlushStep
    <3>3. CASE UNCHANGED <<buffer, traces>> /\ pc' = [pc EXCEPT ![r] = "turns"]
      <4>1. Unwritten
        BY <3>1, <3>3 DEF Unwritten
      <4> QED
        BY <4>1, UnwrittenStep
    <3> QED
      BY <2>6, <3>2, <3>3 DEF OpenScenario
  <2>7. CASE SkipTurn(r)
    <3>1. Unwritten
      BY <2>7 DEF SkipTurn, files, Unwritten
    <3> QED
      BY <3>1, UnwrittenStep
  <2>8. ASSUME NEW c \in CostsOf(r), HandleQuery(r, c) PROVE LedgerInv'
    BY <2>8, TraceStep
  <2>9. ASSUME NEW c \in CostsOf(r), QueryRaises(r, c) PROVE LedgerInv'
    <3>1. /\ Close(r, "failed") /\ pc[r] = "turns" /\ UNCHANGED <<ledgerFile, summaryFile>>
          /\ \A q \in Runs \ {r} : spent'[q] = spent[q]
      BY <2>9 DEF QueryRaises, AtTurn
    <3> QED
      BY <3>1, FlushStep
  <2>10. CASE Flush(r)
    BY <2>10, FlushStep DEF Flush
  <2>11. CASE CloseScenario(r)
    <3>1. Unwritten
      BY <2>11 DEF CloseScenario, files, Unwritten
    <3> QED
      BY <3>1, UnwrittenStep
  <2>12. CASE WriteLedger(r)
    <3>1. /\ pc[r] = "ledger" /\ UNCHANGED <<buffer, traces, spent, summaryFile>>
          /\ (pc'[r] = "summary" /\ ledgerFile' = spent[r]) \/ pc'[r] = "dead"
          /\ \A q \in Runs \ {r} : pc'[q] = pc[q]
      BY <2>12 DEF WriteLedger, Puts
    <3>2. ~Whole(summaryFile) /\ \A q \in Runs \ {r} : pc[q] \notin Busy
      BY <3>1, Alone DEF Busy
    <3>3. \A q \in Runs : pc'[q] \in Early => buffer'[q] = << >>
      BY <3>1 DEF LedgerInv, Early
    <3>4. traces # Missing /\ EndsAt(traces, spent[r])'
      BY <3>1 DEF LedgerInv, EndsAt
    <3>5. traces' # Missing => Rising(traces)'
      BY <3>1 DEF LedgerInv, Rising
    <3> QED
      BY <3>1, <3>2, <3>3, <3>4, <3>5 DEF LedgerInv, Busy, Whole
  <2>13. CASE WriteSummary(r)
    <3>1. /\ pc[r] = "summary" /\ UNCHANGED <<buffer, traces, spent, ledgerFile>>
          /\ pc'[r] \in {"results", "dead"}
          /\ summaryFile' = Torn \/ summaryFile'.cost = spent[r]
          /\ \A q \in Runs \ {r} : pc'[q] = pc[q]
      BY <2>13 DEF WriteSummary, Puts
    <3>2. \A q \in Runs \ {r} : pc[q] \notin Busy
      BY <3>1, Alone DEF Busy
    <3>3. \A q \in Runs : pc'[q] \in Early => buffer'[q] = << >>
      BY <3>1 DEF LedgerInv, Early
    <3>4. traces # Missing /\ ledgerFile' = spent[r] /\ EndsAt(traces, ledgerFile)'
      BY <3>1 DEF LedgerInv, EndsAt
    <3>5. traces' # Missing => Rising(traces)'
      BY <3>1 DEF LedgerInv, Rising
    <3> QED
      BY <3>1, <3>2, <3>3, <3>4, <3>5 DEF LedgerInv, Busy, Whole
  <2>14. CASE WriteResults(r)
    <3>1. Unwritten
      BY <2>14 DEF WriteResults, Puts, Unwritten
    <3> QED
      BY <3>1, UnwrittenStep
  <2>15. CASE Crash(r)
    <3>1. Unwritten
      BY <2>15 DEF Crash, files, Unwritten
    <3> QED
      BY <3>1, UnwrittenStep
  <2> QED
    BY <1>2, <2>1, <2>2, <2>3, <2>4, <2>5, <2>6, <2>7, <2>8, <2>9, <2>10, <2>11, <2>12,
       <2>13, <2>14, <2>15 DEF RunStep
<1>3. CASE UNCHANGED vars
  <2>1. Unwritten
    BY <1>3 DEF vars, files, Unwritten
  <2> QED
    BY <2>1, UnwrittenStep
<1> QED
  BY <1>1, <1>2, <1>3, NextIsRunStep

\* The budget is the run's, all scenarios together: along traces.jsonl the
\* cumulative cost never falls, and ledger and summary end with the last of it.
THEOREM OneLedger == ~Overlap => (Spec => []OneLedgerPerRun)
<1> SUFFICES ASSUME ~Overlap PROVE Spec => []OneLedgerPerRun
  OBVIOUS
<1>1. Init => BusyInv /\ LedgerInv
  BY DEF Init, BusyInv, LedgerInv, Busy, Whole
<1>2. BusyInv /\ LedgerInv /\ RunsInv /\ [Next]_vars => BusyInv' /\ LedgerInv'
  BY BusyStep, LedgerStep DEF RunsInv
<1>3. LedgerInv => OneLedgerPerRun
  <2> SUFFICES ASSUME LedgerInv PROVE OneLedgerPerRun
    OBVIOUS
  <2>1. ASSUME NEW i \in 1 .. Len(Logged), NEW j \in 1 .. Len(Logged), i < j
        PROVE  traces[i].cumulative <= traces[j].cumulative
    <3>1. CASE traces = Missing
      <4>1. Len(Logged) = 0
        BY <3>1 DEF Logged
      <4> QED
        BY <4>1
    <3>2. CASE traces # Missing
      <4>1. traces \in Seq(Trace) /\ Rising(traces)
        BY <3>2 DEF LedgerInv
      <4>2. Len(Logged) = Len(traces)
        BY <3>2, <4>1 DEF Logged
      <4> QED
        BY <2>1, <4>1, <4>2 DEF Rising
    <3> QED
      BY <3>1, <3>2
  <2>2. Whole(summaryFile) => /\ summaryFile.cost = ledgerFile
                              /\ traces # << >> => summaryFile.cost = Last(traces).cumulative
    BY DEF LedgerInv, EndsAt
  <2> QED
    BY <2>1, <2>2 DEF OneLedgerPerRun
<1> QED
  BY <1>1, <1>2, <1>3, RunsAlways, PTL DEF Spec

-----------------------------------------------------------------------------
(* Sequences of queries *)

\* Every non-empty set of natural numbers has a smallest element
LEMMA LeastNatural ==
    ASSUME NEW S \in SUBSET Nat, S # {}
    PROVE  \E n \in S : \A m \in S : n <= m
<1> DEFINE R == OpToRel(<, Nat)
<1>1. IsWellFoundedOn(R, Nat)
  BY NatLessThanWellFounded
<1>2. \A m, n \in Nat : m < n => <<m, n>> \in R
  BY DEF OpToRel
<1> HIDE DEF R
<1>3. PICK n \in S : \A m \in S : <<m, n>> \notin R
  BY <1>1, WFMin
<1>4. ASSUME NEW m \in S PROVE n <= m
  <2>1. m \in Nat /\ n \in Nat
    OBVIOUS
  <2>2. ~(m < n)
    BY <1>2, <1>3, <2>1
  <2> QED BY <2>1, <2>2
<1> QED BY <1>4

\* A sequence of sequences is flattened by appending one after the other
LEMMA FlattenIsIterated ==
    ASSUME NEW S, NEW seqs \in Seq(Seq(S)), Len(seqs) # 0
    PROVE  \E f \in [1 .. Len(seqs) -> Seq(S)] :
               /\ f[1] = seqs[1]
               /\ \A i \in 2 .. Len(seqs) : f[i] = f[i - 1] \o seqs[i]
               /\ FlattenSeq(seqs) = f[Len(seqs)]
<1> DEFINE L == Len(seqs)
           Step(g, n) == \A i \in 1 .. n : g[i] = IF i = 1 THEN seqs[i] ELSE g[i - 1] \o seqs[i]
           Bad == {n \in 1 .. L : ~ \E g \in [1 .. n -> Seq(S)] : Step(g, n)}
           F(g) == [i \in 1 .. Len(seqs) |-> IF i = 1 THEN seqs[i] ELSE g[i - 1] \o seqs[i]]
           c == CHOOSE g : g = F(g)
<1>1. L \in Nat \ {0} /\ \A i \in 1 .. L : seqs[i] \in Seq(S)
  <2>1. L \in Nat
    OBVIOUS
  <2> QED BY <2>1, ElementOfSeq
<1> HIDE DEF L
<1>2. Bad = {}
  <2> SUFFICES ASSUME Bad # {} PROVE FALSE
    OBVIOUS
  <2>1. PICK n \in Bad : \A m \in Bad : n <= m
    <3>1. Bad \in SUBSET Nat
      BY <1>1
    <3> HIDE DEF Bad
    <3> QED BY <3>1, LeastNatural
  <2>2. n \in Nat /\ n \in 1 .. L
    BY <1>1
  <2>3. CASE n = 1
    <3> DEFINE h == [i \in 1 .. n |-> seqs[1]]
    <3>1. h \in [1 .. n -> Seq(S)]
      BY <1>1
    <3>2. \A i \in 1 .. n : i = 1
      BY <2>3
    <3>3. Step(h, n)
      BY <3>2
    <3> QED BY <3>1, <3>3
  <2>4. CASE n # 1
    <3>1. n - 1 \in 1 .. L /\ n - 1 \notin Bad
      <4>1. n - 1 \in 1 .. L /\ ~(n <= n - 1)
        BY <1>1, <2>2, <2>4
      <4> HIDE DEF Bad
      <4> QED BY <2>1, <4>1
    <3>2. PICK g \in [1 .. n - 1 -> Seq(S)] : Step(g, n - 1)
      BY <3>1
    <3> DEFINE last == g[n - 1] \o seqs[n]
               h == [i \in 1 .. n |-> IF i = n THEN last ELSE g[i]]
    <3>3. last \in Seq(S)
      <4>1. g[n - 1] \in Seq(S)
        BY <2>2, <2>4
      <4>2. seqs[n] \in Seq(S)
        BY <1>1, <2>2
      <4> QED BY <4>1, <4>2, ConcatProperties
    <3>4. h \in [1 .. n -> Seq(S)]
      <4> HIDE DEF last
      <4>1. \A i \in 1 .. n : i # n => i \in 1 .. n - 1
        BY <2>2
      <4> QED BY <3>3, <4>1
    <3>5. ASSUME NEW i \in 1 .. n PROVE h[i] = IF i = 1 THEN seqs[i] ELSE h[i - 1] \o seqs[i]
      <4>1. i \in Nat /\ (i # 1 => i - 1 \in 1 .. n /\ i - 1 # n)
        BY <2>2
      <4>2. CASE i = n
        BY <2>4, <4>1, <4>2
      <4>3. CASE i # n
        <5>1. i \in 1 .. n - 1
          BY <2>2, <4>3
        <5>2. g[i] = IF i = 1 THEN seqs[i] ELSE g[i - 1] \o seqs[i]
          BY <3>2, <5>1
        <5> HIDE DEF last
        <5>3. h[i] = g[i] /\ (i # 1 => h[i - 1] = g[i - 1])
          BY <4>1, <4>3
        <5> QED BY <5>2, <5>3
      <4> QED BY <4>2, <4>3
    <3> HIDE DEF h
    <3>6. Step(h, n)
      BY <3>5
    <3> QED BY <3>4, <3>6
  <2> QED BY <2>3, <2>4
<1>3. PICK f \in [1 .. L -> Seq(S)] : Step(f, L)
  <2>1. L \in 1 .. L
    BY <1>1
  <2>2. L \notin Bad
    BY <1>2
  <2> QED BY <2>1, <2>2
<1>4. f = F(f)
  BY <1>3 DEF L
<1>5. c = F(c)
  <2> HIDE DEF F
  <2> QED BY <1>4
<1>6. FlattenSeq(seqs) = c[L]
  BY DEF FlattenSeq, L
<1> HIDE DEF c
<1>7. \A i \in 1 .. L : c[i] = IF i = 1 THEN seqs[i] ELSE c[i - 1] \o seqs[i]
  BY <1>5 DEF L
<1>8. c = [i \in 1 .. L |-> c[i]]
  <2> DEFINE e(i) == IF i = 1 THEN seqs[i] ELSE c[i - 1] \o seqs[i]
  <2>1. c = [i \in 1 .. L |-> e(i)]
    BY <1>5 DEF L
  <2> HIDE DEF e
  <2> QED BY <2>1
<1>9. \A i \in 1 .. L : c[i] \in Seq(S)
  <2> DEFINE Odd == {i \in 1 .. L : c[i] \notin Seq(S)}
  <2> SUFFICES ASSUME Odd # {} PROVE FALSE
    OBVIOUS
  <2>1. PICK n \in Odd : \A m \in Odd : n <= m
    <3>1. Odd \in SUBSET Nat
      BY <1>1
    <3> HIDE DEF Odd
    <3> QED BY <3>1, LeastNatural
  <2>2. n \in 1 .. L /\ n \in Nat /\ seqs[n] \in Seq(S)
    BY <1>1
  <2>3. CASE n = 1
    BY <1>7, <2>2, <2>3
  <2>4. CASE n # 1
    <3>1. n - 1 \in 1 .. L /\ n - 1 \notin Odd
      <4>1. n - 1 \in 1 .. L /\ ~(n <= n - 1)
        BY <1>1, <2>2, <2>4
      <4> HIDE DEF Odd
      <4> QED BY <2>1, <4>1
    <3>2. c[n - 1] \in Seq(S)
      BY <3>1
    <3>3. c[n - 1] \o seqs[n] \in Seq(S)
      BY <2>2, <3>2, ConcatProperties
    <3> QED BY <1>7, <2>2, <2>4, <3>3
  <2> QED BY <2>3, <2>4
<1>10. c \in [1 .. L -> Seq(S)]
  BY <1>8, <1>9
<1>11. c[1] = seqs[1]
  BY <1>1, <1>7
<1>12. ASSUME NEW i \in 2 .. L PROVE c[i] = c[i - 1] \o seqs[i]
  <2>1. i \in 1 .. L /\ i # 1
    BY <1>1
  <2> QED BY <1>7, <2>1
<1> QED BY <1>6, <1>10, <1>11, <1>12 DEF L

Turn == Nat \X STRING

\* How a sequence of sequences is flattened, one after the other
IsParts(f, seqs) ==
    /\ f \in [0 .. Len(seqs) -> Seq(Turn)]
    /\ f[0] = << >> /\ f[Len(seqs)] = FlattenSeq(seqs)
    /\ \A i \in 1 .. Len(seqs) : f[i] = f[i - 1] \o seqs[i]

Parts(seqs) == CHOOSE f : IsParts(f, seqs)

\* Every flattening has its parts.
LEMMA PartsOf ==
    ASSUME NEW seqs \in Seq(Seq(Turn))
    PROVE  IsParts(Parts(seqs), seqs)
<1>1. CASE Len(seqs) = 0
  <2> DEFINE f == [i \in {0} |-> << >>]
  <2>1. seqs = << >> /\ FlattenSeq(seqs) = << >>
    BY <1>1 DEF FlattenSeq
  <2>2. 0 .. Len(seqs) = {0} /\ 1 .. Len(seqs) = {}
    BY <1>1
  <2>3. << >> \in Seq(Turn)
    OBVIOUS
  <2>4. IsParts(f, seqs)
    BY <1>1, <2>1, <2>2, <2>3 DEF IsParts
  <2> HIDE DEF f
  <2> QED
    BY <2>4 DEF Parts
<1>2. CASE Len(seqs) # 0
  <2>1. PICK g \in [1 .. Len(seqs) -> Seq(Turn)] :
               /\ g[1] = seqs[1]
               /\ \A i \in 2 .. Len(seqs) : g[i] = g[i - 1] \o seqs[i]
               /\ FlattenSeq(seqs) = g[Len(seqs)]
    BY <1>2, FlattenIsIterated
  <2> DEFINE f == [i \in 0 .. Len(seqs) |-> IF i = 0 THEN << >> ELSE g[i]]
  <2>2. Len(seqs) \in Nat \ {0} /\ << >> \in Seq(Turn)
    BY <1>2
  <2>3. f \in [0 .. Len(seqs) -> Seq(Turn)]
    <3>1. \A i \in 0 .. Len(seqs) : i # 0 => i \in 1 .. Len(seqs)
      OBVIOUS
    <3> QED
      BY <2>2, <3>1
  <2>4. f[0] = << >> /\ f[Len(seqs)] = FlattenSeq(seqs)
    BY <2>1, <2>2
  <2>5. ASSUME NEW i \in 1 .. Len(seqs) PROVE f[i] = f[i - 1] \o seqs[i]
    <3>1. i \in 0 .. Len(seqs) /\ i # 0 /\ i - 1 \in 0 .. Len(seqs) /\ i \in Nat
      BY <2>2
    <3>2. CASE i = 1
      <4>1. seqs[1] \in Seq(Turn)
        BY <2>1, <2>2
      <4>2. << >> \o seqs[1] = seqs[1]
        BY <4>1, ConcatEmptySeq
      <4>3. f[1] = seqs[1] /\ f[0] = << >>
        BY <2>1, <2>2
      <4>4. f[1 - 1] = << >>
        BY <4>3
      <4> HIDE DEF f
      <4> QED
        BY <3>2, <4>2, <4>3, <4>4
    <3>3. CASE i # 1
      <4>1. i \in 2 .. Len(seqs) /\ i - 1 # 0
        BY <3>1, <3>3
      <4>2. f[i] = g[i] /\ f[i - 1] = g[i - 1]
        BY <3>1, <4>1
      <4> QED
        BY <2>1, <4>1, <4>2
    <3> QED
      BY <3>2, <3>3
  <2> HIDE DEF f
  <2>6. IsParts(f, seqs)
    BY <2>3, <2>4, <2>5 DEF IsParts
  <2> QED
    BY <2>6 DEF Parts
<1> QED
  BY <1>1, <1>2

Begins(s, t) == \E u \in Seq(Turn) : t = s \o u

\* What begins a beginning begins the whole.
LEMMA BeginsTransitive ==
    ASSUME NEW s \in Seq(Turn), NEW u \in Seq(Turn), NEW t, Begins(s \o u, t)
    PROVE  Begins(s, t)
<1>1. PICK v \in Seq(Turn) : t = (s \o u) \o v
  BY DEF Begins
<1>2. (s \o u) \o v = s \o (u \o v) /\ u \o v \in Seq(Turn)
  BY ConcatAssociative, ConcatProperties
<1> QED
  BY <1>1, <1>2 DEF Begins

\* Every part begins the flattened sequence.
LEMMA PartsBegin ==
    ASSUME NEW seqs \in Seq(Seq(Turn)), NEW n \in 0 .. Len(seqs)
    PROVE  Begins(Parts(seqs)[n], FlattenSeq(seqs))
<1> DEFINE f == Parts(seqs)
           L == Len(seqs)
           whole == FlattenSeq(seqs)
           Bad == {k \in 0 .. L : ~Begins(f[L - k], whole)}
<1>1. /\ f \in [0 .. L -> Seq(Turn)] /\ f[L] = whole
      /\ \A i \in 1 .. L : f[i] = f[i - 1] \o seqs[i]
      /\ L \in Nat
  <2>1. IsParts(f, seqs)
    BY PartsOf
  <2>2. L \in Nat
    OBVIOUS
  <2> HIDE DEF f
  <2> QED
    BY <2>1, <2>2 DEF IsParts
<1>2. \A i \in 1 .. L : seqs[i] \in Seq(Turn)
  OBVIOUS
<1> HIDE DEF f, L, whole
<1>3. Bad = {}
  <2> SUFFICES ASSUME Bad # {} PROVE FALSE
    OBVIOUS
  <2>1. PICK k \in Bad : \A m \in Bad : k <= m
    <3>1. Bad \in SUBSET Nat
      BY <1>1
    <3> HIDE DEF Bad
    <3> QED
      BY <3>1, LeastNatural
  <2>2. k \in 0 .. L /\ k \in Nat /\ ~Begins(f[L - k], whole)
    BY <1>1
  <2>3. CASE k = 0
    <3>1. L - k = L /\ L \in 0 .. L
      BY <1>1, <2>3
    <3>2. whole \in Seq(Turn) /\ << >> \in Seq(Turn)
      BY <1>1, <3>1
    <3>3. whole \o << >> = whole
      BY <3>2, ConcatEmptySeq
    <3> QED
      BY <1>1, <2>2, <3>1, <3>2, <3>3 DEF Begins
  <2>4. CASE k # 0
    <3>1. k - 1 \in 0 .. L /\ k - 1 \notin Bad
      <4>1. k - 1 \in 0 .. L /\ ~(k <= k - 1)
        BY <1>1, <2>2, <2>4
      <4> HIDE DEF Bad
      <4> QED
        BY <2>1, <4>1
    <3>2. Begins(f[L - (k - 1)], whole)
      BY <3>1
    <3> DEFINE i == L - (k - 1)
    <3>3. i \in 1 .. L /\ i - 1 = L - k /\ L - k \in 0 .. L
      BY <1>1, <2>2, <2>4
    <3>4. f[i] = f[L - k] \o seqs[i]
      BY <1>1, <3>3
    <3>5. f[L - k] \in Seq(Turn) /\ seqs[i] \in Seq(Turn)
      BY <1>1, <1>2, <3>3
    <3> QED
      BY <2>2, <3>2, <3>4, <3>5, BeginsTransitive
  <2> QED
    BY <2>3, <2>4
<1>4. L - n \in 0 .. L /\ L - (L - n) = n
  BY <1>1 DEF L
<1> QED
  BY <1>3, <1>4 DEF f, whole

-----------------------------------------------------------------------------
(* What a run is asked to do *)

\* The queries of one scenario turn by turn, and of all scenarios
Picks(r, s) ==
    [t \in 1 .. Len(Scenarios(r)[s].turns) |->
        LET query == Scenarios(r)[s].turns[t]
        IN  IF Selects(r, query) THEN << <<s, query>> >> ELSE << >>]
Groups(r) == [s \in 1 .. Len(Scenarios(r)) |-> Chosen(r, s)]
AllChosen(r) == FlattenSeq(Groups(r))

\* The queries of a scenario are the flattening of those of its turns.
LEMMA PickTypes ==
    ASSUME TypeInv, NEW r \in Runs, Admitted(r), NEW s \in 1 .. Len(Scenarios(r))
    PROVE  /\ Scenarios(r)[s].turns \in Seq(STRING)
           /\ Picks(r, s) \in Seq(Seq(Turn)) /\ Len(Picks(r, s)) = Len(Scenarios(r)[s].turns)
           /\ Chosen(r, s) = FlattenSeq(Picks(r, s)) /\ Chosen(r, s) \in Seq(Turn)
<1> DEFINE turns == Scenarios(r)[s].turns
           pick(t) == IF Selects(r, turns[t]) THEN << <<s, turns[t]>> >> ELSE << >>
<1>1. Scenarios(r) \in Seq(Scenario)
  BY RunnerConstants DEF TypeInv, Scenarios, Admitted
<1>2. s \in Nat /\ Scenarios(r)[s] \in Scenario
  BY <1>1
<1>3. turns \in Seq(STRING)
  BY <1>2 DEF Scenario
<1>4. Picks(r, s) = [t \in 1 .. Len(turns) |-> pick(t)]
  BY DEF Picks
<1>5. Chosen(r, s) = FlattenSeq([t \in 1 .. Len(turns) |-> pick(t)])
  BY DEF Chosen
<1> HIDE DEF turns
<1>6. ASSUME NEW t \in 1 .. Len(turns) PROVE pick(t) \in Seq(Turn)
  <2>1. turns[t] \in STRING
    BY <1>3, ElementOfSeq
  <2>2. <<s, turns[t]>> \in Turn
    BY <1>2, <2>1 DEF Turn
  <2>3. << <<s, turns[t]>> >> \in Seq(Turn) /\ << >> \in Seq(Turn)
    BY <2>2
  <2> QED
    BY <2>3
<1> HIDE DEF pick
<1>7. Len(turns) \in Nat
  BY <1>3
<1>8. [t \in 1 .. Len(turns) |-> pick(t)] \in Seq(Seq(Turn))
  BY <1>6, <1>7
<1>9. Len([t \in 1 .. Len(turns) |-> pick(t)]) = Len(turns)
  BY <1>7
<1>10. FlattenSeq(Picks(r, s)) \in Seq(Turn)
  <2>1. IsParts(Parts(Picks(r, s)), Picks(r, s)) /\ Len(Picks(r, s)) \in Nat
    BY <1>4, <1>7, <1>8, <1>9, PartsOf
  <2>2. Len(Picks(r, s)) \in 0 .. Len(Picks(r, s))
    BY <2>1
  <2> QED
    BY <2>1, <2>2 DEF IsParts
<1>11. Chosen(r, s) = FlattenSeq(Picks(r, s))
  BY <1>4, <1>5
<1> QED
  BY <1>3, <1>4, <1>8, <1>9, <1>10, <1>11 DEF turns

\* What a run is asked to do is the flattening of what its scenarios ask.
LEMMA GroupTypes ==
    ASSUME TypeInv, NEW r \in Runs, Admitted(r)
    PROVE  /\ Scenarios(r) \in Seq(Scenario)
           /\ Groups(r) \in Seq(Seq(Turn)) /\ Len(Groups(r)) = Len(Scenarios(r))
           /\ AllChosen(r) \in Seq(Turn)
<1>1. Scenarios(r) \in Seq(Scenario)
  BY RunnerConstants DEF TypeInv, Scenarios, Admitted
<1>2. Len(Scenarios(r)) \in Nat
  BY <1>1
<1>3. \A s \in 1 .. Len(Scenarios(r)) : Chosen(r, s) \in Seq(Turn)
  BY PickTypes
<1>4. Groups(r) \in Seq(Seq(Turn)) /\ Len(Groups(r)) = Len(Scenarios(r))
  BY <1>2, <1>3 DEF Groups
<1>5. AllChosen(r) \in Seq(Turn)
  <2>1. IsParts(Parts(Groups(r)), Groups(r)) /\ Len(Groups(r)) \in Nat
    BY <1>2, <1>4, PartsOf
  <2>2. Len(Groups(r)) \in 0 .. Len(Groups(r))
    BY <2>1
  <2> QED
    BY <2>1, <2>2 DEF IsParts, AllChosen
<1> QED
  BY <1>1, <1>4, <1>5

\* The first queries, as many as the limit allows, are the first of what it is asked;
\* all of them, or as many as the limit, are what it is asked.
LEMMA AskedIsCut ==
    ASSUME TypeInv, NEW r \in Runs, Admitted(r), NEW done \in Seq(Turn),
           Begins(done, AllChosen(r)), args[r].limit = All \/ Len(done) <= args[r].limit
    PROVE  /\ IsPrefix(done, Asked(r))
           /\ done = AllChosen(r) \/ (args[r].limit # All /\ Len(done) = args[r].limit)
                => done = Asked(r)
<1> DEFINE chosen == AllChosen(r)
           limit == args[r].limit
<1>1. chosen \in Seq(Turn)
  BY GroupTypes
<1>2. limit = All \/ limit \in Nat
  BY RunnerConstants DEF Invocation, TypeInv
<1>3. PICK u \in Seq(Turn) : chosen = done \o u
  BY DEF Begins
<1>4. Asked(r) = IF limit = All \/ Len(chosen) <= limit THEN chosen ELSE SubSeq(chosen, 1, limit)
  BY DEF Asked, AllChosen, Groups
<1> HIDE DEF chosen, limit
<1>5. Len(done) \in Nat /\ Len(u) \in Nat /\ Len(chosen) = Len(done) + Len(u)
      /\ \A i \in 1 .. Len(done) : chosen[i] = done[i]
  BY <1>3, ConcatProperties
<1>6. ASSUME NEW whole \in Seq(Turn), Len(done) <= Len(whole),
             \A i \in 1 .. Len(done) : whole[i] = done[i]
      PROVE  IsPrefix(done, whole)
  <2>1. SubSeq(whole, 1, Len(done)) = SubSeq(done, 1, Len(done))
    BY <1>5, <1>6
  <2> QED
    BY <1>6, <2>1 DEF IsPrefix
<1>7. CASE limit = All \/ Len(chosen) <= limit
  <2>1. Asked(r) = chosen
    BY <1>4, <1>7
  <2>2. IsPrefix(done, chosen)
    BY <1>1, <1>5, <1>6
  <2>3. limit # All /\ Len(done) = limit => Len(u) = 0
    BY <1>2, <1>5, <1>7
  <2>4. Len(u) = 0 => done = chosen
    <3>1. Len(u) = 0 => u = << >>
      OBVIOUS
    <3> QED
      BY <1>3, <3>1, ConcatEmptySeq
  <2> QED
    BY <2>1, <2>2, <2>3, <2>4 DEF chosen, limit
<1>8. CASE limit # All /\ ~(Len(chosen) <= limit)
  <2>1. Asked(r) = SubSeq(chosen, 1, limit) /\ limit \in Nat /\ limit <= Len(chosen)
    BY <1>2, <1>4, <1>5, <1>8
  <2>2. Asked(r) \in Seq(Turn) /\ Len(Asked(r)) = limit
        /\ \A i \in 1 .. limit : Asked(r)[i] = chosen[i]
    BY <1>1, <2>1
  <2>3. Len(done) <= limit
    BY <1>8 DEF limit
  <2>4. IsPrefix(done, Asked(r))
    <3>1. Len(done) <= Len(Asked(r))
      BY <2>2, <2>3
    <3>2. \A i \in 1 .. Len(done) : Asked(r)[i] = done[i]
      BY <1>5, <2>1, <2>2, <2>3
    <3> QED
      BY <1>6, <2>2, <3>1, <3>2
  <2>5. Len(done) = limit => done = Asked(r)
    BY <1>5, <2>1, <2>2
  <2>6. done # chosen
    BY <1>5, <1>8, <2>1, <2>3
  <2> QED
    BY <2>4, <2>5, <2>6 DEF chosen, limit
<1> QED
  BY <1>2, <1>7, <1>8

-----------------------------------------------------------------------------
(* The traces follow the plan *)

Said(log) == [i \in 1 .. Len(log) |-> <<log[i].s, log[i].query>>]

\* Every query that wrote is among the traces
Backed(log) ==
    \A id \in Ids : stores[id] # Missing =>
        \A w \in ToSet(stores[id]) : w.query = "seed" \/ <<w.s, w.query>> \in ToSet(Said(log))

\* What run r was asked up to its position
Reached(r) ==
    IF pc[r] = "turns"
    THEN Parts(Groups(r))[place[r].s - 1] \o Parts(Picks(r, place[r].s))[place[r].t - 1]
    ELSE Parts(Groups(r))[place[r].s - 1]

\* A run within its scenarios has traces of all it was asked up to its position,
\* unless the limit is reached: the position then runs ahead
Follows(r) ==
    /\ place[r].s <= Len(Scenarios(r)) + 1
    /\ pc[r] = "turns" => place[r].t <= Len(Current(r).turns) + 1
    /\ Len(Log(r)) = count[r]
    /\ Begins(Said(Log(r)), AllChosen(r))
    /\ LimitReached(r) \/ Said(Log(r)) = Reached(r)
    /\ Backed(Log(r))

\* A run past its scenarios has traces of all it was asked
Completes(r) == Said(traces) = Asked(r) /\ Len(traces) = count[r] /\ Backed(traces)

\* The trace file is one run's
Traced == traces \notin {Missing, << >>} =>
              \E r \in Runs : Admitted(r) /\ IsPrefix(Said(traces), Asked(r))

Summed ==
    LET r == summaryFile.run
    IN  /\ r \in Runs /\ Admitted(r) /\ Said(traces) = Asked(r)
        /\ summaryFile.queries = Len(traces) /\ Backed(traces)

PlanInv ==
    /\ \A r \in Runs : pc[r] \in Early => place[r].s = 1
    /\ directory = "fresh" \/ (\E r \in Runs : pc[r] = "client") =>
          \A id \in Ids : stores[id] = Missing
    /\ \A r \in Runs : pc[r] \in {"scenarios", "turns"} => Follows(r)
    /\ \A r \in Runs : pc[r] \in {"ledger", "summary"} => Completes(r)
    /\ Traced
    /\ Whole(summaryFile) => Summed

\* A run keeps its arguments once admitted
Keeps ==
    /\ plan' = plan
    /\ \A q \in Runs : Admitted(q) => Admitted(q)' /\ args'[q] = args[q]

\* What a run is asked to do does not change under it.
LEMMA KeepsAsked ==
    ASSUME Keeps, NEW q \in Runs, Admitted(q)
    PROVE  /\ Scenarios(q)' = Scenarios(q) /\ Ids' = Ids /\ Admitted(q)'
           /\ Asked(q)' = Asked(q) /\ Groups(q)' = Groups(q) /\ AllChosen(q)' = AllChosen(q)
           /\ \A s : Picks(q, s)' = Picks(q, s)
<1>1. plan' = plan /\ args'[q] = args[q] /\ Admitted(q)'
  BY DEF Keeps
<1>2. Scenarios(q)' = Scenarios(q) /\ Ids' = Ids
  BY <1>1 DEF Scenarios, Ids
<1>3. ASSUME NEW x PROVE Selects(q, x)' = Selects(q, x)
  BY <1>1 DEF Selects, Selective
<1>4. ASSUME NEW s PROVE Picks(q, s)' = Picks(q, s)
  BY <1>2, <1>3 DEF Picks
<1>5. ASSUME NEW s PROVE Chosen(q, s)' = Chosen(q, s)
  BY <1>2, <1>3 DEF Chosen
<1>6. Groups(q)' = Groups(q)
  BY <1>2, <1>5 DEF Groups
<1>7. AllChosen(q)' = AllChosen(q)
  BY <1>6 DEF AllChosen
<1>8. Asked(q)' = Asked(q)
  BY <1>1, <1>7 DEF Asked, AllChosen, Groups
<1> QED
  BY <1>1, <1>2, <1>4, <1>6, <1>7, <1>8

\* A run that a step does not concern follows the plan as before.
LEMMA FollowsStill ==
    ASSUME Keeps, NEW q \in Runs, Admitted(q), Follows(q),
           pc'[q] = pc[q], place'[q] = place[q], count'[q] = count[q],
           Log(q)' = Log(q), stores' = stores
    PROVE  Follows(q)'
<1>1. /\ Scenarios(q)' = Scenarios(q) /\ Ids' = Ids /\ AllChosen(q)' = AllChosen(q)
      /\ Groups(q)' = Groups(q) /\ \A s : Picks(q, s)' = Picks(q, s)
      /\ args'[q] = args[q]
  BY KeepsAsked DEF Keeps
<1>2. Said(Log(q))' = Said(Log(q))
  BY DEF Said
<1>3. Reached(q)' = Reached(q)
  BY <1>1 DEF Reached
<1>4. Backed(Log(q))'
  BY <1>1, <1>2 DEF Backed, Follows
<1>5. Current(q)' = Current(q) /\ (LimitReached(q) => LimitReached(q)')
  BY <1>1 DEF Current, LimitReached
<1>6. Begins(Said(Log(q)), AllChosen(q))'
  BY <1>1, <1>2 DEF Begins, Follows
<1> QED
  BY <1>1, <1>2, <1>3, <1>4, <1>5, <1>6 DEF Follows

\* The trace file stays as it is
LEMMA TracedStill ==
    ASSUME Keeps, Traced, UNCHANGED traces
    PROVE  Traced'
<1> SUFFICES ASSUME traces \notin {Missing, << >>}
             PROVE  \E r \in Runs : Admitted(r)' /\ IsPrefix(Said(traces), Asked(r))'
  BY DEF Traced
<1>1. PICK r \in Runs : Admitted(r) /\ IsPrefix(Said(traces), Asked(r))
  BY DEF Traced
<1>2. Said(traces)' = Said(traces) /\ Asked(r)' = Asked(r) /\ Admitted(r)'
  BY <1>1, KeepsAsked DEF Said
<1> QED
  BY <1>1, <1>2 DEF IsPrefix

\* Neither does a summary beside its traces and stores
LEMMA SummedStill ==
    ASSUME Keeps, Summed, UNCHANGED <<traces, stores, summaryFile>>
    PROVE  Summed'
<1> DEFINE r == summaryFile.run
<1>1. r \in Runs /\ Admitted(r) /\ Said(traces) = Asked(r)
      /\ summaryFile.queries = Len(traces) /\ Backed(traces)
  BY DEF Summed
<1>2. Said(traces)' = Said(traces) /\ Asked(r)' = Asked(r) /\ Admitted(r)' /\ Ids' = Ids
  BY <1>1, KeepsAsked DEF Said
<1>3. Backed(traces)'
  BY <1>1, <1>2 DEF Backed
<1> QED
  BY <1>1, <1>2, <1>3 DEF Summed

\* A run that has all its traces keeps them.
LEMMA CompletesStill ==
    ASSUME Keeps, NEW q \in Runs, Admitted(q), Completes(q), count'[q] = count[q],
           UNCHANGED <<traces, stores>>
    PROVE  Completes(q)'
<1>1. Said(traces)' = Said(traces) /\ Asked(q)' = Asked(q) /\ Ids' = Ids
  BY KeepsAsked DEF Said
<1>2. Backed(traces)'
  BY <1>1 DEF Backed, Completes
<1> QED
  BY <1>1, <1>2 DEF Completes

\* A step that moves no run within the plan and writes neither traces nor stores
Rests ==
    /\ Keeps
    /\ UNCHANGED <<buffer, traces, stores, count, place, summaryFile>>
    /\ \A q \in Runs :
         \/ pc'[q] = pc[q]
         \/ /\ pc'[q] \notin {"scenarios", "turns", "ledger"}
            /\ pc'[q] = "summary" => pc[q] = "ledger"
            /\ pc'[q] \in Early => pc[q] \in Early
            /\ pc'[q] = "client" => directory = "fresh"
    /\ directory' = "fresh" => directory = "fresh"

\* Such a step keeps the invariant.
LEMMA RestStep ==
    ASSUME PlanInv, Rests
    PROVE  PlanInv'
<1>1. Keeps /\ UNCHANGED <<buffer, traces, stores, count, place, summaryFile>>
  BY DEF Rests
<1>2. \A q \in Runs : pc'[q] \in Early => place'[q].s = 1
  BY <1>1 DEF PlanInv, Rests
<1>3. directory' = "fresh" \/ (\E q \in Runs : pc'[q] = "client") => \A id \in Ids' : stores'[id] = Missing
  <2>1. Ids' = Ids /\ stores' = stores
    BY <1>1 DEF Keeps, Ids
  <2>2. directory' = "fresh" \/ (\E q \in Runs : pc'[q] = "client") =>
          directory = "fresh" \/ \E q \in Runs : pc[q] = "client"
    BY DEF Rests
  <2> QED
    BY <2>1, <2>2 DEF PlanInv
<1>4. ASSUME NEW q \in Runs, pc'[q] \in {"scenarios", "turns"} PROVE Follows(q)'
  <2>1. pc'[q] = pc[q] /\ Admitted(q)
    BY <1>4 DEF Rests, Admitted
  <2>2. Follows(q) /\ Log(q)' = Log(q)
    BY <1>1, <1>4, <2>1 DEF PlanInv, Log
  <2> QED
    BY <1>1, <2>1, <2>2, FollowsStill
<1>5. ASSUME NEW q \in Runs, pc'[q] \in {"ledger", "summary"} PROVE Completes(q)'
  <2>1. pc[q] \in {"ledger", "summary"} /\ Admitted(q)
    BY <1>5 DEF Rests, Admitted
  <2>2. Completes(q)
    BY <2>1 DEF PlanInv
  <2> QED
    BY <1>1, <2>1, <2>2, CompletesStill
<1>6. Traced'
  BY <1>1, TracedStill DEF PlanInv
<1>7. Whole(summaryFile)' => Summed'
  BY <1>1, SummedStill DEF PlanInv, Whole
<1> QED
  BY <1>2, <1>3, <1>4, <1>5, <1>6, <1>7 DEF PlanInv

\* A busy run only has its own position to keep.
LEMMA AloneStep ==
    ASSUME BusyInv, PlanInv, NEW r \in Runs, pc[r] \in Busy \ {"create"}, pc'[r] \notin Early,
           \A q \in Runs \ {r} : pc'[q] = pc[q] /\ place'[q] = place[q],
           UNCHANGED directory, Traced', Whole(summaryFile)' => Summed',
           pc'[r] \in {"scenarios", "turns"} => Follows(r)',
           pc'[r] \in {"ledger", "summary"} => Completes(r)'
    PROVE  PlanInv'
<1>1. directory = "used" /\ \A q \in Runs \ {r} : pc'[q] \notin Busy
  BY DEF BusyInv, Busy
<1>2. \A q \in Runs : pc'[q] \in Early => place'[q].s = 1
  BY DEF PlanInv
<1>3. \A q \in Runs : pc'[q] # "client" /\ (pc'[q] \in {"scenarios", "turns", "ledger", "summary"} => q = r)
  BY <1>1 DEF Busy, Early
<1> QED
  BY <1>1, <1>2, <1>3 DEF PlanInv

\* What is said of a log
LEMMA SaidType ==
    ASSUME NEW log \in Seq(Trace)
    PROVE  /\ Said(log) \in Seq(Turn) /\ Len(Said(log)) = Len(log)
           /\ \A x \in Trace : Said(Append(log, x)) = Said(log) \o << <<x.s, x.query>> >>
<1>1. Len(log) \in Nat /\ \A i \in 1 .. Len(log) : <<log[i].s, log[i].query>> \in Turn
  <2>1. ASSUME NEW i \in 1 .. Len(log) PROVE <<log[i].s, log[i].query>> \in Turn
    <3>1. log[i] \in Trace
      BY ElementOfSeq
    <3> QED
      BY <3>1 DEF Trace, Turn
  <2> QED
    BY <2>1
<1>2. Said(log) \in Seq(Turn) /\ Len(Said(log)) = Len(log)
  BY <1>1 DEF Said
<1>3. ASSUME NEW x \in Trace PROVE Said(Append(log, x)) = Said(log) \o << <<x.s, x.query>> >>
  <2> DEFINE turn == <<x.s, x.query>>
             n == Len(log) + 1
             both == Said(log) \o <<turn>>
  <2>1. turn \in Turn
    BY DEF Trace, Turn
  <2>2. <<turn>> \in Seq(Turn) /\ Len(<<turn>>) = 1 /\ <<turn>>[1] = turn
    BY <2>1
  <2>3. Append(log, x) \in Seq(Trace) /\ Len(Append(log, x)) = n /\ Append(log, x)[n] = x
        /\ \A i \in 1 .. Len(log) : Append(log, x)[i] = log[i]
    OBVIOUS
  <2>4. both \in Seq(Turn) /\ Len(both) = n /\ \A i \in 1 .. n : both[i] = IF i <= Len(log) THEN Said(log)[i] ELSE turn
    <3> HIDE DEF turn
    <3>1. /\ both \in Seq(Turn) /\ Len(both) = Len(Said(log)) + Len(<<turn>>)
          /\ \A i \in 1 .. Len(Said(log)) + Len(<<turn>>) :
                both[i] = IF i <= Len(Said(log)) THEN Said(log)[i] ELSE <<turn>>[i - Len(Said(log))]
      BY <1>2, <2>2, ConcatProperties
    <3> HIDE DEF both
    <3>2. \A i \in 1 .. n : ~(i <= Len(log)) => i - Len(log) = 1
      BY <1>1
    <3> QED
      BY <1>1, <1>2, <2>2, <3>1, <3>2
  <2> DEFINE new == Said(Append(log, x))
  <2>5. new = [i \in 1 .. n |-> <<Append(log, x)[i].s, Append(log, x)[i].query>>]
    BY <2>3 DEF Said
  <2>6. \A i \in 1 .. n : new[i] = both[i]
    <3> HIDE DEF both
    <3>1. \A i \in 1 .. n : i <= Len(log) => i \in 1 .. Len(log)
      BY <1>1
    <3>2. \A i \in 1 .. n : ~(i <= Len(log)) => i = n
      BY <1>1
    <3> QED
      BY <2>3, <2>4, <2>5, <3>1, <3>2 DEF Said
  <2>7. new \in Seq(Turn) /\ Len(new) = n
    <3>1. n \in Nat
      BY <1>1
    <3>2. \A i \in 1 .. n : new[i] \in Turn
      <4> HIDE DEF both, new, n
      <4> QED
        BY <2>4, <2>6, ElementOfSeq
    <3> QED
      BY <2>5, <3>1, <3>2
  <2> HIDE DEF both, new, n
  <2>8. new = both
    BY <2>4, <2>6, <2>7, SeqEqual
  <2> QED
    BY <2>8 DEF both, new
<1> QED
  BY <1>2, <1>3

\* The traces of a run within its scenarios are the first of what it is asked; at the
\* limit, or with all traced, they are what it is asked.
LEMMA FollowsAsked ==
    ASSUME TypeInv, NEW r \in Runs, LocalInv(r), Admitted(r), Follows(r), Log(r) \in Seq(Trace)
    PROVE  /\ IsPrefix(Said(Log(r)), Asked(r))
           /\ LimitReached(r) \/ Said(Log(r)) = AllChosen(r) => Said(Log(r)) = Asked(r)
<1> DEFINE done == Said(Log(r))
<1>1. done \in Seq(Turn) /\ Len(done) = count[r]
  BY SaidType DEF Follows
<1>2. args[r].limit = All \/ (args[r].limit \in Nat /\ count[r] <= args[r].limit)
  BY RunnerConstants DEF TypeInv, Invocation, LocalInv
<1>3. LimitReached(r) => args[r].limit # All /\ Len(done) = args[r].limit
  BY <1>1, <1>2 DEF LimitReached, TypeInv
<1>4. Begins(done, AllChosen(r))
  BY DEF Follows
<1> HIDE DEF done
<1> QED
  BY <1>1, <1>2, <1>3, <1>4, AskedIsCut DEF done

\* Flushed or left, the trace file is the log of a run that follows the plan.
LEMMA FlushedLog ==
    ASSUME TypeInv, LedgerInv, PlanInv, NEW r \in Runs, LocalInv(r),
           pc[r] \in {"scenarios", "turns"}, NEW next, Close(r, next), Keeps
    PROVE  /\ Log(r) \in Seq(Trace) /\ traces' = Log(r) /\ Log(r)' = Log(r)
           /\ Follows(r) /\ Admitted(r) /\ Traced'
<1>1. traces \in Seq(Trace) /\ buffer[r] \in Seq(Trace) /\ traces # Missing
  BY DEF LedgerInv
<1>2. Log(r) \in Seq(Trace)
  BY <1>1 DEF Log
<1>3. traces' = Log(r) /\ buffer'[r] = << >>
  BY <1>1 DEF Close, Written, Log, LedgerInv
<1>4. Log(r)' = Log(r)
  BY <1>2, <1>3 DEF Log
<1>5. Follows(r) /\ Admitted(r)
  BY DEF PlanInv, Admitted
<1>6. IsPrefix(Said(Log(r)), Asked(r))
  BY <1>2, <1>5, FollowsAsked
<1>7. Said(traces)' = Said(Log(r)) /\ Asked(r)' = Asked(r) /\ Admitted(r)'
  BY <1>3, <1>5, KeepsAsked DEF Said
<1>8. Traced'
  BY <1>6, <1>7 DEF Traced, IsPrefix
<1> QED
  BY <1>2, <1>3, <1>4, <1>5, <1>8

\* What a run was asked before turn t of scenario s
Before(r, s, t) == Parts(Groups(r))[s - 1] \o Parts(Picks(r, s))[t - 1]

\* It grows by a scenario's queries, turn by turn, and begins all the run is asked.
LEMMA Positions ==
    ASSUME TypeInv, NEW r \in Runs, Admitted(r), NEW s \in 1 .. Len(Scenarios(r))
    PROVE  /\ Before(r, s, 1) = Parts(Groups(r))[s - 1]
           /\ \A t \in 1 .. Len(Scenarios(r)[s].turns) :
                Before(r, s, t + 1) = Before(r, s, t) \o Picks(r, s)[t]
           /\ Before(r, s, Len(Scenarios(r)[s].turns) + 1) = Parts(Groups(r))[s]
           /\ \A t \in 1 .. Len(Scenarios(r)[s].turns) + 1 : Begins(Before(r, s, t), AllChosen(r))
           /\ Chosen(r, s) = << >> => Parts(Groups(r))[s] = Parts(Groups(r))[s - 1]
<1> DEFINE n == Len(Scenarios(r)[s].turns)
           G == Parts(Groups(r))
           P == Parts(Picks(r, s))
           L == Len(Scenarios(r))
<1>1. /\ Groups(r) \in Seq(Seq(Turn)) /\ Len(Groups(r)) = L /\ L \in Nat
      /\ Picks(r, s) \in Seq(Seq(Turn)) /\ Len(Picks(r, s)) = n /\ n \in Nat
      /\ Chosen(r, s) = FlattenSeq(Picks(r, s)) /\ Chosen(r, s) \in Seq(Turn)
      /\ Groups(r)[s] = Chosen(r, s)
  BY GroupTypes, PickTypes DEF Groups
<1>2. /\ G \in [0 .. L -> Seq(Turn)]
      /\ \A i \in 1 .. L : G[i] = G[i - 1] \o Groups(r)[i]
  <2>1. IsParts(G, Groups(r))
    BY <1>1, PartsOf
  <2> HIDE DEF G, L, n
  <2> QED
    BY <1>1, <2>1 DEF IsParts
<1>3. /\ P \in [0 .. n -> Seq(Turn)] /\ P[0] = << >> /\ P[n] = Chosen(r, s)
      /\ \A t \in 1 .. n : P[t] = P[t - 1] \o Picks(r, s)[t]
  <2>1. IsParts(P, Picks(r, s))
    BY <1>1, PartsOf
  <2> HIDE DEF P, L, n
  <2> QED
    BY <1>1, <2>1 DEF IsParts
<1>4. Picks(r, s) \in [1 .. n -> Seq(Turn)]
  BY <1>1
<1>5. \A t : Before(r, s, t) = G[s - 1] \o P[t - 1]
  BY DEF Before
<1> DEFINE g == G[s - 1]
<1> HIDE DEF n, G, P, L
<1>6. ASSUME NEW t, NEW u, t - 1 = u PROVE Before(r, s, t) = g \o P[u]
  BY <1>6 DEF Before, G, P
<1>7. s \in 1 .. L /\ s - 1 \in 0 .. L /\ g \in Seq(Turn)
  <2>1. s \in 1 .. L
    BY DEF L
  <2>2. s - 1 \in 0 .. L
    BY <1>1, <2>1
  <2> QED
    BY <1>2, <2>1, <2>2
<1>8. Before(r, s, 1) = g
  <2>1. 1 - 1 = 0
    OBVIOUS
  <2>2. Before(r, s, 1) = g \o << >>
    BY <1>3, <1>5, <2>1
  <2> QED
    BY <1>7, <2>2, ConcatEmptySeq
<1>9. ASSUME NEW t \in 1 .. n PROVE Before(r, s, t + 1) = Before(r, s, t) \o Picks(r, s)[t]
  <2> DEFINE p == P[t - 1]
             x == Picks(r, s)[t]
  <2>1. t + 1 - 1 = t /\ t - 1 \in 0 .. n
    BY <1>1
  <2>2. P[t] = p \o x
    BY <1>3
  <2>3. p \in Seq(Turn) /\ x \in Seq(Turn)
    BY <1>3, <1>4, <2>1
  <2>4. Before(r, s, t) = g \o p
    BY <1>5
  <2> DEFINE j == t + 1
  <2>5. j - 1 = t /\ j = t + 1
    BY <2>1
  <2> HIDE DEF p, x, g, j
  <2>8. Before(r, s, j) = g \o P[t]
    BY <1>6, <2>5, Zenon
  <2>9. Before(r, s, t + 1) = g \o (p \o x)
    BY <2>2, <2>5, <2>8
  <2>6. (g \o p) \o x = g \o (p \o x)
    BY <1>7, <2>3, ConcatAssociative
  <2>7. Before(r, s, t + 1) = Before(r, s, t) \o x
    BY <2>4, <2>6, <2>9
  <2> QED
    BY <2>7 DEF x
<1>10. G[s] = g \o Chosen(r, s)
  BY <1>1, <1>2, <1>7
<1>11. Before(r, s, n + 1) = G[s]
  <2> DEFINE j == n + 1
  <2>1. j - 1 = n /\ j = n + 1
    BY <1>1
  <2> HIDE DEF g, j
  <2>2. Before(r, s, j) = g \o P[n]
    BY <1>6, <2>1, Zenon
  <2> QED
    BY <1>3, <1>10, <2>1, <2>2
<1>12. ASSUME NEW t \in 1 .. n + 1 PROVE Begins(Before(r, s, t), AllChosen(r))
  <2> DEFINE p == P[t - 1]
  <2>1. t - 1 \in 0 .. n
    BY <1>1
  <2>2. Begins(p, Chosen(r, s))
    BY <1>1, <2>1, PartsBegin DEF P, n
  <2>3. PICK u \in Seq(Turn) : Chosen(r, s) = p \o u
    BY <2>2 DEF Begins
  <2>4. p \in Seq(Turn)
    BY <1>3, <2>1
  <2>5. Before(r, s, t) = g \o p
    BY <1>5
  <2> HIDE DEF p, g
  <2>6. (g \o p) \o u = g \o (p \o u)
    BY <1>7, <2>4, ConcatAssociative
  <2>7. G[s] = (g \o p) \o u
    BY <1>10, <2>3, <2>6
  <2>8. Begins(G[s], AllChosen(r))
    <3>1. s \in 0 .. Len(Groups(r))
      BY <1>1, <1>7
    <3> QED
      BY <1>1, <3>1, PartsBegin DEF G, AllChosen
  <2>9. g \o p \in Seq(Turn)
    BY <1>7, <2>4, ConcatProperties
  <2>10. Begins((g \o p) \o u, AllChosen(r))
    BY <2>7, <2>8
  <2>11. Begins(g \o p, AllChosen(r))
    BY <2>9, <2>10, BeginsTransitive
  <2> QED
    BY <2>5, <2>11
<1>13. Chosen(r, s) = << >> => G[s] = g
  BY <1>7, <1>10, ConcatEmptySeq
<1> QED
  BY <1>8, <1>9, <1>11, <1>12, <1>13 DEF n, G

\* Nothing is chosen of a scenario without a selected query.
LEMMA NothingChosen ==
    ASSUME TypeInv, NEW r \in Runs, Admitted(r), NEW s \in 1 .. Len(Scenarios(r)),
           \A q \in ToSet(Scenarios(r)[s].turns) : ~Selects(r, q)
    PROVE  Chosen(r, s) = << >>
<1> DEFINE turns == Scenarios(r)[s].turns
           n == Len(turns)
           P == Parts(Picks(r, s))
           Bad == {t \in 0 .. n : P[t] # << >>}
<1>1. /\ turns \in Seq(STRING)
      /\ Picks(r, s) \in Seq(Seq(Turn)) /\ Len(Picks(r, s)) = n /\ n \in Nat
      /\ Chosen(r, s) = FlattenSeq(Picks(r, s))
  BY PickTypes
<1>2. ASSUME NEW t \in 1 .. n PROVE Picks(r, s)[t] = << >>
  <2>1. turns[t] \in ToSet(turns)
    BY <1>1 DEF ToSet
  <2> QED
    BY <2>1 DEF Picks
<1>3. /\ P[0] = << >> /\ P[n] = Chosen(r, s)
      /\ \A t \in 1 .. n : P[t] = P[t - 1] \o Picks(r, s)[t]
  <2>1. IsParts(P, Picks(r, s))
    BY <1>1, PartsOf
  <2> HIDE DEF P, n
  <2> QED
    BY <1>1, <2>1 DEF IsParts
<1> HIDE DEF P, n
<1>4. Bad = {}
  <2> SUFFICES ASSUME Bad # {} PROVE FALSE
    OBVIOUS
  <2>1. PICK t \in Bad : \A m \in Bad : t <= m
    <3>1. Bad \in SUBSET Nat
      BY <1>1
    <3> HIDE DEF Bad
    <3> QED
      BY <3>1, LeastNatural
  <2>2. t \in 0 .. n /\ t \in Nat /\ P[t] # << >>
    BY <1>1
  <2>3. t # 0
    BY <1>3, <2>2
  <2>4. t - 1 \in 0 .. n /\ t - 1 \notin Bad
    <3>1. t - 1 \in 0 .. n /\ ~(t <= t - 1)
      BY <1>1, <2>2, <2>3
    <3> HIDE DEF Bad
    <3> QED
      BY <2>1, <3>1
  <2>5. P[t - 1] = << >> /\ t \in 1 .. n
    BY <2>2, <2>3, <2>4
  <2>6. P[t] = << >> \o << >>
    BY <1>2, <1>3, <2>5
  <2> QED
    BY <2>2, <2>6
<1>5. n \in 0 .. n
  BY <1>1
<1> QED
  BY <1>3, <1>4, <1>5

\* Where the position goes, turn included
LEMMA Turns ==
    ASSUME NEW p \in [Runs -> PlaceIn], NEW r \in Runs
    PROVE  /\ [p EXCEPT ![r].t = @ + 1][r].t = p[r].t + 1
           /\ [p EXCEPT ![r].t = 1][r].t = 1
BY DEF PlaceIn

\* A turn that is not selected, or is asked and traced, moves a run along the plan.
LEMMA TurnFollows ==
    ASSUME TypeInv, NEW r \in Runs, LocalInv(r), Follows(r), AtTurn(r), Keeps,
           place' = [place EXCEPT ![r].t = @ + 1], pc' = pc,
           Len(Log(r))' = count'[r], Backed(Log(r))',
           Said(Log(r))' = Said(Log(r)) \o Picks(r, place[r].s)[place[r].t]
    PROVE  Follows(r)'
<1> DEFINE s == place[r].s
           t == place[r].t
           n == Len(Scenarios(r)[s].turns)
<1>1. /\ Admitted(r) /\ pc[r] = "turns" /\ ~LimitReached(r)
      /\ s <= Len(Scenarios(r)) /\ t <= n
  BY DEF AtTurn, Admitted, LocalInv, Current
<1>2. s \in 1 .. Len(Scenarios(r)) /\ t \in 1 .. n
  <2>1. Scenarios(r) \in Seq(Scenario)
    BY <1>1, GroupTypes
  <2>2. s \in 1 .. Len(Scenarios(r)) /\ t \in Nat \ {0}
    BY <1>1, <2>1 DEF TypeInv, PlaceIn
  <2>3. n \in Nat
    BY <1>1, <2>2, PickTypes
  <2> QED
    BY <1>1, <2>2, <2>3
<1>3. place'[r].s = s /\ place'[r].t = t + 1
  BY NextTurn, Turns DEF TypeInv
<1>4. Said(Log(r)) = Before(r, s, t)
  BY <1>1 DEF Follows, Reached, Before
<1> HIDE DEF s, t
<1>5. Said(Log(r))' = Before(r, s, t + 1)
  BY <1>1, <1>2, <1>4, Positions DEF s, t
<1>6. /\ Scenarios(r)' = Scenarios(r) /\ Groups(r)' = Groups(r) /\ AllChosen(r)' = AllChosen(r)
      /\ \A x : Picks(r, x)' = Picks(r, x)
  BY <1>1, KeepsAsked
<1>7. Reached(r)' = Before(r, s, t + 1)
  BY <1>1, <1>3, <1>6 DEF Reached, Before
<1>8. Begins(Before(r, s, t + 1), AllChosen(r))
  <2>1. t + 1 \in 1 .. n + 1
    BY <1>2
  <2> QED
    BY <1>1, <1>2, <2>1, Positions
<1>9. Begins(Said(Log(r)), AllChosen(r))'
  BY <1>5, <1>6, <1>8 DEF Begins
<1>10. place'[r].s <= Len(Scenarios(r))' + 1 /\ place'[r].t <= Len(Current(r).turns)' + 1
  <2>1. Current(r)' = Scenarios(r)[s]
    BY <1>3, <1>6 DEF Current
  <2>2. s <= Len(Scenarios(r)) + 1 /\ t + 1 <= n + 1
    <3>1. Len(Scenarios(r)) \in Nat /\ n \in Nat
      BY <1>1, <1>2, GroupTypes, PickTypes
    <3> QED
      BY <1>2, <3>1
  <2> QED
    BY <1>3, <1>6, <2>1, <2>2
<1> QED
  BY <1>5, <1>7, <1>9, <1>10 DEF Follows

\* A scenario without a selected query is passed over.
LEMMA SkipFollows ==
    ASSUME TypeInv, NEW r \in Runs, Follows(r), SkipScenario(r), Keeps
    PROVE  Follows(r)'
<1> DEFINE s == place[r].s
<1>1. /\ pc[r] = "scenarios" /\ Admitted(r) /\ s <= Len(Scenarios(r)) /\ ~LimitReached(r)
      /\ \A q \in ToSet(Scenarios(r)[s].turns) : ~Selects(r, q)
      /\ UNCHANGED <<pc, count, buffer, traces, stores>>
  BY DEF SkipScenario, files, Admitted, Current
<1>2. s \in 1 .. Len(Scenarios(r)) /\ Len(Scenarios(r)) \in Nat
  BY <1>1, GroupTypes DEF TypeInv, PlaceIn
<1>3. place'[r].s = s + 1
  BY NextScenario DEF SkipScenario, TypeInv
<1>4. Said(Log(r)) = Parts(Groups(r))[s - 1]
  BY <1>1 DEF Follows, Reached
<1> HIDE DEF s
<1>5. Parts(Groups(r))[s] = Parts(Groups(r))[s - 1]
  <2>1. Chosen(r, s) = << >>
    BY <1>1, <1>2, NothingChosen
  <2> QED
    BY <1>1, <1>2, <2>1, Positions
<1>6. Scenarios(r)' = Scenarios(r) /\ Groups(r)' = Groups(r) /\ AllChosen(r)' = AllChosen(r) /\ Ids' = Ids
  BY <1>1, KeepsAsked
<1>7. Log(r)' = Log(r) /\ Said(Log(r))' = Said(Log(r))
  BY <1>1 DEF Log, Said
<1>8. Reached(r)' = Parts(Groups(r))[s]
  <2>1. place'[r].s - 1 = s
    BY <1>2, <1>3
  <2> QED
    BY <1>1, <1>6, <2>1 DEF Reached
<1>9. Backed(Log(r))'
  BY <1>1, <1>6, <1>7 DEF Backed, Follows
<1>10. Begins(Said(Log(r)), AllChosen(r))'
  BY <1>6, <1>7 DEF Begins, Follows
<1>11. place'[r].s <= Len(Scenarios(r))' + 1
  BY <1>2, <1>3, <1>6
<1> QED
  BY <1>1, <1>4, <1>5, <1>7, <1>8, <1>9, <1>10, <1>11 DEF Follows

\* A scenario opens with a store in which no query wrote yet.
LEMMA OpenFollows ==
    ASSUME TypeInv, StoreInv, NEW r \in Runs, Follows(r), OpenScenario(r), pc'[r] = "turns", Keeps
    PROVE  Follows(r)'
<1> DEFINE s == place[r].s
           id == Current(r).id
           fixture == [run |-> r, s |-> s, query |-> "seed"]
<1>1. /\ pc[r] = "scenarios" /\ Admitted(r) /\ s <= Len(Scenarios(r)) /\ ~LimitReached(r)
      /\ UNCHANGED count
  BY DEF OpenScenario, Admitted
<1>2. s \in 1 .. Len(Scenarios(r)) /\ Len(Scenarios(r)) \in Nat /\ id \in Ids
  BY <1>1, GroupTypes, CurrentType DEF TypeInv, PlaceIn
<1>3. place'[r].s = s /\ place'[r].t = 1
  BY FirstTurn, Turns DEF OpenScenario, TypeInv
<1>4. /\ stores[id] = Missing /\ UNCHANGED <<buffer, traces>>
      /\ stores' = [stores EXCEPT ![id] = <<fixture>>] \/ stores' = [stores EXCEPT ![id] = << >>]
  <2>1. pc'[r] # "failed"
    OBVIOUS
  <2>2. ~RefusesDb(r)
    BY <2>1 DEF OpenScenario, Close, TypeInv
  <2>3. stores[id] = Missing
    BY <2>2 DEF RefusesDb
  <2> QED
    BY <2>1, <2>2, <2>3 DEF OpenScenario, Close, TypeInv
<1>5. Scenarios(r)' = Scenarios(r) /\ Groups(r)' = Groups(r) /\ AllChosen(r)' = AllChosen(r)
      /\ Ids' = Ids /\ (\A x : Picks(r, x)' = Picks(r, x)) /\ Current(r)' = Current(r)
  BY <1>1, <1>3, KeepsAsked DEF Current
<1>6. Log(r)' = Log(r) /\ Said(Log(r))' = Said(Log(r))
  BY <1>4 DEF Log, Said
<1>7. Reached(r)' = Reached(r)
  <2>1. Reached(r)' = Before(r, s, 1)
    BY <1>3, <1>5 DEF Reached, Before
  <2>2. Reached(r) = Parts(Groups(r))[s - 1]
    BY <1>1 DEF Reached
  <2> QED
    BY <1>1, <1>2, <2>1, <2>2, Positions
<1>8. Backed(Log(r))'
  <2> SUFFICES ASSUME NEW i \in Ids, stores'[i] # Missing, NEW w \in ToSet(stores'[i])
               PROVE  w.query = "seed" \/ <<w.s, w.query>> \in ToSet(Said(Log(r)))
    BY <1>5, <1>6 DEF Backed
  <2>1. CASE i # id
    <3>1. stores'[i] = stores[i]
      BY <1>4, <2>1 DEF StoreInv
    <3> QED
      BY <3>1 DEF Follows, Backed
  <2>2. CASE i = id
    <3>1. stores'[i] = <<fixture>> \/ stores'[i] = << >>
      BY <1>2, <1>4, <2>2 DEF StoreInv
    <3>2. w = fixture
      BY <3>1 DEF ToSet
    <3> QED
      BY <3>2
  <2> QED
    BY <2>1, <2>2
<1>9. Begins(Said(Log(r)), AllChosen(r))'
  BY <1>5, <1>6 DEF Begins, Follows
<1>10. place'[r].s <= Len(Scenarios(r))' + 1 /\ place'[r].t <= Len(Current(r).turns)' + 1
  <2>1. Len(Current(r).turns) \in Nat
    BY <1>1, <1>2, PickTypes DEF Current
  <2> QED
    BY <1>2, <1>3, <1>5, <2>1
<1> QED
  BY <1>1, <1>6, <1>7, <1>8, <1>9, <1>10 DEF Follows

\* A turn that is not selected
LEMMA SkipTurnFollows ==
    ASSUME TypeInv, NEW r \in Runs, LocalInv(r), Follows(r), SkipTurn(r), Keeps,
           Log(r) \in Seq(Trace)
    PROVE  Follows(r)'
<1> DEFINE s == place[r].s
           t == place[r].t
<1>1. AtTurn(r) /\ ~Selects(r, Query(r)) /\ UNCHANGED <<pc, count, buffer, traces, stores>>
      /\ place' = [place EXCEPT ![r].t = @ + 1]
  BY DEF SkipTurn, files
<1>2. Log(r)' = Log(r) /\ Said(Log(r))' = Said(Log(r)) /\ Ids' = Ids
  BY <1>1 DEF Log, Said, Keeps, Ids
<1>3. Picks(r, s)[t] = << >>
  <2>1. t \in 1 .. Len(Scenarios(r)[s].turns)
    <3>1. Admitted(r) /\ s <= Len(Scenarios(r)) /\ t <= Len(Scenarios(r)[s].turns)
      BY <1>1 DEF AtTurn, Admitted, LocalInv, Current
    <3>2. s \in 1 .. Len(Scenarios(r)) /\ t \in Nat \ {0}
      BY <3>1, GroupTypes DEF TypeInv, PlaceIn
    <3>3. Len(Scenarios(r)[s].turns) \in Nat
      BY <3>1, <3>2, PickTypes
    <3> QED
      BY <3>1, <3>2, <3>3
  <2> QED
    BY <1>1, <2>1 DEF Picks, Query, Current
<1>4. Said(Log(r))' = Said(Log(r)) \o Picks(r, s)[t]
  BY <1>2, <1>3, SaidType, ConcatEmptySeq
<1>5. Len(Log(r))' = count'[r] /\ Backed(Log(r))'
  BY <1>1, <1>2 DEF Follows, Backed
<1> QED
  BY <1>1, <1>4, <1>5, TurnFollows

\* A query is traced in its turn, and nothing of it written that is not.
LEMMA QueryFollows ==
    ASSUME TypeInv, LedgerInv, StoreInv, NEW r \in Runs, LocalInv(r), Follows(r), traces # Missing,
           NEW c \in CostsOf(r), HandleQuery(r, c), Keeps
    PROVE  Follows(r)'
<1> DEFINE s == place[r].s
           t == place[r].t
           turn == <<s, Query(r)>>
           id == Current(r).id
           w == [run |-> r, s |-> s, query |-> Query(r)]
<1>1. /\ AtTurn(r) /\ Selects(r, Query(r)) /\ pc' = pc
      /\ place' = [place EXCEPT ![r].t = @ + 1]
      /\ count'[r] = count[r] + 1
      /\ UNCHANGED stores \/ stores' = [stores EXCEPT ![id] = Append(@, w)]
  BY DEF HandleQuery, TypeInv, Writes
<1>2. PICK x \in Trace : /\ x.s = s /\ x.query = Query(r)
                        /\ Log(r) \in Seq(Trace) /\ Log(r)' = Append(Log(r), x)
  BY QueryTraced DEF LedgerInv, AtTurn
<1>3. t \in 1 .. Len(Scenarios(r)[s].turns)
  <2>1. Admitted(r) /\ s <= Len(Scenarios(r)) /\ t <= Len(Scenarios(r)[s].turns)
    BY <1>1 DEF AtTurn, Admitted, LocalInv, Current
  <2>2. s \in 1 .. Len(Scenarios(r)) /\ t \in Nat \ {0}
    BY <2>1, GroupTypes DEF TypeInv, PlaceIn
  <2>3. Len(Scenarios(r)[s].turns) \in Nat
    BY <2>1, <2>2, PickTypes
  <2> QED
    BY <2>1, <2>2, <2>3
<1>4. Picks(r, s)[t] = <<turn>>
  BY <1>1, <1>3 DEF Picks, Query, Current
<1>5. Said(Log(r))' = Said(Append(Log(r), x))
  BY <1>2 DEF Said
<1>6. Said(Log(r))' = Said(Log(r)) \o <<turn>>
  BY <1>2, <1>5, SaidType
<1>7. Len(Log(r))' = count'[r]
  BY <1>1, <1>2 DEF Follows
<1>8. ToSet(Said(Log(r))) \cup {turn} \subseteq ToSet(Said(Log(r))')
  <2> DEFINE said == Said(Log(r))
  <2>1. said \in Seq(Turn) /\ turn \in Turn
    <3>1. said \in Seq(Turn) /\ x \in Trace
      BY <1>2, SaidType
    <3>2. turn = <<x.s, x.query>>
      BY <1>2
    <3> QED
      BY <3>1, <3>2 DEF Trace, Turn
  <2> HIDE DEF turn, said
  <2>2. said \o <<turn>> = Append(said, turn)
    BY <2>1
  <2>3. \A y \in ToSet(said) \cup {turn} : y \in ToSet(Append(said, turn))
    <3>1. Len(Append(said, turn)) = Len(said) + 1 /\ Append(said, turn)[Len(said) + 1] = turn
          /\ Len(said) \in Nat /\ \A i \in 1 .. Len(said) : Append(said, turn)[i] = said[i]
      BY <2>1
    <3>2. Len(said) + 1 \in 1 .. Len(said) + 1 /\ \A i \in 1 .. Len(said) : i \in 1 .. Len(said) + 1
      BY <3>1
    <3> QED
      BY <3>1, <3>2 DEF ToSet
  <2>4. Said(Log(r))' = Append(said, turn)
    BY <1>6, <2>2 DEF said
  <2> QED
    BY <2>3, <2>4 DEF said
<1>9. Backed(Log(r))'
  <2>1. Ids' = Ids
    BY DEF Keeps, Ids
  <2> SUFFICES ASSUME NEW i \in Ids, stores'[i] # Missing, NEW v \in ToSet(stores'[i])
               PROVE  v.query = "seed" \/ <<v.s, v.query>> \in ToSet(Said(Log(r))')
    BY <2>1 DEF Backed
  <2>2. CASE stores'[i] = stores[i]
    BY <1>8, <2>2 DEF Follows, Backed
  <2>3. CASE i = id /\ stores' = [stores EXCEPT ![id] = Append(@, w)]
    <3>1. Owned(r)
      BY <1>1 DEF StoreInv, Owner, AtTurn
    <3>2. stores[id] \in Seq(Entry) /\ stores[id] # Missing
      BY <3>1 DEF Owned, StoreInv
    <3>3. w \in Entry
      BY <1>1, QueryPermitted DEF Entry, TypeInv, PlaceIn
    <3>4. stores'[i] = Append(stores[id], w)
      BY <2>3 DEF StoreInv
    <3>5. v = w \/ v \in ToSet(stores[id])
      <4> HIDE DEF w, id
      <4> QED
        BY <3>2, <3>3, <3>4 DEF ToSet
    <3>6. w.s = s /\ w.query = Query(r)
      OBVIOUS
    <3> HIDE DEF w
    <3> QED
      BY <1>8, <2>3, <3>2, <3>5, <3>6 DEF Follows, Backed
  <2> QED
    BY <1>1, <2>2, <2>3 DEF StoreInv
<1> QED
  BY <1>1, <1>4, <1>6, <1>7, <1>9, TurnFollows

\* A scenario is left when its turns are done, or the limit is reached.
LEMMA CloseFollows ==
    ASSUME TypeInv, NEW r \in Runs, LocalInv(r), Follows(r), CloseScenario(r), Keeps
    PROVE  Follows(r)'
<1> DEFINE s == place[r].s
           t == place[r].t
           n == Len(Scenarios(r)[s].turns)
<1>1. /\ pc[r] = "turns" /\ pc'[r] = "scenarios" /\ Admitted(r) /\ s <= Len(Scenarios(r))
      /\ ~(t <= n) \/ LimitReached(r)
      /\ t <= n + 1
      /\ UNCHANGED <<count, buffer, traces, stores>>
  <2>1. pc[r] = "turns" /\ pc'[r] = "scenarios" /\ ~AtTurn(r) /\ UNCHANGED <<count, buffer, traces, stores>>
    BY DEF CloseScenario, files, TypeInv
  <2>2. Admitted(r) /\ s <= Len(Scenarios(r)) /\ Current(r) = Scenarios(r)[s]
    BY <2>1 DEF Admitted, LocalInv, Current
  <2>3. ~(t <= n) \/ LimitReached(r)
    BY <2>1, <2>2 DEF AtTurn
  <2>4. t <= n + 1
    BY <2>1, <2>2 DEF Follows
  <2> QED
    BY <2>1, <2>2, <2>3, <2>4
<1>2. s \in 1 .. Len(Scenarios(r)) /\ Len(Scenarios(r)) \in Nat /\ n \in Nat /\ t \in Nat
  <2>1. s \in 1 .. Len(Scenarios(r)) /\ Len(Scenarios(r)) \in Nat /\ t \in Nat
    BY <1>1, GroupTypes DEF TypeInv, PlaceIn
  <2> QED
    BY <1>1, <2>1, PickTypes
<1>3. place'[r].s = s + 1
  BY NextScenario DEF CloseScenario, TypeInv
<1>4. Scenarios(r)' = Scenarios(r) /\ Groups(r)' = Groups(r) /\ AllChosen(r)' = AllChosen(r)
      /\ Ids' = Ids /\ args'[r] = args[r]
  BY <1>1, KeepsAsked DEF Keeps
<1>5. Log(r)' = Log(r) /\ Said(Log(r))' = Said(Log(r))
  BY <1>1 DEF Log, Said
<1>6. LimitReached(r)' \/ Said(Log(r))' = Reached(r)'
  <2>1. CASE LimitReached(r)
    BY <1>1, <1>4, <2>1 DEF LimitReached
  <2>2. CASE ~LimitReached(r)
    <3>1. t = n + 1
      BY <1>1, <1>2, <2>2
    <3>2. Said(Log(r)) = Before(r, s, t)
      BY <1>1, <2>2 DEF Follows, Reached, Before
    <3>3. place'[r].s - 1 = s
      BY <1>2, <1>3
    <3> HIDE DEF s, t
    <3>4. Said(Log(r)) = Parts(Groups(r))[s]
      BY <1>1, <1>2, <3>1, <3>2, Positions
    <3>5. Reached(r)' = Parts(Groups(r))[s]
      BY <1>1, <1>4, <3>3 DEF Reached
    <3> QED
      BY <1>5, <3>4, <3>5
  <2> QED
    BY <2>1, <2>2
<1>7. Backed(Log(r))'
  BY <1>1, <1>4, <1>5 DEF Backed, Follows
<1>8. Begins(Said(Log(r)), AllChosen(r))'
  BY <1>4, <1>5 DEF Begins, Follows
<1>9. place'[r].s <= Len(Scenarios(r))' + 1
  BY <1>2, <1>3, <1>4
<1> QED
  BY <1>1, <1>5, <1>6, <1>7, <1>8, <1>9 DEF Follows

\* Behind the last scenario, or at the limit, all that is asked is traced.
LEMMA EndCompletes ==
    ASSUME TypeInv, NEW r \in Runs, LocalInv(r), Follows(r), pc[r] = "scenarios",
           Log(r) \in Seq(Trace), place[r].s > Len(Scenarios(r)) \/ LimitReached(r)
    PROVE  Said(Log(r)) = Asked(r)
<1> DEFINE L == Len(Scenarios(r))
<1>1. Admitted(r)
  BY DEF Admitted
<1>2. L \in Nat /\ Len(Groups(r)) = L /\ Groups(r) \in Seq(Seq(Turn))
  BY <1>1, GroupTypes
<1>3. CASE LimitReached(r)
  BY <1>1, <1>3, FollowsAsked
<1>4. CASE ~LimitReached(r)
  <2>1. place[r].s - 1 = L
    BY <1>2, <1>4 DEF Follows, TypeInv, PlaceIn
  <2>2. Said(Log(r)) = Parts(Groups(r))[L]
    BY <1>4, <2>1 DEF Follows, Reached
  <2>3. Parts(Groups(r))[L] = AllChosen(r)
    <3>1. IsParts(Parts(Groups(r)), Groups(r))
      BY <1>2, PartsOf
    <3> QED
      BY <1>2, <3>1 DEF IsParts, AllChosen
  <2> QED
    BY <1>1, <2>2, <2>3, FollowsAsked
<1> QED
  BY <1>3, <1>4

\* At first nothing is asked, traced or written.
LEMMA StartFollows ==
    ASSUME RunsInv, LedgerInv, PlanInv, NEW r \in Runs, pc[r] = "client", pc'[r] = "scenarios",
           Keeps, traces' = << >>, UNCHANGED <<place, buffer, stores, count>>
    PROVE  Follows(r)'
<1>1. /\ buffer[r] = << >> /\ count[r] = 0 /\ place[r].s = 1 /\ Admitted(r)
      /\ \A id \in Ids : stores[id] = Missing
  BY DEF RunsInv, LocalInv, LedgerInv, PlanInv, Early, Admitted
<1>2. /\ Scenarios(r)' = Scenarios(r) /\ Groups(r)' = Groups(r) /\ AllChosen(r)' = AllChosen(r)
      /\ Ids' = Ids
  BY <1>1, KeepsAsked
<1>3. Len(Scenarios(r)) \in Nat /\ AllChosen(r) \in Seq(Turn) /\ Groups(r) \in Seq(Seq(Turn))
  BY <1>1, GroupTypes DEF RunsInv
<1>4. Log(r)' = << >> /\ Said(Log(r))' = << >> /\ Len(Log(r))' = 0
  BY <1>1 DEF Log, Said
<1>5. Reached(r)' = << >>
  <2>1. IsParts(Parts(Groups(r)), Groups(r)) /\ place'[r].s - 1 = 0
    BY <1>1, <1>3, PartsOf
  <2>2. Reached(r)' = Parts(Groups(r))[0]
    BY <1>2, <2>1 DEF Reached
  <2> QED
    BY <2>1, <2>2 DEF IsParts
<1>6. Begins(Said(Log(r)), AllChosen(r))'
  <2>1. << >> \o AllChosen(r) = AllChosen(r)
    BY <1>3, ConcatEmptySeq
  <2> QED
    BY <1>2, <1>3, <1>4, <2>1 DEF Begins
<1>7. Backed(Log(r))'
  BY <1>1, <1>2 DEF Backed
<1>8. place'[r].s <= Len(Scenarios(r))' + 1
  BY <1>1, <1>2, <1>3
<1> QED
  BY <1>1, <1>4, <1>5, <1>6, <1>7, <1>8 DEF Follows

\* Every step keeps the traces to the plan.
LEMMA PlanStep ==
    ASSUME RunsInv, BusyInv, LedgerInv, StoreInv, PlanInv, [Next]_vars
    PROVE  PlanInv'
<1> USE DEF RunsInv
<1>1. ASSUME NEW c \in Configs, Configure(c) PROVE PlanInv'
  <2>1. Rests
    BY <1>1 DEF Configure, files, Rests, Keeps, Admitted
  <2> QED
    BY <2>1, RestStep
<1>2. ASSUME NEW r \in Runs, RunStep(r) PROVE PlanInv'
  <2>0. /\ \A q \in Runs \ {r} : pc'[q] = pc[q] /\ place'[q] = place[q] /\ args'[q] = args[q]
        /\ plan' = plan
    <3>1. \A q \in Runs \ {r} : pc'[q] = pc[q] /\ place'[q] = place[q] /\ args'[q] = args[q]
      BY <1>2, Bystanders DEF Same
    <3>2. plan' = plan
      BY <1>2 DEF RunStep, Invoke, CreateRunDir, MakeClient, EndScenarios, SkipScenario,
            OpenScenario, SkipTurn, HandleQuery, QueryRaises, Flush, CloseScenario,
            WriteLedger, WriteSummary, WriteResults, Crash, asked
    <3> QED
      BY <3>1, <3>2
  <2>1. ASSUME NEW a \in Invocations, NEW pinned \in BOOLEAN, Invoke(r, a, pinned) PROVE PlanInv'
    <3>1. /\ pc[r] = "start" /\ pc'[r] \in {"refused", "preflighted", "create"}
          /\ UNCHANGED <<buffer, traces, stores, count, place, summaryFile, directory>>
      BY <2>1 DEF Invoke, files, TypeInv
    <3>2. Rests
      BY <2>0, <3>1 DEF Rests, Keeps, Admitted, Early
    <3> QED
      BY <3>2, RestStep
  <2>2. CASE CreateRunDir(r)
    <3>1. /\ pc[r] = "create" /\ pc'[r] = "client" /\ directory' = "used" /\ directory = "fresh"
          /\ UNCHANGED <<args, buffer, traces, stores, count, place, summaryFile>>
      BY <2>2 DEF CreateRunDir, asked, TypeInv, BusyInv, Busy
    <3>2. Rests
      BY <2>0, <3>1 DEF Rests, Keeps, Admitted, Early
    <3> QED
      BY <3>2, RestStep
  <2>3. CASE MakeClient(r)
    <3>1. /\ pc[r] = "client" /\ UNCHANGED <<args, place, buffer, stores, count, summaryFile, directory>>
          /\ \/ pc'[r] = "scenarios" /\ traces' = << >>
             \/ pc'[r] = "failed" /\ UNCHANGED traces
      BY <2>3 DEF MakeClient, TypeInv
    <3>2. Keeps
      BY <2>0, <3>1 DEF Keeps, Admitted
    <3>3. CASE pc'[r] = "failed" /\ UNCHANGED traces
      <4>1. Rests
        BY <2>0, <3>1, <3>2, <3>3 DEF Rests, Early
      <4> QED
        BY <4>1, RestStep
    <3>4. CASE pc'[r] = "scenarios" /\ traces' = << >>
      <4>1. ~Whole(summaryFile)
        BY <3>1, Alone DEF Busy
      <4>2. Traced'
        BY <3>4 DEF Traced
      <4>3. Follows(r)'
        BY <3>1, <3>2, <3>4, StartFollows
      <4> QED
        BY <2>0, <3>1, <3>4, <4>1, <4>2, <4>3, AloneStep DEF Busy, Early, Whole
    <3> QED
      BY <3>1, <3>3, <3>4
  <2>4. ASSUME pc[r] \in {"scenarios", "turns"}, pc'[r] \in {"scenarios", "turns", "failed", "ledger"},
               args' = args, UNCHANGED <<directory, summaryFile>>,
               Traced', pc'[r] \in {"scenarios", "turns"} => Follows(r)',
               pc'[r] = "ledger" => Completes(r)'
        PROVE  PlanInv'
    <3>1. ~Whole(summaryFile)
      BY <2>4, Alone DEF Busy
    <3> QED
      BY <2>0, <2>4, <3>1, AloneStep DEF Busy, Early, Whole
  <2>5. ASSUME pc[r] \in {"scenarios", "turns"}
        PROVE  /\ Follows(r) /\ traces # Missing /\ Log(r) \in Seq(Trace)
               /\ args' = args /\ pc'[r] \notin {"start", "refused", "preflighted"} => Keeps
    <3>1. Follows(r) /\ traces # Missing
      BY <2>5 DEF PlanInv, LedgerInv
    <3>2. Log(r) \in Seq(Trace)
      BY <3>1 DEF LedgerInv, Log
    <3> QED
      BY <2>0, <2>5, <3>1, <3>2 DEF Keeps, Admitted
  <2>6. ASSUME Keeps, traces' = traces PROVE Traced'
    BY <2>6, TracedStill DEF PlanInv
  <2>7. CASE EndScenarios(r)
    <3>1. /\ pc[r] = "scenarios" /\ pc'[r] = "ledger" /\ Close(r, "ledger") /\ args' = args
          /\ place[r].s > Len(Scenarios(r)) \/ LimitReached(r)
          /\ UNCHANGED <<count, stores, directory, summaryFile>>
      BY <2>7 DEF EndScenarios, Close, asked, TypeInv
    <3>2. Keeps /\ Follows(r)
      BY <2>5, <3>1
    <3>3. Log(r) \in Seq(Trace) /\ traces' = Log(r) /\ Traced' /\ Admitted(r)
      BY <3>1, <3>2, FlushedLog
    <3>4. Said(Log(r)) = Asked(r)
      BY <3>1, <3>2, <3>3, EndCompletes
    <3>5. Completes(r)'
      <4>1. Said(traces)' = Said(Log(r)) /\ Asked(r)' = Asked(r) /\ Ids' = Ids
        BY <3>2, <3>3, KeepsAsked DEF Said
      <4>2. Backed(traces)'
        BY <3>1, <3>2, <4>1 DEF Follows, Backed
      <4>3. Len(traces') = count'[r]
        BY <3>1, <3>2, <3>3 DEF Follows
      <4> QED
        BY <3>4, <4>1, <4>2, <4>3 DEF Completes
    <3> QED
      BY <2>4, <3>1, <3>3, <3>5
  <2>8. CASE SkipScenario(r)
    <3>1. pc[r] = "scenarios" /\ UNCHANGED <<args, pc, traces, directory, summaryFile>>
      BY <2>8 DEF SkipScenario, asked, files
    <3>2. Keeps
      BY <2>5, <3>1
    <3>3. Follows(r)' /\ Traced'
      BY <2>5, <2>6, <2>8, <3>1, <3>2, SkipFollows
    <3> QED
      BY <2>4, <3>1, <3>3
  <2>9. CASE OpenScenario(r)
    <3>1. pc[r] = "scenarios" /\ UNCHANGED <<args, directory, summaryFile>>
      BY <2>9 DEF OpenScenario, asked
    <3>2. Close(r, "failed") \/ (pc' = [pc EXCEPT ![r] = "turns"] /\ UNCHANGED traces)
      BY <2>9 DEF OpenScenario
    <3>3. CASE Close(r, "failed")
      <4>1. pc'[r] = "failed"
        BY <3>3 DEF Close, TypeInv
      <4>2. Keeps
        BY <2>5, <3>1, <4>1
      <4>3. Traced'
        BY <3>1, <3>3, <4>2, FlushedLog
      <4> QED
        BY <2>4, <3>1, <4>1, <4>3
    <3>4. CASE pc' = [pc EXCEPT ![r] = "turns"] /\ UNCHANGED traces
      <4>1. pc'[r] = "turns"
        BY <3>4 DEF TypeInv
      <4>2. Keeps
        BY <2>5, <3>1, <4>1
      <4>3. Follows(r)' /\ Traced'
        BY <2>5, <2>6, <2>9, <3>1, <3>4, <4>1, <4>2, OpenFollows
      <4> QED
        BY <2>4, <3>1, <4>1, <4>3
    <3> QED
      BY <3>2, <3>3, <3>4
  <2>10. CASE SkipTurn(r)
    <3>1. pc[r] = "turns" /\ UNCHANGED <<args, pc, traces, directory, summaryFile>>
      BY <2>10 DEF SkipTurn, AtTurn, asked, files
    <3>2. Keeps
      BY <2>5, <3>1
    <3>3. Follows(r)' /\ Traced'
      BY <2>5, <2>6, <2>10, <3>1, <3>2, SkipTurnFollows
    <3> QED
      BY <2>4, <3>1, <3>3
  <2>11. ASSUME NEW c \in CostsOf(r), HandleQuery(r, c) PROVE PlanInv'
    <3>1. pc[r] = "turns" /\ UNCHANGED <<args, pc, traces, directory, summaryFile>>
      BY <2>11 DEF HandleQuery, AtTurn, asked
    <3>2. Keeps
      BY <2>5, <3>1
    <3>3. Follows(r)' /\ Traced'
      BY <2>5, <2>6, <2>11, <3>1, <3>2, QueryFollows
    <3> QED
      BY <2>4, <3>1, <3>3
  <2>12. ASSUME NEW c \in CostsOf(r), QueryRaises(r, c) PROVE PlanInv'
    <3>1. /\ pc[r] = "turns" /\ Close(r, "failed") /\ pc'[r] = "failed"
          /\ UNCHANGED <<args, directory, summaryFile>>
      BY <2>12 DEF QueryRaises, AtTurn, Close, asked, TypeInv
    <3>2. Keeps
      BY <2>5, <3>1
    <3>3. Traced'
      BY <3>1, <3>2, FlushedLog
    <3> QED
      BY <2>4, <3>1, <3>3
  <2>13. CASE Flush(r)
    <3>1. /\ pc[r] \in {"scenarios", "turns"} /\ Close(r, pc[r]) /\ pc'[r] = pc[r]
          /\ UNCHANGED <<args, count, place, stores, directory, summaryFile>>
      BY <2>13 DEF Flush, Close, asked, TypeInv
    <3>2. Keeps
      BY <2>5, <3>1
    <3>3. Log(r)' = Log(r) /\ Traced' /\ Admitted(r) /\ Follows(r)
      BY <3>1, <3>2, FlushedLog
    <3>4. Follows(r)'
      BY <3>1, <3>2, <3>3, FollowsStill
    <3> QED
      BY <2>4, <3>1, <3>3, <3>4
  <2>14. CASE CloseScenario(r)
    <3>1. pc[r] = "turns" /\ pc'[r] = "scenarios" /\ UNCHANGED <<args, traces, directory, summaryFile>>
      BY <2>14 DEF CloseScenario, asked, files, TypeInv
    <3>2. Keeps
      BY <2>5, <3>1
    <3>3. Follows(r)' /\ Traced'
      BY <2>5, <2>6, <2>14, <3>1, <3>2, CloseFollows
    <3> QED
      BY <2>4, <3>1, <3>3
  <2>15. CASE WriteLedger(r)
    <3>1. /\ pc[r] = "ledger" /\ pc'[r] \in {"summary", "dead"}
          /\ UNCHANGED <<args, buffer, traces, stores, count, place, summaryFile, directory>>
      BY <2>15 DEF WriteLedger, Puts, asked, TypeInv
    <3>2. Rests
      BY <2>0, <3>1 DEF Rests, Keeps, Admitted, Early
    <3> QED
      BY <3>2, RestStep
  <2>16. CASE WriteSummary(r)
    <3>1. /\ pc[r] = "summary" /\ pc'[r] \in {"results", "dead"}
          /\ UNCHANGED <<args, traces, stores, directory>>
          /\ summaryFile' = Torn \/ (summaryFile'.run = r /\ summaryFile'.queries = count[r])
      BY <2>16 DEF WriteSummary, Puts, asked, TypeInv
    <3>2. Keeps /\ Completes(r) /\ Admitted(r)
      BY <2>0, <3>1 DEF Keeps, Admitted, PlanInv
    <3>3. Whole(summaryFile)' => Summed'
      <4> SUFFICES ASSUME Whole(summaryFile)' PROVE Summed'
        OBVIOUS
      <4>1. summaryFile'.run = r /\ summaryFile'.queries = count[r]
        BY <3>1 DEF Whole
      <4>2. Said(traces)' = Said(traces) /\ Asked(r)' = Asked(r) /\ Ids' = Ids /\ Admitted(r)'
        BY <3>1, <3>2, KeepsAsked DEF Said
      <4>3. Backed(traces)'
        BY <3>1, <3>2, <4>2 DEF Backed, Completes
      <4> QED
        BY <3>1, <3>2, <4>1, <4>2, <4>3 DEF Summed, Completes
    <3>4. Traced'
      BY <2>6, <3>1, <3>2
    <3> QED
      BY <2>0, <3>1, <3>3, <3>4, AloneStep DEF Busy, Early
  <2>17. CASE WriteResults(r)
    <3>1. /\ pc[r] = "results" /\ pc'[r] \in {"done", "dead"}
          /\ UNCHANGED <<args, buffer, traces, stores, count, place, summaryFile, directory>>
      BY <2>17 DEF WriteResults, Puts, asked, TypeInv
    <3>2. Rests
      BY <2>0, <3>1 DEF Rests, Keeps, Admitted, Early
    <3> QED
      BY <3>2, RestStep
  <2>18. CASE Crash(r)
    <3>1. /\ Admitted(r) /\ pc'[r] = "dead"
          /\ UNCHANGED <<args, buffer, traces, stores, count, place, summaryFile, directory>>
      BY <2>18 DEF Crash, asked, files, TypeInv, Admitted
    <3>2. Rests
      BY <2>0, <3>1 DEF Rests, Keeps, Admitted, Early
    <3> QED
      BY <3>2, RestStep
  <2> QED
    BY <1>2, <2>1, <2>2, <2>3, <2>7, <2>8, <2>9, <2>10, <2>11, <2>12, <2>13, <2>14, <2>15,
       <2>16, <2>17, <2>18 DEF RunStep
<1>3. CASE UNCHANGED vars
  <2>1. Rests
    BY <1>3 DEF vars, asked, files, Rests, Keeps, Admitted
  <2> QED
    BY <2>1, RestStep
<1> QED
  BY <1>1, <1>2, <1>3, NextIsRunStep

\* Whatever died or was flushed when, traces.jsonl holds the first of what one run was
\* asked, in order and each once; beside a summary all of it, as many as it counts, and
\* no query wrote without its trace, when no two runs look at the directory before
\* either has created it.
THEOREM TracesFollow == ~Overlap => (Spec => []TracesFollowThePlan)
<1> SUFFICES ASSUME ~Overlap PROVE Spec => []TracesFollowThePlan
  OBVIOUS
<1>1. Init => BusyInv /\ LedgerInv /\ PlanInv
  <2>1. Init => BusyInv /\ LedgerInv
    BY DEF Init, BusyInv, LedgerInv, Busy, Whole
  <2>2. Init => PlanInv
    BY DEF Init, PlanInv, Traced, Whole
  <2> QED
    BY <2>1, <2>2
<1>2. BusyInv /\ LedgerInv /\ PlanInv /\ StoreInv /\ RunsInv /\ [Next]_vars
        => BusyInv' /\ LedgerInv' /\ PlanInv'
  BY BusyStep, LedgerStep, PlanStep DEF RunsInv
<1>3. LedgerInv /\ PlanInv => TracesFollowThePlan
  <2> SUFFICES ASSUME LedgerInv, PlanInv PROVE TracesFollowThePlan
    OBVIOUS
  <2>1. traces # Missing => Logged = Said(traces)
    BY DEF Logged, Said
  <2>2. ASSUME Logged # << >> PROVE \E r \in Runs : Admitted(r) /\ IsPrefix(Logged, Asked(r))
    <3>1. traces \notin {Missing, << >>}
      <4>1. traces # Missing
        BY <2>2 DEF Logged
      <4>2. traces # << >>
        BY <2>2, <4>1 DEF Logged
      <4> QED
        BY <4>1, <4>2
    <3> QED
      BY <2>1, <3>1 DEF PlanInv, Traced
  <2>3. Whole(summaryFile) =>
          /\ Logged = Asked(summaryFile.run)
          /\ summaryFile.queries = Len(traces)
          /\ \A id \in Ids : stores[id] # Missing =>
               \A w \in ToSet(stores[id]) : w.query = "seed" \/ <<w.s, w.query>> \in ToSet(Logged)
    BY <2>1 DEF PlanInv, LedgerInv, Summed, Backed
  <2> QED
    BY <2>2, <2>3 DEF TracesFollowThePlan
<1> QED
  BY <1>1, <1>2, <1>3, RunsAlways, StoreAlways, PTL DEF Spec
===============================================================================
