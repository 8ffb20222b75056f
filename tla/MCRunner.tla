------------------------------- MODULE MCRunner -------------------------------
(* Scenario files of up to three queries: two scenarios, one that repeats an  *)
(* id, one with an empty scenario; the second run retries the first.          *)
EXTENDS Runner

Sc(id, seeds, turns) == [id |-> id, seeds |-> seeds, turns |-> turns]

Two      == <<Sc("A", TRUE, <<"q1", "q2">>), Sc("B", FALSE, <<"q3">>)>>
Repeated == <<Sc("A", FALSE, <<"q1">>), Sc("A", TRUE, <<"q2">>)>>
Hollow   == <<Sc("A", TRUE, <<>>), Sc("B", TRUE, <<"q1">>), Sc("C", FALSE, <<"q2", "q3">>)>>

MCPlans == {("development" :> Two) @@ ("evaluation" :> Repeated),
            ("development" :> Repeated) @@ ("evaluation" :> Hollow),
            ("development" :> Hollow) @@ ("evaluation" :> Two)}

Fake == [provider |-> "fake", split |-> "development", allowEval |-> FALSE, ids |-> <<>>,
         limit |-> All, budget |-> Missing, preflight |-> FALSE, confirmed |-> FALSE]
Paid == [Fake EXCEPT !.provider = "gemini", !.ids = <<"q3", "q1">>, !.confirmed = TRUE]

MCInvocations ==
    {Fake, [Fake EXCEPT !.ids = <<"q2", "q3">>, !.limit = 1],
     [Fake EXCEPT !.split = "evaluation"],
     [Fake EXCEPT !.split = "evaluation", !.allowEval = TRUE, !.preflight = TRUE],
     [Fake EXCEPT !.split = "holdout"]}
    \cup
    {Paid, [Paid EXCEPT !.budget = 2], [Paid EXCEPT !.limit = 1, !.budget = 3],
     [Paid EXCEPT !.ids = <<"q1">>, !.preflight = TRUE, !.confirmed = FALSE],
     [Paid EXCEPT !.ids = <<"q2">>], [Paid EXCEPT !.ids = <<"q1", "q3", "q1">>],
     [Paid EXCEPT !.ids = <<>>], [Paid EXCEPT !.confirmed = FALSE],
     [Paid EXCEPT !.split = "evaluation", !.allowEval = TRUE]}

MCConfigs == {[live |-> FALSE, queries |-> 2, budget |-> 3],
              [live |-> TRUE, queries |-> 3, budget |-> 4]}
MCAllowlist == {"q1", "q3"}
MCCosts == {1, 2}
===============================================================================
