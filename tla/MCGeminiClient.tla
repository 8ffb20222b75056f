---------------------------- MODULE MCGeminiClient ----------------------------
(* Queries of one run against a small budget.                                *)
EXTENDS GeminiClient

Cause(kind, words) == [kind |-> kind, words |-> words]

\* Messages of the provider: those that name their own cause, and those that
\* name the request (GenerateContentRequest holds "rate") or the model beside it
MixedCauses ==
    {Cause("timeout", {"timed out"}), Cause("too many requests", {"429", "rate"}),
     Cause("server error", {"503"}), Cause("server error", {"503", "model", "not"}),
     Cause("unauthorized", {"401", "rate"}), Cause("no model", {"404", "model", "not found"}),
     Cause("safety", {"blocked", "safety"}),
     Cause("bad request", {"400"}), Cause("bad request", {"400", "rate"})}

SmallEstimates == {2, 3}
MixedUsages == {0, 1, 2, 4}
==============================================================================
