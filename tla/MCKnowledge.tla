---------------------------- MODULE MCKnowledge ----------------------------
(* Two documents and a fact from each; the first fact is requoted.  Its      *)
(* quote stays where it is from one edition to the other, though the text    *)
(* changes; its new quote is in the second edition only.  The quote of the   *)
(* other fact moves.                                                         *)
EXTENDS Knowledge

CONSTANTS d1, d2, e1, e2, f1, f2, other

TwoDocs == {d1, d2}
TwoEditions == {e1, e2}
TwoFacts == {f1, f2}
OneOther == {other}
Sources == [f \in TwoFacts |-> IF f = f1 THEN d1 ELSE d2]
FirstFact == {f1}
FirstEditions == {[d \in TwoDocs |-> e1]}
AllOrFirst == {TwoFacts \cup OneOther, FirstFact}

Places == [q \in Quotes |-> [f \in TwoFacts |-> [e \in TwoEditions |->
    IF f = f2 THEN (IF e = e1 THEN 1 ELSE 2)
    ELSE IF q = "pass_b" THEN 0
    ELSE IF e = e1 THEN Missing ELSE 3]]]
============================================================================
