----------------------------- MODULE MCStagePages -----------------------------
(* Units of one URL's page, staged twice and once replayed from the cache.  To *)
(* the first stage the site may answer with any of many small pages, before    *)
(* and after it with few.                                                      *)
EXTENDS StagePages

CONSTANTS helps, moved, elsewhere

MCUrls == {helps, moved, elsewhere}

B(tag, faq, says, box) == [tag |-> tag, faq |-> faq, says |-> says, box |-> box]
Html(blocks) == [form |-> "html", counts |-> <<>>, blocks |-> blocks]
Payload(counts) == [form |-> "next", counts |-> counts, blocks |-> <<>>]
Broken == [form |-> "broken", counts |-> <<>>, blocks |-> <<>>]

H1 == B("h2", <<>>, <<1>>, Outside)
H2 == B("h2", <<>>, <<2>>, Outside)
Text == B("p", <<>>, <<>>, Outside)
Faq(tag, n) == B(tag, <<>>, <<1, n>>, Outside)
Data(tag, n) == B(tag, <<1, n>>, <<1, n>>, Outside)

\* Two FAQs as headings, annotated headings, articles, containers or lines; between them text or
\* what is easily mistaken for a section; in or out of order
FirstFaq  == {Faq("h3", 1), Faq("h4", 1), Faq("div", 1), Data("h3", 1), Data("container", 1)}
SecondFaq == {Faq("h3", 2), Faq("div", 2), Data("article", 2)}
Between   == {B("p", <<>>, <<2>>, Outside), B("h3", <<>>, <<2>>, Outside)}

Pages1 ==
    {<<H1, one, between, two, H2>> : one \in FirstFaq, between \in Between, two \in SecondFaq}
    \cup {<<one, Text, two, H2>> : one \in FirstFaq, two \in SecondFaq}
    \cup {<<>>, <<H1, Text>>, <<Faq("div", 2), Text, Faq("div", 1), Text>>,
          <<Faq("h3", 1), Text, Faq("h3", 1)>>}

MCRows == <<[url |-> helps, selector |-> [kind |-> "faq", from |-> <<1, 1>>, to |-> <<1, 1>>]],
            [url |-> helps, selector |-> [kind |-> "faq", from |-> <<1, 1>>, to |-> <<1, 2>>]],
            [url |-> helps, selector |-> [kind |-> "section", num |-> 1]],
            [url |-> helps, selector |-> [kind |-> "page"]]>>

FirstSite == {Html(page) : page \in Pages1} \cup {Payload(<<1>>), Payload(<<2, 1>>)}
SecondSite == {Html(<<H1, Faq("h3", 1)>>)}
MCSite(n) == IF n = 1 THEN FirstSite ELSE SecondSite

MCBodies == FirstSite \cup SecondSite

\* A page cut short, before its last block
MCCuts(body) ==
    IF body.form = "html"
    THEN {Html(SubSeq(body.blocks, 1, n)) : n \in {Len(body.blocks) - 1} \cap Nat}
    ELSE {Broken}
===============================================================================
