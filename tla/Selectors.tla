------------------------------- MODULE Selectors -------------------------------
(***************************************************************************)
(* selectors.py and materialize_helps_faq (materialize.py): which blocks   *)
(* of a page are the retrieval unit that a manifest row selects.           *)
(*                                                                         *)
(* A page is the sequence of the blocks inside <main>.  What the code      *)
(* reads of a block is its tag, its data-faq, the number its text begins   *)
(* with and the data-section around it.  A unit is the set of the          *)
(* positions of its blocks.  An <article>, or a container of other blocks, *)
(* has a data-faq and is one block: its own heading and body.  Otherwise   *)
(* pages are flat: no block has another FAQ inside.  All blocks stand in a *)
(* data-section or none does, and the <h1> of a page is left out.          *)
(***************************************************************************)
EXTENDS Integers, SequencesExt

Outside == -1                               \* in no data-section

\* faq: <<a, b>> of data-faq, or <<>>; says: <<a, b>> of "a.b. ...", <<n>> of "n. ...",
\* or <<>>; box: the number of the data-section.  h4 stands for <h4> and <strong>.
Tags == {"h2", "h3", "h4", "p", "div", "article", "container"}
Whole == {"article", "container"}

Block == {b \in [tag : Tags,
                faq : {k \in Seq(Nat) : Len(k) \in {0, 2}},
                says : {k \in Seq(Nat) : Len(k) <= 2}, box : Nat \cup {Outside}] :
             b.tag \in Whole => b.faq # <<>>}

IsFaq(block) == Len(block.says) = 2         \* _FAQ_HEADING_RE
IsSection(block) == Len(block.says) = 1     \* _is_top_level_section_heading

AtMost(k, l) == k[1] < l[1] \/ (k[1] = l[1] /\ k[2] <= l[2])
InRange(k, from, to) == AtMost(from, k) /\ AtMost(k, to)

\* The smallest of a set of positions, or one past the page
First(page, S) ==
    IF S = {} THEN Len(page) + 1 ELSE CHOOSE i \in S : \A j \in S : i <= j

Positions(page) == 1 .. Len(page)

Miss == [found |-> FALSE, unit |-> {}]
Found(unit) == [found |-> TRUE, unit |-> unit]

-----------------------------------------------------------------------------
(* FAQ units *)

Annotated(page) == {i \in Positions(page) : page[i].faq # <<>>}
Headed(page) ==
    {i \in Positions(page) : page[i].tag \in {"h2", "h3", "h4", "p"} /\ IsFaq(page[i])}

\* Position of each FAQ node -> its key: headings count only where no block has a
\* data-faq
FaqNodes(page) ==
    LET annotated == Annotated(page)
    IN  IF annotated # {} THEN [i \in annotated |-> page[i].faq]
        ELSE [i \in Headed(page) |-> page[i].says]

ExpectedKeys(from, to) == {<<from[1], n>> : n \in from[2] .. to[2]}

\* Mutant: part of a range will do
AnyOfRange(keys, from, to) == from[1] = to[1] /\ keys \subseteq ExpectedKeys(from, to)

Contiguous(keys, from, to) == from[1] = to[1] /\ keys = ExpectedKeys(from, to)

\* Mutant: a section heading does not end a FAQ
StopsAtFaq(block) == block.faq # <<>> \/ IsFaq(block)

Stops(block) ==
    block.faq # <<>> \/ IsFaq(block) \/ (block.tag = "h2" /\ IsSection(block))

\* The siblings after i, up to one that stops
UntilNextFaq(page, i) ==
    {j \in i .. Len(page) :
        \A k \in (i + 1) .. j : page[k].box = page[i].box /\ ~Stops(page[k])}

FaqFragment(page, i) == IF page[i].tag \in Whole THEN {i} ELSE UntilNextFaq(page, i)

DomFaq(page, from, to) ==
    LET nodes == FaqNodes(page)
        wanted == {i \in DOMAIN nodes : InRange(nodes[i], from, to)}
    IN  IF wanted # {} /\ Contiguous({nodes[i] : i \in wanted}, from, to)
        THEN Found(UNION {FaqFragment(page, i) : i \in wanted})
        ELSE Miss

LineFaq(page, from, to) ==
    LET start == First(page, {i \in Positions(page) : page[i].says = from})
        end == First(page, {i \in start .. Len(page) :
                   \/ IsFaq(page[i]) /\ ~AtMost(page[i].says, to)
                   \/ IsSection(page[i]) /\ page[i].says[1] # from[1]})
        lines == start .. end - 1
        keys == {page[i].says : i \in {j \in lines : IsFaq(page[j]) /\ InRange(page[j].says, from, to)}}
    IN  IF start <= Len(page) /\ Contiguous(keys, from, to) THEN Found(lines) ELSE Miss

\* Never the whole page
ExtractFaq(page, from, to) ==
    LET dom == DomFaq(page, from, to)
    IN  IF ~AtMost(from, to) THEN Miss
        ELSE IF dom.found THEN dom
        ELSE LineFaq(page, from, to)

-----------------------------------------------------------------------------
(* Sections *)

IsHeading(block) == block.tag \in {"h2", "h3"}

\* _assert_section_boundary: what it rejects is an error, not a miss of this strategy
WithinSection(page, unit, num) ==
    IF \E i \in unit : IsHeading(page[i]) /\ IsSection(page[i]) /\ page[i].says # <<num>>
    THEN Miss ELSE Found(unit)

BoxedSection(page, start) ==
    {j \in start .. Len(page) : \A k \in start .. j : page[k].box = page[start].box}

HeadedSection(page, start) ==
    {j \in start .. Len(page) : \A k \in (start + 1) .. j :
        page[k].box = page[start].box /\ ~(page[k].tag = "h2" /\ IsSection(page[k]))}

LineSection(page, num) ==
    LET start == First(page, {i \in Positions(page) : page[i].says = <<num>>})
        end == First(page, {i \in start + 1 .. Len(page) :
                   IsSection(page[i]) /\ page[i].says # <<num>>})
    IN  IF start <= Len(page) THEN Found(start .. end - 1) ELSE Miss

ExtractSection(page, num) ==
    LET boxed == First(page, {i \in Positions(page) : page[i].box = num})
        headed == First(page, {i \in Positions(page) : IsHeading(page[i]) /\ page[i].says = <<num>>})
    IN  IF boxed <= Len(page) THEN WithinSection(page, BoxedSection(page, boxed), num)
        ELSE IF headed <= Len(page) THEN WithinSection(page, HeadedSection(page, headed), num)
        ELSE LineSection(page, num)

-----------------------------------------------------------------------------

\* extract_normalized: a unit without text is an error
Extract(page, selector) ==
    IF page = <<>> THEN Miss
    ELSE IF selector.kind = "page" THEN Found(Positions(page))
    ELSE IF selector.kind = "section" THEN ExtractSection(page, selector.num)
    ELSE ExtractFaq(page, selector.from, selector.to)

\* materialize_helps_faq: sections and their FAQs are numbered by position; counts
\* tells how many FAQs each section of the payload has
HelpsPage(counts) ==
    FlattenSeq([s \in 1 .. Len(counts) |->
        <<[tag |-> "h2", faq |-> <<>>, says |-> <<s>>, box |-> s]>> \o
        [f \in 1 .. counts[s] |->
            [tag |-> "article", faq |-> <<s, f>>, says |-> <<s, f>>, box |-> s]]])

-----------------------------------------------------------------------------
(* What the selectors promise *)

Numbered(page) == {i \in Positions(page) : page[i].says # <<>>}
Sections(page) == {i \in Positions(page) : IsSection(page[i])}

\* Numbers ascend as in a table of contents, "n. " stands in an h2 only, data-faq is
\* used for all FAQs or none and says what the text says, and a data-section holds a
\* section of its number, from its heading on.
Before(k, l) ==
    \/ k[1] < l[1]
    \/ k[1] = l[1] /\ Len(k) = 1 /\ Len(l) = 2
    \/ k[1] = l[1] /\ Len(k) = 2 /\ Len(l) = 2 /\ k[2] < l[2]

Greatest(S, i) == {j \in S : j <= i /\ \A k \in S : k <= i => k <= j}

WellFormed(page) ==
    LET numbered == Numbered(page)
        annotated == Annotated(page)
    IN  /\ \A i, j \in numbered : i < j => Before(page[i].says, page[j].says)
        /\ \A i \in Sections(page) : page[i].tag = "h2"
        /\ annotated # {} => annotated = {i \in numbered : IsFaq(page[i])}
        /\ \A i \in annotated : page[i].faq = page[i].says
        /\ \/ \A i \in Positions(page) : page[i].box = Outside
           \/ \A i \in Positions(page) :
                  \E j \in Greatest(Sections(page), i) : page[j].says = <<page[i].box>>

\* The unit a reader of a well-formed page would cut out
Unit(page, selector) ==
    IF page = <<>> THEN Miss
    ELSE IF selector.kind = "page" THEN Found(Positions(page))
    ELSE IF selector.kind = "section"
    THEN LET blocks == {i \in Positions(page) : \E j \in Greatest(Sections(page), i) :
                           page[j].says = <<selector.num>>}
         IN  IF blocks = {} THEN Miss ELSE Found(blocks)
    ELSE LET keys == ExpectedKeys(selector.from, selector.to)
             numbered == Numbered(page)
             range == {j \in numbered : page[j].says \in keys}
             \* its body is inside
             belongs(i, j) == j \in range /\ (page[j].tag \in Whole => i = j)
         IN  IF {page[j].says : j \in range} = keys
             THEN Found({i \in Positions(page) : \E j \in Greatest(numbered, i) : belongs(i, j)})
             ELSE Miss
===============================================================================
