--------------------------- MODULE StagePagesProofs ---------------------------
(***************************************************************************)
(* What fetch_url asks and returns, what its raw cache gives back, and     *)
(* which blocks of a page a row's unit is: for any URLs, pages, rows,      *)
(* cut-off writes, retry and redirect limits, and any number of stages.    *)
(***************************************************************************)
EXTENDS StagePages, SequenceTheorems, WellFoundedInduction, TLAPS

\* The requests of an attempt before the one under way: all of its URLs but Current
TrailOfHops ==
    phase = "ask" =>
        /\ url \in Allowed
        /\ Append(trail, Current) = <<url>> \o hops

\* Of an attempt at most MaxRedirects + 1 requests
Asked ==
    /\ asked \in Nat
    /\ phase = "cache" => asked = 0
    /\ phase = "ask" => asked <= (attempt - 1) * (MaxRedirects + 1) + Len(hops)
    /\ asked <= MaxRetries * (MaxRedirects + 1)

CallInv ==
    /\ FetchTypeOK
    /\ trail \in Seq(Urls)
    /\ phase \in {"cache", "ask"} => attempt <= MaxRetries /\ url \in Allowed
    /\ phase = "cache" => hops = <<>> /\ trail = <<>> /\ attempt = 1
    /\ phase \in {"saveBody", "saveMeta"} =>
         result \in Result /\ result.body \in Bodies /\ ~result.cached
    /\ phase = "done" => result \in Result

\* The third conjunct of FetchIsFaithful
AnswerIsTrailed ==
    Fresh => /\ trail = <<url>> \o result.hops
             /\ result.final = Last(trail)
             /\ ToSet(trail) \subseteq Allowed

FetchInv == CallInv /\ Asked /\ TrailOfHops /\ AnswerIsTrailed

\* Where a file of the cache comes from
Genuine(u) ==
    /\ html[u] \notin {Missing, Unreadable} => \E r \in served[u] : html[u] \in Pages(r)
    /\ meta[u] \notin {Missing, Unreadable} =>
         \E r \in served[u] : meta[u].final = r.final /\ IsPrefix(meta[u].hops, r.hops)
    /\ broken[u] \/ html[u] = Missing \/ meta[u] = Missing
       \/ [final |-> meta[u].final, hops |-> meta[u].hops, body |-> html[u],
           cached |-> FALSE] \in served[u]

CacheInv ==
    /\ served \in [Urls -> SUBSET Result]
    /\ broken \in [Urls -> BOOLEAN]
    /\ \A u \in Urls : Genuine(u)
    /\ phase \in {"saveBody", "saveMeta"} => result \in served[url]
    /\ phase = "saveMeta" => html[url] = result.body /\ broken[url]
    /\ CacheHitIsGenuine

-----------------------------------------------------------------------------

\* The number of the stage or replay a call is made in
StageInv ==
    /\ stage \in 0 .. MaxStages + 1
    /\ at \in {"fetching", "replaying"} => stage \in 1 .. MaxStages + 1

\* A step as fetch_url sees it
CallStep ==
    \/ \E u \in Urls, prefer \in BOOLEAN : Call(u, prefer)
    \/ FetchStep(Bodies)
    \/ Return
    \/ UNCHANGED fetchVars

LEMMA StageInvHolds == Spec => []StageInv
<1> USE StageConstants
<1>1. Init => StageInv
  BY DEF Init, StageInv
<1>2. StageInv /\ [Next]_vars => StageInv'
  <2> SUFFICES ASSUME StageInv, [Next]_vars PROVE StageInv'
    OBVIOUS
  <2>1. CASE BeginStage
    BY <2>1 DEF StageInv, BeginStage
  <2>2. CASE \E u \in Urls : Replay(u)
    BY <2>2 DEF StageInv, Replay
  <2>3. CASE FetchNext \/ Fetching \/ UNCHANGED vars
    BY <2>3 DEF StageInv, FetchNext, Fetching, vars, stageVars
  <2>4. CASE TakePage \/ ReplayEnds \/ FetchFails
    BY <2>4 DEF StageInv, TakePage, ReplayEnds, FetchFails
  <2>5. CASE AllFetched \/ StageEnds
    BY <2>5 DEF StageInv, AllFetched, StageEnds
  <2>6. CASE ExtractRow
    BY <2>6 DEF StageInv, ExtractRow
  <2> QED BY <2>1, <2>2, <2>3, <2>4, <2>5, <2>6 DEF Next
<1> QED BY <1>1, <1>2, PTL DEF Spec

LEMMA NextIsCallStep == StageInv /\ [Next]_vars => CallStep
<1> SUFFICES ASSUME StageInv, [Next]_vars PROVE CallStep
  OBVIOUS
<1> USE StageConstants
<1>1. CASE BeginStage \/ AllFetched \/ ExtractRow \/ StageEnds \/ UNCHANGED vars
  BY <1>1 DEF BeginStage, AllFetched, ExtractRow, StageEnds, vars, CallStep
<1>2. CASE \E u \in Urls : Replay(u)
  BY <1>2 DEF Replay, CallStep
<1>3. CASE FetchNext
  <2>1. PICK i \in Pending : Call(Rows[i].url, FALSE)
    BY <1>3 DEF FetchNext
  <2>2. i \in 1 .. Len(Rows)
    BY DEF Pending
  <2>3. Rows[i].url \in Urls
    <3> DEFINE Sels == [kind : {"page"}] \cup [kind : {"section"}, num : Nat]
                         \cup [kind : {"faq"}, from : Nat \X Nat, to : Nat \X Nat]
               S == [url : Urls, selector : Sels]
    <3>1. Rows \in Seq(S)
      OBVIOUS
    <3> HIDE DEF Sels
    <3>2. Rows[i] \in S
      BY <2>2, <3>1, ElementOfSeq
    <3> QED BY <3>2
  <2> QED BY <2>1, <2>3 DEF CallStep
<1>4. CASE Fetching
  <2>1. Site(stage) \subseteq Bodies
    BY <1>4 DEF Fetching, StageInv
  <2>2. FetchStep(Bodies)
    BY <1>4, <2>1 DEF Fetching, FetchStep
  <2> QED BY <2>2 DEF CallStep
<1>5. CASE TakePage \/ ReplayEnds \/ FetchFails
  BY <1>5 DEF TakePage, ReplayEnds, FetchFails, CallStep
<1> QED BY <1>1, <1>2, <1>3, <1>4, <1>5 DEF Next

-----------------------------------------------------------------------------

LEMMA HopTypes ==
    ASSUME CallInv, phase = "ask"
    PROVE  /\ Current \in Allowed
           /\ <<url>> \o hops \in Seq(Allowed)
           /\ Len(hops) \in Nat
<1>1. url \in Allowed /\ hops \in Seq(Allowed) /\ Len(hops) \in Nat
  BY DEF CallInv, FetchTypeOK
<1>2. hops # <<>> => Last(hops) \in Allowed
  BY <1>1 DEF Last
<1>3. <<url>> \in Seq(Allowed)
  BY <1>1
<1> QED BY <1>1, <1>2, <1>3, ConcatProperties DEF Current

LEMMA CallInvStep == CallInv /\ CallStep => CallInv'
<1> SUFFICES ASSUME CallInv, CallStep PROVE CallInv'
  OBVIOUS
<1> USE FetchConstants
<1>a. FetchTypeOK
  BY DEF CallInv
<1>1. ASSUME NEW u \in Urls, NEW prefer \in BOOLEAN, Call(u, prefer) PROVE CallInv'
  BY <1>1, <1>a DEF Call, CallInv, FetchTypeOK, Phases, cache
<1>2. CASE LoadRawCache
  <2>1. url \in Allowed
    BY <1>2 DEF LoadRawCache, CallInv
  <2>2. ASSUME html[url] \notin {Missing, Unreadable}, meta[url] \notin {Missing, Unreadable}
        PROVE  [final |-> meta[url].final, hops |-> meta[url].hops,
                body |-> html[url], cached |-> TRUE] \in Result
    BY <2>2, <1>a DEF FetchTypeOK, Result, Chain
  <2>3. result' \in Result \cup {Missing} /\ (phase' = "done" => result' \in Result)
    BY <1>2, <1>a, <2>2 DEF LoadRawCache, FetchTypeOK
  <2>4. phase' \in {"ask", "done", "failed"}
    BY <1>2 DEF LoadRawCache
  <2> QED BY <1>2, <1>a, <2>1, <2>3, <2>4
          DEF LoadRawCache, CallInv, FetchTypeOK, Phases, cache, history
<1>3. CASE phase = "ask" /\ NextAttempt /\ UNCHANGED <<url, result, html, meta>>
  <2>1. <<>> \in Seq(Allowed) /\ <<>> \in Seq(Urls) /\ Len(<<>>) = 0
    OBVIOUS
  <2> QED BY <1>3, <1>a, <2>1 DEF NextAttempt, CallInv, FetchTypeOK, Phases
<1>4. ASSUME NEW to \in Urls, Redirected(to) PROVE CallInv'
  <2>1. CASE to \in Allowed /\ Len(hops) < MaxRedirects
    <3>1. /\ hops' = Append(hops, to) /\ trail' = Append(trail, Current)
          /\ UNCHANGED <<phase, attempt, url, result, html, meta>>
      BY <1>4, <2>1 DEF Redirected, FollowRedirect, Hop, cache
    <3>2. phase = "ask" /\ Current \in Allowed
      BY <1>4, HopTypes DEF Redirected
    <3>3. hops' \in Seq(Allowed) /\ Len(hops') <= MaxRedirects
      BY <1>a, <2>1, <3>1 DEF FetchTypeOK
    <3>4. trail' \in Seq(Urls)
      BY <3>1, <3>2 DEF CallInv
    <3> QED BY <1>a, <3>1, <3>2, <3>3, <3>4 DEF CallInv, FetchTypeOK
  <2>2. CASE ~(to \in Allowed /\ Len(hops) < MaxRedirects)
    BY <1>3, <1>4, <2>2 DEF Redirected, FollowRedirect, Hop, cache
  <2> QED BY <2>1, <2>2
<1>5. CASE TryAgain
  BY <1>3, <1>5 DEF TryAgain, cache
<1>6. CASE Raises
  BY <1>6, <1>a DEF Raises, CallInv, FetchTypeOK, Phases, cache
<1>7. ASSUME NEW body \in Bodies, Answered(body) PROVE CallInv'
  <2>1. phase = "ask" /\ Current \in Allowed
    BY <1>7, HopTypes DEF Answered
  <2>2. hops \in Seq(Urls)
    BY <1>a DEF FetchTypeOK
  <2>3. result' \in Result /\ result'.body \in Bodies /\ ~result'.cached
    BY <1>7, <2>1, <2>2 DEF Answered, Result, Files
  <2>4. trail' \in Seq(Urls)
    BY <1>7, <2>1 DEF Answered, CallInv
  <2> QED BY <1>7, <1>a, <2>3, <2>4 DEF Answered, CallInv, FetchTypeOK, Phases, cache
<1>8. CASE SaveBody
  <2>1. result.body \in Bodies /\ Cuts(result.body) \cup {result.body} \subseteq Files
    BY <1>8 DEF SaveBody, CallInv, Files
  <2> QED BY <1>8, <1>a, <2>1 DEF SaveBody, CallInv, FetchTypeOK, Phases
<1>9. CASE SaveMeta
  <2>1. result.final \in Urls /\ result.hops \in Seq(Urls)
    BY <1>9 DEF SaveMeta, CallInv, Result
  <2>2. ChainOf(result) \in Chain
    BY <2>1 DEF ChainOf, Chain
  <2>3. ASSUME NEW n \in 0 .. Len(result.hops)
        PROVE  [final |-> result.final, hops |-> SubSeq(result.hops, 1, n)] \in Chain
    BY <2>1 DEF Chain
  <2>4. meta' \in [Urls -> Chain \cup {Missing, Unreadable}]
    BY <1>9, <1>a, <2>2, <2>3 DEF SaveMeta, FetchTypeOK
  <2> QED BY <1>9, <1>a, <2>4 DEF SaveMeta, CallInv, FetchTypeOK, Phases
<1>10. CASE Return
  BY <1>10, <1>a DEF Return, CallInv, FetchTypeOK, Phases, cache
<1>11. CASE UNCHANGED fetchVars
  BY <1>11, <1>a DEF fetchVars, locals, cache, history, CallInv, FetchTypeOK
<1> QED
  BY <1>1, <1>2, <1>4, <1>5, <1>6, <1>7, <1>8, <1>9, <1>10, <1>11 DEF CallStep, FetchStep

\* The requests of one more attempt
LEMMA OneMoreAttempt ==
    ASSUME NEW a \in 1 .. MaxRetries
    PROVE  /\ (a - 1) * (MaxRedirects + 1) \in Nat
           /\ a * (MaxRedirects + 1) = (a - 1) * (MaxRedirects + 1) + MaxRedirects + 1
           /\ a * (MaxRedirects + 1) <= MaxRetries * (MaxRedirects + 1)
<1> DEFINE k == MaxRedirects + 1
<1>1. k \in Nat /\ MaxRetries \in Nat /\ a - 1 \in Nat
  BY FetchConstants
<1> HIDE DEF k
<1>2. (a - 1) * k \in Nat
  BY <1>1
<1>3. a * k = (a - 1) * k + k
  BY <1>1
<1>4. a * k <= MaxRetries * k
  <2>1. PICK d \in Nat : MaxRetries = a + d
    <3>1. MaxRetries - a \in Nat /\ MaxRetries = a + (MaxRetries - a)
      BY <1>1
    <3> QED BY <3>1
  <2>2. d * k \in Nat
    BY <1>1
  <2>3. MaxRetries * k = a * k + d * k
    BY <1>1, <2>1
  <2>4. a * k \in Int
    BY <1>1
  <2> QED BY <2>2, <2>3, <2>4
<1> QED BY <1>2, <1>3, <1>4, FetchConstants DEF k

LEMMA AskedStep == CallInv /\ Asked /\ CallStep => Asked'
<1> SUFFICES ASSUME CallInv, Asked, CallStep PROVE Asked'
  OBVIOUS
<1> USE FetchConstants
<1>a. /\ attempt \in 1 .. MaxRetries + 1 /\ Len(hops) \in Nat /\ Len(hops) <= MaxRedirects
      /\ phase \in {"cache", "ask"} => attempt \in 1 .. MaxRetries
      /\ asked \in Nat
  BY DEF CallInv, FetchTypeOK, Asked
<1> DEFINE k == MaxRedirects + 1
<1>b. k \in Nat /\ MaxRetries * k \in Nat
  BY DEF k
<1>c. phase = "ask" =>
        /\ (attempt - 1) * k \in Nat
        /\ attempt * k = (attempt - 1) * k + k
        /\ attempt * k <= MaxRetries * k
  BY <1>a, OneMoreAttempt
<1>d. phase = "ask" => asked + 1 <= attempt * k /\ asked + 1 <= MaxRetries * k
  BY <1>a, <1>b, <1>c DEF Asked, k
<1>1. ASSUME NEW u \in Urls, NEW prefer \in BOOLEAN, Call(u, prefer) PROVE Asked'
  <2>1. asked' = 0 /\ attempt' = 1 /\ hops' = <<>>
    BY <1>1 DEF Call
  <2> QED BY <1>b, <2>1 DEF Asked, k
<1>2. CASE LoadRawCache
  <2>1. /\ asked' = 0 /\ attempt' = 1 /\ hops' = <<>> /\ phase' # "cache"
    BY <1>2 DEF LoadRawCache, CallInv, Asked, history
  <2> QED BY <1>b, <2>1 DEF Asked, k
<1>3. CASE phase = "ask" /\ NextAttempt /\ asked' = asked + 1
  <2>1. asked' \in Nat /\ asked' <= attempt * k /\ asked' <= MaxRetries * k
    BY <1>3, <1>a, <1>d
  <2>2. attempt' - 1 = attempt /\ hops' = <<>> /\ phase' # "cache" /\ Len(hops') = 0
    BY <1>3, <1>a DEF NextAttempt
  <2>3. (attempt' - 1) * k + Len(hops') = attempt * k
    BY <1>3, <1>c, <1>b, <2>2
  <2> QED BY <2>1, <2>2, <2>3 DEF Asked, k
<1>4. ASSUME NEW to \in Urls, Redirected(to) PROVE Asked'
  <2>1. CASE to \in Allowed /\ Len(hops) < MaxRedirects
    <3>1. /\ hops' = Append(hops, to) /\ attempt' = attempt /\ asked' = asked + 1
          /\ phase = "ask" /\ phase' = "ask"
      BY <1>4, <2>1 DEF Redirected, FollowRedirect, Hop
    <3>2. Len(hops') = Len(hops) + 1
      BY <3>1, <2>1 DEF CallInv, FetchTypeOK
    <3>3. asked <= (attempt - 1) * k + Len(hops)
      BY <3>1 DEF Asked, k
    <3>4. asked' <= (attempt' - 1) * k + Len(hops')
      BY <1>a, <1>c, <3>1, <3>2, <3>3
    <3> QED BY <1>a, <1>d, <3>1, <3>4 DEF Asked, k
  <2>2. CASE ~(to \in Allowed /\ Len(hops) < MaxRedirects)
    BY <1>3, <1>4, <2>2 DEF Redirected, FollowRedirect, Hop
  <2> QED BY <2>1, <2>2
<1>5. CASE TryAgain
  BY <1>3, <1>5 DEF TryAgain
<1>6. CASE Raises
  BY <1>6, <1>a, <1>d DEF Raises, Asked, k
<1>7. ASSUME NEW body \in Bodies, Answered(body) PROVE Asked'
  BY <1>7, <1>a, <1>d DEF Answered, Asked, k
<1>8. CASE SaveBody \/ SaveMeta
  BY <1>8 DEF SaveBody, SaveMeta, Asked
<1>9. CASE Return
  BY <1>9, <1>b DEF Return, Asked, k
<1>10. CASE UNCHANGED fetchVars
  BY <1>10 DEF fetchVars, locals, history, Asked
<1> QED
  BY <1>1, <1>2, <1>4, <1>5, <1>6, <1>7, <1>8, <1>9, <1>10 DEF CallStep, FetchStep

LEMMA AppendToTrail ==
    ASSUME CallInv, TrailOfHops, phase = "ask", NEW to \in Allowed
    PROVE  Append(Append(trail, Current), to) = <<url>> \o Append(hops, to)
<1>1. <<url>> \in Seq(Allowed) /\ hops \in Seq(Allowed) /\ <<to>> \in Seq(Allowed)
  BY DEF CallInv, FetchTypeOK
<1>2. Append(trail, Current) = <<url>> \o hops /\ <<url>> \o hops \in Seq(Allowed)
  BY HopTypes DEF TrailOfHops
<1>3. Append(<<url>> \o hops, to) = (<<url>> \o hops) \o <<to>>
  BY <1>2, AppendIsConcat
<1>4. Append(hops, to) = hops \o <<to>>
  BY <1>1, AppendIsConcat
<1> QED BY <1>1, <1>2, <1>3, <1>4, ConcatAssociative

LEMMA TrailStep ==
    CallInv /\ CallInv' /\ TrailOfHops /\ AnswerIsTrailed /\ CallStep
      => TrailOfHops' /\ AnswerIsTrailed'
<1> SUFFICES ASSUME CallInv, CallInv', TrailOfHops, AnswerIsTrailed, CallStep
             PROVE  TrailOfHops' /\ AnswerIsTrailed'
  OBVIOUS
<1> USE FetchConstants
\* An attempt begins with no hop and no request
<1>a. ASSUME hops' = <<>>, trail' = <<>>, phase' = "ask" => url' \in Allowed
      PROVE  TrailOfHops'
  <2>1. phase' = "ask" => <<url'>> \in Seq(Allowed)
    BY <1>a
  <2>2. phase' = "ask" => <<url'>> \o <<>> = <<url'>>
    BY <2>1, ConcatEmptySeq
  <2>3. Append(<<>>, url') = <<url'>>
    OBVIOUS
  <2> QED BY <1>a, <2>2, <2>3 DEF TrailOfHops, Current
<1>1. ASSUME NEW u \in Urls, NEW prefer \in BOOLEAN, Call(u, prefer)
      PROVE  TrailOfHops' /\ AnswerIsTrailed'
  BY <1>1, <1>a DEF Call, AnswerIsTrailed, Fresh
<1>2. CASE LoadRawCache
  <2>1. hops' = <<>> /\ trail' = <<>> /\ url' \in Allowed
    BY <1>2 DEF LoadRawCache, CallInv, history
  <2>2. ~Fresh'
    BY <1>2 DEF LoadRawCache, Fresh
  <2> QED BY <2>1, <2>2, <1>a DEF AnswerIsTrailed
<1>3. CASE phase = "ask" /\ NextAttempt /\ url' = url
  <2>1. hops' = <<>> /\ trail' = <<>> /\ phase' \in {"ask", "failed"}
    BY <1>3 DEF NextAttempt
  <2>2. url' \in Allowed
    BY <1>3 DEF CallInv
  <2> QED BY <2>1, <2>2, <1>a DEF AnswerIsTrailed, Fresh
<1>4. ASSUME NEW to \in Urls, Redirected(to) PROVE TrailOfHops' /\ AnswerIsTrailed'
  <2>1. CASE to \in Allowed /\ Len(hops) < MaxRedirects
    <3>1. /\ hops' = Append(hops, to) /\ trail' = Append(trail, Current)
          /\ phase = "ask" /\ phase' = "ask" /\ url' = url
      BY <1>4, <2>1 DEF Redirected, FollowRedirect, Hop
    <3>2. hops \in Seq(Allowed)
      BY DEF CallInv, FetchTypeOK
    <3>3. Current' = to
      BY <2>1, <3>1, <3>2 DEF Current, Last
    <3>4. Append(trail', to) = <<url>> \o hops'
      BY <2>1, <3>1, AppendToTrail
    <3> QED BY <3>1, <3>3, <3>4 DEF TrailOfHops, AnswerIsTrailed, Fresh
  <2>2. CASE ~(to \in Allowed /\ Len(hops) < MaxRedirects)
    BY <1>3, <1>4, <2>2 DEF Redirected, FollowRedirect, Hop
  <2> QED BY <2>1, <2>2
<1>5. CASE TryAgain
  BY <1>3, <1>5 DEF TryAgain
<1>6. CASE Raises
  BY <1>6 DEF Raises, TrailOfHops, AnswerIsTrailed, Fresh
<1>7. ASSUME NEW body \in Bodies, Answered(body) PROVE TrailOfHops' /\ AnswerIsTrailed'
  <2>1. /\ phase = "ask" /\ phase' = "saveBody" /\ url' = url
        /\ trail' = Append(trail, Current)
        /\ result'.hops = hops /\ result'.final = Current
    BY <1>7 DEF Answered
  <2>2. trail' = <<url>> \o hops /\ trail' \in Seq(Allowed)
    BY <2>1, HopTypes DEF TrailOfHops
  <2>3. ToSet(trail') \subseteq Allowed
    BY <2>2 DEF ToSet
  <2>4. Last(trail') = Current
    <3>1. trail \in Seq(Urls) /\ Current \in Urls
      BY <2>1, HopTypes DEF CallInv
    <3> QED BY <2>1, <3>1, AppendProperties DEF Last
  <2> QED BY <2>1, <2>2, <2>3, <2>4 DEF TrailOfHops, AnswerIsTrailed
<1>8. CASE SaveBody \/ SaveMeta
  <2>1. trail' = trail /\ url' = url /\ result' = result /\ phase' # "ask" /\ Fresh
    BY <1>8 DEF SaveBody, SaveMeta, Fresh
  <2> QED BY <2>1 DEF TrailOfHops, AnswerIsTrailed
<1>9. CASE Return
  BY <1>9 DEF Return, TrailOfHops, AnswerIsTrailed, Fresh
<1>10. CASE UNCHANGED fetchVars
  BY <1>10 DEF fetchVars, locals, history, TrailOfHops, AnswerIsTrailed, Fresh, Current
<1> QED
  BY <1>1, <1>2, <1>4, <1>5, <1>6, <1>7, <1>8, <1>9, <1>10 DEF CallStep, FetchStep

LEMMA FetchInvHolds == Spec => []FetchInv
<1> USE FetchConstants
<1>1. Init => FetchInv
  <2> SUFFICES ASSUME Init PROVE FetchInv
    OBVIOUS
  <2>1. FetchInit
    BY DEF Init
  <2>2. CallInv
    BY <2>1 DEF FetchInit, CallInv, FetchTypeOK, Phases
  <2>3. MaxRetries * (MaxRedirects + 1) \in Nat
    OBVIOUS
  <2>4. Asked
    BY <2>1, <2>3 DEF FetchInit, Asked
  <2>5. TrailOfHops /\ AnswerIsTrailed
    BY <2>1 DEF FetchInit, TrailOfHops, AnswerIsTrailed, Fresh
  <2> QED BY <2>2, <2>4, <2>5 DEF FetchInv
<1>2. FetchInv /\ CallStep => FetchInv'
  BY CallInvStep, AskedStep, TrailStep DEF FetchInv
<1> QED BY <1>1, <1>2, StageInvHolds, NextIsCallStep, PTL DEF Spec

\* The locals of a call and the files of the cache have their types.
THEOREM FetchTypes == Spec => []FetchTypeOK
BY FetchInvHolds, PTL DEF FetchInv, CallInv

\* Whatever the site answers, only allowlisted URLs are asked, no more often than
\* the limits say, and the result names the hops of the attempt that succeeded.
THEOREM AnswersAreFaithful == Spec => []FetchIsFaithful
<1>1. FetchInv => FetchIsFaithful
  <2> SUFFICES ASSUME FetchInv PROVE FetchIsFaithful
    OBVIOUS
  <2>1. phase = "ask" => Current \in Allowed
    BY HopTypes DEF FetchInv
  <2> QED BY <2>1 DEF FetchInv, Asked, AnswerIsTrailed, FetchIsFaithful
<1> QED BY <1>1, FetchInvHolds, PTL

LEMMA BeginningIsPrefix ==
    ASSUME NEW S, NEW h \in Seq(S), NEW n \in 0 .. Len(h)
    PROVE  IsPrefix(SubSeq(h, 1, n), h)
<1>1. SubSeq(h, 1, n) \in Seq(S) /\ Len(SubSeq(h, 1, n)) = n
  OBVIOUS
<1>2. SubSeq(SubSeq(h, 1, n), 1, n) = SubSeq(h, 1, n)
  BY <1>1, SubSeqFull
<1> QED BY <1>1, <1>2 DEF IsPrefix

LEMMA WholeIsPrefix ==
    ASSUME NEW S, NEW h \in Seq(S)
    PROVE  IsPrefix(h, h)
BY DEF IsPrefix

\* A cache entry nothing was written to stays genuine, whatever else was served
LEMMA StaysGenuine ==
    ASSUME CacheInv, NEW u \in Urls,
           html'[u] = html[u], meta'[u] = meta[u], broken'[u] = broken[u],
           served[u] \subseteq served'[u]
    PROVE  Genuine(u)'
BY DEF CacheInv, Genuine, Pages

LEMMA CacheStep == CallInv /\ CallInv' /\ CacheInv /\ CallStep => CacheInv'
<1> SUFFICES ASSUME CallInv, CallInv', CacheInv, CallStep PROVE CacheInv'
  OBVIOUS
<1> USE FetchConstants
<1>a. /\ url \in Urls /\ served \in [Urls -> SUBSET Result] /\ broken \in [Urls -> BOOLEAN]
      /\ html \in [Urls -> Files \cup {Missing, Unreadable}]
      /\ meta \in [Urls -> Chain \cup {Missing, Unreadable}]
  BY DEF CallInv, FetchTypeOK, CacheInv
\* A step that leaves the files and their history alone, and saves and hits nothing
<1>b. ASSUME UNCHANGED <<html, meta, served, broken>>, phase' \in {"idle", "cache", "ask", "failed"}
      PROVE  CacheInv'
  <2>1. \A u \in Urls : Genuine(u)'
    BY <1>b, StaysGenuine
  <2> QED BY <1>a, <1>b, <2>1 DEF CacheInv, CacheHitIsGenuine
<1>1. ASSUME NEW u \in Urls, NEW prefer \in BOOLEAN, Call(u, prefer) PROVE CacheInv'
  BY <1>1, <1>b DEF Call, cache
<1>2. CASE LoadRawCache
  <2>1. UNCHANGED <<url, html, meta, served, broken>>
    BY <1>2 DEF LoadRawCache, cache, history
  <2>2. \A u \in Urls : Genuine(u)'
    BY <2>1, StaysGenuine
  <2>3. CASE phase' = "done"
    <3>1. /\ html[url] \notin {Missing, Unreadable} /\ meta[url] \notin {Missing, Unreadable}
          /\ result' = [final |-> meta[url].final, hops |-> meta[url].hops,
                        body |-> html[url], cached |-> TRUE]
      BY <1>2, <2>3 DEF LoadRawCache
    <3>2. Genuine(url)
      BY <1>a DEF CacheInv
    <3>3. /\ result'.body = html[url] /\ result'.final = meta[url].final
          /\ result'.hops = meta[url].hops
      BY <3>1
    <3>4. CacheHitIsGenuine'
      BY <2>1, <3>1, <3>2, <3>3 DEF Genuine, CacheHitIsGenuine, Pages, FromSite
    <3> QED BY <1>a, <2>1, <2>2, <2>3, <3>4 DEF CacheInv
  <2>4. CASE phase' # "done"
    BY <1>2, <1>b, <2>1, <2>4 DEF LoadRawCache
  <2> QED BY <2>3, <2>4
<1>3. ASSUME NEW to \in Urls, Redirected(to) PROVE CacheInv'
  BY <1>3, <1>b DEF Redirected, FollowRedirect, Hop, NextAttempt, cache
<1>4. CASE TryAgain
  BY <1>4, <1>b DEF TryAgain, NextAttempt, cache
<1>5. CASE Raises
  BY <1>5, <1>b DEF Raises, cache
<1>6. ASSUME NEW body \in Bodies, Answered(body) PROVE CacheInv'
  <2>1. /\ phase' = "saveBody" /\ UNCHANGED <<url, html, meta, broken>>
        /\ served' = [served EXCEPT ![url] = @ \cup {result'}]
    BY <1>6 DEF Answered, cache
  <2>2. result' \in Result
    BY <2>1 DEF CallInv
  <2>3. \A u \in Urls : Genuine(u)'
    BY <1>a, <2>1, StaysGenuine
  <2> QED BY <1>a, <2>1, <2>2, <2>3 DEF CacheInv, CacheHitIsGenuine
<1>7. CASE SaveBody
  <2>1. /\ phase = "saveBody" /\ phase' \in {"saveMeta", "failed"}
        /\ UNCHANGED <<url, result, meta, served>>
        /\ broken' = [broken EXCEPT ![url] = TRUE]
        /\ \E part \in Cuts(result.body) \cup {result.body, html[url], Unreadable} :
              html' = [html EXCEPT ![url] = part]
        /\ phase' = "saveMeta" => html' = [html EXCEPT ![url] = result.body]
    BY <1>7 DEF SaveBody
  <2>2. result \in served[url]
    BY <2>1 DEF CacheInv
  <2>3. ASSUME NEW u \in Urls PROVE Genuine(u)'
    <3>1. CASE u # url
      BY <1>a, <2>1, <3>1, StaysGenuine
    <3>2. CASE u = url
      <4>1. Genuine(url)
        BY <1>a DEF CacheInv
      <4>2. broken'[u] /\ served'[u] = served[url] /\ meta'[u] = meta[url]
        BY <1>a, <2>1, <3>2
      <4>3. html'[u] \notin {Missing, Unreadable} => \E r \in served[url] : html'[u] \in Pages(r)
        BY <1>a, <2>1, <2>2, <3>2, <4>1 DEF Genuine, Pages
      <4> QED BY <4>1, <4>2, <4>3 DEF Genuine, Pages
    <3> QED BY <3>1, <3>2
  <2> QED BY <1>a, <2>1, <2>2, <2>3 DEF CacheInv, CacheHitIsGenuine
<1>8. CASE SaveMeta
  <2>1. /\ phase = "saveMeta" /\ phase' \in {"done", "failed"}
        /\ UNCHANGED <<url, result, html, served>>
    BY <1>8 DEF SaveMeta
  <2>2. /\ result \in served[url] /\ html[url] = result.body /\ broken[url]
        /\ result \in Result /\ ~result.cached
    BY <2>1 DEF CacheInv, CallInv
  <2>3. broken' \in [Urls -> BOOLEAN] /\ \A u \in Urls \ {url} : broken'[u] = broken[u] /\ meta'[u] = meta[u]
    BY <1>8, <1>a DEF SaveMeta
  <2>4. Genuine(url)
    BY <1>a DEF CacheInv
  <2>5. result.hops \in Seq(Urls)
    BY <2>2 DEF Result
  <2>6. \/ meta'[url] = Unreadable
        \/ meta'[url].final = result.final /\ IsPrefix(meta'[url].hops, result.hops)
    <3>1. CASE phase' = "done"
      BY <1>8, <1>a, <2>5, <3>1, WholeIsPrefix DEF SaveMeta, ChainOf
    <3>2. CASE phase' = "failed"
      <4>1. CASE meta' = [meta EXCEPT ![url] = Unreadable]
        BY <1>a, <4>1
      <4>2. ASSUME NEW n \in 0 .. Len(result.hops),
                   meta' = [meta EXCEPT ![url] =
                       [final |-> result.final, hops |-> SubSeq(result.hops, 1, n)]]
            PROVE  meta'[url].final = result.final /\ IsPrefix(meta'[url].hops, result.hops)
        BY <1>a, <2>5, <4>2, BeginningIsPrefix
      <4> QED BY <1>8, <3>2, <4>1, <4>2 DEF SaveMeta
    <3> QED BY <2>1, <3>1, <3>2
  <2>7. broken'[url] \/ [final |-> meta'[url].final, hops |-> meta'[url].hops,
                         body |-> html'[url], cached |-> FALSE] \in served'[url]
    <3>1. CASE phase' = "failed"
      BY <1>8, <2>2, <3>1 DEF SaveMeta
    <3>2. CASE phase' = "done"
      <4>1. meta'[url].final = result.final /\ meta'[url].hops = result.hops
        BY <1>8, <1>a, <3>2 DEF SaveMeta, ChainOf
      <4>2. result = [final |-> result.final, hops |-> result.hops,
                      body |-> result.body, cached |-> FALSE]
        BY <2>2 DEF Result
      <4> QED BY <2>1, <2>2, <4>1, <4>2
    <3> QED BY <2>1, <3>1, <3>2
  <2>8. ASSUME NEW u \in Urls PROVE Genuine(u)'
    <3>1. CASE u # url
      BY <2>1, <2>3, <3>1, StaysGenuine
    <3>2. CASE u = url
      <4>1. html'[url] \notin {Missing, Unreadable} => \E r \in served'[url] : html'[url] \in Pages(r)
        BY <2>1, <2>4 DEF Genuine, Pages
      <4> QED BY <2>1, <2>2, <2>6, <2>7, <3>2, <4>1 DEF Genuine, Pages
    <3> QED BY <3>1, <3>2
  <2> QED BY <1>a, <2>1, <2>2, <2>3, <2>8 DEF CacheInv, CacheHitIsGenuine
<1>9. CASE Return
  BY <1>9, <1>b DEF Return, cache
<1>10. CASE UNCHANGED fetchVars
  <2>1. UNCHANGED <<phase, url, result, html, meta, served, broken>>
    BY <1>10 DEF fetchVars, locals, cache, history
  <2>2. \A u \in Urls : Genuine(u)'
    BY <2>1, StaysGenuine
  <2> QED BY <1>a, <2>1, <2>2 DEF CacheInv, CacheHitIsGenuine, Pages
<1> QED
  BY <1>1, <1>2, <1>3, <1>4, <1>5, <1>6, <1>7, <1>8, <1>9, <1>10 DEF CallStep, FetchStep

\* What prefer_cache returns is what one call got from the site, however many saves
\* were cut off before the last whole one.
THEOREM CacheHitsAreGenuine == Spec => []CacheHitIsGenuine
<1>1. Init => CacheInv
  <2> SUFFICES ASSUME Init PROVE CacheInv
    OBVIOUS
  <2>1. FetchInit
    BY DEF Init
  <2> QED BY <2>1 DEF FetchInit, CacheInv, Genuine, CacheHitIsGenuine
<1>2. CacheInv => CacheHitIsGenuine
  BY DEF CacheInv
<1>3. FetchInv => CallInv
  BY DEF FetchInv
<1> QED
  BY <1>1, <1>2, <1>3, CacheStep, FetchInvHolds, StageInvHolds, NextIsCallStep, PTL DEF Spec

-----------------------------------------------------------------------------
(* Positions *)

\* Every non-empty set of natural numbers has a smallest element
LEMMA LeastNatural ==
    ASSUME NEW S \in SUBSET Nat, S # {}
    PROVE  \E n \in S : \A m \in S : n <= m
<1> DEFINE R == OpToRel(<, Nat)
<1>1. IsWellFoundedOn(R, Nat)
  BY NatLessThanWellFounded
<1>2. \A m, n \in Nat : m < n => <<m, n>> \in R
  BY DEF OpToRel
<1> HIDE DEF R
<1>3. PICK n \in S : \A m \in S : <<m, n>> \notin R
  BY <1>1, WFMin
<1>4. ASSUME NEW m \in S PROVE n <= m
  <2>1. m \in Nat /\ n \in Nat
    OBVIOUS
  <2>2. ~(m < n)
    BY <1>2, <1>3, <2>1
  <2> QED BY <2>1, <2>2
<1> QED BY <1>4

LEMMA BlockTypes ==
    ASSUME NEW page \in Seq(Block), NEW i \in Positions(page)
    PROVE  /\ i \in Nat \ {0} /\ Len(page) \in Nat /\ i <= Len(page)
           /\ page[i] \in Block
           /\ page[i].faq \in Seq(Nat) /\ Len(page[i].faq) \in {0, 2}
           /\ page[i].says \in Seq(Nat) /\ Len(page[i].says) \in 0 .. 2
           /\ page[i].box \in Nat \cup {Outside}
           /\ page[i].tag \in Whole => page[i].faq # <<>>
           /\ page[i].tag \in Tags
<1>1. i \in 1 .. Len(page) /\ Len(page) \in Nat
  BY DEF Positions
<1>2. page[i] \in Block
  BY <1>1, ElementOfSeq
<1>3. /\ page[i].faq \in {k \in Seq(Nat) : Len(k) \in {0, 2}}
      /\ page[i].says \in {k \in Seq(Nat) : Len(k) <= 2}
      /\ page[i].box \in Nat \cup {Outside}
      /\ page[i].tag \in Whole => page[i].faq # <<>>
      /\ page[i].tag \in Tags
  BY <1>2 DEF Block
<1>4. \A n \in Nat : n <= 2 => n \in 0 .. 2
  OBVIOUS
<1>5. page[i].says \in Seq(Nat) /\ Len(page[i].says) \in 0 .. 2
  <2>1. page[i].says \in Seq(Nat) /\ Len(page[i].says) <= 2
    BY <1>3
  <2>2. Len(page[i].says) \in Nat
    BY <2>1
  <2> QED BY <1>4, <2>1, <2>2
<1>6. page[i].faq \in Seq(Nat) /\ Len(page[i].faq) \in {0, 2}
  BY <1>3
<1> QED BY <1>1, <1>2, <1>3, <1>5, <1>6

\* The first of a set of positions, if it has any
LEMMA FirstIsLeast ==
    ASSUME NEW page \in Seq(Block), NEW S \in SUBSET (1 .. Len(page))
    PROVE  /\ First(page, S) \in 1 .. Len(page) + 1
           /\ First(page, S) <= Len(page) <=> S # {}
           /\ S # {} => First(page, S) \in S
           /\ \A j \in S : First(page, S) <= j
<1>1. Len(page) \in Nat
  OBVIOUS
<1>2. CASE S = {}
  BY <1>1, <1>2 DEF First
<1>3. CASE S # {}
  <2>1. \E i \in S : \A j \in S : i <= j
    BY <1>1, <1>3, LeastNatural
  <2>2. First(page, S) \in S /\ \A j \in S : First(page, S) <= j
    BY <1>3, <2>1 DEF First
  <2>3. First(page, S) \in 1 .. Len(page)
    BY <2>2
  <2> QED BY <1>1, <1>3, <2>2, <2>3
<1> QED BY <1>2, <1>3

\* A set with an element up to i has a greatest one
LEMMA GreatestIsOne ==
    ASSUME NEW S \in SUBSET Nat, NEW i \in Nat, NEW s \in S, s <= i
    PROVE  \E j \in Greatest(S, i) : Greatest(S, i) = {j}
<1> DEFINE D == {d \in Nat : \E k \in S : k + d = i}
<1>1. i - s \in D
  <2>1. i - s \in Nat /\ s + (i - s) = i
    OBVIOUS
  <2> QED BY <2>1
<1>2. PICK d \in D : \A e \in D : d <= e
  BY <1>1, LeastNatural
<1>3. PICK j \in S : j + d = i
  OBVIOUS
<1>4. j \in Nat /\ d \in Nat /\ j <= i
  BY <1>3
<1>5. ASSUME NEW k \in S, k <= i PROVE k <= j
  <2>1. k \in Nat /\ i - k \in Nat /\ k + (i - k) = i
    BY <1>5
  <2>2. i - k \in D
    BY <2>1
  <2>3. d <= i - k
    BY <1>2, <2>2
  <2> QED BY <1>3, <1>4, <2>1, <2>3
<1>6. j \in Greatest(S, i)
  BY <1>4, <1>5 DEF Greatest
<1>7. ASSUME NEW k \in Greatest(S, i) PROVE k = j
  BY <1>4, <1>6 DEF Greatest
<1> QED BY <1>6, <1>7

-----------------------------------------------------------------------------

\* A fragment is its node and blocks without a number
LEMMA FragmentHasOneFaq ==
    ASSUME NEW page \in Seq(Block), NEW i \in Positions(page)
    PROVE  /\ i \in FaqFragment(page, i)
           /\ FaqFragment(page, i) \subseteq Positions(page)
           /\ \A j \in FaqFragment(page, i) \ {i} : page[j].faq = <<>> /\ ~IsFaq(page[j])
<1>1. i \in Nat \ {0} /\ Len(page) \in Nat /\ i <= Len(page)
  BY BlockTypes
<1>2. CASE page[i].tag \in Whole
  BY <1>2 DEF FaqFragment
<1>3. CASE page[i].tag \notin Whole
  <2>1. FaqFragment(page, i) = UntilNextFaq(page, i)
    BY <1>3 DEF FaqFragment
  <2>2. i \in UntilNextFaq(page, i)
    BY <1>1 DEF UntilNextFaq
  <2>3. UntilNextFaq(page, i) \subseteq Positions(page)
    BY <1>1 DEF UntilNextFaq, Positions
  <2>4. ASSUME NEW j \in UntilNextFaq(page, i) \ {i}
        PROVE  page[j].faq = <<>> /\ ~IsFaq(page[j])
    <3>1. j \in (i + 1) .. j
      BY <1>1 DEF UntilNextFaq
    <3>2. ~Stops(page[j])
      BY <3>1 DEF UntilNextFaq
    <3> QED BY <3>2 DEF Stops
  <2> QED BY <2>1, <2>2, <2>3, <2>4
<1> QED BY <1>2, <1>3

\* Every node has a key, its own
LEMMA NodeKey ==
    ASSUME NEW page \in Seq(Block), NEW i \in DOMAIN FaqNodes(page)
    PROVE  /\ i \in Positions(page)
           /\ page[i].faq # <<>> \/ IsFaq(page[i])
           /\ FaqNodes(page)[i] = IF page[i].faq # <<>> THEN page[i].faq ELSE page[i].says
<1>1. CASE Annotated(page) # {}
  BY <1>1 DEF FaqNodes, Annotated
<1>2. CASE Annotated(page) = {}
  BY <1>2 DEF FaqNodes, Annotated, Headed
<1> QED BY <1>1, <1>2

Keys(page, unit) ==
    {IF page[i].faq # <<>> THEN page[i].faq ELSE page[i].says :
        i \in {j \in unit : page[j].faq # <<>> \/ IsFaq(page[j])}}

Lines(page, unit) == {page[i].says : i \in {j \in unit : IsFaq(page[j])}}

LEMMA DomFaqIsOwn ==
    ASSUME NEW page \in Seq(Block), NEW from, NEW to, DomFaq(page, from, to).found
    PROVE  Keys(page, DomFaq(page, from, to).unit) = ExpectedKeys(from, to)
<1> DEFINE nodes == FaqNodes(page)
           wanted == {i \in DOMAIN nodes : InRange(nodes[i], from, to)}
           unit == UNION {FaqFragment(page, i) : i \in wanted}
           key(i) == IF page[i].faq # <<>> THEN page[i].faq ELSE page[i].says
<1>1. {nodes[i] : i \in wanted} = ExpectedKeys(from, to) /\ DomFaq(page, from, to).unit = unit
  BY DEF DomFaq, Miss, Found, Contiguous
<1>2. \A i \in wanted : i \in Positions(page) /\ (page[i].faq # <<>> \/ IsFaq(page[i])) /\ nodes[i] = key(i)
  BY NodeKey
<1>3. \A i \in wanted : /\ i \in FaqFragment(page, i)
                        /\ \A j \in FaqFragment(page, i) \ {i} : page[j].faq = <<>> /\ ~IsFaq(page[j])
  BY <1>2, FragmentHasOneFaq
<1> HIDE DEF nodes, wanted
<1>4. {j \in unit : page[j].faq # <<>> \/ IsFaq(page[j])} = wanted
  BY <1>2, <1>3
<1>5. Keys(page, unit) = {key(i) : i \in wanted}
  BY <1>4 DEF Keys
<1>6. {key(i) : i \in wanted} = {nodes[i] : i \in wanted}
  BY <1>2
<1> QED BY <1>1, <1>5, <1>6

LEMMA LineFaqIsBounded ==
    ASSUME NEW page \in Seq(Block), NEW from, NEW to, LineFaq(page, from, to).found
    PROVE  /\ ExpectedKeys(from, to) \subseteq Lines(page, LineFaq(page, from, to).unit)
           /\ \A k \in Lines(page, LineFaq(page, from, to).unit) : AtMost(k, to)
<1> DEFINE start == First(page, {i \in Positions(page) : page[i].says = from})
           Ends == {i \in start .. Len(page) :
                       \/ IsFaq(page[i]) /\ ~AtMost(page[i].says, to)
                       \/ IsSection(page[i]) /\ page[i].says[1] # from[1]}
           end == First(page, Ends)
           lines == start .. end - 1
           keys == {page[i].says : i \in {j \in lines : IsFaq(page[j]) /\ InRange(page[j].says, from, to)}}
<1>1. LineFaq(page, from, to).unit = lines /\ keys = ExpectedKeys(from, to) /\ start <= Len(page)
  BY DEF LineFaq, Miss, Found, Contiguous
<1>2. keys \subseteq Lines(page, lines)
  BY DEF Lines
<1>3. start \in 1 .. Len(page) + 1
  BY FirstIsLeast DEF Positions
<1> HIDE DEF start
<1>4. Ends \in SUBSET (1 .. Len(page)) /\ Len(page) \in Nat
  <2>1. Len(page) \in Nat
    OBVIOUS
  <2> QED BY <1>3, <2>1
<1>5. end \in 1 .. Len(page) + 1 /\ \A i \in Ends : end <= i
  <2> HIDE DEF Ends
  <2> QED BY <1>4, FirstIsLeast
<1>6. ASSUME NEW i \in lines, IsFaq(page[i]) PROVE AtMost(page[i].says, to)
  <2> HIDE DEF end
  <2>1. i \in start .. Len(page) /\ i < end
    BY <1>3, <1>4, <1>5
  <2>2. i \notin Ends
    BY <1>3, <1>4, <1>5, <2>1
  <2> QED BY <1>6, <2>1, <2>2
<1>7. \A k \in Lines(page, lines) : AtMost(k, to)
  BY <1>6 DEF Lines
<1> QED BY <1>1, <1>2, <1>7

-----------------------------------------------------------------------------
(* Well-formed pages *)

LEMMA NumberedTypes ==
    ASSUME NEW page \in Seq(Block)
    PROVE  /\ Numbered(page) \in SUBSET Nat /\ Sections(page) \in SUBSET Nat
           /\ Sections(page) \subseteq Numbered(page) /\ Numbered(page) \subseteq Positions(page)
           /\ \A i \in Numbered(page) : page[i].says \in Seq(Nat) /\ Len(page[i].says) \in {1, 2}
<1>1. ASSUME NEW i \in Positions(page)
      PROVE  /\ i \in Nat /\ page[i].says \in Seq(Nat)
             /\ page[i].says # <<>> => Len(page[i].says) \in {1, 2}
             /\ IsSection(page[i]) => page[i].says # <<>>
  <2>1. i \in Nat /\ page[i].says \in Seq(Nat) /\ Len(page[i].says) \in 0 .. 2
    BY BlockTypes
  <2>2. Len(page[i].says) = 0 => page[i].says = <<>>
    BY <2>1, EmptySeq
  <2>3. page[i].says = <<>> => Len(page[i].says) = 0
    OBVIOUS
  <2>4. page[i].says # <<>> => Len(page[i].says) \in {1, 2}
    BY <2>1, <2>2
  <2>5. IsSection(page[i]) => page[i].says # <<>>
    BY <2>3 DEF IsSection
  <2> QED BY <2>1, <2>4, <2>5
<1> QED BY <1>1 DEF Numbered, Sections

LEMMA NumberedIsFaqOrSection ==
    ASSUME NEW page \in Seq(Block), NEW i \in Positions(page)
    PROVE  /\ i \in Numbered(page) <=> IsFaq(page[i]) \/ i \in Sections(page)
           /\ ~(IsFaq(page[i]) /\ i \in Sections(page))
<1>1. IsFaq(page[i]) => page[i].says # <<>>
  <2>1. page[i].says = <<>> => Len(page[i].says) = 0
    OBVIOUS
  <2> QED BY <2>1 DEF IsFaq
<1>2. i \in Sections(page) => i \in Numbered(page)
  BY NumberedTypes
<1>3. i \in Numbered(page) => Len(page[i].says) \in {1, 2}
  BY NumberedTypes
<1>4. i \in Numbered(page) => IsFaq(page[i]) \/ i \in Sections(page)
  BY <1>3 DEF Sections, IsFaq, IsSection
<1>5. ~(IsFaq(page[i]) /\ i \in Sections(page))
  BY DEF Sections, IsFaq, IsSection
<1> QED BY <1>1, <1>2, <1>4, <1>5 DEF Numbered

\* Of two blocks that begin with the same number there is only one
LEMMA NumbersDiffer ==
    ASSUME NEW page \in Seq(Block), WellFormed(page),
           NEW i \in Numbered(page), NEW j \in Numbered(page), page[i].says = page[j].says
    PROVE  i = j
<1>1. i \in Nat /\ j \in Nat
  BY NumberedTypes
<1>2. page[i].says \in Seq(Nat) /\ Len(page[i].says) \in {1, 2}
  BY NumberedTypes
<1>3. ~Before(page[i].says, page[i].says)
  <2>1. ASSUME NEW k \in Seq(Nat), Len(k) \in {1, 2} PROVE ~Before(k, k)
    <3>1. k[1] \in Nat /\ (Len(k) = 2 => k[2] \in Nat)
      BY <2>1
    <3>2. ~(k[1] < k[1]) /\ (Len(k) = 2 => ~(k[2] < k[2]))
      BY <3>1
    <3> QED BY <3>2 DEF Before
  <2> QED BY <1>2, <2>1
<1>4. i < j => Before(page[i].says, page[j].says)
  BY DEF WellFormed
<1>5. j < i => Before(page[j].says, page[i].says)
  BY DEF WellFormed
<1> QED BY <1>1, <1>3, <1>4, <1>5

LEMMA GreatestIsUnique ==
    ASSUME NEW S \in SUBSET Nat, NEW i \in Nat, NEW j \in Greatest(S, i), NEW k \in Greatest(S, i)
    PROVE  j = k
<1>1. j \in Nat /\ k \in Nat /\ j <= k /\ k <= j
  BY DEF Greatest
<1> QED BY <1>1

-----------------------------------------------------------------------------
(* Sections *)

InSection(page, num) ==
    {i \in Positions(page) : \E j \in Greatest(Sections(page), i) : page[j].says = <<num>>}

Boxed(page) ==
    \A i \in Positions(page) :
        \E j \in Greatest(Sections(page), i) : page[j].says = <<page[i].box>>

Unboxed(page) == \A i \in Positions(page) : page[i].box = Outside

LEMMA BoxIsSection ==
    ASSUME NEW page \in Seq(Block), Boxed(page), NEW i \in Positions(page), NEW num
    PROVE  /\ page[i].box = num <=> i \in InSection(page, num)
           /\ \A j \in Greatest(Sections(page), i) : page[j].says = <<page[i].box>>
<1>1. PICK j \in Greatest(Sections(page), i) : page[j].says = <<page[i].box>>
  BY DEF Boxed
<1>2. \A k \in Greatest(Sections(page), i) : k = j
  BY <1>1, GreatestIsUnique, NumberedTypes, BlockTypes
<1>3. <<page[i].box>> = <<num>> => page[i].box = num
  OBVIOUS
<1> QED BY <1>1, <1>2, <1>3 DEF InSection

\* A section is in one piece
LEMMA SectionIsConnected ==
    ASSUME NEW page \in Seq(Block), WellFormed(page), NEW num,
           NEW i \in InSection(page, num), NEW j \in InSection(page, num),
           NEW k \in Nat, i <= k, k <= j
    PROVE  k \in InSection(page, num)
<1>1. i \in Positions(page) /\ j \in Positions(page) /\ i \in Nat /\ j \in Nat
      /\ Len(page) \in Nat /\ j <= Len(page) /\ i # 0
  BY BlockTypes DEF InSection
<1>2. k \in Positions(page)
  BY <1>1 DEF Positions
<1>3. PICK s \in Greatest(Sections(page), i) : page[s].says = <<num>>
  BY DEF InSection
<1>4. PICK t \in Greatest(Sections(page), j) : page[t].says = <<num>>
  BY DEF InSection
<1>5. s = t
  BY <1>3, <1>4, NumbersDiffer, NumberedTypes DEF Greatest
<1>6. s \in Sections(page) /\ s \in Nat /\ s <= i /\ \A u \in Sections(page) : u \in Nat /\ (u <= j => u <= s)
  BY <1>5, NumberedTypes DEF Greatest
<1>7. s <= k /\ \A u \in Sections(page) : u <= k => u <= s
  BY <1>1, <1>6
<1>8. s \in Greatest(Sections(page), k)
  BY <1>6, <1>7 DEF Greatest
<1> QED BY <1>2, <1>3, <1>8 DEF InSection

LEMMA BoxedSectionIsExact ==
    ASSUME NEW page \in Seq(Block), WellFormed(page), Boxed(page), NEW num,
           First(page, {i \in Positions(page) : page[i].box = num}) <= Len(page)
    PROVE  BoxedSection(page, First(page, {i \in Positions(page) : page[i].box = num}))
               = InSection(page, num)
<1> DEFINE S == {i \in Positions(page) : page[i].box = num}
           start == First(page, S)
<1>1. start \in S /\ \A j \in S : start <= j
  BY FirstIsLeast DEF Positions
<1>2. S = InSection(page, num)
  <2>1. \A i \in Positions(page) : page[i].box = num <=> i \in InSection(page, num)
    BY BoxIsSection
  <2>2. InSection(page, num) \subseteq Positions(page)
    BY DEF InSection
  <2> QED BY <2>1, <2>2
<1> HIDE DEF start
<1>3. start \in Nat \ {0} /\ page[start].box = num /\ start \in Positions(page) /\ Len(page) \in Nat
  BY <1>1, BlockTypes
<1>4. ASSUME NEW j \in BoxedSection(page, start) PROVE j \in S
  <2>1. j \in start .. Len(page) /\ page[j].box = num
    BY <1>3 DEF BoxedSection
  <2> QED BY <1>3, <2>1 DEF Positions
<1>5. ASSUME NEW j \in S PROVE j \in BoxedSection(page, start)
  <2>1. j \in Positions(page) /\ start <= j
    BY <1>1
  <2>2. j \in start .. Len(page)
    BY <1>3, <2>1 DEF Positions
  <2>3. ASSUME NEW k \in start .. j PROVE page[k].box = num
    <3>1. k \in Nat /\ start <= k /\ k <= j
      BY <1>3, <2>2
    <3>2. k \in S
      BY <1>1, <1>2, <3>1, SectionIsConnected
    <3> QED BY <3>2
  <2> QED BY <1>3, <2>2, <2>3 DEF BoxedSection
<1> QED BY <1>2, <1>4, <1>5 DEF start

LEMMA HeadedSectionIsExact ==
    ASSUME NEW page \in Seq(Block), WellFormed(page), Unboxed(page), NEW start \in Sections(page)
    PROVE  \A num : page[start].says = <<num>> => HeadedSection(page, start) = InSection(page, num)
<1> SUFFICES ASSUME NEW num, page[start].says = <<num>>
             PROVE  HeadedSection(page, start) = InSection(page, num)
  OBVIOUS
<1>1. /\ start \in Positions(page) /\ start \in Nat \ {0} /\ Len(page) \in Nat
      /\ Sections(page) \in SUBSET Nat /\ Sections(page) \subseteq Positions(page)
  BY NumberedTypes, BlockTypes DEF Sections
<1>2. \A k \in Positions(page) : page[k].tag = "h2" /\ IsSection(page[k]) <=> k \in Sections(page)
  BY DEF WellFormed, Sections
<1>3. ASSUME NEW j \in HeadedSection(page, start) PROVE j \in InSection(page, num)
  <2>1. j \in Nat /\ start <= j /\ j \in Positions(page)
    BY <1>1 DEF HeadedSection, Positions
  <2>2. ASSUME NEW k \in Sections(page), k <= j PROVE k <= start
    <3>1. k \in Nat /\ k \in Positions(page)
      BY <1>1
    <3>2. k \notin (start + 1) .. j
      BY <1>2, <3>1, <2>2 DEF HeadedSection
    <3> QED BY <1>1, <2>1, <2>2, <3>1, <3>2
  <2>3. start \in Greatest(Sections(page), j)
    BY <2>1, <2>2 DEF Greatest
  <2> QED BY <2>1, <2>3 DEF InSection
<1>4. ASSUME NEW j \in InSection(page, num) PROVE j \in HeadedSection(page, start)
  <2>1. PICK s \in Greatest(Sections(page), j) : page[s].says = <<num>>
    BY DEF InSection
  <2>2. s = start
    BY <2>1, NumbersDiffer, NumberedTypes DEF Greatest
  <2>3. j \in Positions(page) /\ j \in Nat /\ j <= Len(page)
    BY BlockTypes DEF InSection
  <2>4. j \in start .. Len(page)
    BY <1>1, <2>2, <2>3 DEF Greatest
  <2>5. ASSUME NEW k \in (start + 1) .. j
        PROVE  page[k].box = page[start].box /\ ~(page[k].tag = "h2" /\ IsSection(page[k]))
    <3>1. k \in Nat /\ k \in Positions(page) /\ start < k /\ k <= j
      BY <1>1, <2>3 DEF Positions
    <3>2. k \notin Sections(page)
      BY <1>1, <2>2, <3>1 DEF Greatest
    <3> QED BY <1>1, <1>2, <3>1, <3>2 DEF Unboxed
  <2> QED BY <2>4, <2>5 DEF HeadedSection
<1> QED BY <1>3, <1>4

LEMMA SectionIsExact ==
    ASSUME NEW page \in Seq(Block), WellFormed(page), NEW num \in Nat,
           ExtractSection(page, num).found
    PROVE  ExtractSection(page, num) = Found(InSection(page, num)) /\ InSection(page, num) # {}
<1> DEFINE InBox == {i \in Positions(page) : page[i].box = num}
           Heads == {i \in Positions(page) : IsHeading(page[i]) /\ page[i].says = <<num>>}
           boxed == First(page, InBox)
           headed == First(page, Heads)
<1>1. /\ boxed <= Len(page) <=> InBox # {}
      /\ headed <= Len(page) <=> Heads # {}
      /\ Heads # {} => headed \in Heads
  BY FirstIsLeast DEF Positions
<1>2. Boxed(page) \/ Unboxed(page)
  BY DEF WellFormed, Boxed, Unboxed
<1>3. \A unit : WithinSection(page, unit, num).found => WithinSection(page, unit, num) = Found(unit)
  BY DEF WithinSection, Miss
<1>4. \A i \in Positions(page) : page[i].says = <<num>> => i \in Sections(page) /\ i \in Heads
  <2>1. Len(<<num>>) = 1
    OBVIOUS
  <2> QED BY <2>1 DEF Sections, IsSection, WellFormed, IsHeading
<1>5. \A i \in Sections(page) : i \in Greatest(Sections(page), i)
  BY NumberedTypes DEF Greatest
<1>6. \A i \in Positions(page) : page[i].says = <<num>> => i \in InSection(page, num)
  BY <1>4, <1>5 DEF InSection
<1>7. CASE boxed <= Len(page)
  <2>1. ~Unboxed(page)
    BY <1>1, <1>7 DEF Unboxed, Outside
  <2>2. BoxedSection(page, boxed) = InSection(page, num)
    BY <1>2, <1>7, <2>1, BoxedSectionIsExact
  <2>3. ExtractSection(page, num) = WithinSection(page, InSection(page, num), num)
    BY <1>7, <2>2 DEF ExtractSection
  <2>4. PICK i \in InBox : TRUE
    BY <1>1, <1>7
  <2>5. i \in InSection(page, num)
    BY <1>2, <2>1, BoxIsSection
  <2> QED BY <1>3, <2>3, <2>5
<1>8. CASE ~(boxed <= Len(page)) /\ headed <= Len(page)
  <2>1. headed \in Sections(page) /\ page[headed].says = <<num>>
    BY <1>1, <1>4, <1>8
  <2>2. headed \in InSection(page, num)
    BY <1>6, <2>1 DEF Sections
  <2>3. ~Boxed(page)
    <3>1. headed \in Positions(page) /\ InBox = {}
      BY <1>1, <1>8
    <3>2. Boxed(page) => page[headed].box = num
      BY <2>2, <3>1, BoxIsSection
    <3> QED BY <3>1, <3>2
  <2>4. HeadedSection(page, headed) = InSection(page, num)
    BY <1>2, <2>1, <2>3, HeadedSectionIsExact
  <2>5. ExtractSection(page, num) = WithinSection(page, InSection(page, num), num)
    BY <1>8, <2>4 DEF ExtractSection
  <2> QED BY <1>3, <2>2, <2>5
<1>9. CASE ~(boxed <= Len(page)) /\ ~(headed <= Len(page))
  <2>1. {i \in Positions(page) : page[i].says = <<num>>} = {}
    BY <1>1, <1>4, <1>9
  <2>2. ~(First(page, {i \in Positions(page) : page[i].says = <<num>>}) <= Len(page))
    <3>1. Len(page) \in Nat
      OBVIOUS
    <3> QED BY <2>1, <3>1 DEF First
  <2>3. ExtractSection(page, num) = Miss
    BY <1>9, <2>2 DEF ExtractSection, LineSection
  <2> QED BY <2>3 DEF Miss
<1> QED BY <1>7, <1>8, <1>9

-----------------------------------------------------------------------------
(* FAQs *)

LEMMA KeysOfRange ==
    ASSUME NEW from \in Nat \X Nat, NEW to \in Nat \X Nat, from[1] = to[1],
           NEW k \in Seq(Nat), Len(k) = 2
    PROVE  k \in ExpectedKeys(from, to) <=> InRange(k, from, to)
<1>1. k[1] \in Nat /\ k[2] \in Nat /\ k = <<k[1], k[2]>>
  <2>1. k[1] \in Nat /\ k[2] \in Nat
    <3>1. 1 \in 1 .. Len(k) /\ 2 \in 1 .. Len(k)
      OBVIOUS
    <3> QED BY <3>1, ElementOfSeq
  <2>2. <<k[1], k[2]>> \in Seq(Nat) /\ Len(<<k[1], k[2]>>) = 2
    BY <2>1
  <2>3. \A i \in 1 .. 2 : k[i] = <<k[1], k[2]>>[i]
    OBVIOUS
  <2>4. k = <<k[1], k[2]>>
    BY <2>2, <2>3, SeqEqual
  <2> QED BY <2>1, <2>4
<1>2. from[1] \in Nat /\ from[2] \in Nat /\ to[2] \in Nat
  OBVIOUS
<1>3. k \in ExpectedKeys(from, to) <=> k[1] = from[1] /\ k[2] \in from[2] .. to[2]
  BY <1>1, <1>2 DEF ExpectedKeys
<1>4. InRange(k, from, to) <=> k[1] = from[1] /\ k[2] \in from[2] .. to[2]
  BY <1>1, <1>2 DEF InRange, AtMost
<1> QED BY <1>3, <1>4

LEMMA ExpectedAreFaqs ==
    ASSUME NEW from \in Nat \X Nat, NEW to \in Nat \X Nat, NEW k \in ExpectedKeys(from, to)
    PROVE  k \in Seq(Nat) /\ Len(k) = 2 /\ k[1] = from[1] /\ k[1] \in Nat /\ k[2] \in Nat
           /\ from[2] <= k[2] /\ k[2] <= to[2]
<1>1. PICK n \in from[2] .. to[2] : k = <<from[1], n>>
  BY DEF ExpectedKeys
<1>2. n \in Nat /\ from[1] \in Nat /\ from[2] <= n /\ n <= to[2]
  OBVIOUS
<1> QED BY <1>1, <1>2

\* No block of a data-section changes it before the next section
LEMMA BoxIsConstant ==
    ASSUME NEW page \in Seq(Block), WellFormed(page), NEW j \in Positions(page),
           NEW i \in Positions(page), j <= i,
           \A k \in Sections(page) : ~(j < k /\ k <= i)
    PROVE  page[i].box = page[j].box
<1>1. CASE Unboxed(page)
  BY <1>1 DEF Unboxed
<1>2. CASE Boxed(page)
  <2>1. i \in Nat /\ j \in Nat /\ Sections(page) \in SUBSET Nat
    BY BlockTypes, NumberedTypes
  <2>2. PICK s \in Greatest(Sections(page), j) : page[s].says = <<page[j].box>>
    BY <1>2 DEF Boxed
  <2>3. s \in Sections(page) /\ s \in Nat /\ s <= i
    BY <2>1, <2>2 DEF Greatest
  <2>4. ASSUME NEW k \in Sections(page), k <= i PROVE k <= s
    <3>1. k \in Nat /\ k <= j
      BY <2>1, <2>4
    <3> QED BY <3>1 DEF Greatest
  <2>5. s \in Greatest(Sections(page), i)
    BY <2>3, <2>4 DEF Greatest
  <2>6. page[s].says = <<page[i].box>>
    BY <1>2, <2>5, BoxIsSection
  <2>7. <<page[i].box>> = <<page[j].box>>
    BY <2>2, <2>6
  <2> QED BY <2>7
<1> QED BY <1>1, <1>2 DEF WellFormed, Boxed, Unboxed

Belonging(page, j) ==
    {i \in Positions(page) : j \in Greatest(Numbered(page), i) /\ (page[j].tag \in Whole => i = j)}

\* A FAQ's fragment goes up to the next numbered block
LEMMA FragmentIsExact ==
    ASSUME NEW page \in Seq(Block), WellFormed(page), NEW j \in Numbered(page)
    PROVE  FaqFragment(page, j) = Belonging(page, j)
<1>1. /\ j \in Positions(page) /\ j \in Nat \ {0} /\ Len(page) \in Nat /\ j <= Len(page)
      /\ Numbered(page) \in SUBSET Nat /\ Numbered(page) \subseteq Positions(page)
  BY NumberedTypes, BlockTypes
<1>2. ASSUME NEW k \in Positions(page) PROVE Stops(page[k]) <=> k \in Numbered(page)
  <2>1. page[k].faq # <<>> => k \in Numbered(page)
    BY DEF WellFormed, Annotated
  <2>2. IsSection(page[k]) <=> k \in Sections(page)
    BY DEF Sections
  <2>3. k \in Sections(page) => page[k].tag = "h2"
    BY DEF WellFormed
  <2> QED BY <2>1, <2>2, <2>3, NumberedIsFaqOrSection DEF Stops
<1>3. CASE page[j].tag \in Whole
  <2>1. j \in Greatest(Numbered(page), j)
    BY <1>1 DEF Greatest
  <2> QED BY <1>1, <1>3, <2>1 DEF FaqFragment, Belonging
<1>4. CASE page[j].tag \notin Whole
  <2>1. ASSUME NEW i \in UntilNextFaq(page, j) PROVE i \in Belonging(page, j)
    <3>1. i \in Nat /\ j <= i /\ i \in Positions(page)
      BY <1>1 DEF UntilNextFaq, Positions
    <3>2. ASSUME NEW k \in Numbered(page), k <= i PROVE k <= j
      <4>1. k \in Nat /\ k \in Positions(page)
        BY <1>1
      <4>2. k \notin (j + 1) .. i
        BY <1>2, <4>1 DEF UntilNextFaq
      <4> QED BY <1>1, <3>1, <3>2, <4>1, <4>2
    <3> QED BY <1>4, <3>1, <3>2 DEF Belonging, Greatest
  <2>2. ASSUME NEW i \in Belonging(page, j) PROVE i \in UntilNextFaq(page, j)
    <3>1. i \in Positions(page) /\ i \in Nat /\ i <= Len(page) /\ j <= i
          /\ \A k \in Numbered(page) : k <= i => k <= j
      BY BlockTypes DEF Belonging, Greatest
    <3>2. ASSUME NEW k \in (j + 1) .. i PROVE page[k].box = page[j].box /\ ~Stops(page[k])
      <4>1. k \in Nat /\ k \in Positions(page) /\ j < k /\ k <= i
        BY <1>1, <3>1 DEF Positions
      <4>2. k \notin Numbered(page)
        BY <1>1, <3>1, <4>1
      <4>3. \A l \in Sections(page) : ~(j < l /\ l <= k)
        BY <1>1, <3>1, <4>1, NumberedTypes
      <4>4. page[k].box = page[j].box
        BY <1>1, <4>1, <4>3, BoxIsConstant
      <4> QED BY <1>2, <4>1, <4>2, <4>4
    <3>3. i \in j .. Len(page)
      BY <1>1, <3>1
    <3> QED BY <3>2, <3>3 DEF UntilNextFaq
  <2> QED BY <1>4, <2>1, <2>2 DEF FaqFragment
<1> QED BY <1>3, <1>4

InFaqs(page, from, to) ==
    {i \in Positions(page) : \E j \in Greatest(Numbered(page), i) :
        /\ page[j].says \in ExpectedKeys(from, to)
        /\ page[j].tag \in Whole => i = j}

\* The nodes of a range are the blocks that begin with its numbers
LEMMA WantedIsExact ==
    ASSUME NEW page \in Seq(Block), WellFormed(page),
           NEW from \in Nat \X Nat, NEW to \in Nat \X Nat,
           DomFaq(page, from, to).found
    PROVE  LET wanted == {i \in DOMAIN FaqNodes(page) : InRange(FaqNodes(page)[i], from, to)}
           IN  /\ wanted = {j \in Numbered(page) : page[j].says \in ExpectedKeys(from, to)}
               /\ {page[j].says : j \in wanted} = ExpectedKeys(from, to)
<1> DEFINE nodes == FaqNodes(page)
           wanted == {i \in DOMAIN nodes : InRange(nodes[i], from, to)}
           range == {j \in Numbered(page) : page[j].says \in ExpectedKeys(from, to)}
<1>1. {nodes[i] : i \in wanted} = ExpectedKeys(from, to) /\ from[1] = to[1]
  BY DEF DomFaq, Miss, Found, Contiguous
<1>2. ASSUME NEW i \in DOMAIN nodes
      PROVE  /\ i \in Numbered(page) /\ nodes[i] = page[i].says
  <2>1. i \in Positions(page) /\ (page[i].faq # <<>> \/ IsFaq(page[i]))
        /\ nodes[i] = IF page[i].faq # <<>> THEN page[i].faq ELSE page[i].says
    BY NodeKey
  <2>2. page[i].faq # <<>> => i \in Numbered(page) /\ page[i].faq = page[i].says
    BY <2>1 DEF WellFormed, Annotated
  <2>3. IsFaq(page[i]) => i \in Numbered(page)
    BY <2>1, NumberedIsFaqOrSection
  <2> QED BY <2>1, <2>2, <2>3
<1>3. {page[j].says : j \in wanted} = ExpectedKeys(from, to)
  <2>1. \A i \in wanted : nodes[i] = page[i].says
    BY <1>2
  <2> HIDE DEF wanted, nodes
  <2> QED BY <1>1, <2>1
<1>4. ASSUME NEW i \in wanted PROVE i \in range
  BY <1>1, <1>2, <1>4
<1>5. ASSUME NEW j \in range PROVE j \in wanted
  <2>1. PICK i \in wanted : page[j].says = page[i].says
    <3> HIDE DEF wanted
    <3> QED BY <1>3
  <2>2. i = j
    BY <1>4, <2>1, NumbersDiffer
  <2> QED BY <2>1, <2>2
<1> QED BY <1>3, <1>4, <1>5

LEMMA DomFaqIsExact ==
    ASSUME NEW page \in Seq(Block), WellFormed(page),
           NEW from \in Nat \X Nat, NEW to \in Nat \X Nat,
           DomFaq(page, from, to).found
    PROVE  DomFaq(page, from, to) = Found(InFaqs(page, from, to))
<1> DEFINE wanted == {i \in DOMAIN FaqNodes(page) : InRange(FaqNodes(page)[i], from, to)}
           range == {j \in Numbered(page) : page[j].says \in ExpectedKeys(from, to)}
<1>1. wanted = range
  BY WantedIsExact
<1>2. DomFaq(page, from, to) = Found(UNION {FaqFragment(page, i) : i \in wanted})
  BY DEF DomFaq, Miss, Found
<1>3. \A j \in range : FaqFragment(page, j) = Belonging(page, j)
  BY FragmentIsExact
<1> HIDE DEF wanted
<1>4. UNION {FaqFragment(page, i) : i \in wanted} = UNION {Belonging(page, j) : j \in range}
  <2> HIDE DEF range
  <2> QED BY <1>1, <1>3
<1>5. UNION {Belonging(page, j) : j \in range} = InFaqs(page, from, to)
  BY DEF Belonging, InFaqs, Greatest
<1> QED BY <1>2, <1>4, <1>5

\* A page that has data-faq never needs the lines
LEMMA LinesWithoutAnnotations ==
    ASSUME NEW page \in Seq(Block), WellFormed(page),
           NEW from \in Nat \X Nat, NEW to \in Nat \X Nat, AtMost(from, to),
           LineFaq(page, from, to).found, ~DomFaq(page, from, to).found
    PROVE  Annotated(page) = {}
<1> SUFFICES ASSUME Annotated(page) # {} PROVE FALSE
  OBVIOUS
<1> DEFINE start == First(page, {i \in Positions(page) : page[i].says = from})
           end == First(page, {i \in start .. Len(page) :
                       \/ IsFaq(page[i]) /\ ~AtMost(page[i].says, to)
                       \/ IsSection(page[i]) /\ page[i].says[1] # from[1]})
           nodes == FaqNodes(page)
           wanted == {i \in DOMAIN nodes : InRange(nodes[i], from, to)}
           near == {j \in start .. end - 1 : IsFaq(page[j]) /\ InRange(page[j].says, from, to)}
<1>1. {page[i].says : i \in near} = ExpectedKeys(from, to) /\ from[1] = to[1] /\ start <= Len(page)
  BY DEF LineFaq, Miss, Found, Contiguous
<1>2. /\ DOMAIN nodes = {i \in Numbered(page) : IsFaq(page[i])}
      /\ \A i \in DOMAIN nodes : nodes[i] = page[i].says
  BY DEF FaqNodes, WellFormed
<1>3. \A i \in DOMAIN nodes : page[i].says \in Seq(Nat) /\ Len(page[i].says) = 2
  BY <1>2, NumberedTypes DEF IsFaq
<1>4. {nodes[i] : i \in wanted} \subseteq ExpectedKeys(from, to)
  <2> HIDE DEF nodes
  <2>1. \A i \in DOMAIN nodes : InRange(nodes[i], from, to) => nodes[i] \in ExpectedKeys(from, to)
    BY <1>1, <1>2, <1>3, KeysOfRange
  <2> QED BY <2>1
<1>5. near \subseteq wanted
  <2>1. start \in 1 .. Len(page) + 1 /\ start \in Nat \ {0} /\ Len(page) \in Nat
    BY FirstIsLeast DEF Positions
  <2> HIDE DEF start
  <2>2. end \in 1 .. Len(page) + 1
    <3> DEFINE Ends == {i \in start .. Len(page) :
                       \/ IsFaq(page[i]) /\ ~AtMost(page[i].says, to)
                       \/ IsSection(page[i]) /\ page[i].says[1] # from[1]}
    <3>1. Ends \in SUBSET (1 .. Len(page))
      BY <2>1
    <3> HIDE DEF Ends
    <3>2. First(page, Ends) \in 1 .. Len(page) + 1
      BY <3>1, FirstIsLeast
    <3> QED BY <3>2 DEF Ends
  <2> HIDE DEF end
  <2>3. ASSUME NEW i \in near PROVE i \in Positions(page)
    BY <2>1, <2>2 DEF Positions
  <2>4. ASSUME NEW i \in near PROVE i \in DOMAIN nodes
    BY <1>2, <2>3, NumberedIsFaqOrSection
  <2> HIDE DEF nodes
  <2> QED BY <1>2, <2>4
<1>6. ExpectedKeys(from, to) \subseteq {nodes[i] : i \in wanted}
  <2>1. \A i \in near : i \in wanted /\ i \in DOMAIN nodes /\ nodes[i] = page[i].says
    BY <1>2, <1>5
  <2> HIDE DEF nodes, wanted, near
  <2> QED BY <1>1, <2>1
<1>7. wanted # {}
  <2>1. <<from[1], from[2]>> \in ExpectedKeys(from, to)
    BY <1>1 DEF ExpectedKeys, AtMost
  <2> HIDE DEF wanted, nodes
  <2> QED BY <1>6, <2>1
<1>8. Contiguous({nodes[i] : i \in wanted}, from, to)
  BY <1>1, <1>4, <1>6 DEF Contiguous
<1>9. DomFaq(page, from, to).found
  BY <1>7, <1>8 DEF DomFaq, Found
<1> QED BY <1>9

LEMMA PartsOfNumber ==
    ASSUME NEW k \in Seq(Nat), Len(k) \in {1, 2}
    PROVE  k[1] \in Nat /\ (Len(k) = 2 => k[2] \in Nat)
<1>1. CASE Len(k) = 1
  <2>1. 1 \in 1 .. 1
    OBVIOUS
  <2>2. 1 \in 1 .. Len(k)
    BY <1>1, <2>1
  <2>3. k[1] \in Nat
    BY <2>2, ElementOfSeq
  <2> QED BY <1>1, <2>3
<1>2. CASE Len(k) = 2
  <2>1. 1 \in 1 .. 2 /\ 2 \in 1 .. 2
    OBVIOUS
  <2>2. 1 \in 1 .. Len(k) /\ 2 \in 1 .. Len(k)
    BY <1>2, <2>1
  <2> QED BY <2>2, ElementOfSeq
<1> QED BY <1>1, <1>2

\* How two blocks that begin with numbers are ordered on a well-formed page
LEMMA NumbersAscend ==
    ASSUME NEW page \in Seq(Block), WellFormed(page),
           NEW i \in Numbered(page), NEW j \in Numbered(page), i < j
    PROVE  LET k == page[i].says
               l == page[j].says
           IN  /\ k[1] \in Nat /\ l[1] \in Nat /\ k[1] <= l[1]
               /\ Len(k) = 2 => k[2] \in Nat
               /\ Len(l) = 2 => l[2] \in Nat
               /\ k[1] = l[1] => Len(l) = 2 /\ (Len(k) = 2 => k[2] < l[2])
<1> DEFINE k == page[i].says
           l == page[j].says
<1>1. Before(k, l)
  <2>1. i < j => Before(page[i].says, page[j].says)
    BY DEF WellFormed
  <2> QED BY <2>1
<1>2. k \in Seq(Nat) /\ l \in Seq(Nat) /\ Len(k) \in {1, 2} /\ Len(l) \in {1, 2}
  BY NumberedTypes
<1> HIDE DEF k, l
<1>3. k[1] \in Nat /\ (Len(k) = 2 => k[2] \in Nat)
  BY <1>2, PartsOfNumber
<1>4. l[1] \in Nat /\ (Len(l) = 2 => l[2] \in Nat)
  BY <1>2, PartsOfNumber
<1>5. k[1] <= l[1] /\ (k[1] = l[1] => Len(l) = 2 /\ (Len(k) = 2 => k[2] < l[2]))
  BY <1>1, <1>3, <1>4 DEF Before
<1> QED BY <1>3, <1>4, <1>5 DEF k, l

LEMMA LineFaqIsExact ==
    ASSUME NEW page \in Seq(Block), WellFormed(page), Annotated(page) = {},
           NEW from \in Nat \X Nat, NEW to \in Nat \X Nat, AtMost(from, to),
           LineFaq(page, from, to).found
    PROVE  /\ LineFaq(page, from, to) = Found(InFaqs(page, from, to))
           /\ {page[j].says : j \in {i \in Numbered(page) : page[i].says \in ExpectedKeys(from, to)}}
                = ExpectedKeys(from, to)
<1> DEFINE Starts == {i \in Positions(page) : page[i].says = from}
           start == First(page, Starts)
           Ends == {i \in start .. Len(page) :
                       \/ IsFaq(page[i]) /\ ~AtMost(page[i].says, to)
                       \/ IsSection(page[i]) /\ page[i].says[1] # from[1]}
           end == First(page, Ends)
           near == {j \in start .. end - 1 : IsFaq(page[j]) /\ InRange(page[j].says, from, to)}
           range == {i \in Numbered(page) : page[i].says \in ExpectedKeys(from, to)}
<1>1. /\ {page[i].says : i \in near} = ExpectedKeys(from, to) /\ from[1] = to[1]
      /\ start <= Len(page) /\ LineFaq(page, from, to) = Found(start .. end - 1)
  BY DEF LineFaq, Miss, Found, Contiguous
<1>2. /\ start \in Starts
      /\ start \in Positions(page) /\ start \in Nat \ {0} /\ start <= Len(page) /\ Len(page) \in Nat
      /\ page[start].says = from
  <2>1. start \in Starts
    BY <1>1, FirstIsLeast DEF Positions
  <2> QED BY <2>1, BlockTypes
<1>3. from \in Seq(Nat) /\ Len(from) = 2 /\ from[1] \in Nat /\ from[2] \in Nat /\ to[2] \in Nat
  <2>1. from = <<from[1], from[2]>> /\ from[1] \in Nat /\ from[2] \in Nat /\ to[2] \in Nat
    OBVIOUS
  <2>2. \A m, n \in Nat : <<m, n>> \in Seq(Nat) /\ Len(<<m, n>>) = 2
    OBVIOUS
  <2> QED BY <2>1, <2>2
<1>4. start \in Numbered(page) /\ IsFaq(page[start])
  BY <1>2, <1>3, NumberedIsFaqOrSection DEF IsFaq
<1> HIDE DEF start
<1>5. Ends \in SUBSET (1 .. Len(page))
  BY <1>2
<1>6. /\ end \in 1 .. Len(page) + 1 /\ \A i \in Ends : end <= i
      /\ end <= Len(page) => end \in Ends
  <2> HIDE DEF Ends
  <2> QED BY <1>5, FirstIsLeast
<1> HIDE DEF end
<1>7. near \subseteq Positions(page)
  BY <1>2, <1>6 DEF Positions
<1>8. {page[j].says : j \in range} = ExpectedKeys(from, to)
  <2>1. \A i \in near : i \in Numbered(page)
    BY <1>7, NumberedIsFaqOrSection
  <2> HIDE DEF near
  <2> QED BY <1>1, <2>1
<1>9. \A j \in Positions(page) : page[j].tag \notin Whole
  <2>1. ASSUME NEW j \in Positions(page), page[j].tag \in Whole PROVE FALSE
    <3>1. j \in Annotated(page)
      BY <2>1, BlockTypes DEF Annotated
    <3> QED BY <3>1
  <2> QED BY <2>1
<1> USE DEF IsSection, IsFaq
<1>10. ASSUME NEW i \in start .. end - 1 PROVE i \in InFaqs(page, from, to)
  <2>1. i \in Nat /\ start <= i /\ i < end /\ i \in Positions(page)
    BY <1>2, <1>6 DEF Positions
  <2>2. PICK j \in Greatest(Numbered(page), i) : TRUE
    BY <1>4, <2>1, <1>2, NumberedTypes, GreatestIsOne
  <2>3. j \in Numbered(page) /\ j \in Nat /\ j <= i /\ start <= j /\ j \in Positions(page)
    BY <1>4, <2>1, <2>2, NumberedTypes DEF Greatest
  <2>4. j \notin Ends /\ j \in start .. Len(page)
    BY <1>2, <1>6, <2>1, <2>3
  <2>5. IsFaq(page[j]) => AtMost(page[j].says, to)
    BY <2>4
  <2>6. IsSection(page[j]) => page[j].says[1] = from[1]
    BY <2>4
  <2>7. page[j].says \in Seq(Nat) /\ Len(page[j].says) \in {1, 2}
    BY <2>3, NumberedTypes
  <2>8. page[j].says \in ExpectedKeys(from, to)
    <3>1. CASE j = start
      <4>1. InRange(from, from, to)
        BY <1>3 DEF InRange, AtMost
      <4> QED BY <1>1, <1>2, <1>3, <3>1, <4>1, KeysOfRange
    <3>2. CASE start < j
      <4>1. /\ page[j].says[1] \in Nat /\ from[1] <= page[j].says[1]
            /\ Len(page[j].says) = 2 => page[j].says[2] \in Nat
            /\ from[1] = page[j].says[1] =>
                 Len(page[j].says) = 2 /\ from[2] < page[j].says[2]
        BY <1>2, <1>3, <1>4, <2>3, <3>2, NumbersAscend
      <4>2. Len(page[j].says) = 2
        BY <2>6, <2>7, <4>1
      <4>3. InRange(page[j].says, from, to)
        BY <1>3, <2>5, <4>1, <4>2 DEF InRange, AtMost
      <4> QED BY <1>1, <2>7, <4>2, <4>3, KeysOfRange
    <3> QED BY <1>2, <2>3, <3>1, <3>2
  <2> QED BY <1>9, <2>1, <2>2, <2>3, <2>8 DEF InFaqs
<1>11. ASSUME NEW i \in InFaqs(page, from, to) PROVE i \in start .. end - 1
  <2>1. PICK j \in Greatest(Numbered(page), i) : page[j].says \in ExpectedKeys(from, to)
    BY DEF InFaqs
  <2>2. i \in Positions(page) /\ i \in Nat /\ i <= Len(page)
    BY BlockTypes DEF InFaqs
  <2>3. j \in Numbered(page) /\ j \in Nat /\ j <= i
    BY <2>1, NumberedTypes DEF Greatest
  <2>4. /\ page[j].says \in Seq(Nat) /\ Len(page[j].says) = 2 /\ page[j].says[1] = from[1]
        /\ page[j].says[2] \in Nat /\ from[2] <= page[j].says[2] /\ page[j].says[2] <= to[2]
    BY <2>1, ExpectedAreFaqs
  <2>5. start <= j
    <3>1. SUFFICES ASSUME j < start PROVE FALSE
      BY <1>2, <2>3
    <3>2. page[j].says[2] < from[2]
      BY <1>2, <1>3, <1>4, <2>3, <2>4, <3>1, NumbersAscend
    <3> QED BY <1>3, <2>4, <3>2
  <2>6. i < end
    <3>1. SUFFICES ASSUME end <= i PROVE FALSE
      BY <1>6, <2>2
    <3>2. end \in Ends /\ end \in Nat
      BY <1>6, <2>2, <3>1
    <3>3. end \in Positions(page) /\ start <= end
      BY <1>2, <1>6, <2>2, <3>1, <3>2 DEF Positions
    <3>4. end \in Numbered(page)
      BY <3>2, <3>3, NumberedIsFaqOrSection DEF Sections
    <3>5. end <= j
      BY <2>1, <3>1, <3>4 DEF Greatest
    <3>6. page[end].says \in Seq(Nat) /\ Len(page[end].says) \in {1, 2}
      BY <3>4, NumberedTypes
    <3>7. \/ Len(page[end].says) = 2 /\ ~AtMost(page[end].says, to)
          \/ Len(page[end].says) = 1 /\ page[end].says[1] # from[1]
      BY <3>2
    <3>8. CASE end = j
      BY <1>1, <1>3, <2>4, <3>7, <3>8 DEF AtMost
    <3>9. CASE end < j
      <4>1. /\ page[end].says[1] \in Nat /\ page[end].says[1] <= from[1]
            /\ Len(page[end].says) = 2 => page[end].says[2] \in Nat
            /\ page[end].says[1] = from[1] =>
                 (Len(page[end].says) = 2 => page[end].says[2] < page[j].says[2])
        BY <2>3, <2>4, <3>4, <3>9, NumbersAscend
      <4>2. CASE Len(page[end].says) = 2
        <5>1. ~(page[end].says[1] < from[1])
          BY <1>1, <3>7, <4>2 DEF AtMost
        <5>2. page[end].says[1] = from[1]
          BY <1>3, <4>1, <5>1
        <5>3. ~(page[end].says[2] <= to[2])
          BY <1>1, <3>7, <4>2, <5>2 DEF AtMost
        <5>4. page[end].says[2] \in Nat /\ page[end].says[2] < page[j].says[2]
          BY <4>1, <4>2, <5>2
        <5>5. \A a, b, c \in Nat : a < b /\ b <= c => a <= c
          OBVIOUS
        <5> QED BY <1>3, <2>4, <5>3, <5>4, <5>5
      <4>3. CASE Len(page[end].says) = 1
        <5>1. page[end].says[1] < from[1] /\ start < end
          BY <1>2, <1>3, <3>2, <3>3, <3>7, <4>1, <4>3
        <5>2. from[1] <= page[end].says[1]
          BY <1>2, <1>4, <3>4, <5>1, NumbersAscend
        <5> QED BY <1>3, <4>1, <5>1, <5>2
      <4> QED BY <3>6, <4>2, <4>3
    <3> QED BY <2>3, <3>2, <3>5, <3>8, <3>9
  <2> QED BY <1>2, <1>6, <2>2, <2>3, <2>5, <2>6
<1>12. InFaqs(page, from, to) = start .. end - 1
  BY <1>10, <1>11
<1> QED BY <1>1, <1>8, <1>12

-----------------------------------------------------------------------------

SelectorSpace == [kind : {"page"}] \cup [kind : {"section"}, num : Nat]
                 \cup [kind : {"faq"}, from : Nat \X Nat, to : Nat \X Nat]

LEMMA FaqIsExact ==
    ASSUME NEW page \in Seq(Block), WellFormed(page),
           NEW from \in Nat \X Nat, NEW to \in Nat \X Nat, ExtractFaq(page, from, to).found
    PROVE  /\ ExtractFaq(page, from, to) = Found(InFaqs(page, from, to))
           /\ {page[j].says : j \in {i \in Numbered(page) : page[i].says \in ExpectedKeys(from, to)}}
                = ExpectedKeys(from, to)
<1>1. AtMost(from, to)
  BY DEF ExtractFaq, Miss
<1>2. CASE DomFaq(page, from, to).found
  <2>1. ExtractFaq(page, from, to) = DomFaq(page, from, to)
    BY <1>1, <1>2 DEF ExtractFaq
  <2> QED BY <1>2, <2>1, DomFaqIsExact, WantedIsExact
<1>3. CASE ~DomFaq(page, from, to).found
  <2>1. ExtractFaq(page, from, to) = LineFaq(page, from, to)
    BY <1>1, <1>3 DEF ExtractFaq
  <2>2. LineFaq(page, from, to).found
    BY <2>1
  <2>3. Annotated(page) = {}
    BY <1>1, <1>3, <2>2, LinesWithoutAnnotations
  <2> QED BY <1>1, <2>1, <2>2, <2>3, LineFaqIsExact
<1> QED BY <1>2, <1>3

\* On a well-formed page the unit extracted is the unit a reader would cut out
LEMMA ExtractIsExact ==
    ASSUME NEW page \in Seq(Block), WellFormed(page), NEW selector \in SelectorSpace,
           Extract(page, selector).found
    PROVE  Extract(page, selector) = Unit(page, selector)
<1>1. page # <<>>
  BY DEF Extract, Miss
<1>2. CASE selector.kind = "page"
  BY <1>1, <1>2 DEF Extract, Unit
<1>3. CASE selector.kind = "section"
  <2>1. selector.num \in Nat
    BY <1>3 DEF SelectorSpace
  <2>2. Extract(page, selector) = ExtractSection(page, selector.num)
    BY <1>1, <1>3 DEF Extract
  <2>3. /\ Extract(page, selector) = Found(InSection(page, selector.num))
        /\ InSection(page, selector.num) # {}
    BY <2>1, <2>2, SectionIsExact
  <2>4. Unit(page, selector) = Found(InSection(page, selector.num))
    BY <1>1, <1>3, <2>3 DEF Unit, InSection
  <2> QED BY <2>3, <2>4
<1>4. CASE selector.kind = "faq"
  <2> DEFINE from == selector.from
             to == selector.to
             keys == ExpectedKeys(from, to)
             range == {j \in Numbered(page) : page[j].says \in keys}
             belonging == {i \in Positions(page) : \E j \in Greatest(Numbered(page), i) :
                               j \in range /\ (page[j].tag \in Whole => i = j)}
  <2>1. from \in Nat \X Nat /\ to \in Nat \X Nat
    BY <1>4 DEF SelectorSpace
  <2>2. Extract(page, selector) = ExtractFaq(page, from, to)
    BY <1>1, <1>4 DEF Extract
  <2>3. /\ Extract(page, selector) = Found(InFaqs(page, from, to))
        /\ {page[j].says : j \in range} = keys
    BY <2>1, <2>2, FaqIsExact
  <2>4. belonging = InFaqs(page, from, to)
    BY DEF InFaqs, Greatest
  <2>5. Unit(page, selector) = IF {page[j].says : j \in range} = keys THEN Found(belonging) ELSE Miss
    BY <1>1, <1>4 DEF Unit
  <2> HIDE DEF belonging, range, keys
  <2> QED BY <2>3, <2>4, <2>5
<1>5. selector.kind \in {"page", "section", "faq"}
  BY DEF SelectorSpace
<1> QED BY <1>2, <1>3, <1>4, <1>5

\* A sequence of sequences is flattened by appending one after the other
LEMMA FlattenIsIterated ==
    ASSUME NEW S, NEW seqs \in Seq(Seq(S)), Len(seqs) # 0
    PROVE  \E f \in [1 .. Len(seqs) -> Seq(S)] :
               /\ f[1] = seqs[1]
               /\ \A i \in 2 .. Len(seqs) : f[i] = f[i - 1] \o seqs[i]
               /\ FlattenSeq(seqs) = f[Len(seqs)]
<1> DEFINE L == Len(seqs)
           Step(g, n) == \A i \in 1 .. n : g[i] = IF i = 1 THEN seqs[i] ELSE g[i - 1] \o seqs[i]
           Bad == {n \in 1 .. L : ~ \E g \in [1 .. n -> Seq(S)] : Step(g, n)}
           F(g) == [i \in 1 .. Len(seqs) |-> IF i = 1 THEN seqs[i] ELSE g[i - 1] \o seqs[i]]
           c == CHOOSE g : g = F(g)
<1>1. L \in Nat \ {0} /\ \A i \in 1 .. L : seqs[i] \in Seq(S)
  <2>1. L \in Nat
    OBVIOUS
  <2> QED BY <2>1, ElementOfSeq
<1> HIDE DEF L
<1>2. Bad = {}
  <2> SUFFICES ASSUME Bad # {} PROVE FALSE
    OBVIOUS
  <2>1. PICK n \in Bad : \A m \in Bad : n <= m
    <3>1. Bad \in SUBSET Nat
      BY <1>1
    <3> HIDE DEF Bad
    <3> QED BY <3>1, LeastNatural
  <2>2. n \in Nat /\ n \in 1 .. L
    BY <1>1
  <2>3. CASE n = 1
    <3> DEFINE h == [i \in 1 .. n |-> seqs[1]]
    <3>1. h \in [1 .. n -> Seq(S)]
      BY <1>1
    <3>2. \A i \in 1 .. n : i = 1
      BY <2>3
    <3>3. Step(h, n)
      BY <3>2
    <3> QED BY <3>1, <3>3
  <2>4. CASE n # 1
    <3>1. n - 1 \in 1 .. L /\ n - 1 \notin Bad
      <4>1. n - 1 \in 1 .. L /\ ~(n <= n - 1)
        BY <1>1, <2>2, <2>4
      <4> HIDE DEF Bad
      <4> QED BY <2>1, <4>1
    <3>2. PICK g \in [1 .. n - 1 -> Seq(S)] : Step(g, n - 1)
      BY <3>1
    <3> DEFINE last == g[n - 1] \o seqs[n]
               h == [i \in 1 .. n |-> IF i = n THEN last ELSE g[i]]
    <3>3. last \in Seq(S)
      <4>1. g[n - 1] \in Seq(S)
        BY <2>2, <2>4
      <4>2. seqs[n] \in Seq(S)
        BY <1>1, <2>2
      <4> QED BY <4>1, <4>2, ConcatProperties
    <3>4. h \in [1 .. n -> Seq(S)]
      <4> HIDE DEF last
      <4>1. \A i \in 1 .. n : i # n => i \in 1 .. n - 1
        BY <2>2
      <4> QED BY <3>3, <4>1
    <3>5. ASSUME NEW i \in 1 .. n PROVE h[i] = IF i = 1 THEN seqs[i] ELSE h[i - 1] \o seqs[i]
      <4>1. i \in Nat /\ (i # 1 => i - 1 \in 1 .. n /\ i - 1 # n)
        BY <2>2
      <4>2. CASE i = n
        BY <2>4, <4>1, <4>2
      <4>3. CASE i # n
        <5>1. i \in 1 .. n - 1
          BY <2>2, <4>3
        <5>2. g[i] = IF i = 1 THEN seqs[i] ELSE g[i - 1] \o seqs[i]
          BY <3>2, <5>1
        <5> HIDE DEF last
        <5>3. h[i] = g[i] /\ (i # 1 => h[i - 1] = g[i - 1])
          BY <4>1, <4>3
        <5> QED BY <5>2, <5>3
      <4> QED BY <4>2, <4>3
    <3> HIDE DEF h
    <3>6. Step(h, n)
      BY <3>5
    <3> QED BY <3>4, <3>6
  <2> QED BY <2>3, <2>4
<1>3. PICK f \in [1 .. L -> Seq(S)] : Step(f, L)
  <2>1. L \in 1 .. L
    BY <1>1
  <2>2. L \notin Bad
    BY <1>2
  <2> QED BY <2>1, <2>2
<1>4. f = F(f)
  BY <1>3 DEF L
<1>5. c = F(c)
  <2> HIDE DEF F
  <2> QED BY <1>4
<1>6. FlattenSeq(seqs) = c[L]
  BY DEF FlattenSeq, L
<1> HIDE DEF c
<1>7. \A i \in 1 .. L : c[i] = IF i = 1 THEN seqs[i] ELSE c[i - 1] \o seqs[i]
  BY <1>5 DEF L
<1>8. c = [i \in 1 .. L |-> c[i]]
  <2> DEFINE e(i) == IF i = 1 THEN seqs[i] ELSE c[i - 1] \o seqs[i]
  <2>1. c = [i \in 1 .. L |-> e(i)]
    BY <1>5 DEF L
  <2> HIDE DEF e
  <2> QED BY <2>1
<1>9. \A i \in 1 .. L : c[i] \in Seq(S)
  <2> DEFINE Odd == {i \in 1 .. L : c[i] \notin Seq(S)}
  <2> SUFFICES ASSUME Odd # {} PROVE FALSE
    OBVIOUS
  <2>1. PICK n \in Odd : \A m \in Odd : n <= m
    <3>1. Odd \in SUBSET Nat
      BY <1>1
    <3> HIDE DEF Odd
    <3> QED BY <3>1, LeastNatural
  <2>2. n \in 1 .. L /\ n \in Nat /\ seqs[n] \in Seq(S)
    BY <1>1
  <2>3. CASE n = 1
    BY <1>7, <2>2, <2>3
  <2>4. CASE n # 1
    <3>1. n - 1 \in 1 .. L /\ n - 1 \notin Odd
      <4>1. n - 1 \in 1 .. L /\ ~(n <= n - 1)
        BY <1>1, <2>2, <2>4
      <4> HIDE DEF Odd
      <4> QED BY <2>1, <4>1
    <3>2. c[n - 1] \in Seq(S)
      BY <3>1
    <3>3. c[n - 1] \o seqs[n] \in Seq(S)
      BY <2>2, <3>2, ConcatProperties
    <3> QED BY <1>7, <2>2, <2>4, <3>3
  <2> QED BY <2>3, <2>4
<1>10. c \in [1 .. L -> Seq(S)]
  BY <1>8, <1>9
<1>11. c[1] = seqs[1]
  BY <1>1, <1>7
<1>12. ASSUME NEW i \in 2 .. L PROVE c[i] = c[i - 1] \o seqs[i]
  <2>1. i \in 1 .. L /\ i # 1
    BY <1>1
  <2> QED BY <1>7, <2>1
<1> QED BY <1>6, <1>10, <1>11, <1>12 DEF L

-----------------------------------------------------------------------------
(* The pages of materialize_helps_faq *)

HelpsHead(s) == [tag |-> "h2", faq |-> <<>>, says |-> <<s>>, box |-> s]
HelpsFaq(s, f) == [tag |-> "article", faq |-> <<s, f>>, says |-> <<s, f>>, box |-> s]
HelpsGroup(s, count) == <<HelpsHead(s)>> \o [f \in 1 .. count |-> HelpsFaq(s, f)]

LEMMA HelpsBlocks ==
    ASSUME NEW s \in Nat, NEW f \in Nat
    PROVE  HelpsHead(s) \in Block /\ HelpsFaq(s, f) \in Block
<1>1. <<s>> \in Seq(Nat) /\ Len(<<s>>) = 1 /\ <<s, f>> \in Seq(Nat) /\ Len(<<s, f>>) = 2
      /\ <<s, f>> # <<>>
  OBVIOUS
<1>2. <<>> \in Seq(Nat) /\ Len(<<>>) = 0
  OBVIOUS
<1>3. <<s>> \in {k \in Seq(Nat) : Len(k) <= 2} /\ <<s, f>> \in {k \in Seq(Nat) : Len(k) <= 2}
  BY <1>1
<1>4. <<>> \in {k \in Seq(Nat) : Len(k) \in {0, 2}} /\ <<s, f>> \in {k \in Seq(Nat) : Len(k) \in {0, 2}}
  BY <1>1, <1>2
<1> QED BY <1>1, <1>3, <1>4 DEF HelpsHead, HelpsFaq, Block, Tags, Whole

LEMMA HelpsGroupShape ==
    ASSUME NEW s \in Nat, NEW count \in Nat
    PROVE  LET g == HelpsGroup(s, count)
           IN  /\ g \in Seq(Block) /\ Len(g) = count + 1
               /\ g[1] = HelpsHead(s)
               /\ \A i \in 2 .. count + 1 : g[i] = HelpsFaq(s, i - 1)
<1> DEFINE head == <<HelpsHead(s)>>
           faqs == [f \in 1 .. count |-> HelpsFaq(s, f)]
<1>1. head \in Seq(Block) /\ Len(head) = 1 /\ head[1] = HelpsHead(s)
  BY HelpsBlocks
<1>2. faqs \in Seq(Block) /\ Len(faqs) = count
  <2>1. \A f \in 1 .. count : HelpsFaq(s, f) \in Block
    BY HelpsBlocks
  <2> QED BY <2>1, IsASeq
<1>3. \A f \in 1 .. count : faqs[f] = HelpsFaq(s, f)
  OBVIOUS
<1> HIDE DEF head, faqs
<1>4. /\ head \o faqs \in Seq(Block) /\ Len(head \o faqs) = count + 1
      /\ \A i \in 1 .. Len(head) + Len(faqs) :
            (head \o faqs)[i] = IF i <= Len(head) THEN head[i] ELSE faqs[i - Len(head)]
  <2>1. head \o faqs \in Seq(Block) /\ Len(head \o faqs) = Len(head) + Len(faqs)
    BY <1>1, <1>2, ConcatProperties
  <2>2. \A i \in 1 .. Len(head) + Len(faqs) :
            (head \o faqs)[i] = IF i <= Len(head) THEN head[i] ELSE faqs[i - Len(head)]
    BY <1>1, <1>2, ConcatProperties
  <2>3. Len(head \o faqs) = count + 1
    BY <1>1, <1>2, <2>1
  <2> QED BY <2>1, <2>2, <2>3
<1>5. (head \o faqs)[1] = HelpsHead(s)
  <2>1. 1 \in 1 .. Len(head) + Len(faqs)
    BY <1>1, <1>2
  <2> QED BY <1>1, <1>4, <2>1
<1>6. ASSUME NEW i \in 2 .. count + 1 PROVE (head \o faqs)[i] = HelpsFaq(s, i - 1)
  <2>1. i \in 1 .. Len(head) + Len(faqs) /\ ~(i <= Len(head)) /\ i - 1 \in 1 .. count
    BY <1>1, <1>2
  <2> QED BY <1>1, <1>3, <1>4, <2>1
<1> QED BY <1>4, <1>5, <1>6 DEF HelpsGroup, head, faqs

\* What the blocks of the first n sections are like
HelpsPrefix(p, n) ==
    /\ p \in Seq(Block)
    /\ \A i \in 1 .. Len(p) :
          /\ p[i].box \in 1 .. n
          /\ \/ p[i] = HelpsHead(p[i].box)
             \/ \E f \in Nat : p[i] = HelpsFaq(p[i].box, f)
          /\ \E j \in 1 .. i : p[j] = HelpsHead(p[i].box)
    /\ \A i, j \in 1 .. Len(p) : i < j => Before(p[i].says, p[j].says)

LEMMA HelpsGroupIsPrefix ==
    ASSUME NEW s \in Nat \ {0}, NEW count \in Nat
    PROVE  LET g == HelpsGroup(s, count)
           IN  /\ HelpsPrefix(g, s)
               /\ \A i \in 1 .. Len(g) : g[i].box = s /\ g[i].says[1] = s
<1> DEFINE g == HelpsGroup(s, count)
<1>1. /\ g \in Seq(Block) /\ Len(g) = count + 1 /\ g[1] = HelpsHead(s)
      /\ \A i \in 2 .. count + 1 : g[i] = HelpsFaq(s, i - 1)
  BY HelpsGroupShape
<1> HIDE DEF g
<1>2. ASSUME NEW i \in 1 .. Len(g)
      PROVE  i = 1 \/ (i \in Nat /\ i # 1 /\ i - 1 \in Nat /\ g[i] = HelpsFaq(s, i - 1))
  BY <1>1
<1>3. ASSUME NEW i \in 1 .. Len(g)
      PROVE  /\ g[i].box = s /\ g[i].says[1] = s
             /\ Len(g[i].says) = IF i = 1 THEN 1 ELSE 2
             /\ i # 1 => g[i].says[2] = i - 1
             /\ g[i] = HelpsHead(s) \/ \E f \in Nat : g[i] = HelpsFaq(s, f)
  <2>1. CASE i = 1
    BY <1>1, <2>1 DEF HelpsHead
  <2>2. CASE i # 1
    <3>1. i - 1 \in Nat /\ g[i] = HelpsFaq(s, i - 1)
      BY <1>2, <2>2
    <3>2. g[i].says = <<s, i - 1>> /\ g[i].box = s
      BY <3>1 DEF HelpsFaq
    <3>3. \E f \in Nat : g[i] = HelpsFaq(s, f)
      BY <3>1
    <3> QED BY <2>2, <3>2, <3>3
  <2> QED BY <2>1, <2>2
<1>4. ASSUME NEW i \in 1 .. Len(g), NEW j \in 1 .. Len(g), i < j
      PROVE  Before(g[i].says, g[j].says)
  <2>1. j # 1 /\ i \in Nat /\ j \in Nat
    BY <1>1, <1>4
  <2>2. i # 1 => i - 1 < j - 1
    BY <1>4, <2>1
  <2> QED BY <1>3, <2>1, <2>2 DEF Before
<1>5. \A i \in 1 .. Len(g) : 1 \in 1 .. i
  BY <1>1
<1>6. s \in 1 .. s
  OBVIOUS
<1> QED BY <1>1, <1>3, <1>4, <1>5, <1>6 DEF HelpsPrefix, g

LEMMA HelpsPrefixGrows ==
    ASSUME NEW n \in Nat \ {0}, NEW p, HelpsPrefix(p, n), NEW count \in Nat
    PROVE  HelpsPrefix(p \o HelpsGroup(n + 1, count), n + 1)
<1> DEFINE g == HelpsGroup(n + 1, count)
           q == p \o g
<1>1. HelpsPrefix(g, n + 1) /\ \A i \in 1 .. Len(g) : g[i].box = n + 1 /\ g[i].says[1] = n + 1
  <2>1. n + 1 \in Nat \ {0}
    OBVIOUS
  <2> QED BY <2>1, HelpsGroupIsPrefix
<1>2. p \in Seq(Block) /\ g \in Seq(Block)
  BY <1>1 DEF HelpsPrefix
<1> HIDE DEF g
<1>3. /\ q \in Seq(Block) /\ Len(q) = Len(p) + Len(g)
      /\ \A i \in 1 .. Len(p) + Len(g) : q[i] = IF i <= Len(p) THEN p[i] ELSE g[i - Len(p)]
  BY <1>2, ConcatProperties
<1>4. Len(p) \in Nat /\ Len(g) \in Nat
  BY <1>2
<1> HIDE DEF q
<1>5. ASSUME NEW i \in 1 .. Len(q)
      PROVE  \/ i \in 1 .. Len(p) /\ q[i] = p[i]
             \/ \E k \in 1 .. Len(g) : i = Len(p) + k /\ q[i] = g[k]
  <2>1. CASE i <= Len(p)
    BY <1>3, <1>4, <2>1
  <2>2. CASE ~(i <= Len(p))
    <3>1. i - Len(p) \in 1 .. Len(g) /\ i = Len(p) + (i - Len(p))
      BY <1>3, <1>4, <2>2
    <3>2. q[i] = g[i - Len(p)]
      BY <1>3, <1>4, <2>2
    <3> QED BY <3>1, <3>2
  <2> QED BY <2>1, <2>2
<1>6. \A j \in 1 .. Len(p) : j \in 1 .. Len(q) /\ q[j] = p[j]
  BY <1>3, <1>4
<1>7. \A k \in 1 .. Len(g) : Len(p) + k \in 1 .. Len(q) /\ q[Len(p) + k] = g[k]
  <2> SUFFICES ASSUME NEW k \in 1 .. Len(g) PROVE Len(p) + k \in 1 .. Len(q) /\ q[Len(p) + k] = g[k]
    OBVIOUS
  <2>1. Len(p) + k \in 1 .. Len(p) + Len(g) /\ ~(Len(p) + k <= Len(p)) /\ (Len(p) + k) - Len(p) = k
    BY <1>4
  <2> QED BY <1>3, <2>1
<1>8. ASSUME NEW i \in 1 .. Len(p)
      PROVE  p[i].box \in 1 .. n /\ p[i].says[1] \in Nat /\ p[i].says[1] < n + 1
  <2>1. p[i].box \in 1 .. n /\ (p[i] = HelpsHead(p[i].box) \/ \E f \in Nat : p[i] = HelpsFaq(p[i].box, f))
    BY DEF HelpsPrefix
  <2>2. \A s, f : HelpsHead(s).says[1] = s /\ HelpsFaq(s, f).says[1] = s
    BY DEF HelpsHead, HelpsFaq
  <2>3. p[i].says[1] = p[i].box
    BY <2>1, <2>2
  <2> QED BY <2>1, <2>3
<1>9. ASSUME NEW i \in 1 .. Len(q)
      PROVE  /\ q[i].box \in 1 .. n + 1
             /\ q[i] = HelpsHead(q[i].box) \/ \E f \in Nat : q[i] = HelpsFaq(q[i].box, f)
             /\ \E j \in 1 .. i : q[j] = HelpsHead(q[i].box)
  <2>1. CASE i \in 1 .. Len(p) /\ q[i] = p[i]
    <3>1. /\ p[i].box \in 1 .. n
          /\ p[i] = HelpsHead(p[i].box) \/ \E f \in Nat : p[i] = HelpsFaq(p[i].box, f)
      BY <2>1 DEF HelpsPrefix
    <3>2. PICK j \in 1 .. i : p[j] = HelpsHead(p[i].box)
      BY <2>1 DEF HelpsPrefix
    <3>3. j \in 1 .. Len(p)
      BY <1>4, <2>1
    <3>4. q[j] = HelpsHead(q[i].box)
      BY <1>6, <2>1, <3>2, <3>3
    <3> QED BY <2>1, <3>1, <3>4
  <2>2. ASSUME NEW k \in 1 .. Len(g), i = Len(p) + k, q[i] = g[k]
        PROVE  /\ q[i].box \in 1 .. n + 1
               /\ q[i] = HelpsHead(q[i].box) \/ \E f \in Nat : q[i] = HelpsFaq(q[i].box, f)
               /\ \E j \in 1 .. i : q[j] = HelpsHead(q[i].box)
    <3>1. /\ g[k].box \in 1 .. n + 1
          /\ g[k] = HelpsHead(g[k].box) \/ \E f \in Nat : g[k] = HelpsFaq(g[k].box, f)
      BY <1>1 DEF HelpsPrefix
    <3>2. PICK j \in 1 .. k : g[j] = HelpsHead(g[k].box)
      BY <1>1 DEF HelpsPrefix
    <3>3. j \in 1 .. Len(g) /\ Len(p) + j \in 1 .. i
      BY <1>4, <2>2
    <3>4. q[Len(p) + j] = HelpsHead(q[i].box)
      BY <1>7, <2>2, <3>2, <3>3
    <3> QED BY <2>2, <3>1, <3>3, <3>4
  <2> QED BY <1>5, <2>1, <2>2
<1>10. ASSUME NEW i \in 1 .. Len(q), NEW j \in 1 .. Len(q), i < j
       PROVE  Before(q[i].says, q[j].says)
  <2>1. CASE j \in 1 .. Len(p)
    <3>1. i \in 1 .. Len(p)
      BY <1>4, <1>10, <2>1
    <3> QED BY <1>6, <1>10, <2>1, <3>1 DEF HelpsPrefix
  <2>2. ASSUME NEW l \in 1 .. Len(g), j = Len(p) + l, q[j] = g[l]
        PROVE  Before(q[i].says, q[j].says)
    <3>1. CASE i \in 1 .. Len(p)
      BY <1>1, <1>6, <1>8, <2>2, <3>1 DEF Before
    <3>2. ASSUME NEW k \in 1 .. Len(g), i = Len(p) + k, q[i] = g[k]
          PROVE  Before(q[i].says, q[j].says)
      <4>1. k < l
        BY <1>4, <1>10, <2>2, <3>2
      <4> QED BY <1>1, <2>2, <3>2, <4>1 DEF HelpsPrefix
    <3> QED BY <1>5, <3>1, <3>2
  <2> QED BY <1>5, <2>1, <2>2
<1> QED BY <1>3, <1>9, <1>10 DEF HelpsPrefix, q, g

LEMMA HelpsPageIsPrefix ==
    ASSUME NEW counts \in Seq(Nat), Len(counts) # 0
    PROVE  HelpsPrefix(HelpsPage(counts), Len(counts))
<1> DEFINE L == Len(counts)
           seqs == [s \in 1 .. L |-> HelpsGroup(s, counts[s])]
<1>1. L \in Nat \ {0} /\ \A s \in 1 .. L : counts[s] \in Nat
  <2>1. L \in Nat
    OBVIOUS
  <2> QED BY <2>1, ElementOfSeq
<1>2. HelpsPage(counts) = FlattenSeq(seqs)
  BY DEF HelpsPage, HelpsGroup, HelpsHead, HelpsFaq
<1> HIDE DEF L
<1>3. \A s \in 1 .. L : HelpsGroup(s, counts[s]) \in Seq(Block)
  <2> SUFFICES ASSUME NEW s \in 1 .. L PROVE HelpsGroup(s, counts[s]) \in Seq(Block)
    OBVIOUS
  <2>1. s \in Nat /\ counts[s] \in Nat
    BY <1>1
  <2> QED BY <2>1, HelpsGroupShape
<1>4. seqs \in Seq(Seq(Block)) /\ Len(seqs) = L
  BY <1>1, <1>3, IsASeq
<1>5. \A s \in 1 .. L : seqs[s] = HelpsGroup(s, counts[s])
  OBVIOUS
<1> HIDE DEF seqs
<1>6. PICK f \in [1 .. L -> Seq(Block)] :
          /\ f[1] = seqs[1]
          /\ \A i \in 2 .. L : f[i] = f[i - 1] \o seqs[i]
          /\ FlattenSeq(seqs) = f[L]
  BY <1>1, <1>4, FlattenIsIterated
<1>7. \A n \in 1 .. L : HelpsPrefix(f[n], n)
  <2> DEFINE Bad == {n \in 1 .. L : ~HelpsPrefix(f[n], n)}
  <2> SUFFICES ASSUME Bad # {} PROVE FALSE
    OBVIOUS
  <2>1. PICK n \in Bad : \A m \in Bad : n <= m
    <3>1. Bad \in SUBSET Nat
      BY <1>1
    <3> HIDE DEF Bad
    <3> QED BY <3>1, LeastNatural
  <2>2. n \in Nat \ {0} /\ n \in 1 .. L /\ counts[n] \in Nat
    BY <1>1
  <2>3. CASE n = 1
    <3>1. f[n] = HelpsGroup(n, counts[n])
      BY <1>5, <1>6, <2>2, <2>3
    <3>2. HelpsPrefix(f[n], n)
      BY <2>2, <3>1, HelpsGroupIsPrefix
    <3> QED BY <3>2
  <2>4. CASE n # 1
    <3>1. n - 1 \in 1 .. L /\ n - 1 \in Nat \ {0} /\ (n - 1) + 1 = n /\ n \in 2 .. L /\ ~(n <= n - 1)
      BY <1>1, <2>2, <2>4
    <3>2. n - 1 \notin Bad
      <4> HIDE DEF Bad
      <4> QED BY <2>1, <3>1
    <3>3. HelpsPrefix(f[n - 1], n - 1)
      BY <3>1, <3>2
    <3>4. f[n] = f[n - 1] \o HelpsGroup(n, counts[n])
      BY <1>5, <1>6, <2>2, <3>1
    <3>5. HelpsPrefix(f[n - 1] \o HelpsGroup((n - 1) + 1, counts[n]), (n - 1) + 1)
      BY <2>2, <3>1, <3>3, HelpsPrefixGrows
    <3>6. HelpsPrefix(f[n], n)
      BY <3>1, <3>4, <3>5
    <3> QED BY <3>6
  <2> QED BY <2>3, <2>4
<1>8. L \in 1 .. L
  BY <1>1
<1> QED BY <1>2, <1>6, <1>7, <1>8 DEF L

LEMMA HelpsPageIsWellFormed ==
    ASSUME NEW counts \in Seq(Nat), Len(counts) # 0
    PROVE  HelpsPage(counts) \in Seq(Block) /\ WellFormed(HelpsPage(counts))
<1> DEFINE page == HelpsPage(counts)
<1>1. HelpsPrefix(page, Len(counts))
  BY HelpsPageIsPrefix
<1> HIDE DEF page
<1>2. page \in Seq(Block)
  BY <1>1 DEF HelpsPrefix
<1>3. ASSUME NEW i \in Positions(page)
      PROVE  /\ page[i].box \in Nat
             /\ page[i].says[1] = page[i].box
             /\ \/ /\ page[i].tag = "h2" /\ page[i].faq = <<>>
                   /\ page[i].says = <<page[i].box>> /\ Len(page[i].says) = 1
                \/ /\ page[i].faq # <<>> /\ page[i].faq = page[i].says
                   /\ Len(page[i].says) = 2
  <2>1. /\ page[i].box \in Nat
        /\ page[i] = HelpsHead(page[i].box) \/ \E f \in Nat : page[i] = HelpsFaq(page[i].box, f)
    BY <1>1 DEF HelpsPrefix, Positions
  <2>2. \A s : /\ HelpsHead(s).tag = "h2" /\ HelpsHead(s).faq = <<>> /\ HelpsHead(s).says = <<s>>
               /\ Len(HelpsHead(s).says) = 1 /\ HelpsHead(s).says[1] = s
    BY DEF HelpsHead
  <2>3. \A s, f : /\ HelpsFaq(s, f).faq # <<>> /\ HelpsFaq(s, f).faq = HelpsFaq(s, f).says
                  /\ Len(HelpsFaq(s, f).says) = 2 /\ HelpsFaq(s, f).says[1] = s
    BY DEF HelpsFaq
  <2>4. CASE page[i] = HelpsHead(page[i].box)
    BY <2>1, <2>2, <2>4
  <2>5. CASE \E f \in Nat : page[i] = HelpsFaq(page[i].box, f)
    BY <2>1, <2>3, <2>5
  <2> QED BY <2>1, <2>4, <2>5
<1>4. \A i, j \in Positions(page) : i < j => Before(page[i].says, page[j].says)
  BY <1>1 DEF HelpsPrefix, Positions
<1>a. ASSUME NEW i \in Positions(page)
      PROVE  /\ IsSection(page[i]) => page[i].tag = "h2"
             /\ page[i].faq # <<>> <=> IsFaq(page[i])
  <2>1. CASE page[i].tag = "h2" /\ page[i].faq = <<>> /\ Len(page[i].says) = 1
    <3>1. ~IsFaq(page[i])
      BY <2>1 DEF IsFaq
    <3> QED BY <2>1, <3>1
  <2>2. CASE page[i].faq # <<>> /\ Len(page[i].says) = 2
    <3>1. IsFaq(page[i]) /\ ~IsSection(page[i])
      BY <2>2 DEF IsFaq, IsSection
    <3> QED BY <2>2, <3>1
  <2> QED BY <1>3, <2>1, <2>2
<1>5. \A i \in Sections(page) : page[i].tag = "h2"
  BY <1>a DEF Sections
<1>6. ASSUME NEW i \in Positions(page) PROVE i \in Numbered(page)
  <2>1. page[i].says # <<>>
    <3>1. Len(<<>>) = 0
      OBVIOUS
    <3>2. Len(page[i].says) # 0
      BY <1>3
    <3> QED BY <3>1, <3>2
  <2> QED BY <2>1 DEF Numbered
<1>7. Annotated(page) = {i \in Numbered(page) : IsFaq(page[i])}
  BY <1>6, <1>a DEF Annotated, Numbered
<1>8. \A i \in Annotated(page) : page[i].faq = page[i].says
  BY <1>3 DEF Annotated
<1>9. ASSUME NEW i \in Positions(page)
      PROVE  \E j \in Greatest(Sections(page), i) : page[j].says = <<page[i].box>>
  <2>1. i \in Nat /\ Len(page) \in Nat /\ i <= Len(page)
    BY <1>2, BlockTypes
  <2>2. PICK j \in 1 .. i : page[j] = HelpsHead(page[i].box)
    BY <1>1 DEF HelpsPrefix, Positions
  <2>3. j \in Positions(page) /\ j \in Nat /\ j <= i
    BY <2>1 DEF Positions
  <2>4. page[j].says = <<page[i].box>> /\ Len(page[j].says) = 1 /\ page[j].says[1] = page[i].box
    BY <2>2 DEF HelpsHead
  <2>5. j \in Sections(page)
    BY <2>3, <2>4 DEF Sections, IsSection
  <2>6. ASSUME NEW k \in Sections(page), k <= i PROVE k <= j
    <3>1. SUFFICES ASSUME ~(k <= j) PROVE FALSE
      OBVIOUS
    <3>2. k \in Positions(page) /\ k \in Nat /\ j < k
      <4>1. k \in Positions(page)
        BY DEF Sections
      <4>2. k \in Nat
        BY <1>2, <4>1, BlockTypes
      <4> QED BY <2>3, <3>1, <4>1, <4>2
    <3>3. Len(page[k].says) = 1
      BY DEF Sections, IsSection
    <3>4. page[j].says[1] < page[k].says[1]
      <4>1. Before(page[j].says, page[k].says)
        BY <1>4, <2>3, <3>2
      <4> QED BY <2>4, <3>3, <4>1 DEF Before
    <3>5. page[k].says[1] \in Nat /\ page[i].says[1] = page[i].box /\ page[i].box \in Nat
      BY <1>3, <3>2
    <3>6. CASE k = i
      BY <2>4, <3>4, <3>5, <3>6
    <3>7. CASE k < i
      <4>1. Before(page[k].says, page[i].says)
        BY <1>4, <3>2, <3>7
      <4>2. page[k].says[1] <= page[i].says[1]
        BY <3>5, <4>1 DEF Before
      <4> QED BY <2>4, <3>4, <3>5, <4>2
    <3> QED BY <2>1, <2>6, <3>2, <3>6, <3>7
  <2>7. j \in Greatest(Sections(page), i)
    BY <2>3, <2>5, <2>6 DEF Greatest
  <2> QED BY <2>4, <2>7
<1>10. WellFormed(page)
  BY <1>4, <1>5, <1>7, <1>8, <1>9 DEF WellFormed, Numbered
<1> QED BY <1>2, <1>10 DEF page

-----------------------------------------------------------------------------
(* The rows of a stage *)

LEMMA RowTypes ==
    ASSUME NEW i \in 1 .. Len(Rows)
    PROVE  Rows[i].url \in Urls /\ Rows[i].selector \in SelectorSpace
<1> DEFINE S == [url : Urls, selector : SelectorSpace]
<1>1. Rows \in Seq(S)
  BY StageConstants DEF SelectorSpace
<1>2. Rows[i] \in S
  BY <1>1, ElementOfSeq
<1> QED BY <1>2

LEMMA PageOfBody ==
    ASSUME NEW body \in Body, MaterializeHtml(body) # <<>>
    PROVE  /\ MaterializeHtml(body) \in Seq(Block)
           /\ body.form = "next" => WellFormed(MaterializeHtml(body))
<1>1. body.counts \in Seq(Nat) /\ body.blocks \in Seq(Block)
  BY DEF Body
<1>2. CASE body.form # "next"
  BY <1>1, <1>2 DEF MaterializeHtml
<1>3. CASE body.form = "next" /\ Len(body.counts) # 0
  BY <1>1, <1>3, HelpsPageIsWellFormed DEF MaterializeHtml
<1>4. CASE body.form = "next" /\ Len(body.counts) = 0
  <2> DEFINE seqs == [s \in 1 .. Len(body.counts) |-> HelpsGroup(s, body.counts[s])]
  <2>1. HelpsPage(body.counts) = FlattenSeq(seqs)
    BY DEF HelpsPage, HelpsGroup, HelpsHead, HelpsFaq
  <2>2. seqs \in Seq({HelpsGroup(s, body.counts[s]) : s \in 1 .. Len(body.counts)})
        /\ Len(seqs) = 0
    BY <1>4, IsASeq
  <2> HIDE DEF seqs
  <2>3. seqs = <<>>
    BY <2>2, EmptySeq
  <2>4. FlattenSeq(seqs) = seqs
    BY <2>2 DEF FlattenSeq
  <2> QED BY <1>4, <2>1, <2>3, <2>4 DEF MaterializeHtml
<1> QED BY <1>2, <1>3, <1>4

Docs == {[unit |-> Extract(page, selector).unit, page |-> page] :
             page \in Seq(Block), selector \in SelectorSpace}

\* A document was cut out of the page of its row
PagesInv ==
    /\ docs \in Seq(Docs)
    /\ at # "extracting" => docs = <<>>
    /\ \A u \in DOMAIN fetched : fetched[u].body \in Body
    /\ at = "extracting" => \A i \in 1 .. Len(Rows) : Rows[i].url \in DOMAIN fetched
    /\ docs # <<>> =>
         LET body == fetched[Rows[Len(docs)].url].body
         IN  /\ Len(docs) \in 1 .. Len(Rows)
             /\ Latest.page = MaterializeHtml(body)
             /\ Extract(Latest.page, Selected).found
             /\ Latest.unit = Extract(Latest.page, Selected).unit

LEMMA PagesStep == PagesInv /\ CallInv /\ [Next]_vars => PagesInv'
<1> SUFFICES ASSUME PagesInv, CallInv, [Next]_vars PROVE PagesInv'
  OBVIOUS
<1> USE StageConstants
<1>a. <<>> \in Seq(Docs)
  OBVIOUS
<1>1. CASE UNCHANGED <<docs, fetched>> /\ (at = "extracting" <=> at' = "extracting")
  BY <1>1 DEF PagesInv, Latest, Selected
<1>2. CASE BeginStage \/ \E u \in Urls : Replay(u)
  BY <1>1, <1>2 DEF BeginStage, Replay
<1>3. CASE FetchNext \/ Fetching \/ ReplayEnds
  BY <1>1, <1>3 DEF FetchNext, Fetching, ReplayEnds, stageVars
<1>4. CASE UNCHANGED vars
  BY <1>1, <1>4 DEF vars, stageVars
<1>5. CASE TakePage
  <2>1. /\ at = "fetching" /\ at' = at /\ docs' = docs /\ phase = "done"
        /\ fetched' = [u \in DOMAIN fetched \cup {url} |-> IF u = url THEN result ELSE fetched[u]]
    BY <1>5 DEF TakePage
  <2>2. result.body \in Body
    BY <2>1 DEF CallInv, Result
  <2>3. docs = <<>>
    BY <2>1 DEF PagesInv
  <2>4. \A u \in DOMAIN fetched' : fetched'[u].body \in Body
    BY <2>1, <2>2 DEF PagesInv
  <2> QED BY <1>a, <2>1, <2>3, <2>4 DEF PagesInv
<1>6. CASE FetchFails \/ StageEnds
  <2>1. docs' = <<>> /\ at' # "extracting" /\ DOMAIN fetched' = {}
    BY <1>6 DEF FetchFails, StageEnds, Forget
  <2> QED BY <1>a, <2>1 DEF PagesInv
<1>7. CASE AllFetched
  <2>1. at = "fetching" /\ docs' = docs /\ fetched' = fetched /\ Pending = {}
    BY <1>7 DEF AllFetched
  <2>2. docs = <<>>
    BY <2>1 DEF PagesInv
  <2>3. \A i \in 1 .. Len(Rows) : Rows[i].url \in DOMAIN fetched
    BY <2>1 DEF Pending
  <2> QED BY <1>a, <2>1, <2>2, <2>3 DEF PagesInv
<1>8. CASE ExtractRow
  <2> DEFINE row == Rows[Len(docs) + 1]
             body == fetched[row.url].body
             page == MaterializeHtml(body)
             cut == Extract(page, row.selector)
  <2>1. at = "extracting" /\ Len(docs) < Len(Rows)
    BY <1>8 DEF ExtractRow
  <2>2. \/ /\ body.form # "broken" /\ cut.found
           /\ docs' = Append(docs, [unit |-> cut.unit, page |-> page])
           /\ UNCHANGED <<at, fetched>>
        \/ at' = "failed" /\ Forget
    BY <1>8 DEF ExtractRow
  <2>3. CASE at' = "failed" /\ Forget
    BY <1>a, <2>3 DEF PagesInv, Forget
  <2>4. CASE /\ cut.found
             /\ docs' = Append(docs, [unit |-> cut.unit, page |-> page])
             /\ UNCHANGED <<at, fetched>>
    <3>1. Len(docs) \in Nat /\ Len(Rows) \in Nat /\ docs \in Seq(Docs)
      BY DEF PagesInv
    <3>2. Len(docs) + 1 \in 1 .. Len(Rows)
      BY <2>1, <3>1
    <3>3. row.url \in Urls /\ row.selector \in SelectorSpace
      BY <3>2, RowTypes
    <3>4. body \in Body
      BY <2>1, <3>2 DEF PagesInv
    <3>5. page # <<>>
      BY <2>4 DEF Extract, Miss
    <3>6. page \in Seq(Block)
      BY <3>4, <3>5, PageOfBody
    <3> DEFINE doc == [unit |-> cut.unit, page |-> page]
    <3>7. doc \in Docs
      BY <3>3, <3>6 DEF Docs
    <3>8. /\ docs' \in Seq(Docs) /\ Len(docs') = Len(docs) + 1 /\ docs'[Len(docs) + 1] = doc
      <4>1. docs' = Append(docs, doc)
        BY <2>4
      <4> HIDE DEF doc
      <4> QED BY <3>1, <3>7, <4>1, AppendProperties
    <3>9. Rows[Len(docs')] = row /\ fetched'[Rows[Len(docs')].url].body = body
      BY <2>4, <3>8
    <3>10. Latest' = doc /\ Selected' = row.selector
      BY <3>8, <3>9 DEF Latest, Selected, Last
    <3>11. Latest'.page = page /\ Latest'.unit = cut.unit
      BY <3>10
    <3> HIDE DEF doc, cut, page, body, row
    <3>12. Extract(Latest'.page, Selected') = cut
      BY <3>10, <3>11 DEF cut
    <3>13. Len(docs') \in 1 .. Len(Rows)
      BY <3>2, <3>8
    <3> QED BY <2>1, <2>4, <3>8, <3>9, <3>11, <3>12, <3>13 DEF PagesInv, page
  <2> QED BY <2>2, <2>3, <2>4
<1> QED BY <1>2, <1>3, <1>4, <1>5, <1>6, <1>7, <1>8 DEF Next

LEMMA PagesInvHolds == Spec => []PagesInv
<1>1. Init => PagesInv
  <2> SUFFICES ASSUME Init PROVE PagesInv
    OBVIOUS
  <2>1. <<>> \in Seq(Docs)
    OBVIOUS
  <2> QED BY <2>1 DEF Init, PagesInv
<1>2. FetchInv => CallInv
  BY DEF FetchInv
<1> QED BY <1>1, <1>2, PagesStep, FetchInvHolds, PTL DEF Spec

\* The page, the selector and the unit of the row extracted last
LEMMA LatestTypes ==
    ASSUME PagesInv, docs # <<>>
    PROVE  /\ Latest.page \in Seq(Block) /\ Selected \in SelectorSpace
           /\ Extract(Latest.page, Selected).found
           /\ Latest.unit = Extract(Latest.page, Selected).unit
           /\ fetched[Rows[Len(docs)].url].body.form = "next" => WellFormed(Latest.page)
<1> DEFINE body == fetched[Rows[Len(docs)].url].body
<1>1. /\ Len(docs) \in 1 .. Len(Rows) /\ Latest.page = MaterializeHtml(body)
      /\ Extract(Latest.page, Selected).found
      /\ Latest.unit = Extract(Latest.page, Selected).unit
  BY DEF PagesInv
<1>2. body \in Body
  <2>1. at = "extracting"
    BY DEF PagesInv
  <2> QED BY <1>1, <2>1 DEF PagesInv
<1>3. Latest.page # <<>>
  BY <1>1 DEF Extract, Miss
<1>4. Selected \in SelectorSpace
  BY <1>1, RowTypes DEF Selected
<1> QED BY <1>1, <1>2, <1>3, <1>4, PageOfBody

\* Whatever pages the site answers with, a FAQ unit has the FAQs of its range and, cut
\* out at nodes, no other, and cut out by lines none after the range.
THEOREM FaqUnitsAreOwn == Spec => []NoForeignFaq
<1>1. PagesInv => NoForeignFaq
  <2> SUFFICES ASSUME PagesInv, docs # <<>>, Selected.kind = "faq" PROVE NoForeignFaq
    BY DEF NoForeignFaq
  <2> DEFINE page == Latest.page
             from == Selected.from
             to == Selected.to
             range == ExpectedKeys(from, to)
  <2>1. /\ page \in Seq(Block) /\ Extract(page, Selected).found
        /\ Latest.unit = Extract(page, Selected).unit
    BY LatestTypes
  <2>2. Extract(page, Selected) = ExtractFaq(page, from, to)
    BY <2>1 DEF Extract, Miss
  <2>3. AtMost(from, to)
    BY <2>1, <2>2 DEF ExtractFaq, Miss
  <2>4. DomFaq(page, from, to).found => Keys(page, Latest.unit) = range
    BY <2>1, <2>2, <2>3, DomFaqIsOwn DEF ExtractFaq
  <2>5. ~DomFaq(page, from, to).found =>
          /\ range \subseteq Lines(page, Latest.unit)
          /\ \A k \in Lines(page, Latest.unit) : AtMost(k, to)
    <3> SUFFICES ASSUME ~DomFaq(page, from, to).found
                 PROVE  /\ range \subseteq Lines(page, Latest.unit)
                        /\ \A k \in Lines(page, Latest.unit) : AtMost(k, to)
      OBVIOUS
    <3>1. Extract(page, Selected) = LineFaq(page, from, to)
      BY <2>2, <2>3 DEF ExtractFaq
    <3> QED BY <2>1, <3>1, LineFaqIsBounded
  <2> QED BY <2>4, <2>5 DEF NoForeignFaq, Keys, Lines
<1> QED BY <1>1, PagesInvHolds, PTL

\* Whatever pages the site answers with, the unit of a row on a well-formed page is
\* what a reader would cut out, and a payload's page is well-formed.
THEOREM UnitsAreWhatAReaderCutsOut == Spec => []UnitsAreExact
<1>1. PagesInv => UnitsAreExact
  <2> SUFFICES ASSUME PagesInv, docs # <<>> PROVE UnitsAreExact
    BY DEF UnitsAreExact
  <2>1. /\ Latest.page \in Seq(Block) /\ Selected \in SelectorSpace
        /\ Extract(Latest.page, Selected).found
        /\ Latest.unit = Extract(Latest.page, Selected).unit
        /\ fetched[Rows[Len(docs)].url].body.form = "next" => WellFormed(Latest.page)
    BY LatestTypes
  <2>2. \A p, selector : Extract(p, selector).found =>
            Found(Extract(p, selector).unit) = Extract(p, selector)
    <3> DEFINE WellMade(cut) == cut.found => Found(cut.unit) = cut
    <3>1. WellMade(Miss) /\ \A unit : WellMade(Found(unit))
      BY DEF Found, Miss
    <3> HIDE DEF WellMade
    <3>2. \A p, from, to : WellMade(DomFaq(p, from, to)) /\ WellMade(LineFaq(p, from, to))
      BY <3>1 DEF DomFaq, LineFaq
    <3>3. \A p, num, unit : WellMade(WithinSection(p, unit, num)) /\ WellMade(LineSection(p, num))
      BY <3>1 DEF WithinSection, LineSection
    <3>4. \A p, num : WellMade(ExtractSection(p, num))
      BY <3>3 DEF ExtractSection
    <3>5. \A p, from, to : WellMade(ExtractFaq(p, from, to))
      BY <3>1, <3>2 DEF ExtractFaq
    <3>6. \A p, selector : WellMade(Extract(p, selector))
      BY <3>1, <3>4, <3>5 DEF Extract
    <3> QED BY <3>6 DEF WellMade
  <2>3. WellFormed(Latest.page) => Found(Latest.unit) = Unit(Latest.page, Selected)
    BY <2>1, <2>2, ExtractIsExact
  <2> QED BY <2>1, <2>3 DEF UnitsAreExact
<1> QED BY <1>1, PagesInvHolds, PTL

-----------------------------------------------------------------------------
(* Progress *)

InCall == phase \in {"cache", "ask", "saveBody", "saveMeta"}

\* The phases of a call in the order of the code
Rank(p) ==
    CASE p = "idle" -> 0 [] p = "cache" -> 1 [] p = "ask" -> 2 [] p = "saveBody" -> 3
      [] p = "saveMeta" -> 4 [] p = "done" -> 5 [] p = "failed" -> 5

\* A call is in a later phase, or asks in a later attempt, or after one more hop
GoesForward ==
    InCall =>
        \/ Rank(phase') > Rank(phase)
        \/ /\ phase = "ask" /\ phase' = "ask"
           /\ \/ attempt' = attempt + 1
              \/ attempt' = attempt /\ Len(hops') = Len(hops) + 1

LEMMA AskGoesForward ==
    ASSUME CallInv, phase = "ask", NEW to \in Urls, FollowRedirect(to) \/ NextAttempt
    PROVE  GoesForward
<1>0. phase' \in {"ask", "failed"} => Rank(phase') >= 2 /\ (phase' = "failed" => Rank(phase') = 5)
  BY DEF Rank
<1>1. CASE NextAttempt
  BY <1>0, <1>1 DEF NextAttempt, GoesForward, Rank
<1>2. CASE FollowRedirect(to) /\ ~NextAttempt
  <2>1. to \in Allowed /\ hops' = Append(hops, to) /\ UNCHANGED <<phase, attempt>>
    BY <1>2 DEF FollowRedirect, Hop
  <2>2. hops \in Seq(Allowed)
    BY DEF CallInv, FetchTypeOK
  <2>3. Len(hops') = Len(hops) + 1
    BY <2>1, <2>2
  <2> QED BY <2>1, <2>3 DEF GoesForward
<1> QED BY <1>1, <1>2

LEMMA StepGoesForward == ASSUME CallInv, FetchStep(Bodies) PROVE GoesForward
<1>1. CASE LoadRawCache
  BY <1>1 DEF LoadRawCache, GoesForward, Rank
<1>2. ASSUME NEW to \in Urls, Redirected(to) PROVE GoesForward
  BY <1>2, AskGoesForward DEF Redirected
<1>3. CASE TryAgain
  BY <1>3, AskGoesForward DEF TryAgain, CallInv, FetchTypeOK
<1>4. CASE Raises
  BY <1>4 DEF Raises, GoesForward, Rank
<1>5. ASSUME NEW body \in Bodies, Answered(body) PROVE GoesForward
  BY <1>5 DEF Answered, GoesForward, Rank
<1>6. CASE SaveBody
  BY <1>6 DEF SaveBody, GoesForward, Rank
<1>7. CASE SaveMeta
  BY <1>7 DEF SaveMeta, GoesForward, Rank
<1> QED BY <1>1, <1>2, <1>3, <1>4, <1>5, <1>6, <1>7 DEF FetchStep

\* Whatever the site answers, a call of fetch_url goes forward with every step: to a
\* later phase, to the next of at most MaxRetries attempts, or along the hops of the
\* attempt, of which there are at most MaxRedirects.  So it takes a bounded number
\* of steps; nothing but its own steps changes what it has.
THEOREM CallsGoForward == Spec => [][GoesForward]_fetchVars
<1>1. CallInv /\ StageInv /\ [Next]_vars => [GoesForward]_fetchVars
  <2> SUFFICES ASSUME CallInv, StageInv, [Next]_vars, ~UNCHANGED fetchVars
               PROVE  GoesForward
    OBVIOUS
  <2>1. CASE Fetching
    <3>1. FetchStep(Bodies)
      BY <2>1, StageConstants DEF Fetching, FetchStep, StageInv
    <3> QED BY <3>1, StepGoesForward
  <2>2. CASE FetchNext \/ \E u \in Urls : Replay(u)
    BY <2>2 DEF FetchNext, Replay, Call, GoesForward, InCall
  <2>3. CASE TakePage \/ ReplayEnds \/ FetchFails
    BY <2>3 DEF TakePage, ReplayEnds, FetchFails, GoesForward, InCall
  <2> QED
    BY <2>1, <2>2, <2>3 DEF Next, BeginStage, AllFetched, ExtractRow, StageEnds, vars
<1>2. FetchInv => CallInv BY DEF FetchInv
<1> QED BY <1>1, <1>2, FetchInvHolds, StageInvHolds, PTL DEF Spec
==============================================================================
