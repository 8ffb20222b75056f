--------------------------------- MODULE Fetch ---------------------------------
(***************************************************************************)
(* fetch_url (fetch.py): one page over HTTPS, redirects followed by hand,  *)
(* transient failures tried again, and the raw cache of two files per URL. *)
(*                                                                         *)
(*   idle -> [cache ->] ask <-> ask -> saveBody -> saveMeta -> done        *)
(*                                                                         *)
(* with failed for a FetchError and for whatever else escapes.  The site   *)
(* is the environment: each request is answered by any of its answers or   *)
(* by none.  Time is left out: of the delays only that they end, or that a *)
(* Retry-After is no number, matters.                                      *)
(***************************************************************************)
EXTENDS Integers, SequencesExt

CONSTANTS Urls,
          Allowed,      \* those with https and an allowlisted host
          Bodies,       \* HTML bodies within the size limit
          Cuts(_),      \* what a cut-off write may leave of one
          MaxRetries, MaxRedirects,
          Missing, Unreadable

ASSUME FetchConstants ==
    /\ Allowed \subseteq Urls
    /\ MaxRetries \in Nat \ {0}
    /\ MaxRedirects \in Nat
    /\ Missing # Unreadable

\* What a file of the cache may hold
Files == Bodies \cup UNION {Cuts(body) : body \in Bodies}

Chain == [final : Urls, hops : Seq(Urls)]
Result == [final : Urls, hops : Seq(Urls), body : Files, cached : BOOLEAN]

ASSUME CacheConstants == {Missing, Unreadable} \cap (Files \cup Chain \cup Result) = {}

VARIABLES phase, url, attempt,
          hops,     \* of the current attempt
          result,
          html,     \* <sha of the url>.html
          meta,     \* <sha of the url>.meta
          trail,    \* URLs asked in the current attempt, in order
          asked,    \* requests of the call
          served,   \* url -> results that calls for it got from the site
          broken    \* url -> has a save been cut off, and none finished since?

locals == <<phase, url, attempt, hops, result>>
cache  == <<html, meta>>
history == <<trail, asked, served, broken>>
fetchVars == <<locals, cache, history>>

Current == IF hops = <<>> THEN url ELSE Last(hops)

-----------------------------------------------------------------------------

\* fetch_url; prefer is prefer_cache
Call(u, prefer) ==
    /\ phase = "idle"
    /\ url' = u
    /\ phase' = IF u \notin Allowed THEN "failed" ELSE IF prefer THEN "cache" ELSE "ask"
    /\ attempt' = 1
    /\ hops' = <<>>
    /\ result' = Missing
    /\ trail' = <<>>
    /\ asked' = 0
    /\ UNCHANGED <<cache, served, broken>>

Valid(chain) == {chain.final} \cup ToSet(chain.hops) \subseteq Allowed

\* load_raw_cache: without both files the site is asked; what cannot be read, or
\* does not pass validate_fetch_payload, is an error
LoadRawCache ==
    /\ phase = "cache"
    /\ IF html[url] = Missing \/ meta[url] = Missing
       THEN phase' = "ask" /\ UNCHANGED result
       ELSE IF html[url] # Unreadable /\ meta[url] # Unreadable /\ Valid(meta[url])
       THEN /\ phase' = "done"
            /\ result' = [final |-> meta[url].final, hops |-> meta[url].hops,
                          body |-> html[url], cached |-> TRUE]
       ELSE phase' = "failed" /\ UNCHANGED result
    /\ UNCHANGED <<url, attempt, hops, cache, history>>

\* Mutant: the hops of failed attempts are kept
KeepsHops ==
    /\ IF attempt < MaxRetries THEN phase' = phase ELSE phase' = "failed"
    /\ attempt' = attempt + 1
    /\ trail' = <<>>
    /\ UNCHANGED hops

\* The next turn of the loop over the attempts
NextAttempt ==
    /\ IF attempt < MaxRetries THEN phase' = phase ELSE phase' = "failed"
    /\ attempt' = attempt + 1
    /\ hops' = <<>>
    /\ trail' = <<>>

\* A redirect to an allowed URL, or the last one the loop makes
Hop(to) ==
    IF Len(hops) < MaxRedirects
    THEN /\ hops' = Append(hops, to)
         /\ trail' = Append(trail, Current)
         /\ UNCHANGED <<phase, attempt>>
    ELSE NextAttempt

FollowRedirect(to) == IF to \in Allowed THEN Hop(to) ELSE NextAttempt

Redirected(to) ==
    /\ phase = "ask"
    /\ FollowRedirect(to)
    /\ asked' = asked + 1
    /\ UNCHANGED <<url, result, cache, served, broken>>

\* Mutant: an answer that is no good starts the call over
TryAgainForEver ==
    /\ phase = "ask"
    /\ hops' = <<>>
    /\ trail' = <<>>
    /\ attempt' = 1
    /\ asked' = 0
    /\ UNCHANGED <<phase, url, result, cache, served, broken>>

\* No answer, a transient status, a redirect to nowhere, or an answer that does
\* not pass validate_fetch_payload
TryAgain ==
    /\ phase = "ask"
    /\ NextAttempt
    /\ asked' = asked + 1
    /\ UNCHANGED <<url, result, cache, served, broken>>

\* A Retry-After "nan", or a Location that urljoin rejects, raises what no
\* handler of fetch_url catches
Raises ==
    /\ phase = "ask"
    /\ phase' = "failed"
    /\ asked' = asked + 1
    /\ UNCHANGED <<url, attempt, hops, result, cache, trail, served, broken>>

Answered(body) ==
    LET answer == [final |-> Current, hops |-> hops, body |-> body, cached |-> FALSE]
    IN  /\ phase = "ask"
        /\ phase' = "saveBody"
        /\ result' = answer
        /\ trail' = Append(trail, Current)
        /\ asked' = asked + 1
        /\ served' = [served EXCEPT ![url] = @ \cup {answer}]
        /\ UNCHANGED <<url, attempt, hops, cache, broken>>

\* save_raw_cache.  A write is cut off by an OSError or by the end of the process.
SaveBody ==
    /\ phase = "saveBody"
    /\ \/ phase' = "saveMeta" /\ html' = [html EXCEPT ![url] = result.body]
       \/ /\ phase' = "failed"
          /\ \E part \in Cuts(result.body) \cup {html[url], Unreadable} :
                html' = [html EXCEPT ![url] = part]
    /\ broken' = [broken EXCEPT ![url] = TRUE]
    /\ UNCHANGED <<url, attempt, hops, result, meta, trail, asked, served>>

ChainOf(r) == [final |-> r.final, hops |-> r.hops]

\* Mutant: the metadata of the first save stay
KeepMeta ==
    /\ phase = "saveMeta"
    /\ phase' = "done"
    /\ meta' = [meta EXCEPT ![url] = IF @ = Missing THEN ChainOf(result) ELSE @]
    /\ broken' = [broken EXCEPT ![url] = FALSE]
    /\ UNCHANGED <<url, attempt, hops, result, html, trail, asked, served>>

\* The hops are its last lines; a cut before them leaves no status, which is refused.
\* A hop cut short counts as the hops before it.
SaveMeta ==
    /\ phase = "saveMeta"
    /\ \/ /\ phase' = "done"
          /\ meta' = [meta EXCEPT ![url] = ChainOf(result)]
          /\ broken' = [broken EXCEPT ![url] = FALSE]
       \/ /\ phase' = "failed"
          /\ \/ meta' = [meta EXCEPT ![url] = Unreadable]
             \/ \E n \in 0 .. Len(result.hops) :
                  meta' = [meta EXCEPT ![url] =
                              [final |-> result.final, hops |-> SubSeq(result.hops, 1, n)]]
          /\ UNCHANGED broken
    /\ UNCHANGED <<url, attempt, hops, result, html, trail, asked, served>>

\* The call is over and its locals are gone
Return ==
    /\ phase' = "idle"
    /\ attempt' = 1
    /\ hops' = <<>>
    /\ result' = Missing
    /\ trail' = <<>>
    /\ asked' = 0
    /\ UNCHANGED <<url, cache, served, broken>>

FetchInit ==
    /\ phase = "idle"
    /\ url \in Allowed
    /\ attempt = 1
    /\ hops = <<>>
    /\ result = Missing
    /\ html = [u \in Urls |-> Missing]
    /\ meta = [u \in Urls |-> Missing]
    /\ trail = <<>>
    /\ asked = 0
    /\ served = [u \in Urls |-> {}]
    /\ broken = [u \in Urls |-> FALSE]

\* A call under way; bodies: those the site may answer with
FetchStep(bodies) ==
    \/ LoadRawCache
    \/ \E to \in Urls : Redirected(to)
    \/ TryAgain
    \/ Raises
    \/ \E body \in bodies : Answered(body)
    \/ SaveBody
    \/ SaveMeta

-----------------------------------------------------------------------------
(* Properties *)

Phases == {"idle", "cache", "ask", "saveBody", "saveMeta", "done", "failed"}

\* Types of the call's locals and of the cache files.
FetchTypeOK ==
    /\ phase \in Phases
    /\ url \in Urls
    /\ attempt \in 1 .. MaxRetries + 1
    /\ hops \in Seq(Allowed)
    /\ Len(hops) <= MaxRedirects
    /\ result \in Result \cup {Missing}
    /\ html \in [Urls -> Files \cup {Missing, Unreadable}]
    /\ meta \in [Urls -> Chain \cup {Missing, Unreadable}]

Fresh == phase \in {"saveBody", "saveMeta"} \/ (phase = "done" /\ ~result.cached)

\* fetch_url asks allowlisted HTTPS URLs only, wherever the redirects lead, and no
\* more often than its two limits say; what it returns names the hops that led to
\* the answer in the attempt that succeeded, none of an attempt that failed.
FetchIsFaithful ==
    /\ phase = "ask" => Current \in Allowed
    /\ asked <= MaxRetries * (MaxRedirects + 1)
    /\ Fresh => /\ trail = <<url>> \o result.hops
                /\ result.final = Last(trail)
                /\ ToSet(trail) \subseteq Allowed

\* The result as it was before it went through the cache
FromSite(r) == [final |-> r.final, hops |-> r.hops, body |-> r.body, cached |-> FALSE]

Pages(r) == {r.body} \cup Cuts(r.body)

\* What prefer_cache returns for a URL is what one call got from the site for that
\* URL: the body of one answer with the redirects of the same answer, as long as
\* no save of it was cut off after the last whole one.  Even then body and
\* redirects are, each by itself, those of an answer, or the beginning of them.
CacheHitIsGenuine ==
    phase = "done" /\ result.cached =>
        /\ ~broken[url] => FromSite(result) \in served[url]
        /\ \E r \in served[url] : result.body \in Pages(r)
        /\ \E r \in served[url] : result.final = r.final /\ IsPrefix(result.hops, r.hops)
===============================================================================
