------------------------------ MODULE Listing ------------------------------
(***************************************************************************)
(* The three paged listings of pkg/horizon, ListPools, PoolHolders and     *)
(* PoolTrades, over getJSON: a call for each page, with its retries, until *)
(* an empty page, an absent next link or the cap.  One walk over a listing *)
(* that stays as it is (World has the one that moves).                     *)
(*                                                                         *)
(* The links are Horizon's: they may name any host, and may lead back to   *)
(* records already served, which no listing notices.  A walk with a cap is *)
(* led back as often as Horizon likes, one without at most MaxBacks times. *)
(***************************************************************************)
EXTENDS GetJSON, FiniteSets

CONSTANTS Kinds,     \* the listings in use, of "pools", "holders" and "trades"
          Listings,  \* for each record of a listing, whether it can be converted
          Caps,      \* values of maxPages
          PageSize,
          MaxBacks,  \* how often links lead back in a walk without a cap
          Hosts, baseURL,   \* hosts, and the configured one
          NoLink, BadLink,  \* an absent next link, and one that does not parse
          BadURL            \* a URL that no request can be built from

ASSUME KindsAreListings == Kinds \subseteq {"pools", "holders", "trades"}
ASSUME ListingsAreSequences == Listings \subseteq Seq(BOOLEAN)
ASSUME CapsAreInts == Caps \subseteq Int
ASSUME BacksAreNat == MaxBacks \in Nat
ASSUME PageSizeIsPositive == PageSize \in Nat \ {0}
ASSUME LinksAreApart ==
  /\ baseURL \in Hosts /\ {NoLink, BadLink, BadURL} \cap Hosts = {}
  /\ NoLink # BadLink /\ NoLink # BadURL /\ BadLink # BadURL

\* A link is rooted when its path begins with a slash.  host is the one it names;
\* of a link that is not rooted, the one that the configured URL and its path
\* name when they are written one after the other, or BadURL when they are no URL.
Links == {NoLink, BadLink} \cup [rooted : {TRUE}, host : Hosts]
                           \cup [rooted : {FALSE}, host : Hosts \cup {BadURL}]

VARIABLES kind, listing, maxPages,
          walk,     \* "loop" between two calls, "calling", then "ok" or "error"
          next,     \* the host the next URL names, or NoLink, BadLink or BadURL
          offset,   \* the record before the next page: the cursor in the link
          got,      \* records handed over
          twice,    \* history: one of them was handed over more than once
          backs,    \* history: links that led back
          pages,
          total,    \* requests of the calls that have returned
          dialled,  \* history: the hosts asked
          strays,   \* history: hosts that Horizon sent the walk to, by a redirect
                    \* or by a link that is not rooted
          sent      \* history: requests that left on a live context

walkVars == <<kind, listing, maxPages, walk, next, offset, got, twice, backs, pages,
              total, dialled, strays>>
listingVars == <<vars, walkVars, sent>>

WalkTypeOK ==
  /\ kind \in Kinds /\ listing \in Listings /\ maxPages \in Caps
  /\ walk \in {"loop", "calling", "ok", "error"}
  /\ next \in Hosts \cup {NoLink, BadLink, BadURL}
  /\ offset \in 0..Len(listing)
  /\ got \subseteq 1..Len(listing) /\ twice \in BOOLEAN
  /\ backs \in Nat /\ pages \in Nat /\ total \in Nat /\ sent \in Nat
  /\ dialled \subseteq Hosts /\ strays \subseteq Hosts

WalkInit ==
  /\ kind \in Kinds /\ listing \in Listings
  /\ maxPages \in Caps /\ (kind = "holders" => maxPages = 0)
  /\ walk = "loop" /\ next \in {baseURL, BadURL}
  /\ offset = 0 /\ got = {} /\ twice = FALSE /\ backs = 0 /\ pages = 0 /\ total = 0
  /\ dialled = {} /\ strays = {} /\ sent = 0
  /\ setting \in Settings /\ cancelled = FALSE
  /\ lateStart = FALSE /\ builds = TRUE /\ pc = "done" /\ live = FALSE
  /\ attempt = 0 /\ requests = 0 /\ answers = <<>> /\ result = "none"

-----------------------------------------------------------------------------
Capped == maxPages > 0 /\ pages >= maxPages

\* The next page is asked for: getJSON begins.
Call ==
  /\ walk = "loop" /\ next \in Hosts \cup {BadURL} /\ ~Capped
  /\ walk' = "calling"
  /\ dialled' = dialled \cup ({next} \cap Hosts)
  /\ builds' = (next \in Hosts)
  /\ pc' = "send" /\ lateStart' = cancelled /\ live' = FALSE
  /\ attempt' = 0 /\ requests' = 0 /\ answers' = <<>> /\ result' = "none"
  /\ UNCHANGED <<setting, cancelled, kind, listing, maxPages, next, offset, got,
                 twice, backs, pages, total, strays, sent>>

InCall ==
  /\ walk = "calling"
  /\ Step
  /\ sent' = IF pc' = "flight" /\ live' THEN sent + 1 ELSE sent
  /\ UNCHANGED walkVars

\* The HTTP client follows redirects within one request, to any host and without
\* counting them.
Redirect(host) ==
  /\ walk = "calling" /\ pc = "flight" /\ live
  /\ host \notin strays \cup {baseURL}
  /\ strays' = strays \cup {host}
  /\ dialled' = dialled \cup {host}
  /\ UNCHANGED <<vars, kind, listing, maxPages, walk, next, offset, got, twice, backs,
                 pages, total, sent>>

\* getJSON has returned; its requests count whatever came of them.
Back ==
  /\ walk = "calling" /\ pc = "done"
  /\ total' = total + requests
  /\ UNCHANGED <<vars, kind, listing, maxPages, dialled, sent>>

\* Mutant of CallFailed: the requests of a failed call are not added.
CallFailedUncounted ==
  /\ walk = "calling" /\ pc = "done"
  /\ result # "ok"
  /\ walk' = "error"
  /\ UNCHANGED <<vars, kind, listing, maxPages, next, offset, got, twice, backs,
                 pages, total, dialled, strays, sent>>

CallFailed ==
  /\ Back
  /\ result # "ok"
  /\ walk' = "error"
  /\ UNCHANGED <<next, offset, got, twice, backs, pages, strays>>

\* Mutant of EmptyPage: a page with fewer records than asked for ends the walk.
EmptyPageOrShort ==
  /\ Back
  /\ result = "ok" /\ offset + PageSize > Len(listing)
  /\ walk' = "ok"
  /\ UNCHANGED <<next, offset, got, twice, backs, pages, strays>>

\* The number of records, and not a short page, ends the listing.
EmptyPage ==
  /\ Back
  /\ result = "ok" /\ offset = Len(listing)
  /\ walk' = "ok"
  /\ UNCHANGED <<next, offset, got, twice, backs, pages, strays>>

\* Mutant of rebase: the link is followed as it is.
rebaseVerbatim(link) == IF link \in {NoLink, BadLink} THEN link ELSE link.host

\* The path and the query are appended to the configured URL, with nothing between.
rebase(link) ==
  IF link \in {NoLink, BadLink} THEN link ELSE IF link.rooted THEN baseURL ELSE link.host

\* The host other than the configured one that a link sends the walk to, if any.
Elsewhere(link) ==
  {h \in Hosts \ {baseURL} : link \notin {NoLink, BadLink} /\ ~link.rooted /\ h = link.host}

\* The n next records, those of them that can be converted, and whether all can.
Page(n) == (offset + 1)..(offset + n)
Good(n) == {i \in Page(n) : listing[i]}
PageComes(n) == Back /\ result = "ok" /\ offset + n <= Len(listing)

\* The page's link goes on after its records, or back to some that were served.
LeadsOn(n) == offset' = offset + n /\ UNCHANGED backs
LeadsBack(n) ==
  /\ maxPages > 0 \/ backs < MaxBacks
  /\ offset' \in 0..(offset + n - 1)
  /\ backs' = backs + 1
  /\ next' \in Hosts

\* A trade that cannot be converted is skipped.
PageTaken(n) ==
  /\ PageComes(n)
  /\ kind = "trades" \/ Good(n) = Page(n)
  /\ got' = got \cup Good(n)
  /\ twice' = (twice \/ Good(n) \cap got # {})
  /\ pages' = pages + 1
  /\ \E link \in Links : next' = rebase(link) /\ strays' = strays \cup Elsewhere(link)
  /\ LeadsOn(n) \/ LeadsBack(n)
  /\ walk' = "loop"

\* A pool or an account that cannot be converted ends the walk.  No page of it
\* is visited; the accounts before it go back beside an error, and unread.
PageRefused(n) ==
  /\ PageComes(n)
  /\ kind # "trades" /\ Good(n) # Page(n)
  /\ walk' = "error"
  /\ UNCHANGED <<next, offset, got, twice, backs, pages, strays>>

\* visit returns an error: the page has been counted.
VisitFails(n) ==
  /\ PageComes(n)
  /\ kind = "pools" /\ Good(n) = Page(n)
  /\ pages' = pages + 1
  /\ walk' = "error"
  /\ UNCHANGED <<next, offset, got, twice, backs, strays>>

\* rebase fails, before the cap is looked at.
LinkUnusable ==
  /\ walk = "loop" /\ next = BadLink
  /\ walk' = "error"
  /\ UNCHANGED <<vars, kind, listing, maxPages, next, offset, got, twice, backs,
                 pages, total, dialled, strays, sent>>

\* The cap needs no request, nor does an absent link.
WalkOver ==
  /\ walk = "loop" /\ next # BadLink
  /\ Capped \/ next = NoLink
  /\ walk' = "ok"
  /\ UNCHANGED <<vars, kind, listing, maxPages, next, offset, got, twice, backs,
                 pages, total, dialled, strays, sent>>

WalkStep ==
  \/ Call
  \/ InCall
  \/ CallFailed
  \/ EmptyPage
  \/ \E n \in 1..PageSize : PageTaken(n) \/ PageRefused(n) \/ VisitFails(n)
  \/ LinkUnusable
  \/ WalkOver

WalkEnded == walk \in {"ok", "error"}

CancelWalk ==
  /\ ~WalkEnded
  /\ Cancel
  /\ UNCHANGED <<walkVars, sent>>

WalkReturned == WalkEnded /\ UNCHANGED listingVars

WalkNext == WalkStep \/ CancelWalk \/ (\E host \in Hosts : Redirect(host)) \/ WalkReturned

WalkSpec == WalkInit /\ [][WalkNext]_listingVars

\* Every request ends and every timer fires; the rest is the walk's own code.
FairWalkSpec == WalkSpec /\ WF_listingVars(WalkStep)

-----------------------------------------------------------------------------
(* What the passes rely on.                                                *)

\* Every page is asked of the configured host, "the URL field is honoured" past
\* the first one as well, whatever host its link names; another host is asked only
\* when a redirect or a link whose path has no leading slash names it
\* (client.go:272-299).
OnlyTheConfiguredHost == dialled \subseteq {baseURL} \cup strays

\* The requests a walk reports are those it made, retries and failed calls
\* included and redirects apart; only a cancelled context, on which the last one
\* never left, makes it one too many (client.go:188-191, pools.go:154-156).
EveryRequestIsCounted ==
  WalkEnded => total = sent \/ (cancelled /\ total = sent + 1)

\* What is handed over is a leading part of the listing without a gap, up to the
\* records that had to be skipped, wherever the links lead; nothing comes twice
\* unless a link led back; no more pages than the cap; and a walk without a cap
\* that Horizon never left without a next link ends well only past the last
\* record, on a page of its own (pools.go:149-164, trades.go:136-153).
WalkIsUnbroken ==
  /\ \E m \in offset..Len(listing) :
       /\ got = {i \in 1..m : listing[i]}
       /\ kind # "trades" => Cardinality(got) = m
       /\ backs = 0 => ~twice /\ m = offset
  /\ maxPages > 0 => pages <= maxPages
  /\ walk = "ok" /\ maxPages <= 0 /\ next # NoLink =>
       /\ offset = Len(listing)
       /\ total > pages

\* A link that "leads nowhere new" ends the walk (ErrNoMorePages, client.go:249-251):
\* no record is handed over a second time.
NowhereNewIsNoticed == ~twice

\* What is left of the walk: pages to the cap, or times to be led back; records; and
\* steps of the call for the next page, three for each attempt.
BacksAhead ==
  IF WalkEnded THEN 0 ELSE IF maxPages > 0 THEN maxPages - pages ELSE MaxBacks - backs
RecordsAhead == IF WalkEnded THEN 0 ELSE Len(listing) + 1 - offset
CallAhead ==
  IF walk = "loop" THEN 3 * maxRetries + 4
  ELSE IF pc = "done" THEN 0
  ELSE 3 * (maxRetries - attempt) + [send |-> 3, flight |-> 2, wait |-> 1][pc]

\* Every answer, timer and page takes the walk further, whatever is retried or
\* skipped on the way: a page led back costs a page of the cap, or one of the
\* times that links lead back in a walk without one (client.go:197-245, and the
\* loops at pools.go:148, positions.go:114 and trades.go:136).
WalkMovesOn ==
  [][WalkStep =>
       \/ BacksAhead' < BacksAhead
       \/ /\ BacksAhead' = BacksAhead
          /\ \/ RecordsAhead' < RecordsAhead
             \/ RecordsAhead' = RecordsAhead /\ CallAhead' < CallAhead]_listingVars

\* A walk with a cap ends wherever Horizon's links lead, and one without as long
\* as they lead back a bounded number of times only: nothing in the loops notices
\* (pools.go:148-184, positions.go:114-135, trades.go:136-160).
WalkEnds == <>WalkEnded

\* Whether the call in progress may still bring back a page: the context may be
\* cancelled behind the back of a request that is answered all the same.
MaySucceed == (pc = "flight" /\ live) \/ (pc = "done" /\ result = "ok")

\* A walk of many requests is the walk of one step per page that the passes are
\* modelled with; a cancellation is seen when it can first make a difference.
OneStepPerCall == INSTANCE PageWalk WITH
  skips <- kind = "trades",
  cut <- next = NoLink,
  stopped <- cancelled /\ (walk = "error" \/ (walk = "calling" /\ ~MaySucceed)),
  outcome <- IF WalkEnded THEN walk ELSE "running"

CallsAreAtomic == OneStepPerCall!Spec
=============================================================================
