---------------------------- MODULE ListingProofs ----------------------------
(***************************************************************************)
(* A walk over a listing, for every page size, cap, set of hosts, retry    *)
(* setting and Retry-After header, and wherever the links lead: each call  *)
(* keeps what getJSON promises, the requests are counted, the records come *)
(* without a gap, only a redirect or a link without a slash leads to       *)
(* another host, and the walk is one of one step per page.                 *)
(***************************************************************************)
EXTENDS Listing, GetJSONProofs, FiniteSetTheorems

\* A step of the walk begins a call, or is a step of one, or leaves it alone.
LEMMA CallSteps ==
  TypeOK /\ [WalkNext]_listingVars => (Call /\ Init') \/ [Next]_vars
<1> SUFFICES ASSUME TypeOK, [WalkNext]_listingVars PROVE (Call /\ Init') \/ [Next]_vars
  OBVIOUS
<1>1. CASE Call
  <2>1. /\ cancelled' = cancelled /\ lateStart' = cancelled /\ live' = FALSE
    BY <1>1, Zenon DEF Call
  <2>2. setting' = setting /\ pc' = "send" /\ attempt' = 0 /\ requests' = 0
        /\ answers' = <<>> /\ result' = "none"
    BY <1>1 DEF Call
  <2>3. cancelled \in BOOLEAN /\ setting \in Settings
    BY DEF TypeOK
  <2>b. builds' \in BOOLEAN
    BY <1>1 DEF Call
  <2>4. Init'
    BY <2>1, <2>2, <2>3, <2>b, Zenon DEF Init
  <2> QED
    BY <1>1, <2>4
<1>2. CASE InCall
  BY <1>2 DEF InCall, Next
<1>3. CASE CallFailed
  BY <1>3 DEF CallFailed, Back
<1>4. CASE EmptyPage
  BY <1>4 DEF EmptyPage, Back
<1>5. ASSUME NEW n \in 1..PageSize, PageTaken(n) \/ PageRefused(n) \/ VisitFails(n)
      PROVE  UNCHANGED vars
  BY <1>5 DEF PageTaken, PageRefused, VisitFails, PageComes, Back
<1>6. CASE LinkUnusable \/ WalkOver
  BY <1>6 DEF LinkUnusable, WalkOver
<1>7. CASE CancelWalk
  BY <1>7 DEF CancelWalk, Next
<1>8. CASE WalkReturned \/ UNCHANGED listingVars
  BY <1>8 DEF WalkReturned, listingVars
<1>9. ASSUME NEW host \in Hosts, Redirect(host) PROVE UNCHANGED vars
  BY <1>9 DEF Redirect
<1> QED
  BY <1>1, <1>2, <1>3, <1>4, <1>5, <1>6, <1>7, <1>8, <1>9 DEF WalkNext, WalkStep

\* Before the first call there is no answer and no request.
LEMMA NoCallYet == WalkInit => TypeOK /\ CallInv
<1> SUFFICES ASSUME WalkInit PROVE TypeOK /\ CallInv
  OBVIOUS
<1>1. /\ answers = <<>> /\ Len(answers) = 0 /\ DOMAIN answers = {}
      /\ attempt = 0 /\ requests = 0 /\ pc = "done" /\ result = "none"
      /\ setting \in Settings /\ answers \in Seq(Answers)
  BY DEF WalkInit
<1>2. cancelled = FALSE /\ lateStart = FALSE /\ live = FALSE /\ builds = TRUE
  BY Zenon DEF WalkInit
<1>3. LateInv
  BY <1>2, Zenon DEF LateInv
<1>4. maxRetries \in Nat
  BY <1>1, SettingsAreInts DEF maxRetries, DefaultMaxRetries
<1>5. AttemptsInv /\ LadderInv /\ OnlyTransientIsRetried /\ GivesUpOnlyWhenSpent
  BY <1>1, <1>4 DEF AttemptsInv, LadderInv, OnlyTransientIsRetried, GivesUpOnlyWhenSpent
<1>6. TypeOK
  BY <1>1, <1>2 DEF TypeOK
<1> QED
  BY <1>3, <1>5, <1>6 DEF CallInv

\* Each call of a walk keeps the types of getJSON and its invariant.
THEOREM WalkKeepsTheCall == WalkSpec => []TypeOK /\ []CallInv
<1>1. TypeOK /\ CallInv /\ [WalkNext]_listingVars => TypeOK' /\ CallInv'
  <2>1. Init' => TypeOK' /\ CallInv'
    BY TypeBegins, CallBegins, PTL
  <2> QED
    BY <2>1, CallSteps, TypeStays, CallStays
<1> QED
  BY <1>1, NoCallYet, PTL DEF WalkSpec

\* So what a single call promises holds of every call of a walk (client.go:87-107,
\* 169-183, 197-245).
THEOREM WalkKeepsTheCallsPromises ==
  WalkSpec => []( /\ OnlyTransientIsRetried /\ GivesUpOnlyWhenSpent
                  /\ WaitsAsAsked /\ NothingAfterCancel )
<1>1. CallInv => OnlyTransientIsRetried /\ GivesUpOnlyWhenSpent
  BY DEF CallInv
<1> QED
  BY <1>1, WaitsFollow, LateFollows, WalkKeepsTheCall, PTL

-----------------------------------------------------------------------------
\* The walk starts with its types.
LEMMA WalkTypeBegins == WalkInit => WalkTypeOK
<1> SUFFICES ASSUME WalkInit PROVE WalkTypeOK
  OBVIOUS
<1>1. /\ kind \in Kinds /\ listing \in Listings /\ maxPages \in Caps
      /\ walk = "loop" /\ next \in {baseURL, BadURL}
      /\ offset = 0 /\ got = {} /\ backs = 0 /\ pages = 0 /\ total = 0
      /\ dialled = {} /\ strays = {} /\ sent = 0
  BY DEF WalkInit
<1>2. twice \in BOOLEAN
  BY Zenon DEF WalkInit
<1>3. Len(listing) \in Nat
  BY <1>1, ListingsAreSequences
<1>4. next \in Hosts \cup {NoLink, BadLink, BadURL}
  BY <1>1, LinksAreApart
<1> QED
  BY <1>1, <1>2, <1>3, <1>4 DEF WalkTypeOK

\* Every step keeps them.
LEMMA WalkTypeStays == TypeOK /\ WalkTypeOK /\ [WalkNext]_listingVars => WalkTypeOK'
<1> SUFFICES ASSUME TypeOK, WalkTypeOK, [WalkNext]_listingVars PROVE WalkTypeOK'
  OBVIOUS
<1> USE DEF WalkTypeOK
<1>t. requests \in Nat /\ Len(listing) \in Nat
  BY ListingsAreSequences DEF TypeOK
<1>1. CASE Call
  BY <1>1 DEF Call
<1>2. CASE InCall
  BY <1>2 DEF InCall, walkVars
<1>3. CASE CallFailed
  BY <1>3, <1>t DEF CallFailed, Back
<1>4. CASE EmptyPage
  BY <1>4, <1>t DEF EmptyPage, Back
<1>5. ASSUME NEW n \in 1..PageSize, PageTaken(n) PROVE WalkTypeOK'
  <2>0. /\ n \in Nat \ {0} /\ offset \in Nat /\ offset + n <= Len(listing)
        /\ got' = got \cup Good(n) /\ pages' = pages + 1 /\ walk' = "loop"
        /\ UNCHANGED <<kind, listing, maxPages, dialled, sent>>
        /\ total' = total + requests
    BY <1>5, <1>t, PageSizeIsPositive DEF PageTaken, PageComes, Back
  <2>1. offset' \in 0..Len(listing) /\ backs' \in Nat
    <3>1. LeadsOn(n) \/ LeadsBack(n)
      BY <1>5 DEF PageTaken
    <3>2. CASE LeadsOn(n)
      BY <1>t, <2>0, <3>2 DEF LeadsOn
    <3>3. CASE LeadsBack(n)
      BY <1>t, <2>0, <3>3 DEF LeadsBack
    <3> QED
      BY <3>1, <3>2, <3>3
  <2>2. got' \subseteq 1..Len(listing)
    <3>1. Good(n) \subseteq Page(n)
      BY DEF Good
    <3>2. Page(n) \subseteq 1..Len(listing)
      BY <1>t, <2>0 DEF Page
    <3> QED
      BY <2>0, <3>1, <3>2
  <2>3. twice' \in BOOLEAN
    BY <1>5, Zenon DEF PageTaken
  <2>4. next' \in Hosts \cup {NoLink, BadLink, BadURL} /\ strays' \subseteq Hosts
    <3>1. PICK link \in Links : next' = rebase(link) /\ strays' = strays \cup Elsewhere(link)
      BY <1>5, Zenon DEF PageTaken
    <3>2. rebase(link) \in Hosts \cup {NoLink, BadLink, BadURL}
      BY <3>1, LinksAreApart DEF rebase, Links
    <3>3. Elsewhere(link) \subseteq Hosts
      BY DEF Elsewhere
    <3> QED
      BY <3>1, <3>2, <3>3
  <2> QED
    BY <1>t, <2>0, <2>1, <2>2, <2>3, <2>4
<1>6. ASSUME NEW n \in 1..PageSize, PageRefused(n) \/ VisitFails(n) PROVE WalkTypeOK'
  <2>1. /\ UNCHANGED <<kind, listing, maxPages, dialled, sent, next, offset, got, twice,
                       backs, strays>>
        /\ total' = total + requests /\ walk' = "error"
    BY <1>6 DEF PageRefused, VisitFails, PageComes, Back
  <2>2. pages' \in {pages, pages + 1}
    BY <1>6 DEF PageRefused, VisitFails
  <2> QED
    BY <1>t, <2>1, <2>2
<1>7. CASE LinkUnusable \/ WalkOver
  BY <1>7 DEF LinkUnusable, WalkOver
<1>8. CASE CancelWalk
  BY <1>8 DEF CancelWalk, walkVars
<1>9. CASE WalkReturned \/ UNCHANGED listingVars
  BY <1>9 DEF WalkReturned, listingVars, walkVars
<1>10. ASSUME NEW host \in Hosts, Redirect(host) PROVE WalkTypeOK'
  BY <1>10 DEF Redirect
<1> QED
  BY <1>1, <1>2, <1>3, <1>4, <1>5, <1>6, <1>7, <1>8, <1>9, <1>10 DEF WalkNext, WalkStep

\* The walk keeps its types.
THEOREM WalkTypeCorrect == WalkSpec => []WalkTypeOK
BY WalkTypeBegins, WalkTypeStays, WalkKeepsTheCall, PTL DEF WalkSpec

-----------------------------------------------------------------------------
\* What is asked next is the configured host, unless a link or a redirect led away.
HostInv ==
  /\ next \in {baseURL, NoLink, BadLink, BadURL} \cup strays
  /\ dialled \subseteq {baseURL} \cup strays

\* The host a link names is never asked on its account: another host than the
\* configured one is asked only when a redirect, or a link whose path has no
\* leading slash, sent the walk there (client.go:272-299).
THEOREM WalkStaysAtHome == WalkSpec => []OnlyTheConfiguredHost
<1>1. WalkInit => HostInv
  BY DEF WalkInit, HostInv
<1>2. HostInv /\ [WalkNext]_listingVars => HostInv'
  <2> SUFFICES ASSUME HostInv, [WalkNext]_listingVars PROVE HostInv'
    OBVIOUS
  <2> USE DEF HostInv
  <2>1. CASE Call
    BY <2>1, LinksAreApart DEF Call
  <2>2. ASSUME NEW n \in 1..PageSize, PageTaken(n) PROVE HostInv'
    <3>1. PICK link \in Links : next' = rebase(link) /\ strays' = strays \cup Elsewhere(link)
      BY <2>2, Zenon DEF PageTaken
    <3>2. rebase(link) \in {baseURL, NoLink, BadLink, BadURL} \cup Elsewhere(link)
      BY <3>1 DEF rebase, Elsewhere, Links
    <3>3. dialled' = dialled
      BY <2>2 DEF PageTaken, PageComes, Back
    <3> QED
      BY <3>1, <3>2, <3>3
  <2>3. ASSUME NEW n \in 1..PageSize, PageRefused(n) \/ VisitFails(n) PROVE HostInv'
    BY <2>3 DEF PageRefused, VisitFails, PageComes, Back
  <2>4. CASE InCall \/ CancelWalk
    BY <2>4 DEF InCall, CancelWalk, walkVars
  <2>5. CASE CallFailed \/ EmptyPage
    BY <2>5 DEF CallFailed, EmptyPage, Back
  <2>6. CASE LinkUnusable \/ WalkOver
    BY <2>6 DEF LinkUnusable, WalkOver
  <2>7. CASE WalkReturned \/ UNCHANGED listingVars
    BY <2>7 DEF WalkReturned, listingVars, walkVars
  <2>8. ASSUME NEW host \in Hosts, Redirect(host) PROVE HostInv'
    BY <2>8 DEF Redirect
  <2> QED
    BY <2>1, <2>2, <2>3, <2>4, <2>5, <2>6, <2>7, <2>8 DEF WalkNext, WalkStep
<1>3. HostInv => OnlyTheConfiguredHost
  BY DEF HostInv, OnlyTheConfiguredHost
<1> QED
  BY <1>1, <1>2, <1>3, PTL DEF WalkSpec

-----------------------------------------------------------------------------
\* The requests on the wire are those counted so far, and during a call also
\* those of the call; the one in flight is not counted yet, and one that a
\* cancelled context kept from leaving is the last of its call.
InFlight ==
  \/ live /\ sent = total + requests + 1
  \/ ~live /\ cancelled /\ sent = total + requests
OneUnsent == cancelled /\ result # "ok" /\ sent + 1 = total + requests
RequestsInv ==
  /\ walk = "loop" => sent = total
  /\ walk = "calling" =>
       /\ pc \in {"send", "wait"} => sent = total + requests
       /\ pc = "flight" => InFlight
       /\ pc = "done" => sent = total + requests \/ OneUnsent
  /\ EveryRequestIsCounted

\* A step of a call keeps the count.
LEMMA CallIsCounted ==
  ASSUME TypeOK, WalkTypeOK, RequestsInv, InCall
  PROVE  RequestsInv'
<1>t. /\ requests \in Nat /\ total \in Nat /\ sent \in Nat
      /\ live \in BOOLEAN /\ cancelled \in BOOLEAN
  BY DEF TypeOK, WalkTypeOK
<1>w. walk = "calling" /\ walk' = "calling" /\ total' = total
  BY DEF InCall, walkVars
<1>e. EveryRequestIsCounted'
  BY <1>w DEF EveryRequestIsCounted, WalkEnded
<1>1. CASE Send
  <2>1. /\ pc = "send" /\ pc' = "flight" /\ requests' = requests
        /\ live' = ~cancelled /\ cancelled' = cancelled
        /\ sent = total + requests
    BY <1>1, <1>w DEF Send, RequestsInv
  <2>2. sent' = IF live' THEN sent + 1 ELSE sent
    BY <2>1 DEF InCall
  <2>3. CASE cancelled
    BY <1>t, <1>w, <1>e, <2>1, <2>2, <2>3 DEF RequestsInv, InFlight
  <2>4. CASE ~cancelled
    BY <1>t, <1>w, <1>e, <2>1, <2>2, <2>4 DEF RequestsInv, InFlight
  <2> QED
    BY <2>3, <2>4
<1>2. ASSUME NEW a \in Final, AnswerFinal(a) PROVE RequestsInv'
  <2>1. /\ pc = "flight" /\ pc' = "done" /\ requests' = requests + 1
        /\ result' = IF a = "ok" THEN "ok" ELSE "failed"
        /\ cancelled' = cancelled /\ InFlight
    BY <1>2, <1>w DEF AnswerFinal, Return, RequestsInv
  <2>2. sent' = sent
    BY <2>1 DEF InCall
  <2>3. CASE live
    BY <1>t, <1>w, <1>e, <2>1, <2>2, <2>3 DEF RequestsInv, InFlight
  <2>4. CASE ~live
    <3>1. result' # "ok"
      BY <1>2, <2>1, <2>4 DEF AnswerFinal
    <3>2. OneUnsent'
      BY <1>t, <1>w, <2>1, <2>2, <2>4, <3>1 DEF InFlight, OneUnsent
    <3> QED
      BY <1>w, <1>e, <2>1, <3>2 DEF RequestsInv
  <2> QED
    BY <2>3, <2>4
<1>3. ASSUME NEW header \in RetryAfters, AnswerTransient(header) PROVE RequestsInv'
  <2>1. pc = "flight" /\ live /\ requests' = requests + 1 /\ InFlight
    BY <1>3, <1>w DEF AnswerTransient, RequestsInv
  <2>2. pc' \in {"done", "wait"}
    BY <1>3 DEF AnswerTransient, Return
  <2>3. sent' = sent /\ sent = total + requests + 1
    BY <2>1, <2>2 DEF InCall, InFlight
  <2> QED
    BY <1>t, <1>w, <1>e, <2>1, <2>2, <2>3 DEF RequestsInv
<1>4. CASE WaitOver \/ WaitCancelled \/ BuildFails
  <2>1. /\ pc \in {"wait", "send"} /\ pc' \in {"send", "done"} /\ requests' = requests
        /\ sent = total + requests
    BY <1>4, <1>w DEF WaitOver, WaitCancelled, BuildFails, Return, RequestsInv
  <2>2. sent' = sent
    BY <2>1 DEF InCall
  <2> QED
    BY <1>w, <1>e, <2>1, <2>2 DEF RequestsInv
<1> QED
  BY <1>1, <1>2, <1>3, <1>4 DEF InCall, Step

\* Every step of the walk keeps the count.
LEMMA WalkIsCounted ==
  TypeOK /\ WalkTypeOK /\ RequestsInv /\ [WalkNext]_listingVars => RequestsInv'
<1> SUFFICES ASSUME TypeOK, WalkTypeOK, RequestsInv, [WalkNext]_listingVars
             PROVE  RequestsInv'
  OBVIOUS
<1>t. requests \in Nat /\ total \in Nat /\ sent \in Nat
  BY DEF TypeOK, WalkTypeOK
<1>1. CASE Call
  <2>1. /\ walk = "loop" /\ walk' = "calling" /\ pc' = "send" /\ requests' = 0
        /\ total' = total /\ sent' = sent
    BY <1>1 DEF Call
  <2> QED
    BY <1>t, <2>1 DEF RequestsInv, EveryRequestIsCounted, WalkEnded
<1>2. CASE InCall
  BY <1>2, CallIsCounted
<1>3. ASSUME Back, result = "ok", walk' \in {"loop", "ok", "error"} PROVE RequestsInv'
  <2>1. sent = total + requests /\ total' = total + requests /\ sent' = sent
    BY <1>3 DEF Back, RequestsInv, OneUnsent
  <2>2. total' = sent'
    BY <2>1
  <2> QED
    BY <1>3, <2>2 DEF RequestsInv, EveryRequestIsCounted, WalkEnded
<1>4. CASE CallFailed
  <2>1. /\ sent = total + requests \/ (cancelled /\ sent + 1 = total + requests)
        /\ total' = total + requests /\ sent' = sent /\ cancelled' = cancelled
        /\ walk' = "error"
    BY <1>4 DEF CallFailed, Back, RequestsInv, OneUnsent, vars
  <2> QED
    BY <1>t, <2>1 DEF RequestsInv, EveryRequestIsCounted, WalkEnded
<1>5. CASE EmptyPage
  BY <1>3, <1>5 DEF EmptyPage
<1>6. ASSUME NEW n \in 1..PageSize, PageTaken(n) \/ PageRefused(n) \/ VisitFails(n)
      PROVE  RequestsInv'
  BY <1>3, <1>6 DEF PageTaken, PageRefused, VisitFails, PageComes
<1>7. CASE LinkUnusable \/ WalkOver
  <2>1. /\ walk = "loop" /\ walk' \in {"ok", "error"} /\ total' = total /\ sent' = sent
    BY <1>7 DEF LinkUnusable, WalkOver
  <2> QED
    BY <2>1 DEF RequestsInv, EveryRequestIsCounted, WalkEnded
<1>8. CASE CancelWalk
  <2>1. /\ UNCHANGED <<walk, total, sent, pc, requests, live, result>>
        /\ cancelled' = TRUE /\ ~WalkEnded
    BY <1>8 DEF CancelWalk, Cancel, walkVars
  <2> QED
    BY <2>1 DEF RequestsInv, EveryRequestIsCounted, WalkEnded, InFlight, OneUnsent
<1>9. CASE WalkReturned \/ UNCHANGED listingVars
  BY <1>9 DEF WalkReturned, listingVars, walkVars, vars, RequestsInv, EveryRequestIsCounted,
              WalkEnded, InFlight, OneUnsent
<1>10. ASSUME NEW host \in Hosts, Redirect(host) PROVE RequestsInv'
  BY <1>10 DEF Redirect, vars, RequestsInv, EveryRequestIsCounted, WalkEnded, InFlight, OneUnsent
<1> QED
  BY <1>1, <1>2, <1>4, <1>5, <1>6, <1>7, <1>8, <1>9, <1>10 DEF WalkNext, WalkStep

\* The request count of a walk is the number of requests that left, but for one
\* a cancelled context kept back (client.go:188-191, pools.go:154-156).
THEOREM RequestsAreCounted == WalkSpec => []EveryRequestIsCounted
<1>1. WalkInit => RequestsInv
  BY DEF WalkInit, RequestsInv, EveryRequestIsCounted, WalkEnded
<1>2. RequestsInv => EveryRequestIsCounted
  BY DEF RequestsInv
<1> QED
  BY <1>1, <1>2, WalkIsCounted, WalkTypeCorrect, WalkKeepsTheCall, PTL DEF WalkSpec

-----------------------------------------------------------------------------
\* Between two pages a leading part of the listing has been handed over, up to the
\* cursor unless a link led back; each page cost a request; and a call is only made
\* where a page may follow.
HandedOver(m) ==
  /\ got = {i \in 1..m : listing[i]}
  /\ kind # "trades" => got = 1..m
  /\ backs = 0 => ~twice /\ m = offset
UnbrokenInv ==
  /\ \E m \in offset..Len(listing) : HandedOver(m)
  /\ total >= pages
  /\ IF maxPages > 0 THEN pages <= maxPages ELSE backs <= MaxBacks
  /\ walk = "calling" => next \in Hosts \cup {BadURL} /\ ~Capped
  /\ walk = "ok" /\ maxPages <= 0 /\ next # NoLink =>
       offset = Len(listing) /\ total > pages

\* A page costs the requests of its call, one at least.
LEMMA PageCosts ==
  ASSUME TypeOK, WalkTypeOK, CallInv, Back, result = "ok"
  PROVE  requests \in Nat \ {0} /\ total' = total + requests /\ total' \in Nat
<1>1. answers # <<>> /\ requests = Len(answers) /\ answers \in Seq(Answers)
  BY DEF CallInv, AttemptsInv, OnlyTransientIsRetried, TypeOK
<1>2. requests \in Nat \ {0}
  BY <1>1, EmptySeq
<1>3. total' = total + requests /\ total \in Nat
  BY DEF Back, WalkTypeOK
<1> QED
  BY <1>2, <1>3

\* The page taken extends what was handed over, or comes again.
LEMMA PageExtends ==
  ASSUME TypeOK, WalkTypeOK, CallInv, UnbrokenInv, NEW n \in 1..PageSize, PageTaken(n)
  PROVE  UnbrokenInv'
<1>t. /\ offset \in Nat /\ n \in Nat \ {0} /\ Len(listing) \in Nat
      /\ pages \in Nat /\ total \in Nat /\ backs \in Nat /\ maxPages \in Int
  BY PageSizeIsPositive, ListingsAreSequences, CapsAreInts DEF WalkTypeOK
<1>1. /\ offset + n <= Len(listing) /\ got' = got \cup Good(n)
      /\ walk = "calling" /\ walk' = "loop" /\ pages' = pages + 1
      /\ UNCHANGED <<listing, kind, maxPages>>
      /\ kind = "trades" \/ Good(n) = Page(n)
  BY DEF PageTaken, PageComes, Back
<1>2. twice' = (twice \/ Good(n) \cap got # {})
  BY Zenon DEF PageTaken
<1>3. PICK m \in offset..Len(listing) : HandedOver(m)
  BY DEF UnbrokenInv
<1>4. LeadsOn(n) \/ LeadsBack(n)
  BY DEF PageTaken
<1>5. PICK k \in Nat : /\ k = IF m > offset + n THEN m ELSE offset + n
                       /\ k <= Len(listing) /\ k >= offset + n
  BY <1>t, <1>1, <1>3
<1>6. 1..k = (1..m) \cup Page(n)
  BY <1>t, <1>3, <1>5 DEF Page
<1>7. got' = {i \in 1..k : listing'[i]}
  <2>1. got = {i \in 1..m : listing[i]} /\ Good(n) = {i \in Page(n) : listing[i]}
    BY <1>3 DEF HandedOver, Good
  <2>2. got' = {i \in (1..m) \cup Page(n) : listing[i]}
    BY <1>1, <2>1
  <2> QED
    BY <1>1, <1>6, <2>2
<1>8. kind' # "trades" => got' = 1..k
  BY <1>1, <1>3, <1>6 DEF HandedOver
<1>9. /\ k \in offset'..Len(listing')
      /\ backs' = 0 => ~twice' /\ k = offset'
      /\ maxPages' <= 0 => backs' <= MaxBacks
  <2>1. CASE LeadsOn(n)
    <3>1. offset' = offset + n /\ backs' = backs
      BY <2>1 DEF LeadsOn
    <3>2. ASSUME backs = 0 PROVE ~twice' /\ k = offset'
      <4>1. ~twice /\ m = offset
        BY <1>3, <3>2 DEF HandedOver
      <4>2. Good(n) \cap got = {}
        <5>1. Page(n) \cap (1..m) = {}
          BY <1>t, <4>1 DEF Page
        <5> QED
          BY <1>3, <5>1 DEF HandedOver, Good
      <4>3. ~twice'
        BY <1>2, <4>1, <4>2
      <4> QED
        BY <1>t, <1>5, <3>1, <4>1, <4>3
    <3>3. maxPages <= 0 => backs <= MaxBacks
      BY <1>t DEF UnbrokenInv
    <3> QED
      BY <1>t, <1>1, <1>5, <3>1, <3>2, <3>3
  <2>2. CASE LeadsBack(n)
    <3>1. /\ offset' \in 0..(offset + n - 1) /\ backs' = backs + 1
          /\ maxPages > 0 \/ backs < MaxBacks
      BY <2>2 DEF LeadsBack
    <3> QED
      BY <1>t, <1>1, <1>5, <3>1, BacksAreNat
  <2> QED
    BY <1>4, <2>1, <2>2
<1>10. HandedOver(k)'
  BY <1>7, <1>8, <1>9 DEF HandedOver
<1>11. total' >= pages'
  <2>1. total' = total + requests /\ requests \in Nat \ {0}
    BY PageCosts DEF PageTaken, PageComes
  <2> QED
    BY <1>t, <1>1, <2>1 DEF UnbrokenInv
<1>12. maxPages' > 0 => pages' <= maxPages'
  BY <1>t, <1>1 DEF UnbrokenInv, Capped
<1> QED
  BY <1>t, <1>1, <1>9, <1>10, <1>11, <1>12 DEF UnbrokenInv

\* What UnbrokenInv says of the records depends on them alone.
LEMMA NothingHandedOver ==
  ASSUME UnbrokenInv, UNCHANGED <<kind, listing, offset, got, twice, backs>>
  PROVE  (\E m \in offset..Len(listing) : HandedOver(m))'
<1>1. PICK m \in offset..Len(listing) : HandedOver(m)
  BY DEF UnbrokenInv
<1>2. m \in offset'..Len(listing') /\ HandedOver(m)'
  BY <1>1 DEF HandedOver
<1> QED
  BY <1>2

\* Every step keeps the listing unbroken.
LEMMA WalkExtends ==
  TypeOK /\ WalkTypeOK /\ CallInv /\ UnbrokenInv /\ [WalkNext]_listingVars => UnbrokenInv'
<1> SUFFICES ASSUME TypeOK, WalkTypeOK, CallInv, UnbrokenInv, [WalkNext]_listingVars
             PROVE  UnbrokenInv'
  OBVIOUS
<1>t. /\ total \in Nat /\ pages \in Nat /\ requests \in Nat /\ total >= pages
      /\ maxPages \in Int
  BY CapsAreInts DEF WalkTypeOK, TypeOK, UnbrokenInv
<1>1. ASSUME UNCHANGED <<kind, listing, maxPages, next, offset, got, twice, backs, pages, total>>,
             walk' = walk \/ walk' = "error"
      PROVE  UnbrokenInv'
  BY <1>1, NothingHandedOver DEF UnbrokenInv, Capped
<1>2. CASE Call
  <2>1. /\ UNCHANGED <<kind, listing, maxPages, next, offset, got, twice, backs, pages, total>>
        /\ walk' = "calling" /\ next \in Hosts \cup {BadURL} /\ ~Capped
    BY <1>2 DEF Call
  <2> QED
    BY <2>1, NothingHandedOver DEF UnbrokenInv, Capped
<1>3. CASE InCall \/ CancelWalk
  BY <1>1, <1>3 DEF InCall, CancelWalk, walkVars
<1>4. CASE CallFailed
  <2>1. /\ total' >= pages' /\ walk' = "error"
        /\ UNCHANGED <<kind, listing, maxPages, next, offset, got, twice, backs, pages>>
    BY <1>4, <1>t DEF CallFailed, Back
  <2> QED
    BY <2>1, NothingHandedOver DEF UnbrokenInv
<1>5. CASE EmptyPage
  <2>1. total' = total + requests /\ requests \in Nat \ {0}
    BY <1>5, PageCosts DEF EmptyPage
  <2>2. /\ total' > pages' /\ total' >= pages' /\ walk' = "ok" /\ offset = Len(listing)
        /\ UNCHANGED <<kind, listing, maxPages, next, offset, got, twice, backs, pages>>
    BY <1>5, <1>t, <2>1 DEF EmptyPage, Back
  <2> QED
    BY <2>2, NothingHandedOver DEF UnbrokenInv
<1>6. ASSUME NEW n \in 1..PageSize, PageTaken(n) PROVE UnbrokenInv'
  BY <1>6, PageExtends
<1>7. ASSUME NEW n \in 1..PageSize, PageRefused(n) \/ VisitFails(n) PROVE UnbrokenInv'
  <2>1. total' = total + requests /\ requests \in Nat \ {0}
    BY <1>7, PageCosts DEF PageRefused, VisitFails, PageComes
  <2>2. /\ pages' \in {pages, pages + 1} /\ walk' = "error" /\ walk = "calling"
        /\ UNCHANGED <<kind, listing, maxPages, offset, got, twice, backs>>
    BY <1>7 DEF PageRefused, VisitFails, PageComes, Back
  <2>3. total' >= pages'
    BY <1>t, <2>1, <2>2
  <2>4. maxPages > 0 => pages' <= maxPages
    BY <1>t, <2>2 DEF UnbrokenInv, Capped
  <2> QED
    BY <1>t, <2>2, <2>3, <2>4, NothingHandedOver DEF UnbrokenInv
<1>8. CASE LinkUnusable
  BY <1>1, <1>8 DEF LinkUnusable
<1>9. CASE WalkOver
  <2>1. maxPages <= 0 => next = NoLink
    BY <1>9, <1>t DEF WalkOver, Capped
  <2>2. /\ UNCHANGED <<kind, listing, maxPages, next, offset, got, twice, backs, pages, total>>
        /\ walk' = "ok"
    BY <1>9 DEF WalkOver
  <2> QED
    BY <2>1, <2>2, NothingHandedOver DEF UnbrokenInv
<1>10. CASE WalkReturned \/ UNCHANGED listingVars
  BY <1>1, <1>10 DEF WalkReturned, listingVars, walkVars
<1>11. ASSUME NEW host \in Hosts, Redirect(host) PROVE UnbrokenInv'
  BY <1>1, <1>11 DEF Redirect
<1> QED
  BY <1>2, <1>3, <1>4, <1>5, <1>6, <1>7, <1>8, <1>9, <1>10, <1>11 DEF WalkNext, WalkStep

\* UnbrokenInv holds in every reachable state.
LEMMA WalkIsInductive == WalkSpec => []UnbrokenInv
<1>1. WalkInit => UnbrokenInv
  <2> SUFFICES ASSUME WalkInit PROVE UnbrokenInv
    OBVIOUS
  <2>1. /\ got = {} /\ offset = 0 /\ backs = 0 /\ pages = 0 /\ total = 0 /\ walk = "loop"
        /\ Len(listing) \in Nat /\ maxPages \in Int
    BY ListingsAreSequences, CapsAreInts DEF WalkInit
  <2>2. ~twice
    BY Zenon DEF WalkInit
  <2>3. 0 \in offset..Len(listing) /\ 1..0 = {}
    BY <2>1
  <2>4. HandedOver(0)
    BY <2>1, <2>2, <2>3 DEF HandedOver
  <2> QED
    BY <2>1, <2>3, <2>4, BacksAreNat DEF UnbrokenInv
<1> QED
  BY <1>1, WalkExtends, WalkTypeCorrect, WalkKeepsTheCall, PTL DEF WalkSpec

\* A walk hands over a leading part of the listing without a gap, wherever its links
\* lead, and nothing twice unless one led back; it takes no more pages than its cap;
\* and one that ends well without a cap or a missing link went past the end
\* (pools.go:149-164, trades.go:136-153).
THEOREM WalkHasNoGap == WalkSpec => []WalkIsUnbroken
<1>1. WalkTypeOK /\ UnbrokenInv => WalkIsUnbroken
  <2> SUFFICES ASSUME WalkTypeOK, UnbrokenInv PROVE WalkIsUnbroken
    OBVIOUS
  <2>1. offset \in Nat /\ Len(listing) \in Nat
    BY ListingsAreSequences DEF WalkTypeOK
  <2>2. PICK m \in offset..Len(listing) : HandedOver(m)
    BY DEF UnbrokenInv
  <2>3. Cardinality(1..m) = m
    BY <2>1, <2>2, FS_Interval
  <2>4. \E k \in offset..Len(listing) :
          /\ got = {i \in 1..k : listing[i]}
          /\ kind # "trades" => Cardinality(got) = k
          /\ backs = 0 => ~twice /\ k = offset
    BY <2>2, <2>3 DEF HandedOver
  <2> QED
    BY <2>4 DEF UnbrokenInv, WalkIsUnbroken
<1> QED
  BY <1>1, WalkIsInductive, WalkTypeCorrect, PTL

-----------------------------------------------------------------------------
Stopped == cancelled /\ (walk = "error" \/ (walk = "calling" /\ ~MaySucceed))

\* A call on a context that is no longer live cannot come to a page again.
LEMMA CallStaysLost ==
  ASSUME TypeOK, InCall, ~MaySucceed, cancelled
  PROVE  ~MaySucceed'
<1> USE DEF MaySucceed
<1>1. CASE Send
  BY <1>1, Zenon DEF Send
<1>2. ASSUME NEW a \in Final, AnswerFinal(a) PROVE ~MaySucceed'
  <2>1. pc = "flight" /\ pc' = "done" /\ result' = IF a = "ok" THEN "ok" ELSE "failed"
    BY <1>2 DEF AnswerFinal, Return
  <2>2. a = "transport"
    BY <1>2, <2>1 DEF AnswerFinal
  <2> QED
    BY <2>1, <2>2
<1>3. ASSUME NEW header \in RetryAfters, AnswerTransient(header) PROVE ~MaySucceed'
  BY <1>3 DEF AnswerTransient
<1>4. CASE WaitOver
  BY <1>4 DEF WaitOver
<1>5. CASE WaitCancelled
  BY <1>5 DEF WaitCancelled, Return
<1>6. CASE BuildFails
  BY <1>6 DEF BuildFails, Return
<1> QED
  BY <1>1, <1>2, <1>3, <1>4, <1>5, <1>6 DEF InCall, Step

\* A step inside a call, or a cancellation, is seen as the walk being stopped or
\* not at all.
LEMMA StopsOrStutters ==
  ASSUME ~WalkEnded, ~WalkEnded', Stopped => Stopped',
         UNCHANGED <<listing, maxPages, kind, offset, got, backs, pages, next>>
  PROVE  [OneStepPerCall!Next]_(OneStepPerCall!vars)
<1>1. CASE Stopped' = Stopped
  BY <1>1 DEF Stopped, OneStepPerCall!vars
<1>2. CASE ~Stopped /\ Stopped'
  <2>1. OneStepPerCall!Stop
    BY <1>2 DEF Stopped, OneStepPerCall!Stop
  <2> QED
    BY ONLY <2>1 DEF OneStepPerCall!Next
<1> QED
  BY <1>1, <1>2 DEF Stopped

\* A walk that fails, whatever the moment.
LEMMA FailsAsPromised ==
  ASSUME ~WalkEnded, walk' = "error", pages' \in {pages, pages + 1},
         Stopped => cancelled', cancelled' = cancelled,
         UNCHANGED <<listing, maxPages, kind, offset, got, backs, next>>
  PROVE  OneStepPerCall!Fail
<1>1. Stopped' <=> cancelled'
  BY DEF Stopped
<1>2. CASE cancelled'
  BY <1>1, <1>2 DEF OneStepPerCall!Fail, WalkEnded, Stopped
<1>3. CASE ~cancelled'
  <2>1. Stopped' = Stopped
    BY <1>1, <1>3 DEF Stopped
  <2> QED
    BY <2>1 DEF OneStepPerCall!Fail, WalkEnded, Stopped
<1> QED
  BY <1>2, <1>3

\* A walk of many requests, retries, waits and a cancellation at any moment is
\* the walk of one step per page that Attribution, Census and TradeHistory are
\* written with (client.go:197-245).
THEOREM WalkTakesOneStepPerCall == WalkSpec => CallsAreAtomic
<1>1. WalkInit => OneStepPerCall!Init
  BY LinksAreApart DEF WalkInit, OneStepPerCall!Init, WalkEnded
<1>2. TypeOK /\ WalkTypeOK /\ UnbrokenInv /\ [WalkNext]_listingVars
        => [OneStepPerCall!Next]_(OneStepPerCall!vars)
  <2> SUFFICES ASSUME TypeOK, WalkTypeOK, UnbrokenInv, [WalkNext]_listingVars
               PROVE  [OneStepPerCall!Next]_(OneStepPerCall!vars)
    OBVIOUS
  <2>1. CASE Call
    <3>1. /\ walk = "loop" /\ walk' = "calling"
          /\ UNCHANGED <<listing, maxPages, kind, offset, got, backs, pages, next>>
      BY <2>1 DEF Call
    <3> QED
      BY <3>1, StopsOrStutters DEF WalkEnded, Stopped
  <2>2. CASE InCall
    <3>1. /\ walk = "calling" /\ walk' = "calling" /\ cancelled' = cancelled
          /\ UNCHANGED <<listing, maxPages, kind, offset, got, backs, pages, next>>
      BY <2>2 DEF InCall, walkVars, Step, BuildFails, Send, AnswerFinal, AnswerTransient, WaitOver, WaitCancelled
    <3>2. Stopped => Stopped'
      BY <2>2, <3>1, CallStaysLost DEF Stopped
    <3> QED
      BY <3>1, <3>2, StopsOrStutters DEF WalkEnded
  <2>3. CASE CallFailed
    <3>1. /\ walk = "calling" /\ walk' = "error" /\ pages' = pages /\ cancelled' = cancelled
          /\ UNCHANGED <<listing, maxPages, kind, offset, got, backs, next>>
      BY <2>3 DEF CallFailed, Back, vars
    <3>2. OneStepPerCall!Fail
      BY <3>1, FailsAsPromised DEF WalkEnded, Stopped
    <3> QED
      BY ONLY <3>2 DEF OneStepPerCall!Next
  <2>4. CASE EmptyPage
    <3>1. /\ walk = "calling" /\ walk' = "ok" /\ offset = Len(listing) /\ MaySucceed
          /\ UNCHANGED <<listing, maxPages, kind, offset, got, backs, next, pages>>
      BY <2>4 DEF EmptyPage, Back, MaySucceed
    <3>2. ~Stopped /\ ~Stopped'
      BY <3>1 DEF Stopped
    <3>3. OneStepPerCall!End
      BY <3>1, <3>2 DEF OneStepPerCall!End, WalkEnded, Stopped
    <3> QED
      BY ONLY <3>3 DEF OneStepPerCall!Next
  <2>5. ASSUME NEW n \in 1..PageSize, PageTaken(n)
        PROVE  [OneStepPerCall!Next]_(OneStepPerCall!vars)
    <3>1. /\ walk = "calling" /\ walk' = "loop" /\ MaySucceed
          /\ UNCHANGED <<listing, maxPages, kind>> /\ pages' = pages + 1
      BY <2>5 DEF PageTaken, PageComes, Back, MaySucceed
    <3>2. ~Stopped /\ ~Stopped' /\ ~WalkEnded /\ ~WalkEnded'
      BY <3>1 DEF Stopped, WalkEnded
    <3>3. next # NoLink /\ ~Capped
      BY <3>1, LinksAreApart DEF UnbrokenInv
    <3>6. \/ offset' = offset + n /\ UNCHANGED backs
          \/ /\ maxPages > 0 \/ backs < MaxBacks
             /\ offset' \in 0..(offset + n - 1)
             /\ backs' = backs + 1
             /\ ~(next' = NoLink)
      BY <2>5, LinksAreApart DEF PageTaken, LeadsOn, LeadsBack
    <3>4. /\ offset + n <= Len(listing)
          /\ kind = "trades" \/ {i \in (offset + 1)..(offset + n) : listing[i]} = (offset + 1)..(offset + n)
          /\ got' = got \cup {i \in (offset + 1)..(offset + n) : listing[i]}
      BY <2>5 DEF PageTaken, PageComes, Good, Page
    <3>5. OneStepPerCall!TakePage
      BY <3>1, <3>2, <3>3, <3>4, <3>6 DEF OneStepPerCall!TakePage, OneStepPerCall!Ended, Capped, Stopped
    <3> QED
      BY ONLY <3>5 DEF OneStepPerCall!Next
  <2>6. ASSUME NEW n \in 1..PageSize, PageRefused(n) \/ VisitFails(n)
        PROVE  [OneStepPerCall!Next]_(OneStepPerCall!vars)
    <3>1. /\ walk = "calling" /\ walk' = "error" /\ MaySucceed /\ cancelled' = cancelled
          /\ UNCHANGED <<listing, maxPages, kind, offset, got, backs, next>>
      BY <2>6 DEF PageRefused, VisitFails, PageComes, Back, MaySucceed, vars
    <3>2. pages' \in {pages, pages + 1}
      BY <2>6 DEF PageRefused, VisitFails
    <3>3. OneStepPerCall!Fail
      BY <3>1, <3>2, FailsAsPromised DEF WalkEnded, Stopped
    <3> QED
      BY ONLY <3>3 DEF OneStepPerCall!Next
  <2>7. CASE LinkUnusable
    <3>1. /\ walk = "loop" /\ walk' = "error" /\ pages' = pages /\ cancelled' = cancelled
          /\ UNCHANGED <<listing, maxPages, kind, offset, got, backs, next>>
      BY <2>7 DEF LinkUnusable, vars
    <3>2. OneStepPerCall!Fail
      BY <3>1, FailsAsPromised DEF WalkEnded, Stopped
    <3> QED
      BY ONLY <3>2 DEF OneStepPerCall!Next
  <2>8. CASE WalkOver
    <3>1. /\ walk = "loop" /\ walk' = "ok" /\ (Capped \/ next = NoLink)
          /\ UNCHANGED <<listing, maxPages, kind, offset, got, backs, next, pages>>
      BY <2>8 DEF WalkOver
    <3>2. ~Stopped /\ ~Stopped'
      BY <3>1 DEF Stopped
    <3>3. OneStepPerCall!End
      BY <3>1, <3>2 DEF OneStepPerCall!End, OneStepPerCall!Ended, Capped, WalkEnded, Stopped
    <3> QED
      BY ONLY <3>3 DEF OneStepPerCall!Next
  <2>9. CASE CancelWalk
    <3>1. /\ ~WalkEnded /\ walk' = walk /\ cancelled' = TRUE /\ ~cancelled
          /\ UNCHANGED <<listing, maxPages, kind, offset, got, backs, pages, next>>
      BY <2>9 DEF CancelWalk, Cancel, walkVars
    <3> QED
      BY <3>1, StopsOrStutters DEF WalkEnded, Stopped
  <2>10. CASE WalkReturned \/ UNCHANGED listingVars
    <3>1. /\ UNCHANGED <<walk, cancelled, pc, live, result>>
          /\ UNCHANGED <<listing, maxPages, kind, offset, got, backs, pages, next>>
      BY <2>10 DEF WalkReturned, listingVars, walkVars, vars
    <3> QED
      BY <3>1 DEF OneStepPerCall!vars, WalkEnded, MaySucceed
  <2>11. ASSUME NEW host \in Hosts, Redirect(host)
         PROVE  [OneStepPerCall!Next]_(OneStepPerCall!vars)
    <3>1. /\ UNCHANGED <<walk, cancelled, pc, live, result>>
          /\ UNCHANGED <<listing, maxPages, kind, offset, got, backs, pages, next>>
      BY <2>11 DEF Redirect, vars
    <3> QED
      BY <3>1 DEF OneStepPerCall!vars, WalkEnded, MaySucceed
  <2> QED
    BY <2>1, <2>2, <2>3, <2>4, <2>5, <2>6, <2>7, <2>8, <2>9, <2>10, <2>11 DEF WalkNext, WalkStep
<1> QED
  BY <1>1, <1>2, WalkIsInductive, WalkTypeCorrect, WalkKeepsTheCall, PTL
     DEF WalkSpec, CallsAreAtomic, OneStepPerCall!Spec
-----------------------------------------------------------------------------
\* The measure of WalkMovesOn is one of natural numbers.
LEMMA WalkLeftIsCounted ==
  ASSUME TypeOK, WalkTypeOK, CallInv, UnbrokenInv
  PROVE  BacksAhead \in Nat /\ RecordsAhead \in Nat /\ CallAhead \in Nat
<1>1. maxRetries \in Nat /\ attempt \in Nat /\ attempt <= maxRetries
  BY RetriesAreNat DEF CallInv, AttemptsInv, TypeOK
<1>2. RecordsAhead \in Nat
  BY ListingsAreSequences DEF RecordsAhead, WalkTypeOK
<1>3. pc \in {"send", "flight", "wait", "done"}
  BY DEF TypeOK
<1>4. CallAhead \in Nat
  <2>1. CASE walk = "loop"
    BY <1>1, <2>1 DEF CallAhead
  <2>2. CASE walk # "loop" /\ pc = "done"
    BY <2>2 DEF CallAhead
  <2>3. CASE walk # "loop" /\ pc # "done"
    <3>1. [send |-> 3, flight |-> 2, wait |-> 1][pc] \in {1, 2, 3}
      BY <1>3, <2>3
    <3> QED
      BY <1>1, <2>3, <3>1 DEF CallAhead
  <2> QED
    BY <2>1, <2>2, <2>3
<1>5. BacksAhead \in Nat
  BY CapsAreInts, BacksAreNat DEF BacksAhead, UnbrokenInv, WalkTypeOK
<1> QED
  BY <1>2, <1>4, <1>5

\* Every step of a call leaves fewer of them.
LEMMA CallMovesOn ==
  ASSUME TypeOK, WalkTypeOK, CallInv, InCall
  PROVE  BacksAhead' = BacksAhead /\ RecordsAhead' = RecordsAhead /\ CallAhead' < CallAhead
<1>1. /\ maxRetries \in Nat /\ attempt \in Nat /\ attempt <= maxRetries
      /\ pc = "wait" => attempt < maxRetries
  BY RetriesAreNat DEF CallInv, AttemptsInv, TypeOK
<1>2. walk = "calling" /\ UNCHANGED walkVars /\ Step
  BY DEF InCall
<1>3. RecordsAhead' = RecordsAhead /\ BacksAhead' = BacksAhead
  BY <1>2 DEF RecordsAhead, BacksAhead, WalkEnded, walkVars
<1>4. setting' = setting /\ maxRetries' = maxRetries
  <2>1. setting' = setting
    BY <1>2 DEF Step, BuildFails, Send, AnswerFinal, AnswerTransient, WaitOver, WaitCancelled
  <2> QED
    BY <2>1 DEF maxRetries
<1>5. walk' = "calling"
  BY <1>2 DEF walkVars
<1>6. CASE pc' = "done" /\ pc \in {"send", "flight", "wait"}
  <2>1. CallAhead' = 0
    BY <1>5, <1>6 DEF CallAhead
  <2>2. [send |-> 3, flight |-> 2, wait |-> 1][pc] \in {1, 2, 3}
    BY <1>6
  <2>3. CallAhead > 0
    BY <1>1, <1>2, <1>6, <2>2 DEF CallAhead
  <2> QED
    BY <1>3, <2>1, <2>3
<1>7. CASE pc = "send" /\ pc' = "flight" /\ attempt' = attempt
  <2>1. CallAhead = 3 * (maxRetries - attempt) + 3
    BY <1>2, <1>7 DEF CallAhead
  <2>2. CallAhead' = 3 * (maxRetries - attempt) + 2
    BY <1>4, <1>5, <1>7 DEF CallAhead
  <2> QED
    BY <1>1, <1>3, <2>1, <2>2
<1>8. CASE pc = "flight" /\ pc' = "wait" /\ attempt' = attempt
  <2>1. CallAhead = 3 * (maxRetries - attempt) + 2
    BY <1>2, <1>8 DEF CallAhead
  <2>2. CallAhead' = 3 * (maxRetries - attempt) + 1
    BY <1>4, <1>5, <1>8 DEF CallAhead
  <2> QED
    BY <1>1, <1>3, <2>1, <2>2
<1>9. CASE pc = "wait" /\ pc' = "send" /\ attempt' = attempt + 1
  <2>1. CallAhead = 3 * (maxRetries - attempt) + 1
    BY <1>2, <1>9 DEF CallAhead
  <2>2. CallAhead' = 3 * (maxRetries - (attempt + 1)) + 3
    BY <1>4, <1>5, <1>9 DEF CallAhead
  <2> QED
    BY <1>1, <1>3, <2>1, <2>2
<1> QED
  BY <1>2, <1>6, <1>7, <1>8, <1>9
     DEF Step, BuildFails, Send, AnswerFinal, AnswerTransient, WaitOver, WaitCancelled, Return

\* A page leaves fewer records, or fewer pages that may lead back, and a walk that
\* has ended none to ask for.
LEMMA WalkStepMovesOn ==
  ASSUME TypeOK, WalkTypeOK, CallInv, UnbrokenInv, WalkStep
  PROVE  \/ BacksAhead' < BacksAhead
         \/ /\ BacksAhead' = BacksAhead
            /\ \/ RecordsAhead' < RecordsAhead
               \/ RecordsAhead' = RecordsAhead /\ CallAhead' < CallAhead
<1>1. /\ offset \in 0..Len(listing) /\ Len(listing) \in Nat /\ maxRetries \in Nat
      /\ pages \in Nat /\ backs \in Nat /\ maxPages \in Int /\ MaxBacks \in Nat
      /\ BacksAhead \in Nat
  BY RetriesAreNat, ListingsAreSequences, CapsAreInts, BacksAreNat, WalkLeftIsCounted
     DEF WalkTypeOK, TypeOK
<1>2. walk \in {"loop", "calling"} => RecordsAhead = Len(listing) + 1 - offset
  BY DEF RecordsAhead, WalkEnded
<1>3. CASE Call
  <2>1. /\ walk = "loop" /\ walk' = "calling"
        /\ UNCHANGED <<listing, offset, setting, maxPages, pages, backs>>
    BY <1>3 DEF Call
  <2>2. pc' = "send" /\ attempt' = 0 /\ maxRetries' = maxRetries
    BY <1>3 DEF Call, maxRetries
  <2>3. RecordsAhead' = RecordsAhead /\ BacksAhead' = BacksAhead
    BY <2>1 DEF RecordsAhead, BacksAhead, WalkEnded
  <2>4. CallAhead = 3 * maxRetries + 4
    BY <2>1 DEF CallAhead
  <2>5. CallAhead' = 3 * (maxRetries - 0) + 3
    BY <2>1, <2>2 DEF CallAhead
  <2> QED
    BY <1>1, <2>3, <2>4, <2>5
<1>4. CASE InCall
  BY <1>4, CallMovesOn
<1>5. ASSUME walk \in {"loop", "calling"}, walk' \in {"ok", "error"}
      PROVE  RecordsAhead' < RecordsAhead /\ BacksAhead' <= BacksAhead
  <2>1. RecordsAhead' = 0 /\ BacksAhead' = 0
    BY <1>5 DEF RecordsAhead, BacksAhead, WalkEnded
  <2> QED
    BY <1>1, <1>2, <1>5, <2>1
<1>6. ASSUME NEW n \in 1..PageSize, PageTaken(n)
      PROVE  \/ BacksAhead' < BacksAhead
             \/ BacksAhead' = BacksAhead /\ RecordsAhead' < RecordsAhead
  <2>1. /\ walk = "calling" /\ walk' = "loop" /\ pages' = pages + 1
        /\ UNCHANGED <<listing, maxPages>> /\ n \in Nat \ {0}
    BY <1>6, PageSizeIsPositive DEF PageTaken, PageComes, Back
  <2>2. CASE maxPages > 0
    <3>1. BacksAhead = maxPages - pages /\ BacksAhead' = maxPages - (pages + 1)
      BY <2>1, <2>2 DEF BacksAhead, WalkEnded
    <3> QED
      BY <1>1, <3>1
  <2>3. CASE ~(maxPages > 0)
    <3>1. BacksAhead = MaxBacks - backs /\ BacksAhead' = MaxBacks - backs'
      BY <2>1, <2>3 DEF BacksAhead, WalkEnded
    <3>2. CASE LeadsBack(n)
      BY <1>1, <3>1, <3>2 DEF LeadsBack
    <3>3. CASE LeadsOn(n)
      <4>1. offset' = offset + n /\ backs' = backs
        BY <3>3 DEF LeadsOn
      <4>2. RecordsAhead' = Len(listing) + 1 - (offset + n)
        BY <2>1, <4>1 DEF RecordsAhead, WalkEnded
      <4> QED
        BY <1>1, <1>2, <2>1, <3>1, <4>1, <4>2
    <3> QED
      BY <1>6, <3>2, <3>3 DEF PageTaken
  <2> QED
    BY <2>2, <2>3
<1>7. CASE CallFailed \/ EmptyPage \/ LinkUnusable \/ WalkOver
  <2>1. walk \in {"loop", "calling"} /\ walk' \in {"ok", "error"}
    BY <1>7 DEF CallFailed, EmptyPage, LinkUnusable, WalkOver, Back
  <2> QED
    BY <1>1, <1>5, <2>1 DEF BacksAhead, WalkEnded
<1>8. ASSUME NEW n \in 1..PageSize, PageRefused(n) \/ VisitFails(n)
      PROVE  \/ BacksAhead' < BacksAhead
             \/ BacksAhead' = BacksAhead /\ RecordsAhead' < RecordsAhead
  <2>1. walk \in {"loop", "calling"} /\ walk' \in {"ok", "error"}
    BY <1>8 DEF PageRefused, VisitFails, PageComes, Back
  <2> QED
    BY <1>1, <1>5, <2>1 DEF BacksAhead, WalkEnded
<1> QED
  BY <1>3, <1>4, <1>6, <1>7, <1>8 DEF WalkStep

\* A walk over a listing has so many requests, waits and pages before it and no
\* more, if it has a cap or is not led back again and again (client.go:197-245,
\* and the loops at pools.go:148, positions.go:114 and trades.go:136).
THEOREM WalkIsBounded ==
  WalkSpec => /\ WalkMovesOn
              /\ [](BacksAhead \in Nat /\ RecordsAhead \in Nat /\ CallAhead \in Nat)
<1>1. TypeOK /\ WalkTypeOK /\ CallInv /\ UnbrokenInv =>
        (WalkStep =>
           \/ BacksAhead' < BacksAhead
           \/ /\ BacksAhead' = BacksAhead
              /\ \/ RecordsAhead' < RecordsAhead
                 \/ RecordsAhead' = RecordsAhead /\ CallAhead' < CallAhead)
  BY WalkStepMovesOn
<1> QED
  BY <1>1, WalkLeftIsCounted, WalkKeepsTheCall, WalkTypeCorrect, WalkIsInductive, PTL
     DEF WalkMovesOn
=============================================================================
