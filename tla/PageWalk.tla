------------------------------ MODULE PageWalk ------------------------------
(***************************************************************************)
(* A paged listing as the passes of ingest take it: one step for each      *)
(* request with all its retries.  A page comes only while the walk has not *)
(* been stopped, in the order of the listing and without a gap; a request  *)
(* may fail at any time; the walk ends well at its cap, at a page without  *)
(* a next link, or past the last record.  With MaxBacks 0 and no cap it    *)
(* only ever goes on; else links may lead it back.                         *)
(***************************************************************************)
EXTENDS Integers, Sequences

CONSTANTS PageSize, MaxBacks

VARIABLES listing,   \* for each record, whether it can be converted
          maxPages,  \* the cap when positive, else there is none
          skips,     \* a record that cannot be converted is skipped
          offset,    \* the record before the next page
          got,       \* those handed over
          backs,     \* pages whose link led back
          pages,
          cut,       \* the latest page had no next link
          stopped,
          outcome    \* "running", "ok" or "error"

vars == <<listing, maxPages, skips, offset, got, backs, pages, cut, stopped, outcome>>

Init ==
  /\ offset = 0 /\ got = {} /\ backs = 0 /\ pages = 0
  /\ cut = FALSE /\ stopped = FALSE
  /\ outcome = "running"

Ended == cut \/ (maxPages > 0 /\ pages >= maxPages)

TakePage ==
  /\ outcome = "running" /\ ~stopped /\ ~Ended
  /\ \E n \in 1..PageSize :
       LET page == (offset + 1)..(offset + n)
           good == {i \in page : listing[i]}
       IN  /\ offset + n <= Len(listing)
           /\ skips \/ good = page
           /\ got' = got \cup good
           /\ \/ offset' = offset + n /\ UNCHANGED backs
              \/ /\ maxPages > 0 \/ backs < MaxBacks
                 /\ offset' \in 0..(offset + n - 1)
                 /\ backs' = backs + 1
                 /\ ~cut'
  /\ pages' = pages + 1
  /\ cut' \in BOOLEAN
  /\ UNCHANGED <<listing, maxPages, skips, stopped, outcome>>

\* A page that could not be visited counts, although nothing came of it.
Fail ==
  /\ outcome = "running"
  /\ outcome' = "error"
  /\ pages' \in {pages, pages + 1}
  /\ stopped' \in {stopped, TRUE}
  /\ UNCHANGED <<listing, maxPages, skips, offset, got, backs, cut>>

End ==
  /\ outcome = "running"
  /\ Ended \/ (~stopped /\ offset = Len(listing))
  /\ outcome' = "ok"
  /\ UNCHANGED <<listing, maxPages, skips, offset, got, backs, pages, cut, stopped>>

Stop ==
  /\ outcome = "running" /\ ~stopped
  /\ stopped' = TRUE
  /\ UNCHANGED <<listing, maxPages, skips, offset, got, backs, pages, cut, outcome>>

Next == TakePage \/ Fail \/ End \/ Stop

Spec == Init /\ [][Next]_vars
=============================================================================
