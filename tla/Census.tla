------------------------------ MODULE Census ------------------------------
(***************************************************************************)
(* The census pass: Client.ListPools and the visit closure that run() of   *)
(* cmd/ingest hands it.  One step is one page of the pool listing, read,   *)
(* converted, written to pools.jsonl and sifted for the later passes.      *)
(***************************************************************************)
EXTENDS RunFiles

CONSTANTS PoolPageSize,
          MinNative,  \* -min-native
          NativeLeg   \* XLM each pool holds on a native leg, or NoLeg

NoLeg == -1

ASSUME PoolPageSizeIsPositive == PoolPageSize \in Nat \ {0}
ASSUME NativeLegsAreAmounts == MinNative \in Nat /\ NativeLeg \in [Pools -> Nat \cup {NoLeg}]

VARIABLES census,  \* "running", "ok" or "error"
          listed,  \* last pool id of the latest page
          pages,   \* pages read
          pools    \* pools counted by the visit closure

censusVars == <<census, listed, pages, pools>>

CensusTypeOK ==
  /\ poolsFile \in Seq(PoolRows)
  /\ census \in {"running", "ok", "error"}
  /\ listed \in Nat
  /\ pages \in Nat
  /\ pools \in Nat

CensusInit ==
  /\ census = "running"
  /\ listed = 0
  /\ pages = 0
  /\ pools = 0

-----------------------------------------------------------------------------
Existing == {p \in Pools : Exists(p)}

\* A pool with one trustline is fully determined by the census.
attributable(p) ==
  /\ TotalTrustlines(ledger[p]) > 1
  /\ MinNative = 0 \/ NativeLeg[p] >= MinNative

\* The one ascending sequence of a set of ids.
InOrder(ids) ==
  {s \in [1..Cardinality(ids) -> ids] : \A i, j \in DOMAIN s : i < j => s[i] < s[j]}
RowsFor(ids) == [k \in DOMAIN ids |-> [pool |-> ids[k], row |-> ledger[ids[k]]]]

Capped(maxPages) == maxPages > 0 /\ pages >= maxPages
Listing(maxPages) == census = "running" /\ ~Capped(maxPages)

\* A page is written whole before its pools are counted.
PoolsPage(maxPages) ==
  /\ Listing(maxPages)
  /\ ~cancelled
  /\ \E page \in PageOf(Existing, listed, PoolPageSize) :
       /\ \E ids \in InOrder(page) : poolsFile' = poolsFile \o RowsFor(ids)
       /\ \E kept \in InOrder({p \in page : attributable(p)}) : eligible' = eligible \o kept
       /\ pools' = pools + Cardinality(page)
       /\ \E last \in page : IsLast(last, page) /\ listed' = last
  /\ pages' = pages + 1
  /\ UNCHANGED <<worldVars, positions, atAttr, tradesFile, manifest, census>>

\* WritePools fails part of the way through the page.
PoolsNotWritten(maxPages) ==
  /\ Listing(maxPages)
  /\ ~cancelled
  /\ \E page \in PageOf(Existing, listed, PoolPageSize) :
       \E ids \in InOrder(page), written \in 0..(Cardinality(page) - 1) :
         poolsFile' = poolsFile \o SubSeq(RowsFor(ids), 1, written)
  /\ pages' = pages + 1
  /\ census' = "error"
  /\ UNCHANGED <<worldVars, positions, atAttr, tradesFile, manifest, eligible,
                 listed, pools>>

\* Mutant of PoolsFail: a listing that breaks off counts as finished.
PoolsFailQuietly ==
  /\ census = "running"
  /\ census' = "ok"
  /\ UNCHANGED <<worldVars, fileVars, eligible, listed, pages, pools>>

\* The request fails, a record has a shape the client does not know (the page
\* is dropped before it is visited), or the next link is unusable, which comes
\* out before the cap is looked at.
PoolsFail ==
  /\ census = "running"
  /\ census' = "error"
  /\ UNCHANGED <<worldVars, fileVars, eligible, listed, pages, pools>>

\* The empty page that ends the listing, or the cap: the cap needs no request.
PoolsEnd(maxPages) ==
  /\ census = "running"
  /\ Capped(maxPages) \/ (~cancelled /\ After(Existing, listed) = {})
  /\ census' = "ok"
  /\ UNCHANGED <<worldVars, fileVars, eligible, listed, pages, pools>>

CensusStep(maxPages) ==
  \/ PoolsPage(maxPages)
  \/ PoolsFail
  \/ PoolsEnd(maxPages)
=============================================================================
