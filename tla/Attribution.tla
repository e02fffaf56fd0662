---------------------------- MODULE Attribution ----------------------------
(***************************************************************************)
(* attribute() of cmd/ingest/main.go: for each pool the census found       *)
(* eligible, re-read the pool row, walk its holder listing, and write the  *)
(* positions of every account not met before.  A pool whose walk fails is  *)
(* recorded and skipped; an interrupt records the pools never reached.     *)
(*                                                                         *)
(* One step is one answer of Horizon (a whole getJSON call, retries        *)
(* included, see GetJSON) together with what the code does with it before  *)
(* the next call.  A call can fail at any time; once the context is        *)
(* cancelled no call succeeds.                                             *)
(***************************************************************************)
EXTENDS RunFiles

CONSTANT AccountPageSize
ASSUME AccountPageSizeIsPositive == AccountPageSize \in Nat \ {0}

VARIABLES at,          \* index into eligible of the loop's current pool
          step,        \* "loop" at the loop's head, "walk" in PoolHolders
          cursor,      \* last account id of the walk's latest page
          found,       \* account records of the walk so far
          seen,        \* seenAccount: accounts harvested by an earlier walk
          reread,      \* the local counter, copied into stats at the end
          stats,       \* HolderStats
          outcome      \* "idle" before the call, then "running", "ok" or "error"

attrVars == <<at, step, cursor, found, seen, reread, stats, outcome>>
attributionVars == <<worldVars, fileVars, eligible, attrVars>>

AccountRecords == [account : Accounts, shares : [Pools -> Balance]]
HolderStats == [attributed : Nat, failed : Seq(Pools), positions : Nat,
                reread : Nat]

AttributionTypeOK ==
  /\ positions \subseteq PositionRows
  /\ atAttr \subseteq AtAttrRows
  /\ eligible \in Seq(Pools)
  /\ at \in 1..(Len(eligible) + 1)
  /\ step \in {"loop", "walk"}
  /\ step = "walk" => at <= Len(eligible)
  /\ cursor \in Nat
  /\ found \subseteq AccountRecords
  /\ seen \subseteq Accounts
  /\ reread \in Nat
  /\ stats \in HolderStats
  /\ outcome \in {"idle", "running", "ok", "error"}

TypeOK == WorldTypeOK /\ AttributionTypeOK

AttributionInit ==
  /\ at = 1
  /\ step = "loop"
  /\ cursor = 0
  /\ found = {}
  /\ seen = {}
  /\ reread = 0
  /\ stats = [attributed |-> 0, failed |-> <<>>, positions |-> 0,
              reread |-> 0]

-----------------------------------------------------------------------------
Current == eligible[at]
AtHead == outcome = "running" /\ step = "loop" /\ at <= Len(eligible)
Walking == outcome = "running" /\ step = "walk"

BeginWalk ==
  /\ step' = "walk"
  /\ cursor' = 0
  /\ found' = {}

\* Mutant of NextPool: skips the pool after the current one.
NextPoolSkipsOne ==
  /\ step' = "loop"
  /\ at' = at + 2
  /\ cursor' = 0
  /\ found' = {}

NextPool ==
  /\ step' = "loop"
  /\ at' = at + 1
  /\ cursor' = 0
  /\ found' = {}

\* A fatal write error: the stats reached so far are returned with the error.
Abort ==
  /\ outcome' = "error"
  /\ UNCHANGED <<at, step, cursor, found>>

\* Mutant of Interrupted: the current pool is taken for one already decided.
InterruptedLosesCurrent ==
  /\ AtHead
  /\ cancelled
  /\ stats' = [stats EXCEPT !.failed = @ \o SubSeq(eligible, at + 1, Len(eligible))]
  /\ outcome' = "ok"
  /\ UNCHANGED <<worldVars, fileVars, eligible, at, step, cursor, found, seen, reread>>

\* The head of the loop finds the context cancelled: the pools never reached
\* are recorded as failed, and the pass returns without an error.
Interrupted ==
  /\ AtHead
  /\ cancelled
  /\ stats' = [stats EXCEPT !.failed = @ \o SubSeq(eligible, at, Len(eligible))]
  /\ outcome' = "ok"
  /\ UNCHANGED <<worldVars, fileVars, eligible, at, step, cursor, found, seen, reread>>

\* client.Pool answers and the row is appended to pools_at_attribution.jsonl.
RereadOk ==
  /\ AtHead
  /\ ~cancelled
  /\ Exists(Current)
  /\ WritePoolsAtAttribution([pool |-> Current, row |-> ledger[Current], walk |-> at])
  /\ reread' = reread + 1
  /\ BeginWalk
  /\ UNCHANGED <<worldVars, poolsFile, positions, tradesFile, manifest,
                 eligible, at, seen, stats, outcome>>

\* Mutant of RereadFails: the pool is counted all the same.
RereadFailsCounted ==
  /\ AtHead
  /\ ~cancelled
  /\ reread' = reread + 1
  /\ BeginWalk
  /\ UNCHANGED <<worldVars, fileVars, eligible, at, seen, stats, outcome>>

\* The row cannot be fetched: the holders are fetched all the same.  The signal
\* may arrive between the check at the loop's head and the call.
RereadFails ==
  /\ AtHead
  /\ ~cancelled
  /\ BeginWalk
  /\ UNCHANGED <<worldVars, fileVars, eligible, at, seen, reread, stats, outcome>>

RereadNotWritten ==
  /\ AtHead
  /\ ~cancelled
  /\ Exists(Current)
  /\ Abort
  /\ UNCHANGED <<worldVars, fileVars, eligible, seen, reread, stats>>

\* One page of accounts?liquidity_pool=...: each record is a snapshot of the
\* whole account at the moment the page was served.
HoldersPage ==
  /\ Walking
  /\ ~cancelled
  /\ \E page \in PageOf(Holders(ledger[Current]), cursor, AccountPageSize) :
       /\ found' = found \cup {AccountRecord(a) : a \in page}
       /\ \E last \in page : IsLast(last, page) /\ cursor' = last
  /\ UNCHANGED <<worldVars, fileVars, eligible, at, step, seen, reread, stats, outcome>>

\* Mutant of HoldersFail: the accounts of the failed walk count as seen.
HoldersFailMarksSeen ==
  /\ Walking
  /\ stats' = [stats EXCEPT !.failed = Append(@, Current)]
  /\ seen' = seen \cup {record.account : record \in found}
  /\ NextPool
  /\ UNCHANGED <<worldVars, fileVars, eligible, reread, outcome>>

\* Mutant of HoldersFail: the same pool is tried again.
HoldersFailRetries ==
  /\ Walking
  /\ step' = "loop"
  /\ cursor' = 0
  /\ found' = {}
  /\ UNCHANGED <<worldVars, fileVars, eligible, at, seen, reread, stats, outcome>>

\* Whatever pages were fetched are dropped with the walk that failed.
HoldersFail ==
  /\ Walking
  /\ stats' = [stats EXCEPT !.failed = Append(@, Current)]
  /\ NextPool
  /\ UNCHANGED <<worldVars, fileVars, eligible, seen, reread, outcome>>

\* Mutant of RowsOf: an empty position is no position.
RowsOfSharesOnly(record, walk) ==
  {[account |-> record.account, pool |-> q, shares |-> record.shares[q], walk |-> walk] :
     q \in {q \in Pools : record.shares[q] > 0}}

RowsOf(record, walk) ==
  {[account |-> record.account, pool |-> q, shares |-> record.shares[q], walk |-> walk] :
     q \in {q \in Pools : record.shares[q] # NoTrust}}

\* Mutant of Fresh: seenAccount is not consulted.
FreshForgetsSeen == found

Fresh == {record \in found : record.account \notin seen}
FreshRows == UNION {RowsOf(record, at) : record \in Fresh}

\* The empty page that ends a walk.
ListingEnds ==
  /\ Walking
  /\ ~cancelled
  /\ After(Holders(ledger[Current]), cursor) = {}

\* Mutant of HoldersEnd: the pool row is read after its holders.
HoldersEndRereadsLast ==
  /\ ListingEnds
  /\ WritePositions(FreshRows)
  /\ atAttr' = {r \in atAttr : r.walk # at}
                 \cup {[pool |-> Current, row |-> ledger[Current], walk |-> at]}
  /\ seen' = seen \cup {record.account : record \in found}
  /\ stats' = [stats EXCEPT !.attributed = @ + 1,
                            !.positions = @ + Cardinality(FreshRows)]
  /\ NextPool
  /\ UNCHANGED <<worldVars, poolsFile, tradesFile, manifest, eligible, reread, outcome>>

\* The walk is complete: the positions of accounts not seen before are written.
HoldersEnd ==
  /\ ListingEnds
  /\ WritePositions(FreshRows)
  /\ seen' = seen \cup {record.account : record \in found}
  /\ stats' = [stats EXCEPT !.attributed = @ + 1,
                            !.positions = @ + Cardinality(FreshRows)]
  /\ NextPool
  /\ UNCHANGED <<worldVars, poolsFile, atAttr, tradesFile, manifest,
                 eligible, reread, outcome>>

\* Mutant of PositionsNotWritten: the pass goes on with the next pool.
PositionsNotWrittenGoesOn ==
  /\ ListingEnds
  /\ FreshRows # {}
  /\ \E torn \in FreshRows :
       \E others \in SUBSET {row \in FreshRows \ {torn} : row.account = torn.account} :
         WritePositions(others \cup {row \in FreshRows : row.account < torn.account})
  /\ stats' = [stats EXCEPT !.attributed = @ + 1]
  /\ NextPool
  /\ UNCHANGED <<worldVars, poolsFile, atAttr, tradesFile, manifest,
                 eligible, seen, reread, outcome>>

\* WritePositions fails part of the way: the pool is already counted, the rows
\* before the failure are on file, and attribute returns the error.
PositionsNotWritten ==
  /\ ListingEnds
  /\ FreshRows # {}
  /\ \E torn \in FreshRows :
       \E others \in SUBSET {row \in FreshRows \ {torn} : row.account = torn.account} :
         WritePositions(others \cup {row \in FreshRows : row.account < torn.account})
  /\ stats' = [stats EXCEPT !.attributed = @ + 1]
  /\ Abort
  /\ UNCHANGED <<worldVars, poolsFile, atAttr, tradesFile, manifest,
                 eligible, seen, reread>>

\* The loop is over: only now is the re-read counter copied into the stats.
LoopEnds ==
  /\ outcome = "running"
  /\ step = "loop"
  /\ at > Len(eligible)
  /\ stats' = [stats EXCEPT !.reread = reread]
  /\ outcome' = "ok"
  /\ UNCHANGED <<worldVars, fileVars, eligible, at, step, cursor, found, seen, reread>>

AttributionStep ==
  \/ Interrupted
  \/ RereadOk
  \/ RereadFails
  \/ RereadNotWritten
  \/ HoldersPage
  \/ HoldersFail
  \/ HoldersEnd
  \/ PositionsNotWritten
  \/ LoopEnds

-----------------------------------------------------------------------------
(* The pass on its own: it starts on any pools in ascending order (the       *)
(* order of the census) while the ledger moves and the operator may stop it. *)

AscendingLists ==
  {s \in UNION {[1..n -> Pools] : n \in 0..Cardinality(Pools)} :
     \A i, j \in DOMAIN s : i < j => s[i] < s[j]}

Init ==
  /\ WorldInit
  /\ FilesInit
  /\ AttributionInit
  /\ eligible \in AscendingLists
  /\ outcome = "running"

WorldMoves == WorldStep /\ UNCHANGED <<fileVars, eligible, attrVars>>

\* The pass has returned and the ledger is of no more interest to it.
Returned == outcome \in {"ok", "error"} /\ UNCHANGED attributionVars

Next == AttributionStep \/ (outcome = "running" /\ WorldMoves) \/ Returned

Spec == Init /\ [][Next]_attributionVars
=============================================================================
