---------------------------- MODULE TradeHistory ----------------------------
(***************************************************************************)
(* fetchTrades of cmd/ingest/main.go and Client.PoolTrades: a bounded walk *)
(* of each eligible pool's trades, newest first.  A trade is its place in  *)
(* that order, and usable when toTrade can make a price of it; earliest    *)
(* and latest close times are read off the file and left out.              *)
(***************************************************************************)
EXTENDS RunFiles

CONSTANTS Swaps,         \* each pool's trades, newest first: TRUE when usable
          TradePageSize

ASSUME SwapsAreHistories == Swaps \in [Pools -> Seq(BOOLEAN)]
ASSUME TradePageSizeIsPositive == TradePageSize \in Nat \ {0}

VARIABLES tradeAt,       \* index into eligible of the loop's current pool
          tradeStep,     \* "loop" at the loop's head, "walk" in PoolTrades
          tradePages,    \* pages of the walk so far
          passed,        \* trades the walk has gone through
          got,           \* the usable ones among them
          tradeStats,    \* TradeStats
          tradeOutcome   \* "idle" before the call, then "running", "ok" or "error"

tradeVars == <<tradeAt, tradeStep, tradePages, passed, got, tradeStats, tradeOutcome>>

TradeStats == [pools : Nat, trades : Nat, failed : Seq(Pools)]

TradesTypeOK ==
  /\ tradesFile \subseteq TradeRows
  /\ tradeAt \in 1..(Len(eligible) + 1)
  /\ tradeStep \in {"loop", "walk"}
  /\ tradeStep = "walk" => tradeAt <= Len(eligible)
  /\ tradePages \in Nat
  /\ passed \in Nat
  /\ got \subseteq 1..passed
  /\ tradeStats \in TradeStats
  /\ tradeOutcome \in {"idle", "running", "ok", "error"}

TradesInit ==
  /\ tradeAt = 1
  /\ tradeStep = "loop"
  /\ tradePages = 0
  /\ passed = 0
  /\ got = {}
  /\ tradeStats = [pools |-> 0, trades |-> 0, failed |-> <<>>]

-----------------------------------------------------------------------------
Pool == eligible[tradeAt]
TradesAtHead == tradeOutcome = "running" /\ tradeStep = "loop" /\ tradeAt <= Len(eligible)
Fetching == tradeOutcome = "running" /\ tradeStep = "walk"
Spent(maxPages) == maxPages > 0 /\ tradePages >= maxPages

\* Mutant of EndWalk: the next pool's trades are appended to this one's.
EndWalkKeepsTrades == tradeStep' = "loop" /\ tradePages' = 0 /\ passed' = 0 /\ UNCHANGED got

EndWalk == tradeStep' = "loop" /\ tradePages' = 0 /\ passed' = 0 /\ got' = {}
NextTradesPool == tradeAt' = tradeAt + 1 /\ EndWalk

\* Nothing of the world, of the other passes' files or of their results changes.
TradesOnly == UNCHANGED <<worldVars, poolsFile, positions, atAttr, manifest, eligible>>

\* The context is found cancelled at the head of the loop: the pools never
\* reached are recorded as failed, and the pass returns without an error.
TradesInterrupted ==
  /\ TradesAtHead
  /\ cancelled
  /\ tradeStats' = [tradeStats EXCEPT !.failed = @ \o SubSeq(eligible, tradeAt, Len(eligible))]
  /\ tradeOutcome' = "ok"
  /\ TradesOnly
  /\ UNCHANGED <<tradesFile, tradeAt, tradeStep, tradePages, passed, got>>

BeginTrades ==
  /\ TradesAtHead
  /\ ~cancelled
  /\ tradeStep' = "walk"
  /\ TradesOnly
  /\ UNCHANGED <<tradesFile, tradeAt, tradePages, passed, got, tradeStats, tradeOutcome>>

\* A page of trades: those without a usable price are skipped.
TradesPage(maxPages) ==
  /\ Fetching
  /\ ~Spent(maxPages)
  /\ ~cancelled
  /\ \E n \in 1..TradePageSize :
       /\ passed + n <= Len(Swaps[Pool])
       /\ passed' = passed + n
       /\ got' = got \cup {t \in (passed + 1)..(passed + n) : Swaps[Pool][t]}
  /\ tradePages' = tradePages + 1
  /\ TradesOnly
  /\ UNCHANGED <<tradesFile, tradeAt, tradeStep, tradeStats, tradeOutcome>>

\* Mutant of TradesFail: the same pool is tried again.
TradesFailRetries ==
  /\ Fetching
  /\ EndWalk
  /\ TradesOnly
  /\ UNCHANGED <<tradesFile, tradeAt, tradeStats, tradeOutcome>>

\* What the walk has fetched is dropped with it.  A next link that cannot be
\* used fails it on its last page too.
TradesFail ==
  /\ Fetching
  /\ tradeStats' = [tradeStats EXCEPT !.failed = Append(@, Pool)]
  /\ NextTradesPool
  /\ TradesOnly
  /\ UNCHANGED <<tradesFile, tradeOutcome>>

\* The bound is reached, which needs no request, or the history is over.
HistoryEnds(maxPages) ==
  /\ Fetching
  /\ Spent(maxPages) \/ (~cancelled /\ passed = Len(Swaps[Pool]))

RowsGot == {[pool |-> Pool, trade |-> t] : t \in got}

\* Mutant of TradesEnd: trades skipped for want of a price are counted.
TradesEndCountsSkipped(maxPages) ==
  /\ HistoryEnds(maxPages)
  /\ tradesFile' = tradesFile \cup RowsGot
  /\ tradeStats' = IF got = {} THEN tradeStats
                   ELSE [tradeStats EXCEPT !.pools = @ + 1, !.trades = @ + passed]
  /\ NextTradesPool
  /\ TradesOnly
  /\ UNCHANGED tradeOutcome

TradesEnd(maxPages) ==
  /\ HistoryEnds(maxPages)
  /\ tradesFile' = tradesFile \cup RowsGot
  /\ tradeStats' = IF got = {} THEN tradeStats
                   ELSE [tradeStats EXCEPT !.pools = @ + 1, !.trades = @ + Cardinality(got)]
  /\ NextTradesPool
  /\ TradesOnly
  /\ UNCHANGED tradeOutcome

\* WriteTrades fails part of the way: the newest trades are on file.
TradesNotWritten(maxPages) ==
  /\ HistoryEnds(maxPages)
  /\ \E torn \in got : tradesFile' = tradesFile \cup {row \in RowsGot : row.trade < torn}
  /\ tradeOutcome' = "error"
  /\ TradesOnly
  /\ UNCHANGED <<tradeAt, tradeStep, tradePages, passed, got, tradeStats>>

TradesOver ==
  /\ tradeOutcome = "running"
  /\ tradeStep = "loop"
  /\ tradeAt > Len(eligible)
  /\ tradeOutcome' = "ok"
  /\ TradesOnly
  /\ UNCHANGED <<tradesFile, tradeAt, tradeStep, tradePages, passed, got, tradeStats>>

TradesStep(maxPages) ==
  \/ TradesInterrupted
  \/ BeginTrades
  \/ TradesPage(maxPages)
  \/ TradesFail
  \/ TradesEnd(maxPages)
  \/ TradesOver
=============================================================================
