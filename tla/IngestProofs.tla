---------------------------- MODULE IngestProofs ----------------------------
(***************************************************************************)
(* Theorems about a whole run, for every ledger, command line and bound.   *)
(***************************************************************************)
EXTENDS IngestProps, AttributionProofs

-----------------------------------------------------------------------------
(* Facts about the operators the passes are built from.                    *)

\* The ascending sequence of a set of pools lists that set.
LEMMA InOrderLists ==
  ASSUME NEW ids \in SUBSET Pools, NEW s \in InOrder(ids)
  PROVE  /\ s \in Seq(ids) /\ s \in Seq(Pools)
         /\ Len(s) = Cardinality(ids) /\ Cardinality(ids) \in Nat
         /\ \A i, j \in DOMAIN s : i < j => s[i] < s[j]
<1>1. IsFiniteSet(ids)
  BY IdsAreFinite, FS_Subset
<1>2. Cardinality(ids) \in Nat
  BY <1>1, FS_CardinalityType
<1> QED
  BY <1>2 DEF InOrder

\* The rows of a page are census rows, one for each pool.
LEMMA RowsForPools ==
  ASSUME ledger \in Ledgers, NEW s \in Seq(Pools)
  PROVE  RowsFor(s) \in Seq(PoolRows) /\ Len(RowsFor(s)) = Len(s)
<1>1. Len(s) \in Nat /\ DOMAIN s = 1..Len(s) /\ \A k \in DOMAIN s : s[k] \in Pools
  OBVIOUS
<1>2. RowsFor(s) = [k \in 1..Len(s) |-> [pool |-> s[k], row |-> ledger[s[k]]]]
  BY <1>1 DEF RowsFor
<1>3. \A k \in 1..Len(s) : [pool |-> s[k], row |-> ledger[s[k]]] \in PoolRows
  BY <1>1 DEF PoolRows, Row, Ledgers
<1> QED
  BY <1>1, <1>2, <1>3

\* A page lies past the cursor, and the cursor moves up to its last record.
LEMMA PageMovesUp ==
  ASSUME NEW ids \in SUBSET Pools, NEW cur \in Nat, NEW size,
         NEW page \in PageOf(ids, cur, size), NEW last \in page, IsLast(last, page)
  PROVE  /\ page \subseteq ids /\ page \subseteq Pools
         /\ last \in Nat /\ cur <= last
         /\ \A x \in page : x \in Nat /\ cur < x /\ x <= last
<1>1. page \subseteq After(ids, cur)
  BY DEF PageOf
<1>2. \A x \in page : x \in ids /\ x > cur /\ x \in Nat
  BY <1>1, IdsArePositive DEF After
<1> QED
  BY <1>2 DEF IsLast

\* The trade pass writes one file.
LEMMA TradesWriteTheirOwn ==
  ASSUME TradesStep(flags.trades) \/ TradesNotWritten(flags.trades)
  PROVE  /\ TradesOnly
         /\ tradesFile \subseteq tradesFile'
         /\ tradeOutcome = "running"
         /\ TradesStep(flags.trades) => tradeOutcome' \in {"running", "ok"}
<1>1. CASE TradesInterrupted
  BY <1>1 DEF TradesInterrupted, TradesAtHead
<1>2. CASE BeginTrades
  BY <1>2 DEF BeginTrades, TradesAtHead
<1>3. CASE TradesPage(flags.trades)
  BY <1>3 DEF TradesPage, Fetching
<1>4. CASE TradesFail
  BY <1>4 DEF TradesFail, Fetching
<1>5. CASE TradesEnd(flags.trades)
  BY <1>5 DEF TradesEnd, HistoryEnds, Fetching
<1>6. CASE TradesOver
  BY <1>6 DEF TradesOver
<1>7. ASSUME TradesNotWritten(flags.trades)
      PROVE  TradesOnly /\ tradesFile \subseteq tradesFile' /\ tradeOutcome = "running"
  BY <1>7 DEF TradesNotWritten, HistoryEnds, Fetching
<1>8. TradesStep(flags.trades) => /\ TradesOnly /\ tradesFile \subseteq tradesFile'
                                  /\ tradeOutcome = "running"
                                  /\ tradeOutcome' \in {"running", "ok"}
  BY <1>1, <1>2, <1>3, <1>4, <1>5, <1>6 DEF TradesStep
<1> QED
  BY <1>7, <1>8

\* Files are only ever created.
LEMMA CreatesFiles ==
  ASSUME created \subseteq {"positions", "atAttr", "trades"}, NEW fails \in BOOLEAN, Creates(fails)
  PROVE  created' \subseteq {"positions", "atAttr", "trades"}
BY DEF Creates, Opening, Due, Filled, Rows

-----------------------------------------------------------------------------
(* Type correctness.                                                       *)

LEMMA RunTypeBegins == RunInit => RunTypeOK
<1> SUFFICES ASSUME RunInit PROVE RunTypeOK
  OBVIOUS
<1> USE DEF RunInit, WorldInit, NewWriter, FilesInit
<1>1. WorldTypeOK
  <2>1. ledger \in Ledgers
    BY InitialLedgersAreLedgers
  <2>2. moves \in 0..MaxMoves
    BY BoundsAreNat
  <2> QED
    BY <2>1, <2>2 DEF WorldTypeOK
<1>2. CensusTypeOK
  BY DEF CensusInit, CensusTypeOK
<1>3. eligible \in Seq(Pools) /\ Len(eligible) = 0
  OBVIOUS
<1>4. AttributionTypeOK
  BY <1>3 DEF AttributionInit, AttributionTypeOK, HolderStats
<1>5. TradesTypeOK
  BY <1>3 DEF TradesInit, TradesTypeOK, TradeStats
<1>6. /\ manifest \in {NoManifest, TornManifest} \cup Manifests
      /\ flags \in Flags /\ phase = "census" /\ status = 0 /\ diskFailed = FALSE /\ created = {}
  OBVIOUS
<1> HIDE DEF RunInit, WorldInit, NewWriter, FilesInit
<1> QED
  BY <1>1, <1>2, <1>4, <1>5, <1>6 DEF RunTypeOK

\* What a page of the census adds.
LEMMA CensusExtends ==
  ASSUME RunTypeOK, NEW m \in Int, CensusStep(m) \/ PoolsNotWritten(m)
  PROVE  /\ \E rows \in Seq(PoolRows) : poolsFile' = poolsFile \o rows
         /\ \E kept \in Seq(Pools) : eligible' = eligible \o kept
         /\ listed' \in Nat /\ pages' \in Nat /\ pools' \in Nat
         /\ census' \in {"running", "ok", "error"}
         /\ UNCHANGED <<worldVars, positions, atAttr, tradesFile, manifest>>
<1> USE DEF RunTypeOK, CensusTypeOK, WorldTypeOK, AttributionTypeOK
<1>0. poolsFile = poolsFile \o <<>> /\ eligible = eligible \o <<>>
      /\ <<>> \in Seq(PoolRows) /\ <<>> \in Seq(Pools)
  OBVIOUS
<1>e. Existing \in SUBSET Pools
  BY DEF Existing
<1>1. CASE PoolsPage(m)
  <2>1. PICK page \in PageOf(Existing, listed, PoolPageSize) :
          /\ \E ids \in InOrder(page) : poolsFile' = poolsFile \o RowsFor(ids)
          /\ \E kept \in InOrder({p \in page : attributable(p)}) : eligible' = eligible \o kept
          /\ pools' = pools + Cardinality(page)
          /\ \E last \in page : IsLast(last, page) /\ listed' = last
    BY <1>1 DEF PoolsPage
  <2>2. PICK last \in page : IsLast(last, page) /\ listed' = last
    BY <2>1
  <2>3. page \in SUBSET Pools /\ listed' \in Nat
    BY <1>e, <2>2, PageMovesUp
  <2>4. PICK ids \in InOrder(page) : poolsFile' = poolsFile \o RowsFor(ids)
    BY <2>1
  <2>5. PICK kept \in InOrder({p \in page : attributable(p)}) : eligible' = eligible \o kept
    BY <2>1
  <2>6. RowsFor(ids) \in Seq(PoolRows) /\ Cardinality(page) \in Nat
    BY <2>3, <2>4, InOrderLists, RowsForPools
  <2>7. kept \in Seq(Pools)
    BY <2>3, <2>5, InOrderLists
  <2>8. pages' \in Nat /\ pools' \in Nat /\ census' \in {"running", "ok", "error"}
        /\ UNCHANGED <<worldVars, positions, atAttr, tradesFile, manifest>>
    BY <1>1, <2>1, <2>6 DEF PoolsPage
  <2> QED
    BY ONLY <2>3, <2>4, <2>5, <2>6, <2>7, <2>8
<1>2. CASE PoolsFail
  BY <1>0, <1>2 DEF PoolsFail, fileVars
<1>3. CASE PoolsEnd(m)
  BY <1>0, <1>3 DEF PoolsEnd, fileVars
<1>4. CASE PoolsNotWritten(m)
  <2>0. PICK page \in PageOf(Existing, listed, PoolPageSize) :
          \E ids \in InOrder(page), written \in 0..(Cardinality(page) - 1) :
            poolsFile' = poolsFile \o SubSeq(RowsFor(ids), 1, written)
    BY <1>4 DEF PoolsNotWritten
  <2>1. PICK ids \in InOrder(page), written \in 0..(Cardinality(page) - 1) :
          poolsFile' = poolsFile \o SubSeq(RowsFor(ids), 1, written)
    BY <2>0
  <2>2. page \in SUBSET Pools
    BY <1>e DEF PageOf, After
  <2>3. RowsFor(ids) \in Seq(PoolRows) /\ Len(RowsFor(ids)) = Cardinality(page)
        /\ Cardinality(page) \in Nat
    BY <2>2, InOrderLists, RowsForPools
  <2>4. SubSeq(RowsFor(ids), 1, written) \in Seq(PoolRows)
    BY <2>3, SubSeqProperties
  <2>5. /\ pages' \in Nat /\ pools' \in Nat /\ listed' \in Nat /\ census' = "error"
        /\ eligible' = eligible \o <<>>
        /\ UNCHANGED <<worldVars, positions, atAttr, tradesFile, manifest>>
    BY <1>0, <1>4 DEF PoolsNotWritten
  <2> QED
    BY ONLY <1>0, <2>1, <2>4, <2>5
<1> QED
  BY <1>1, <1>2, <1>3, <1>4 DEF CensusStep

\* A longer list of pools leaves every place in it.
LEMMA ListGrows ==
  ASSUME RunTypeOK, NEW kept \in Seq(Pools), eligible' = eligible \o kept
  PROVE  eligible' \in Seq(Pools) /\ Len(eligible') >= Len(eligible) /\ Len(eligible) \in Nat
<1>1. eligible \in Seq(Pools)
  BY DEF RunTypeOK, AttributionTypeOK
<1>2. Len(eligible') = Len(eligible) + Len(kept) /\ eligible' \in Seq(Pools)
  BY <1>1, ConcatProperties
<1> QED
  BY <1>1, <1>2

LEMMA CensusTypeStays ==
  ASSUME RunTypeOK, InCensus
  PROVE  RunTypeOK'
<1>0. flags.maxPages \in Int
  BY FlagsAreCommandLines DEF RunTypeOK, CommandLines
<1>1. CensusStep(flags.maxPages) \/ PoolsNotWritten(flags.maxPages)
  BY DEF InCensus
<1>2. PICK rows \in Seq(PoolRows) : poolsFile' = poolsFile \o rows
  BY <1>0, <1>1, CensusExtends
<1>3. PICK kept \in Seq(Pools) : eligible' = eligible \o kept
  BY <1>0, <1>1, CensusExtends
<1>4. /\ listed' \in Nat /\ pages' \in Nat /\ pools' \in Nat
      /\ census' \in {"running", "ok", "error"}
      /\ UNCHANGED <<worldVars, positions, atAttr, tradesFile, manifest>>
  BY <1>0, <1>1, CensusExtends
<1>5. eligible' \in Seq(Pools) /\ Len(eligible') >= Len(eligible)
      /\ Len(eligible) \in Nat /\ Len(eligible') \in Nat
  BY <1>3, ListGrows
<1>6. UNCHANGED <<attrVars, tradeVars, flags, phase, status, created>> /\ diskFailed' \in BOOLEAN
  BY DEF InCensus, RunTypeOK
<1>7. WorldTypeOK'
  BY <1>4 DEF RunTypeOK, WorldTypeOK, worldVars
<1>8. CensusTypeOK'
  BY <1>2, <1>4, ConcatProperties DEF RunTypeOK, CensusTypeOK
<1>9. AttributionTypeOK'
  BY <1>4, <1>5, <1>6 DEF RunTypeOK, AttributionTypeOK, attrVars
<1>10. TradesTypeOK'
  BY <1>4, <1>5, <1>6 DEF RunTypeOK, TradesTypeOK, tradeVars
<1> QED
  BY <1>4, <1>6, <1>7, <1>8, <1>9, <1>10 DEF RunTypeOK

LEMMA AttributionRunTypeStays ==
  ASSUME RunTypeOK, InAttribution
  PROVE  RunTypeOK'
<1>1. AttributionStep /\ UNCHANGED <<censusVars, tradeVars, flags, phase, status>>
  BY DEF InAttribution
<1>2. UNCHANGED <<worldVars, poolsFile, tradesFile, manifest, eligible>>
  BY <1>1, AttributionWritesItsOwn
<1>3. TypeOK'
  BY <1>1, AttributionTypeStays DEF RunTypeOK, TypeOK
<1>4. created' \subseteq {"positions", "atAttr", "trades"} /\ diskFailed' \in BOOLEAN
  BY CreatesFiles DEF InAttribution, RunTypeOK
<1>5. CensusTypeOK'
  BY <1>1, <1>2 DEF RunTypeOK, CensusTypeOK, censusVars
<1>6. TradesTypeOK'
  BY <1>1, <1>2 DEF RunTypeOK, TradesTypeOK, tradeVars
<1> QED
  BY <1>1, <1>2, <1>3, <1>4, <1>5, <1>6 DEF RunTypeOK, TypeOK

\* What a walk of trades has got is finite.
LEMMA GotFinite ==
  ASSUME RunTypeOK
  PROVE  IsFiniteSet(got) /\ Cardinality(got) \in Nat
<1>1. got \subseteq 1..passed /\ passed \in Nat
  BY DEF RunTypeOK, TradesTypeOK
<1>2. IsFiniteSet(1..passed)
  BY <1>1, FS_Interval
<1>3. IsFiniteSet(got)
  BY <1>1, <1>2, FS_Subset
<1> QED
  BY <1>3, FS_CardinalityType

\* The counters after a walk that got n trades.
LEMMA TradeStatsAfterWalk ==
  ASSUME NEW s \in TradeStats, NEW n \in Nat
  PROVE  LET t == [s EXCEPT !.pools = @ + 1, !.trades = @ + n]
         IN  t \in TradeStats /\ t.trades = s.trades + n /\ t.failed = s.failed
<1> DEFINE u == [s EXCEPT !.pools = @ + 1]
<1>1. u \in TradeStats /\ u.trades = s.trades /\ u.failed = s.failed
  BY DEF TradeStats
<1>2. u.trades + n \in Nat
  BY <1>1 DEF TradeStats
<1>3. [u EXCEPT !.trades = u.trades + n] \in TradeStats
  BY <1>1, <1>2 DEF TradeStats
<1>4. [s EXCEPT !.pools = @ + 1, !.trades = @ + n] = [u EXCEPT !.trades = u.trades + n]
  BY <1>1 DEF TradeStats
<1> QED
  BY <1>1, <1>3, <1>4 DEF TradeStats

LEMMA TradeWalkTypeStays ==
  ASSUME RunTypeOK, TradesStep(flags.trades) \/ TradesNotWritten(flags.trades)
  PROVE  TradesTypeOK'
<1> USE DEF RunTypeOK, TradesTypeOK, AttributionTypeOK
<1>0. eligible' = eligible /\ Len(eligible) \in Nat /\ tradesFile \subseteq TradeRows
  BY TradesWriteTheirOwn DEF TradesOnly
<1>1. CASE TradesInterrupted
  <2>1. SubSeq(eligible, tradeAt, Len(eligible)) \in Seq(Pools)
    BY SubSeqProperties
  <2>2. tradeStats' \in TradeStats
    BY <1>1, <2>1, ConcatProperties DEF TradesInterrupted, TradeStats
  <2> QED
    BY <1>0, <1>1, <2>2 DEF TradesInterrupted
<1>2. CASE BeginTrades
  BY <1>0, <1>2 DEF BeginTrades, TradesAtHead
<1>3. CASE TradesPage(flags.trades)
  <2>1. PICK n \in 1..TradePageSize :
          /\ passed' = passed + n
          /\ got' = got \cup {t \in (passed + 1)..(passed + n) : Swaps[Pool][t]}
    BY <1>3 DEF TradesPage
  <2>2. n \in Nat /\ passed \in Nat /\ passed' \in Nat /\ got \subseteq 1..passed
    BY <2>1, TradePageSizeIsPositive
  <2>3. got' \subseteq 1..passed'
    <3> HIDE DEF RunTypeOK, TradesTypeOK, AttributionTypeOK
    <3>1. got' \subseteq got \cup ((passed + 1)..(passed + n))
      BY <2>1, Zenon
    <3>2. passed' = passed + n
      BY <2>1
    <3> QED
      BY ONLY <2>2, <3>1, <3>2
  <2> QED
    BY <1>0, <1>3, <2>2, <2>3 DEF TradesPage
<1>4. CASE TradesFail
  <2>1. Pool \in Pools /\ tradeAt <= Len(eligible)
    BY <1>4 DEF TradesFail, Fetching, Pool
  <2>2. tradeStats' \in TradeStats
    BY <1>4, <2>1, AppendProperties DEF TradesFail, TradeStats
  <2> QED
    BY <1>0, <1>4, <2>1, <2>2 DEF TradesFail, NextTradesPool, EndWalk
<1>5. ASSUME HistoryEnds(flags.trades)
      PROVE  /\ tradeAt <= Len(eligible) /\ Pool \in Pools
             /\ RowsGot \subseteq TradeRows
  BY <1>5 DEF HistoryEnds, Fetching, Pool, RowsGot, TradeRows
<1>6. CASE TradesEnd(flags.trades)
  <2>1. HistoryEnds(flags.trades)
    BY <1>6 DEF TradesEnd
  <2>2. tradesFile' \subseteq TradeRows
    BY <1>0, <1>5, <1>6, <2>1 DEF TradesEnd
  <2>3. tradeStats' \in TradeStats
    BY <1>6, GotFinite, TradeStatsAfterWalk DEF TradesEnd
  <2> QED
    BY <1>0, <1>5, <1>6, <2>1, <2>2, <2>3 DEF TradesEnd, NextTradesPool, EndWalk
<1>7. CASE TradesOver
  BY <1>0, <1>7 DEF TradesOver
<1>8. CASE TradesNotWritten(flags.trades)
  <2>1. tradesFile' \subseteq TradeRows
    BY <1>0, <1>5, <1>8 DEF TradesNotWritten
  <2> QED
    BY <1>0, <1>8, <2>1 DEF TradesNotWritten
<1> QED
  BY <1>1, <1>2, <1>3, <1>4, <1>6, <1>7, <1>8 DEF TradesStep

LEMMA TradesRunTypeStays ==
  ASSUME RunTypeOK, InTrades
  PROVE  RunTypeOK'
<1>1. /\ TradesStep(flags.trades) \/ TradesNotWritten(flags.trades)
      /\ UNCHANGED <<censusVars, attrVars, flags, phase, status>>
      /\ diskFailed' \in BOOLEAN
  BY DEF InTrades, RunTypeOK
<1>2. UNCHANGED <<worldVars, poolsFile, positions, atAttr, manifest, eligible>>
  BY <1>1, TradesWriteTheirOwn DEF TradesOnly
<1>3. TradesTypeOK'
  BY <1>1, TradeWalkTypeStays
<1>4. created' \subseteq {"positions", "atAttr", "trades"}
  BY CreatesFiles DEF InTrades, RunTypeOK
<1>5. WorldTypeOK' /\ CensusTypeOK'
  BY <1>1, <1>2 DEF RunTypeOK, WorldTypeOK, CensusTypeOK, worldVars, censusVars
<1>6. AttributionTypeOK'
  BY <1>1, <1>2 DEF RunTypeOK, AttributionTypeOK, attrVars
<1> QED
  BY <1>1, <1>2, <1>3, <1>4, <1>5, <1>6 DEF RunTypeOK

\* The manifest is a manifest, whatever the run has come to.
LEMMA SummaryType ==
  ASSUME RunTypeOK
  PROVE  Summary \in Manifests /\ Summary \notin {NoManifest, TornManifest}
<1>1. /\ Len(eligible) \in Nat /\ pools \in Nat /\ pages \in Nat
      /\ stats \in HolderStats /\ tradeStats \in TradeStats
      /\ flags.maxPages \in Int /\ flags.trades \in Int
  BY FlagsAreCommandLines
     DEF RunTypeOK, CensusTypeOK, AttributionTypeOK, TradesTypeOK, CommandLines
<1>2. HolderSummary \in HolderSummaries \cup {NoPass}
  BY <1>1 DEF HolderSummary, HolderSummaries, HolderStats
<1>3. TradeSummary \in TradeSummaries \cup {NoPass}
  BY <1>1 DEF TradeSummary, TradeSummaries, TradeStats
<1>4. Summary \in Manifests
  BY <1>1, <1>2, <1>3 DEF Summary, Manifests
<1> QED
  BY <1>4, MarksAreApart

\* run() hands on from pass to pass without a change to any of them.
LEMMA PassReturnsEnters ==
  ASSUME PassReturns
  PROVE  \E next \in {"attribution", "trades", "closing"} :
           /\ Enter(next) /\ status' \in {status, 1}
           /\ next = "attribution" => phase = "census"
           /\ next = "trades" => phase \in {"census", "attribution"}
           /\ phase \in {"census", "attribution", "trades"}
           /\ phase = "attribution" => outcome # "running"
<1>1. ASSUME NEW result, NEW next, Returns(result, next)
      PROVE  \E n \in {next, "closing"} : Enter(n) /\ status' \in {status, 1}
  BY <1>1 DEF Returns
<1>2. CASE phase = "census" /\ Returns(census, AfterCensus)
  <2>1. AfterCensus \in {"attribution", "trades", "closing"}
    BY DEF AfterCensus, AfterHolders
  <2> QED
    BY <1>1, <1>2, <2>1
<1>3. CASE phase = "attribution" /\ outcome # "running" /\ Returns(outcome, AfterHolders)
  <2>1. AfterHolders \in {"trades", "closing"}
    BY DEF AfterHolders
  <2> QED
    BY <1>1, <1>3, <2>1
<1>4. CASE phase = "trades" /\ Returns(tradeOutcome, "closing")
  BY <1>1, <1>4
<1> QED
  BY <1>2, <1>3, <1>4 DEF PassReturns

LEMMA RunOwnTypeStays ==
  ASSUME RunTypeOK, PassReturns \/ CreateManifest \/ WriteManifest \/ CloseFails \/ Crash
  PROVE  RunTypeOK'
<1>1. CASE PassReturns
  <2>1. PICK next \in {"attribution", "trades", "closing"} : Enter(next) /\ status' \in {status, 1}
    BY <1>1, PassReturnsEnters
  <2>2. UNCHANGED <<worldVars, fileVars, eligible, censusVars, flags, diskFailed, created,
                    at, step, cursor, found, seen, reread, stats,
                    tradeAt, tradeStep, tradePages, passed, got, tradeStats>>
    BY <2>1 DEF Enter
  <2>3. /\ phase' \in {"attribution", "trades", "closing"} /\ status' \in {0, 1}
        /\ outcome' \in {"idle", "running", "ok", "error"}
        /\ tradeOutcome' \in {"idle", "running", "ok", "error"}
    BY <2>1 DEF Enter, RunTypeOK, AttributionTypeOK, TradesTypeOK
  <2>4. WorldTypeOK' /\ CensusTypeOK'
    BY <2>2 DEF RunTypeOK, WorldTypeOK, CensusTypeOK, worldVars, censusVars, fileVars
  <2>5. AttributionTypeOK'
    BY <2>2, <2>3 DEF RunTypeOK, AttributionTypeOK, fileVars
  <2>6. TradesTypeOK'
    BY <2>2, <2>3 DEF RunTypeOK, TradesTypeOK, fileVars
  <2> QED
    BY <2>2, <2>3, <2>4, <2>5, <2>6 DEF RunTypeOK, fileVars
<1>2. ASSUME RunOnly, manifest' \in {NoManifest, TornManifest} \cup Manifests,
             phase' \in {"writing", "exited", "dead"}, status' \in {0, 1},
             diskFailed' \in BOOLEAN, created' \subseteq {"positions", "atAttr", "trades"}
      PROVE  RunTypeOK'
  <2>1. WorldTypeOK' /\ CensusTypeOK'
    BY <1>2 DEF RunOnly, RunTypeOK, WorldTypeOK, CensusTypeOK, worldVars, censusVars
  <2>2. AttributionTypeOK'
    BY <1>2 DEF RunOnly, RunTypeOK, AttributionTypeOK, attrVars
  <2>3. TradesTypeOK'
    BY <1>2 DEF RunOnly, RunTypeOK, TradesTypeOK, tradeVars
  <2> QED
    BY <1>2, <2>1, <2>2, <2>3 DEF RunOnly, RunTypeOK
<1>3. CASE CreateManifest
  BY <1>2, <1>3 DEF CreateManifest, RunTypeOK
<1>4. CASE WriteManifest
  BY <1>2, <1>4, SummaryType DEF WriteManifest, RunTypeOK
<1>5. CASE CloseFails
  BY <1>2, <1>5 DEF CloseFails, RunTypeOK
<1>6. CASE Crash
  <2>1. created' \subseteq {"positions", "atAttr", "trades"}
    BY <1>6, CreatesFiles DEF Crash, RunTypeOK
  <2> QED
    BY <1>2, <1>6, <2>1 DEF Crash, RunTypeOK
<1> QED
  BY <1>1, <1>3, <1>4, <1>5, <1>6

\* Every reachable state of a run is type-correct.
THEOREM RunTypeCorrect == RunSpec => []RunTypeOK
<1>1. RunTypeOK /\ [RunNext]_runVars => RunTypeOK'
  <2> SUFFICES ASSUME RunTypeOK, [RunNext]_runVars PROVE RunTypeOK'
    OBVIOUS
  <2>1. CASE InCensus \/ InAttribution \/ InTrades
    BY <2>1, CensusTypeStays, AttributionRunTypeStays, TradesRunTypeStays
  <2>2. CASE PassReturns \/ CreateManifest \/ WriteManifest \/ CloseFails \/ Crash
    BY <2>2, RunOwnTypeStays
  <2>3. CASE RunMoves
    <3>1. WorldTypeOK'
      BY <2>3, WorldStepType DEF RunMoves, RunTypeOK
    <3>2. CensusTypeOK' /\ AttributionTypeOK' /\ TradesTypeOK'
      BY <2>3 DEF RunMoves, RunTypeOK, CensusTypeOK, AttributionTypeOK, TradesTypeOK,
                  fileVars, censusVars, attrVars, tradeVars
    <3> QED
      BY <2>3, <3>1, <3>2 DEF RunMoves, RunTypeOK, fileVars, ingestVars
  <2>4. CASE Ended \/ UNCHANGED runVars
    <3>1. UNCHANGED runVars
      BY <2>4 DEF Ended
    <3>2. WorldTypeOK' /\ CensusTypeOK' /\ AttributionTypeOK' /\ TradesTypeOK'
      BY <3>1 DEF runVars, RunTypeOK, WorldTypeOK, CensusTypeOK, AttributionTypeOK,
                  TradesTypeOK, worldVars, fileVars, censusVars, attrVars, tradeVars
    <3> QED
      BY <3>1, <3>2 DEF runVars, RunTypeOK, fileVars, ingestVars
  <2> QED
    BY <2>1, <2>2, <2>3, <2>4 DEF RunNext, RunStep
<1> QED
  BY <1>1, RunTypeBegins, PTL DEF RunSpec

-----------------------------------------------------------------------------
(* The seal.                                                               *)

LEMMA StepsOfARun ==
  ASSUME [RunNext]_runVars
  PROVE  \/ InCensus \/ InAttribution \/ InTrades
         \/ PassReturns \/ CreateManifest \/ WriteManifest \/ CloseFails \/ Crash
         \/ RunMoves \/ UNCHANGED runVars
BY DEF RunNext, RunStep, Ended

\* No pass touches the manifest or ends the run.
LEMMA PassesLeaveTheSeal ==
  ASSUME RunTypeOK, InCensus \/ InAttribution \/ InTrades \/ PassReturns \/ RunMoves
  PROVE  /\ manifest' = manifest
         /\ phase \in {"census", "attribution", "trades"}
         /\ phase' \in {"census", "attribution", "trades", "closing"}
<1>1. CASE InCensus
  <2>1. flags.maxPages \in Int
    BY FlagsAreCommandLines DEF RunTypeOK, CommandLines
  <2> QED
    BY <1>1, <2>1, CensusExtends DEF InCensus
<1>2. CASE InAttribution
  BY <1>2, AttributionWritesItsOwn DEF InAttribution
<1>3. CASE InTrades
  BY <1>3, TradesWriteTheirOwn DEF InTrades, TradesOnly
<1>4. CASE PassReturns
  BY <1>4, PassReturnsEnters DEF Enter, fileVars
<1>5. CASE RunMoves
  BY <1>5 DEF RunMoves, fileVars, ingestVars
<1> QED
  BY <1>1, <1>2, <1>3, <1>4, <1>5

LEMMA SealStays == RunTypeOK /\ SealInv /\ [RunNext]_runVars => SealInv'
<1> SUFFICES ASSUME RunTypeOK, SealInv, [RunNext]_runVars PROVE SealInv'
  OBVIOUS
<1>1. CASE InCensus \/ InAttribution \/ InTrades \/ PassReturns \/ RunMoves
  <2>1. /\ manifest' = manifest
        /\ phase \in {"census", "attribution", "trades"}
        /\ phase' \in {"census", "attribution", "trades", "closing"}
    BY <1>1, PassesLeaveTheSeal
  <2> QED
    BY <2>1 DEF SealInv, Sealed
<1>2. CASE CreateManifest
  BY <1>2 DEF CreateManifest, SealInv, Sealed
<1>3. CASE WriteManifest
  <2>1. Summary' = Summary
    BY <1>3 DEF WriteManifest, RunOnly, Summary, HolderSummary, TradeSummary,
                censusVars, attrVars, tradeVars
  <2>2. manifest' = Summary /\ phase' = "exited"
    BY <1>3 DEF WriteManifest
  <2> QED
    BY <2>1, <2>2, SummaryType DEF SealInv, Sealed
<1>4. CASE CloseFails
  BY <1>4 DEF CloseFails, SealInv, Sealed
<1>5. CASE Crash
  BY <1>5 DEF Crash, Over, SealInv, Sealed
<1>6. CASE UNCHANGED runVars
  <2>1. Summary' = Summary /\ UNCHANGED <<manifest, phase, diskFailed, status>>
    BY <1>6 DEF runVars, fileVars, ingestVars, Summary, HolderSummary, TradeSummary,
                censusVars, attrVars, tradeVars
  <2> QED
    BY <2>1 DEF SealInv, Sealed
<1> QED
  BY <1>1, <1>2, <1>3, <1>4, <1>5, <1>6, StepsOfARun

\* The manifest belongs to Close, and stays as Close has written it.
THEOREM SealIsLast == RunSpec => []SealInv
<1>1. RunInit => SealInv
  BY DEF RunInit, NewWriter, FilesInit, SealInv, Sealed
<1> QED
  BY <1>1, SealStays, RunTypeCorrect, PTL DEF RunSpec

\* Whatever fails or is interrupted, a run that is neither killed nor let down
\* by its disk leaves a manifest, and 0 is not its exit status without one
\* (main.go:56-58, 116-126).
THEOREM ManifestIsLeft == RunSpec => []OnlyTheDiskLosesTheManifest
<1>1. SealInv => OnlyTheDiskLosesTheManifest
  BY DEF SealInv, OnlyTheDiskLosesTheManifest
<1> QED
  BY <1>1, SealIsLast, PTL

-----------------------------------------------------------------------------
(* The directory.                                                          *)

\* Appending keeps the rows there are.
LEMMA RowsOnlyGrow ==
  ASSUME RunTypeOK, NEW rows \in Seq(PoolRows), poolsFile' = poolsFile \o rows,
         positions \subseteq positions', atAttr \subseteq atAttr', tradesFile \subseteq tradesFile'
  PROVE  FileRows \subseteq FileRows'
<1>1. \A k \in DOMAIN poolsFile : k \in DOMAIN poolsFile' /\ poolsFile'[k] = poolsFile[k]
  <2>1. poolsFile \in Seq(PoolRows)
    BY DEF RunTypeOK, CensusTypeOK
  <2> QED
    BY <2>1, ConcatProperties
<1> QED
  BY <1>1, Zenon DEF FileRows

LEMMA RowsStay ==
  ASSUME UNCHANGED <<poolsFile, positions, atAttr, tradesFile>>
  PROVE  FileRows' = FileRows
BY DEF FileRows

LEMMA PassesAddRows ==
  ASSUME RunTypeOK, InCensus \/ InAttribution \/ InTrades \/ PassReturns \/ RunMoves
  PROVE  FileRows \subseteq FileRows'
<1>0. poolsFile = poolsFile \o <<>> /\ <<>> \in Seq(PoolRows)
  BY DEF RunTypeOK, CensusTypeOK
<1>1. CASE InCensus
  <2>1. flags.maxPages \in Int
    BY FlagsAreCommandLines DEF RunTypeOK, CommandLines
  <2>2. CensusStep(flags.maxPages) \/ PoolsNotWritten(flags.maxPages)
    BY <1>1 DEF InCensus
  <2>3. PICK rows \in Seq(PoolRows) : poolsFile' = poolsFile \o rows
    BY <2>1, <2>2, CensusExtends
  <2>4. UNCHANGED <<positions, atAttr, tradesFile>>
    BY <2>1, <2>2, CensusExtends
  <2> QED
    BY <2>3, <2>4, RowsOnlyGrow
<1>2. CASE InAttribution
  BY <1>0, <1>2, AttributionWritesItsOwn, RowsOnlyGrow DEF InAttribution
<1>3. CASE InTrades
  BY <1>0, <1>3, TradesWriteTheirOwn, RowsOnlyGrow DEF InTrades, TradesOnly
<1>4. CASE PassReturns
  BY <1>4, PassReturnsEnters, RowsStay DEF Enter, fileVars
<1>5. CASE RunMoves
  BY <1>5, RowsStay DEF RunMoves, fileVars
<1> QED
  BY <1>1, <1>2, <1>3, <1>4, <1>5

\* A run, failing or not, interrupted or killed, adds rows, then seals them,
\* and touches nothing afterwards (run.go:27-28, 223-226).
THEOREM DirectoryIsKept == RunSpec => KeepsTheDirectory
<1>1. RunInit => Directory!Init
  BY DEF RunInit, NewWriter, FilesInit, Directory!Init, FileRows, SealMark, Sealed, Over
<1>2. RunTypeOK /\ SealInv /\ [RunNext]_runVars => [Directory!Next]_(Directory!vars)
  <2> SUFFICES ASSUME RunTypeOK, SealInv, [RunNext]_runVars
               PROVE  [Directory!Next]_(Directory!vars)
    OBVIOUS
  <2>a. manifest = NoManifest => SealMark = "none"
    BY DEF SealMark, Sealed
  <2>1. CASE InCensus \/ InAttribution \/ InTrades \/ PassReturns \/ RunMoves
    <3>1. /\ manifest' = manifest /\ manifest = NoManifest
          /\ ~Over /\ ~Over'
      BY <2>1, PassesLeaveTheSeal DEF SealInv, Over
    <3>2. FileRows \subseteq FileRows'
      BY <2>1, PassesAddRows
    <3>3. SealMark = "none" /\ SealMark' = SealMark
      BY <2>a, <3>1 DEF SealMark, Sealed
    <3>4. Over' = Over
      BY <3>1 DEF Over
    <3>5. Directory!AddRows
      BY <3>2, <3>3, <3>4 DEF Directory!AddRows
    <3> QED
      BY <3>1, <3>5 DEF Directory!Next
  <2>2. ASSUME RunOnly PROVE FileRows' = FileRows
    BY <2>2, RowsStay DEF RunOnly
  <2>3. CASE CreateManifest
    <3>1. manifest = NoManifest /\ ~Over /\ ~Over'
      BY <2>3 DEF CreateManifest, SealInv, Over
    <3>2. SealMark = "none" /\ SealMark' = "torn"
      BY <2>a, <2>3, <3>1, MarksAreApart DEF CreateManifest, SealMark, Sealed
    <3>3. Over' = Over
      BY <3>1 DEF Over
    <3>4. Directory!BeginSeal
      BY <2>2, <2>3, <3>2, <3>3 DEF CreateManifest, Directory!BeginSeal
    <3> QED
      BY <3>1, <3>4 DEF Directory!Next
  <2>4. CASE WriteManifest
    <3>1. manifest = TornManifest /\ ~Over /\ Over' /\ manifest' = Summary
      BY <2>4 DEF WriteManifest, SealInv, Over
    <3>2. SealMark = "torn" /\ SealMark' = "whole"
      BY <3>1, SummaryType, MarksAreApart DEF SealMark, Sealed
    <3>3. Directory!Seal
      BY <2>2, <2>4, <3>1, <3>2 DEF WriteManifest, Directory!Seal
    <3> QED
      BY <3>1, <3>3 DEF Directory!Next
  <2>5. CASE CloseFails \/ Crash
    <3>1. manifest' = manifest /\ ~Over /\ Over' /\ RunOnly
      BY <2>5 DEF CloseFails, Crash, Over
    <3>2. Directory!End
      BY <2>2, <3>1 DEF Directory!End, SealMark, Sealed
    <3> QED
      BY <3>1, <3>2 DEF Directory!Next
  <2>6. CASE UNCHANGED runVars
    <3>1. UNCHANGED <<poolsFile, positions, atAttr, tradesFile, manifest, phase>>
      BY <2>6 DEF runVars, fileVars, ingestVars
    <3> QED
      BY <3>1, RowsStay DEF Directory!vars, SealMark, Sealed, Over
  <2> QED
    BY <2>1, <2>3, <2>4, <2>5, <2>6, StepsOfARun
<1> QED
  BY <1>1, <1>2, RunTypeCorrect, SealIsLast, PTL DEF RunSpec, KeepsTheDirectory, Directory!Spec

-----------------------------------------------------------------------------
(* The order of the census.                                                *)

\* A page's pools come after those handed over before.
LEMMA PageKeepsOrder ==
  ASSUME RunTypeOK, OrderInv, NEW m \in Int, PoolsPage(m)
  PROVE  OrderInv'
<1>1. PICK page \in PageOf(Existing, listed, PoolPageSize) :
        /\ \E ids \in InOrder(page) : poolsFile' = poolsFile \o RowsFor(ids)
        /\ \E kept \in InOrder({p \in page : attributable(p)}) : eligible' = eligible \o kept
        /\ pools' = pools + Cardinality(page)
        /\ \E last \in page : IsLast(last, page) /\ listed' = last
  BY DEF PoolsPage
<1>2. PICK last \in page : IsLast(last, page) /\ listed' = last
  BY <1>1
<1>3. /\ listed \in Nat /\ last \in Nat /\ listed <= last /\ page \subseteq Pools
      /\ \A x \in page : x \in Nat /\ listed < x /\ x <= last
  <2>1. Existing \in SUBSET Pools /\ listed \in Nat
    BY DEF Existing, RunTypeOK, CensusTypeOK
  <2> QED
    BY <1>2, <2>1, PageMovesUp
<1>4. PICK kept \in InOrder({p \in page : attributable(p)}) : eligible' = eligible \o kept
  BY <1>1
<1>5. /\ kept \in Seq(Pools) /\ \A i \in DOMAIN kept : kept[i] \in page
      /\ \A i, j \in DOMAIN kept : i < j => kept[i] < kept[j]
  BY <1>3, <1>4, InOrderLists
<1>6. /\ eligible \in Seq(Pools) /\ Len(eligible) \in Nat /\ Len(kept) \in Nat
      /\ \A i \in DOMAIN eligible : eligible[i] \in Nat
  <2>1. eligible \in Seq(Pools)
    BY DEF RunTypeOK, AttributionTypeOK
  <2>2. \A i \in DOMAIN eligible : eligible[i] \in Pools
    BY <2>1
  <2>3. \A p \in Pools : p \in Nat
    BY IdsArePositive
  <2>4. \A i \in DOMAIN eligible : eligible[i] \in Nat
    BY ONLY <2>2, <2>3
  <2>5. Len(eligible) \in Nat /\ Len(kept) \in Nat
    BY ONLY <1>5, <2>1
  <2> QED
    BY <2>1, <2>4, <2>5
<1>7. /\ DOMAIN eligible' = 1..(Len(eligible) + Len(kept))
      /\ DOMAIN eligible = 1..Len(eligible) /\ DOMAIN kept = 1..Len(kept)
      /\ \A i \in DOMAIN eligible' :
           \/ i \in DOMAIN eligible /\ eligible'[i] = eligible[i]
           \/ /\ i > Len(eligible) /\ i - Len(eligible) \in DOMAIN kept
              /\ eligible'[i] = kept[i - Len(eligible)]
  BY <1>4, <1>5, <1>6, ConcatProperties
<1>8. /\ \A i \in DOMAIN eligible : eligible[i] <= listed
      /\ \A i, j \in DOMAIN eligible : i < j => eligible[i] < eligible[j]
  BY DEF OrderInv
<1>9. ASSUME NEW i \in DOMAIN eligible'
      PROVE  eligible'[i] <= last
  <2>1. CASE i \in DOMAIN eligible /\ eligible'[i] = eligible[i]
    <3>1. eligible[i] <= listed /\ eligible[i] \in Nat
      BY <1>6, <1>8, <2>1
    <3> QED
      BY ONLY <1>3, <2>1, <3>1
  <2>2. CASE i - Len(eligible) \in DOMAIN kept /\ eligible'[i] = kept[i - Len(eligible)]
    <3>1. eligible'[i] \in page
      BY <1>5, <2>2
    <3> QED
      BY ONLY <1>3, <3>1
  <2> QED
    BY <1>7, <2>1, <2>2
<1>10. ASSUME NEW i \in DOMAIN eligible', NEW j \in DOMAIN eligible', i < j
       PROVE  eligible'[i] < eligible'[j]
  <2>0. i \in Nat /\ j \in Nat
    BY <1>7
  <2>1. CASE j \in DOMAIN eligible
    <3>1. i \in DOMAIN eligible /\ eligible'[i] = eligible[i] /\ eligible'[j] = eligible[j]
      BY <1>6, <1>7, <1>10, <2>0, <2>1
    <3> QED
      BY <1>8, <1>10, <2>1, <3>1
  <2>2. CASE i \in DOMAIN eligible /\ j \notin DOMAIN eligible
    <3>1. eligible'[i] = eligible[i] /\ eligible'[j] \in page
      BY <1>5, <1>6, <1>7, <2>0, <2>2
    <3>2. eligible[i] <= listed /\ eligible[i] \in Nat
      BY <1>6, <1>8, <2>2
    <3> QED
      BY ONLY <1>3, <3>1, <3>2
  <2>3. CASE i \notin DOMAIN eligible /\ j \notin DOMAIN eligible
    <3>1. /\ i - Len(eligible) \in DOMAIN kept /\ eligible'[i] = kept[i - Len(eligible)]
          /\ j - Len(eligible) \in DOMAIN kept /\ eligible'[j] = kept[j - Len(eligible)]
      BY <1>7, <2>3
    <3>2. i - Len(eligible) < j - Len(eligible)
      BY <1>6, <1>10, <2>0
    <3> QED
      BY <1>5, <3>1, <3>2
  <2> QED
    BY <1>6, <1>7, <1>10, <2>0, <2>1, <2>2, <2>3
<1> QED
  BY <1>2, <1>9, <1>10 DEF OrderInv

\* Nothing but the census changes the list, or its cursor.
LEMMA OnlyTheCensusLists ==
  ASSUME [RunNext]_runVars, ~InCensus
  PROVE  UNCHANGED <<eligible, listed, poolsFile, pools>>
<1>1. CASE InAttribution
  BY <1>1, AttributionWritesItsOwn DEF InAttribution, censusVars
<1>2. CASE InTrades
  BY <1>2, TradesWriteTheirOwn DEF InTrades, TradesOnly, censusVars
<1>3. CASE PassReturns
  BY <1>3, PassReturnsEnters DEF Enter, censusVars, fileVars
<1>4. CASE CreateManifest \/ WriteManifest \/ CloseFails \/ Crash
  BY <1>4 DEF CreateManifest, WriteManifest, CloseFails, Crash, RunOnly, censusVars
<1>5. CASE RunMoves \/ UNCHANGED runVars
  BY <1>5 DEF RunMoves, runVars, censusVars, fileVars
<1> QED
  BY <1>1, <1>2, <1>3, <1>4, <1>5, StepsOfARun

\* The pools handed on are in ascending order, none twice.
LEMMA OrderIsKept == RunSpec => []OrderInv
<1>1. RunInit => OrderInv
  BY DEF RunInit, OrderInv
<1>2. RunTypeOK /\ OrderInv /\ [RunNext]_runVars => OrderInv'
  <2> SUFFICES ASSUME RunTypeOK, OrderInv, [RunNext]_runVars PROVE OrderInv'
    OBVIOUS
  <2>1. CASE InCensus
    <3>1. flags.maxPages \in Int
      BY FlagsAreCommandLines DEF RunTypeOK, CommandLines
    <3>2. CASE PoolsPage(flags.maxPages)
      BY <3>1, <3>2, PageKeepsOrder
    <3>3. CASE PoolsFail \/ PoolsEnd(flags.maxPages) \/ PoolsNotWritten(flags.maxPages)
      BY <3>3 DEF PoolsFail, PoolsEnd, PoolsNotWritten, OrderInv
    <3> QED
      BY <2>1, <3>2, <3>3 DEF InCensus, CensusStep
  <2>2. CASE ~InCensus
    BY <2>2, OnlyTheCensusLists DEF OrderInv
  <2> QED
    BY <2>1, <2>2
<1> QED
  BY <1>1, <1>2, RunTypeCorrect, PTL DEF RunSpec

-----------------------------------------------------------------------------
(* One pass after the other.                                               *)

LEMMA PhaseStays == RunTypeOK /\ PhaseInv /\ [RunNext]_runVars => PhaseInv'
<1> SUFFICES ASSUME RunTypeOK, PhaseInv, [RunNext]_runVars PROVE PhaseInv'
  OBVIOUS
<1>1. CASE InCensus
  <2>1. flags.maxPages \in Int
    BY FlagsAreCommandLines DEF RunTypeOK, CommandLines
  <2>2. UNCHANGED <<positions, atAttr, tradesFile>>
    BY <1>1, <2>1, CensusExtends DEF InCensus
  <2>3. UNCHANGED <<attrVars, tradeVars, phase>> /\ phase = "census" /\ (diskFailed => diskFailed')
    BY <1>1 DEF InCensus
  <2> QED
    BY <2>2, <2>3 DEF PhaseInv, AttributionInit, TradesInit, attrVars, tradeVars
<1>2. CASE InAttribution
  <2>1. /\ outcome = "running" /\ outcome' \in {"running", "ok", "error"}
        /\ tradesFile' = tradesFile
    BY <1>2, AttributionWritesItsOwn DEF InAttribution
  <2>2. /\ phase = "attribution" /\ phase' = phase /\ UNCHANGED tradeVars
        /\ diskFailed' = (diskFailed \/ outcome' = "error")
    BY <1>2 DEF InAttribution
  <2> QED
    BY <2>1, <2>2 DEF PhaseInv, TradesInit, tradeVars
<1>3. CASE InTrades
  <2>1. tradeOutcome = "running" /\ UNCHANGED <<positions, atAttr>>
    BY <1>3, TradesWriteTheirOwn DEF InTrades, TradesOnly
  <2>2. /\ phase = "trades" /\ phase' = phase /\ UNCHANGED attrVars
        /\ diskFailed => diskFailed'
    BY <1>3 DEF InTrades
  <2>3. /\ tradeOutcome' \in {"running", "ok", "error"}
        /\ tradeOutcome' = "error" => diskFailed'
    BY <1>3, TradesWriteTheirOwn DEF InTrades, TradesNotWritten
  <2> QED
    BY <2>1, <2>2, <2>3 DEF PhaseInv, AttributionInit, attrVars
<1>4. CASE PassReturns
  <2>1. PICK next \in {"attribution", "trades", "closing"} :
          /\ Enter(next)
          /\ next = "attribution" => phase = "census"
          /\ next = "trades" => phase \in {"census", "attribution"}
          /\ phase \in {"census", "attribution", "trades"}
          /\ phase = "attribution" => outcome # "running"
    BY <1>4, PassReturnsEnters
  <2>2. /\ UNCHANGED <<positions, atAttr, tradesFile, diskFailed, at, step, cursor, found,
                       seen, reread, stats, tradeAt, tradeStep, tradePages, passed, got, tradeStats>>
        /\ phase' = next
        /\ outcome' = IF next = "attribution" THEN "running" ELSE outcome
        /\ tradeOutcome' = IF next = "trades" THEN "running" ELSE tradeOutcome
    BY <2>1 DEF Enter, fileVars
  <2> QED
    BY <2>1, <2>2 DEF PhaseInv, AttributionInit, TradesInit
<1>5. CASE CreateManifest \/ WriteManifest \/ CloseFails \/ Crash
  <2>1. UNCHANGED <<positions, atAttr, tradesFile, attrVars, tradeVars>>
    BY <1>5 DEF CreateManifest, WriteManifest, CloseFails, Crash, RunOnly
  <2>2. /\ phase' \in {"writing", "exited", "dead"}
        /\ phase' # "dead" => phase \in {"closing", "writing"}
    BY <1>5 DEF CreateManifest, WriteManifest, CloseFails, Crash
  <2>3. diskFailed => diskFailed'
    BY <1>5 DEF CreateManifest, WriteManifest, CloseFails, Crash
  <2> QED
    BY <2>1, <2>2, <2>3 DEF PhaseInv, AttributionInit, TradesInit, attrVars, tradeVars
<1>6. CASE RunMoves \/ UNCHANGED runVars
  <2>1. UNCHANGED <<positions, atAttr, tradesFile, attrVars, tradeVars, phase, diskFailed>>
    BY <1>6 DEF RunMoves, runVars, fileVars, ingestVars
  <2> QED
    BY <2>1 DEF PhaseInv, AttributionInit, TradesInit, attrVars, tradeVars
<1> QED
  BY <1>1, <1>2, <1>3, <1>4, <1>5, <1>6, StepsOfARun

\* A pass begins after the ones before it have returned, on nothing of its own.
LEMMA PhasesFollow == RunSpec => []PhaseInv
<1>1. RunInit => PhaseInv
  BY DEF RunInit, NewWriter, FilesInit, PhaseInv, AttributionInit, TradesInit
<1> QED
  BY <1>1, PhaseStays, RunTypeCorrect, PTL DEF RunSpec

-----------------------------------------------------------------------------
(* The trades.                                                             *)

\* A pool the loop is not past is none of those it is past.
LEMMA NotPastYet ==
  ASSUME RunTypeOK, OrderInv, NEW n \in Nat, n <= Len(eligible),
         NEW k \in (n + 1)..Len(eligible)
  PROVE  eligible[k] \in Pools /\ eligible[k] \notin Past(n)
<1>1. /\ eligible \in Seq(Pools) /\ Len(eligible) \in Nat /\ k \in 1..Len(eligible)
      /\ DOMAIN eligible = 1..Len(eligible)
  BY DEF RunTypeOK, AttributionTypeOK
<1>2. ASSUME NEW i \in 1..n, eligible[i] = eligible[k]
      PROVE  FALSE
  <2>1. i \in DOMAIN eligible /\ k \in DOMAIN eligible /\ i < k
    BY <1>1
  <2>2. eligible[i] < eligible[k]
    BY <2>1 DEF OrderInv
  <2>3. eligible[k] \in Pools /\ \A p \in Pools : p \in Nat
    BY <1>1, IdsArePositive
  <2> QED
    BY <1>2, <2>2, <2>3
<1> QED
  BY <1>1, <1>2 DEF Past

\* Past one more pool.
LEMMA OnePast ==
  ASSUME RunTypeOK, tradeAt <= Len(eligible)
  PROVE  Past(tradeAt) = Past(tradeAt - 1) \cup {Pool} /\ tradeAt \in Nat /\ Pool \in Pools
<1>1. tradeAt \in Nat /\ 1..tradeAt = (1..(tradeAt - 1)) \cup {tradeAt} /\ tradeAt \in 1..Len(eligible)
  BY DEF RunTypeOK, TradesTypeOK, AttributionTypeOK
<1>2. Pool \in Pools
  BY <1>1 DEF RunTypeOK, AttributionTypeOK, Pool
<1> QED
  BY <1>1, <1>2 DEF Past, Pool

\* The part of a property a pool's window has.
Recent(p, w) ==
  \A t \in w : t \in {s \in DOMAIN Swaps[p] : Swaps[p][s]} /\ \A s \in 1..t : Swaps[p][s] => s \in w

\* The usable ones of the trades gone through are a window, and so are those
\* before any of them.
LEMMA GoneThroughIsRecent ==
  ASSUME NEW p \in Pools, NEW n \in Nat, n <= Len(Swaps[p]), NEW w,
         w = {t \in 1..n : Swaps[p][t]}
  PROVE  Recent(p, w) /\ \A torn \in Nat : Recent(p, {t \in w : t < torn})
<1>1. DOMAIN Swaps[p] = 1..Len(Swaps[p]) /\ Len(Swaps[p]) \in Nat
  BY SwapsAreHistories
<1>2. ASSUME NEW t \in w
      PROVE  /\ t \in DOMAIN Swaps[p] /\ Swaps[p][t]
             /\ \A s \in 1..t : Swaps[p][s] => s \in w /\ s <= t
  BY <1>1
<1>3. Recent(p, w)
  BY <1>2 DEF Recent
<1>4. ASSUME NEW torn \in Nat, NEW t \in w, t < torn, NEW s \in 1..t, Swaps[p][s]
      PROVE  s < torn /\ s \in w
  BY <1>2, <1>4
<1> QED
  BY <1>2, <1>3, <1>4 DEF Recent

\* Rows of one pool only leave the windows of the others as they were.
LEMMA WindowGrows ==
  ASSUME RunTypeOK, TradesInv, tradeOutcome = "running", Pool \notin Past(tradeAt - 1),
         NEW w, tradesFile' = tradesFile \cup {[pool |-> Pool, trade |-> t] : t \in w}
  PROVE  \A p \in Pools :
           /\ p # Pool => TradeWindow(p)' = TradeWindow(p)
           /\ p = Pool => TradeWindow(p) = {} /\ TradeWindow(p)' = w
<1>1. \A r \in tradesFile : r.pool # Pool
  BY DEF TradesInv
<1> TAKE p \in Pools
<1>2. CASE p # Pool
  <2>1. {r \in tradesFile' : r.pool = p} = {r \in tradesFile : r.pool = p}
    BY <1>2
  <2> QED
    BY <1>2, <2>1 DEF TradeWindow
<1>3. CASE p = Pool
  <2>1. {r \in tradesFile : r.pool = p} = {}
    BY <1>1, <1>3
  <2>2. {r \in tradesFile' : r.pool = p} = {[pool |-> Pool, trade |-> t] : t \in w}
    BY <1>1, <1>3
  <2>3. TradeWindow(p)' = {r.trade : r \in {[pool |-> Pool, trade |-> t] : t \in w}}
    BY <2>2 DEF TradeWindow
  <2>4. TradeWindow(p)' = w
    <3> DEFINE new(t) == [pool |-> Pool, trade |-> t]
    <3>1. ASSUME NEW t \in w PROVE t \in TradeWindow(p)'
      <4>1. new(t) \in {new(u) : u \in w} /\ new(t).trade = t
        OBVIOUS
      <4> QED
        BY <2>3, <4>1
    <3>2. ASSUME NEW x \in TradeWindow(p)' PROVE x \in w
      <4>1. PICK r \in {new(u) : u \in w} : x = r.trade
        BY <2>3
      <4> QED
        BY <4>1
    <3> QED
      BY <3>1, <3>2
  <2> QED
    BY <1>3, <2>1, <2>4 DEF TradeWindow
<1> QED
  BY <1>2, <1>3
\* Every step of the trade pass.
LEMMA TradesStay ==
  ASSUME RunTypeOK, OrderInv, TradesInv,
         TradesStep(flags.trades) \/ TradesNotWritten(flags.trades)
  PROVE  TradesInv'
<1>1. /\ tradeAt \in Nat \ {0} /\ Len(eligible) \in Nat /\ eligible \in Seq(Pools)
      /\ tradeStats \in TradeStats /\ tradeStats.failed \in Seq(Pools) /\ passed \in Nat
      /\ tradeStep = "walk" => tradeAt <= Len(eligible)
      /\ tradeStep \in {"loop", "walk"}
  BY DEF RunTypeOK, TradesTypeOK, AttributionTypeOK, TradeStats
<1>2. /\ eligible' = eligible /\ tradeOutcome = "running"
      /\ {row.pool : row \in tradesFile} \subseteq Past(tradeAt - 1)
      /\ Listed(tradeStats.failed) \subseteq Past(tradeAt - 1)
      /\ \A p \in Pools : Recent(p, TradeWindow(p))
      /\ \A p \in Pools : p \in Listed(tradeStats.failed) => TradeWindow(p) = {}
      /\ tradeStep = "loop" => passed = 0 /\ got = {}
  BY TradesWriteTheirOwn DEF TradesOnly, TradesInv, TradesAreRecentWindows, Recent
<1>3. ASSUME NEW p \in Pools, p \notin Past(tradeAt - 1)
      PROVE  TradeWindow(p) = {}
  BY <1>2, <1>3 DEF TradeWindow
<1>4. ASSUME tradeAt <= Len(eligible)
      PROVE  Pool \in Pools /\ Pool \notin Past(tradeAt - 1)
  BY <1>1, <1>4, NotPastYet DEF Pool
<1>5. ASSUME tradesFile' = tradesFile
      PROVE  \A p \in Pools : TradeWindow(p)' = TradeWindow(p)
  BY <1>5 DEF TradeWindow
<1>6. CASE TradesInterrupted
  <2>1. tradesFile' = tradesFile /\ tradeAt <= Len(eligible) /\ tradeOutcome' = "ok"
        /\ UNCHANGED <<tradeAt, tradeStep, passed, got>> /\ tradeStep = "loop"
    BY <1>6 DEF TradesInterrupted, TradesAtHead
  <2>2. PICK rest \in Seq(Pools) :
          /\ rest = SubSeq(eligible, tradeAt, Len(eligible))
          /\ tradeStats'.failed = tradeStats.failed \o rest
    <3>1. SubSeq(eligible, tradeAt, Len(eligible)) \in Seq(Pools)
      BY <1>1, SubSeqProperties
    <3> QED
      BY <1>1, <1>6, <3>1 DEF TradesInterrupted, TradeStats
  <2>3. ASSUME NEW p \in Listed(rest)
        PROVE  TradeWindow(p) = {} /\ p \in Pools
    <3>1. PICK i \in DOMAIN rest : p = rest[i]
      BY DEF Listed
    <3>2. /\ Len(rest) = Len(eligible) - tradeAt + 1 /\ i \in 1..Len(rest)
          /\ rest[i] = eligible[tradeAt + i - 1]
      BY <1>1, <2>1, <2>2, SubSeqProperties
    <3>3. p \in Pools /\ p \notin Past(tradeAt - 1)
      <4>1. tradeAt - 1 \in Nat /\ tradeAt - 1 <= Len(eligible)
            /\ tradeAt + i - 1 \in ((tradeAt - 1) + 1)..Len(eligible)
        BY <1>1, <2>1, <3>2
      <4> QED
        BY <3>1, <3>2, <4>1, NotPastYet
    <3> QED
      BY <1>3, <3>3
  <2>4. Listed(tradeStats'.failed) = Listed(tradeStats.failed) \cup Listed(rest)
    BY <1>1, <2>2, ListedConcat
  <2>5. TradesAreRecentWindows'
    BY <1>2, <1>5, <2>1, <2>3, <2>4 DEF TradesAreRecentWindows, Recent
  <2> QED
    BY <1>2, <2>1, <2>5 DEF TradesInv
<1>7. CASE BeginTrades
  <2>1. /\ UNCHANGED <<tradesFile, tradeAt, passed, got, tradeStats, tradeOutcome>>
        /\ tradeStep = "loop" /\ tradeStep' = "walk" /\ tradeAt <= Len(eligible)
    BY <1>7 DEF BeginTrades, TradesAtHead
  <2>2. TradesAreRecentWindows'
    BY <1>2, <1>5, <2>1 DEF TradesAreRecentWindows, Recent
  <2>3. passed' <= Len(Swaps[Pool']) /\ got' = {t \in 1..passed' : Swaps[Pool'][t]}
    <3>1. Pool' \in Pools /\ passed' = 0 /\ got' = {} /\ Len(Swaps[Pool']) \in Nat
      BY <1>2, <1>4, <2>1, SwapsAreHistories DEF Pool
    <3> QED
      BY <3>1
  <2> QED
    BY <1>2, <2>1, <2>2, <2>3 DEF TradesInv, Past
<1>8. CASE TradesPage(flags.trades)
  <2>1. /\ UNCHANGED <<tradesFile, tradeAt, tradeStep, tradeStats, tradeOutcome>> /\ tradeStep = "walk"
    BY <1>8 DEF TradesPage, Fetching
  <2>2. PICK n \in 1..TradePageSize :
          /\ passed + n <= Len(Swaps[Pool]) /\ passed' = passed + n
          /\ got' = got \cup {t \in (passed + 1)..(passed + n) : Swaps[Pool][t]}
    BY <1>8 DEF TradesPage
  <2>3. Pool' = Pool /\ got = {t \in 1..passed : Swaps[Pool][t]}
    BY <1>2, <2>1 DEF Pool, TradesInv
  <2>4. 1..passed' = (1..passed) \cup ((passed + 1)..(passed + n))
    BY <1>1, <2>2, TradePageSizeIsPositive
  <2>5. got' = {t \in 1..passed' : Swaps[Pool'][t]}
    BY <2>2, <2>3, <2>4
  <2>6. TradesAreRecentWindows'
    BY <1>2, <1>5, <2>1 DEF TradesAreRecentWindows, Recent
  <2> QED
    BY <1>2, <2>1, <2>2, <2>3, <2>5, <2>6 DEF TradesInv, Past
<1>9. CASE TradesFail
  <2>1. /\ tradesFile' = tradesFile /\ tradeOutcome' = tradeOutcome
        /\ tradeAt' = tradeAt + 1 /\ tradeStep = "walk" /\ tradeStep' = "loop"
        /\ passed' = 0 /\ got' = {} /\ tradeAt <= Len(eligible)
    BY <1>1, <1>9 DEF TradesFail, Fetching, NextTradesPool, EndWalk
  <2>2. Pool \in Pools /\ TradeWindow(Pool) = {}
    BY <1>3, <1>4, <2>1
  <2>3. Listed(tradeStats'.failed) = Listed(tradeStats.failed) \cup {Pool}
    <3>1. tradeStats'.failed = Append(tradeStats.failed, Pool)
      BY <1>1, <1>9 DEF TradesFail, TradeStats
    <3> QED
      BY <1>1, <2>2, <3>1, ListedAppend
  <2>4. TradesAreRecentWindows'
    BY <1>2, <1>5, <2>1, <2>2, <2>3 DEF TradesAreRecentWindows, Recent
  <2>6. Past(tradeAt - 1)' = Past(tradeAt - 1) \cup {Pool}
    <3>1. Past(tradeAt - 1)' = Past(tradeAt)
      BY <1>1, <1>2, <2>1 DEF Past
    <3> QED
      BY <2>1, <3>1, OnePast
  <2>7. {row.pool : row \in tradesFile'} \subseteq Past(tradeAt - 1)'
    BY <1>2, <2>1, <2>6
  <2>8. Listed(tradeStats.failed)' \subseteq Past(tradeAt - 1)'
    BY <1>2, <2>3, <2>6 DEF Listed
  <2> QED
    BY <2>1, <2>4, <2>7, <2>8 DEF TradesInv
<1>10. ASSUME HistoryEnds(flags.trades)
       PROVE  /\ tradeStep = "walk" /\ tradeAt <= Len(eligible) /\ Pool \in Pools
              /\ Pool \notin Past(tradeAt - 1)
              /\ Recent(Pool, got) /\ \A torn \in Nat : Recent(Pool, {t \in got : t < torn})
  <2>1. tradeStep = "walk" /\ tradeAt <= Len(eligible)
    BY <1>1, <1>10 DEF HistoryEnds, Fetching
  <2>2. passed <= Len(Swaps[Pool]) /\ got = {t \in 1..passed : Swaps[Pool][t]}
    BY <2>1 DEF TradesInv
  <2> QED
    BY <1>1, <1>4, <2>1, <2>2, GoneThroughIsRecent
<1>11. ASSUME HistoryEnds(flags.trades), NEW w, Recent(Pool, w),
              tradesFile' = tradesFile \cup {[pool |-> Pool, trade |-> t] : t \in w},
              tradeStats'.failed = tradeStats.failed
       PROVE  TradesAreRecentWindows'
  <2>1. \A p \in Pools : /\ p # Pool => TradeWindow(p)' = TradeWindow(p)
                         /\ p = Pool => TradeWindow(p) = {} /\ TradeWindow(p)' = w
    BY <1>2, <1>10, <1>11, WindowGrows
  <2>2. \A p \in Pools : Recent(p, TradeWindow(p)')
    BY <1>2, <1>11, <2>1
  <2>3. \A p \in Pools : p \in Listed(tradeStats.failed) => p # Pool
    BY <1>2, <1>10, <1>11
  <2>4. Listed(tradeStats.failed)' = Listed(tradeStats.failed)
    BY <1>11 DEF Listed
  <2> QED
    BY <1>2, <2>1, <2>2, <2>3, <2>4 DEF TradesAreRecentWindows, Recent
<1>12. CASE TradesEnd(flags.trades)
  <2>1. /\ HistoryEnds(flags.trades) /\ tradeOutcome' = tradeOutcome
        /\ tradesFile' = tradesFile \cup RowsGot
        /\ tradeAt' = tradeAt + 1 /\ tradeStep' = "loop" /\ passed' = 0 /\ got' = {}
    BY <1>12 DEF TradesEnd, NextTradesPool, EndWalk
  <2>2. tradeStats'.failed = tradeStats.failed
    BY <1>1, <1>12, GotFinite, TradeStatsAfterWalk DEF TradesEnd
  <2>3. TradesAreRecentWindows'
    BY <1>10, <1>11, <2>1, <2>2 DEF RowsGot
  <2>4. Past(tradeAt - 1)' = Past(tradeAt - 1) \cup {Pool}
    <3>1. Past(tradeAt - 1)' = Past(tradeAt)
      BY <1>1, <1>2, <2>1 DEF Past
    <3> QED
      BY <1>10, <2>1, <3>1, OnePast
  <2>5. {row.pool : row \in tradesFile'} \subseteq Past(tradeAt - 1) \cup {Pool}
    BY <1>2, <2>1 DEF RowsGot
  <2>6. Listed(tradeStats.failed)' \subseteq Past(tradeAt - 1)'
    BY <1>2, <2>2, <2>4 DEF Listed
  <2> QED
    BY <2>1, <2>3, <2>4, <2>5, <2>6 DEF TradesInv
<1>13. CASE TradesNotWritten(flags.trades)
  <2>1. /\ HistoryEnds(flags.trades) /\ tradeOutcome' = "error"
        /\ UNCHANGED <<tradeAt, tradeStep, passed, got, tradeStats>>
    BY <1>13 DEF TradesNotWritten
  <2>2. PICK torn \in got : tradesFile' = tradesFile \cup {row \in RowsGot : row.trade < torn}
    BY <1>13 DEF TradesNotWritten
  <2>3. torn \in Nat
    BY <2>2 DEF RunTypeOK, TradesTypeOK
  <2>4. {row \in RowsGot : row.trade < torn}
          = {[pool |-> Pool, trade |-> t] : t \in {t \in got : t < torn}}
    BY DEF RowsGot
  <2>5. TradesAreRecentWindows'
    BY <1>10, <1>11, <2>1, <2>2, <2>3, <2>4
  <2>6. Pool' = Pool
    BY <1>2, <2>1 DEF Pool
  <2> QED
    BY <2>1, <2>5, <2>6 DEF TradesInv
<1>14. CASE TradesOver
  <2>1. /\ UNCHANGED <<tradesFile, tradeAt, tradeStep, passed, got, tradeStats>>
        /\ tradeOutcome' = "ok" /\ tradeStep = "loop"
    BY <1>14 DEF TradesOver
  <2>2. TradesAreRecentWindows'
    BY <1>2, <1>5, <2>1 DEF TradesAreRecentWindows, Recent
  <2> QED
    BY <1>2, <2>1, <2>2 DEF TradesInv
<1> QED
  BY <1>6, <1>7, <1>8, <1>9, <1>12, <1>13, <1>14 DEF TradesStep
\* Before the pass there is nothing to a trade history.
LEMMA NoTradesYet ==
  ASSUME TradesInit, tradesFile = {}, tradeOutcome = "idle"
  PROVE  TradesInv
<1>1. /\ tradeStep = "loop" /\ passed = 0 /\ got = {}
      /\ tradeStats.failed = <<>> /\ tradesFile = {}
  BY DEF TradesInit
<1>2. Listed(tradeStats.failed) = {}
  BY <1>1 DEF Listed
<1>3. \A p \in Pools : TradeWindow(p) = {}
  BY <1>1 DEF TradeWindow
<1> QED
  BY <1>1, <1>2, <1>3 DEF TradesInv, TradesAreRecentWindows

\* Only the trade pass touches what the trade pass keeps, and it is called once.
LEMMA OnlyTheTradePassTrades ==
  ASSUME RunTypeOK, [RunNext]_runVars, ~InTrades
  PROVE  /\ UNCHANGED <<tradesFile, tradeAt, tradeStep, tradePages, passed, got, tradeStats>>
         /\ \/ tradeOutcome' = tradeOutcome
            \/ PassReturns /\ tradeOutcome' = "running" /\ phase \in {"census", "attribution"}
<1>1. CASE InCensus
  <2>1. flags.maxPages \in Int
    BY FlagsAreCommandLines DEF RunTypeOK, CommandLines
  <2> QED
    BY <1>1, <2>1, CensusExtends DEF InCensus, tradeVars
<1>2. CASE InAttribution
  BY <1>2, AttributionWritesItsOwn DEF InAttribution, tradeVars
<1>3. CASE PassReturns
  BY <1>3, PassReturnsEnters DEF Enter, fileVars
<1>4. CASE CreateManifest \/ WriteManifest \/ CloseFails \/ Crash
  BY <1>4 DEF CreateManifest, WriteManifest, CloseFails, Crash, RunOnly, tradeVars
<1>5. CASE RunMoves \/ UNCHANGED runVars
  BY <1>5 DEF RunMoves, runVars, tradeVars, fileVars
<1> QED
  BY <1>1, <1>2, <1>3, <1>4, <1>5, StepsOfARun

LEMMA TradesInvStays ==
  RunTypeOK /\ OrderInv /\ PhaseInv /\ PhaseInv' /\ TradesInv /\ [RunNext]_runVars => TradesInv'
<1> SUFFICES ASSUME RunTypeOK, OrderInv, PhaseInv, PhaseInv', TradesInv, [RunNext]_runVars
             PROVE  TradesInv'
  OBVIOUS
<1>1. CASE InTrades
  BY <1>1, TradesStay DEF InTrades
<1>2. CASE tradeOutcome' = "idle"
  <2>1. TradesInit' /\ tradesFile' = {}
    BY <1>2 DEF PhaseInv
  <2>2. /\ tradeStep' = "loop" /\ passed' = 0 /\ got' = {}
        /\ tradeStats'.failed = <<>>
    BY <2>1 DEF TradesInit
  <2>3. Listed(tradeStats.failed)' = {}
    BY <2>2 DEF Listed
  <2>4. \A p \in Pools : TradeWindow(p)' = {}
    BY <2>1 DEF TradeWindow
  <2> QED
    BY <2>1, <2>2, <2>3, <2>4 DEF TradesInv, TradesAreRecentWindows
<1>3. CASE ~InTrades /\ tradeOutcome' # "idle"
  <2>1. /\ UNCHANGED <<tradesFile, tradeAt, tradeStep, tradePages, passed, got, tradeStats>>
        /\ \/ tradeOutcome' = tradeOutcome
           \/ PassReturns /\ tradeOutcome' = "running" /\ phase \in {"census", "attribution"}
    BY <1>3, OnlyTheTradePassTrades
  <2>2. ~InCensus
    BY <1>3, <2>1 DEF PhaseInv, InCensus, tradeVars
  <2>3. eligible' = eligible
    BY <2>2, OnlyTheCensusLists
  <2>4. tradeOutcome' \in {"idle", "running"} => tradeOutcome \in {"idle", "running"}
    BY <2>1 DEF PhaseInv
  <2>5. TradesAreRecentWindows'
    <3>1. \A p : TradeWindow(p)' = TradeWindow(p)
      BY <2>1 DEF TradeWindow
    <3>2. Listed(tradeStats.failed)' = Listed(tradeStats.failed)
      BY <2>1 DEF Listed
    <3> QED
      BY <3>1, <3>2 DEF TradesInv, TradesAreRecentWindows
  <2>6. Pool' = Pool /\ Past(tradeAt - 1)' = Past(tradeAt - 1)
        /\ Listed(tradeStats.failed)' = Listed(tradeStats.failed)
    BY <2>1, <2>3 DEF Pool, Past, Listed
  <2>7. /\ tradeStep' = "walk" => passed' <= Len(Swaps[Pool'])
                                  /\ got' = {t \in 1..passed' : Swaps[Pool'][t]}
        /\ tradeStep' = "loop" => passed' = 0 /\ got' = {}
    BY <2>1, <2>6 DEF TradesInv
  <2>8. tradeOutcome' \in {"idle", "running"} =>
          /\ {row.pool : row \in tradesFile'} \subseteq Past(tradeAt - 1)'
          /\ Listed(tradeStats.failed)' \subseteq Past(tradeAt - 1)'
    BY <2>1, <2>4, <2>6 DEF TradesInv
  <2> QED
    BY <2>5, <2>7, <2>8 DEF TradesInv
<1> QED
  BY <1>1, <1>2, <1>3

LEMMA RunTrades == RunSpec => []TradesInv
<1>1. RunInit => TradesInv
  <2>1. RunInit => TradesInit /\ tradesFile = {} /\ tradeOutcome = "idle"
    BY DEF RunInit, NewWriter, FilesInit
  <2> QED
    BY <2>1, NoTradesYet
<1> QED
  BY <1>1, TradesInvStays, RunTypeCorrect, OrderIsKept, PhasesFollow, PTL DEF RunSpec

\* The trades on file for a pool are an unbroken window of its most recent
\* usable ones, whatever was interrupted, and a pool that failed has none
\* (main.go:332-340, trades.go:124-131).
THEOREM TradesAreWindows == RunSpec => []TradesAreRecentWindows
<1>1. TradesInv => TradesAreRecentWindows
  BY DEF TradesInv
<1> QED
  BY <1>1, RunTrades, PTL

-----------------------------------------------------------------------------
(* The attribution pass inside the run.                                    *)

\* Only the attribution pass touches what it keeps, and it is called once,
\* when the census has returned.
LEMMA OnlyTheAttributionPassHarvests ==
  ASSUME RunTypeOK, [RunNext]_runVars, ~InAttribution
  PROVE  /\ UNCHANGED <<positions, atAttr, at, step, cursor, found, seen, reread, stats>>
         /\ \/ outcome' = outcome
            \/ PassReturns /\ outcome' = "running" /\ phase = "census"
<1>1. CASE InCensus
  <2>1. flags.maxPages \in Int
    BY FlagsAreCommandLines DEF RunTypeOK, CommandLines
  <2> QED
    BY <1>1, <2>1, CensusExtends DEF InCensus, attrVars
<1>2. CASE InTrades
  BY <1>2, TradesWriteTheirOwn DEF InTrades, TradesOnly, attrVars
<1>3. CASE PassReturns
  BY <1>3, PassReturnsEnters DEF Enter, fileVars
<1>4. CASE CreateManifest \/ WriteManifest \/ CloseFails \/ Crash
  BY <1>4 DEF CreateManifest, WriteManifest, CloseFails, Crash, RunOnly, attrVars
<1>5. CASE RunMoves \/ UNCHANGED runVars
  BY <1>5 DEF RunMoves, runVars, attrVars, fileVars
<1> QED
  BY <1>1, <1>2, <1>3, <1>4, <1>5, StepsOfARun

\* The ledger moves on its own.
LEMMA OnlyMovesMove ==
  ASSUME RunTypeOK, [RunNext]_runVars, ~RunMoves
  PROVE  UNCHANGED worldVars
<1>1. CASE InCensus
  <2>1. flags.maxPages \in Int
    BY FlagsAreCommandLines DEF RunTypeOK, CommandLines
  <2> QED
    BY <1>1, <2>1, CensusExtends DEF InCensus
<1>2. CASE InAttribution
  BY <1>2, AttributionWritesItsOwn DEF InAttribution
<1>3. CASE InTrades
  BY <1>3, TradesWriteTheirOwn DEF InTrades, TradesOnly
<1>4. CASE PassReturns
  BY <1>4, PassReturnsEnters DEF Enter
<1>5. CASE CreateManifest \/ WriteManifest \/ CloseFails \/ Crash
  BY <1>5 DEF CreateManifest, WriteManifest, CloseFails, Crash, RunOnly
<1>6. CASE UNCHANGED runVars
  BY <1>6 DEF runVars
<1> QED
  BY <1>1, <1>2, <1>3, <1>4, <1>5, <1>6, StepsOfARun

\* Before the pass there is nothing to a harvest.
LEMMA NoHarvestYet ==
  ASSUME TypeOK', AttributionInit', positions' = {}
  PROVE  HarvestInv'
<1>1. /\ at' = 1 /\ step' = "loop" /\ found' = {} /\ seen' = {} /\ cursor' = 0
  BY DEF AttributionInit
<1>2. Attributed' = {}
  BY <1>1 DEF Attributed
<1> QED
  BY <1>1, <1>2 DEF HarvestInv, WalkInv, FileInv, NoPositionTwice

LEMMA RunHarvestStays ==
  RunTypeOK /\ RunTypeOK' /\ PhaseInv /\ PhaseInv' /\ HarvestInv /\ [RunNext]_runVars => HarvestInv'
<1> SUFFICES ASSUME RunTypeOK, RunTypeOK', PhaseInv, PhaseInv', HarvestInv, [RunNext]_runVars
             PROVE  HarvestInv'
  OBVIOUS
<1>1. TypeOK /\ TypeOK'
  BY DEF RunTypeOK, TypeOK
<1>2. CASE InAttribution
  BY <1>1, <1>2, HarvestStays DEF InAttribution
<1>3. CASE RunMoves
  BY <1>1, <1>3, HarvestMoves DEF RunMoves, fileVars
<1>4. CASE ~InAttribution /\ ~RunMoves
  <2>1. /\ UNCHANGED <<positions, atAttr, at, step, cursor, found, seen, reread, stats>>
        /\ \/ outcome' = outcome
           \/ PassReturns /\ outcome' = "running" /\ phase = "census"
    BY <1>4, OnlyTheAttributionPassHarvests
  <2>2. UNCHANGED worldVars
    BY <1>4, OnlyMovesMove
  <2>3. CASE InCensus
    <3>1. AttributionInit /\ positions = {} /\ UNCHANGED attrVars
      BY <2>3 DEF InCensus, PhaseInv
    <3>2. AttributionInit' /\ positions' = {}
      BY <2>1, <3>1 DEF AttributionInit
    <3> QED
      BY <1>1, <3>2, NoHarvestYet
  <2>4. CASE ~InCensus
    <3>1. eligible' = eligible
      BY <2>4, OnlyTheCensusLists
    <3>2. CASE outcome' = outcome
      BY <1>1, <2>1, <2>2, <3>1, <3>2, HarvestKept DEF attrVars
    <3>3. CASE phase = "census"
      <4>1. AttributionInit /\ positions = {}
        BY <3>3 DEF PhaseInv
      <4>2. AttributionInit' /\ positions' = {}
        BY <2>1, <4>1 DEF AttributionInit
      <4> QED
        BY <1>1, <4>2, NoHarvestYet
    <3> QED
      BY <2>1, <3>2, <3>3
  <2> QED
    BY <2>3, <2>4
<1> QED
  BY <1>2, <1>3, <1>4

\* Inside a run as on its own, the pass writes no position twice and every pool
\* nobody touched reconciles exactly.
LEMMA RunHarvests == RunSpec => []HarvestInv
<1>1. RunInit => HarvestInv
  BY DEF RunInit, WorldInit, NewWriter, FilesInit, AttributionInit, HarvestInv, WalkInv,
         FileInv, NoPositionTwice, Attributed
<1> QED
  BY <1>1, RunHarvestStays, RunTypeCorrect, PhasesFollow, PTL DEF RunSpec

\* The pass sets out with its books in order.
LEMMA BooksOpen ==
  ASSUME TypeOK', OrderInv', AttributionInit', positions' = {}, outcome' = "running"
  PROVE  AccountsInv'
<1>1. /\ at' = 1 /\ stats'.failed = <<>> /\ stats'.attributed = 0 /\ stats'.positions = 0
  BY DEF AttributionInit
<1>2. Listed(stats.failed)' = {} /\ Attributed' = {} /\ Len(stats'.failed) = 0
      /\ DOMAIN stats'.failed = {}
  BY <1>1 DEF Listed, Attributed
<1>3. Cardinality(Attributed') = 0 /\ Cardinality(positions') = 0
  BY <1>2, FS_EmptySet
<1> QED
  BY <1>1, <1>2, <1>3 DEF AccountsInv, OrderInv

LEMMA RunBooksStay ==
  /\ RunTypeOK /\ RunTypeOK' /\ PhaseInv /\ OrderInv' /\ HarvestInv'
  /\ RunBooksInv /\ [RunNext]_runVars
  => RunBooksInv'
<1> SUFFICES ASSUME RunTypeOK, RunTypeOK', PhaseInv, OrderInv', HarvestInv, HarvestInv',
                    outcome # "idle" => AccountsInv, [RunNext]_runVars,
                    outcome' # "idle"
             PROVE  AccountsInv'
  BY DEF RunBooksInv
<1>1. TypeOK /\ TypeOK'
  BY DEF RunTypeOK, TypeOK
<1>2. CASE InAttribution
  <2>1. AttributionStep /\ outcome # "idle"
    BY <1>2, AttributionWritesItsOwn DEF InAttribution
  <2> QED
    BY <1>1, <2>1, AccountsStay
<1>3. CASE ~InAttribution
  <2>1. /\ UNCHANGED <<positions, atAttr, at, step, cursor, found, seen, reread, stats>>
        /\ \/ outcome' = outcome
           \/ PassReturns /\ outcome' = "running" /\ phase = "census"
    BY <1>3, OnlyTheAttributionPassHarvests
  <2>2. CASE outcome' = outcome
    <3>1. ~InCensus
      BY <2>2 DEF PhaseInv, InCensus
    <3> QED
      BY <2>1, <2>2, <3>1, OnlyTheCensusLists, AccountsKept
  <2>3. CASE outcome' = "running" /\ phase = "census"
    <3>1. AttributionInit /\ positions = {}
      BY <2>3 DEF PhaseInv
    <3>2. AttributionInit' /\ positions' = {}
      BY <2>1, <3>1 DEF AttributionInit
    <3> QED
      BY <1>1, <2>3, <3>2, BooksOpen
  <2> QED
    BY <2>1, <2>2, <2>3
<1> QED
  BY <1>2, <1>3

\* A run keeps the books of its attribution pass.
LEMMA RunKeepsBooks == RunSpec => []RunBooksInv
<1>1. RunInit /\ HarvestInv => RunBooksInv
  BY DEF RunInit, RunBooksInv
<1> QED
  BY <1>1, RunBooksStay, RunTypeCorrect, PhasesFollow, OrderIsKept, RunHarvests, PTL DEF RunSpec

-----------------------------------------------------------------------------
(* The counts.                                                             *)

\* A trade on file is a row of the file, and none of them is there already.
LEMMA NewRowsAreCounted ==
  ASSUME RunTypeOK, OrderInv, TradesInv, IsFiniteSet(tradesFile), HistoryEnds(flags.trades)
  PROVE  /\ IsFiniteSet(tradesFile \cup RowsGot)
         /\ Cardinality(tradesFile \cup RowsGot) = Cardinality(tradesFile) + Cardinality(got)
<1>1. IsFiniteSet(got) /\ Cardinality(got) \in Nat /\ got \subseteq Nat
  BY GotFinite DEF RunTypeOK, TradesTypeOK
<1>2. IsFiniteSet(RowsGot) /\ Cardinality(RowsGot) = Cardinality(got)
  <2> DEFINE f == [t \in got |-> [pool |-> Pool, trade |-> t]]
  <2>1. f \in Bijection(got, RowsGot)
    <3>1. f \in Injection(got, RowsGot)
      <4>1. \A t \in got : f[t] \in RowsGot
        BY DEF RowsGot
      <4>2. \A t, u \in got : f[t] = f[u] => t = u
        <5> SUFFICES ASSUME NEW t \in got, NEW u \in got, f[t] = f[u] PROVE t = u
          OBVIOUS
        <5>1. f[t].trade = t /\ f[u].trade = u
          OBVIOUS
        <5> QED
          BY <5>1
      <4> QED
        BY <4>1, <4>2 DEF Injection, IsInjective
    <3>2. f \in Surjection(got, RowsGot)
      BY <3>1 DEF Surjection, Injection, RowsGot
    <3> QED
      BY <3>1, <3>2 DEF Bijection
  <2>2. ExistsBijection(got, RowsGot)
    BY <2>1 DEF ExistsBijection
  <2> QED
    BY <1>1, <2>2, FS_Bijection
<1>3. tradesFile \cap RowsGot = {}
  <2>1. tradeOutcome = "running" /\ tradeStep = "walk" /\ tradeAt <= Len(eligible)
        /\ tradeAt \in 1..Len(eligible) /\ tradeAt - 1 \in Nat
        /\ tradeAt - 1 <= Len(eligible) /\ tradeAt \in ((tradeAt - 1) + 1)..Len(eligible)
    BY DEF HistoryEnds, Fetching, RunTypeOK, TradesTypeOK, AttributionTypeOK
  <2>2. Pool \notin Past(tradeAt - 1)
    BY <2>1, NotPastYet DEF Pool
  <2>3. \A r \in tradesFile : r.pool # Pool
    BY <2>1, <2>2 DEF TradesInv
  <2> QED
    BY <2>3 DEF RowsGot
<1>4. Cardinality(tradesFile \cap RowsGot) = 0
  BY <1>3, FS_EmptySet
<1>5. Cardinality(tradesFile) \in Nat
  BY FS_CardinalityType
<1>6. /\ IsFiniteSet(tradesFile \cup RowsGot)
      /\ Cardinality(tradesFile \cup RowsGot)
           = Cardinality(tradesFile) + Cardinality(RowsGot) - Cardinality(tradesFile \cap RowsGot)
  BY <1>2, FS_Union
<1> QED
  BY <1>1, <1>2, <1>4, <1>5, <1>6

\* The trade pass adds rows as it counts them, until a write fails.
LEMMA TradesAreCounted ==
  ASSUME RunTypeOK, OrderInv, TradesInv, IsFiniteSet(tradesFile),
         TradesStep(flags.trades) \/ TradesNotWritten(flags.trades)
  PROVE  /\ IsFiniteSet(tradesFile')
         /\ TradesStep(flags.trades) /\ tradeStats.trades = Cardinality(tradesFile) =>
              tradeStats'.trades = Cardinality(tradesFile')
<1>0. tradeStats \in TradeStats
  BY DEF RunTypeOK, TradesTypeOK
<1>1. CASE TradesInterrupted \/ BeginTrades \/ TradesPage(flags.trades) \/ TradesFail \/ TradesOver
  <2>1. tradesFile' = tradesFile
    BY <1>1 DEF TradesInterrupted, BeginTrades, TradesPage, TradesFail, TradesOver
  <2>2. tradeStats'.trades = tradeStats.trades
    BY <1>0, <1>1
       DEF TradesInterrupted, BeginTrades, TradesPage, TradesFail, TradesOver, TradeStats
  <2> QED
    BY <2>1, <2>2
<1>2. CASE TradesEnd(flags.trades)
  <2>1. HistoryEnds(flags.trades) /\ tradesFile' = tradesFile \cup RowsGot
    BY <1>2 DEF TradesEnd
  <2>2. /\ IsFiniteSet(tradesFile')
        /\ Cardinality(tradesFile') = Cardinality(tradesFile) + Cardinality(got)
    BY <2>1, NewRowsAreCounted
  <2>3. Cardinality(tradesFile) \in Nat /\ Cardinality(got) \in Nat
    BY FS_CardinalityType, GotFinite
  <2>4. tradeStats'.trades = tradeStats.trades + Cardinality(got)
    <3>1. CASE got = {}
      BY <1>0, <1>2, <3>1, FS_EmptySet DEF TradesEnd, TradeStats
    <3>2. CASE got # {}
      BY <1>0, <1>2, <2>3, <3>2, TradeStatsAfterWalk DEF TradesEnd
    <3> QED
      BY <3>1, <3>2
  <2> QED
    BY <2>2, <2>3, <2>4
<1>3. ASSUME TradesNotWritten(flags.trades)
      PROVE  IsFiniteSet(tradesFile')
  <2>1. /\ HistoryEnds(flags.trades)
        /\ tradesFile' \subseteq tradesFile \cup RowsGot
    BY <1>3 DEF TradesNotWritten
  <2> QED
    BY <2>1, NewRowsAreCounted, FS_Subset
<1>4. CASE ~TradesStep(flags.trades)
  BY <1>3, <1>4
<1> QED
  BY <1>1, <1>2, <1>4 DEF TradesStep

\* Without a failed write, the files that exist are those with rows.
LEMMA FilesGetRows ==
  ASSUME created = Filled, Creates(FALSE),
         positions \subseteq positions', atAttr \subseteq atAttr', tradesFile \subseteq tradesFile'
  PROVE  created' = Filled'
<1>1. Filled \subseteq Filled'
  BY DEF Filled, Rows
<1> QED
  BY <1>1 DEF Creates

LEMMA FilesAreLeft ==
  ASSUME UNCHANGED <<positions, atAttr, tradesFile>>
  PROVE  Filled' = Filled
BY DEF Filled, Rows

\* A page of the census is counted as it was written.
LEMMA PoolsAreCounted ==
  ASSUME RunTypeOK, NEW m \in Int, CensusStep(m), pools = Len(poolsFile)
  PROVE  pools' = Len(poolsFile')
<1>1. CASE PoolsPage(m)
  <2>1. PICK page \in PageOf(Existing, listed, PoolPageSize) :
          /\ \E ids \in InOrder(page) : poolsFile' = poolsFile \o RowsFor(ids)
          /\ pools' = pools + Cardinality(page)
          /\ \E last \in page : IsLast(last, page) /\ listed' = last
    BY <1>1 DEF PoolsPage
  <2>2. PICK ids \in InOrder(page) : poolsFile' = poolsFile \o RowsFor(ids)
    BY <2>1
  <2>3. page \in SUBSET Pools
    <3>1. Existing \in SUBSET Pools /\ listed \in Nat
      BY DEF Existing, RunTypeOK, CensusTypeOK
    <3> QED
      BY <2>1, <3>1, PageMovesUp
  <2>4. ids \in Seq(Pools) /\ Len(ids) = Cardinality(page) /\ Cardinality(page) \in Nat
    BY <2>2, <2>3, InOrderLists
  <2>5. RowsFor(ids) \in Seq(PoolRows) /\ Len(RowsFor(ids)) = Len(ids)
    BY <2>4, RowsForPools DEF RunTypeOK, WorldTypeOK
  <2>6. Len(poolsFile') = Len(poolsFile) + Len(RowsFor(ids))
    BY <2>2, <2>5, ConcatProperties DEF RunTypeOK, CensusTypeOK
  <2> QED
    BY <2>1, <2>4, <2>5, <2>6
<1>2. CASE PoolsFail \/ PoolsEnd(m)
  BY <1>2 DEF PoolsFail, PoolsEnd, fileVars
<1> QED
  BY <1>1, <1>2 DEF CensusStep
LEMMA CountStays ==
  RunTypeOK /\ OrderInv /\ PhaseInv /\ TradesInv /\ CountInv /\ [RunNext]_runVars => CountInv'
<1> SUFFICES ASSUME RunTypeOK, OrderInv, PhaseInv, TradesInv, CountInv, [RunNext]_runVars
             PROVE  CountInv'
  OBVIOUS
<1>1. CASE InCensus
  <2>1. flags.maxPages \in Int
    BY FlagsAreCommandLines DEF RunTypeOK, CommandLines
  <2>2. UNCHANGED <<positions, atAttr, tradesFile, tradeStats, created, phase>> /\ phase = "census"
    BY <1>1, <2>1, CensusExtends DEF InCensus, tradeVars
  <2>3. ~diskFailed' => ~diskFailed /\ CensusStep(flags.maxPages)
    BY <1>1 DEF InCensus
  <2> QED
    BY <2>1, <2>2, <2>3, FilesAreLeft, PoolsAreCounted DEF CountInv
<1>2. CASE InAttribution
  <2>1. /\ UNCHANGED <<poolsFile, tradesFile, pools, tradeStats>>
        /\ positions \subseteq positions' /\ atAttr \subseteq atAttr'
    BY <1>2, AttributionWritesItsOwn DEF InAttribution, censusVars, tradeVars
  <2>2. /\ ~diskFailed' => ~diskFailed /\ Creates(FALSE)
        /\ phase = "attribution"
    BY <1>2 DEF InAttribution, Creates
  <2> QED
    BY <2>1, <2>2, FilesGetRows DEF CountInv
<1>3. CASE InTrades
  <2>1. /\ TradesStep(flags.trades) \/ TradesNotWritten(flags.trades)
        /\ UNCHANGED <<poolsFile, positions, atAttr, pools>>
        /\ tradesFile \subseteq tradesFile' /\ phase = "trades"
        /\ tradeOutcome' # "error" => Creates(FALSE)
    BY <1>3, TradesWriteTheirOwn DEF InTrades, TradesOnly, censusVars, Creates
  <2>2. ~diskFailed' => /\ ~diskFailed /\ TradesStep(flags.trades)
                        /\ tradeOutcome' # "error"
    BY <1>3, TradesWriteTheirOwn DEF InTrades, TradesNotWritten
  <2> QED
    BY <2>1, <2>2, TradesAreCounted, FilesGetRows DEF CountInv
<1>4. CASE ~InCensus /\ ~InAttribution /\ ~InTrades
  <2>1. /\ UNCHANGED <<poolsFile, pools, positions, atAttr, tradesFile, tradeStats>>
    BY <1>4, OnlyTheCensusLists, OnlyTheAttributionPassHarvests, OnlyTheTradePassTrades
  <2>2. /\ diskFailed => diskFailed'
        /\ phase' # "dead" => created' = created /\ phase # "dead"
    <3>1. CASE PassReturns
      BY <3>1, PassReturnsEnters DEF Enter
    <3>2. CASE CreateManifest \/ WriteManifest \/ Crash
      <4>1. diskFailed' = diskFailed
        BY <3>2 DEF CreateManifest, WriteManifest, Crash
      <4>2. phase' # "dead" => created' = created /\ phase # "dead"
        BY <3>2 DEF CreateManifest, WriteManifest, Crash
      <4> QED
        BY <4>1, <4>2
    <3>3. CASE CloseFails
      <4>1. diskFailed' /\ created' = created /\ phase # "dead"
        BY <3>3 DEF CloseFails
      <4> QED
        BY <4>1
    <3>4. CASE RunMoves \/ UNCHANGED runVars
      BY <3>4 DEF RunMoves, runVars, ingestVars
    <3> QED
      BY <1>4, <3>1, <3>2, <3>3, <3>4, StepsOfARun
  <2> QED
    BY <2>1, <2>2, FilesAreLeft DEF CountInv
<1> QED
  BY <1>1, <1>2, <1>3, <1>4

LEMMA RunCounts == RunSpec => []CountInv
<1>1. RunInit => CountInv
  <2> SUFFICES ASSUME RunInit PROVE CountInv
    OBVIOUS
  <2>1. /\ poolsFile = <<>> /\ positions = {} /\ atAttr = {} /\ tradesFile = {} /\ created = {}
        /\ pools = 0 /\ tradeStats.trades = 0
    BY DEF RunInit, NewWriter, FilesInit, CensusInit, TradesInit
  <2>2. Filled = {}
    BY <2>1 DEF Filled, Rows
  <2>3. IsFiniteSet(tradesFile) /\ Cardinality(tradesFile) = 0
    BY <2>1, FS_EmptySet
  <2> QED
    BY <2>1, <2>2, <2>3 DEF CountInv
<1> QED
  BY <1>1, CountStays, RunTypeCorrect, OrderIsKept, PhasesFollow, RunTrades, PTL DEF RunSpec

\* The manifest of a run counts what its files hold, whether the run was
\* complete, failed or interrupted, and a file that is there has a row
\* (run.go:39, 79-90, 157-160; main.go:116-126).
THEOREM ManifestMatches == RunSpec => []ManifestMatchesFiles
<1>1. RunTypeOK /\ SealInv /\ PhaseInv /\ RunBooksInv /\ CountInv => ManifestMatchesFiles
  <2> SUFFICES ASSUME RunTypeOK, SealInv, PhaseInv, RunBooksInv, CountInv, Sealed, ~diskFailed
               PROVE  /\ manifest.pools = Len(poolsFile)
                      /\ manifest.holders # NoPass =>
                           /\ manifest.holders.positions = Cardinality(positions)
                           /\ manifest.holders.eligible + manifest.holders.skipped = Len(poolsFile)
                           /\ manifest.holders.attributed + Len(manifest.holders.failed)
                                = manifest.holders.eligible
                      /\ manifest.trades # NoPass => manifest.trades.trades = Cardinality(tradesFile)
                      /\ (manifest.holders = NoPass => {"positions", "atAttr"} \cap created = {})
                      /\ (manifest.trades = NoPass => "trades" \notin created)
                      /\ created = Filled
    BY DEF ManifestMatchesFiles
  <2>1. /\ phase = "exited" /\ manifest.pools = pools
        /\ manifest.holders = HolderSummary /\ manifest.trades = TradeSummary
    BY DEF SealInv, Summary
  <2>2. /\ pools = Len(poolsFile) /\ tradeStats.trades = Cardinality(tradesFile)
        /\ created = Filled /\ pools \in Nat /\ Len(eligible) \in Nat
    BY <2>1 DEF CountInv, RunTypeOK, CensusTypeOK, AttributionTypeOK
  <2>3. ASSUME outcome = "idle"
        PROVE  manifest.holders = NoPass /\ {"positions", "atAttr"} \cap created = {}
    <3>1. positions = {} /\ atAttr = {} /\ manifest.holders = NoPass
      BY <2>1, <2>3 DEF PhaseInv, HolderSummary
    <3> QED
      BY <2>2, <3>1 DEF Filled, Rows
  <2>4. ASSUME outcome # "idle"
        PROVE  /\ manifest.holders # NoPass
               /\ manifest.holders.positions = Cardinality(positions)
               /\ manifest.holders.eligible + manifest.holders.skipped = Len(poolsFile)
               /\ manifest.holders.attributed + Len(manifest.holders.failed)
                    = manifest.holders.eligible
    <3>1. /\ manifest.holders.positions = stats.positions
          /\ manifest.holders.eligible = Len(eligible)
          /\ manifest.holders.skipped = pools - Len(eligible)
          /\ manifest.holders.attributed = stats.attributed
          /\ manifest.holders.failed = stats.failed
      BY <2>1, <2>4 DEF HolderSummary
    <3>2. outcome = "ok"
      BY <2>1, <2>4 DEF PhaseInv, RunTypeOK, AttributionTypeOK
    <3>3. manifest.holders # NoPass
      <4>1. HolderSummary \in HolderSummaries
        BY <2>2, <2>4 DEF HolderSummary, HolderSummaries, HolderStats, RunTypeOK, AttributionTypeOK
      <4> QED
        BY <2>1, <4>1, MarksAreApart
    <3>4. stats.positions = Cardinality(positions)
          /\ stats.attributed + Len(stats.failed) = Len(eligible)
      BY <2>4, <3>2 DEF RunBooksInv, AccountsInv
    <3> QED
      BY <2>2, <3>1, <3>3, <3>4
  <2>5. manifest.trades # NoPass => manifest.trades.trades = Cardinality(tradesFile)
    BY <2>1, <2>2 DEF TradeSummary
  <2>6. ASSUME manifest.trades = NoPass
        PROVE  "trades" \notin created
    <3>1. tradeOutcome = "idle"
      <4>1. ASSUME tradeOutcome # "idle" PROVE TradeSummary \in TradeSummaries
        BY <4>1, FlagsAreCommandLines
           DEF TradeSummary, TradeSummaries, TradeStats, RunTypeOK, TradesTypeOK, CommandLines
      <4> QED
        BY <2>1, <2>6, <4>1, MarksAreApart
    <3>2. tradesFile = {}
      BY <3>1 DEF PhaseInv
    <3> QED
      BY <2>2, <3>2 DEF Filled, Rows
  <2> QED
    BY <2>1, <2>2, <2>3, <2>4, <2>5, <2>6
<1> QED
  BY <1>1, RunTypeCorrect, SealIsLast, PhasesFollow, RunKeepsBooks, RunCounts, PTL

\* A whole run, too, reconciles every pool nobody touched exactly, and writes
\* no position twice (main.go:241-245, 296-309).
THEOREM RunReconciles == RunSpec => [](QuietPoolsReconcile /\ NoPositionTwice)
<1>1. RunTypeOK /\ HarvestInv => QuietPoolsReconcile /\ NoPositionTwice
  BY HarvestReconciles DEF RunTypeOK, TypeOK, HarvestInv
<1> QED
  BY <1>1, RunTypeCorrect, RunHarvests, PTL

-----------------------------------------------------------------------------
(* The census is complete.                                                 *)

\* The ascending sequence of a set of pools has all of them.
LEMMA InOrderHasAll ==
  ASSUME NEW ids \in SUBSET Pools, NEW s \in InOrder(ids)
  PROVE  Listed(s) = ids
<1>1. IsFiniteSet(ids) /\ IsFiniteSet(1..Cardinality(ids)) /\ Cardinality(ids) \in Nat
  <2>1. IsFiniteSet(ids)
    BY IdsAreFinite, FS_Subset
  <2>2. Cardinality(ids) \in Nat
    BY <2>1, FS_CardinalityType
  <2> QED
    BY <2>1, <2>2, FS_Interval
<1>2. Cardinality(1..Cardinality(ids)) = Cardinality(ids)
  BY <1>1, FS_Interval
<1>3. s \in [1..Cardinality(ids) -> ids] /\ \A i, j \in DOMAIN s : i < j => s[i] < s[j]
  BY DEF InOrder
<1>4. s \in Injection(1..Cardinality(ids), ids)
  <2> SUFFICES ASSUME NEW i \in 1..Cardinality(ids), NEW j \in 1..Cardinality(ids), s[i] = s[j]
               PROVE  i = j
    BY <1>3 DEF Injection, IsInjective
  <2>1. s[i] \in Nat
    BY <1>3, IdsArePositive
  <2>2. ~(i < j) /\ ~(j < i)
    BY <1>3, <2>1
  <2> QED
    BY <1>1, <2>2
<1>5. s \in Surjection(1..Cardinality(ids), ids)
  BY <1>1, <1>2, <1>4, FS_Injection
<1> QED
  BY <1>3, <1>5 DEF Surjection, Listed

\* One ascending sequence after another that starts where it stops.
LEMMA AscendsOn ==
  ASSUME NEW s \in Seq(Nat), NEW t \in Seq(Nat), NEW low \in Nat, NEW high \in Nat, low <= high,
         \A i, j \in DOMAIN s : i < j => s[i] < s[j],
         \A i, j \in DOMAIN t : i < j => t[i] < t[j],
         \A i \in DOMAIN s : s[i] <= low,
         \A i \in DOMAIN t : low < t[i] /\ t[i] <= high,
         NEW u, u = s \o t
  PROVE  /\ \A i, j \in DOMAIN u : i < j => u[i] < u[j]
         /\ \A i \in DOMAIN u : u[i] <= high
<1>1. /\ DOMAIN s = 1..Len(s) /\ DOMAIN t = 1..Len(t) /\ DOMAIN u = 1..(Len(s) + Len(t))
      /\ Len(s) \in Nat /\ Len(t) \in Nat
      /\ \A i \in DOMAIN u : \/ i \in DOMAIN s /\ u[i] = s[i]
                             \/ i - Len(s) \in DOMAIN t /\ u[i] = t[i - Len(s)] /\ i > Len(s)
  BY ConcatProperties
<1>2. /\ \A i \in DOMAIN s : s[i] \in Nat
      /\ \A i \in DOMAIN t : t[i] \in Nat
  OBVIOUS
<1>3. ASSUME NEW i \in DOMAIN u
      PROVE  u[i] <= high
  BY <1>1, <1>2
<1>4. ASSUME NEW i \in DOMAIN u, NEW j \in DOMAIN u, i < j
      PROVE  u[i] < u[j]
  <2>0. i \in Nat /\ j \in Nat
    BY <1>1
  <2>1. CASE j \in DOMAIN s
    BY <1>1, <1>4, <2>0, <2>1
  <2>2. CASE i \in DOMAIN s /\ j \notin DOMAIN s
    <3>1. u[i] <= low /\ low < u[j] /\ u[i] \in Nat /\ u[j] \in Nat
      BY <1>1, <1>2, <2>0, <2>2
    <3>2. \A x, y, z \in Nat : x <= y /\ y < z => x < z
      OBVIOUS
    <3> QED
      BY <3>1, <3>2, Zenon
  <2>3. CASE i \notin DOMAIN s /\ j \notin DOMAIN s
    BY <1>1, <1>4, <2>0, <2>3
  <2> QED
    BY <1>1, <1>4, <2>0, <2>1, <2>2, <2>3
<1> QED
  BY <1>3, <1>4

\* The file stays ascending with rows of pools past its cursor.
LEMMA FileGoesOn ==
  ASSUME RunTypeOK, CensusInv, census # "error",
         NEW ids \in Seq(Pools), \A i, j \in DOMAIN ids : i < j => ids[i] < ids[j],
         NEW last \in Nat, listed <= last, \A i \in DOMAIN ids : listed < ids[i] /\ ids[i] <= last,
         poolsFile' = poolsFile \o RowsFor(ids)
  PROVE  /\ DOMAIN poolsFile' = 1..(Len(poolsFile) + Len(ids))
         /\ \A k \in DOMAIN poolsFile' :
              \/ k \in DOMAIN poolsFile /\ poolsFile'[k] = poolsFile[k]
              \/ /\ k - Len(poolsFile) \in DOMAIN ids
                 /\ poolsFile'[k] = [pool |-> ids[k - Len(poolsFile)], row |-> ledger[ids[k - Len(poolsFile)]]]
         /\ \A k \in DOMAIN poolsFile : k \in DOMAIN poolsFile' /\ poolsFile'[k] = poolsFile[k]
         /\ \A k \in DOMAIN ids :
              /\ Len(poolsFile) + k \in DOMAIN poolsFile'
              /\ poolsFile'[Len(poolsFile) + k] = [pool |-> ids[k], row |-> ledger[ids[k]]]
         /\ \A j, k \in DOMAIN poolsFile' : j < k => poolsFile'[j].pool < poolsFile'[k].pool
         /\ \A k \in DOMAIN poolsFile' : poolsFile'[k].pool <= last
<1>1. Len(ids) \in Nat /\ DOMAIN ids = 1..Len(ids) /\ listed \in Nat
      /\ \A k \in DOMAIN ids : ids[k] \in Pools
  BY DEF RunTypeOK, CensusTypeOK
<1>2. /\ RowsFor(ids) \in Seq(PoolRows) /\ Len(RowsFor(ids)) = Len(ids)
      /\ DOMAIN RowsFor(ids) = DOMAIN ids
      /\ \A k \in DOMAIN ids : RowsFor(ids)[k] = [pool |-> ids[k], row |-> ledger[ids[k]]]
  BY <1>1, RowsForPools DEF RowsFor, RunTypeOK, WorldTypeOK
<1>3. /\ poolsFile \in Seq(PoolRows) /\ DOMAIN poolsFile = 1..Len(poolsFile) /\ Len(poolsFile) \in Nat
      /\ DOMAIN poolsFile' = 1..(Len(poolsFile) + Len(ids))
      /\ \A k \in DOMAIN poolsFile' :
           \/ k \in DOMAIN poolsFile /\ poolsFile'[k] = poolsFile[k]
           \/ k - Len(poolsFile) \in DOMAIN ids
              /\ poolsFile'[k] = RowsFor(ids)[k - Len(poolsFile)]
  <2>1. poolsFile \in Seq(PoolRows)
    BY DEF RunTypeOK, CensusTypeOK
  <2>2. RowsFor(ids) \in Seq(PoolRows) /\ Len(RowsFor(ids)) = Len(ids)
        /\ poolsFile' = poolsFile \o RowsFor(ids) /\ Len(ids) \in Nat /\ DOMAIN ids = 1..Len(ids)
    BY <1>1, <1>2
  <2>3. \A rows \in Seq(PoolRows) :
          /\ Len(poolsFile \o rows) = Len(poolsFile) + Len(rows)
          /\ DOMAIN (poolsFile \o rows) = 1..(Len(poolsFile) + Len(rows))
          /\ \A k \in 1..(Len(poolsFile) + Len(rows)) :
               (poolsFile \o rows)[k] = IF k <= Len(poolsFile) THEN poolsFile[k]
                                        ELSE rows[k - Len(poolsFile)]
    BY <2>1, ConcatProperties
  <2>4. Len(poolsFile) \in Nat /\ DOMAIN poolsFile = 1..Len(poolsFile)
    BY <2>1
  <2>5. /\ DOMAIN poolsFile' = 1..(Len(poolsFile) + Len(ids))
        /\ \A k \in DOMAIN poolsFile' :
             poolsFile'[k] = IF k <= Len(poolsFile) THEN poolsFile[k]
                             ELSE RowsFor(ids)[k - Len(poolsFile)]
    BY <2>2, <2>3
  <2>6. ASSUME NEW k \in 1..(Len(poolsFile) + Len(ids))
        PROVE  IF k <= Len(poolsFile) THEN k \in DOMAIN poolsFile
                                      ELSE k - Len(poolsFile) \in DOMAIN ids
    BY <2>2, <2>4
  <2> QED
    BY <2>1, <2>4, <2>5, <2>6
<1>4. \A k \in DOMAIN poolsFile : k \in DOMAIN poolsFile' /\ poolsFile'[k] = poolsFile[k]
  BY <1>1, <1>2, <1>3, ConcatProperties
<1>5. ASSUME NEW k \in DOMAIN ids
      PROVE  /\ Len(poolsFile) + k \in DOMAIN poolsFile'
             /\ poolsFile'[Len(poolsFile) + k] = RowsFor(ids)[k]
  BY <1>1, <1>2, <1>3, <1>5, ConcatProperties
<1>6. /\ \A j, k \in DOMAIN poolsFile' : j < k => poolsFile'[j].pool < poolsFile'[k].pool
      /\ \A k \in DOMAIN poolsFile' : poolsFile'[k].pool <= last
  <2> DEFINE before == [k \in DOMAIN poolsFile |-> poolsFile[k].pool]
             after  == [k \in DOMAIN poolsFile' |-> poolsFile'[k].pool]
  <2>1. before \in Seq(Nat) /\ ids \in Seq(Nat)
    <3>0. \A p \in Pools : p \in Nat
      BY IdsArePositive
    <3>1. \A k \in DOMAIN poolsFile : poolsFile[k].pool \in Nat
      <4>0. \A k \in DOMAIN poolsFile : poolsFile[k] \in PoolRows
        BY <1>3
      <4>1. \A k \in DOMAIN poolsFile : poolsFile[k].pool \in Pools
        BY <4>0 DEF PoolRows
      <4> QED
        BY <3>0, <4>1
    <3>2. \A k \in DOMAIN ids : ids[k] \in Nat
      <4>1. \A k \in DOMAIN ids : ids[k] \in Pools
        BY <1>1
      <4> QED
        BY <3>0, <4>1
    <3> QED
      BY <1>1, <1>3, <3>1, <3>2
  <2>2. /\ \A i, j \in DOMAIN before : i < j => before[i] < before[j]
        /\ \A i \in DOMAIN before : before[i] <= listed
    BY DEF CensusInv
  <2>3. \A i \in DOMAIN ids : listed < ids[i] /\ ids[i] <= last
    BY <1>1
  <2>4. after = before \o ids
    <3>1. Len(before) = Len(poolsFile)
      BY <1>3, <2>1
    <3>2. DOMAIN after = 1..(Len(before) + Len(ids))
      BY <1>3, <3>1
    <3>3. ASSUME NEW i \in 1..(Len(before) + Len(ids))
          PROVE  after[i] = IF i <= Len(before) THEN before[i] ELSE ids[i - Len(before)]
      <4>1. CASE i <= Len(before)
        BY <1>3, <1>4, <3>1, <4>1
      <4>2. CASE i > Len(before)
        <5>1. i - Len(poolsFile) \in DOMAIN ids /\ Len(poolsFile) + (i - Len(poolsFile)) = i
          BY <1>1, <1>3, <3>1, <4>2
        <5>2. poolsFile'[i] = RowsFor(ids)[i - Len(poolsFile)]
          <6>1. ASSUME NEW k \in DOMAIN ids, i = Len(poolsFile) + k
                PROVE  poolsFile'[i] = RowsFor(ids)[k]
            BY <1>5, <6>1, Zenon
          <6> QED
            BY <5>1, <6>1
        <5> QED
          BY <1>2, <1>3, <3>1, <4>2, <5>1, <5>2
      <4> QED
        BY <1>3, <3>1, <4>1, <4>2
    <3>4. before \o ids = [i \in 1..(Len(before) + Len(ids)) |->
                             IF i <= Len(before) THEN before[i] ELSE ids[i - Len(before)]]
      BY <2>1
    <3> QED
      BY <3>2, <3>3, <3>4
  <2>5. /\ \A i, j \in DOMAIN after : i < j => after[i] < after[j]
        /\ \A i \in DOMAIN after : after[i] <= last
    BY <1>1, <2>1, <2>2, <2>3, <2>4, AscendsOn
  <2> QED
    BY <2>5
<1>7. \A k \in DOMAIN poolsFile' :
        \/ k \in DOMAIN poolsFile /\ poolsFile'[k] = poolsFile[k]
        \/ /\ k - Len(poolsFile) \in DOMAIN ids
           /\ poolsFile'[k] = [pool |-> ids[k - Len(poolsFile)], row |-> ledger[ids[k - Len(poolsFile)]]]
  BY <1>2, <1>3, Zenon
<1>8. \A k \in DOMAIN ids :
        /\ Len(poolsFile) + k \in DOMAIN poolsFile'
        /\ poolsFile'[Len(poolsFile) + k] = [pool |-> ids[k], row |-> ledger[ids[k]]]
  BY <1>2, <1>5, Zenon
<1>9. DOMAIN poolsFile' = 1..(Len(poolsFile) + Len(ids))
  BY <1>3
<1> QED
  BY <1>4, <1>6, <1>7, <1>8, <1>9

\* A page of the census carries the invariant up to its last pool.
LEMMA PageExtendsCensus ==
  ASSUME RunTypeOK, CensusInv, NEW m \in Int, PoolsPage(m)
  PROVE  CensusInv'
<1>1. PICK page \in PageOf(Existing, listed, PoolPageSize) :
        /\ \E ids \in InOrder(page) : poolsFile' = poolsFile \o RowsFor(ids)
        /\ \E kept \in InOrder({p \in page : attributable(p)}) : eligible' = eligible \o kept
        /\ \E last \in page : IsLast(last, page) /\ listed' = last
  BY DEF PoolsPage
<1>2. PICK last \in page : IsLast(last, page) /\ listed' = last
  BY <1>1
<1>3. /\ listed \in Nat /\ last \in Nat /\ listed <= last /\ page \subseteq Pools
      /\ \A x \in page : x \in Nat /\ listed < x /\ x <= last
  <2>1. Existing \in SUBSET Pools /\ listed \in Nat
    BY DEF Existing, RunTypeOK, CensusTypeOK
  <2> QED
    BY <1>2, <2>1, PageMovesUp
<1>4. PICK ids \in InOrder(page) : poolsFile' = poolsFile \o RowsFor(ids)
  BY <1>1
<1>5. /\ ids \in Seq(Pools) /\ Listed(ids) = page /\ Len(ids) \in Nat /\ DOMAIN ids = 1..Len(ids)
      /\ \A i, j \in DOMAIN ids : i < j => ids[i] < ids[j]
      /\ \A i \in DOMAIN ids : ids[i] \in page
  BY <1>3, <1>4, InOrderLists, InOrderHasAll DEF Listed
<1>7. PICK kept \in InOrder({p \in page : attributable(p)}) : eligible' = eligible \o kept
  BY <1>1
<1>8. Listed(eligible') = Listed(eligible) \cup {p \in page : attributable(p)}
  <2>1. {p \in page : attributable(p)} \in SUBSET Pools
    BY <1>3
  <2>2. kept \in Seq(Pools) /\ Listed(kept) = {p \in page : attributable(p)}
    BY <2>1, <1>7, InOrderLists, InOrderHasAll
  <2> QED
    BY <1>7, <2>2, ListedConcat DEF RunTypeOK, AttributionTypeOK
<1>9. /\ DOMAIN poolsFile' = 1..(Len(poolsFile) + Len(ids))
      /\ \A k \in DOMAIN poolsFile : k \in DOMAIN poolsFile' /\ poolsFile'[k] = poolsFile[k]
      /\ \A k \in DOMAIN ids :
           /\ Len(poolsFile) + k \in DOMAIN poolsFile'
           /\ poolsFile'[Len(poolsFile) + k] = [pool |-> ids[k], row |-> ledger[ids[k]]]
      /\ \A j, k \in DOMAIN poolsFile' : j < k => poolsFile'[j].pool < poolsFile'[k].pool
      /\ \A k \in DOMAIN poolsFile' : poolsFile'[k].pool <= last
  <2>1. census # "error"
    BY DEF PoolsPage, Listing
  <2>2. \A i \in DOMAIN ids : listed < ids[i] /\ ids[i] <= last
    BY <1>3, <1>5
  <2> QED
    BY <1>3, <1>4, <1>5, <2>1, <2>2, FileGoesOn
<1>11. /\ census = "running" /\ census' = "running" /\ UNCHANGED worldVars
  BY DEF PoolsPage, Listing
<1>13. ASSUME NEW p \in page
       PROVE  [pool |-> p, row |-> ledger[p]] \in {poolsFile'[k] : k \in DOMAIN poolsFile'}
  <2>1. PICK k \in DOMAIN ids : p = ids[k]
    BY <1>5 DEF Listed
  <2> QED
    BY <1>9, <2>1
<1>14. {poolsFile[k] : k \in DOMAIN poolsFile} \subseteq {poolsFile'[k] : k \in DOMAIN poolsFile'}
  BY <1>9
<1>15. ASSUME NEW p \in Existing, Quiet(p), p <= last
       PROVE  /\ [pool |-> p, row |-> ledger[p]] \in {poolsFile'[k] : k \in DOMAIN poolsFile'}
              /\ attributable(p) => p \in Listed(eligible')
  <2>0. p \in Nat
    BY IdsArePositive DEF Existing
  <2>1. CASE p <= listed
    BY <1>8, <1>14, <1>15, <2>1 DEF CensusInv, InCensusFile
  <2>2. CASE p > listed
    <3>1. p \in page
      <4>1. p \in After(Existing, listed)
        BY <2>2 DEF After
      <4>2. p \notin page => last < p
        BY <4>1 DEF PageOf
      <4> QED
        BY <1>3, <1>15, <2>0, <4>2
    <3> QED
      BY <1>8, <1>13, <3>1
  <2> QED
    BY <1>3, <2>0, <2>1, <2>2
<1>16. Listed(eligible') \subseteq {poolsFile'[k].pool : k \in DOMAIN poolsFile'}
  <2>1. ASSUME NEW p \in Listed(eligible)
        PROVE  p \in {poolsFile'[k].pool : k \in DOMAIN poolsFile'}
    <3>1. PICK k \in DOMAIN poolsFile : p = poolsFile[k].pool
      BY DEF CensusInv, CensusPools
    <3> QED
      BY <1>9, <3>1
  <2>2. ASSUME NEW p \in page
        PROVE  p \in {poolsFile'[k].pool : k \in DOMAIN poolsFile'}
    <3>1. PICK k \in DOMAIN poolsFile' : poolsFile'[k] = [pool |-> p, row |-> ledger[p]]
      BY <1>13
    <3>2. poolsFile'[k].pool = p
      BY <3>1
    <3> QED
      BY <3>2
  <2> QED
    BY <1>8, <2>1, <2>2
<1>17. /\ Existing' = Existing
       /\ \A p : Quiet(p)' = Quiet(p) /\ attributable(p)' = attributable(p)
  BY <1>11 DEF worldVars, Existing, Exists, Quiet, Touched, attributable, TotalTrustlines
<1>18. \A p \in Existing' : Quiet(p)' /\ p <= listed' =>
         InCensusFile(p)' /\ (attributable(p)' => p \in Listed(eligible)')
  BY <1>2, <1>11, <1>15, <1>17 DEF InCensusFile, worldVars, Listed
<1> QED
  BY <1>2, <1>9, <1>11, <1>16, <1>18 DEF CensusInv, CensusPools, Listed
\* A page that is written in part leaves a leading part of its rows.
LEMMA PagesBreakOff ==
  ASSUME RunTypeOK, CensusInv, NEW m \in Int, PoolsNotWritten(m)
  PROVE  /\ \A j, k \in DOMAIN poolsFile' : j < k => poolsFile'[j].pool < poolsFile'[k].pool
         /\ \A k \in DOMAIN poolsFile' :
              \/ k \in DOMAIN poolsFile /\ poolsFile'[k] = poolsFile[k]
              \/ poolsFile'[k].row = ledger[poolsFile'[k].pool]
<1>1. PICK page \in PageOf(Existing, listed, PoolPageSize) :
        \E ids \in InOrder(page), written \in 0..(Cardinality(page) - 1) :
          poolsFile' = poolsFile \o SubSeq(RowsFor(ids), 1, written)
  BY DEF PoolsNotWritten
<1>2. PICK ids \in InOrder(page), written \in 0..(Cardinality(page) - 1) :
        poolsFile' = poolsFile \o SubSeq(RowsFor(ids), 1, written)
  BY <1>1
<1>3. page \in SUBSET Pools /\ \A x \in page : x \in Nat /\ listed < x
  BY IdsArePositive DEF PageOf, After, Existing
<1>4. /\ ids \in Seq(Pools) /\ Len(ids) = Cardinality(page) /\ Len(ids) \in Nat
      /\ DOMAIN ids = 1..Len(ids)
      /\ \A i, j \in DOMAIN ids : i < j => ids[i] < ids[j]
      /\ \A i \in DOMAIN ids : ids[i] \in page
  BY <1>3, InOrderLists
<1> DEFINE some == SubSeq(ids, 1, written)
<1>5. /\ some \in Seq(Pools) /\ DOMAIN some = 1..written /\ written \in Nat
      /\ \A i \in 1..written : some[i] = ids[i] /\ i \in DOMAIN ids
  BY <1>4, SubSeqProperties
<1>6. SubSeq(RowsFor(ids), 1, written) = RowsFor(some)
  BY <1>4, <1>5 DEF RowsFor
<1>7. census # "error" /\ listed \in Nat
  BY DEF PoolsNotWritten, Listing, RunTypeOK, CensusTypeOK
<1>8. PICK last \in Nat : listed <= last /\ \A i \in DOMAIN some : some[i] <= last
  <2>1. CASE written = 0
    BY <1>5, <1>7, <2>1
  <2>2. CASE written # 0
    <3>1. some[written] \in Nat /\ listed <= some[written]
      BY <1>3, <1>4, <1>5, <1>7, <2>2
    <3>2. ASSUME NEW i \in 1..written PROVE some[i] <= some[written]
      <4>1. CASE i = written
        BY <3>1, <4>1
      <4>2. CASE i < written
        <5>1. i \in DOMAIN ids /\ written \in DOMAIN ids /\ some[i] = ids[i] /\ some[written] = ids[written]
          BY <1>5, <2>2
        <5>2. ids[i] < ids[written] /\ ids[i] \in Nat /\ ids[written] \in Nat
          BY <1>3, <1>4, <4>2, <5>1
        <5> QED
          BY <5>1, <5>2
      <4> QED
        BY <1>5, <4>1, <4>2
    <3> QED
      BY <1>5, <3>1, <3>2
  <2> QED
    BY <2>1, <2>2
<1>9. /\ \A i, j \in DOMAIN some : i < j => some[i] < some[j]
      /\ \A i \in DOMAIN some : listed < some[i] /\ some[i] <= last
  BY <1>3, <1>4, <1>5, <1>8
<1> HIDE DEF some
<1>10. /\ \A k \in DOMAIN poolsFile' :
            \/ k \in DOMAIN poolsFile /\ poolsFile'[k] = poolsFile[k]
            \/ /\ k - Len(poolsFile) \in DOMAIN some
               /\ poolsFile'[k] = [pool |-> some[k - Len(poolsFile)],
                                   row |-> ledger[some[k - Len(poolsFile)]]]
       /\ \A j, k \in DOMAIN poolsFile' : j < k => poolsFile'[j].pool < poolsFile'[k].pool
  <2>1. poolsFile' = poolsFile \o RowsFor(some)
    BY <1>2, <1>6
  <2> QED
    BY <1>5, <1>7, <1>8, <1>9, <2>1, FileGoesOn
<1> QED
  BY <1>10

\* The other steps of the census: it breaks off, ends, or loses a page.
LEMMA CensusEndsWell ==
  ASSUME RunTypeOK, CensusInv, NEW m \in Int, flags' = flags, m = flags.maxPages,
         PoolsFail \/ PoolsEnd(m) \/ PoolsNotWritten(m)
  PROVE  CensusInv'
<1>1. UNCHANGED <<worldVars, eligible, listed>>
  BY DEF PoolsFail, PoolsEnd, PoolsNotWritten
<1>2. /\ Existing' = Existing
      /\ \A p : Quiet(p)' = Quiet(p) /\ attributable(p)' = attributable(p)
  BY <1>1 DEF worldVars, Existing, Exists, Quiet, Touched, attributable, TotalTrustlines
<1>3. CensusStep(m) \/ PoolsNotWritten(m)
  BY DEF CensusStep
<1>4. PICK rows \in Seq(PoolRows) : poolsFile' = poolsFile \o rows
  BY <1>3, CensusExtends
<1>5. \A k \in DOMAIN poolsFile : k \in DOMAIN poolsFile' /\ poolsFile'[k] = poolsFile[k]
  BY <1>4, ConcatProperties DEF RunTypeOK, CensusTypeOK
<1>6. /\ \A p : InCensusFile(p) => InCensusFile(p)'
      /\ CensusPools \subseteq CensusPools'
      /\ Listed(eligible)' = Listed(eligible)
  BY <1>1, <1>5 DEF worldVars, InCensusFile, CensusPools, Listed
<1>7. /\ \A p \in Existing' : Quiet(p)' /\ p <= listed' =>
           InCensusFile(p)' /\ (attributable(p)' => p \in Listed(eligible)')
      /\ Listed(eligible)' \subseteq CensusPools'
  BY <1>1, <1>2, <1>6 DEF CensusInv
<1>8. CASE PoolsNotWritten(m)
  <2>1. census' = "error"
    BY <1>8 DEF PoolsNotWritten
  <2>2. \A j, k \in DOMAIN poolsFile' : j < k => poolsFile'[j].pool < poolsFile'[k].pool
    BY <1>8, PagesBreakOff
  <2> QED
    BY <1>7, <2>1, <2>2 DEF CensusInv
<1>10. CASE PoolsFail
  <2>1. census' = "error" /\ poolsFile' = poolsFile
    BY <1>10 DEF PoolsFail, fileVars
  <2> QED
    BY <1>7, <2>1 DEF CensusInv
<1>9. CASE PoolsEnd(m)
  <2>1. census = "running" /\ census' = "ok" /\ poolsFile' = poolsFile
        /\ (Capped(m) \/ After(Existing, listed) = {})
    BY <1>9 DEF PoolsEnd, fileVars
  <2>2. ASSUME flags.maxPages <= 0, NEW p \in Existing
        PROVE  p <= listed
    <3>1. After(Existing, listed) = {}
      BY <2>1, <2>2 DEF Capped
    <3>2. p \in Nat /\ listed \in Nat
      BY IdsArePositive DEF Existing, RunTypeOK, CensusTypeOK
    <3> QED
      BY <3>1, <3>2 DEF After
  <2> QED
    BY <1>1, <1>2, <1>7, <2>1, <2>2 DEF CensusInv
<1> QED
  BY <1>8, <1>9, <1>10

\* Nothing but the census changes what it keeps, and the flags stay.
LEMMA OnlyTheCensusCounts ==
  ASSUME [RunNext]_runVars
  PROVE  flags' = flags /\ (~InCensus => census' = census)
<1>1. CASE InCensus \/ InAttribution \/ InTrades
  BY <1>1 DEF InCensus, InAttribution, InTrades, censusVars
<1>2. CASE PassReturns
  BY <1>2, PassReturnsEnters DEF Enter, censusVars
<1>3. CASE CreateManifest \/ WriteManifest \/ CloseFails \/ Crash
  BY <1>3 DEF CreateManifest, WriteManifest, CloseFails, Crash, RunOnly, censusVars
<1>4. CASE RunMoves \/ UNCHANGED runVars
  BY <1>4 DEF RunMoves, runVars, censusVars, ingestVars
<1> QED
  BY <1>1, <1>2, <1>3, <1>4, StepsOfARun

LEMMA CensusInvStays == RunTypeOK /\ CensusInv /\ [RunNext]_runVars => CensusInv'
<1> SUFFICES ASSUME RunTypeOK, CensusInv, [RunNext]_runVars PROVE CensusInv'
  OBVIOUS
<1>0. flags' = flags
  BY OnlyTheCensusCounts
<1>1. CASE InCensus
  <2>1. flags.maxPages \in Int
    BY FlagsAreCommandLines DEF RunTypeOK, CommandLines
  <2> QED
    BY <1>0, <1>1, <2>1, PageExtendsCensus, CensusEndsWell DEF InCensus, CensusStep
<1>2. CASE ~InCensus
  <2>1. UNCHANGED <<eligible, listed, poolsFile, census, flags>>
    BY <1>0, <1>2, OnlyTheCensusLists, OnlyTheCensusCounts
  <2>2. ASSUME NEW p \in Existing', Quiet(p)'
        PROVE  /\ p \in Existing /\ Quiet(p) /\ ledger'[p] = ledger[p]
               /\ attributable(p)' = attributable(p)
    <3>1. p \in Pools
      BY DEF Existing
    <3>2. CASE RunMoves
      <4>1. Quiet(p) /\ ledger'[p] = ledger[p]
        BY <2>2, <3>1, <3>2, QuietUnmoved DEF RunMoves, RunTypeOK
      <4> QED
        BY <3>1, <4>1 DEF Existing, Exists, attributable, TotalTrustlines
    <3>3. CASE ~RunMoves
      <4>1. UNCHANGED worldVars
        BY <3>3, OnlyMovesMove
      <4> QED
        BY <2>2, <4>1 DEF worldVars, Existing, Exists, Quiet, Touched, attributable, TotalTrustlines
    <3> QED
      BY <3>2, <3>3
  <2>3. \A p \in Existing' : Quiet(p)' /\ p <= listed' =>
          InCensusFile(p)' /\ (attributable(p)' => p \in Listed(eligible)')
    <3>1. Listed(eligible)' = Listed(eligible)
      BY <2>1 DEF Listed
    <3> QED
      BY <2>1, <2>2, <3>1 DEF CensusInv, InCensusFile
  <2>4. Listed(eligible)' \subseteq CensusPools'
    BY <2>1 DEF CensusInv, Listed, CensusPools
  <2> QED
    BY <2>1, <2>2, <2>3, <2>4 DEF CensusInv
<1> QED
  BY <1>1, <1>2

LEMMA CensusIsComplete == RunSpec => []CensusInv
<1>1. RunInit => CensusInv
  <2> SUFFICES ASSUME RunInit PROVE CensusInv
    OBVIOUS
  <2>1. poolsFile = <<>> /\ eligible = <<>> /\ listed = 0 /\ census = "running"
    BY DEF RunInit, NewWriter, FilesInit, CensusInit
  <2>2. Listed(eligible) = {}
    BY <2>1 DEF Listed
  <2>3. \A p \in Existing : ~(p <= listed)
    BY <2>1, IdsArePositive DEF Existing
  <2> QED
    BY <2>1, <2>2, <2>3 DEF CensusInv
<1> QED
  BY <1>1, CensusInvStays, RunTypeCorrect, PTL DEF RunSpec

-----------------------------------------------------------------------------
(* A clean exit.                                                           *)

\* What the attribution pass decides, and that it decides all when it ends well.
LEMMA AttributionDecides ==
  ASSUME TypeOK, TypeOK', AccountsInv, AttributionStep,
         Listed(stats.failed) \subseteq Listed(eligible)
  PROVE  /\ Listed(stats.failed)' \subseteq Listed(eligible)'
         /\ outcome' = "ok" => Pending' = {}
<1>1. /\ at \in 1..(Len(eligible) + 1) /\ DOMAIN eligible = 1..Len(eligible) /\ Len(eligible) \in Nat
      /\ stats \in HolderStats /\ stats.failed \in Seq(Pools)
  BY DEF TypeOK, AttributionTypeOK, HolderStats
<1>2. eligible' = eligible /\ Listed(eligible)' = Listed(eligible)
  BY AttributionWritesItsOwn DEF Listed
<1>3. \A k \in 1..Len(eligible) : eligible[k] \in Listed(eligible) /\ eligible[k] \in Pools
  BY <1>1 DEF Listed, TypeOK, AttributionTypeOK
<1>4. CASE Interrupted
  <2>1. outcome = "running" /\ at <= Len(eligible) /\ at' = at
    BY <1>4 DEF Interrupted, AtHead
  <2>2. PICK rest \in Seq(Pools) : /\ rest = SubSeq(eligible, at, Len(eligible))
                                   /\ stats'.failed = stats.failed \o rest
    <3>1. SubSeq(eligible, at, Len(eligible)) \in Seq(Pools)
      BY <1>1, SubSeqProperties DEF TypeOK, AttributionTypeOK
    <3> QED
      BY <1>1, <1>4, <3>1 DEF Interrupted, HolderStats
  <2>3. Listed(stats.failed)' = Listed(stats.failed) \cup Pending
    <3>1. Listed(stats.failed \o rest) = Listed(stats.failed) \cup Pending
      BY <2>1, <2>2, GivingUp
    <3> QED
      BY <2>2, <3>1 DEF Listed
  <2>4. Pending \subseteq Listed(eligible)
    BY <1>1, <1>3 DEF Pending
  <2>5. Pending' = {}
    BY <1>2, <2>1, <2>3 DEF Pending
  <2> QED
    BY <1>2, <2>3, <2>4, <2>5
<1>5. CASE HoldersFail
  <2>1. outcome' = "running" /\ at <= Len(eligible)
    BY <1>5 DEF HoldersFail, Walking, TypeOK, AttributionTypeOK
  <2>2. stats'.failed = Append(stats.failed, Current)
    BY <1>1, <1>5 DEF HoldersFail, HolderStats
  <2>3. Current \in Pools /\ Current \in Listed(eligible)
    BY <1>1, <1>3, <2>1 DEF Current
  <2>4. Listed(stats.failed)' = Listed(stats.failed) \cup {Current}
    <3>1. Listed(Append(stats.failed, Current)) = Listed(stats.failed) \cup {Current}
      BY <1>1, <2>3, ListedAppend
    <3> QED
      BY <2>2, <3>1 DEF Listed
  <2> QED
    BY <1>2, <2>1, <2>3, <2>4
<1>6. CASE RereadOk \/ RereadFails \/ RereadNotWritten \/ HoldersPage \/ HoldersEnd
             \/ PositionsNotWritten
  <2>1. stats'.failed = stats.failed
    BY <1>1, <1>6 DEF RereadOk, RereadFails, RereadNotWritten, HoldersPage, HoldersEnd,
                      PositionsNotWritten, HolderStats
  <2>2. outcome' # "ok"
    BY <1>6 DEF RereadOk, RereadFails, RereadNotWritten, HoldersPage, HoldersEnd, ListingEnds,
                PositionsNotWritten, AtHead, Walking, Abort
  <2> QED
    BY <1>2, <2>1, <2>2 DEF Listed
<1>7. CASE LoopEnds
  <2>1. at' = at /\ at > Len(eligible) /\ stats'.failed = stats.failed
    BY <1>1, <1>7 DEF LoopEnds, HolderStats
  <2>2. at..Len(eligible) = {}
    BY <1>1, <2>1
  <2> QED
    BY <1>2, <2>1, <2>2 DEF Pending, Listed
<1> QED
  BY <1>4, <1>5, <1>6, <1>7 DEF AttributionStep
\* The status stays 0 only past a pass that returned without an error.
LEMMA StatusTells ==
  ASSUME RunTypeOK, RunTypeOK', PhaseInv, DecidedInv, [RunNext]_runVars
  PROVE  /\ status' = 0 /\ phase' \in {"attribution", "trades", "closing", "writing", "exited"} =>
              census' = "ok"
         /\ status' = 0 /\ flags'.holders /\ phase' \in {"trades", "closing", "writing", "exited"} =>
              outcome' = "ok"
<1>0. flags' = flags /\ (~InCensus => census' = census)
  BY OnlyTheCensusCounts
<1>1. CASE InCensus
  <2>1. phase' = "census"
    BY <1>1 DEF InCensus
  <2> QED
    BY <2>1
<1>2. CASE InAttribution
  <2>1. phase = "attribution" /\ phase' = phase /\ status' = status /\ census' = census
    BY <1>2 DEF InAttribution, censusVars
  <2> QED
    BY <2>1 DEF DecidedInv
<1>3. CASE InTrades
  <2>1. phase = "trades" /\ phase' = phase /\ status' = status /\ UNCHANGED <<census, outcome>>
    BY <1>3 DEF InTrades, censusVars, attrVars
  <2> QED
    BY <1>0, <2>1 DEF DecidedInv
<1>4. CASE PassReturns
  <2>1. census' = census
    BY <1>4, PassReturnsEnters DEF Enter, censusVars
  <2>2. CASE phase = "census" /\ census # "running" /\ Returns(census, AfterCensus)
    <3>1. status' = 0 => census = "ok" /\ phase' = AfterCensus
      BY <2>2 DEF Returns, Enter, RunTypeOK, CensusTypeOK
    <3>2. flags.holders => AfterCensus = "attribution"
      BY DEF AfterCensus
    <3> QED
      BY <1>0, <2>1, <3>1, <3>2
  <2>3. CASE phase = "attribution" /\ outcome # "running" /\ Returns(outcome, AfterHolders)
    <3>1. AfterHolders # "attribution"
      BY DEF AfterHolders
    <3>2. status' = 0 => status = 0 /\ outcome # "error" /\ outcome' = outcome
      BY <2>3, <3>1 DEF Returns, Enter, RunTypeOK
    <3>3. outcome # "idle"
      BY <2>3 DEF PhaseInv
    <3>4. outcome \in {"idle", "running", "ok", "error"}
      BY DEF RunTypeOK, AttributionTypeOK
    <3> QED
      BY <2>1, <2>3, <3>2, <3>3, <3>4 DEF DecidedInv
  <2>4. CASE phase = "trades" /\ tradeOutcome # "running" /\ Returns(tradeOutcome, "closing")
    <3>1. status' = 0 => status = 0 /\ outcome' = outcome
      BY <2>4 DEF Returns, Enter, RunTypeOK
    <3> QED
      BY <1>0, <2>1, <2>4, <3>1 DEF DecidedInv
  <2> QED
    BY <1>4, <2>2, <2>3, <2>4 DEF PassReturns
<1>5. CASE CreateManifest \/ WriteManifest
  <2>1. /\ phase \in {"closing", "writing"} /\ status' = status
        /\ UNCHANGED <<census, outcome>>
    BY <1>5 DEF CreateManifest, WriteManifest, RunOnly, censusVars, attrVars
  <2> QED
    BY <1>0, <2>1 DEF DecidedInv
<1>6. CASE CloseFails \/ Crash
  <2>1. status' = 1 \/ phase' = "dead"
    BY <1>6 DEF CloseFails, Crash
  <2> QED
    BY <2>1
<1>7. CASE RunMoves \/ UNCHANGED runVars
  <2>1. UNCHANGED <<status, phase, census, outcome>>
    BY <1>7 DEF RunMoves, runVars, ingestVars, censusVars, attrVars
  <2> QED
    BY <1>0, <2>1 DEF DecidedInv
<1> QED
  BY <1>1, <1>2, <1>3, <1>4, <1>5, <1>6, <1>7, StepsOfARun

LEMMA DecidedStays ==
  /\ RunTypeOK /\ RunTypeOK' /\ PhaseInv /\ PhaseInv' /\ RunBooksInv /\ DecidedInv
  /\ [RunNext]_runVars
  => DecidedInv'
<1> SUFFICES ASSUME RunTypeOK, RunTypeOK', PhaseInv, PhaseInv', RunBooksInv, DecidedInv,
                    [RunNext]_runVars
             PROVE  DecidedInv'
  OBVIOUS
<1>1. /\ Listed(stats.failed)' \subseteq Listed(eligible)'
      /\ outcome' = "ok" => Pending' = {}
  <2>1. CASE outcome' = "idle"
    <3>1. stats'.failed = <<>>
      BY <2>1 DEF PhaseInv, AttributionInit
    <3>2. Listed(stats.failed)' = {}
      BY <3>1 DEF Listed
    <3> QED
      BY <2>1, <3>2
  <2>2. CASE InAttribution
    <3>1. AttributionStep /\ outcome # "idle"
      BY <2>2, AttributionWritesItsOwn DEF InAttribution
    <3> QED
      BY <3>1, AttributionDecides DEF RunTypeOK, TypeOK, RunBooksInv, DecidedInv
  <2>3. CASE ~InAttribution /\ outcome' # "idle"
    <3>1. /\ UNCHANGED <<at, stats>>
          /\ outcome' = outcome \/ (PassReturns /\ outcome' = "running" /\ phase = "census")
      BY <2>3, OnlyTheAttributionPassHarvests
    <3>2. ~InCensus
      BY <2>3, <3>1 DEF PhaseInv, InCensus, attrVars
    <3>3. eligible' = eligible
      BY <3>2, OnlyTheCensusLists
    <3>4. Pending' = Pending /\ Listed(stats.failed)' = Listed(stats.failed)
          /\ Listed(eligible)' = Listed(eligible)
      BY <3>1, <3>3 DEF Pending, Listed
    <3> QED
      BY <3>1, <3>4 DEF DecidedInv
  <2> QED
    BY <2>1, <2>2, <2>3
<1> QED
  BY <1>1, StatusTells DEF DecidedInv

LEMMA RunDecides == RunSpec => []DecidedInv
<1>1. RunInit => DecidedInv
  BY DEF RunInit, AttributionInit, DecidedInv, Listed
<1> QED
  BY <1>1, DecidedStays, RunTypeCorrect, PhasesFollow, RunKeepsBooks, PTL DEF RunSpec

\* A run that exits with 0 has every pool that nobody touched in its census,
\* and all its positions on file or its name among the failures
\* (main.go:201-223, 225-330).
THEOREM CleanExits == RunSpec => []CleanExitIsComplete
<1>1. /\ RunTypeOK /\ PhaseInv /\ RunBooksInv /\ CensusInv /\ DecidedInv
      => CleanExitIsComplete
  <2> SUFFICES ASSUME RunTypeOK, PhaseInv, RunBooksInv, CensusInv, DecidedInv,
                      phase = "exited", status = 0
               PROVE  CleanExitIsComplete
    BY DEF CleanExitIsComplete
  <2>1. census = "ok" /\ (flags.holders => outcome = "ok")
    BY DEF DecidedInv
  <2>2. \A j, k \in DOMAIN poolsFile : j < k => poolsFile[j].pool < poolsFile[k].pool
    BY <2>1 DEF CensusInv
  <2>3. /\ eligible \in Seq(Pools) /\ DOMAIN eligible = 1..Len(eligible) /\ Len(eligible) \in Nat
        /\ at \in 1..(Len(eligible) + 1)
    BY DEF RunTypeOK, AttributionTypeOK
  <2>4. ASSUME flags.maxPages <= 0, NEW p \in Existing, Quiet(p)
        PROVE  /\ [pool |-> p, row |-> ledger[p]] \in {poolsFile[k] : k \in DOMAIN poolsFile}
               /\ flags.holders /\ Cardinality(Holders(ledger[p])) > 1
                    /\ (MinNative = 0 \/ NativeLeg[p] >= MinNative)
                    => \/ p \in Listed(stats.failed)
                       \/ OnFile(p) = {[account |-> a, shares |-> ledger[p][a]] :
                                         a \in Holders(ledger[p])}
    <3>1. p <= listed
      BY <2>1, <2>4 DEF CensusInv
    <3>2. InCensusFile(p) /\ (attributable(p) => p \in Listed(eligible))
      BY <2>4, <3>1 DEF CensusInv
    <3>3. ASSUME flags.holders, attributable(p), p \notin Listed(stats.failed)
          PROVE  OnFile(p) = {[account |-> a, shares |-> ledger[p][a]] : a \in Holders(ledger[p])}
      <4>1. outcome = "ok" /\ Pending = {}
        BY <2>1, <3>3 DEF DecidedInv
      <4>2. PICK k \in 1..Len(eligible) : p = eligible[k]
        BY <2>3, <3>2, <3>3 DEF Listed
      <4>3. k \notin at..Len(eligible)
        BY <3>3, <4>1, <4>2 DEF Pending
      <4>4. p \in Attributed
        BY <2>3, <3>3, <4>2, <4>3 DEF Attributed
      <4> QED
        BY <2>4, <4>1, <4>4, HarvestReconciles
           DEF RunBooksInv, RunTypeOK, TypeOK, QuietPoolsReconcile
    <3> QED
      BY <3>2, <3>3 DEF InCensusFile, attributable, TotalTrustlines
  <2>5. flags.holders => Listed(stats.failed) \cup Attributed \subseteq CensusPools
    <3>1. Attributed \subseteq Listed(eligible)
      BY <2>3 DEF Attributed, Listed
    <3> QED
      BY <3>1 DEF DecidedInv, CensusInv
  <2> QED
    BY <2>2, <2>4, <2>5 DEF CleanExitIsComplete
<1> QED
  BY <1>1, RunTypeCorrect, PhasesFollow, RunKeepsBooks, CensusIsComplete, RunDecides, PTL
-----------------------------------------------------------------------------
(* The rows re-read.                                                        *)

LEMMA RunRereadStays ==
  RunTypeOK /\ RunTypeOK' /\ PhaseInv /\ RereadInv /\ [RunNext]_runVars => RereadInv'
<1> SUFFICES ASSUME RunTypeOK, RunTypeOK', PhaseInv, RereadInv, [RunNext]_runVars
             PROVE  RereadInv'
  OBVIOUS
<1>1. CASE InAttribution
  BY <1>1, RereadStays DEF InAttribution, RunTypeOK, TypeOK
<1>2. CASE ~InAttribution
  <2>1. /\ UNCHANGED <<atAttr, at, step, reread, stats>>
        /\ outcome' = outcome \/ (outcome' = "running" /\ phase = "census")
    BY <1>2, OnlyTheAttributionPassHarvests
  <2>2. CASE phase = "census"
    <3>1. outcome = "idle" /\ atAttr = {} /\ stats.reread = 0
      BY <2>2 DEF PhaseInv, AttributionInit
    <3> QED
      BY <2>1, <3>1 DEF RereadInv
  <2>3. CASE phase # "census"
    <3>1. eligible' = eligible
      BY <2>3, OnlyTheCensusLists DEF InCensus
    <3> QED
      BY <2>1, <2>3, <3>1 DEF RereadInv
  <2> QED
    BY <2>2, <2>3
<1> QED
  BY <1>1, <1>2

LEMMA RereadsAreCounted == RunSpec => []RereadInv
<1>1. RunInit => RereadInv
  <2> SUFFICES ASSUME RunInit PROVE RereadInv
    OBVIOUS
  <2>1. atAttr = {} /\ reread = 0 /\ stats.reread = 0
    BY DEF RunInit, NewWriter, FilesInit, AttributionInit
  <2> QED
    BY <2>1, FS_EmptySet DEF RereadInv
<1> QED
  BY <1>1, RunRereadStays, RunTypeCorrect, PhasesFollow, PTL DEF RunSpec

LEMMA RunOwnWalkStays ==
  /\ RunTypeOK /\ RunTypeOK' /\ PhaseInv /\ OrderInv' /\ HarvestInv /\ RereadInv /\ OwnWalkInv
  /\ [RunNext]_runVars
  => OwnWalkInv'
<1> SUFFICES ASSUME RunTypeOK, RunTypeOK', PhaseInv, OrderInv', HarvestInv, RereadInv, OwnWalkInv,
                    [RunNext]_runVars
             PROVE  OwnWalkInv'
  OBVIOUS
<1>1. TypeOK /\ TypeOK'
  BY DEF RunTypeOK, TypeOK
<1>2. CASE InAttribution
  BY <1>1, <1>2, OwnWalkStays DEF InAttribution
<1>3. CASE RunMoves
  BY <1>1, <1>3, OwnWalkMoves DEF RunMoves, fileVars
<1>4. CASE ~InAttribution /\ ~RunMoves
  <2>1. /\ UNCHANGED <<positions, atAttr, at, step, cursor, found, seen, reread, stats>>
        /\ outcome' = outcome \/ (outcome' = "running" /\ phase = "census")
    BY <1>4, OnlyTheAttributionPassHarvests
  <2>2. CASE phase = "census"
    <3>1. atAttr' = {} /\ seen' = {}
      BY <2>1, <2>2 DEF PhaseInv, AttributionInit
    <3> QED
      BY <3>1 DEF OrderInv, OwnWalkInv
  <2>3. CASE phase # "census"
    <3>1. eligible' = eligible
      BY <2>3, OnlyTheCensusLists DEF InCensus
    <3>2. UNCHANGED worldVars
      BY <1>4, OnlyMovesMove
    <3> QED
      BY <2>1, <2>3, <3>1, <3>2, OwnWalkKept DEF attrVars
  <2> QED
    BY <2>2, <2>3
<1> QED
  BY <1>2, <1>3, <1>4

\* Inside a run as on its own, a holder of a pool that only ever grew does not
\* fall short of the re-read row (main.go:269-272).
THEOREM RunOwnWalksNeverFallShort == RunSpec => []OwnWalkNeverFallsShort
<1>1. RunInit => OwnWalkInv
  BY DEF RunInit, NewWriter, FilesInit, AttributionInit, OwnWalkInv
<1>2. RunTypeOK => TypeOK
  BY DEF RunTypeOK, TypeOK
<1> QED
  BY <1>1, <1>2, RunOwnWalkStays, OwnWalkFollows, RunTypeCorrect, PhasesFollow, OrderIsKept,
     RunHarvests, RereadsAreCounted, PTL DEF RunSpec

-----------------------------------------------------------------------------
(* The run moves on.                                                        *)

\* The measure of RunMovesOn is one of natural numbers.
LEMMA TradesLeft ==
  ASSUME RunTypeOK, TradesInv, tradeAt <= Len(eligible)
  PROVE  /\ Pool \in Pools /\ Len(Swaps[Pool]) \in Nat
         /\ passed \in Nat /\ passed <= Len(Swaps[Pool])
<1>1. /\ tradeAt \in 1..Len(eligible) /\ eligible \in Seq(Pools) /\ passed \in Nat
      /\ tradeStep \in {"loop", "walk"}
  BY DEF RunTypeOK, TradesTypeOK, AttributionTypeOK
<1>2. Pool \in Pools
  BY <1>1 DEF Pool
<1>3. Len(Swaps[Pool]) \in Nat
  BY <1>2, SwapsAreHistories
<1> QED
  BY <1>1, <1>2, <1>3 DEF TradesInv

LEMMA RunLeftIsCounted ==
  ASSUME RunTypeOK, TradesInv
  PROVE  PhasesLeft \in Nat /\ PoolsAhead \in Nat /\ AnswersAhead \in Nat
<1>1. phase \in {"census", "attribution", "trades", "closing", "writing", "exited", "dead"}
  BY DEF RunTypeOK
<1>2. PhasesLeft \in Nat
  BY <1>1 DEF PhasesLeft
<1>3. PoolsLeft \in Nat /\ AnswersLeft \in Nat
  BY LeftIsCounted DEF RunTypeOK, TypeOK
<1>4. Cardinality(After(Pools, listed)) \in Nat
  BY CountsAfter, IdsAreFinite
<1>5. tradeAt \in Nat /\ Len(eligible) \in Nat /\ tradeAt <= Len(eligible) + 1
  BY DEF RunTypeOK, TradesTypeOK, AttributionTypeOK
<1>6. TradesAhead \in Nat
  BY <1>5, TradesLeft DEF TradesAhead
<1> QED
  BY <1>2, <1>3, <1>4, <1>5, <1>6 DEF PoolsAhead, AnswersAhead

\* A page leaves fewer pools after the cursor, and nothing else goes on.
LEMMA CensusMovesOn ==
  ASSUME RunTypeOK, InCensus
  PROVE  /\ PhasesLeft' = PhasesLeft
         /\ \/ PoolsAhead' < PoolsAhead
            \/ PoolsAhead' = PoolsAhead /\ AnswersAhead' < AnswersAhead
<1>1. phase = "census" /\ phase' = "census" /\ listed \in Nat
  BY DEF InCensus, RunTypeOK, CensusTypeOK
<1>2. /\ PhasesLeft' = PhasesLeft
      /\ PoolsAhead = Cardinality(After(Pools, listed))
      /\ PoolsAhead' = Cardinality(After(Pools, listed'))
      /\ AnswersAhead = (IF census = "running" THEN 1 ELSE 0)
      /\ AnswersAhead' = (IF census' = "running" THEN 1 ELSE 0)
  BY <1>1 DEF PhasesLeft, PoolsAhead, AnswersAhead
<1>3. CASE PoolsPage(flags.maxPages)
  <2>1. PICK page \in PageOf(Existing, listed, PoolPageSize) :
          \E last \in page : IsLast(last, page) /\ listed' = last
    BY <1>3 DEF PoolsPage
  <2>2. PICK last \in page : IsLast(last, page) /\ listed' = last
    BY <2>1
  <2>3. last \in After(Pools, listed)
    BY <2>1 DEF PageOf, After, Existing
  <2> QED
    BY <1>1, <1>2, <2>2, <2>3, FewerAfter, IdsAreFinite, IdsArePositive
<1>4. CASE PoolsFail \/ PoolsEnd(flags.maxPages) \/ PoolsNotWritten(flags.maxPages)
  BY <1>2, <1>4 DEF PoolsFail, PoolsEnd, PoolsNotWritten, Listing
<1> QED
  BY <1>3, <1>4 DEF InCensus, CensusStep

\* A page leaves fewer trades of the pool, the end of its walk fewer pools.
LEMMA TradesMoveOn ==
  ASSUME RunTypeOK, TradesInv, InTrades
  PROVE  /\ PhasesLeft' = PhasesLeft
         /\ \/ PoolsAhead' < PoolsAhead
            \/ PoolsAhead' = PoolsAhead /\ AnswersAhead' < AnswersAhead
<1>1. /\ phase = "trades" /\ phase' = "trades" /\ tradeOutcome = "running" /\ eligible' = eligible
      /\ tradeAt \in Nat /\ Len(eligible) \in Nat /\ tradeAt <= Len(eligible) + 1
      /\ tradeStep \in {"loop", "walk"} /\ passed \in Nat
      /\ tradeStep = "walk" => tradeAt <= Len(eligible)
      /\ tradeStep = "loop" => passed = 0
  BY TradesWriteTheirOwn
     DEF InTrades, TradesOnly, RunTypeOK, TradesTypeOK, AttributionTypeOK, TradesInv
<1>2. /\ PhasesLeft' = PhasesLeft
      /\ PoolsAhead = Len(eligible) + 1 - tradeAt
      /\ PoolsAhead' = Len(eligible) + 1 - tradeAt'
      /\ AnswersAhead = TradesAhead /\ AnswersAhead' = TradesAhead'
  BY <1>1 DEF PhasesLeft, PoolsAhead, AnswersAhead
<1>3. TradesAhead \in Nat /\ TradesAhead > 0
  <2>1. CASE tradeAt > Len(eligible)
    <3>1. TradesAhead = 1
      BY <1>1, <2>1 DEF TradesAhead
    <3> QED
      BY <3>1
  <2>2. CASE tradeAt <= Len(eligible)
    <3>1. Len(Swaps[Pool]) \in Nat /\ passed <= Len(Swaps[Pool])
      BY <2>2, TradesLeft
    <3>2. CASE tradeStep = "loop"
      BY <1>1, <2>2, <3>1, <3>2 DEF TradesAhead
    <3>3. CASE tradeStep = "walk"
      BY <1>1, <2>2, <3>1, <3>3 DEF TradesAhead
    <3> QED
      BY <1>1, <3>2, <3>3
  <2> QED
    BY <1>1, <2>1, <2>2
<1>4. CASE TradesInterrupted \/ TradesNotWritten(flags.trades) \/ TradesOver
  <2>1. tradeAt' = tradeAt /\ tradeOutcome' # "running"
    BY <1>4 DEF TradesInterrupted, TradesNotWritten, TradesOver
  <2>2. TradesAhead' = 0
    BY <2>1 DEF TradesAhead
  <2> QED
    BY <1>2, <1>3, <2>1, <2>2
<1>5. CASE TradesFail \/ TradesEnd(flags.trades)
  <2>1. tradeAt' = tradeAt + 1
    BY <1>5 DEF TradesFail, TradesEnd, NextTradesPool
  <2> QED
    BY <1>1, <1>2, <2>1
<1>6. CASE BeginTrades \/ TradesPage(flags.trades)
  <2>1. /\ tradeAt <= Len(eligible) /\ tradeAt' = tradeAt /\ tradeOutcome' = "running"
        /\ \/ tradeStep = "loop" /\ tradeStep' = "walk" /\ passed' = passed
           \/ /\ tradeStep = "walk" /\ tradeStep' = "walk"
              /\ \E n \in 1..TradePageSize : passed' = passed + n
    BY <1>1, <1>6 DEF BeginTrades, TradesPage, TradesAtHead, Fetching
  <2>2. /\ passed' \in Nat
        /\ \/ tradeStep = "loop" /\ passed' = passed
           \/ tradeStep = "walk" /\ passed' > passed
    BY <1>1, <2>1, TradePageSizeIsPositive
  <2>3. Pool' = Pool /\ Len(Swaps[Pool]) \in Nat
    BY <1>1, <2>1, TradesLeft DEF Pool
  <2>4. \/ tradeStep = "loop" /\ TradesAhead = Len(Swaps[Pool]) - passed + 2
        \/ tradeStep = "walk" /\ TradesAhead = Len(Swaps[Pool]) - passed + 1
    <3>1. CASE tradeStep = "loop"
      BY <1>1, <2>1, <3>1 DEF TradesAhead
    <3>2. CASE tradeStep = "walk"
      BY <1>1, <2>1, <3>2 DEF TradesAhead
    <3> QED
      BY <1>1, <3>1, <3>2
  <2>5. TradesAhead' = Len(Swaps[Pool]) - passed' + 1
    <3>1. tradeStep' = "walk"
      BY <2>1
    <3> QED
      BY <1>1, <2>1, <2>3, <3>1 DEF TradesAhead
  <2>6. TradesAhead' < TradesAhead
    BY <1>1, <2>2, <2>3, <2>4, <2>5
  <2> QED
    BY <1>2, <2>1, <2>6
<1> QED
  BY <1>4, <1>5, <1>6 DEF InTrades, TradesStep

\* A pass that returns, a manifest, a failing disk and a kill bring the end nearer.
LEMMA PhasesMoveOn ==
  ASSUME RunTypeOK, PassReturns \/ CreateManifest \/ WriteManifest \/ CloseFails \/ Crash
  PROVE  PhasesLeft' < PhasesLeft
<1>1. phase \in {"census", "attribution", "trades", "closing", "writing", "exited", "dead"}
  BY DEF RunTypeOK
<1>2. CASE PassReturns
  <2>1. PICK next \in {"attribution", "trades", "closing"} :
          /\ Enter(next)
          /\ next = "attribution" => phase = "census"
          /\ next = "trades" => phase \in {"census", "attribution"}
          /\ phase \in {"census", "attribution", "trades"}
    BY <1>2, PassReturnsEnters
  <2>2. phase' = next
    BY <2>1 DEF Enter
  <2> QED
    BY <2>1, <2>2 DEF PhasesLeft
<1>3. CASE CreateManifest \/ WriteManifest \/ CloseFails
  <2>1. \/ phase = "closing" /\ phase' = "writing"
        \/ phase \in {"closing", "writing"} /\ phase' = "exited"
    BY <1>3 DEF CreateManifest, WriteManifest, CloseFails
  <2> QED
    BY <2>1 DEF PhasesLeft
<1>4. CASE Crash
  <2>1. phase' = "dead" /\ phase \in {"census", "attribution", "trades", "closing", "writing"}
    BY <1>1, <1>4 DEF Crash, Over
  <2> QED
    BY <2>1 DEF PhasesLeft
<1> QED
  BY <1>2, <1>3, <1>4

\* Whatever the ledger, Horizon, the operator and the disk do in between, the
\* run has so many steps before it and no more (main.go:112-175).
THEOREM RunIsBounded ==
  RunSpec => RunMovesOn /\ [](PhasesLeft \in Nat /\ PoolsAhead \in Nat /\ AnswersAhead \in Nat)
<1>1. RunTypeOK /\ TradesInv =>
        (RunStep \/ CloseFails \/ Crash =>
           \/ PhasesLeft' < PhasesLeft
           \/ /\ PhasesLeft' = PhasesLeft
              /\ \/ PoolsAhead' < PoolsAhead
                 \/ PoolsAhead' = PoolsAhead /\ AnswersAhead' < AnswersAhead)
  <2> SUFFICES ASSUME RunTypeOK, TradesInv, RunStep \/ CloseFails \/ Crash
               PROVE  \/ PhasesLeft' < PhasesLeft
                      \/ /\ PhasesLeft' = PhasesLeft
                         /\ \/ PoolsAhead' < PoolsAhead
                            \/ PoolsAhead' = PoolsAhead /\ AnswersAhead' < AnswersAhead
    OBVIOUS
  <2>1. CASE InCensus
    BY <2>1, CensusMovesOn
  <2>2. CASE InAttribution
    <3>1. phase = "attribution" /\ phase' = "attribution"
      BY <2>2 DEF InAttribution
    <3>2. \/ PoolsLeft' < PoolsLeft
          \/ PoolsLeft' = PoolsLeft /\ AnswersLeft' < AnswersLeft
      BY <2>2, StepMovesOn DEF InAttribution, RunTypeOK, TypeOK
    <3> QED
      BY <3>1, <3>2 DEF PhasesLeft, PoolsAhead, AnswersAhead
  <2>3. CASE InTrades
    BY <2>3, TradesMoveOn
  <2>4. CASE PassReturns \/ CreateManifest \/ WriteManifest \/ CloseFails \/ Crash
    BY <2>4, PhasesMoveOn
  <2> QED
    BY <2>1, <2>2, <2>3, <2>4 DEF RunStep
<1> QED
  BY <1>1, RunLeftIsCounted, RunTypeCorrect, RunTrades, PTL DEF RunMovesOn
=============================================================================
