---------------------------- MODULE ReadersProofs ----------------------------
(***************************************************************************)
(* Theorems about the readers of a run directory, whatever the run they    *)
(* read is doing and whenever they look.                                   *)
(***************************************************************************)
EXTENDS ReadersProps, IngestProofs, ReconcileProofs

\* Reading changes nothing: beside a reader, a run is a run.
THEOREM ReadersLookOn == ReadersSpec => RunSpec
<1>1. ReadersInit => RunInit
  BY DEF ReadersInit
<1>2. [ReadersNext]_<<runVars, readerVars>> => [RunNext]_runVars
  BY DEF ReadersNext
<1> QED
  BY <1>1, <1>2, PTL DEF ReadersSpec, RunSpec

\* Once its manifest is sealed, a run changes no more.
LEMMA SealedRunsAreStill ==
  ASSUME SealInv, Sealed, [RunNext]_runVars
  PROVE  UNCHANGED runVars
<1>1. phase = "exited"
  BY DEF SealInv
<1> USE <1>1
<1>2. ~InCensus /\ ~InAttribution /\ ~InTrades /\ ~RunMoves
  BY DEF InCensus, InAttribution, InTrades, RunMoves
<1>3. ~PassReturns /\ ~CreateManifest /\ ~WriteManifest /\ ~CloseFails /\ ~Crash
  BY DEF PassReturns, CreateManifest, WriteManifest, CloseFails, Crash, Over
<1> QED
  BY <1>2, <1>3, StepsOfARun

\* The metrics are past the manifest only when the run was sealed, and every
\* file they have read by then is the file as it will stay.
MetricsInv ==
  /\ reader \in {"metrics", "survey"}
  /\ reader = "metrics" => reading \in {"start", "refused", "manifest", "failed", "pools",
                                        "atAttr", "positions", "trades", "done"}
  /\ reader = "metrics" /\ reading \in {"start", "manifest"} => loaded = Nothing
  /\ reader = "metrics" /\ reading \in {"pools", "atAttr", "positions", "trades", "done"} =>
       /\ Sealed
       /\ loaded =
            [manifest  |-> manifest,
             pools     |-> IF reading = "pools" THEN <<>> ELSE poolsFile,
             atAttr    |-> IF reading \in {"pools", "atAttr"} THEN {} ELSE atAttr,
             positions |-> IF reading \in {"pools", "atAttr", "positions"} THEN {} ELSE positions,
             trades    |-> IF reading = "done" THEN tradesFile ELSE {}]

LEMMA MetricsInvStays ==
  SealInv /\ MetricsInv /\ [ReadersNext]_<<runVars, readerVars>> => MetricsInv'
<1> SUFFICES ASSUME SealInv, MetricsInv, [ReadersNext]_<<runVars, readerVars>>
             PROVE  MetricsInv'
  OBVIOUS
<1> USE DEF MetricsInv, readerVars
<1>1. CASE UNCHANGED runVars /\ UNCHANGED readerVars
  BY <1>1 DEF runVars, fileVars, Sealed
<1>2. CASE RunNext /\ UNCHANGED readerVars
  <2>1. CASE Sealed
    <3>1. UNCHANGED runVars
      BY <1>2, <2>1, SealedRunsAreStill
    <3> QED
      BY <1>2, <3>1 DEF runVars, fileVars, Sealed
  <2>2. CASE ~Sealed
    BY <1>2, <2>2
  <2> QED
    BY <2>1, <2>2
<1>3. CASE ReaderStep /\ UNCHANGED runVars
  <2>1. UNCHANGED <<manifest, poolsFile, atAttr, positions, tradesFile>> /\ Sealed' = Sealed
    BY <1>3 DEF runVars, fileVars, Sealed
  <2>2. CASE FindManifest
    BY <2>1, <2>2 DEF FindManifest, Reads
  <2>3. CASE ReadManifest
    <3>1. /\ reader' = reader /\ reading = "manifest"
          /\ reading' = IF Sealed THEN "pools" ELSE "failed"
          /\ loaded' = [loaded EXCEPT !.manifest = manifest]
      BY <2>3 DEF ReadManifest, Reads
    <3>2. reader = "metrics" =>
            loaded' = [manifest |-> manifest, pools |-> <<>>, atAttr |-> {},
                       positions |-> {}, trades |-> {}]
      <4>1. reader = "metrics" => loaded = Nothing
        BY <3>1
      <4>2. Nothing = [manifest |-> NoManifest, pools |-> <<>>, atAttr |-> {},
                       positions |-> {}, trades |-> {}]
        BY DEF Nothing
      <4>3. \A empty : loaded = [manifest |-> NoManifest, pools |-> empty, atAttr |-> {},
                                 positions |-> {}, trades |-> {}] =>
                        loaded' = [manifest |-> manifest, pools |-> empty, atAttr |-> {},
                                   positions |-> {}, trades |-> {}]
        BY ONLY <3>1
      <4> QED
        BY ONLY <4>1, <4>2, <4>3
    <3> QED
      BY <2>1, <3>1, <3>2
  <2>4. CASE ReadPools
    <3>1. /\ reader' = reader /\ reading = "pools"
          /\ reader = "metrics" => reading' = "atAttr"
          /\ loaded' = [loaded EXCEPT !.pools = poolsFile]
      BY <2>4 DEF ReadPools, Reads
    <3>2. reader = "metrics" =>
            Sealed /\ loaded' = [manifest |-> manifest, pools |-> poolsFile, atAttr |-> {},
                                 positions |-> {}, trades |-> {}]
      <4>1. reader = "metrics" =>
              Sealed /\ loaded = [manifest |-> manifest, pools |-> <<>>, atAttr |-> {},
                                  positions |-> {}, trades |-> {}]
        BY <3>1
      <4>2. \A empty : loaded = [manifest |-> manifest, pools |-> empty, atAttr |-> {},
                                 positions |-> {}, trades |-> {}] =>
                        loaded' = [manifest |-> manifest, pools |-> poolsFile, atAttr |-> {},
                                   positions |-> {}, trades |-> {}]
        BY ONLY <3>1
      <4> QED
        BY ONLY <4>1, <4>2
    <3> QED
      BY <2>1, <3>1, <3>2
  <2>5. CASE ReadAtAttr
    BY <2>1, <2>5 DEF ReadAtAttr, Reads
  <2>6. CASE ReadPositions
    <3>1. /\ reader' = reader /\ reading = "positions"
          /\ reader = "metrics" => reading' = "trades"
          /\ loaded' = [loaded EXCEPT !.positions = positions]
      BY <2>6 DEF ReadPositions, Reads
    <3>2. reader = "metrics" =>
            Sealed /\ loaded' = [manifest |-> manifest, pools |-> poolsFile, atAttr |-> atAttr,
                                 positions |-> positions, trades |-> {}]
      BY <3>1
    <3> QED
      BY <2>1, <3>1, <3>2
  <2>7. CASE ReadTrades
    BY <2>1, <2>7 DEF ReadTrades, Reads
  <2> QED
    BY <1>3, <2>2, <2>3, <2>4, <2>5, <2>6, <2>7 DEF ReaderStep
<1> QED
  BY <1>1, <1>2, <1>3 DEF ReadersNext

\* The metrics work on a whole run or on none: what load returns is what the
\* finished run holds for good (run.py:171-231, run.go:27-28).
THEOREM MetricsLoadWholeRuns == ReadersSpec => []LoadedIsWhole
<1>1. ReadersInit => MetricsInv
  BY DEF ReadersInit, MetricsInv
<1>2. MetricsInv => LoadedIsWhole
  BY DEF MetricsInv, LoadedIsWhole, MetricsDone
<1>3. ReadersSpec => []MetricsInv
  BY <1>1, MetricsInvStays, ReadersLookOn, SealIsLast, PTL DEF ReadersSpec
<1> QED
  BY <1>2, <1>3, PTL

\* The places the survey prints of a list that is not empty are in it.
LEMMA IndexesAreInside ==
  ASSUME NEW n \in Nat \ {0}
  PROVE  Indexes(n) \subseteq 0..(n - 1)
<1>1. 0 <= n \div 2 /\ n \div 2 < n
  OBVIOUS
<1>2. 0 <= (n * 90) \div 100 /\ (n * 90) \div 100 < n
  OBVIOUS
<1>3. 0 <= (n * 99) \div 100 /\ (n * 99) \div 100 < n
  OBVIOUS
<1>4. n \div 2 \in Int /\ (n * 90) \div 100 \in Int /\ (n * 99) \div 100 \in Int
  OBVIOUS
<1> QED
  BY <1>1, <1>2, <1>3, <1>4 DEF Indexes

\* The survey panics on nothing that the finished run of a sound disk left
\* behind (survey/main.go:43-45, 57-59, 285-291).
THEOREM SurveyTakesIt == ReadersSpec => SurveyTakesWhatIngestLeaves
<1>1. RunTypeOK /\ SealInv /\ CountInv /\ RunBooksInv /\ [ReadersNext]_<<runVars, readerVars>> =>
        [reading' = "panicked" => diskFailed \/ ~Sealed]_readerVars
  <2> SUFFICES ASSUME RunTypeOK, SealInv, CountInv, ReadersNext, reading' = "panicked",
                      ~UNCHANGED readerVars, ~diskFailed, Sealed
               PROVE  FALSE
    BY DEF readerVars
  <2>1. ReaderStep
    BY DEF ReadersNext
  <2>2. created = Filled
    BY DEF CountInv, SealInv
  <2>3. ReadPools \/ ReadPositions
    BY <2>1 DEF ReaderStep, FindManifest, ReadManifest, ReadAtAttr, ReadTrades, Reads
  <2>4. CASE ReadPools
    <3>1. poolsFile # <<>> /\ Reported(Len(poolsFile), "positions") = "panicked"
      BY <2>4 DEF ReadPools, Reads
    <3>2. Len(poolsFile) \in Nat \ {0}
      BY <3>1 DEF RunTypeOK, CensusTypeOK
    <3> QED
      BY <3>1, <3>2, IndexesAreInside DEF Reported
  <2>5. CASE ReadPositions
    <3> DEFINE accounts == {r.account : r \in positions}
    <3>1. /\ "positions" \in created \cup Opening
          /\ Reported(Cardinality(accounts), "done") = "panicked"
      BY <2>5 DEF ReadPositions, Reads
    <3>2. Opening = {}
      <4>1. ~Due.positions /\ ~Due.atAttr /\ ~Due.trades
        BY DEF Due, SealInv
      <4>2. DOMAIN Due = {"positions", "atAttr", "trades"}
        BY DEF Due
      <4> QED
        BY <4>1, <4>2 DEF Opening
    <3>3. positions # {}
      BY <2>2, <3>1, <3>2 DEF Filled, Rows
    <3>4. accounts # {} /\ accounts \in SUBSET Accounts
      BY <3>3 DEF RunTypeOK, AttributionTypeOK, PositionRows
    <3>5. IsFiniteSet(accounts)
      BY <3>4, IdsAreFinite, FS_Subset
    <3>6. Cardinality(accounts) \in Nat \ {0}
      BY <3>4, <3>5, FS_CardinalityType, FS_EmptySet
    <3> QED
      BY <3>1, <3>6, IndexesAreInside DEF Reported
  <2> QED
    BY <2>3, <2>4, <2>5
<1> QED
  BY <1>1, RunTypeCorrect, SealIsLast, RunCounts, RunKeepsBooks, ReadersLookOn, PTL
     DEF ReadersSpec, SurveyTakesWhatIngestLeaves

-----------------------------------------------------------------------------
(* The rows on file.                                                        *)

\* A page adds rows as they are on the ledger, and hands on the pools among
\* them that pass the filter.
LEMMA PageAdds ==
  ASSUME RunTypeOK, CensusInv, NEW m \in Int, PoolsPage(m)
  PROVE  /\ \A k \in DOMAIN poolsFile' :
              \/ k \in DOMAIN poolsFile /\ poolsFile'[k] = poolsFile[k]
              \/ \E p \in Pools : /\ poolsFile'[k] = [pool |-> p, row |-> ledger[p]]
                                  /\ attributable(p) => p \in Listed(eligible')
         /\ Listed(eligible) \subseteq Listed(eligible')
<1>1. PICK page \in PageOf(Existing, listed, PoolPageSize) :
        /\ \E ids \in InOrder(page) : poolsFile' = poolsFile \o RowsFor(ids)
        /\ \E kept \in InOrder({p \in page : attributable(p)}) : eligible' = eligible \o kept
        /\ \E last \in page : IsLast(last, page) /\ listed' = last
  BY DEF PoolsPage
<1>2. PICK last \in page : IsLast(last, page)
  BY <1>1
<1>3. /\ listed \in Nat /\ last \in Nat /\ listed <= last /\ page \subseteq Pools
      /\ \A x \in page : listed < x /\ x <= last
  <2>1. Existing \in SUBSET Pools /\ listed \in Nat
    BY DEF Existing, RunTypeOK, CensusTypeOK
  <2> QED
    BY <1>2, <2>1, PageMovesUp
<1>4. PICK ids \in InOrder(page) : poolsFile' = poolsFile \o RowsFor(ids)
  BY <1>1
<1>5. /\ ids \in Seq(Pools)
      /\ \A i, j \in DOMAIN ids : i < j => ids[i] < ids[j]
      /\ \A i \in DOMAIN ids : ids[i] \in page
  BY <1>3, <1>4, InOrderLists, InOrderHasAll DEF Listed
<1>6. \A k \in DOMAIN poolsFile' :
        \/ k \in DOMAIN poolsFile /\ poolsFile'[k] = poolsFile[k]
        \/ /\ k - Len(poolsFile) \in DOMAIN ids
           /\ poolsFile'[k] = [pool |-> ids[k - Len(poolsFile)], row |-> ledger[ids[k - Len(poolsFile)]]]
  <2>1. census # "error"
    BY DEF PoolsPage, Listing
  <2>2. \A i \in DOMAIN ids : listed < ids[i] /\ ids[i] <= last
    BY <1>3, <1>5
  <2> QED
    BY <1>3, <1>4, <1>5, <2>1, <2>2, FileGoesOn
<1>7. Listed(eligible') = Listed(eligible) \cup {p \in page : attributable(p)}
  <2>1. PICK kept \in InOrder({p \in page : attributable(p)}) : eligible' = eligible \o kept
    BY <1>1
  <2>2. {p \in page : attributable(p)} \in SUBSET Pools
    BY <1>3
  <2>3. kept \in Seq(Pools) /\ Listed(kept) = {p \in page : attributable(p)}
    BY <2>1, <2>2, InOrderLists, InOrderHasAll
  <2> QED
    BY <2>1, <2>3, ListedConcat DEF RunTypeOK, AttributionTypeOK
<1> QED
  BY <1>3, <1>5, <1>6, <1>7

\* Whatever the census writes is as it is on the ledger, a page cut short too.
LEMMA CensusWritesTheLedger ==
  ASSUME RunTypeOK, CensusInv, InCensus
  PROVE  /\ \A k \in DOMAIN poolsFile' :
              \/ k \in DOMAIN poolsFile /\ poolsFile'[k] = poolsFile[k]
              \/ poolsFile'[k].row = ledger[poolsFile'[k].pool]
         /\ UNCHANGED <<worldVars, positions, atAttr>>
<1>1. flags.maxPages \in Int
  BY FlagsAreCommandLines DEF RunTypeOK, CommandLines
<1>2. UNCHANGED <<worldVars, positions, atAttr>>
  BY <1>1, CensusExtends DEF InCensus
<1>3. CASE PoolsPage(flags.maxPages)
  BY <1>1, <1>2, <1>3, PageAdds
<1>4. CASE PoolsNotWritten(flags.maxPages)
  BY <1>1, <1>2, <1>4, PagesBreakOff
<1>5. CASE PoolsFail \/ PoolsEnd(flags.maxPages)
  BY <1>2, <1>5 DEF PoolsFail, PoolsEnd, fileVars
<1> QED
  BY <1>3, <1>4, <1>5 DEF InCensus, CensusStep

LEMMA ExactStays ==
  RunTypeOK /\ CensusInv /\ HarvestInv /\ ExactInv /\ [RunNext]_runVars => ExactInv'
<1> SUFFICES ASSUME RunTypeOK, CensusInv, HarvestInv, ExactInv, [RunNext]_runVars
             PROVE  ExactInv'
  OBVIOUS
<1>0. \A k \in DOMAIN poolsFile : poolsFile[k].pool \in Pools
  <2>1. \A k \in DOMAIN poolsFile : poolsFile[k] \in PoolRows
    BY DEF RunTypeOK, CensusTypeOK
  <2> QED
    BY <2>1 DEF PoolRows
<1>1. CASE InCensus
  <2>1. /\ \A k \in DOMAIN poolsFile' :
             \/ k \in DOMAIN poolsFile /\ poolsFile'[k] = poolsFile[k]
             \/ poolsFile'[k].row = ledger[poolsFile'[k].pool]
        /\ UNCHANGED <<ledger, moved, positions, atAttr>>
    BY <1>1, CensusWritesTheLedger DEF worldVars
  <2> QED
    BY <2>1 DEF ExactInv, ExactRowsInv, Quiet, Touched
<1>2. CASE InAttribution
  <2>1. AttributionStep /\ UNCHANGED <<ledger, moved, poolsFile>>
    BY <1>2, AttributionWritesItsOwn DEF InAttribution, worldVars
  <2>2. ExactRowsInv'
    BY <2>1, ExactRowsStay DEF RunTypeOK, TypeOK, ExactInv
  <2> QED
    BY <2>1, <2>2 DEF ExactInv, Quiet, Touched
<1>3. CASE ~InCensus /\ ~InAttribution
  <2>1. UNCHANGED <<poolsFile, positions, atAttr>>
    BY <1>3, OnlyTheCensusLists, OnlyTheAttributionPassHarvests
  <2>2. \A p \in Pools : Quiet(p)' => Quiet(p) /\ ledger'[p] = ledger[p]
    <3>1. CASE RunMoves
      BY <3>1, QuietUnmoved DEF RunMoves, RunTypeOK
    <3>2. CASE ~RunMoves
      BY <3>2, OnlyMovesMove DEF worldVars, Quiet, Touched
    <3> QED
      BY <3>1, <3>2
  <2>3. \A k \in DOMAIN poolsFile : Quiet(poolsFile[k].pool)' =>
          poolsFile[k].row = ledger'[poolsFile[k].pool]
    <3>1. \A k \in DOMAIN poolsFile : Quiet(poolsFile[k].pool) =>
            poolsFile[k].row = ledger[poolsFile[k].pool]
      BY DEF ExactInv
    <3>2. ASSUME NEW k \in DOMAIN poolsFile, NEW p \in Pools, p = poolsFile[k].pool, Quiet(p)'
          PROVE  poolsFile[k].row = ledger'[p]
      BY <2>2, <3>1, <3>2
    <3> QED
      BY <1>0, <2>1, <3>2 DEF Quiet, Touched
  <2>4. ExactRowsInv'
    BY <2>1, <2>2, ExactRowsMoved DEF RunTypeOK, TypeOK, ExactInv
  <2> QED
    BY <2>1, <2>3, <2>4 DEF ExactInv, Quiet, Touched
<1> QED
  BY <1>1, <1>2, <1>3

LEMMA FilesAreExact == RunSpec => []ExactInv
<1>1. RunInit => ExactInv
  BY DEF RunInit, NewWriter, FilesInit, ExactInv, ExactRowsInv
<1> QED
  BY <1>1, ExactStays, RunTypeCorrect, CensusIsComplete, RunHarvests, PTL DEF RunSpec

-----------------------------------------------------------------------------
(* The pools handed on.                                                     *)

LEMMA EligibleStays ==
  RunTypeOK /\ CensusInv /\ PhaseInv /\ EligibleInv /\ [RunNext]_runVars => EligibleInv'
<1> SUFFICES ASSUME RunTypeOK, CensusInv, PhaseInv, EligibleInv, [RunNext]_runVars
             PROVE  EligibleInv'
  OBVIOUS
<1>1. CASE InCensus
  <2>1. flags.maxPages \in Int
    BY FlagsAreCommandLines DEF RunTypeOK, CommandLines
  <2>2. outcome' = "idle"
    BY <1>1 DEF InCensus, PhaseInv, attrVars
  <2>3. CASE PoolsPage(flags.maxPages)
    <3>1. census # "error"
      BY <2>3 DEF PoolsPage, Listing
    <3>2. ASSUME NEW k \in DOMAIN poolsFile', Passes(poolsFile'[k])
          PROVE  poolsFile'[k].pool \in Listed(eligible')
      <4>1. CASE k \in DOMAIN poolsFile /\ poolsFile'[k] = poolsFile[k]
        BY <2>1, <2>3, <3>1, <3>2, <4>1, PageAdds DEF EligibleInv
      <4>2. ASSUME NEW p \in Pools, poolsFile'[k] = [pool |-> p, row |-> ledger[p]],
                   attributable(p) => p \in Listed(eligible')
            PROVE  poolsFile'[k].pool \in Listed(eligible')
        BY <3>2, <4>2 DEF Passes, attributable
      <4> QED
        BY <2>1, <2>3, <4>1, <4>2, PageAdds
    <3> QED
      BY <2>2, <3>2 DEF EligibleInv, Listed, Passes
  <2>4. CASE PoolsFail \/ PoolsNotWritten(flags.maxPages)
    <3>1. census' = "error"
      BY <2>4 DEF PoolsFail, PoolsNotWritten
    <3> QED
      BY <2>2, <3>1 DEF EligibleInv
  <2>5. CASE PoolsEnd(flags.maxPages)
    <3>1. census = "running" /\ UNCHANGED <<poolsFile, eligible>>
      BY <2>5 DEF PoolsEnd, fileVars
    <3> QED
      BY <2>2, <3>1 DEF EligibleInv, Listed, Passes
  <2> QED
    BY <1>1, <2>3, <2>4, <2>5 DEF InCensus, CensusStep
<1>2. CASE ~InCensus
  <2>1. UNCHANGED <<poolsFile, eligible, census>>
    BY <1>2, OnlyTheCensusLists, OnlyTheCensusCounts
  <2>2. outcome' # "idle" => census = "ok"
    <3>1. CASE InAttribution
      BY <3>1, AttributionWritesItsOwn DEF InAttribution, EligibleInv
    <3>2. CASE PassReturns /\ phase = "census" /\ outcome' = "running"
      <4>1. phase # "attribution" /\ phase # "trades" /\ outcome = "idle"
        BY <3>2 DEF PhaseInv
      <4>2. census # "running" /\ Returns(census, AfterCensus)
        BY <3>2, <4>1 DEF PassReturns
      <4>3. census # "error"
        BY <3>2, <4>1, <4>2 DEF Returns, Enter
      <4> QED
        BY <4>2, <4>3 DEF RunTypeOK, CensusTypeOK
    <3> QED
      BY <3>1, <3>2, OnlyTheAttributionPassHarvests DEF EligibleInv
  <2> QED
    BY <2>1, <2>2 DEF EligibleInv, Listed, Passes
<1> QED
  BY <1>1, <1>2

LEMMA EligibleHasThem == RunSpec => []EligibleInv
<1>1. RunInit => EligibleInv
  BY DEF RunInit, NewWriter, FilesInit, EligibleInv
<1> QED
  BY <1>1, EligibleStays, RunTypeCorrect, CensusIsComplete, PhasesFollow, PTL DEF RunSpec

-----------------------------------------------------------------------------
(* What the metrics can tell of a run.                                      *)

\* Everything known of a run by the time the metrics have read it.
LEMMA WholeRunIsLoaded ==
  ASSUME RunTypeOK, MetricsInv, SealInv, PhaseInv, MetricsDone
  PROVE  /\ loaded.manifest = Summary
         /\ loaded.pools = poolsFile /\ loaded.atAttr = atAttr /\ loaded.positions = positions
         /\ outcome # "running"
         /\ loaded.manifest.maxPages = flags.maxPages
         /\ loaded.manifest.holders # NoPass =>
              /\ outcome # "idle"
              /\ loaded.manifest.holders.eligible = Len(eligible)
              /\ loaded.manifest.holders.failed = stats.failed
              /\ loaded.manifest.holders.reread = stats.reread
         /\ (outcome = "error" => diskFailed)
<1>1. /\ Sealed
      /\ loaded = [manifest |-> manifest, pools |-> poolsFile, atAttr |-> atAttr,
                   positions |-> positions, trades |-> tradesFile]
  BY DEF MetricsInv, MetricsDone
<1>2. phase = "exited" /\ manifest = Summary
  BY <1>1 DEF SealInv
<1>3. loaded.manifest = Summary
  BY <1>1, <1>2
<1>4. Summary.maxPages = flags.maxPages /\ Summary.holders = HolderSummary
  BY DEF Summary
<1>5. HolderSummary # NoPass =>
        /\ outcome # "idle"
        /\ HolderSummary.eligible = Len(eligible)
        /\ HolderSummary.failed = stats.failed
        /\ HolderSummary.reread = stats.reread
  BY DEF HolderSummary
<1>6. outcome # "running" /\ (outcome = "error" => diskFailed)
  BY <1>2 DEF PhaseInv
<1> QED
  BY <1>1, <1>3, <1>4, <1>5, <1>6

\* Every pool of pools.jsonl has one row, which is the one the dict keeps.
LEMMA OneRowEach ==
  ASSUME RunTypeOK, CensusInv, loaded.pools = poolsFile, NEW k \in DOMAIN poolsFile
  PROVE  /\ poolsFile[k].pool \in DOMAIN run_pools
         /\ run_pools[poolsFile[k].pool] = poolsFile[k].row
<1> DEFINE p == poolsFile[k].pool
           at_(q) == {j \in DOMAIN poolsFile : poolsFile[j].pool = q}
<1>1. DOMAIN poolsFile = 1..Len(poolsFile) /\ Len(poolsFile) \in Nat
      /\ \A j \in DOMAIN poolsFile : poolsFile[j].pool \in Nat
  <2>1. \A j \in DOMAIN poolsFile : poolsFile[j] \in PoolRows
    BY DEF RunTypeOK, CensusTypeOK
  <2>2. \A j \in DOMAIN poolsFile : poolsFile[j].pool \in Pools
    BY <2>1 DEF PoolRows
  <2>3. \A q \in Pools : q \in Nat
    BY IdsArePositive
  <2>4. DOMAIN poolsFile = 1..Len(poolsFile) /\ Len(poolsFile) \in Nat
    BY DEF RunTypeOK, CensusTypeOK
  <2> QED
    BY <2>2, <2>3, <2>4
<1>2. \A j \in DOMAIN poolsFile : poolsFile[j].pool = p => j = k
  BY <1>1 DEF CensusInv
<1>3. at_(p) = {k}
  BY <1>2
<1>4. Max(at_(p)) = k
  BY <1>1, <1>3 DEF Max
<1>5. p \in DOMAIN run_pools /\ run_pools[p] = poolsFile[Max(at_(p))].row
  BY DEF run_pools
<1> QED
  BY <1>4, <1>5

\* An account's record names pools of the whole ledger: when the listing was
\* not capped, every position the metrics read of a pool nobody touched has its
\* pool (cli.py:87-92, ingest/main.go:118-142).
THEOREM PositionsHavePools == ReadersSpec => []PositionsHaveTheirPool
<1>1. /\ RunTypeOK /\ MetricsInv /\ SealInv /\ PhaseInv /\ CensusInv /\ ExactInv /\ EligibleInv
      => PositionsHaveTheirPool
  <2> SUFFICES ASSUME RunTypeOK, MetricsInv, SealInv, PhaseInv, CensusInv, ExactInv, EligibleInv,
                      MetricsDone, loaded.manifest.maxPages <= 0,
                      NEW r \in loaded.positions, Quiet(r.pool)
               PROVE  r.pool \in DOMAIN run_pools
    BY DEF PositionsHaveTheirPool
  <2>1. flags.maxPages <= 0 /\ r \in positions /\ loaded.pools = poolsFile
    BY WholeRunIsLoaded
  <2>2. r.shares = ledger[r.pool][r.account]
    BY <2>1 DEF ExactInv, ExactRowsInv
  <2>3. r.account \in Accounts /\ r.pool \in Pools /\ r.shares # NoTrust
    BY <2>1, BoundsAreNat DEF RunTypeOK, AttributionTypeOK, PositionRows, NoTrust
  <2>4. r.pool \in Existing
    BY <2>2, <2>3 DEF Existing, Exists, Holders
  <2>5. census = "ok"
    BY <2>1 DEF PhaseInv, EligibleInv
  <2>6. InCensusFile(r.pool)
    BY <2>1, <2>4, <2>5 DEF CensusInv
  <2>7. PICK k \in DOMAIN poolsFile : poolsFile[k] = [pool |-> r.pool, row |-> ledger[r.pool]]
    BY <2>6 DEF InCensusFile
  <2>8. poolsFile[k].pool = r.pool
    BY <2>7
  <2> QED
    BY <2>1, <2>8, OneRowEach
<1>2. ReadersInit => MetricsInv
  BY DEF ReadersInit, MetricsInv
<1> QED
  BY <1>1, <1>2, MetricsInvStays, ReadersLookOn, SealIsLast, RunTypeCorrect, PhasesFollow,
     CensusIsComplete, FilesAreExact, EligibleHasThem, PTL DEF ReadersSpec

\* A run whose manifest says that all its pools were re-read has the row of each
\* of them (run.py:161-168, cli.py:100-106, run.go:86-89).
THEOREM RereadCountTells == ReadersSpec => []RereadCountTellsTheSkew
<1>1. /\ RunTypeOK /\ MetricsInv /\ SealInv /\ PhaseInv /\ EligibleInv /\ RereadInv
      => RereadCountTellsTheSkew
  <2> SUFFICES ASSUME RunTypeOK, MetricsInv, SealInv, PhaseInv, EligibleInv, RereadInv, MetricsDone,
                      loaded.manifest.holders # NoPass,
                      loaded.manifest.holders.eligible > 0,
                      loaded.manifest.holders.reread = loaded.manifest.holders.eligible,
                      NEW k \in DOMAIN loaded.pools, Passes(loaded.pools[k])
               PROVE  loaded.pools[k].pool \in DOMAIN pools_at_attribution
    BY DEF RereadCountTellsTheSkew
  <2>1. /\ loaded.pools = poolsFile /\ loaded.atAttr = atAttr
        /\ outcome # "idle" /\ stats.reread = Len(eligible) /\ Len(eligible) > 0
    BY WholeRunIsLoaded
  <2>2. DOMAIN eligible = 1..Len(eligible) /\ Len(eligible) \in Nat
    BY DEF RunTypeOK, AttributionTypeOK
  <2>3. Cardinality(atAttr) = Len(eligible)
    BY <2>1, <2>2 DEF RereadInv
  <2> DEFINE walks == [r \in atAttr |-> r.walk]
  <2>4. walks \in [atAttr -> 1..Len(eligible)] /\ \A r, s \in atAttr : walks[r] = walks[s] => r = s
    BY <2>2 DEF RereadInv
  <2>5. IsFiniteSet(1..Len(eligible)) /\ Cardinality(1..Len(eligible)) = Len(eligible)
    <3>1. \A n \in Nat : IsFiniteSet(1..n) /\ Cardinality(1..n) = n
      BY FS_Interval
    <3> QED
      BY <2>2, <3>1
  <2> HIDE DEF walks
  <2>6. \A w \in 1..Len(eligible) : \E r \in atAttr : walks[r] = w
    <3>1. Cardinality(atAttr) = Cardinality(1..Len(eligible))
      BY <2>3, <2>5
    <3>2. ASSUME NEW all, IsFiniteSet(all), Cardinality(atAttr) = Cardinality(all),
                 NEW f \in [atAttr -> all], \A r, s \in atAttr : f[r] = f[s] => r = s
          PROVE  \A w \in all : \E r \in atAttr : f[r] = w
      BY <3>2, CountsAll
    <3> QED
      BY <2>4, <2>5, <3>1, <3>2
  <2>7. \A w \in 1..Len(eligible) : \E r \in atAttr : r.walk = w
    BY <2>6 DEF walks
  <2>8. poolsFile[k].pool \in Listed(eligible)
    BY <2>1 DEF EligibleInv
  <2>9. PICK w \in 1..Len(eligible) : eligible[w] = poolsFile[k].pool
    BY <2>2, <2>8 DEF Listed
  <2>10. PICK r \in atAttr : r.pool = poolsFile[k].pool
    BY <2>7, <2>9 DEF RereadInv
  <2> QED
    BY <2>1, <2>10 DEF pools_at_attribution
<1>2. ReadersInit => MetricsInv
  BY DEF ReadersInit, MetricsInv
<1> QED
  BY <1>1, <1>2, MetricsInvStays, ReadersLookOn, SealIsLast, RunTypeCorrect, PhasesFollow,
     EligibleHasThem, RereadsAreCounted, PTL DEF ReadersSpec

\* Of a pool nobody touched the metrics use the row of the ledger, the census
\* row and the re-read one alike.
LEMMA RowIsTheLedgers ==
  ASSUME RunTypeOK, CensusInv, OrderInv, ExactInv, RereadInv,
         loaded.pools = poolsFile, loaded.atAttr = atAttr,
         NEW p \in DOMAIN run_pools, Quiet(p)
  PROVE  /\ pool_for(p) = ledger[p]
         /\ \E k \in DOMAIN poolsFile : poolsFile[k] = [pool |-> p, row |-> ledger[p]]
<1>1. PICK k \in DOMAIN poolsFile : poolsFile[k].pool = p
  BY DEF run_pools
<1>2. run_pools[p] = ledger[p] /\ poolsFile[k].row = ledger[p]
  BY <1>1, OneRowEach DEF ExactInv
<1>3. poolsFile[k] = [pool |-> p, row |-> ledger[p]]
  <2>1. poolsFile[k] \in PoolRows
    BY DEF RunTypeOK, CensusTypeOK
  <2> QED
    BY <1>1, <1>2, <2>1 DEF PoolRows
<1>4. CASE p \in DOMAIN pools_at_attribution
  <2> DEFINE latest(r) == \A s \in ByPool(atAttr, p) : s.walk <= r.walk
  <2>1. PICK r \in atAttr : r.pool = p
    BY <1>4 DEF pools_at_attribution
  <2>2. DOMAIN eligible = 1..Len(eligible) /\ Len(eligible) \in Nat
        /\ \A i \in DOMAIN eligible : eligible[i] \in Nat
    <3>1. DOMAIN eligible = 1..Len(eligible) /\ Len(eligible) \in Nat
          /\ \A i \in DOMAIN eligible : eligible[i] \in Pools
      BY DEF RunTypeOK, AttributionTypeOK
    <3> QED
      BY <3>1, IdsArePositive
  <2>3. \A s \in ByPool(atAttr, p) : s.walk = r.walk /\ s.walk \in Nat
    <3>1. \A s \in atAttr : s.walk \in DOMAIN eligible /\ s.pool = eligible[s.walk]
      BY DEF RereadInv
    <3>2. \A i, j \in DOMAIN eligible : eligible[i] = eligible[j] => i = j
      BY <2>2 DEF OrderInv
    <3> QED
      BY <2>1, <2>2, <3>1, <3>2 DEF ByPool
  <2>4. r \in ByPool(atAttr, p) /\ latest(r)
    BY <2>1, <2>3 DEF ByPool
  <2>5. \A s \in ByPool(atAttr, p) : s.row = ledger[p]
    BY <1>4 DEF ByPool, ExactInv, ExactRowsInv
  <2>6. pools_at_attribution[p] = (CHOOSE s \in ByPool(atAttr, p) : latest(s)).row
    BY <1>4 DEF pools_at_attribution
  <2>7. (CHOOSE s \in ByPool(atAttr, p) : latest(s)) \in ByPool(atAttr, p)
    BY <2>4
  <2>8. pools_at_attribution[p] = ledger[p]
    BY <2>5, <2>6, <2>7
  <2> QED
    BY <1>3, <1>4, <2>8 DEF pool_for
<1>5. CASE p \notin DOMAIN pools_at_attribution
  BY <1>2, <1>3, <1>5 DEF pool_for
<1> QED
  BY <1>4, <1>5

\* Each position of an untouched pool is one of its holders, so the gate's count
\* is that of the trustlines exactly when all of them are there.
LEMMA CompleteHasAll ==
  ASSUME RunTypeOK, HarvestInv, ExactInv, loaded.positions = positions,
         NEW p \in Pools, Quiet(p), pool_for(p) = ledger[p]
  PROVE  /\ \A r \in ByPool(positions, p) :
              /\ r.account \in Holders(ledger[p])
              /\ r.shares = ledger[p][r.account]
         /\ complete(p) <=> \A a \in Holders(ledger[p]) :
                              \E r \in ByPool(positions, p) : r.account = a
<1> DEFINE rows == ByPool(positions, p)
           holders == Holders(ledger[p])
           account == [r \in rows |-> r.account]
<1>1. \A r \in rows : r.account \in holders /\ r.shares = ledger[p][r.account]
  <2>1. ASSUME NEW r \in positions, r.pool = p
        PROVE  r.account \in Holders(ledger[p]) /\ r.shares = ledger[p][r.account]
    <3>1. r.shares = ledger[p][r.account]
      BY <2>1 DEF ExactInv, ExactRowsInv
    <3>2. r.account \in Accounts /\ r.shares \in Nat
      BY BoundsAreNat DEF RunTypeOK, AttributionTypeOK, PositionRows
    <3> QED
      BY <3>1, <3>2 DEF Holders, NoTrust
  <2> QED
    BY <2>1 DEF ByPool
<1>2. IsFiniteSet(holders)
  <2>1. holders \in SUBSET Accounts
    BY DEF Holders
  <2> QED
    BY <2>1, IdsAreFinite, FS_Subset
<1>3. account \in [rows -> holders] /\ \A r, s \in rows : account[r] = account[s] => r = s
  BY <1>1 DEF HarvestInv, NoPositionTwice, ByPool
<1>4. ASSUME NEW f \in [rows -> holders], \A r, s \in rows : f[r] = f[s] => r = s
      PROVE  Cardinality(rows) = Cardinality(holders) <=> \A a \in holders : \E r \in rows : f[r] = a
  BY <1>2, <1>4, CountsAll
<1>5. Cardinality(rows) = Cardinality(holders)
        <=> \A a \in holders : \E r \in rows : account[r] = a
  BY <1>3, <1>4
<1>6. complete(p) <=> Cardinality(rows) = Cardinality(holders)
  BY DEF complete, TotalTrustlines
<1> QED
  BY <1>1, <1>5, <1>6

\* Each line of the table of a pool nobody touched is exact, and concentration
\* is computed over all its holders (cli.py:149-175, concentration.py:46-49).
THEOREM ShownRowsHold == ReadersSpec => []ShownRowsAreExact
<1>1. /\ RunTypeOK /\ MetricsInv /\ SealInv /\ PhaseInv /\ CensusInv /\ OrderInv /\ HarvestInv
      /\ ExactInv /\ RereadInv
      => ShownRowsAreExact
  <2> SUFFICES ASSUME RunTypeOK, MetricsInv, SealInv, PhaseInv, CensusInv, OrderInv, HarvestInv,
                      ExactInv, RereadInv, MetricsDone, NEW p \in Tabled, Quiet(p)
               PROVE  LET lines == [a \in {a \in Accounts : ledger[p][a] > 0} |->
                                      [account |-> a, shares |-> ledger[p][a],
                                       of |-> TotalShares(ledger[p])]]
                      IN  /\ TableRows(p) \subseteq {lines[a] : a \in DOMAIN lines}
                          /\ complete(p) => TableRows(p) = {lines[a] : a \in DOMAIN lines}
    BY DEF ShownRowsAreExact
  <2>1. loaded.pools = poolsFile /\ loaded.atAttr = atAttr /\ loaded.positions = positions
    BY WholeRunIsLoaded
  <2>2. p \in DOMAIN run_pools
    BY DEF Tabled, scope, in_scope
  <2>3. /\ pool_for(p) = ledger[p] /\ p \in Pools
    <3>1. PICK k \in DOMAIN poolsFile : poolsFile[k] = [pool |-> p, row |-> ledger[p]]
      BY <2>1, <2>2, RowIsTheLedgers
    <3>2. poolsFile[k] \in PoolRows
      BY DEF RunTypeOK, CensusTypeOK
    <3>3. p \in Pools
      BY <3>1, <3>2 DEF PoolRows
    <3> QED
      BY <2>1, <2>2, <3>3, RowIsTheLedgers
  <2>4. \A r \in ByPool(positions, p) : r.account \in Holders(ledger[p])
                                        /\ r.shares = ledger[p][r.account]
    BY <2>1, <2>3, CompleteHasAll
  <2>5. complete(p) => \A a \in Holders(ledger[p]) : \E r \in ByPool(positions, p) : r.account = a
    BY <2>1, <2>3, CompleteHasAll
  <2>6. \A a \in Accounts : ledger[p][a] > 0 => a \in Holders(ledger[p])
    BY DEF Holders, NoTrust
  <2>7. Holders(ledger[p]) \subseteq Accounts
    BY DEF Holders
  <2> DEFINE total == TotalShares(ledger[p])
  <2>8. TableRows(p) = {[account |-> r.account, shares |-> r.shares, of |-> total] :
                          r \in {r \in ByPool(positions, p) : r.shares > 0}}
    BY <2>1, <2>3 DEF TableRows
  <2> HIDE DEF total
  <2> DEFINE lines == [a \in {a \in Accounts : ledger[p][a] > 0} |->
                         [account |-> a, shares |-> ledger[p][a], of |-> total]]
  <2>9. ASSUME NEW r \in ByPool(positions, p), r.shares > 0
        PROVE  /\ r.account \in DOMAIN lines
               /\ [account |-> r.account, shares |-> r.shares, of |-> total] = lines[r.account]
    BY <2>4, <2>7, <2>9
  <2>10. TableRows(p) \subseteq {lines[a] : a \in DOMAIN lines}
    BY <2>8, <2>9
  <2>11. ASSUME complete(p), NEW a \in DOMAIN lines
         PROVE  lines[a] \in TableRows(p)
    <3>1. PICK r \in ByPool(positions, p) : r.account = a
      BY <2>5, <2>6, <2>11
    <3>2. r.shares = ledger[p][a] /\ r.shares > 0
      BY <2>4, <3>1
    <3>3. lines[a] = [account |-> r.account, shares |-> r.shares, of |-> total]
      BY <3>1, <3>2
    <3> QED
      BY <2>8, <3>2, <3>3
  <2> QED
    BY <2>10, <2>11 DEF total
<1>2. ReadersInit => MetricsInv
  BY DEF ReadersInit, MetricsInv
<1> QED
  BY <1>1, <1>2, MetricsInvStays, ReadersLookOn, SealIsLast, RunTypeCorrect, PhasesFollow,
     CensusIsComplete, OrderIsKept, RunHarvests, FilesAreExact, RereadsAreCounted, PTL
     DEF ReadersSpec

\* A dash for the HHI of a pool nobody touched has its reason in the manifest, or in
\* a ledger with fewer than two holders of a share, or the disk failed
\* (cli.py:162-167, concentration.py:51-57, run.go:79-83).
THEOREM DashesHaveReasons == ReadersSpec => []DashesAreExplained
<1>1. /\ RunTypeOK /\ MetricsInv /\ SealInv /\ PhaseInv /\ CensusInv /\ OrderInv /\ HarvestInv
      /\ DecidedInv /\ ExactInv /\ EligibleInv /\ RereadInv
      => DashesAreExplained
  <2> SUFFICES ASSUME RunTypeOK, MetricsInv, SealInv, PhaseInv, CensusInv, OrderInv, HarvestInv,
                      DecidedInv, ExactInv, EligibleInv, RereadInv, MetricsDone,
                      loaded.manifest.holders # NoPass, ~diskFailed,
                      NEW p \in Tabled, Quiet(p), attributable(p),
                      p \notin Listed(loaded.manifest.holders.failed)
               PROVE  /\ complete(p)
                      /\ Cardinality({r \in ByPool(loaded.positions, p) : r.shares > 0}) < 2
                           => Cardinality({a \in Accounts : ledger[p][a] > 0}) < 2
    BY DEF DashesAreExplained, holder_hhi_is_None
  <2>1. /\ loaded.pools = poolsFile /\ loaded.atAttr = atAttr /\ loaded.positions = positions
        /\ loaded.manifest.holders.failed = stats.failed
        /\ outcome = "ok"
    BY WholeRunIsLoaded DEF RunTypeOK, AttributionTypeOK
  <2>2. PICK k \in DOMAIN poolsFile : poolsFile[k] = [pool |-> p, row |-> ledger[p]]
    BY <2>1, RowIsTheLedgers DEF Tabled, scope, in_scope
  <2>3. p \in Pools /\ pool_for(p) = ledger[p]
    <3>1. poolsFile[k] \in PoolRows
      BY DEF RunTypeOK, CensusTypeOK
    <3>2. p \in Pools
      BY <2>2, <3>1 DEF PoolRows
    <3> QED
      BY <2>1, <3>2, RowIsTheLedgers DEF Tabled, scope, in_scope
  <2>4. p \in Listed(eligible)
    <3>1. Passes(poolsFile[k]) /\ poolsFile[k].pool = p
      BY <2>2 DEF Passes, attributable
    <3>2. census # "error"
      BY <2>1 DEF EligibleInv
    <3> QED
      BY <3>1, <3>2 DEF EligibleInv
  <2>5. p \in Attributed
    <3>1. /\ DOMAIN eligible = 1..Len(eligible) /\ Len(eligible) \in Nat
          /\ at \in 1..(Len(eligible) + 1)
      BY DEF RunTypeOK, AttributionTypeOK
    <3>2. PICK i \in 1..Len(eligible) : p = eligible[i]
      BY <2>4, <3>1 DEF Listed
    <3>3. p \notin Listed(stats.failed) /\ Pending = {}
      BY <2>1 DEF DecidedInv
    <3>4. i \notin at..Len(eligible)
      BY <3>2, <3>3 DEF Pending
    <3> QED
      BY <3>1, <3>2, <3>3, <3>4 DEF Attributed
  <2>6. OnFile(p) = {[account |-> a, shares |-> ledger[p][a]] : a \in Holders(ledger[p])}
    BY <2>1, <2>5, HarvestReconciles DEF RunTypeOK, TypeOK, QuietPoolsReconcile
  <2>7. ASSUME NEW a \in Holders(ledger[p])
        PROVE  \E r \in ByPool(positions, p) : r.account = a
    <3>1. [account |-> a, shares |-> ledger[p][a]] \in OnFile(p)
      BY <2>6
    <3>2. PICK r \in positions : /\ r.pool = p
                                 /\ [account |-> r.account, shares |-> r.shares]
                                      = [account |-> a, shares |-> ledger[p][a]]
      BY <3>1 DEF OnFile
    <3>3. r.account = a
      BY <3>2
    <3> QED
      BY <3>2, <3>3 DEF ByPool
  <2>8. complete(p)
    BY <2>1, <2>3, <2>7, CompleteHasAll
  <2> DEFINE live == {r \in ByPool(positions, p) : r.shares > 0}
             owners == {a \in Accounts : ledger[p][a] > 0}
             account == [r \in live |-> r.account]
  <2>9. IsFiniteSet(live)
    <3>1. IsFiniteSet(positions)
      BY UniqueRowsFinite DEF HarvestInv, NoPositionTwice, RunTypeOK, AttributionTypeOK
    <3> QED
      BY <3>1, FS_Subset DEF ByPool
  <2>10. account \in Surjection(live, owners)
    <3>1. \A r \in live : r.account \in owners
      BY <2>1, <2>3, CompleteHasAll DEF Holders
    <3>2. ASSUME NEW a \in owners PROVE \E r \in live : account[r] = a
      <4>1. a \in Holders(ledger[p])
        BY DEF Holders, NoTrust
      <4>2. PICK r \in ByPool(positions, p) : r.account = a
        BY <2>7, <4>1
      <4>3. r.shares = ledger[p][a]
        BY <2>1, <2>3, <4>2, CompleteHasAll
      <4> QED
        BY <4>2, <4>3
    <3> QED
      BY <3>1, <3>2 DEF Surjection
  <2>11. Cardinality(owners) <= Cardinality(live)
    BY <2>9, <2>10, FS_Surjection
  <2>12. Cardinality(owners) \in Nat /\ Cardinality(live) \in Nat
    BY <2>9, <2>10, FS_Surjection, FS_CardinalityType
  <2> QED
    BY <2>1, <2>8, <2>11, <2>12
<1>2. ReadersInit => MetricsInv
  BY DEF ReadersInit, MetricsInv
<1> QED
  BY <1>1, <1>2, MetricsInvStays, ReadersLookOn, SealIsLast, RunTypeCorrect, PhasesFollow,
     CensusIsComplete, OrderIsKept, RunHarvests, RunDecides, FilesAreExact, EligibleHasThem,
     RereadsAreCounted, PTL DEF ReadersSpec

-----------------------------------------------------------------------------
(* What the survey can tell of a run in progress.                           *)

\* Rows are appended, and stay where they are.
LEMMA FilesAreAppendedTo ==
  ASSUME RunTypeOK, [RunNext]_runVars
  PROVE  /\ \A k \in DOMAIN poolsFile : k \in DOMAIN poolsFile' /\ poolsFile'[k] = poolsFile[k]
         /\ positions \subseteq positions'
<1>1. CASE InCensus
  <2>1. flags.maxPages \in Int
    BY FlagsAreCommandLines DEF RunTypeOK, CommandLines
  <2>2. positions' = positions /\ \E rows \in Seq(PoolRows) : poolsFile' = poolsFile \o rows
    BY <1>1, <2>1, CensusExtends DEF InCensus
  <2>3. PICK rows \in Seq(PoolRows) : poolsFile' = poolsFile \o rows
    BY <2>2
  <2>4. poolsFile \in Seq(PoolRows)
    BY DEF RunTypeOK, CensusTypeOK
  <2> QED
    BY <2>2, <2>3, <2>4, ConcatProperties
<1>2. CASE InAttribution
  BY <1>2, AttributionWritesItsOwn DEF InAttribution
<1>3. CASE ~InCensus /\ ~InAttribution
  BY <1>3, OnlyTheCensusLists, OnlyTheAttributionPassHarvests
<1> QED
  BY <1>1, <1>2, <1>3

LEMMA LoadedStays ==
  RunTypeOK /\ LoadedInv /\ [ReadersNext]_<<runVars, readerVars>> => LoadedInv'
<1> SUFFICES ASSUME RunTypeOK, LoadedInv, [ReadersNext]_<<runVars, readerVars>>
             PROVE  LoadedInv'
  OBVIOUS
<1>1. CASE [RunNext]_runVars /\ UNCHANGED readerVars
  <2>1. loaded' = loaded
    BY <1>1 DEF readerVars
  <2> QED
    BY <1>1, <2>1, FilesAreAppendedTo DEF LoadedInv
<1>2. CASE ReaderStep /\ UNCHANGED runVars
  <2>1. UNCHANGED <<poolsFile, positions>>
    BY <1>2 DEF runVars, fileVars
  <2>2. /\ DOMAIN loaded' = DOMAIN loaded
        /\ loaded'.pools = loaded.pools \/ loaded'.pools = poolsFile
        /\ loaded'.positions = loaded.positions \/ loaded'.positions = positions
    BY <1>2 DEF ReaderStep, FindManifest, ReadManifest, ReadPools, ReadAtAttr, ReadPositions,
                ReadTrades, LoadedInv, Nothing
  <2> QED
    BY <2>1, <2>2 DEF LoadedInv
<1> QED
  BY <1>1, <1>2 DEF ReadersNext

LEMMA LoadedIsOnFile == ReadersSpec => []LoadedInv
<1>1. ReadersInit => LoadedInv
  BY DEF ReadersInit, Nothing, LoadedInv
<1> QED
  BY <1>1, LoadedStays, RunTypeCorrect, ReadersLookOn, PTL DEF ReadersSpec

\* Whatever the survey has read of a pool nobody touched is exact, whichever of
\* the two files it read first and whatever was written in between: only a pool
\* that moved is reported as a mismatch (survey/main.go:38-63, 297-306).
THEOREM SurveyMismatchesMeanMoved == ReadersSpec => []SurveyMismatchMeansMoved
<1>1. RunTypeOK /\ HarvestInv /\ ExactInv /\ LoadedInv => SurveyMismatchMeansMoved
  <2> SUFFICES ASSUME RunTypeOK, HarvestInv, ExactInv, LoadedInv,
                      NEW poolRow \in Range(loaded.pools), Quiet(poolRow.pool),
                      IsChecked(poolRow, loaded.positions)
               PROVE  Mismatch(poolRow, loaded.positions).sum
                        = Mismatch(poolRow, loaded.positions).total
    BY DEF SurveyMismatchMeansMoved, SurveyReconciliation, Reconciliation, Mismatch, Quiet
  <2>1. PICK k \in DOMAIN loaded.pools : poolRow = loaded.pools[k]
    BY DEF Range
  <2>2. k \in DOMAIN poolsFile /\ poolRow = poolsFile[k]
    BY <2>1 DEF LoadedInv
  <2>3. poolRow.row \in Row /\ poolRow.row = ledger[poolRow.pool]
    <3>1. poolsFile[k] \in PoolRows
      BY <2>2 DEF RunTypeOK, CensusTypeOK
    <3> QED
      BY <2>2, <3>1 DEF PoolRows, ExactInv
  <2>4. /\ loaded.positions \in SUBSET PositionRows
        /\ \A r, s \in loaded.positions : r.account = s.account /\ r.pool = s.pool => r = s
    BY DEF LoadedInv, HarvestInv, NoPositionTwice, RunTypeOK, AttributionTypeOK
  <2>5. IsFiniteSet(loaded.positions)
    BY <2>4, UniqueRowsFinite
  <2>6. \A r \in ByPool(loaded.positions, poolRow.pool) : r.shares = poolRow.row[r.account]
    BY <2>3 DEF ByPool, LoadedInv, ExactInv, ExactRowsInv
  <2>7. \A r, s \in ByPool(loaded.positions, poolRow.pool) : r.account = s.account => r = s
    BY <2>4 DEF ByPool
  <2> QED
    BY <2>3, <2>4, <2>5, <2>6, <2>7, ExactRowsReconcile
<1> QED
  BY <1>1, RunTypeCorrect, RunHarvests, FilesAreExact, LoadedIsOnFile, ReadersLookOn, PTL

\* The same of the run's own two files, at any moment of any run.
THEOREM RunMismatchesMeanMoved == RunSpec => []MismatchMeansMoved
<1>1. RunTypeOK /\ ExactInv => TypeOK /\ ExactRowsInv
  BY DEF RunTypeOK, TypeOK, ExactInv
<1> QED
  BY <1>1, ExactRowsMeanMoved, RunTypeCorrect, RunHarvests, FilesAreExact, PTL

\* Whatever fell short of a re-read row that only ever grew has been harvested by
\* an earlier walk, at any moment of any run.
THEOREM RunShortfallsHaveEarlierSightings == RunSpec => []ShortfallsAreEarlierSightings
<1>1. RunTypeOK => TypeOK
  BY DEF RunTypeOK, TypeOK
<1> QED
  BY <1>1, OwnWalksSumUp, RunOwnWalksNeverFallShort, RunTypeCorrect, RunHarvests, PTL
=============================================================================
