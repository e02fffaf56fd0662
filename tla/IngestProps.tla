---------------------------- MODULE IngestProps ----------------------------
(***************************************************************************)
(* What a finished, failed, interrupted or killed run leaves behind.       *)
(***************************************************************************)
EXTENDS Ingest, AttributionProps

\* The pools of the census, in the order of pools.jsonl.
CensusPools == {poolsFile[k].pool : k \in DOMAIN poolsFile}

\* Unless the disk failed, the manifest of a run counts what its files hold,
\* and this for a failed or interrupted run as well as for a complete one
\* (run.go:39, 79-90; main.go:116-126); and "an empty file and a pass that never
\* ran" do not look alike: a file that is there has a row (run.go:157-160).
ManifestMatchesFiles ==
  Sealed /\ ~diskFailed =>
    /\ manifest.pools = Len(poolsFile)
    /\ manifest.holders # NoPass =>
         /\ manifest.holders.positions = Cardinality(positions)
         /\ manifest.holders.eligible + manifest.holders.skipped = Len(poolsFile)
         /\ manifest.holders.attributed + Len(manifest.holders.failed) = manifest.holders.eligible
    /\ manifest.trades # NoPass => manifest.trades.trades = Cardinality(tradesFile)
    /\ (manifest.holders = NoPass => {"positions", "atAttr"} \cap created = {})
    /\ (manifest.trades = NoPass => "trades" \notin created)
    /\ created = Filled

\* "Ctrl-C must still write a manifest" (main.go:56-58): a run that is neither
\* killed nor let down by its disk leaves one, whatever failed or was
\* interrupted, and exits 0 only when it does.
OnlyTheDiskLosesTheManifest ==
  phase = "exited" =>
    /\ ~diskFailed => Sealed
    /\ status = 0 => Sealed

\* A run that exits with 0 has every pool that nobody touched: in its census
\* once and exactly when the listing was not capped, and, when the pool has
\* more than one trustline and passes the threshold, with all its positions on
\* file or its name among the failures (main.go:201-223, 225-330).
CleanExitIsComplete ==
  phase = "exited" /\ status = 0 =>
    /\ \A j, k \in DOMAIN poolsFile : j < k => poolsFile[j].pool < poolsFile[k].pool
    /\ flags.maxPages <= 0 =>
         \A p \in Existing : Quiet(p) =>
           /\ [pool |-> p, row |-> ledger[p]] \in {poolsFile[k] : k \in DOMAIN poolsFile}
           /\ flags.holders /\ Cardinality(Holders(ledger[p])) > 1
                /\ (MinNative = 0 \/ NativeLeg[p] >= MinNative)
                => \/ p \in Listed(stats.failed)
                   \/ OnFile(p) = {[account |-> a, shares |-> ledger[p][a]] :
                                     a \in Holders(ledger[p])}
    /\ flags.holders => Listed(stats.failed) \cup Attributed \subseteq CensusPools

\* The trades on file for a pool are an unbroken window of its most recent
\* ones, those without a usable price left out, even when a write failed; a
\* pool whose walk failed has none (main.go:332-340, trades.go:124-131).
TradeWindow(p) == {row.trade : row \in {row \in tradesFile : row.pool = p}}
TradesAreRecentWindows ==
  \A p \in Pools :
    /\ \A t \in TradeWindow(p) :
         t \in {s \in DOMAIN Swaps[p] : Swaps[p][s]} /\ \A s \in 1..t : Swaps[p][s] => s \in TradeWindow(p)
    /\ p \in Listed(tradeStats.failed) => TradeWindow(p) = {}

\* What is left of the run: passes, pools of the pass in progress, and answers
\* for the current one.
PhasesLeft == [census |-> 5, attribution |-> 4, trades |-> 3, closing |-> 2, writing |-> 1,
               exited |-> 0, dead |-> 0][phase]
PoolsAhead ==
  CASE phase = "census" -> Cardinality(After(Pools, listed))
    [] phase = "attribution" -> PoolsLeft
    [] phase = "trades" -> Len(eligible) + 1 - tradeAt
    [] OTHER -> 0
TradesAhead ==
  IF tradeOutcome # "running" THEN 0
  ELSE IF tradeAt > Len(eligible) THEN 1
  ELSE Len(Swaps[Pool]) - passed + (IF tradeStep = "loop" THEN 2 ELSE 1)
AnswersAhead ==
  CASE phase = "census" -> IF census = "running" THEN 1 ELSE 0
    [] phase = "attribution" -> AnswersLeft
    [] phase = "trades" -> TradesAhead
    [] OTHER -> 0

\* Whatever the run does takes it further: no ledger that keeps moving, failure
\* or signal makes it ask for anything a second time (main.go:112-175).
RunMovesOn ==
  [][RunStep \/ CloseFails \/ Crash =>
       \/ PhasesLeft' < PhasesLeft
       \/ /\ PhasesLeft' = PhasesLeft
          /\ \/ PoolsAhead' < PoolsAhead
             \/ PoolsAhead' = PoolsAhead /\ AnswersAhead' < AnswersAhead]_runVars

\* The run ends: no failure, interrupt or ledger that keeps moving holds it up.
RunEnds == <>Over

FileRows == {<<"pools", k, poolsFile[k]>> : k \in DOMAIN poolsFile}
              \cup {<<"positions", r>> : r \in positions}
              \cup {<<"at", r>> : r \in atAttr}
              \cup {<<"trades", r>> : r \in tradesFile}
SealMark == IF Sealed THEN "whole" ELSE IF manifest = NoManifest THEN "none" ELSE "torn"

\* Every way a run can go keeps the promises of its directory.
Directory == INSTANCE RunDirectory WITH rows <- FileRows, seal <- SealMark, over <- Over

\* Rows are only ever added, the manifest is written last and once, and
\* nothing changes after it (run.go:27-28, 223-226).
KeepsTheDirectory == Directory!Spec

-----------------------------------------------------------------------------
(* The inductive invariants.                                                *)

\* A pass that has not begun has done nothing, and none goes on after its turn.
PhaseInv ==
  /\ phase = "census" => outcome = "idle" /\ tradeOutcome = "idle"
  /\ phase = "attribution" => outcome # "idle" /\ tradeOutcome = "idle"
  /\ phase \in {"trades", "closing", "writing", "exited"} => outcome # "running"
  /\ phase = "trades" => tradeOutcome # "idle"
  /\ outcome = "error" \/ tradeOutcome = "error" => diskFailed
  /\ outcome = "idle" =>
       /\ AttributionInit
       /\ positions = {} /\ atAttr = {}
  /\ tradeOutcome = "idle" => TradesInit /\ tradesFile = {}

\* The manifest is there from Close on, and says what the run has come to.
SealInv ==
  /\ manifest # NoManifest => phase \in {"writing", "exited", "dead"}
  /\ phase = "writing" => manifest = TornManifest
  /\ Sealed => phase = "exited" /\ manifest = Summary
  /\ phase = "exited" => (diskFailed \/ Sealed) /\ (status = 0 => Sealed)

\* The census hands its pools over in ascending order, up to its cursor.
OrderInv ==
  /\ \A i, j \in DOMAIN eligible : i < j => eligible[i] < eligible[j]
  /\ \A i \in DOMAIN eligible : eligible[i] <= listed

\* The walk in progress has the usable trades it has gone through, and only
\* pools the loop is past have trades on file, or a failure.
Past(n) == {eligible[k] : k \in 1..n}
TradesInv ==
  /\ tradeStep = "walk" => /\ passed <= Len(Swaps[Pool])
                           /\ got = {t \in 1..passed : Swaps[Pool][t]}
  /\ tradeStep = "loop" => passed = 0 /\ got = {}
  /\ tradeOutcome \in {"idle", "running"} =>
       /\ {row.pool : row \in tradesFile} \subseteq Past(tradeAt - 1)
       /\ Listed(tradeStats.failed) \subseteq Past(tradeAt - 1)
  /\ TradesAreRecentWindows

\* What the passes and the Writer count is what they have put on file.
CountInv ==
  /\ IsFiniteSet(tradesFile)
  /\ ~diskFailed =>
       /\ pools = Len(poolsFile)
       /\ tradeStats.trades = Cardinality(tradesFile)
       /\ phase # "dead" => created = Filled

\* The pass inside the run keeps its books once it has begun.
RunBooksInv == HarvestInv /\ (outcome # "idle" => AccountsInv)

\* Up to its cursor the census has the pools nobody touched, as they are, and
\* hands on those that pass its filter; a finished one has them all.
InCensusFile(p) == [pool |-> p, row |-> ledger[p]] \in {poolsFile[k] : k \in DOMAIN poolsFile}
CensusInv ==
  /\ \A j, k \in DOMAIN poolsFile : j < k => poolsFile[j].pool < poolsFile[k].pool
  /\ census # "error" => \A k \in DOMAIN poolsFile : poolsFile[k].pool <= listed
  /\ \A p \in Existing : Quiet(p) /\ p <= listed =>
       InCensusFile(p) /\ (attributable(p) => p \in Listed(eligible))
  /\ Listed(eligible) \subseteq CensusPools
  /\ census = "ok" /\ flags.maxPages <= 0 => \A p \in Existing : Quiet(p) => p <= listed

\* A pass that returned without an error has decided each of its pools, and a
\* status that is still 0 means that every pass so far was one of those.
DecidedInv ==
  /\ Listed(stats.failed) \subseteq Listed(eligible)
  /\ outcome = "ok" => Pending = {}
  /\ status = 0 /\ phase \in {"attribution", "trades", "closing", "writing", "exited"} =>
       census = "ok"
  /\ status = 0 /\ flags.holders /\ phase \in {"trades", "closing", "writing", "exited"} =>
       outcome = "ok"

=============================================================================
