------------------------------- MODULE Ingest -------------------------------
(***************************************************************************)
(* run() of cmd/ingest/main.go: the census, then the attribution of the    *)
(* pools it found eligible, then their trade histories, then the manifest. *)
(* The passes run one after the other in one goroutine; the ledger, the    *)
(* operator's signal, a failing disk and the death of the process do not   *)
(* wait for them.                                                          *)
(***************************************************************************)
EXTENDS Census, Attribution, TradeHistory

CONSTANTS Flags,         \* the command lines in use
          TornManifest,  \* manifest.json created, its bytes not all there
          NoPass         \* a pass that did not run: null in the manifest

CommandLines == [maxPages : Int, holders : BOOLEAN, trades : Int]
ASSUME FlagsAreCommandLines == Flags \subseteq CommandLines

VARIABLES flags,
          phase,      \* the pass in progress, then "closing", "writing", and
                      \* "exited" or, for a killed process, "dead"
          status,     \* exit status
          diskFailed, \* history: a write or a close has failed
          created     \* the files created on first use that exist

ingestVars == <<flags, phase, status, diskFailed, created>>
runVars == <<worldVars, fileVars, eligible, censusVars, attrVars, tradeVars, ingestVars>>

-----------------------------------------------------------------------------
(* The manifest.                                                           *)

HolderSummary ==
  IF outcome = "idle" THEN NoPass
  ELSE [eligible |-> Len(eligible), skipped |-> pools - Len(eligible),
        attributed |-> stats.attributed, failed |-> stats.failed,
        positions |-> stats.positions, reread |-> stats.reread]

TradeSummary ==
  IF tradeOutcome = "idle" THEN NoPass
  ELSE [maxPages |-> flags.trades, pools |-> tradeStats.pools,
        trades |-> tradeStats.trades, failed |-> tradeStats.failed]

HolderSummaries == [eligible : Nat, skipped : Int, attributed : Nat, failed : Seq(Pools),
                    positions : Nat, reread : Nat]
TradeSummaries == [maxPages : Int, pools : Nat, trades : Nat, failed : Seq(Pools)]
Manifests == [pools : Nat, pages : Nat, maxPages : Int,
              holders : HolderSummaries \cup {NoPass}, trades : TradeSummaries \cup {NoPass}]

ASSUME MarksAreApart ==
  /\ NoManifest # TornManifest /\ {NoManifest, TornManifest} \cap Manifests = {}
  /\ NoPass \notin HolderSummaries /\ NoPass \notin TradeSummaries

Summary == [pools |-> pools, pages |-> pages, maxPages |-> flags.maxPages,
            holders |-> HolderSummary, trades |-> TradeSummary]

Sealed == manifest \notin {NoManifest, TornManifest}

RunTypeOK ==
  /\ WorldTypeOK
  /\ CensusTypeOK
  /\ AttributionTypeOK
  /\ TradesTypeOK
  /\ manifest \in {NoManifest, TornManifest} \cup Manifests
  /\ flags \in Flags
  /\ phase \in {"census", "attribution", "trades", "closing", "writing", "exited", "dead"}
  /\ status \in {0, 1}
  /\ diskFailed \in BOOLEAN
  /\ created \subseteq {"positions", "atAttr", "trades"}

\* Mutant of NewWriter: all the files are created with the run directory.
NewWriterCreatesAll == FilesInit /\ created = {"positions", "atAttr", "trades"}

NewWriter == FilesInit /\ created = {}

RunInit ==
  /\ WorldInit
  /\ NewWriter
  /\ eligible = <<>>
  /\ CensusInit
  /\ AttributionInit /\ outcome = "idle"
  /\ TradesInit /\ tradeOutcome = "idle"
  /\ flags \in Flags
  /\ phase = "census"
  /\ status = 0
  /\ diskFailed = FALSE

-----------------------------------------------------------------------------
(* The files created on first use.                                         *)

Rows == [positions |-> positions, atAttr |-> atAttr, trades |-> tradesFile]
Filled == {f \in DOMAIN Rows : Rows[f] # {}}

\* Whether the next thing written is a row of the file; a batch without rows is
\* never written.
Due ==
  [positions |-> phase = "attribution" /\ ListingEnds /\ FreshRows # {},
   atAttr    |-> phase = "attribution" /\ AtHead /\ ~cancelled /\ Exists(Current),
   trades    |-> phase = "trades" /\ HistoryEnds(flags.trades) /\ got # {}]

\* A file exists before its first row does.
Opening == {f \in DOMAIN Due : Due[f] /\ f \notin created}

\* A step that fails may leave the file it was to fill behind, without a row.
Creates(fails) ==
  IF fails THEN \E opened \in SUBSET Opening : created' = created \cup opened \cup Filled'
           ELSE created' = created \cup Filled'

-----------------------------------------------------------------------------
(* Steps of the passes.                                                    *)

InCensus ==
  /\ phase = "census"
  /\ \/ CensusStep(flags.maxPages) /\ UNCHANGED diskFailed
     \/ PoolsNotWritten(flags.maxPages) /\ diskFailed' = TRUE
  /\ UNCHANGED <<attrVars, tradeVars, flags, phase, status, created>>

\* The only error an attribution pass returns is a failed write.
InAttribution ==
  /\ phase = "attribution"
  /\ AttributionStep
  /\ diskFailed' = (diskFailed \/ outcome' = "error")
  /\ Creates(outcome' = "error")
  /\ UNCHANGED <<censusVars, tradeVars, flags, phase, status>>

InTrades ==
  /\ phase = "trades"
  /\ \/ TradesStep(flags.trades) /\ UNCHANGED diskFailed
     \/ TradesNotWritten(flags.trades) /\ diskFailed' = TRUE
  /\ Creates(tradeOutcome' = "error")
  /\ UNCHANGED <<censusVars, attrVars, flags, phase, status>>

-----------------------------------------------------------------------------
(* Steps of run() itself.                                                  *)

Enter(next) ==
  /\ phase' = next
  /\ outcome' = IF next = "attribution" THEN "running" ELSE outcome
  /\ tradeOutcome' = IF next = "trades" THEN "running" ELSE tradeOutcome
  /\ UNCHANGED <<worldVars, fileVars, eligible, censusVars, flags, diskFailed, created,
                 at, step, cursor, found, seen, reread, stats,
                 tradeAt, tradeStep, tradePages, passed, got, tradeStats>>

\* -trades does not depend on -holders.
AfterHolders == IF flags.trades > 0 THEN "trades" ELSE "closing"
AfterCensus == IF flags.holders THEN "attribution" ELSE AfterHolders

\* Mutant of Returns: a failed pass ends the run without a manifest.
ReturnsWithoutManifest(result, next) ==
  IF result = "error" THEN Enter("exited") /\ status' = 1
                      ELSE Enter(next) /\ UNCHANGED status

\* A pass that fails still gets a manifest, and the run exits with 1.
Returns(result, next) ==
  IF result = "error" THEN Enter("closing") /\ status' = 1
                      ELSE Enter(next) /\ UNCHANGED status

PassReturns ==
  \/ phase = "census" /\ census # "running" /\ Returns(census, AfterCensus)
  \/ phase = "attribution" /\ outcome # "running" /\ Returns(outcome, AfterHolders)
  \/ phase = "trades" /\ tradeOutcome # "running" /\ Returns(tradeOutcome, "closing")

RunOnly == UNCHANGED <<worldVars, poolsFile, positions, atAttr, tradesFile, eligible,
                       censusVars, attrVars, tradeVars, flags>>

\* Mutant of CreateManifest: the manifest is opened with the run's first files.
CreateManifestFirst ==
  /\ phase \in {"census", "closing"}
  /\ manifest' = TornManifest
  /\ phase' = IF phase = "census" THEN phase ELSE "writing"
  /\ UNCHANGED <<status, diskFailed, created>>
  /\ RunOnly

\* Close: the data files are closed, then os.WriteFile creates manifest.json ...
CreateManifest ==
  /\ phase = "closing"
  /\ manifest' = TornManifest
  /\ phase' = "writing"
  /\ UNCHANGED <<status, diskFailed, created>>
  /\ RunOnly

\* ... and fills it.
WriteManifest ==
  /\ phase = "writing"
  /\ manifest' = Summary
  /\ phase' = "exited"
  /\ UNCHANGED <<status, diskFailed, created>>
  /\ RunOnly

\* A file does not close, or the manifest cannot be created or filled.
CloseFails ==
  /\ phase \in {"closing", "writing"}
  /\ phase' = "exited"
  /\ status' = 1
  /\ diskFailed' = TRUE
  /\ UNCHANGED <<manifest, created>>
  /\ RunOnly

RunStep == InCensus \/ InAttribution \/ InTrades \/ PassReturns \/ CreateManifest \/ WriteManifest
Over == phase \in {"exited", "dead"}

\* SIGKILL or the machine: what has been written stays.  A record is one write,
\* so a batch cut short is a failed write followed by this.
Crash ==
  /\ ~Over
  /\ phase' = "dead"
  /\ UNCHANGED <<status, diskFailed, manifest>>
  /\ RunOnly
  /\ Creates(TRUE)

RunMoves ==
  /\ phase \in {"census", "attribution", "trades"}
  /\ WorldStep
  /\ UNCHANGED <<fileVars, eligible, censusVars, attrVars, tradeVars, ingestVars>>

Ended == Over /\ UNCHANGED runVars

RunNext == RunStep \/ CloseFails \/ Crash \/ RunMoves \/ Ended

RunSpec == RunInit /\ [][RunNext]_runVars

\* No step of run() blocks for ever: every request ends, and so does a write.
FairRunSpec == RunSpec /\ WF_runVars(RunStep)
=============================================================================
