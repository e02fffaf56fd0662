------------------------------ MODULE Readers ------------------------------
(***************************************************************************)
(* The two programs that read a run directory, at any time, while ingest   *)
(* may still be writing it: gauge-metrics (load in run.py, the table of    *)
(* cli.py) and cmd/survey.  Each reads file after file.  Only the metrics  *)
(* ask for the manifest first.                                             *)
(***************************************************************************)
EXTENDS Ingest, Reconcile

CONSTANT MIN_XLM  \* the native leg a pool in scope has at least
ASSUME ScopeIsAmount == MIN_XLM \in Nat

VARIABLES reader,     \* "metrics" or "survey"
          all_pools,  \* --all-pools
          reading,    \* the file to be read next, or how it ended
          loaded      \* what has been read so far

readerVars == <<reader, all_pools, reading, loaded>>

Nothing == [manifest |-> NoManifest, pools |-> <<>>, atAttr |-> {},
            positions |-> {}, trades |-> {}]

ReadersInit ==
  /\ RunInit
  /\ reader \in {"metrics", "survey"}
  /\ all_pools \in BOOLEAN
  /\ reader = "survey" => ~all_pools
  /\ reading = IF reader = "metrics" THEN "start" ELSE "pools"
  /\ loaded = Nothing

-----------------------------------------------------------------------------
(* Reading.                                                                *)

Reads(file, next) == reading = file /\ reading' = next /\ UNCHANGED <<reader, all_pools>>

\* Mutant of FindManifest: a directory without a manifest is read as well.
FindManifestOrNot ==
  /\ Reads("start", "pools")
  /\ loaded' = [loaded EXCEPT !.manifest = manifest]

\* load refuses a directory without manifest.json ...
FindManifest ==
  /\ Reads("start", IF manifest = NoManifest THEN "refused" ELSE "manifest")
  /\ UNCHANGED loaded

\* ... and fails on one that is not JSON.
ReadManifest ==
  /\ Reads("manifest", IF Sealed THEN "pools" ELSE "failed")
  /\ loaded' = [loaded EXCEPT !.manifest = manifest]

\* Mutant of Indexes: percentiles of a list counted from 1.
IndexesFromOne(n) == {1, (n + 1) \div 2, (n * 99 + 99) \div 100, n}

\* The places of a sorted list the survey's reports print: least, median, 90th
\* and 99th percentile, greatest.
Indexes(n) == {0, n \div 2, (n * 90) \div 100, (n * 99) \div 100, n - 1}

\* An index out of range ends the survey with a panic.
Reported(n, next) == IF Indexes(n) \subseteq 0..(n - 1) THEN next ELSE "panicked"

\* The survey has no use for an empty pools.jsonl.
ReadPools ==
  /\ \/ reader = "metrics" /\ Reads("pools", "atAttr")
     \/ /\ reader = "survey"
        /\ Reads("pools", IF poolsFile = <<>> THEN "failed"
                          ELSE Reported(Len(poolsFile), "positions"))
  /\ loaded' = [loaded EXCEPT !.pools = poolsFile]

ReadAtAttr ==
  /\ Reads("atAttr", "positions")
  /\ loaded' = [loaded EXCEPT !.atAttr = atAttr]

\* A file that is there is reported on by the survey, over its accounts.
ReadPositions ==
  /\ \/ reader = "metrics" /\ Reads("positions", "trades")
     \/ reader = "survey" /\ "positions" \notin created /\ Reads("positions", "done")
     \/ /\ reader = "survey" /\ "positions" \in created \cup Opening
        /\ Reads("positions", Reported(Cardinality({r.account : r \in positions}), "done"))
  /\ loaded' = [loaded EXCEPT !.positions = positions]

ReadTrades ==
  /\ Reads("trades", "done")
  /\ loaded' = [loaded EXCEPT !.trades = tradesFile]

ReaderStep ==
  \/ FindManifest
  \/ ReadManifest
  \/ ReadPools
  \/ ReadAtAttr
  \/ ReadPositions
  \/ ReadTrades

ReadersNext ==
  \/ RunNext /\ UNCHANGED readerVars
  \/ ReaderStep /\ UNCHANGED runVars

ReadersSpec == ReadersInit /\ [][ReadersNext]_<<runVars, readerVars>>

-----------------------------------------------------------------------------
(* What the metrics make of what they have read.                           *)

\* A dict keyed by pool id: of two rows of a pool the later one stays.
run_pools ==
  LET last(p) == Max({k \in DOMAIN loaded.pools : loaded.pools[k].pool = p})
  IN  [p \in {loaded.pools[k].pool : k \in DOMAIN loaded.pools} |-> loaded.pools[last(p)].row]

pools_at_attribution ==
  LET last(p) == CHOOSE r \in ByPool(loaded.atAttr, p) :
                   \A s \in ByPool(loaded.atAttr, p) : s.walk <= r.walk
  IN  [p \in {r.pool : r \in loaded.atAttr} |-> last(p).row]

\* The re-read row when there is one.
pool_for(p) ==
  IF p \in DOMAIN pools_at_attribution THEN pools_at_attribution[p] ELSE run_pools[p]

\* The scope is that of the census rows, the table's figures are not.
in_scope == {p \in DOMAIN run_pools : TotalTrustlines(run_pools[p]) > 1 /\ NativeLeg[p] >= MIN_XLM}
scope == IF all_pools THEN DOMAIN run_pools ELSE in_scope

\* A pool is drained when nobody holds a share of it.
is_drained(row) == TotalShares(row) = 0
Tabled == {p \in scope : ByPool(loaded.positions, p) # {} /\ ~is_drained(pool_for(p))}

\* Mutant of complete: any position will do.
completeByPresence(p) == ByPool(loaded.positions, p) # {}

complete(p) == Cardinality(ByPool(loaded.positions, p)) = TotalTrustlines(pool_for(p))

\* The lines of the table: a position, and the supply it is a share of.
TableRows(p) ==
  {[account |-> r.account, shares |-> r.shares, of |-> TotalShares(pool_for(p))] :
     r \in {r \in ByPool(loaded.positions, p) : r.shares > 0}}

\* The HHI of a pool is a dash over holders that are not all there, and over fewer
\* than two with a share.
holder_hhi_is_None(p) ==
  \/ ~complete(p)
  \/ Cardinality({r \in ByPool(loaded.positions, p) : r.shares > 0}) < 2

\* What the survey prints of share reconciliation: positions against census rows.
SurveyReconciliation == Reconciliation(Range(loaded.pools), loaded.positions)
=============================================================================
