---------------------------- MODULE ReadersProps ----------------------------
(***************************************************************************)
(* What the readers of a run directory can tell, whenever they look.       *)
(***************************************************************************)
EXTENDS Readers, IngestProps

MetricsDone == reader = "metrics" /\ reading = "done"
SurveyDone == reader = "survey" /\ reading = "done"

\* The metrics work on a whole run or on none: load reads five files one after
\* the other, and what it returns is what the finished run holds for good,
\* whatever ingest was doing meanwhile (run.py:171-231, run.go:27-28).
LoadedIsWhole ==
  MetricsDone =>
    /\ Sealed
    /\ loaded = [manifest |-> manifest, pools |-> poolsFile, atAttr |-> atAttr,
                 positions |-> positions, trades |-> tradesFile]

\* The table is exact for a pool nobody touched during the run: each line has
\* the position's shares and the supply of the ledger, although the row may be
\* the census row or the re-read one, and concentration is computed for it only
\* over all of its holders (cli.py:149-175, concentration.py:46-49).
ShownRowsAreExact ==
  MetricsDone =>
    \A p \in Tabled : Quiet(p) =>
      LET lines == [a \in {a \in Accounts : ledger[p][a] > 0} |->
                      [account |-> a, shares |-> ledger[p][a], of |-> TotalShares(ledger[p])]]
      IN  /\ TableRows(p) \subseteq {lines[a] : a \in DOMAIN lines}
          /\ complete(p) => TableRows(p) = {lines[a] : a \in DOMAIN lines}

\* A pool nobody touched that passed the gate has a dash for its HHI only when the
\* manifest has it among the failed ones, or when on the ledger fewer than two
\* accounts have a share of it, of which no manifest says anything: never for a
\* holder that is missing without a word, unless the disk broke the pass off
\* (cli.py:162-167, concentration.py:51-57, run.go:79-83).
DashesAreExplained ==
  MetricsDone /\ loaded.manifest.holders # NoPass /\ ~diskFailed =>
    \A p \in Tabled : Quiet(p) /\ attributable(p) /\ holder_hhi_is_None(p) =>
      \/ p \in Listed(loaded.manifest.holders.failed)
      \/ Cardinality({a \in Accounts : ledger[p][a] > 0}) < 2

\* The survey asks for no manifest and may read pools and positions at two
\* moments of a run in progress: still, only a pool that moved is reported as a
\* mismatch (survey/main.go:38-63, 297-306).
SurveyMismatchMeansMoved ==
  SurveyDone => {m.pool : m \in SurveyReconciliation.mismatches} \subseteq Touched

\* The survey indexes lists that are only empty together with their files: it
\* panics on none that the finished run of a sound disk left behind, whatever
\* failed or was interrupted (survey/main.go:43-45, 57-59, 285-291).
SurveyTakesWhatIngestLeaves ==
  [][reading' = "panicked" => diskFailed \/ ~Sealed]_readerVars

\* A census row that has what it takes to be attributed.
Passes(r) == /\ TotalTrustlines(r.row) > 1
             /\ MinNative = 0 \/ NativeLeg[r.pool] >= MinNative

\* A run whose manifest says that all its pools were re-read has the row of each
\* of them: the metrics warn of stale denominators only when no pool at all was
\* re-read, and the count is what tells of the others (run.py:161-168,
\* cli.py:100-106, run.go:86-89).
RereadCountTellsTheSkew ==
  MetricsDone /\ loaded.manifest.holders # NoPass =>
    LET holders == loaded.manifest.holders IN
    holders.eligible > 0 /\ holders.reread = holders.eligible =>
      \A k \in DOMAIN loaded.pools :
        Passes(loaded.pools[k]) => loaded.pools[k].pool \in DOMAIN pools_at_attribution

\* An account's record names pools of the whole ledger, the scope only those of
\* the listing: when it was not capped, every position the metrics read of a
\* pool nobody touched has its pool (cli.py:87-92, ingest/main.go:118-142).
PositionsHaveTheirPool ==
  MetricsDone /\ loaded.manifest.maxPages <= 0 =>
    \A r \in loaded.positions : Quiet(r.pool) => r.pool \in DOMAIN run_pools

-----------------------------------------------------------------------------
(* The inductive invariants, beside those of the run.                       *)

\* Every row on file of a pool nobody touched is as it is on the ledger.
ExactInv ==
  /\ \A k \in DOMAIN poolsFile :
       LET r == poolsFile[k] IN Quiet(r.pool) => r.row = ledger[r.pool]
  /\ ExactRowsInv

\* The pass is called when the census has ended well, with every pool whose row
\* passes the filter.
EligibleInv ==
  /\ outcome # "idle" => census = "ok"
  /\ census # "error" =>
       \A k \in DOMAIN poolsFile : Passes(poolsFile[k]) => poolsFile[k].pool \in Listed(eligible)

\* What a reader has read is still on file, and in its place, whatever has been
\* appended since.
LoadedInv ==
  /\ DOMAIN loaded = DOMAIN Nothing
  /\ \A k \in DOMAIN loaded.pools :
       k \in DOMAIN poolsFile /\ poolsFile[k] = loaded.pools[k]
  /\ loaded.positions \subseteq positions

-----------------------------------------------------------------------------
\* "Reconciliation and any share-of-pool arithmetic must use the contemporaneous
\* row, not the census row" (run.go:94-96): the survey of a sealed run reports no
\* mismatch for a pool that is exact against the row re-read with its holders.
SurveyUsesTheRereadRow ==
  SurveyDone /\ Sealed =>
    {m.pool : m \in SurveyReconciliation.mismatches}
      \cap Reconciliation(atAttr, positions).exact = {}
=============================================================================
