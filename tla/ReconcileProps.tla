--------------------------- MODULE ReconcileProps ---------------------------
(***************************************************************************)
(* What Reconcile can tell about the positions of an attribution pass,     *)
(* given the rows re-read in that pass.                                    *)
(***************************************************************************)
EXTENDS AttributionProps, Reconcile

Verdict == Reconciliation(atAttr, positions)

\* A mismatch is never an artefact of the crawl: whichever walks failed, were
\* interrupted or left rows behind when a write failed, only a pool that moved
\* during the run fails to reconcile, and an untouched pool that was attributed
\* and re-read is checked and exact (reconcile.go:53-75).
MismatchMeansMoved ==
  /\ {m.pool : m \in Verdict.mismatches} \subseteq Touched
  /\ outcome # "error" =>
       \A row \in atAttr : Quiet(row.pool) /\ row.pool \in Attributed =>
         row.pool \in Verdict.exact

\* What the order of the two reads does achieve (main.go:269-272): in a pool that
\* only ever grew, the positions of an attributed pool fall short of its re-read
\* row only when one of the row's holders was harvested by an earlier walk.
ShortfallsAreEarlierSightings ==
  outcome # "error" =>
    \A row \in atAttr :
      /\ row.pool \in Attributed /\ NeverShrank(row.pool)
      /\ IsChecked(row, positions)
      /\ Mismatch(row, positions).sum < Mismatch(row, positions).total
      => \E r \in positions : r.account \in Holders(row.row) /\ r.walk < row.walk
=============================================================================
