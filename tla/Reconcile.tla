----------------------------- MODULE Reconcile -----------------------------
(***************************************************************************)
(* pkg/census/reconcile.go: holder balances against declared share supply. *)
(***************************************************************************)
EXTENDS RunFiles, FiniteSetsExt

SumOf(f(_), S) == MapThenSumSet(f, S)
TotalShares(row) == SumOf(LAMBDA a : row[a], Holders(row))
HolderSum(rows) == SumOf(LAMBDA r : r.shares, rows)

ByPool(rows, p) == {r \in rows : r.pool = p}

\* Mutant of IsChecked: holders are not counted against the trustlines.
IsCheckedByPresence(poolRow, rows) == ByPool(rows, poolRow.pool) # {}

\* A pool is checked when it has as many position rows as trustlines.
IsChecked(poolRow, rows) ==
  /\ ByPool(rows, poolRow.pool) # {}
  /\ Cardinality(ByPool(rows, poolRow.pool)) = TotalTrustlines(poolRow.row)

Mismatch(poolRow, rows) ==
  [pool  |-> poolRow.pool,
   sum   |-> HolderSum(ByPool(rows, poolRow.pool)),
   total |-> TotalShares(poolRow.row)]

\* The checked pools whose holder sum is their share supply, and the others.
Reconciliation(poolRows, rows) ==
  LET checked == {poolRow \in poolRows : IsChecked(poolRow, rows)}
      verdicts == {Mismatch(poolRow, rows) : poolRow \in checked}
  IN  [checked    |-> {poolRow.pool : poolRow \in checked},
       exact      |-> {v.pool : v \in {v \in verdicts : v.sum = v.total}},
       mismatches |-> {v \in verdicts : v.sum # v.total}]
=============================================================================
