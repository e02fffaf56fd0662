--------------------------- MODULE ReconcileProofs ---------------------------
(***************************************************************************)
(* Theorems about reconciliation.  The sums Reconcile compares are folds   *)
(* over sets of rows; what they are worth is proved by induction over      *)
(* finite sets, in the form that a nonempty family of subsets of a finite  *)
(* set has a least member: the least counterexample to a claim about       *)
(* subsets.                                                                *)
(***************************************************************************)
EXTENDS ReconcileProps, AttributionProofs

-----------------------------------------------------------------------------
(* Finite sums.                                                            *)

Pick(s) == CHOOSE x \in s : TRUE

\* g[s] is the sum of val[x] over s, the elements taken as CHOOSE offers them.
Adds(g, D, val) ==
  g = [s \in SUBSET D |-> IF s = {} THEN 0 ELSE val[Pick(s)] + g[s \ {Pick(s)}]]

\* A nonempty family of subsets of a finite set has a minimal member.
LEMMA LeastSubset ==
  ASSUME NEW S, IsFiniteSet(S), NEW F, F \subseteq SUBSET S, F # {}
  PROVE  \E T \in F : \A U \in F : U \subseteq T => U = T
<1>1. IsWellFoundedOn(StrictSubsetOrdering(S), SUBSET S)
  BY FS_FiniteSubsetsOfFinite, FS_StrictSubsetOrderingWellFounded
<1>2. \E T \in F : \A U \in F : ~(<<U, T>> \in StrictSubsetOrdering(S))
  BY <1>1, WFMin
<1> QED
  BY <1>2 DEF StrictSubsetOrdering

LEMMA PickIsIn == \A s : s # {} => Pick(s) \in s
BY DEF Pick

\* Such a function exists for every finite set: it is extended from the subsets
\* of at most n elements to those of n + 1.
LEMMA AdderExists ==
  ASSUME NEW D, IsFiniteSet(D), NEW val
  PROVE  \E g : Adds(g, D, val)
<1> DEFINE Small(T) == {s \in SUBSET D : Cardinality(s) <= Cardinality(T)}
           Upto(g, T) == g = [s \in Small(T) |->
                         IF s = {} THEN 0 ELSE val[Pick(s)] + g[s \ {Pick(s)}]]
           Without == {T \in SUBSET D : ~ \E g : Upto(g, T)}
<1>0. \A s \in SUBSET D : IsFiniteSet(s) /\ Cardinality(s) \in Nat
  BY FS_Subset, FS_CardinalityType
<1>1. SUFFICES ASSUME Without # {} PROVE FALSE
  <2>1. PICK g : Upto(g, D)
    BY <1>1
  <2>2. Small(D) = SUBSET D
    BY <1>0, FS_Subset, FS_CardinalityType
  <2> QED
    BY <2>1, <2>2 DEF Adds
<1>2. PICK T \in Without : \A U \in Without : U \subseteq T => U = T
  <2>1. Without \subseteq SUBSET D
    OBVIOUS
  <2> HIDE DEF Without
  <2> QED
    BY <1>1, <2>1, LeastSubset
<1>3. CASE T = {}
  <2>1. Small(T) = {{}}
    BY <1>0, <1>3, FS_EmptySet
  <2>2. Upto([s \in {{}} |-> 0], T)
    BY <2>1
  <2> QED
    BY <1>2, <2>2
<1>4. CASE T # {}
  <2>1. PICK x \in T : TRUE
    BY <1>4
  <2>2. T \ {x} \in SUBSET D /\ T \ {x} # T /\ Cardinality(T \ {x}) = Cardinality(T) - 1
    BY <1>0, <1>2, <2>1, FS_RemoveElement
  <2>3. PICK g : Upto(g, T \ {x})
    BY <1>2, <2>2
  <2> DEFINE h == [s \in Small(T) |->
                     IF s = {} THEN 0 ELSE val[Pick(s)] + g[s \ {Pick(s)}]]
  <2>4. ASSUME NEW s \in Small(T), s # {}
        PROVE  h[s \ {Pick(s)}] = g[s \ {Pick(s)}]
    <3>1. s \ {Pick(s)} \in Small(T \ {x})
      BY <1>0, <1>2, <2>2, <2>4, PickIsIn, FS_RemoveElement
    <3>2. s \ {Pick(s)} \in Small(T)
      BY <1>0, <1>2, <2>2, <3>1
    <3> QED
      BY <2>3, <3>1, <3>2
  <2>5. Upto(h, T)
    BY <2>4
  <2> QED
    BY <1>2, <2>5
<1> QED
  BY <1>3, <1>4

\* Its values are integers, and the element taken first does not matter.
LEMMA Adding ==
  ASSUME NEW D, IsFiniteSet(D), NEW val \in [D -> Int], NEW g, Adds(g, D, val)
  PROVE  /\ g[{}] = 0
         /\ \A s \in SUBSET D : g[s] \in Int
         /\ \A s \in SUBSET D : \A x \in s : g[s] = val[x] + g[s \ {x}]
<1>1. /\ g[{}] = 0
      /\ \A s \in SUBSET D : s # {} => g[s] = val[Pick(s)] + g[s \ {Pick(s)}]
  BY DEF Adds
<1>2. \A s \in SUBSET D : g[s] \in Int
  <2> DEFINE Bad == {s \in SUBSET D : g[s] \notin Int}
  <2> SUFFICES ASSUME Bad # {} PROVE FALSE
    OBVIOUS
  <2>1. PICK T \in Bad : \A U \in Bad : U \subseteq T => U = T
    <3>1. Bad \subseteq SUBSET D
      OBVIOUS
    <3> HIDE DEF Bad
    <3> QED
      BY <3>1, LeastSubset
  <2>2. T \in SUBSET D /\ g[T] \notin Int
    BY <2>1
  <2>3. T # {} /\ Pick(T) \in T /\ g[T] = val[Pick(T)] + g[T \ {Pick(T)}]
    <3>1. T # {}
      <4>1. g[{}] \in Int
        BY <1>1
      <4> QED
        BY <2>2, <4>1, Zenon
    <3> QED
      BY <1>1, <2>2, <3>1, PickIsIn
  <2>4. T \ {Pick(T)} \in SUBSET D /\ T \ {Pick(T)} # T
    BY <2>2, <2>3
  <2>5. g[T \ {Pick(T)}] \in Int
    BY <2>1, <2>4
  <2>6. val[Pick(T)] \in Int
    BY <2>2, <2>3
  <2> QED
    BY <2>2, <2>3, <2>5, <2>6
<1>3. \A s \in SUBSET D : \A x \in s : g[s] = val[x] + g[s \ {x}]
  <2> DEFINE Bad == {s \in SUBSET D : \E x \in s : g[s] # val[x] + g[s \ {x}]}
  <2> SUFFICES ASSUME Bad # {} PROVE FALSE
    OBVIOUS
  <2>1. PICK T \in Bad : \A U \in Bad : U \subseteq T => U = T
    <3>1. Bad \subseteq SUBSET D
      OBVIOUS
    <3> HIDE DEF Bad
    <3> QED
      BY <3>1, LeastSubset
  <2>2. PICK x \in T : g[T] # val[x] + g[T \ {x}]
    BY <2>1
  <2> DEFINE y == Pick(T)
  <2>3. y \in T /\ g[T] = val[y] + g[T \ {y}]
    BY <1>1, <2>1, PickIsIn
  <2>4. x # y
    BY <2>2, <2>3
  <2>5. T \ {x} \notin Bad /\ T \ {y} \notin Bad
    BY <2>1, <2>2, <2>3
  <2> HIDE DEF y
  <2>6. /\ g[T \ {x}] = val[y] + g[(T \ {x}) \ {y}]
        /\ g[T \ {y}] = val[x] + g[(T \ {y}) \ {x}]
    BY <2>1, <2>2, <2>3, <2>4, <2>5
  <2>7. /\ (T \ {x}) \ {y} = (T \ {y}) \ {x}
        /\ g[(T \ {x}) \ {y}] \in Int /\ val[x] \in Int /\ val[y] \in Int
    BY <1>2, <2>1, <2>2, <2>3
  <2> DEFINE rest == g[(T \ {x}) \ {y}]
  <2>8. g[T] = val[y] + (val[x] + rest) /\ g[T \ {x}] = val[y] + rest
    BY <2>3, <2>6, <2>7
  <2>9. rest \in Int
    BY <2>7
  <2> HIDE DEF rest
  <2> QED
    BY <2>2, <2>7, <2>8, <2>9
<1> QED
  BY <1>1, <1>2, <1>3

\* A sum over a set is at most the sum over one of as many greater terms.
LEMMA SumsKeepOrder ==
  ASSUME NEW R, IsFiniteSet(R), NEW v \in [R -> Int], NEW g, Adds(g, R, v),
         NEW H, IsFiniteSet(H), NEW w \in [H -> Int], NEW h, Adds(h, H, w),
         NEW b \in Bijection(R, H), \A r \in R : w[b[r]] <= v[r]
  PROVE  h[H] <= g[R]
<1> DEFINE Image(s) == {b[r] : r \in s}
           Bad == {s \in SUBSET R : ~(h[Image(s)] <= g[s])}
<1>1. /\ b \in [R -> H]
      /\ \A x, y \in R : b[x] = b[y] => x = y
      /\ Image(R) = H
  BY DEF Bijection, Injection, Surjection, IsInjective
<1>2. SUFFICES ASSUME Bad # {} PROVE FALSE
  BY <1>1
<1>3. PICK T \in Bad : \A U \in Bad : U \subseteq T => U = T
  <2>1. Bad \subseteq SUBSET R
    OBVIOUS
  <2> HIDE DEF Bad
  <2> QED
    BY <1>2, <2>1, LeastSubset
<1>4. T \in SUBSET R /\ ~(h[Image(T)] <= g[T])
  BY <1>3
<1>5. /\ g[{}] = 0 /\ \A s \in SUBSET R : g[s] \in Int
      /\ \A s \in SUBSET R : \A x \in s : g[s] = v[x] + g[s \ {x}]
  BY Adding
<1>6. /\ h[{}] = 0 /\ \A s \in SUBSET H : h[s] \in Int
      /\ \A s \in SUBSET H : \A x \in s : h[s] = w[x] + h[s \ {x}]
  BY Adding
<1>7. PICK x \in T : TRUE
  <2>1. ASSUME T = {} PROVE FALSE
    <3>1. Image(T) = {}
      BY <2>1
    <3> HIDE DEF Image
    <3>2. h[Image(T)] = 0 /\ g[T] = 0
      BY <1>5, <1>6, <2>1, <3>1
    <3> QED
      BY <1>4, <3>2
  <2> QED
    BY <2>1
<1>8. /\ T \ {x} \in SUBSET R /\ T \ {x} # T /\ x \in R /\ b[x] \in H
      /\ Image(T) \in SUBSET H /\ b[x] \in Image(T)
      /\ Image(T \ {x}) = Image(T) \ {b[x]} /\ Image(T \ {x}) \in SUBSET H
  BY <1>1, <1>4, <1>7
<1>9. h[Image(T \ {x})] <= g[T \ {x}]
  BY <1>3, <1>8
<1>10. /\ g[T] = v[x] + g[T \ {x}]
       /\ h[Image(T)] = w[b[x]] + h[Image(T \ {x})]
  <2> HIDE DEF Image
  <2>1. h[Image(T)] = w[b[x]] + h[Image(T) \ {b[x]}]
    BY <1>6, <1>8
  <2>2. g[T] = v[x] + g[T \ {x}]
    BY <1>4, <1>5, <1>7
  <2> QED
    BY <1>8, <2>1, <2>2
<1>11. /\ w[b[x]] <= v[x] /\ w[b[x]] \in Int /\ v[x] \in Int
       /\ g[T \ {x}] \in Int /\ h[Image(T \ {x})] \in Int
  BY <1>5, <1>6, <1>8
<1> HIDE DEF Image
<1> QED
  BY <1>4, <1>9, <1>10, <1>11

-----------------------------------------------------------------------------
(* What Reconcile sums.                                                    *)

LEMMA HolderSumAdds ==
  ASSUME NEW rows, IsFiniteSet(rows)
  PROVE  \E g : Adds(g, rows, [r \in rows |-> r.shares]) /\ HolderSum(rows) = g[rows]
<1> DEFINE val == [r \in rows |-> r.shares]
           P(iter) == iter = [s \in SUBSET rows |->
                        IF s = {} THEN 0
                        ELSE (CHOOSE x \in s : TRUE).shares + iter[s \ {CHOOSE x \in s : TRUE}]]
<1>1. HolderSum(rows) = (CHOOSE iter : P(iter))[rows]
  BY Zenon DEF HolderSum, SumOf, MapThenSumSet, MapThenFoldSet
<1>2. \A s \in SUBSET rows : s # {} => val[CHOOSE x \in s : TRUE] = (CHOOSE x \in s : TRUE).shares
  OBVIOUS
<1>3. \A k : P(k) <=> Adds(k, rows, val)
  BY <1>2 DEF Adds, Pick
<1>4. \E k : Adds(k, rows, val)
  BY AdderExists
<1> HIDE DEF P, val
<1>5. P(CHOOSE iter : P(iter))
  BY <1>3, <1>4
<1> QED
  BY <1>1, <1>3, <1>5 DEF val

LEMMA TotalSharesAdds ==
  ASSUME NEW row, IsFiniteSet(Holders(row))
  PROVE  \E g : /\ Adds(g, Holders(row), [a \in Holders(row) |-> row[a]])
                /\ TotalShares(row) = g[Holders(row)]
<1> DEFINE val == [a \in Holders(row) |-> row[a]]
           P(iter) == iter = [s \in SUBSET Holders(row) |->
                        IF s = {} THEN 0
                        ELSE row[CHOOSE x \in s : TRUE] + iter[s \ {CHOOSE x \in s : TRUE}]]
<1>1. TotalShares(row) = (CHOOSE iter : P(iter))[Holders(row)]
  BY Zenon DEF TotalShares, SumOf, MapThenSumSet, MapThenFoldSet
<1>2. \A s \in SUBSET Holders(row) : s # {} => val[CHOOSE x \in s : TRUE] = row[CHOOSE x \in s : TRUE]
  OBVIOUS
<1>3. \A k : P(k) <=> Adds(k, Holders(row), val)
  BY <1>2 DEF Adds, Pick
<1>4. \E k : Adds(k, Holders(row), val)
  BY AdderExists
<1> HIDE DEF P, val
<1>5. P(CHOOSE iter : P(iter))
  BY <1>3, <1>4
<1> QED
  BY <1>1, <1>3, <1>5 DEF val

LEMMA HoldersFinite == \A row : IsFiniteSet(Holders(row))
<1> SUFFICES ASSUME NEW row PROVE IsFiniteSet(Holders(row))
  OBVIOUS
<1>1. Holders(row) \in SUBSET Accounts
  BY DEF Holders
<1> QED
  BY <1>1, IdsAreFinite, FS_Subset

\* As many rows as trustlines, one for each account and of holders only, are
\* all of them: what they sum to compares as they do.
LEMMA RowsAgainstSupply ==
  ASSUME NEW rows, IsFiniteSet(rows), NEW row \in Row,
         \A r \in rows : r.account \in Holders(row) /\ r.shares \in Int,
         \A r, s \in rows : r.account = s.account => r = s,
         Cardinality(rows) = TotalTrustlines(row)
  PROVE  /\ HolderSum(rows) \in Int /\ TotalShares(row) \in Int
         /\ (\A r \in rows : row[r.account] <= r.shares) => TotalShares(row) <= HolderSum(rows)
         /\ (\A r \in rows : r.shares = row[r.account]) => HolderSum(rows) = TotalShares(row)
<1> DEFINE b == [r \in rows |-> r.account]
           v == [r \in rows |-> r.shares]
           w == [a \in Holders(row) |-> row[a]]
<1>1. IsFiniteSet(Holders(row))
  BY HoldersFinite
<1>2. b \in Bijection(rows, Holders(row))
  <2>1. b \in Injection(rows, Holders(row))
    BY DEF Injection, IsInjective
  <2>2. b \in Surjection(rows, Holders(row))
    BY <1>1, <2>1, FS_Injection DEF TotalTrustlines
  <2> QED
    BY <2>1, <2>2 DEF Bijection
<1>3. v \in [rows -> Int] /\ w \in [Holders(row) -> Int]
  BY DEF Row, Balance, NoTrust, Holders
<1>4. PICK g : Adds(g, rows, v) /\ HolderSum(rows) = g[rows]
  BY HolderSumAdds
<1>5. PICK h : Adds(h, Holders(row), w) /\ TotalShares(row) = h[Holders(row)]
  BY <1>1, TotalSharesAdds
<1>6. HolderSum(rows) \in Int /\ TotalShares(row) \in Int
  <2> HIDE DEF b, v, w
  <2> QED
    BY <1>1, <1>3, <1>4, <1>5, Adding
<1>7. ASSUME \A r \in rows : row[r.account] <= r.shares
      PROVE  TotalShares(row) <= HolderSum(rows)
  <2>1. \A r \in rows : w[b[r]] <= v[r]
    BY <1>7
  <2> HIDE DEF b, v, w
  <2> QED
    BY <1>1, <1>2, <1>3, <1>4, <1>5, <2>1, SumsKeepOrder
<1>8. ASSUME \A r \in rows : r.shares = row[r.account]
      PROVE  HolderSum(rows) = TotalShares(row)
  <2>1. TotalShares(row) <= HolderSum(rows)
    BY <1>3, <1>7, <1>8
  <2> DEFINE c == [a \in Holders(row) |-> CHOOSE r \in rows : b[r] = a]
  <2>2. \A a \in Holders(row) : c[a] \in rows /\ b[c[a]] = a
    BY <1>2 DEF Bijection, Surjection
  <2>3. \A r \in rows : c[b[r]] = r
    BY <2>2
  <2>4. c \in Bijection(Holders(row), rows)
    <3>1. \A r \in rows : b[r] \in Holders(row)
      OBVIOUS
    <3> HIDE DEF b, c
    <3>2. c \in [Holders(row) -> rows]
      BY <2>2 DEF c
    <3> QED
      BY <2>2, <2>3, <3>1, <3>2 DEF Bijection, Injection, Surjection, IsInjective
  <2>5. \A a \in Holders(row) : v[c[a]] <= w[a]
    <3>1. ASSUME NEW a \in Holders(row) PROVE v[c[a]] = w[a] /\ w[a] \in Int
      <4>1. c[a] \in rows /\ c[a].account = a
        BY <2>2
      <4> HIDE DEF c
      <4> QED
        BY <1>3, <1>8, <4>1
    <3> HIDE DEF v, w, c
    <3> QED
      BY <3>1
  <2>6. HolderSum(rows) <= TotalShares(row)
    <3> HIDE DEF b, v, w, c
    <3> QED
      BY <1>1, <1>3, <1>4, <1>5, <2>4, <2>5, SumsKeepOrder
  <2> QED
    BY <1>6, <2>1, <2>6
<1> QED
  BY <1>6, <1>7, <1>8

\* A set counts as many as a finite set it maps to one by one exactly when it
\* reaches all of it.
LEMMA CountsAll ==
  ASSUME NEW S, NEW T, IsFiniteSet(T), NEW f \in [S -> T],
         \A x, y \in S : f[x] = f[y] => x = y
  PROVE  Cardinality(S) = Cardinality(T) <=> \A t \in T : \E x \in S : f[x] = t
<1>1. f \in Injection(S, T)
  BY DEF Injection, IsInjective
<1> QED
  BY <1>1, FS_Injection DEF Surjection

-----------------------------------------------------------------------------
(* What a verdict tells.                                                    *)

\* A pool that is checked against exact rows, one for each account, is exact.
LEMMA ExactRowsReconcile ==
  ASSUME NEW poolRow, poolRow.row \in Row,
         NEW rows \in SUBSET PositionRows, IsFiniteSet(rows),
         \A r \in ByPool(rows, poolRow.pool) : r.shares = poolRow.row[r.account],
         \A r, s \in ByPool(rows, poolRow.pool) : r.account = s.account => r = s,
         IsChecked(poolRow, rows)
  PROVE  Mismatch(poolRow, rows).sum = Mismatch(poolRow, rows).total
<1>1. IsFiniteSet(ByPool(rows, poolRow.pool))
  BY FS_Subset DEF ByPool
<1>2. ASSUME NEW r \in ByPool(rows, poolRow.pool)
      PROVE  r.account \in Holders(poolRow.row) /\ r.shares \in Int
  <2>1. r.account \in Accounts /\ r.shares \in Nat
    BY BoundsAreNat DEF ByPool, PositionRows
  <2> QED
    BY <2>1 DEF Holders, NoTrust
<1>3. HolderSum(ByPool(rows, poolRow.pool)) = TotalShares(poolRow.row)
  BY <1>1, <1>2, RowsAgainstSupply DEF IsChecked
<1> QED
  BY <1>3 DEF Mismatch

\* Rows that never share account and pool are finitely many.
LEMMA UniqueRowsFinite ==
  ASSUME NEW rows \in SUBSET PositionRows,
         \A r, s \in rows : r.account = s.account /\ r.pool = s.pool => r = s
  PROVE  IsFiniteSet(rows)
<1> DEFINE place == [r \in rows |-> <<r.account, r.pool>>]
<1>1. place \in Injection(rows, Accounts \X Pools)
  BY DEF PositionRows, Injection, IsInjective
<1>2. IsFiniteSet(Accounts \X Pools)
  BY IdsAreFinite, FS_Product
<1> QED
  BY <1>1, <1>2, FS_Injection

\* The mismatched pools moved; the attributed pools that did not are exact.
LEMMA ExactRowsMeanMoved ==
  TypeOK /\ HarvestInv /\ ExactRowsInv => MismatchMeansMoved
<1> SUFFICES ASSUME TypeOK, HarvestInv, ExactRowsInv PROVE MismatchMeansMoved
  OBVIOUS
<1>1. positions \in SUBSET PositionRows /\ IsFiniteSet(positions)
  BY UniqueRowsFinite DEF TypeOK, AttributionTypeOK, HarvestInv, NoPositionTwice
<1>2. ASSUME NEW row \in atAttr, Quiet(row.pool), IsChecked(row, positions)
      PROVE  Mismatch(row, positions).sum = Mismatch(row, positions).total
  <2>1. row.row \in Row
    BY DEF TypeOK, AttributionTypeOK, AtAttrRows
  <2>2. \A r \in ByPool(positions, row.pool) : r.shares = row.row[r.account]
    BY <1>2 DEF ByPool, ExactRowsInv
  <2>3. \A r, s \in ByPool(positions, row.pool) : r.account = s.account => r = s
    BY DEF ByPool, HarvestInv, NoPositionTwice
  <2> QED
    BY <1>1, <1>2, <2>1, <2>2, <2>3, ExactRowsReconcile
<1>3. {m.pool : m \in Verdict.mismatches} \subseteq Touched
  <2> SUFFICES ASSUME NEW row \in atAttr, IsChecked(row, positions),
                      Mismatch(row, positions).sum # Mismatch(row, positions).total
               PROVE  row.pool \in Touched
    BY DEF Verdict, Reconciliation, Mismatch
  <2> QED
    BY <1>2 DEF Quiet
<1>4. ASSUME outcome # "error", NEW row \in atAttr, Quiet(row.pool), row.pool \in Attributed
      PROVE  row.pool \in Verdict.exact
  <2> DEFINE p == row.pool
             rows == ByPool(positions, p)
             account == [r \in rows |-> r.account]
  <2>1. row.row = ledger[p] /\ Holders(ledger[p]) # {}
    BY <1>4 DEF ExactRowsInv
  <2>2. {[account |-> r.account, shares |-> r.shares] : r \in rows}
          = {[account |-> a, shares |-> ledger[p][a]] : a \in Holders(ledger[p])}
    BY <1>4, HarvestReconciles DEF QuietPoolsReconcile, OnFile, ByPool
  <2>3. ASSUME NEW r \in rows PROVE r.account \in Holders(ledger[p])
    <3>1. PICK a \in Holders(ledger[p]) : [account |-> r.account, shares |-> r.shares]
                                            = [account |-> a, shares |-> ledger[p][a]]
      BY <2>2
    <3> QED
      BY <3>1
  <2>4. ASSUME NEW a \in Holders(ledger[p]) PROVE \E r \in rows : r.account = a
    <3>1. PICK r \in rows : [account |-> r.account, shares |-> r.shares]
                              = [account |-> a, shares |-> ledger[p][a]]
      BY <2>2
    <3> QED
      BY <3>1
  <2>5. account \in [rows -> Holders(ledger[p])] /\ \A r, s \in rows : account[r] = account[s] => r = s
    BY <2>3 DEF ByPool, HarvestInv, NoPositionTwice
  <2>6. ASSUME NEW f \in [rows -> Holders(ledger[p])], \A r, s \in rows : f[r] = f[s] => r = s,
               \A a \in Holders(ledger[p]) : \E r \in rows : f[r] = a
        PROVE  Cardinality(rows) = Cardinality(Holders(ledger[p]))
    BY <2>6, HoldersFinite, CountsAll
  <2>7. \A a \in Holders(ledger[p]) : \E r \in rows : account[r] = a
    BY <2>4
  <2>8. Cardinality(rows) = Cardinality(Holders(ledger[p]))
    <3> HIDE DEF account, rows, p
    <3> QED
      BY <2>5, <2>6, <2>7
  <2>9. IsChecked(row, positions)
    BY <2>1, <2>4, <2>8 DEF IsChecked, TotalTrustlines
  <2>10. Mismatch(row, positions).sum = Mismatch(row, positions).total
    BY <1>2, <1>4, <2>9
  <2>11. Mismatch(row, positions).pool = row.pool
    BY DEF Mismatch
  <2> QED
    BY <2>9, <2>10, <2>11 DEF Verdict, Reconciliation
<1> QED
  BY <1>3, <1>4 DEF MismatchMeansMoved

\* Only a pool that moved during the run fails to reconcile, whichever walks
\* failed and wherever a write broke off; an untouched pool that was attributed
\* and re-read is checked and exact (reconcile.go:53-75).
THEOREM MismatchesMeanMoved == Spec => []MismatchMeansMoved
BY ExactRowsMeanMoved, TypeCorrect, HarvestIsInductive, ExactRowsIsInductive, PTL

\* In a pool that only ever grew, whose holders were all harvested by its own
\* walk, as many rows as trustlines sum to no less than the row re-read.
LEMMA OwnWalksSumUp ==
  TypeOK /\ HarvestInv /\ OwnWalkNeverFallsShort => ShortfallsAreEarlierSightings
<1> SUFFICES ASSUME TypeOK, HarvestInv, OwnWalkNeverFallsShort, outcome # "error",
                    NEW row \in atAttr, row.pool \in Attributed, NeverShrank(row.pool),
                    IsChecked(row, positions),
                    \A r \in positions : ~(r.account \in Holders(row.row) /\ r.walk < row.walk)
             PROVE  ~(Mismatch(row, positions).sum < Mismatch(row, positions).total)
  BY DEF ShortfallsAreEarlierSightings
<1> DEFINE rows == ByPool(positions, row.pool)
           own == [a \in Holders(row.row) |-> CHOOSE r \in rows : r.account = a]
<1>1. /\ rows \in SUBSET PositionRows /\ IsFiniteSet(rows)
      /\ \A r, s \in rows : r.account = s.account => r = s
  <2>1. positions \in SUBSET PositionRows /\ IsFiniteSet(positions)
    BY UniqueRowsFinite DEF TypeOK, AttributionTypeOK, HarvestInv, NoPositionTwice
  <2> QED
    BY <2>1, FS_Subset DEF ByPool, HarvestInv, NoPositionTwice
<1>2. \A a \in Holders(row.row) : \E r \in rows : r.account = a /\ r.shares >= row.row[a]
  BY DEF OwnWalkNeverFallsShort, ByPool
<1>3. \A a \in Holders(row.row) : own[a] \in rows /\ own[a].account = a
  BY <1>2
<1>4. Cardinality(rows) = Cardinality(Holders(row.row))
  BY DEF IsChecked, TotalTrustlines
<1>5. own \in Surjection(Holders(row.row), rows)
  <2>1. own \in [Holders(row.row) -> rows]
    BY <1>3
  <2>2. \A a, c \in Holders(row.row) : own[a] = own[c] => a = c
    BY <1>3
  <2> HIDE DEF own, rows
  <2>3. own \in Injection(Holders(row.row), rows)
    BY <2>1, <2>2 DEF Injection, IsInjective
  <2> QED
    BY <1>1, <1>4, <2>3, FS_Injection
<1>6. \A r \in rows : r.account \in Holders(row.row)
  <2>1. \A r \in rows : \E a \in Holders(row.row) : own[a] = r
    BY <1>5 DEF Surjection
  <2> QED
    BY <1>3, <2>1
<1>7. \A r \in rows : row.row[r.account] <= r.shares /\ r.shares \in Int
  <2>1. \A r \in rows : r.shares \in 0..MaxShares
    BY <1>1 DEF PositionRows
  <2>2. ASSUME NEW r \in rows PROVE row.row[r.account] <= r.shares
    <3>1. PICK s \in rows : s.account = r.account /\ s.shares >= row.row[r.account]
      BY <1>2, <1>6
    <3>2. s = r
      BY <1>1, <3>1
    <3>3. row.row[r.account] \in Int /\ r.shares \in Int
      BY <1>1, <1>6, <2>1 DEF TypeOK, AttributionTypeOK, AtAttrRows, Row, Balance, NoTrust, Holders
    <3> QED
      BY <3>1, <3>2, <3>3
  <2> QED
    BY <2>1, <2>2
<1>8. row.row \in Row
  BY DEF TypeOK, AttributionTypeOK, AtAttrRows
<1>9. /\ TotalShares(row.row) <= HolderSum(rows)
      /\ TotalShares(row.row) \in Int /\ HolderSum(rows) \in Int
  <2> HIDE DEF own, rows
  <2> QED
    BY <1>1, <1>4, <1>6, <1>7, <1>8, RowsAgainstSupply DEF TotalTrustlines
<1> QED
  BY <1>9 DEF Mismatch

\* In a pool that only ever grew, the positions fall short of the re-read row
\* only when an earlier walk harvested one of its holders (main.go:269-272).
THEOREM ShortfallsHaveEarlierSightings == Spec => []ShortfallsAreEarlierSightings
BY OwnWalksSumUp, OwnWalksNeverFallShort, TypeCorrect, HarvestIsInductive, PTL
=============================================================================
