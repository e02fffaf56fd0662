-------------------------- MODULE AttributionProps --------------------------
(***************************************************************************)
(* What the positions of a run can be relied on for.                       *)
(***************************************************************************)
EXTENDS Attribution

\* The pools in a sequence of pool ids.
Listed(s) == {s[k] : k \in DOMAIN s}

\* Pools whose holder walk completed, whether or not the row was re-read.
Attributed == {eligible[k] : k \in 1..(at - 1)} \ Listed(stats.failed)
Pending == {eligible[k] : k \in at..Len(eligible)} \ Listed(stats.failed)

OnFile(p) == {[account |-> r.account, shares |-> r.shares] :
                r \in {r \in positions : r.pool = p}}

\* A pool that nobody touched during the run reconciles exactly, whatever
\* moved elsewhere and whichever other walks failed: what is on file for it is
\* its complete holder list, every balance exact (main.go:296-309 skips only
\* what an earlier completed walk has written).
QuietPoolsReconcile ==
  outcome # "error" =>
    \A p \in Attributed : Quiet(p) =>
      OnFile(p) = {[account |-> a, shares |-> ledger[p][a]] : a \in Holders(ledger[p])}

\* The same position is never written from two pools' holder lists
\* (main.go:241-245), nor twice from one.
NoPositionTwice ==
  \A r, s \in positions : r.account = s.account /\ r.pool = s.pool => r = s

\* A pass that returns without an error leaves no unlabelled hole: every
\* eligible pool is either attributed or listed in pools_failed, once, and the
\* counters are those of the files (run.go:79-87).
NoUnlabelledHole ==
  outcome = "ok" =>
    /\ stats.attributed + Len(stats.failed) = Len(eligible)
    /\ \A i, j \in DOMAIN stats.failed : stats.failed[i] = stats.failed[j] => i = j
    /\ stats.attributed = Cardinality(Attributed)
    /\ stats.positions = Cardinality(positions)

\* In a pool that only ever grew, an account whose first sighting is the
\* pool's own walk never falls short of the re-read row: the row is read
\* before the holders, so a deposit in between shows as an excess
\* (main.go:269-272).
OwnWalkNeverFallsShort ==
  \A row \in atAttr :
    outcome # "error" /\ row.pool \in Attributed /\ NeverShrank(row.pool) =>
      \A a \in Holders(row.row) :
        \/ \E r \in positions : r.account = a /\ r.walk < row.walk
        \/ \E r \in positions : /\ r.account = a
                                /\ r.pool = row.pool
                                /\ r.shares >= row.row[a]

\* What is left of the pass: pools, and at most so many answers for the current
\* one.  Whatever joins a pool during its walk, only so many accounts come after
\* the cursor.
PoolsLeft == Len(eligible) + 1 - at
AnswersLeft ==
  IF outcome # "running" THEN 0
  ELSE IF step = "loop" THEN 2 + Cardinality(Accounts)
  ELSE 1 + Cardinality(After(Accounts, cursor))

\* Every answer takes the pass further, whether it is a page, a failure or a
\* failed write: it gets only so many before it returns, and which accounts move
\* in front of its cursor is all one (main.go:247-327, positions.go:102-137).
PassMovesOn ==
  [][AttributionStep =>
       \/ PoolsLeft' < PoolsLeft
       \/ PoolsLeft' = PoolsLeft /\ AnswersLeft' < AnswersLeft]_attributionVars

\* The pass implements what AttributionPromise states abstractly.
Promise == INSTANCE AttributionPromise WITH
             pending    <- Pending,
             attributed <- Attributed,
             failed     <- Listed(stats.failed),
             onFile     <- {<<r.account, r.pool>> : r \in positions},
             returned   <- IF outcome = "running" THEN "no" ELSE outcome

\* Each eligible pool is decided once, an account's positions are written at one
\* moment, a failed walk writes nothing, and a pass that returns normally has
\* decided every pool (main.go:225-330).
KeepsThePromise == Promise!Spec

-----------------------------------------------------------------------------
(* The inductive invariant behind QuietPoolsReconcile and NoPositionTwice.   *)

\* What the walk in progress has fetched: distinct accounts up to the cursor,
\* each with a trustline to the pool being walked; exact where nothing moved.
WalkInv ==
  /\ step = "loop" => found = {}
  /\ \A f \in found : f.account <= cursor
  /\ \A f, g \in found : f.account = g.account => f = g
  /\ \A f \in found : \E q \in Pools : f.shares[q] # NoTrust
  /\ \A f \in found, q \in Pools : Quiet(q) => f.shares[q] = ledger[q][f.account]
  /\ step = "walk" /\ Quiet(Current) =>
       \A a \in Holders(ledger[Current]) :
         a <= cursor => \E f \in found : f.account = a

\* What completed walks have written: rows of seen accounts only, exact where
\* nothing moved, and missing nothing there.
FileInv ==
  /\ \A r \in positions : r.account \in seen /\ r.walk < at
  /\ \A r \in positions : Quiet(r.pool) => r.shares = ledger[r.pool][r.account]
  /\ \A a \in seen, q \in Pools :
       Quiet(q) /\ ledger[q][a] # NoTrust =>
         \E r \in positions : r.account = a /\ r.pool = q
  /\ \A p \in Attributed : Quiet(p) => Holders(ledger[p]) \subseteq seen

\* After a failed write the walk and the seen accounts are dead variables.
HarvestInv ==
  /\ NoPositionTwice
  /\ outcome # "error" => WalkInv /\ FileInv

\* What is on file of a pool nobody touched is as it is on the ledger, after a
\* failed write as well, and a row re-read is that of a pool with holders.
ExactRowsInv ==
  /\ \A r \in atAttr : /\ Holders(r.row) # {}
                       /\ Quiet(r.pool) => r.row = ledger[r.pool]
  /\ \A r \in positions : Quiet(r.pool) => r.shares = ledger[r.pool][r.account]

\* The inductive invariant behind NoUnlabelledHole and KeepsThePromise: the
\* loop's position says how many pools are decided, and which.
AccountsInv ==
  /\ \A i, j \in DOMAIN eligible : i < j => eligible[i] < eligible[j]
  /\ \A i, j \in DOMAIN stats.failed : stats.failed[i] = stats.failed[j] => i = j
  /\ outcome \in {"running", "ok", "error"}
  /\ outcome # "ok" => Listed(stats.failed) \subseteq {eligible[k] : k \in 1..(at - 1)}
  /\ outcome = "running" => stats.attributed + Len(stats.failed) = at - 1
  /\ outcome = "ok" => stats.attributed + Len(stats.failed) = Len(eligible)
  /\ outcome # "error" => /\ stats.attributed = Cardinality(Attributed)
                          /\ stats.positions = Cardinality(positions)

\* Each walk re-reads its own pool, once, and all of these rows are counted; the
\* counter reaches the stats with the end of the loop.
RereadInv ==
  /\ IsFiniteSet(atAttr) /\ reread = Cardinality(atAttr)
  /\ stats.reread # 0 => outcome = "ok" /\ stats.reread = reread
  /\ \A r \in atAttr : /\ r.walk \in DOMAIN eligible /\ r.pool = eligible[r.walk]
                       /\ r.walk < at \/ (r.walk = at /\ step = "walk")
  /\ \A r, s \in atAttr : r.walk = s.walk => r = s

\* The inductive invariant behind OwnWalkNeverFallsShort: of a pool that only
\* ever grew the ledger has at least the shares of the re-read row, whatever its
\* walk has found up to the cursor too, and a seen account has a row.
OwnWalkInv ==
  /\ \A i, j \in DOMAIN eligible : i < j => eligible[i] < eligible[j]
  /\ \A row \in atAttr : NeverShrank(row.pool) =>
       \A a \in Accounts : row.row[a] <= ledger[row.pool][a]
  /\ outcome # "error" =>
       /\ \A a \in seen : \E r \in positions : r.account = a /\ r.walk < at
       /\ \A row \in atAttr : NeverShrank(row.pool) => \A a \in Holders(row.row) :
            /\ row.walk = at /\ a <= cursor =>
                 \E f \in found : f.account = a /\ row.row[a] <= f.shares[row.pool]
            /\ row.walk < at /\ row.pool \notin Listed(stats.failed) =>
                 \/ \E r \in positions : r.account = a /\ r.walk < row.walk
                 \/ \E r \in positions : /\ r.account = a /\ r.pool = row.pool
                                         /\ row.row[a] <= r.shares

-----------------------------------------------------------------------------
(* What the repository says and the code does not do.                       *)

\* "Writing a position the first time it is seen and skipping it thereafter"
\* (main.go:241-245): when a walk completes, each position its records name is
\* on file.
SightedPositionsAreOnFile ==
  [][stats'.attributed > stats.attributed /\ outcome' = "running" =>
       \A record \in found : \A q \in Pools :
         record.shares[q] # NoTrust =>
           \E r \in positions' : r.account = record.account /\ r.pool = q]_attributionVars

\* "PoolsReread counts pools whose state was re-read ... into
\* pools_at_attribution.jsonl" (run.go:89-90).
RereadCountsTheFile ==
  outcome = "ok" => stats.reread = Cardinality(atAttr)
=============================================================================
