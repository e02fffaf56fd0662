# Verification of Gauge-core

TLA+ modules, TLC runs and TLAPS proofs about Gauge-core: how an ingest run reads a
moving ledger through an unreliable API, what its directory can be relied on for, and
what the programs that read the directory make of it. `PROJECT.json` lists components,
runs, theorems, findings, hazards, and for every definition the source lines it stands for.

## 1. Inventory

| Component | State | Operations | Interacts with |
|---|---|---|---|
| `pkg/horizon/client.go` getJSON | attempt counter, retry setting | send, classify the answer, wait, give up | Horizon; the context (cancel) |
| `pkg/horizon` listings | next link, pages, records so far | `ListPools`, `Pool`, `PoolHolders`, `PoolTrades`; conversion of records | getJSON; a `visit` callback |
| `cmd/ingest` census visitor | `pools`, `eligible` | write a page, count it, sift it through `attributable` | `ListPools`, `census.Writer` |
| `cmd/ingest` `attribute` | `seenAccount`, `HolderStats`, `reread` | re-read a pool's row, walk its holders, write unseen accounts' positions | `Pool`, `PoolHolders`, `Writer` |
| `cmd/ingest` `fetchTrades` | `TradeStats` | bounded walk per pool, newest first | `PoolTrades`, `Writer` |
| `cmd/ingest` `run` | manifest, flags, cancelled context | sequence the passes, seal the directory on every path | all of the above |
| `pkg/census` `Writer` | four `.jsonl` files, `manifest.json` | append, close | disk; readers of the directory |
| `pkg/census` `Reconcile` | none | holder sums against share supply | survey |
| `cmd/survey` | none | read a run, print reports | `Reconcile` |
| `gauge_metrics` | none | load a run, compute metrics per position | the run directory |
| `scripts/entry-basis-sample.py` | `net`, `events` of one position | walk the effects of a sampled account, sum, judge | the run directory, Horizon |

There is one goroutine. What makes the system hard is outside it: the ledger moves
during a crawl that takes hours, so that every figure put side by side was read at
another moment; each request may fail, be retried, or be cut off by Ctrl-C; each write
may fail part of the way; and the process may die. The passes talk to each other through
memory (`eligible`) and to the readers only through files and one manifest.

What makes each part correct:

* getJSON: only transient refusals are retried, a bounded number of times, never at
  once; it always returns.
* Listings: a walk hands over a leading part of the listing without a gap, asks another
  host than the configured one only where a redirect or a link whose path has no leading
  slash leads it, counts every request it sends, and ends at its cap, or without one as
  long as Horizon's links do not lead back for ever.
* Attribution: what is on file of a pool nobody touched is exactly its holders; no
  position twice; every eligible pool decided once and labelled when not attributed;
  only a pool that moved can fail to reconcile.
* Census: untouched pools are listed once; the gate takes exactly the pools with more
  than one trustline above the threshold.
* Trades: the file holds an unbroken recent window per pool.
* Run and directory: rows are only added, the manifest is last and unique, it counts
  what is on file, and it exists unless the disk or a kill prevented it; exit status 0
  means that the census came to its end or its cap, and that what the later passes did
  not get is named: pools whose walk failed, or that an interrupt kept from having one,
  are on their failed lists.
* Readers: the metrics work on a whole run or on none, and are exact for pools nobody
  touched; the dash of a pool nobody touched has its reason in the manifest, or on the
  ledger when fewer than two accounts have shares of it; only moved pools are called
  mismatches.
* Series: a drawdown is a fall that happened, and the deepest one.
* Entry basis: each of the three verdicts means what the script says it means, while the
  account goes on and Horizon's retention moves.

`PROJECT.json` has the hazards, each at its line with the properties that would catch it.

## 2. Modules

| Module | Models | State and actions against the code |
|---|---|---|
| `World` | Horizon's ledger and the operator (external) | `ledger[p][a]` is a balance or no trustline; deposits, withdrawals, trustlines opened and closed; `cancelled` is the context. `PageOf` is any page Horizon may serve: a nonempty leading part of what is left |
| `RunFiles` | the directory's files | `poolsFile`, `positions`, `atAttr`, `tradesFile`, `manifest`; `eligible` is the list the passes hand on |
| `Attribution` | `attribute()` with `Pool` and `PoolHolders` | `at` is the loop index, `step`/`cursor`/`found` the holder walk, `seen` is `seenAccount`, `stats` the `HolderStats`. One action per answer of Horizon, per failure, per failing write |
| `Reconcile` | `reconcile.go` | operators over sets of rows |
| `Census` | `ListPools` with the visitor | `listed` is the next link, `pages`, `pools` as in the code |
| `TradeHistory` | `fetchTrades` with `PoolTrades` | the same shape as `Attribution`; a trade is its place in the newest-first order |
| `Ingest` | `run()` and the `Writer` | composes the three passes; `phase` is the place in `run()`, `Returns` what it does with a pass that returned, `CreateManifest`/`WriteManifest`/`CloseFails` are `Writer.Close`; `created` is the set of files that are made on first use, so that a failing write may leave one without a row; `Crash` ends the process anywhere |
| `GetJSON` | `getJSON` | `pc`, `attempt`, `requests`, the answers received with their waits; `builds` is whether a request can be made of the URL; `retryAfter` multiplies in the width of a `time.Duration` (`wrap`) |
| `Listing` | `ListPools`, `PoolHolders`, `PoolTrades` over `getJSON` | EXTENDS `GetJSON`: `walk` is the loop, `next` the host of the URL after `rebase`, `offset` the cursor in it, `got` what was handed over, `pages`, `total` the requests; `Redirect` is the HTTP client's, `LeadsBack` a link to records already served; a cancellation at any moment |
| `Readers` | `load`, `pool_for`, the scope and the table of the metrics; what `cmd/survey` reads, indexes and reconciles | `reading` is the file to be read next, `loaded` what has been read; one action per file, interleaved with the run that writes them; `Indexes` are the places of a sorted list that the reports ask for, `Reported` is whether they got through |
| `Series` | the order of a pool's trades, the dust filter, `max_drawdown` | `i`, `peak`, `worst` are the loop's variables; `worst` is kept as a fraction, so that comparisons are exact; the stable sort is described by its result |
| `EntryBasis` | `entry-basis-sample.py` for one position | `fetched`, `low`, `left` are the walk (pages asked for, oldest effect read, records of the page to go), `net` and `events` its sums, `verdict` the outcome; `NewEffect` and `Forget` are the account and the retention going on meanwhile |
| `AttributionPromise` | abstract: what the pass owes its reader | pools pending, attributed, failed; positions on file |
| `PageWalk` | abstract: a listing as the passes take it | one step per request with all its retries; with `MaxBacks` 0 and no cap, a listing whose links always lead on |
| `RunDirectory` | abstract: what a directory owes its readers | rows, seal, over |
| `AttributionProps`, `ReconcileProps`, `IngestProps`, `ReadersProps` | properties | the properties, the inductive invariants, the refinement mappings (`Listing` and `EntryBasis` hold their own) |
| `AttributionProofs`, `ReconcileProofs`, `IngestProofs`, `ReadersProofs`, `GetJSONProofs`, `ListingProofs`, `EntryBasisProofs`, `SeriesProofs` | theorems | section 5 |
| `MCAttribution`, `MCIngest`, `MCReaders`, `MCSeries`, `MCListing`, `MCEntryBasis` | instances for TLC | section 3 |

`World <- RunFiles <- {Attribution, Census, TradeHistory} <- Ingest <- Readers`, by
EXTENDS (`Readers` takes `Reconcile` in as well); `Listing` EXTENDS `GetJSON`; `Series`
and `EntryBasis` stand alone. The passes share the files and the world as the code does,
and `Ingest` adds for each pass that it leaves the others' variables alone. The pass
modules have their own `TypeOK` parts; `Attribution` also has a `Next` of its own so that
it can be checked and proved about on arbitrary eligible lists.

A definition named `XDoesSomethingElse` before a definition `X` is a mutant of it: a
plausible bug that a named property must catch (`PROJECT.json`, "mutants").

### Granularity

One step of a pass is one whole `getJSON` call together with the code up to the next call:
nothing between two calls is visible to anyone but Horizon. `GetJSON` models the inside of
a call and `Listing` a walk made of such calls, over a listing that stays as it is.
`Listing` implements `PageWalk` (`CallsAreAtomic`), where a request with all its retries is
one step: a page comes only on a live context, in order and without a gap, and a request may
fail at any time for any reason. `Census`, `Attribution` and `TradeHistory` have that
shape without links that lead back, over a listing that moves; that each of them
implements `PageWalk` is not stated formally, since the listing they walk is not one
sequence. The context may be
cancelled between the check at a loop's head and the call. The two statements of
`os.WriteFile` (create, fill) are two steps because a reader can see the difference.

### Abstractions

A row keeps the ledger entry it was read from and `TotalTrustlines`/`TotalShares` are
computed from it, because total shares are the sum of the balances on the ledger.
`positions`, `atAttr` and `tradesFile` are sets: a row carries the loop index that wrote
it (`walk`), so that the same position written from two walks is two rows, and a walk
cannot name a position twice, because its cursor only moves up. Amounts are small
naturals and conversions succeed or fail the call. In `EntryBasis` an effect is the
balance after it, and the shares it moved are the difference from the one before. Left
out: the `Accounts`, `Requests` (counted per walk in `Listing`), `ledger_low`,
`ledger_high`, `earliest` and `latest` fields, log lines, the wording of errors and of
`gate`, a record of which only some bytes reached the disk, and, in the passes, all that
`Listing` has of links but their leading on: an absent one, one to another host, one that
does not parse, and one that leads back. pools.go:160-162 counts on Horizon always sending
a next link that resolves.

Of a link `Listing` keeps what `rebase` tells apart: whether its path begins with a slash,
and the host that comes out when it is appended to the configured URL (which of a path
like `.example.org/x` or `@example.org/x` is not the configured one, or no URL at all). A
host the walk was led to serves the same listing, or fails. Waits are integers in a
width of their own: `Quarter` and `Half` are 250000000 and 2^63 in the code, 1 and 128
for TLC, and anything that leaves room for the ladder in the proofs.

## 3. Runs

| Run | Instance | Shows |
|---|---|---|
| `attribution` | 3 pools, 3 accounts, 2 ledger movements, pages of up to 2 | the eight properties of the pass |
| `lost_position`, `reread_counter` | 2 pools, 3 accounts, 2 movements | two disagreements with comments in the code |
| `listing` | the three listings; retries -1, 0 (default 4), 1, 5; Retry-After of 1 s and of one that overflows; caps none, -1 and 2; pages of 2; listings of one, of two, and of two with one that cannot be converted; two hosts; one link that leads back where there is no cap | the types of a call, four properties of a call, three of a walk, that the walk is `PageWalk`, and that it ends |
| `led_back` | as `listing` | a disagreement with the comment of `ErrNoMorePages` |
| `ingest` | 3 pools, 2 accounts, 1 movement, 3 command lines, trade histories with unusable trades | eight properties of a run |
| `readers` | 2 pools, 3 accounts, 1 movement, a full run, and one reader started at any time | seven properties of what is read |
| `survey_rows` | as `readers` | a disagreement with a comment of the manifest |
| `series` | all files of up to 4 trades, 2 ledgers, prices 0 to 3, dust and not | three properties of a drawdown |
| `series_order` | as `series` | a disagreement with a docstring |
| `entry_basis` | every history of up to 5 effects, 2 pages of 2, balances up to 2 | three properties of the verdicts |
| `cut_walks` | as `entry_basis` | a disagreement with a comment and the docstring of the script |

Bounds, and why they are enough to make the interesting cases happen:

* `MaxMoves` bounds the ledger's movements. Every disagreement above needs one or two
  (join a pool; deposit after the harvest); a movement in each of two reads of one
  pool is two.
* `InitialLedgers`: one account in every pool, so that the first walk's harvest reaches
  the later pools; one account in the first pool only, that can join others; one in
  later pools only, that the first walk cannot meet. A zero balance with a trustline is
  among them.
* Page sizes of 2 with pages of any smaller length: walks of one, two and three pages,
  and a listing that changes between pages.
* `MaxShares` bounds balances; every comparison is between sums, two values suffice to
  tell more from less.
* `RetrySettings` covers the three branches of `maxRetries` and one setting beyond the
  ladder's length. `SomeHeaders`: with `Half` 128 and a quarter of a second as the unit, a
  second is longer than the first wait of the ladder and shorter than its last ones, and
  32 seconds are 128 units, which is -128 in a Duration. A header that is absent or
  unreadable, a date, and a number that wraps to a short positive wait are the proofs' alone
  (an absent one and a negative one both leave the wait to the ladder).
* `SomeListings`: one record is a short page, two are a full one or two short ones, and
  each listing needs an empty page after it; one record that cannot be converted is
  skipped by the trade listing and fails the two others. Calls of five or six attempts
  are combined with the listing of one record only (`SmallWalkInit`): what a walk does with a call
  depends on its outcome and its requests, which the other settings vary as well.
* `SomeCaps`: a negative cap is none, as 0; 2 is reached by pages of one record and by a
  walk that was led back. `MaxBacks` 1 lets a walk without a cap be led back once, to any
  record; a second time would be another page of the same.
* `MaxEffects` 5 against two pages of two: the script's limit cuts a walk short with
  one effect left, and an account that goes on during the walk pushes more out of reach.
* `CommandLinesInUse`: a full run, trades without holders (under a negative cap, which is
  none), and a capped census. A pool with one trustline and no native leg fails the gate.
* `TwoPools` (`readers`): account 3 is met by the second pool's own walk only, so that a
  failed or interrupted walk leaves that pool incomplete; or it is not there, and the
  pool fails the gate and is known through the first one's walk alone.
* `MaxTrades` 4: a decline, a higher peak and a deeper decline need four.

Deadlock is checked in all passing runs: a finished call, pass or run stutters by an
action of its own.

### What the violations are

1. `SightedPositionsAreOnFile` (main.go:298): an account harvested through one pool
   that joins a second before that pool's walk is skipped there. The pool is attributed
   and one of its holders is missing; `Reconcile` passes over it, because the counts differ.
2. `RereadCountsTheFile` (main.go:266): interrupted, the pass reports `pools_reread` 0
   whatever was re-read.
3. `NowhereNewIsNoticed` (pools.go:181, positions.go:131, trades.go:156): a page's link
   leads back to records already served. client.go:249-250 has an `ErrNoMorePages` for it,
   which nothing returns: the records are handed over again, and a walk without a cap goes
   on as long as the links do.
4. `UnresolvedIsInconclusive` (entry-basis-sample.py:145): the limit cuts the walk over an
   account's effects short, before it came to the deposit that opened the position inside
   the window. The script's comment calls such a position inconclusive (37-39); it is
   counted as partial, which by its docstring (14-15) means that it predates the window.
   `PartialPredates` is what a partial verdict is worth whatever cut the walk short: the
   position was there before the oldest effect read.
5. `SurveyUsesTheRereadRow` (survey/main.go:297): the survey reconciles against census
   rows; run.go:94 says that reconciliation must use the re-read ones.
6. `DeclineRanForward` (run.py:229): trades of one ledger stay newest first, so that a
   rise inside a ledger is reported as a drawdown.

## 4. Fairness

Weak fairness on the program's own steps (`RunStep`, `WalkStep`) and none on the ledger,
the operator, failing disks or crashes. The code justifies it: the HTTP client has a 30 s
timeout, every wait has a timer, and there is no lock and no second goroutine to wait
for. Under it `RunEnds` holds for any mix of failures, and `WalkEnds` for a walk
with a cap wherever its links lead, and for one without as long as they lead back a
bounded number of times (`MaxBacks`; without the bound it does not hold, and no code
makes it hold). That a timer fires says nothing of when: a Retry-After of any length is
slept through, and neither property bounds it.

Fairness says that the program's next step is taken, not that there is a last one. The
other half is stated without fairness, as action properties: each step of the program
lowers a measure of natural numbers, ordered lexicographically. For a walk (`WalkMovesOn`)
it is pages to the cap, or times it may still be led back when there is none
(`BacksAhead`), records to go, and steps of the call for the next page; for the attribution pass
(`PassMovesOn`) pools to go and accounts after the cursor; for the run (`RunMovesOn`)
passes, pools of the pass and answers for the pool. The ledger may move between any
two steps: the accounts and pools that can exist are finitely many and a cursor only moves
up, so what joins a listing behind it is not met, and what joins in front of it was
counted. All three are proved for all constants (section 5), and the `ingest` run checks
`RunMovesOn`, of which `PassMovesOn` is the part about the pass. `PassMovesOn` and
`RunMovesOn` assume that Horizon pages through a finite set of records by their ids, and
`RunEnds` with them: a server whose next link leads back to records already served would
hold a holder walk, or a census without a cap, for ever (`led_back`).

## 5. Proofs

All proofs hold for any sets of pools and accounts (finite, ids positive), any balances,
number of movements, page sizes, thresholds, command lines (caps are integers, as
`flag.Int` takes them), trade histories, retry settings, headers and widths of a Duration,
from the named ASSUMEs of the modules they are about (`World`,
`Attribution`, `Census`, `TradeHistory`, `Ingest`, `Readers`, `GetJSON`, `Listing`,
`EntryBasis`, `Series`), which TLC evaluates in the runs. Those of `Ingest` are that the marks
standing for a manifest that is absent or torn are no manifests, and that the flags are
command lines.

* `AttributionProofs`: `TypeCorrect`; then `HarvestIsInductive`. `QuietPoolsReconcile` is
  not inductive: it says nothing of a walk in progress nor of accounts that a pool has in
  common with others. `HarvestInv` adds that (`WalkInv`) the walk has every quiet holder
  up to its cursor and exact shares where nothing moved, and (`FileInv`) every seen
  account has all its positions in quiet pools on file, each exact. A completed walk turns
  the first into the second: an unseen account's record brings all its rows, a seen one
  already has them. `UntouchedPoolsReconcile` and `PositionsAreUnique` follow.
  `OwnWalksNeverFallShort` needs `OwnWalkInv`: of a pool that only ever grew the ledger has
  at least what the re-read row says, and so has what its walk has found up to the cursor;
  and an account that is seen has a row of an earlier walk. `RereadInv` (each walk re-reads
  its own pool, once, and all these rows are counted) is for the readers.
  `AccountsInv` ties the counters and the failed list to the loop index (`attributed +
  failed = at - 1` while running); it needs that the eligible list is ascending, and
  cardinality facts from the library. `BooksBalance` follows. `PassKeepsThePromise` maps
  each action to `Attribute`, `Fail`, `GiveUp`, `Abort` or a stutter of
  `AttributionPromise`, with `HarvestInv` for the rows written. `PassIsBounded`: a later
  cursor has fewer ids after it (`FewerAfter`), whatever the ledger does to the rest.
* `ReconcileProofs`: the sums that `Reconcile` compares. `MismatchMeansMoved` needs
  `ExactRowsInv` (what is on file of an untouched pool is what is on the ledger, after a
  failed write too, when `HarvestInv` no longer speaks), and then the argument is one of
  counting: rows of distinct accounts, all of them holders, as many as holders, are one
  for each holder, so both sums add up the same numbers. The operators of the community
  modules that add up a set are recursive functions over its subsets. What they compute is
  proved here without an induction theorem, all of which take an operator as a
  parameter: a set of subsets of a finite set that is not empty has a minimal one
  (`LeastSubset`, from `FS_StrictSubsetOrderingWellFounded` and `WFMin`), and a minimal
  counterexample is none. `AdderExists` shows by it that the recursive definition has a
  solution at all, `Adding` its equations, `SumsKeepOrder` that smaller numbers over
  the same set have a smaller sum. `MismatchesMeanMoved` is that with equality,
  `ShortfallsHaveEarlierSightings` with `OwnWalkNeverFallsShort` as the order.
* `IngestProofs`: a run has eight inductive invariants, one per concern, each needing only
  the ones before it (`IngestProps`). `PhaseInv`: passes run in their order, and one that
  has not begun has done nothing. `SealInv`: the manifest comes last and says what the
  counters say; `ManifestIsLeft` (`OnlyTheDiskLosesTheManifest`) follows, and with
  `RowsOnlyGrow` the refinement `DirectoryIsKept` (`KeepsTheDirectory`). `OrderInv`: the
  eligible list ascends, which is what the attribution and the trade pass need of the
  census. `TradesInv`: the trade walk has exactly the usable trades it has gone through;
  `TradesAreWindows`. `RunBooksInv`: the pass's own `HarvestInv` and `AccountsInv` hold
  inside the run, by the step lemmas of `AttributionProofs`, since the other passes
  leave its variables alone; `RunReconciles`; and so do `RereadInv` and `OwnWalkInv`
  (`RunOwnWalksNeverFallShort`). `CountInv`: counters agree with the files until a write fails;
  `ManifestMatches`. `CensusInv` and `DecidedInv` are there for `CleanExits`
  (`CleanExitIsComplete`) alone: status 0 means that the census came to the end of the
  listing, so that every quiet pool was listed and every quiet pool past the gate handed
  on, and that the pass decided each of those it was handed; `HarvestInv` then says what
  is on file of them. `RunIsBounded` takes each pass's measure into the run's; that of a
  trade walk is natural because `TradesInv` keeps it inside the history.
* `ReadersProofs`: `ReadersLookOn`: a run with a reader beside it is a run, so everything
  in `IngestProofs` carries over. A sealed run is still (`SealedRunsAreStill`), hence what
  the metrics read after the manifest stays what is on file (`MetricsInv`):
  `MetricsLoadWholeRuns`. `SurveyTakesIt` is index arithmetic on the lists the reports
  sort, with `CountInv`: after a run whose disk was sound no file exists without a row.
  `ShownRowsHold` rests on `ExactInv` (what is on file of an untouched pool is what is on
  the ledger) and on a count: the positions of a quiet pool have one row per holder at
  most, so that as many rows as trustlines are all of the holders. `EligibleInv` says that
  the attribution is only called when the census has ended well, with every row that
  passes the gate, and `RereadInv` carries over from the pass; with `CensusInv` and
  `DecidedInv` they give `PositionsHavePools`, `RereadCountTells` and `DashesHaveReasons`
  (a complete quiet pool has the holders of the ledger in its rows, so that fewer than two
  rows with shares are fewer than two accounts with shares).
  `SurveyMismatchesMeanMoved` is about files read at two moments of a run that goes on:
  `LoadedInv` says that what was read is still on file and in its place, so that the exact
  rows of one moment meet the exact rows of another; the counting is that of
  `ReconcileProofs`, with the census rows for the re-read ones.
* `GetJSONProofs`: `CallInv` says that attempts, requests and answers agree and that each
  wait is the ladder's; the four safety properties follow from it. What a header is taken
  to ask for is an integer of any sign (`AskedIsInt`), and what it means wherever that fits
  a Duration (`WrapKeeps`); `backoff` takes only a positive one, so that every wait is
  positive (`LadderClimbs`). Nothing else is claimed of a number that overflows.
* `ListingProofs`: a walk's steps are steps of a call or leave the call finished, so
  `CallInv` is lifted to the walk. `HostInv` (the next URL names the configured host, or
  one that an unrooted link or a redirect named), `RequestsInv` (what has returned plus the
  call in progress is what was sent) and `UnbrokenInv` give the three safety properties.
  `UnbrokenInv` says that what was handed over is what is convertible up to some record at
  or after the cursor (`HandedOver`), at the cursor itself and each once when no link led
  back, and that every page costs a request at least. `WalkTakesOneStepPerCall` is the
  refinement: `stopped` of `PageWalk` is not `cancelled` of the code but becomes true when
  the cancellation can first make a difference, because a call whose answer is already in
  hand still brings its page. `WalkIsBounded` needs `CallInv` (`attempt <= maxRetries`) for
  its measure of a call, and that a link leads back at the cost of a page of the cap.
* `EntryBasisProofs`: the sum telescopes. `WalkInv` says that `net` is the balance at the
  first page minus the balance before the oldest effect read; `HistoryInv` that as long as
  nothing moved the position since the run its balance is the run's. So `net = shares`
  exactly when the balance before the walk's end was zero. The verdicts' theorems are
  about positions left alone between the run and the walk, as the properties say.
* `SeriesProofs`: `SeriesInv` says that the loop is given the informative trades of the
  file in the one stable order. `LoopInv` is the running peak: up to `i` it is the highest
  value, and the worst decline lies between two values and is as deep as any other.
  Fractions are compared by products; that a new worst decline is deeper than all that the
  old one beat is the lemma on them. `DeclinesHappened` and `NoneWasDeeper` read the
  invariant back from the series to the file.

Every invariant and every action property of a passing run is stated by a theorem, and so
is every refinement. Only model-checked: liveness (`RunEnds`, `WalkEnds`). That a fair run
takes a step as long as there is one to take is about ENABLED, and that a measure of
natural numbers cannot go down for ever is an induction over time with the measure as a
parameter; neither is within the prover's reach. What is proved is the part that depends
on this code: that every step lowers the measure.

## 6. Not modelled, and the plan

1. Two runs in one second share a directory, because it is named by the second and an
   existing one is accepted (main.go:68, run.go:134). It is a hazard without a
   property (the length of a wait, section 4, is the other): it takes the file handles of
   several processes, each with a place of its own in a file, and the modules of a run have
   one process that appends.
2. A statement of `PageWalk` over a listing that moves, for the passes to implement.

Disagreements between code and comments that were seen and have no run of their own:

* `pools_reread` also counts pools whose walk failed (against run.go:96-98).
* `manifest.pools` falls behind pools.jsonl when a page is written in part (run.go:39).
* The completeness rule counts rows and trustlines, which a holder leaving and another
  joining keep equal (reconcile.go:44, concentration.py:46).
* `contemporaneous` silences its warning after one re-read row (run.py:161-168);
  `RereadCountTellsTheSkew` is what a reader can still tell.
* A run restarted in the second in which the one before finished truncates `pools.jsonl`
  beside the manifest of that one (run.go:134, against run.go:27-28), and
  `positions.jsonl` of the run before stays in a run that did no attribution (against
  run.go:157-160).
* `-trades` runs without `-holders` (main.go:45).
* `requests` counts a request that a cancelled context never sent (client.go:188);
  `EveryRequestIsCounted` bounds the difference.
* A balance comes from the walk that first met the account, so a deposit between that walk
  and the re-read of a pool's row shows as a shortfall, which the comment at main.go:269-272
  rules out for one during the pool's own walk: it has the root of `lost_position`
  (main.go:298). `OwnWalkNeverFallsShort` is what holds of accounts first met in the pool's own
  walk, and `ShortfallsAreEarlierSightings` carries it over to the sums that are compared.
* The manifest of a census that failed, on its very first request or later, has the cap
  that was asked for in `max_pages` (main.go:75-80, 118-126), and 0 is there said to mean
  "the walk ran to the end of the listing" (run.go:48-50). Only the exit status tells;
  `CleanExitIsComplete` is what it tells.
* `rebase` appends the path and query of a link to the configured URL with nothing between
  (client.go:298): a link whose path has no leading slash changes the host, and the HTTP
  client follows redirects to any host, while client.go:287-289 says that where to go next
  is "not a question the upstream gets to answer". `OnlyTheConfiguredHost` leaves both out
  by its `strays`.
* The seconds of a Retry-After are multiplied into a Duration without a look at its width
  (client.go:139), while `ErrUnavailable.RetryAfter` is documented as "what Horizon's
  Retry-After header asked for" (client.go:115-116): of a number that does not fit it is
  negative, and the wait the ladder's, or it is some shorter time. `WaitsAsAsked` leaves
  this out by its condition.
* "Skipping is visible because the caller compares the count it asked for against what it
  received" (trades.go:149-151): no caller compares anything.
* Hops of a redirect are requests that `requests` does not count (client.go:188-191).
* A deposit or withdrawal between the run and the effects walk can make a complete verdict
  wrong; `CompleteIsRecoverable` says so by its condition.

Left out of the passes' modules: links that lead back. What records served twice do to
the files (pool rows written twice, and counted twice) is not modelled.

Left out of `EntryBasis`: effects that change shares and are neither a deposit nor a
withdrawal (a revoked trustline), the random draw of the sample, and the percentages.

Not planned: realised volatility, impermanent loss and the other closed formulas over
decimals (floating point, square roots, no state), the counts and percentages of the
survey's display reports, CI, build files and documents.
