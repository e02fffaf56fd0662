------------------------------ MODULE RunFiles ------------------------------
(***************************************************************************)
(* The files of one run directory, as pkg/census/run.go writes them.  A    *)
(* row keeps the ledger entry it was read from; what the code stores of it *)
(* is TotalTrustlines and TotalShares.  The order of rows inside a .jsonl  *)
(* file is kept only where a reader could tell: pools.jsonl is a sequence, *)
(* and a row of the other files names the step of the pass that wrote it.  *)
(* eligible is the one thing the passes hand on in memory.                 *)
(***************************************************************************)
EXTENDS World, Sequences

CONSTANT NoManifest

VARIABLES poolsFile,   \* pools.jsonl: the census rows, in listing order
          positions,   \* positions.jsonl: one row per account and pool
          atAttr,      \* pools_at_attribution.jsonl: rows re-read per pool
          tradesFile,  \* trades.jsonl: the usable trades of each pool's walk
          manifest,    \* manifest.json, or NoManifest while there is none
          eligible     \* the pools to attribute, in census order

fileVars == <<poolsFile, positions, atAttr, tradesFile, manifest>>

Row == [Accounts -> Balance]
TotalTrustlines(row) == Cardinality(Holders(row))

PoolRows == [pool : Pools, row : Row]
PositionRows == [account : Accounts, pool : Pools, shares : 0..MaxShares, walk : Nat]
AtAttrRows == [pool : Pools, row : Row, walk : Nat]
TradeRows == [pool : Pools, trade : Nat]

FilesInit ==
  /\ poolsFile = <<>>
  /\ positions = {}
  /\ atAttr = {}
  /\ tradesFile = {}
  /\ manifest = NoManifest

\* Encode appends one record at a time, so a failing write leaves some of the
\* batch behind.  positions.jsonl is created by the first nonempty batch: an
\* empty set is an absent file.
WritePositions(rows) == positions' = positions \cup rows
WritePoolsAtAttribution(row) == atAttr' = atAttr \cup {row}
=============================================================================
