------------------------- MODULE AttributionProofs -------------------------
(***************************************************************************)
(* Theorems about the attribution pass, for every ledger, every list of    *)
(* eligible pools and every bound: its positions, its books, and that it   *)
(* implements AttributionPromise.                                          *)
(***************************************************************************)
EXTENDS AttributionProps, TLAPS, FiniteSetTheorems, SequenceTheorems

-----------------------------------------------------------------------------
(* Facts about the operators the pass is built from.                       *)

\* The rows of any set of account records are position rows.
LEMMA FreshRowsType ==
  ASSUME found \subseteq AccountRecords, at \in Nat
  PROVE  FreshRows \subseteq PositionRows
BY DEF FreshRows, Fresh, RowsOf, AccountRecords, PositionRows, NoTrust, Balance

\* An account's record is an account record.
LEMMA RecordType ==
  ASSUME ledger \in Ledgers, NEW a \in Accounts
  PROVE  AccountRecord(a) \in AccountRecords
BY DEF AccountRecord, AccountRecords, Ledgers

\* Position rows with a bounded walk are finitely many.
LEMMA PositionsFinite ==
  ASSUME NEW n \in Nat, NEW rows \in SUBSET PositionRows,
         \A r \in rows : r.walk <= n
  PROVE  IsFiniteSet(rows)
<1> DEFINE S == (Accounts \X Pools) \X ((0..MaxShares) \X (0..n))
           T == [account : Accounts, pool : Pools, shares : 0..MaxShares, walk : 0..n]
           f == [x \in S |-> [account |-> x[1][1], pool |-> x[1][2],
                              shares |-> x[2][1], walk |-> x[2][2]]]
<1>1. IsFiniteSet(S)
  <2>1. IsFiniteSet(0..MaxShares) /\ IsFiniteSet(0..n)
    BY FS_Interval, BoundsAreNat
  <2>2. IsFiniteSet((0..MaxShares) \X (0..n))
    BY <2>1, FS_Product
  <2>3. IsFiniteSet(Accounts \X Pools)
    BY FS_Product, IdsAreFinite
  <2> QED
    BY <2>2, <2>3, FS_Product
<1>2. f \in Surjection(S, T)
  <2>1. f \in [S -> T]
    OBVIOUS
  <2>2. ASSUME NEW t \in T
        PROVE  \E x \in S : f[x] = t
    <3>1. <<<<t.account, t.pool>>, <<t.shares, t.walk>>>> \in S
      OBVIOUS
    <3> QED
      BY <3>1
  <2> QED
    BY <2>1, <2>2 DEF Surjection
<1>3. IsFiniteSet(T)
  BY <1>1, <1>2, FS_Surjection
<1>4. rows \subseteq T
  BY DEF PositionRows
<1> QED
  BY <1>3, <1>4, FS_Subset

\* The counters after a completed walk.
LEMMA StatsAfterWalk ==
  ASSUME NEW s \in HolderStats, NEW x \in Nat
  PROVE  LET t == [s EXCEPT !.attributed = @ + 1, !.positions = @ + x]
         IN  /\ t \in HolderStats
             /\ t.attributed = s.attributed + 1
             /\ t.positions = s.positions + x
             /\ t.failed = s.failed
             /\ t.reread = s.reread
<1>1. [s EXCEPT !.attributed = @ + 1] \in HolderStats
  BY DEF HolderStats
<1>2. PICK u \in HolderStats : u = [s EXCEPT !.attributed = @ + 1]
  BY <1>1
<1>3. /\ u.attributed = s.attributed + 1
      /\ u.positions = s.positions /\ u.failed = s.failed /\ u.reread = s.reread
  BY <1>2 DEF HolderStats
<1>4. u.positions + x \in Nat
  BY DEF HolderStats
<1>5. [u EXCEPT !.positions = u.positions + x] \in HolderStats
  BY <1>4 DEF HolderStats
<1>6. [s EXCEPT !.attributed = @ + 1, !.positions = @ + x]
        = [u EXCEPT !.positions = u.positions + x]
  BY <1>2, <1>3 DEF HolderStats
<1> QED
  BY <1>3, <1>5, <1>6 DEF HolderStats

\* The ledger, the history and the context keep their types as they move.
LEMMA WorldStepType ==
  ASSUME WorldTypeOK, WorldStep
  PROVE  WorldTypeOK'
<1> USE DEF WorldTypeOK
<1>1. ASSUME NEW kind \in Kinds, NEW p \in Pools, NEW a \in Accounts,
             NEW b \in Balance, Move(kind, p, a, b)
      PROVE  WorldTypeOK'
  <2>1. ledger' \in Ledgers
    BY <1>1 DEF Move, Ledgers
  <2>2. moved' \subseteq Kinds \X Pools
    BY <1>1 DEF Move
  <2>3. moves' \in 0..MaxMoves
    BY <1>1, BoundsAreNat DEF Move
  <2> QED
    BY <1>1, <2>1, <2>2, <2>3 DEF Move
<1>2. ASSUME NEW p \in Pools, NEW a \in Accounts, OpenTrustline(p, a)
      PROVE  WorldTypeOK'
  BY <1>1, <1>2, BoundsAreNat DEF OpenTrustline, Kinds, Balance, NoTrust
<1>3. ASSUME NEW p \in Pools, NEW a \in Accounts, CloseTrustline(p, a)
      PROVE  WorldTypeOK'
  BY <1>1, <1>3, BoundsAreNat DEF CloseTrustline, Kinds, Balance, NoTrust
<1>4. ASSUME NEW p \in Pools, NEW a \in Accounts, Deposit(p, a)
      PROVE  WorldTypeOK'
  BY <1>1, <1>4, BoundsAreNat DEF Deposit, Kinds, Balance, NoTrust
<1>5. ASSUME NEW p \in Pools, NEW a \in Accounts, Withdraw(p, a)
      PROVE  WorldTypeOK'
  <2>1. ledger[p][a] - 1 \in Balance
    BY <1>5, BoundsAreNat DEF Withdraw, Ledgers, Balance, NoTrust
  <2> QED
    BY <1>1, <1>5, <2>1 DEF Withdraw, Kinds
<1>6. CASE Interrupt
  BY <1>6 DEF Interrupt
<1> QED
  BY <1>2, <1>3, <1>4, <1>5, <1>6 DEF WorldStep

\* What a list of pools lists after it has grown.
LEMMA ListedConcat ==
  ASSUME NEW s \in Seq(Pools), NEW t \in Seq(Pools)
  PROVE  Listed(s \o t) = Listed(s) \cup Listed(t)
<1>1. s \o t \in Seq(Pools) /\ Len(s \o t) = Len(s) + Len(t)
      /\ \A i \in 1 .. Len(s) + Len(t) :
           (s \o t)[i] = IF i <= Len(s) THEN s[i] ELSE t[i - Len(s)]
  BY ConcatProperties
<1>2. Len(s) \in Nat /\ Len(t) \in Nat
  OBVIOUS
<1>3. DOMAIN s = 1..Len(s) /\ DOMAIN t = 1..Len(t) /\ DOMAIN (s \o t) = 1..(Len(s) + Len(t))
  BY <1>1
<1>4. ASSUME NEW i \in 1..Len(s)
      PROVE  s[i] \in Listed(s \o t)
  BY <1>1, <1>2, <1>3 DEF Listed
<1>5. ASSUME NEW i \in 1..Len(t)
      PROVE  t[i] \in Listed(s \o t)
  <2>1. i + Len(s) \in 1..(Len(s) + Len(t)) /\ (s \o t)[i + Len(s)] = t[i]
    BY <1>1, <1>2
  <2> QED
    BY <2>1, <1>3 DEF Listed
<1>6. ASSUME NEW i \in 1..(Len(s) + Len(t))
      PROVE  (s \o t)[i] \in Listed(s) \cup Listed(t)
  <2>1. CASE i <= Len(s)
    BY <2>1, <1>1, <1>2, <1>3 DEF Listed
  <2>2. CASE i > Len(s)
    <3>1. i - Len(s) \in 1..Len(t) /\ (s \o t)[i] = t[i - Len(s)]
      BY <2>2, <1>1, <1>2
    <3> QED
      BY <3>1, <1>3 DEF Listed
  <2> QED
    BY <2>1, <2>2, <1>2
<1> QED
  BY <1>3, <1>4, <1>5, <1>6 DEF Listed

LEMMA ListedAppend ==
  ASSUME NEW s \in Seq(Pools), NEW p \in Pools
  PROVE  Listed(Append(s, p)) = Listed(s) \cup {p}
<1>1. <<p>> \in Seq(Pools) /\ Listed(<<p>>) = {p}
  BY DEF Listed
<1>2. Append(s, p) = s \o <<p>>
  BY AppendIsConcat
<1> QED
  BY <1>1, <1>2, ListedConcat

-----------------------------------------------------------------------------
(* Type correctness.                                                       *)

\* Every step of the pass keeps its types.
LEMMA AttributionTypeStays ==
  ASSUME TypeOK, AttributionStep
  PROVE  TypeOK'
<1> USE DEF TypeOK, WorldTypeOK, AttributionTypeOK, worldVars, fileVars
<1>1. CASE Interrupted
  <2>1. SubSeq(eligible, at, Len(eligible)) \in Seq(Pools)
    BY SubSeqProperties DEF AtHead
  <2>2. stats' \in HolderStats
    BY <1>1, <2>1, ConcatProperties DEF Interrupted, HolderStats
  <2> QED
    BY <1>1, <2>2 DEF Interrupted
<1>2. CASE RereadOk
  BY <1>2 DEF RereadOk, AtHead, BeginWalk, WritePoolsAtAttribution,
              AtAttrRows, Row, Ledgers, Current
<1>3. CASE RereadFails
  BY <1>3 DEF RereadFails, AtHead, BeginWalk
<1>4. CASE RereadNotWritten
  BY <1>4 DEF RereadNotWritten, Abort
<1>5. CASE HoldersPage
  <2>1. cursor' \in Nat /\ found' \subseteq AccountRecords
    BY <1>5, RecordType, IdsArePositive DEF HoldersPage, PageOf, After, IsLast, Holders
  <2> QED
    BY <1>5, <2>1 DEF HoldersPage
<1>6. CASE HoldersFail
  <2>1. Current \in Pools
    BY <1>6 DEF HoldersFail, Walking, Current
  <2>2. stats' \in HolderStats
    BY <1>6, <2>1, AppendProperties DEF HoldersFail, HolderStats
  <2> QED
    BY <1>6, <2>2 DEF HoldersFail, Walking, NextPool
<1>7. CASE HoldersEnd
  <2>1. FreshRows \subseteq PositionRows /\ IsFiniteSet(FreshRows)
    <3>1. FreshRows \subseteq PositionRows
      BY FreshRowsType
    <3>2. \A r \in FreshRows : r.walk <= at
      BY DEF FreshRows, RowsOf
    <3> QED
      BY <3>1, <3>2, PositionsFinite
  <2>2. seen' \subseteq Accounts /\ IsFiniteSet(seen')
    <3>1. seen' \subseteq Accounts
      BY <1>7 DEF HoldersEnd, AccountRecords
    <3> QED
      BY <3>1, FS_Subset, IdsAreFinite
  <2>3. Cardinality(FreshRows) \in Nat /\ Cardinality(seen') \in Nat
    BY <2>1, <2>2, FS_CardinalityType
  <2>4. stats' \in HolderStats
    <3>1. stats' = [stats EXCEPT !.attributed = @ + 1,
                                 !.positions = @ + Cardinality(FreshRows)]
      BY <1>7 DEF HoldersEnd
    <3> QED
      BY <3>1, <2>3, StatsAfterWalk
  <2>5. positions' \subseteq PositionRows
    BY <1>7, <2>1 DEF HoldersEnd, WritePositions
  <2>6. at' \in 1..(Len(eligible') + 1) /\ step' = "loop" /\ cursor' \in Nat /\ found' = {}
    BY <1>7 DEF HoldersEnd, ListingEnds, Walking, NextPool
  <2> QED
    BY <1>7, <2>2, <2>4, <2>5, <2>6 DEF HoldersEnd
<1>8. CASE PositionsNotWritten
  <2>1. FreshRows \subseteq PositionRows
    BY FreshRowsType
  <2>2. positions' \subseteq PositionRows
    BY <1>8, <2>1 DEF PositionsNotWritten, WritePositions
  <2>3. stats' \in HolderStats
    BY <1>8 DEF PositionsNotWritten, HolderStats
  <2> QED
    BY <1>8, <2>2, <2>3 DEF PositionsNotWritten, Abort
<1>9. CASE LoopEnds
  BY <1>9 DEF LoopEnds, HolderStats
<1> QED
  BY <1>1, <1>2, <1>3, <1>4, <1>5, <1>6, <1>7, <1>8, <1>9 DEF AttributionStep

THEOREM TypeCorrect == Spec => []TypeOK
<1>1. Init => TypeOK
  <2> SUFFICES ASSUME Init PROVE TypeOK
    OBVIOUS
  <2> USE DEF Init, WorldInit, FilesInit, AttributionInit
  <2>1. WorldTypeOK
    <3>1. ledger \in Ledgers
      BY InitialLedgersAreLedgers
    <3>2. moves \in 0..MaxMoves
      BY BoundsAreNat
    <3> QED
      BY <3>1, <3>2 DEF WorldTypeOK
  <2>2. eligible \in Seq(Pools)
    BY DEF AscendingLists
  <2>3. at \in 1..(Len(eligible) + 1)
    BY <2>2
  <2>4. stats \in HolderStats
    BY DEF HolderStats
  <2> QED
    BY <2>1, <2>2, <2>3, <2>4 DEF TypeOK, AttributionTypeOK
<1>2. TypeOK /\ [Next]_attributionVars => TypeOK'
  <2> SUFFICES ASSUME TypeOK, [Next]_attributionVars
               PROVE  TypeOK'
    OBVIOUS
  <2>1. CASE AttributionStep
    BY <2>1, AttributionTypeStays
  <2>2. CASE WorldMoves
    <3>1. WorldTypeOK'
      BY <2>2, WorldStepType DEF WorldMoves, TypeOK
    <3> QED
      BY <2>2, <3>1 DEF WorldMoves, attrVars, fileVars, TypeOK, AttributionTypeOK
  <2>3. CASE UNCHANGED attributionVars
    BY <2>3 DEF attributionVars, attrVars, worldVars, fileVars, TypeOK, WorldTypeOK, AttributionTypeOK
  <2> QED
    BY <2>1, <2>2, <2>3 DEF Next, Returned
<1> QED
  BY <1>1, <1>2, PTL DEF Spec

-----------------------------------------------------------------------------
(* Untouched pools reconcile, and no position is written twice.            *)

\* A pool that is quiet after a step of the world was quiet before it, and the
\* step left its ledger entry alone.
LEMMA QuietUnmoved ==
  ASSUME WorldTypeOK, WorldStep, NEW p \in Pools, Quiet(p)'
  PROVE  Quiet(p) /\ ledger'[p] = ledger[p]
<1>1. ASSUME NEW kind \in Kinds, NEW q \in Pools, NEW a \in Accounts, NEW b,
             Move(kind, q, a, b)
      PROVE  Quiet(p) /\ ledger'[p] = ledger[p]
  <2>1. <<kind, q>> \in moved' /\ moved \subseteq moved'
    BY <1>1 DEF Move
  <2>2. Quiet(p) /\ p # q
    BY <2>1 DEF Quiet, Touched
  <2> QED
    BY <1>1, <2>2 DEF Move, WorldTypeOK, Ledgers
<1>2. CASE Interrupt
  BY <1>2 DEF Interrupt, Quiet, Touched
<1>3. CASE \E q \in Pools, a \in Accounts :
             OpenTrustline(q, a) \/ CloseTrustline(q, a) \/ Deposit(q, a) \/ Withdraw(q, a)
  BY <1>1, <1>3 DEF OpenTrustline, CloseTrustline, Deposit, Withdraw, Kinds
<1> QED
  BY <1>2, <1>3 DEF WorldStep

\* The rows of the walk in progress come from its records.
LEMMA FreshRow ==
  ASSUME TypeOK, NEW r \in FreshRows
  PROVE  \E f \in found : /\ f.account \notin seen
                          /\ r.account = f.account
                          /\ r.pool \in Pools
                          /\ r.shares = f.shares[r.pool]
                          /\ r.walk = at
BY DEF FreshRows, Fresh, RowsOf

\* The rows of one walk and those on file never share account and pool.
LEMMA HarvestKeepsPositionsUnique ==
  ASSUME TypeOK, WalkInv, FileInv, NoPositionTwice,
         NEW rows \in SUBSET FreshRows, positions' = positions \cup rows
  PROVE  NoPositionTwice'
<1> SUFFICES ASSUME NEW r \in positions \cup rows, NEW s \in positions \cup rows,
                    r.account = s.account, r.pool = s.pool
             PROVE  r = s
  BY DEF NoPositionTwice
<1>1. CASE r \in positions /\ s \in positions
  BY <1>1 DEF NoPositionTwice
<1>2. CASE r \in rows /\ s \in rows
  <2>1. PICK f \in found : /\ r.account = f.account /\ r.pool \in Pools
                          /\ r.shares = f.shares[r.pool] /\ r.walk = at
    BY <1>2, FreshRow
  <2>2. PICK g \in found : /\ s.account = g.account /\ s.pool \in Pools
                          /\ s.shares = g.shares[s.pool] /\ s.walk = at
    BY <1>2, FreshRow
  <2>3. f = g
    <3>1. \A x, y \in found : x.account = y.account => x = y
      BY DEF WalkInv
    <3>2. f.account = g.account
      BY <2>1, <2>2
    <3> QED
      BY <3>1, <3>2
  <2>4. r \in PositionRows /\ s \in PositionRows
    BY <1>2, FreshRowsType DEF TypeOK, AttributionTypeOK
  <2> QED
    BY <2>1, <2>2, <2>3, <2>4 DEF PositionRows
<1>3. CASE (r \in rows /\ s \in positions) \/ (s \in rows /\ r \in positions)
  BY <1>3, FreshRow DEF FileInv
<1> QED
  BY <1>1, <1>2, <1>3

\* A page of holders leaves nothing out: what it brings and what is already
\* found cover the listing up to the new cursor.
LEMMA PageCovers ==
  ASSUME TypeOK, NEW ids \in SUBSET Accounts,
         NEW page \in PageOf(ids, cursor, AccountPageSize),
         NEW last \in page, IsLast(last, page)
  PROVE  /\ page \subseteq ids
         /\ cursor < last
         /\ \A a \in page : cursor < a /\ a <= last
         /\ \A a \in ids : a <= last => a <= cursor \/ a \in page
<1>1. page \subseteq After(ids, cursor) /\ \A x \in page, y \in After(ids, cursor) \ page : x < y
  BY DEF PageOf
<1>2. \A a \in ids : a \in Nat
  BY IdsArePositive
<1> QED
  BY <1>1, <1>2 DEF After, IsLast, TypeOK, AttributionTypeOK

\* Steps that leave the files and the ledger alone and attribute no pool.
LEMMA FileInvKept ==
  ASSUME FileInv, UNCHANGED <<positions, seen, ledger, moved>>,
         TypeOK, TypeOK', at' >= at, Attributed' \subseteq Attributed
  PROVE  FileInv'
<1>1. \A r \in positions : r.walk \in Nat
  BY DEF TypeOK, AttributionTypeOK, PositionRows
<1>2. at \in Nat /\ at' \in Nat
  BY DEF TypeOK, AttributionTypeOK
<1> QED
  BY <1>1, <1>2 DEF FileInv, Quiet, Touched

LEMMA WalkInvKept ==
  ASSUME WalkInv, UNCHANGED <<found, cursor, step, at, eligible, ledger, moved>>
  PROVE  WalkInv'
BY DEF WalkInv, Quiet, Touched, Current

\* A walk that has fetched nothing yet.
LEMMA WalkInvAtStart ==
  ASSUME TypeOK', found' = {}, cursor' = 0
  PROVE  WalkInv'
<1>1. \A a \in Accounts : ~(a <= 0)
  BY IdsArePositive
<1>2. Holders(ledger[Current])' \subseteq Accounts
  BY DEF Holders
<1> QED
  BY <1>1, <1>2 DEF WalkInv

\* Pools already decided are decided the same way once the list of failures grows.
LEMMA FewerAttributed ==
  ASSUME TypeOK, TypeOK', eligible' = eligible,
         at' = at, Listed(stats.failed) \subseteq Listed(stats'.failed)
  PROVE  Attributed' \subseteq Attributed
BY DEF Attributed

\* Every step of the pass keeps the harvest.
LEMMA HarvestStays ==
  ASSUME TypeOK, TypeOK', HarvestInv, AttributionStep
  PROVE  HarvestInv'
<1> USE DEF HarvestInv
<1>0. ASSUME positions' = positions
      PROVE  NoPositionTwice'
  BY <1>0 DEF NoPositionTwice
<1>1. CASE Interrupted
  <2> USE <1>1 DEF Interrupted, AtHead, worldVars, fileVars
  <2>1. Listed(stats.failed) \subseteq Listed(stats'.failed)
    <3>1. PICK rest \in Seq(Pools) : stats'.failed = stats.failed \o rest
      <4>1. SubSeq(eligible, at, Len(eligible)) \in Seq(Pools)
        BY SubSeqProperties DEF TypeOK, AttributionTypeOK
      <4> QED
        BY <4>1 DEF TypeOK, AttributionTypeOK, HolderStats
    <3>2. stats.failed \in Seq(Pools)
      BY DEF TypeOK, AttributionTypeOK, HolderStats
    <3> QED
      BY <3>1, <3>2, ListedConcat
  <2>2. WalkInv'
    BY WalkInvKept
  <2>3. FileInv'
    BY <2>1, FewerAttributed, FileInvKept DEF TypeOK, AttributionTypeOK
  <2> QED
    BY <1>0, <2>2, <2>3
<1>2. CASE RereadOk
  <2> USE <1>2 DEF RereadOk, AtHead, BeginWalk, worldVars
  <2>1. WalkInv'
    BY WalkInvAtStart
  <2>2. FileInv'
    BY FewerAttributed, FileInvKept DEF TypeOK, AttributionTypeOK
  <2> QED
    BY <1>0, <2>1, <2>2
<1>3. CASE RereadFails
  <2> USE <1>3 DEF RereadFails, AtHead, BeginWalk, worldVars, fileVars
  <2>1. WalkInv'
    BY WalkInvAtStart
  <2>2. FileInv'
    BY FewerAttributed, FileInvKept DEF TypeOK, AttributionTypeOK
  <2> QED
    BY <1>0, <2>1, <2>2
<1>4. CASE RereadNotWritten
  BY <1>0, <1>4 DEF RereadNotWritten, Abort, fileVars
<1>5. CASE HoldersPage
  <2> USE <1>5 DEF HoldersPage, Walking, worldVars, fileVars
  <2> DEFINE ids == Holders(ledger[Current])
  <2>1. PICK page \in PageOf(ids, cursor, AccountPageSize) :
          /\ found' = found \cup {AccountRecord(a) : a \in page}
          /\ \E last \in page : IsLast(last, page) /\ cursor' = last
    OBVIOUS
  <2>2. PICK last \in page : IsLast(last, page) /\ cursor' = last
    BY <2>1
  <2>3. WalkInv /\ FileInv
    OBVIOUS
  <2>4. /\ page \subseteq ids
        /\ cursor < last
        /\ \A a \in page : cursor < a /\ a <= last
        /\ \A a \in ids : a <= last => a <= cursor \/ a \in page
    BY <2>2, <2>3, PageCovers DEF Holders
  <2>5. \A f \in found' \ found :
          f.account \in page /\ f.shares = [q \in Pools |-> ledger[q][f.account]]
    BY <2>1 DEF AccountRecord
  <2>6. \A f \in found : f.account <= cursor /\ f.account \in Nat
    BY <2>3, IdsArePositive DEF WalkInv, TypeOK, AttributionTypeOK, AccountRecords
  <2>7. \A f \in found' : f.account <= cursor'
    <3> SUFFICES ASSUME NEW f \in found' PROVE f.account <= last
      BY <2>2
    <3>1. cursor \in Nat /\ last \in Nat
      BY <2>2, <2>4, IdsArePositive DEF TypeOK, AttributionTypeOK, Holders
    <3>2. CASE f \in found
      BY <3>1, <3>2, <2>4, <2>6
    <3>3. CASE f \notin found
      BY <3>3, <2>4, <2>5
    <3> QED
      BY <3>2, <3>3
  <2>8. \A f, g \in found' : f.account = g.account => f = g
    <3> SUFFICES ASSUME NEW f \in found', NEW g \in found', f.account = g.account
                 PROVE  f = g
      OBVIOUS
    <3>1. CASE f \in found /\ g \in found
      <4>1. \A x, y \in found : x.account = y.account => x = y
        BY <2>3 DEF WalkInv
      <4> QED
        BY <3>1, <4>1
    <3>2. CASE f \notin found /\ g \notin found
      <4>1. PICK a \in page : f = AccountRecord(a)
        BY <3>2, <2>1
      <4>2. PICK b \in page : g = AccountRecord(b)
        BY <3>2, <2>1
      <4>3. f.account = a /\ g.account = b
        BY <4>1, <4>2 DEF AccountRecord
      <4> QED
        BY <4>1, <4>2, <4>3
    <3>3. cursor \in Nat /\ \A a \in page : a \in Nat
      BY <2>4, IdsArePositive DEF TypeOK, AttributionTypeOK, Holders
    <3>4. CASE f \in found /\ g \notin found
      <4>1. f.account <= cursor /\ cursor < g.account /\ g.account \in Nat /\ f.account \in Nat
        BY <3>3, <3>4, <2>4, <2>5, <2>6
      <4> QED
        BY <3>3, <4>1
    <3>5. CASE f \notin found /\ g \in found
      <4>1. g.account <= cursor /\ cursor < f.account /\ f.account \in Nat /\ g.account \in Nat
        BY <3>3, <3>5, <2>4, <2>5, <2>6
      <4> QED
        BY <3>3, <4>1
    <3> QED
      BY <3>1, <3>2, <3>4, <3>5
  <2>9. \A f \in found' : \E q \in Pools : f.shares[q] # NoTrust
    <3> SUFFICES ASSUME NEW f \in found' PROVE \E q \in Pools : f.shares[q] # NoTrust
      OBVIOUS
    <3>1. CASE f \in found
      BY <3>1, <2>3 DEF WalkInv
    <3>2. CASE f \notin found
      <4>1. Current \in Pools
        BY DEF TypeOK, AttributionTypeOK, Current
      <4>2. f.shares[Current] # NoTrust
        BY <3>2, <4>1, <2>4, <2>5 DEF Holders
      <4> QED
        BY <4>1, <4>2
    <3> QED
      BY <3>1, <3>2
  <2>10. \A f \in found', q \in Pools : Quiet(q)' => f.shares[q] = ledger'[q][f.account]
    <3> SUFFICES ASSUME NEW f \in found', NEW q \in Pools, Quiet(q)
                 PROVE  f.shares[q] = ledger[q][f.account]
      BY DEF Quiet, Touched
    <3>1. CASE f \in found
      BY <3>1, <2>3 DEF WalkInv
    <3>2. CASE f \notin found
      BY <3>2, <2>5
    <3> QED
      BY <3>1, <3>2
  <2>11. Quiet(Current)' => \A a \in Holders(ledger[Current])' :
           a <= cursor' => \E f \in found' : f.account = a
    <3> SUFFICES ASSUME Quiet(Current), NEW a \in ids, a <= last
                 PROVE  \E f \in found' : f.account = a
      BY <2>2 DEF Quiet, Touched, Current
    <3>1. CASE a <= cursor
      <4>1. \A b \in Holders(ledger[Current]) :
              b <= cursor => \E f \in found : f.account = b
        BY <2>3 DEF WalkInv
      <4> QED
        BY <3>1, <4>1
    <3>2. CASE a \in page
      <4>1. AccountRecord(a) \in found' /\ AccountRecord(a).account = a
        BY <3>2, <2>1 DEF AccountRecord
      <4> QED
        BY <4>1
    <3> QED
      BY <3>1, <3>2, <2>4
  <2>12. WalkInv'
    BY <2>7, <2>8, <2>9, <2>10, <2>11 DEF WalkInv
  <2>13. FileInv'
    BY <2>3, FewerAttributed, FileInvKept DEF TypeOK, AttributionTypeOK
  <2> QED
    BY <1>0, <2>12, <2>13
<1>6. CASE HoldersFail
  <2> USE <1>6 DEF HoldersFail, Walking, NextPool, worldVars, fileVars
  <2>1. WalkInv'
    BY WalkInvAtStart
  <2>2. Attributed' \subseteq Attributed
    <3>1. Current \in Pools /\ stats.failed \in Seq(Pools) /\ at \in Nat
      BY DEF TypeOK, AttributionTypeOK, HolderStats, Current
    <3>2. stats'.failed = Append(stats.failed, Current)
      BY DEF TypeOK, AttributionTypeOK, HolderStats
    <3>3. Listed(stats'.failed) = Listed(stats.failed) \cup {eligible[at]}
      BY <3>1, <3>2, ListedAppend DEF Current
    <3>4. \A k \in 1..(at' - 1) : k \in 1..(at - 1) \/ k = at
      BY <3>1
    <3> QED
      BY <3>3, <3>4 DEF Attributed
  <2>3. FileInv'
    BY <2>2, FileInvKept DEF TypeOK, AttributionTypeOK
  <2> QED
    BY <1>0, <2>1, <2>3
<1>7. CASE HoldersEnd
  <2> USE <1>7 DEF HoldersEnd, ListingEnds, Walking, NextPool, worldVars
  <2>1. WalkInv /\ FileInv
    OBVIOUS
  <2>2. positions' = positions \cup FreshRows
    BY DEF WritePositions
  <2>3. NoPositionTwice'
    BY <2>1, <2>2, HarvestKeepsPositionsUnique
  <2>4. WalkInv'
    BY WalkInvAtStart
  <2>5. \A p : Quiet(p)' <=> Quiet(p)
    BY DEF Quiet, Touched
  <2>6. \A r \in positions' : r.account \in seen' /\ r.walk < at'
    <3> SUFFICES ASSUME NEW r \in positions' PROVE r.account \in seen' /\ r.walk < at + 1
      OBVIOUS
    <3>1. CASE r \in positions
      <4>1. r.walk \in Nat /\ at \in Nat
        BY <3>1 DEF TypeOK, AttributionTypeOK, PositionRows
      <4> QED
        BY <3>1, <4>1, <2>1 DEF FileInv
    <3>2. CASE r \in FreshRows
      BY <3>2, FreshRow DEF TypeOK, AttributionTypeOK
    <3> QED
      BY <2>2, <3>1, <3>2
  <2>7. \A r \in positions' : Quiet(r.pool)' => r.shares = ledger'[r.pool][r.account]
    <3> SUFFICES ASSUME NEW r \in positions', Quiet(r.pool)
                 PROVE  r.shares = ledger[r.pool][r.account]
      BY <2>5
    <3>1. CASE r \in positions
      BY <3>1, <2>1 DEF FileInv
    <3>2. CASE r \in FreshRows
      <4>1. \A f \in found, q \in Pools : Quiet(q) => f.shares[q] = ledger[q][f.account]
        BY <2>1 DEF WalkInv
      <4> QED
        BY <3>2, <4>1, FreshRow
    <3> QED
      BY <2>2, <3>1, <3>2
  <2>8. \A a \in seen', q \in Pools :
          Quiet(q)' /\ ledger'[q][a] # NoTrust =>
            \E r \in positions' : r.account = a /\ r.pool = q
    <3> SUFFICES ASSUME NEW a \in seen', NEW q \in Pools, Quiet(q), ledger[q][a] # NoTrust
                 PROVE  \E r \in positions' : r.account = a /\ r.pool = q
      BY <2>5
    <3>1. CASE a \in seen
      <4>1. \E r \in positions : r.account = a /\ r.pool = q
        BY <3>1, <2>1 DEF FileInv
      <4> QED
        BY <4>1, <2>2
    <3>2. CASE a \notin seen
      <4>1. PICK f \in found : f.account = a
        BY <3>2
      <4>2. f.shares[q] = ledger[q][a]
        BY <4>1, <2>1 DEF WalkInv
      <4>3. f \in Fresh
        BY <3>2, <4>1 DEF Fresh
      <4>4. [account |-> f.account, pool |-> q, shares |-> f.shares[q], walk |-> at]
              \in RowsOf(f, at)
        BY <4>2 DEF RowsOf
      <4>5. [account |-> f.account, pool |-> q, shares |-> f.shares[q], walk |-> at]
              \in FreshRows
        BY <4>3, <4>4 DEF FreshRows
      <4> QED
        BY <4>1, <4>5, <2>2
    <3> QED
      BY <3>1, <3>2
  <2>9. \A p \in Attributed' : Quiet(p)' => Holders(ledger'[p]) \subseteq seen'
    <3>1. Attributed' \subseteq Attributed \cup {Current}
      <4>1. stats'.failed = stats.failed
        BY StatsAfterWalk DEF TypeOK, AttributionTypeOK, HolderStats
      <4>2. \A k \in 1..(at' - 1) : k \in 1..(at - 1) \/ k = at
        BY DEF TypeOK, AttributionTypeOK
      <4> QED
        BY <4>1, <4>2 DEF Attributed, Current
    <3>2. ASSUME Quiet(Current), NEW a \in Holders(ledger[Current])
          PROVE  a \in seen'
      <4>1. a <= cursor
        <5>1. a \in Nat /\ cursor \in Nat
          BY IdsArePositive DEF Holders, TypeOK, AttributionTypeOK
        <5> QED
          BY <5>1 DEF After
      <4>2. \E f \in found : f.account = a
        BY <3>2, <4>1, <2>1 DEF WalkInv
      <4> QED
        BY <4>2
    <3>3. \A p \in Attributed : Quiet(p) => Holders(ledger[p]) \subseteq seen
      BY <2>1 DEF FileInv
    <3> QED
      BY <2>5, <3>1, <3>2, <3>3
  <2>10. FileInv'
    BY <2>6, <2>7, <2>8, <2>9 DEF FileInv
  <2> QED
    BY <2>3, <2>4, <2>10
<1>8. CASE PositionsNotWritten
  <2>1. PICK rows \in SUBSET FreshRows : positions' = positions \cup rows
    BY <1>8 DEF PositionsNotWritten, WritePositions
  <2>2. WalkInv /\ FileInv
    BY <1>8 DEF PositionsNotWritten, ListingEnds, Walking
  <2>3. NoPositionTwice'
    BY <2>1, <2>2, HarvestKeepsPositionsUnique
  <2> QED
    BY <1>8, <2>3 DEF PositionsNotWritten, Abort
<1>9. CASE LoopEnds
  <2> USE <1>9 DEF LoopEnds, worldVars, fileVars
  <2>1. WalkInv'
    BY WalkInvKept
  <2>2. Listed(stats.failed) \subseteq Listed(stats'.failed)
    BY DEF TypeOK, AttributionTypeOK, HolderStats
  <2>3. FileInv'
    BY <2>2, FewerAttributed, FileInvKept DEF TypeOK, AttributionTypeOK
  <2> QED
    BY <1>0, <2>1, <2>3
<1> QED
  BY <1>1, <1>2, <1>3, <1>4, <1>5, <1>6, <1>7, <1>8, <1>9 DEF AttributionStep

\* So does a movement of the ledger, whichever pass is under way.
LEMMA HarvestMoves ==
  ASSUME TypeOK, TypeOK', HarvestInv, WorldStep,
         UNCHANGED <<positions, eligible, attrVars>>
  PROVE  HarvestInv'
<1>0. NoPositionTwice'
  BY DEF HarvestInv, NoPositionTwice
<1> SUFFICES ASSUME outcome # "error" PROVE WalkInv' /\ FileInv'
  BY <1>0 DEF HarvestInv, attrVars
<1> USE DEF attrVars
<1>1. WalkInv /\ FileInv
  BY DEF HarvestInv
<1>2. \A p \in Pools : Quiet(p)' => Quiet(p) /\ ledger'[p] = ledger[p]
  BY QuietUnmoved DEF TypeOK
<1>3. WalkInv'
  <2>1. \A f \in found, q \in Pools : Quiet(q)' => f.shares[q] = ledger'[q][f.account]
    BY <1>1, <1>2 DEF WalkInv
  <2>2. step = "walk" /\ Quiet(Current)' =>
          \A a \in Holders(ledger[Current])' : a <= cursor => \E f \in found : f.account = a
    <3> SUFFICES ASSUME step = "walk", Quiet(Current)'
                 PROVE  \A a \in Holders(ledger[Current])' :
                          a <= cursor => \E f \in found : f.account = a
      OBVIOUS
    <3>1. Current \in Pools /\ Current' = Current
      BY DEF TypeOK, AttributionTypeOK, Current
    <3>2. Quiet(Current) /\ ledger'[Current] = ledger[Current]
      BY <3>1, <1>2 DEF Quiet
    <3>3. Holders(ledger[Current])' = Holders(ledger[Current])
      BY <3>1, <3>2 DEF Holders
    <3> QED
      BY <3>2, <3>3, <1>1 DEF WalkInv
  <2> QED
    BY <2>1, <2>2, <1>1 DEF WalkInv
<1>4. FileInv'
  <2>1. \A r \in positions : r.pool \in Pools
    BY DEF TypeOK, AttributionTypeOK, PositionRows
  <2>2. Attributed \subseteq Pools /\ Attributed' = Attributed
    BY DEF Attributed, TypeOK, AttributionTypeOK
  <2>3. \A r \in positions : Quiet(r.pool)' => r.shares = ledger'[r.pool][r.account]
    BY <2>1, <1>1, <1>2 DEF FileInv
  <2>4. \A a \in seen, q \in Pools :
          Quiet(q)' /\ ledger'[q][a] # NoTrust =>
            \E r \in positions : r.account = a /\ r.pool = q
    BY <1>1, <1>2 DEF FileInv
  <2>5. \A p \in Attributed' : Quiet(p)' => Holders(ledger'[p]) \subseteq seen
    BY <2>2, <1>1, <1>2 DEF FileInv
  <2> QED
    BY <2>3, <2>4, <2>5, <1>1 DEF FileInv
<1> QED
  BY <1>3, <1>4

\* So does a step of anyone else.
LEMMA HarvestKept ==
  ASSUME TypeOK, TypeOK', HarvestInv,
         UNCHANGED <<worldVars, positions, eligible, attrVars>>
  PROVE  HarvestInv'
<1> USE DEF attrVars, worldVars
<1>1. WalkInv /\ FileInv => WalkInv' /\ FileInv'
  BY WalkInvKept, FewerAttributed, FileInvKept DEF TypeOK, AttributionTypeOK
<1> QED
  BY <1>1 DEF HarvestInv, NoPositionTwice

THEOREM HarvestIsInductive == Spec => []HarvestInv
<1>1. Init => HarvestInv
  BY DEF Init, WorldInit, FilesInit, AttributionInit, HarvestInv, WalkInv, FileInv,
         NoPositionTwice, Attributed
<1>2. TypeOK /\ TypeOK' /\ HarvestInv /\ [Next]_attributionVars => HarvestInv'
  <2> SUFFICES ASSUME TypeOK, TypeOK', HarvestInv, [Next]_attributionVars
               PROVE  HarvestInv'
    OBVIOUS
  <2>1. CASE AttributionStep
    BY <2>1, HarvestStays
  <2>2. CASE WorldMoves
    BY <2>2, HarvestMoves DEF WorldMoves, fileVars
  <2>3. CASE UNCHANGED attributionVars
    BY <2>3, HarvestKept DEF attributionVars, fileVars
  <2> QED
    BY <2>1, <2>2, <2>3 DEF Next, Returned
<1> QED
  BY <1>1, <1>2, TypeCorrect, PTL DEF Spec

\* Such a harvest reconciles every pool nobody touched.
LEMMA HarvestReconciles == TypeOK /\ HarvestInv => QuietPoolsReconcile
<1> SUFFICES ASSUME TypeOK, FileInv, NEW p \in Attributed, Quiet(p)
             PROVE  OnFile(p) = {[account |-> a, shares |-> ledger[p][a]] :
                                   a \in Holders(ledger[p])}
  BY DEF HarvestInv, QuietPoolsReconcile
<1>1. p \in Pools
  BY DEF Attributed, TypeOK, AttributionTypeOK
<1>2. ASSUME NEW r \in positions, r.pool = p
      PROVE  r.account \in Holders(ledger[p]) /\ r.shares = ledger[p][r.account]
  <2>1. r.shares = ledger[p][r.account]
    BY <1>2 DEF FileInv
  <2>2. r.account \in Accounts /\ r.shares \in Nat
    BY BoundsAreNat DEF TypeOK, AttributionTypeOK, PositionRows
  <2> QED
    BY <2>1, <2>2 DEF Holders, NoTrust
<1>3. ASSUME NEW a \in Holders(ledger[p])
      PROVE  \E r \in positions : r.pool = p /\ r.account = a /\ r.shares = ledger[p][a]
  <2>1. a \in seen /\ ledger[p][a] # NoTrust
    BY DEF FileInv, Holders
  <2>2. PICK r \in positions : r.account = a /\ r.pool = p
    BY <1>1, <2>1 DEF FileInv
  <2> QED
    BY <2>2, <1>2
<1> QED
  BY <1>2, <1>3 DEF OnFile

\* Every pool nobody touched reconciles exactly, for every ledger and schedule.
THEOREM UntouchedPoolsReconcile == Spec => []QuietPoolsReconcile
BY HarvestReconciles, HarvestIsInductive, TypeCorrect, PTL

\* No position is ever written twice.
THEOREM PositionsAreUnique == Spec => []NoPositionTwice
<1>1. HarvestInv => NoPositionTwice
  BY DEF HarvestInv
<1> QED
  BY <1>1, HarvestIsInductive, PTL

-----------------------------------------------------------------------------
(* The rows re-read.                                                        *)

\* The attribution pass writes its own two files.
LEMMA AttributionWritesItsOwn ==
  ASSUME AttributionStep
  PROVE  /\ UNCHANGED <<worldVars, poolsFile, tradesFile, manifest, eligible>>
         /\ positions \subseteq positions' /\ atAttr \subseteq atAttr'
         /\ outcome = "running" /\ outcome' \in {"running", "ok", "error"}
<1> USE DEF fileVars
<1>1. CASE Interrupted
  BY <1>1 DEF Interrupted, AtHead
<1>2. CASE RereadOk
  BY <1>2 DEF RereadOk, AtHead, WritePoolsAtAttribution
<1>3. CASE RereadFails
  BY <1>3 DEF RereadFails, AtHead
<1>4. CASE RereadNotWritten
  BY <1>4 DEF RereadNotWritten, AtHead, Abort
<1>5. CASE HoldersPage
  BY <1>5 DEF HoldersPage, Walking
<1>6. CASE HoldersFail
  BY <1>6 DEF HoldersFail, Walking
<1>7. CASE HoldersEnd
  BY <1>7 DEF HoldersEnd, ListingEnds, Walking, WritePositions
<1>8. CASE PositionsNotWritten
  BY <1>8 DEF PositionsNotWritten, ListingEnds, Walking, Abort, WritePositions
<1>9. CASE LoopEnds
  BY <1>9 DEF LoopEnds
<1> QED
  BY <1>1, <1>2, <1>3, <1>4, <1>5, <1>6, <1>7, <1>8, <1>9 DEF AttributionStep

\* The rows the pass adds, when a write fails as well.
LEMMA AttributionAdds ==
  ASSUME AttributionStep
  PROVE  /\ positions' \subseteq positions \cup FreshRows
         /\ \A r \in atAttr' : \/ r \in atAttr
                               \/ RereadOk /\ r = [pool |-> Current, row |-> ledger[Current], walk |-> at]
<1>1. CASE RereadOk
  BY <1>1 DEF RereadOk, WritePoolsAtAttribution
<1>2. CASE HoldersEnd
  BY <1>2 DEF HoldersEnd, WritePositions
<1>3. CASE PositionsNotWritten
  BY <1>3 DEF PositionsNotWritten, WritePositions
<1>4. CASE Interrupted \/ RereadFails \/ RereadNotWritten \/ HoldersPage \/ HoldersFail \/ LoopEnds
  BY <1>4 DEF Interrupted, RereadFails, RereadNotWritten, HoldersPage, HoldersFail, LoopEnds, fileVars
<1> QED
  BY <1>1, <1>2, <1>3, <1>4 DEF AttributionStep

\* What a walk has fetched of a pool nobody touched is exact, and so are the
\* rows made of it.
LEMMA FreshRowsAreExact ==
  ASSUME TypeOK, WalkInv, NEW r \in FreshRows, Quiet(r.pool)
  PROVE  r.shares = ledger[r.pool][r.account]
<1>1. PICK f \in found : /\ r.account = f.account /\ r.pool \in Pools
                         /\ r.shares = f.shares[r.pool]
  BY FreshRow
<1> QED
  BY <1>1 DEF WalkInv

\* The rows on file of untouched pools stay exact as the pass goes on ...
LEMMA ExactRowsStay ==
  ASSUME TypeOK, HarvestInv, ExactRowsInv, AttributionStep
  PROVE  ExactRowsInv'
<1>1. UNCHANGED <<ledger, moved>> /\ outcome = "running"
  BY AttributionWritesItsOwn DEF worldVars
<1>2. \A r \in FreshRows : Quiet(r.pool) => r.shares = ledger[r.pool][r.account]
  BY <1>1, FreshRowsAreExact DEF HarvestInv
<1>3. \A r \in atAttr' : r \in atAttr \/ (r.row = ledger[r.pool] /\ Holders(r.row) # {})
  BY AttributionAdds DEF RereadOk, Exists
<1>4. positions' \subseteq positions \cup FreshRows
  BY AttributionAdds
<1> QED
  BY <1>1, <1>2, <1>3, <1>4 DEF ExactRowsInv, Quiet, Touched

\* ... and when the ledger moves.
LEMMA ExactRowsMoved ==
  ASSUME TypeOK, ExactRowsInv, UNCHANGED <<positions, atAttr>>,
         \A p \in Pools : Quiet(p)' => Quiet(p) /\ ledger'[p] = ledger[p]
  PROVE  ExactRowsInv'
<1>1. /\ \A r \in atAttr : r.pool \in Pools
      /\ \A r \in positions : r.pool \in Pools
  BY DEF TypeOK, AttributionTypeOK, AtAttrRows, PositionRows
<1>2. \A r \in atAttr : Holders(r.row) # {} /\ (Quiet(r.pool)' => r.row = ledger'[r.pool])
  BY <1>1 DEF ExactRowsInv
<1>3. \A r \in positions : Quiet(r.pool)' => r.shares = ledger'[r.pool][r.account]
  BY <1>1 DEF ExactRowsInv
<1> QED
  BY <1>2, <1>3 DEF ExactRowsInv, Quiet, Touched

THEOREM ExactRowsIsInductive == Spec => []ExactRowsInv
<1>1. Init => ExactRowsInv
  BY DEF Init, FilesInit, ExactRowsInv
<1>2. TypeOK /\ HarvestInv /\ ExactRowsInv /\ [Next]_attributionVars => ExactRowsInv'
  <2> SUFFICES ASSUME TypeOK, HarvestInv, ExactRowsInv, [Next]_attributionVars
               PROVE  ExactRowsInv'
    OBVIOUS
  <2>1. CASE AttributionStep
    BY <2>1, ExactRowsStay
  <2>2. CASE WorldMoves
    BY <2>2, ExactRowsMoved, QuietUnmoved DEF WorldMoves, fileVars, TypeOK
  <2>3. CASE UNCHANGED attributionVars
    <3>1. UNCHANGED <<ledger, moved, positions, atAttr>>
      BY <2>3 DEF attributionVars, worldVars, fileVars
    <3> QED
      BY <3>1 DEF ExactRowsInv, Quiet, Touched
  <2> QED
    BY <2>1, <2>2, <2>3 DEF Next, Returned
<1> QED
  BY <1>1, <1>2, TypeCorrect, HarvestIsInductive, PTL DEF Spec

\* No step but the last of the loop touches the count of the stats.
LEMMA RereadStatIsSetLast ==
  ASSUME TypeOK, AttributionStep
  PROVE  stats'.reread = stats.reread \/ LoopEnds
<1>1. stats \in HolderStats
  BY DEF TypeOK, AttributionTypeOK
<1>2. CASE Interrupted \/ HoldersFail \/ HoldersEnd \/ PositionsNotWritten
  BY <1>1, <1>2 DEF Interrupted, HoldersFail, HoldersEnd, PositionsNotWritten, HolderStats
<1>3. CASE RereadOk \/ RereadFails \/ RereadNotWritten \/ HoldersPage
  BY <1>3 DEF RereadOk, RereadFails, RereadNotWritten, HoldersPage
<1> QED
  BY <1>2, <1>3 DEF AttributionStep

LEMMA RereadStays ==
  ASSUME TypeOK, TypeOK', RereadInv, AttributionStep
  PROVE  RereadInv'
<1>1. /\ eligible' = eligible /\ outcome = "running" /\ stats.reread = 0
      /\ at \in Nat /\ DOMAIN eligible = 1..Len(eligible) /\ Len(eligible) \in Nat
      /\ reread \in Nat
  BY AttributionWritesItsOwn DEF RereadInv, TypeOK, AttributionTypeOK
<1>2. CASE RereadOk
  <2> DEFINE row == [pool |-> Current, row |-> ledger[Current], walk |-> at]
  <2>1. /\ step = "loop" /\ at <= Len(eligible) /\ at' = at /\ step' = "walk"
        /\ atAttr' = atAttr \cup {row} /\ reread' = reread + 1 /\ stats' = stats
    BY <1>2 DEF RereadOk, AtHead, BeginWalk, WritePoolsAtAttribution
  <2>2. \A r \in atAttr : r.walk \in DOMAIN eligible /\ r.pool = eligible[r.walk] /\ r.walk < at
    BY <2>1 DEF RereadInv
  <2>3. row \notin atAttr
    BY <1>1, <2>2
  <2>4. IsFiniteSet(atAttr') /\ reread' = Cardinality(atAttr')
    BY <2>1, <2>3, FS_AddElement DEF RereadInv
  <2>5. \A r \in atAttr' : /\ r.walk \in DOMAIN eligible /\ r.pool = eligible[r.walk]
                           /\ r.walk < at \/ r.walk = at
    <3>1. at \in 1..Len(eligible)
      BY <2>1 DEF TypeOK, AttributionTypeOK
    <3>2. row.walk \in DOMAIN eligible /\ row.pool = eligible[row.walk] /\ row.walk = at
      BY <1>1, <3>1 DEF Current
    <3> QED
      BY <2>1, <2>2, <3>2
  <2>6. ASSUME NEW r \in atAttr', NEW s \in atAttr', r.walk = s.walk
        PROVE  r = s
    <3>1. \A q \in atAttr : q.walk # row.walk
      BY <1>1, <2>2
    <3> QED
      BY <2>1, <2>6, <3>1 DEF RereadInv
  <2> QED
    BY <1>1, <2>1, <2>4, <2>5, <2>6 DEF RereadInv
<1>3. CASE ~RereadOk
  <2>1. UNCHANGED <<atAttr, reread>>
    BY <1>3 DEF AttributionStep, Interrupted, RereadFails, RereadNotWritten, HoldersPage, HoldersFail,
                HoldersEnd, PositionsNotWritten, LoopEnds, fileVars
  <2>2. \/ at' = at /\ (step' = step \/ step' = "walk")
        \/ at' = at + 1
    BY <1>3 DEF AttributionStep, Interrupted, RereadFails, RereadNotWritten, HoldersPage, HoldersFail,
                HoldersEnd, PositionsNotWritten, LoopEnds, BeginWalk, NextPool, Abort
  <2>3. \A r \in atAttr : /\ r.walk \in DOMAIN eligible /\ r.pool = eligible[r.walk]
                          /\ r.walk < at' \/ (r.walk = at' /\ step' = "walk")
    <3>1. \A r \in atAttr : /\ r.walk \in DOMAIN eligible /\ r.pool = eligible[r.walk]
                            /\ r.walk < at \/ (r.walk = at /\ step = "walk")
      BY DEF RereadInv
    <3>2. \A w \in DOMAIN eligible : w \in Nat
      BY <1>1
    <3> QED
      BY <1>1, <2>2, <3>1, <3>2
  <2>4. stats'.reread # 0 => outcome' = "ok" /\ stats'.reread = reread
    <3>1. LoopEnds => outcome' = "ok" /\ stats'.reread = reread
      BY DEF LoopEnds, TypeOK, AttributionTypeOK, HolderStats
    <3> QED
      BY <1>1, <3>1, RereadStatIsSetLast
  <2> QED
    BY <1>1, <2>1, <2>3, <2>4 DEF RereadInv
<1> QED
  BY <1>2, <1>3

THEOREM RereadIsInductive == Spec => []RereadInv
<1>1. Init => RereadInv
  <2> SUFFICES ASSUME Init PROVE RereadInv
    OBVIOUS
  <2>1. atAttr = {} /\ reread = 0 /\ stats.reread = 0
    BY DEF Init, FilesInit, AttributionInit
  <2> QED
    BY <2>1, FS_EmptySet DEF RereadInv
<1>2. TypeOK /\ TypeOK' /\ RereadInv /\ [Next]_attributionVars => RereadInv'
  <2>1. RereadInv /\ UNCHANGED <<eligible, atAttr, attrVars>> => RereadInv'
    BY DEF RereadInv, attrVars
  <2> QED
    BY <2>1, RereadStays DEF Next, WorldMoves, Returned, attributionVars, fileVars
<1> QED
  BY <1>1, <1>2, TypeCorrect, PTL DEF Spec

-----------------------------------------------------------------------------
(* What a pool's own walk finds.                                            *)

\* A pool that never shrank has not shrunk in this step, and no balance of it.
LEMMA GrowsOnly ==
  ASSUME WorldTypeOK, WorldStep, NEW p \in Pools, NeverShrank(p)', NEW a \in Accounts
  PROVE  NeverShrank(p) /\ ledger[p][a] <= ledger'[p][a]
<1>1. ledger \in Ledgers /\ ledger[p][a] \in Int
  BY BoundsAreNat DEF WorldTypeOK, Ledgers, Balance, NoTrust
<1>2. ASSUME NEW kind, NEW q \in Pools, NEW b \in Accounts, NEW balance \in Int, Move(kind, q, b, balance),
             kind \in {"withdraw", "close"} \/ ledger[q][b] <= balance
      PROVE  NeverShrank(p) /\ ledger[p][a] <= ledger'[p][a]
  <2>1. moved' = moved \cup {<<kind, q>>} /\ ledger' = [ledger EXCEPT ![q][b] = balance]
    BY <1>2 DEF Move
  <2>2. NeverShrank(p) /\ ~(kind \in {"withdraw", "close"} /\ q = p)
    BY <2>1 DEF NeverShrank
  <2>3. ledger'[p][a] = IF p = q /\ a = b THEN balance ELSE ledger[p][a]
    BY <1>1, <2>1 DEF Ledgers
  <2> QED
    BY <1>1, <1>2, <2>2, <2>3
<1>3. CASE Interrupt
  BY <1>1, <1>3 DEF Interrupt, NeverShrank
<1>4. ASSUME NEW q \in Pools, NEW b \in Accounts,
             OpenTrustline(q, b) \/ CloseTrustline(q, b) \/ Deposit(q, b) \/ Withdraw(q, b)
      PROVE  NeverShrank(p) /\ ledger[p][a] <= ledger'[p][a]
  <2>1. ledger[q][b] \in Int
    BY BoundsAreNat DEF WorldTypeOK, Ledgers, Balance, NoTrust
  <2>2. CASE OpenTrustline(q, b)
    BY <1>2, <2>1, <2>2 DEF OpenTrustline, NoTrust
  <2>3. CASE CloseTrustline(q, b)
    <3>1. NoTrust \in Int
      BY DEF NoTrust
    <3> QED
      BY <1>2, <2>3, <3>1 DEF CloseTrustline
  <2>4. CASE Deposit(q, b)
    BY <1>2, <2>1, <2>4 DEF Deposit
  <2>5. CASE Withdraw(q, b)
    BY <1>2, <2>1, <2>5 DEF Withdraw
  <2> QED
    BY <1>4, <2>2, <2>3, <2>4, <2>5
<1> QED
  BY <1>3, <1>4 DEF WorldStep

\* The rows of the walk in progress have all that was found of accounts not
\* seen before.
LEMMA FreshRowOf ==
  ASSUME NEW f \in found, f.account \notin seen, NEW q \in Pools, f.shares[q] # NoTrust
  PROVE  \E r \in FreshRows : /\ r.account = f.account /\ r.pool = q
                              /\ r.shares = f.shares[q] /\ r.walk = at
<1> DEFINE r == [account |-> f.account, pool |-> q, shares |-> f.shares[q], walk |-> at]
<1>1. r \in RowsOf(f, at) /\ f \in Fresh
  BY DEF RowsOf, Fresh
<1>2. r \in FreshRows
  BY <1>1 DEF FreshRows
<1> QED
  BY <1>2

\* No step takes a failure back.
LEMMA FailedOnlyGrows ==
  ASSUME TypeOK, AttributionStep
  PROVE  Listed(stats.failed) \subseteq Listed(stats.failed)'
<1>1. stats \in HolderStats /\ stats.failed \in Seq(Pools) /\ eligible \in Seq(Pools)
  BY DEF TypeOK, AttributionTypeOK, HolderStats
<1>2. CASE Interrupted
  <2>1. SubSeq(eligible, at, Len(eligible)) \in Seq(Pools)
    BY <1>1, <1>2, SubSeqProperties DEF Interrupted, AtHead, TypeOK, AttributionTypeOK
  <2>2. stats'.failed = stats.failed \o SubSeq(eligible, at, Len(eligible))
    BY <1>1, <1>2 DEF Interrupted, HolderStats
  <2>3. Listed(stats.failed) \subseteq Listed(stats.failed \o SubSeq(eligible, at, Len(eligible)))
    BY <1>1, <2>1, ListedConcat
  <2> QED
    BY <2>2, <2>3 DEF Listed
<1>3. CASE HoldersFail
  <2>1. stats'.failed = Append(stats.failed, Current) /\ Current \in Pools
    BY <1>1, <1>3 DEF HoldersFail, HolderStats, Walking, Current, TypeOK, AttributionTypeOK
  <2>2. Listed(stats.failed) \subseteq Listed(Append(stats.failed, Current))
    BY <1>1, <2>1, ListedAppend
  <2> QED
    BY <2>1, <2>2 DEF Listed
<1>4. CASE HoldersEnd \/ PositionsNotWritten \/ LoopEnds
  BY <1>1, <1>4 DEF HoldersEnd, PositionsNotWritten, LoopEnds, HolderStats, Listed
<1>5. CASE RereadOk \/ RereadFails \/ RereadNotWritten \/ HoldersPage
  BY <1>5 DEF RereadOk, RereadFails, RereadNotWritten, HoldersPage, Listed
<1> QED
  BY <1>2, <1>3, <1>4, <1>5 DEF AttributionStep

LEMMA OwnWalkStays ==
  ASSUME TypeOK, TypeOK', HarvestInv, RereadInv, OwnWalkInv, AttributionStep
  PROVE  OwnWalkInv'
<1>1. /\ UNCHANGED <<eligible, ledger, moved>> /\ positions \subseteq positions'
      /\ outcome = "running" /\ at \in Nat
      /\ ledger \in Ledgers /\ found \subseteq AccountRecords
      /\ Current = eligible[at]
  BY AttributionWritesItsOwn
     DEF worldVars, TypeOK, WorldTypeOK, AttributionTypeOK, Current
<1>2. /\ \A row \in atAttr : /\ row.pool \in Pools /\ row.walk \in Nat
                             /\ \A a \in Accounts : row.row[a] \in Int
                             /\ Holders(row.row) \subseteq Accounts
      /\ \A p \in Pools, a \in Accounts : ledger[p][a] \in Int
      /\ \A f \in found, p \in Pools : f.shares[p] \in Int
  BY <1>1, BoundsAreNat DEF TypeOK, AttributionTypeOK, AtAttrRows, Row, Holders, Ledgers,
                            AccountRecords, Balance, NoTrust
<1>3. ASSUME NEW row \in atAttr', NeverShrank(row.pool)', NEW a \in Accounts
      PROVE  row.row[a] <= ledger'[row.pool][a]
  <2>1. CASE row \in atAttr
    BY <1>1, <1>3, <2>1 DEF OwnWalkInv, NeverShrank
  <2>2. CASE row = [pool |-> Current, row |-> ledger[Current], walk |-> at] /\ RereadOk
    <3>1. Current \in Pools
      BY <2>2 DEF RereadOk, AtHead, TypeOK, AttributionTypeOK, Current
    <3> QED
      BY <1>1, <1>2, <2>2, <3>1
  <2> QED
    BY <2>1, <2>2, AttributionAdds
<1> DEFINE Known(row, a) ==
             \/ \E r \in positions : r.account = a /\ r.walk < row.walk
             \/ \E r \in positions : /\ r.account = a /\ r.pool = row.pool
                                     /\ row.row[a] <= r.shares
           Found(row, a) == \E f \in found : f.account = a /\ row.row[a] <= f.shares[row.pool]
<1>4. /\ \A a \in seen : \E r \in positions : r.account = a /\ r.walk < at
      /\ \A row \in atAttr : NeverShrank(row.pool) => \A a \in Holders(row.row) :
           /\ row.walk = at /\ a <= cursor => Found(row, a)
           /\ row.walk < at /\ row.pool \notin Listed(stats.failed) => Known(row, a)
  BY <1>1 DEF OwnWalkInv
<1>5. \A row \in atAttr : \A a : Known(row, a) => Known(row, a)'
  BY <1>1
<1>6. /\ \A row \in atAttr : row.pool = eligible[row.walk] /\ row.walk <= at
      /\ step = "loop" => \A row \in atAttr : row.walk < at
      /\ step \in {"loop", "walk"}
  BY <1>1, <1>2 DEF RereadInv, TypeOK, AttributionTypeOK
<1>7. WalkInv /\ FileInv
  BY <1>1 DEF HarvestInv
<1> HIDE DEF Known, Found
\* What is left to show of each step.
<1> DEFINE Seen == \A a \in seen : \E r \in positions : r.account = a /\ r.walk < at
           Walks == \A row \in atAttr : NeverShrank(row.pool) => \A a \in Holders(row.row) :
                      /\ row.walk = at /\ a <= cursor => Found(row, a)
                      /\ row.walk < at /\ row.pool \notin Listed(stats.failed) => Known(row, a)
<1>8. ASSUME outcome' # "error" => Seen' /\ Walks'
      PROVE  OwnWalkInv'
  BY <1>1, <1>3, <1>8 DEF OwnWalkInv, Known, Found
<1>9. CASE Interrupted \/ RereadOk \/ RereadFails \/ LoopEnds
  <2>1. /\ step = "loop" /\ UNCHANGED <<at, seen, positions>>
        /\ \A row \in atAttr' : row \in atAttr \/ (row.walk = at /\ cursor' = 0)
    BY <1>9 DEF Interrupted, RereadOk, RereadFails, LoopEnds, AtHead, BeginWalk, fileVars,
                WritePoolsAtAttribution, TypeOK, AttributionTypeOK
  <2>2. Listed(stats.failed) \subseteq Listed(stats.failed)'
    BY <1>9, FailedOnlyGrows
  <2>3. \A a \in Accounts : ~(a <= 0)
    BY IdsArePositive
  <2>4. \A row \in atAttr' : Holders(row.row) \subseteq Accounts
    BY DEF Holders
  <2>5. ASSUME NEW row \in atAttr', NeverShrank(row.pool)', NEW a \in Holders(row.row)
        PROVE  /\ row.walk = at' /\ a <= cursor' => Found(row, a)'
               /\ row.walk < at' /\ row.pool \notin Listed(stats.failed)' => Known(row, a)'
    <3>1. CASE row \in atAttr
      <4>1. NeverShrank(row.pool) /\ row.walk < at /\ row.walk # at
        BY <1>1, <1>2, <1>6, <2>1, <2>5, <3>1 DEF NeverShrank
      <4> QED
        BY <1>4, <1>5, <2>1, <2>2, <2>5, <3>1, <4>1
    <3>2. CASE row.walk = at /\ cursor' = 0
      BY <1>1, <2>1, <2>3, <2>4, <3>2
    <3> QED
      BY <2>1, <3>1, <3>2
  <2> QED
    BY <1>4, <1>8, <2>1, <2>5
<1>10. CASE HoldersPage
  <2> DEFINE ids == Holders(ledger[Current])
  <2>1. PICK page \in PageOf(ids, cursor, AccountPageSize) :
          /\ found' = found \cup {AccountRecord(a) : a \in page}
          /\ \E last \in page : IsLast(last, page) /\ cursor' = last
    BY <1>10 DEF HoldersPage
  <2>2. PICK last \in page : IsLast(last, page) /\ cursor' = last
    BY <2>1
  <2>3. \A a \in ids : a <= last => a <= cursor \/ a \in page
    BY <1>7, <2>2, PageCovers DEF Holders
  <2>4. UNCHANGED <<at, seen, positions, atAttr, stats>> /\ at <= Len(eligible)
    BY <1>10 DEF HoldersPage, fileVars, Walking, TypeOK, AttributionTypeOK
  <2>5. Current \in Pools
    BY <1>1, <2>4 DEF TypeOK, AttributionTypeOK
  <2>6. ASSUME NEW row \in atAttr, NeverShrank(row.pool)', NEW a \in Holders(row.row),
               row.walk = at, a <= cursor'
        PROVE  Found(row, a)'
    <3>1. row.pool = Current /\ NeverShrank(row.pool) /\ a \in Accounts
      BY <1>1, <1>2, <1>6, <2>6 DEF NeverShrank
    <3>2. row.row[a] <= ledger[Current][a] /\ row.row[a] # NoTrust
      BY <3>1 DEF OwnWalkInv, Holders
    <3>3. CASE a <= cursor
      <4>1. PICK f \in found : f.account = a /\ row.row[a] <= f.shares[row.pool]
        BY <1>4, <2>6, <3>1, <3>3 DEF Found
      <4> QED
        BY <2>1, <4>1 DEF Found
    <3>4. CASE ~(a <= cursor)
      <4>1. ledger[Current][a] # NoTrust
        <5>1. row.row[a] \in Balance
          BY <2>6, <3>1 DEF TypeOK, AttributionTypeOK, AtAttrRows, Row
        <5> QED
          BY <1>2, <2>5, <3>1, <3>2, <5>1 DEF Balance, NoTrust
      <4>2. a \in page
        BY <2>2, <2>3, <2>6, <3>1, <3>4, <4>1 DEF Holders
      <4>3. AccountRecord(a) \in found' /\ AccountRecord(a).account = a
            /\ AccountRecord(a).shares[Current] = ledger[Current][a]
        BY <2>1, <2>5, <4>2 DEF AccountRecord
      <4> QED
        BY <3>1, <3>2, <4>3 DEF Found
    <3> QED
      BY <3>3, <3>4
  <2>7. Walks'
    BY <1>1, <1>4, <1>5, <2>4, <2>6 DEF NeverShrank, Listed
  <2> QED
    BY <1>4, <1>8, <2>4, <2>7
<1>11. CASE HoldersFail
  <2>1. at' = at + 1 /\ UNCHANGED <<seen, positions, atAttr>> /\ at <= Len(eligible)
        /\ cursor' = 0 /\ stats'.failed = Append(stats.failed, Current)
    BY <1>11 DEF HoldersFail, NextPool, fileVars, Walking, TypeOK, AttributionTypeOK, HolderStats
  <2>2. Listed(stats.failed)' = Listed(stats.failed) \cup {Current}
    <3>1. stats.failed \in Seq(Pools) /\ Current \in Pools
      BY <1>1, <2>1 DEF TypeOK, AttributionTypeOK, HolderStats
    <3>2. Listed(Append(stats.failed, Current)) = Listed(stats.failed) \cup {Current}
      BY <3>1, ListedAppend
    <3> QED
      BY <2>1, <3>2 DEF Listed
  <2>3. ASSUME NEW row \in atAttr, NeverShrank(row.pool)', NEW a \in Holders(row.row)
        PROVE  /\ row.walk # at'
               /\ row.walk < at' /\ row.pool \notin Listed(stats.failed)' => Known(row, a)'
    <3>1. NeverShrank(row.pool) /\ row.walk # at'
      BY <1>1, <1>2, <1>6, <2>1, <2>3 DEF NeverShrank
    <3>2. row.pool \notin Listed(stats.failed)' =>
            row.walk < at /\ row.pool \notin Listed(stats.failed)
      BY <1>1, <1>2, <1>6, <2>2
    <3> QED
      BY <1>4, <1>5, <3>1, <3>2
  <2>4. Seen'
    <3>1. \A r \in positions : r.walk < at => r.walk < at'
      BY <1>1, <2>1 DEF TypeOK, AttributionTypeOK, PositionRows
    <3> QED
      BY <1>4, <2>1, <3>1
  <2> QED
    BY <1>8, <2>1, <2>3, <2>4
<1>12. CASE HoldersEnd
  <2>1. /\ at' = at + 1 /\ atAttr' = atAttr /\ at <= Len(eligible) /\ step = "walk"
        /\ positions' = positions \cup FreshRows /\ stats'.failed = stats.failed
        /\ seen' = seen \cup {f.account : f \in found}
    BY <1>12 DEF HoldersEnd, ListingEnds, WritePositions, NextPool, Walking,
                 TypeOK, AttributionTypeOK, HolderStats
  <2>2. After(Holders(ledger[Current]), cursor) = {} /\ Current \in Pools
    BY <1>1, <1>12, <2>1 DEF HoldersEnd, ListingEnds, TypeOK, AttributionTypeOK
  <2>3. Seen'
    <3>1. \A r \in positions : r.walk < at => r.walk < at'
      BY <1>1, <2>1 DEF TypeOK, AttributionTypeOK, PositionRows
    <3>2. ASSUME NEW f \in found, f.account \notin seen
          PROVE  \E r \in positions' : r.account = f.account /\ r.walk < at'
      <4>1. PICK q \in Pools : f.shares[q] # NoTrust
        BY <1>7 DEF WalkInv
      <4>2. PICK r \in FreshRows : r.account = f.account /\ r.walk = at
        BY <3>2, <4>1, FreshRowOf
      <4> QED
        BY <1>1, <2>1, <4>2
    <3>3. \A a \in seen : \E r \in positions' : r.account = a /\ r.walk < at'
      BY <1>1, <1>4, <3>1
    <3> QED
      BY <2>1, <3>2, <3>3
  <2>4. ASSUME NEW row \in atAttr, NeverShrank(row.pool), NEW a \in Holders(row.row), row.walk = at
        PROVE  Known(row, a)'
    <3>1. row.pool = Current /\ a \in Accounts /\ row.row[a] <= ledger[Current][a]
      BY <1>1, <1>2, <1>6, <2>4 DEF OwnWalkInv
    <3>2. row.row[a] \in Nat
      <4>1. row.row[a] \in Balance /\ row.row[a] # NoTrust
        BY <2>4, <3>1 DEF TypeOK, AttributionTypeOK, AtAttrRows, Row, Holders
      <4> QED
        BY <4>1, BoundsAreNat DEF Balance, NoTrust
    <3>3. a <= cursor
      <4>1. a \in Holders(ledger[Current])
        BY <1>2, <2>2, <3>1, <3>2 DEF Holders, NoTrust
      <4>2. ~(a > cursor) /\ a \in Nat /\ cursor \in Nat
        BY <2>2, <3>1, <4>1, IdsArePositive DEF After, TypeOK, AttributionTypeOK
      <4> QED
        BY <4>2
    <3>4. PICK f \in found : f.account = a /\ row.row[a] <= f.shares[Current]
      BY <1>4, <2>4, <3>1, <3>3 DEF Found
    <3>5. CASE a \in seen
      <4>1. PICK r \in positions : r.account = a /\ r.walk < row.walk
        BY <1>4, <2>4, <3>5
      <4> QED
        BY <2>1, <4>1 DEF Known
    <3>6. CASE a \notin seen
      <4>1. f.shares[Current] # NoTrust
        BY <1>2, <2>2, <3>2, <3>4 DEF NoTrust
      <4>2. PICK r \in FreshRows : r.account = a /\ r.pool = Current /\ r.shares = f.shares[Current]
        BY <2>2, <3>4, <3>6, <4>1, FreshRowOf
      <4> QED
        BY <2>1, <3>1, <3>4, <4>2 DEF Known
    <3> QED
      BY <3>5, <3>6
  <2>5. ASSUME NEW row \in atAttr, NeverShrank(row.pool)', NEW a \in Holders(row.row)
        PROVE  /\ row.walk # at'
               /\ row.walk < at' /\ row.pool \notin Listed(stats.failed)' => Known(row, a)'
    <3>1. NeverShrank(row.pool) /\ row.walk # at' /\ (row.walk = at \/ row.walk < at)
      BY <1>1, <1>2, <1>6, <2>1, <2>5 DEF NeverShrank
    <3>2. Listed(stats.failed)' = Listed(stats.failed)
      BY <2>1 DEF Listed
    <3> QED
      BY <1>4, <1>5, <2>4, <3>1, <3>2
  <2> QED
    BY <1>8, <2>1, <2>3, <2>5
<1>13. CASE RereadNotWritten \/ PositionsNotWritten
  BY <1>8, <1>13 DEF RereadNotWritten, PositionsNotWritten, Abort
<1> QED
  BY <1>9, <1>10, <1>11, <1>12, <1>13 DEF AttributionStep

LEMMA OwnWalkMoves ==
  ASSUME TypeOK, OwnWalkInv, WorldStep, UNCHANGED <<positions, atAttr, eligible, attrVars>>
  PROVE  OwnWalkInv'
<1>1. \A row \in atAttr : /\ row.pool \in Pools
                          /\ \A a \in Accounts : row.row[a] \in Int /\ ledger[row.pool][a] \in Int
  BY BoundsAreNat DEF TypeOK, WorldTypeOK, AttributionTypeOK, AtAttrRows, Row, Ledgers, Balance, NoTrust
<1>2. \A row \in atAttr : \A a \in Accounts :
        NeverShrank(row.pool)' => NeverShrank(row.pool) /\ ledger[row.pool][a] <= ledger'[row.pool][a]
  BY <1>1, GrowsOnly DEF TypeOK
<1>3. \A p \in Pools, a \in Accounts : ledger'[p][a] \in Int
  <2>1. WorldTypeOK'
    BY WorldStepType DEF TypeOK
  <2> QED
    BY <2>1, BoundsAreNat DEF WorldTypeOK, Ledgers, Balance, NoTrust
<1>4. \A row \in atAttr : NeverShrank(row.pool)' =>
        \A a \in Accounts : row.row[a] <= ledger'[row.pool][a]
  BY <1>1, <1>2, <1>3 DEF OwnWalkInv
<1>5. \A row \in atAttr : Holders(row.row) \subseteq Accounts
  BY DEF Holders
<1> QED
  BY <1>2, <1>4, <1>5 DEF OwnWalkInv, attrVars, Holders, Listed

LEMMA OwnWalkKept ==
  ASSUME OwnWalkInv, UNCHANGED <<worldVars, positions, atAttr, eligible, attrVars>>
  PROVE  OwnWalkInv'
BY DEF OwnWalkInv, attrVars, worldVars, NeverShrank, Holders, Listed

\* So a pool's own walk has found what the re-read row says.
LEMMA OwnWalkFollows == TypeOK /\ RereadInv /\ OwnWalkInv => OwnWalkNeverFallsShort
<1> SUFFICES ASSUME TypeOK, RereadInv, OwnWalkInv, outcome # "error",
                    NEW row \in atAttr, row.pool \in Attributed, NeverShrank(row.pool),
                    NEW a \in Holders(row.row)
             PROVE  \/ \E r \in positions : r.account = a /\ r.walk < row.walk
                    \/ \E r \in positions : /\ r.account = a /\ r.pool = row.pool
                                            /\ r.shares >= row.row[a]
  BY DEF OwnWalkNeverFallsShort
<1>1. /\ at \in 1..(Len(eligible) + 1) /\ Len(eligible) \in Nat
      /\ \A i \in 1..Len(eligible) : eligible[i] \in Pools /\ eligible[i] \in Nat
      /\ DOMAIN eligible = 1..Len(eligible)
  <2>1. /\ at \in 1..(Len(eligible) + 1) /\ Len(eligible) \in Nat
        /\ \A i \in 1..Len(eligible) : eligible[i] \in Pools
        /\ DOMAIN eligible = 1..Len(eligible)
    BY DEF TypeOK, AttributionTypeOK
  <2> QED
    BY <2>1, IdsArePositive
<1>2. row.walk \in 1..Len(eligible) /\ row.pool = eligible[row.walk]
  BY <1>1 DEF RereadInv
<1>3. PICK k \in 1..(at - 1) : row.pool = eligible[k]
  BY DEF Attributed
<1>4. row.walk = k
  <2>1. \A i, j \in 1..Len(eligible) : i < j => eligible[i] < eligible[j]
    BY <1>1 DEF OwnWalkInv
  <2>2. k \in 1..Len(eligible)
    BY <1>1, <1>3
  <2>3. ~(row.walk < k) /\ ~(k < row.walk)
    <3>1. eligible[row.walk] = eligible[k] /\ eligible[k] \in Nat
      BY <1>1, <1>2, <1>3, <2>2
    <3>2. ~(eligible[row.walk] < eligible[k]) /\ ~(eligible[k] < eligible[row.walk])
      BY <3>1
    <3> QED
      BY <1>2, <2>1, <2>2, <3>2
  <2> QED
    BY <1>1, <1>2, <2>2, <2>3
<1>5. row.walk < at /\ row.pool \notin Listed(stats.failed)
  BY <1>1, <1>3, <1>4 DEF Attributed
<1>6. \A r \in positions : r.shares \in Int
  BY BoundsAreNat DEF TypeOK, AttributionTypeOK, PositionRows
<1>7. row.row[a] \in Int
  BY BoundsAreNat DEF TypeOK, AttributionTypeOK, AtAttrRows, Row, Holders, Balance, NoTrust
<1> QED
  BY <1>5, <1>6, <1>7 DEF OwnWalkInv

\* Of a pool that only ever grew no holder found by the pool's own walk falls
\* short of the re-read row (main.go:269-272).
THEOREM OwnWalksNeverFallShort == Spec => []OwnWalkNeverFallsShort
<1>1. Init => OwnWalkInv
  BY DEF Init, FilesInit, AttributionInit, AscendingLists, OwnWalkInv
<1>2. TypeOK /\ TypeOK' /\ HarvestInv /\ RereadInv /\ OwnWalkInv /\ [Next]_attributionVars => OwnWalkInv'
  <2>1. OwnWalkInv /\ UNCHANGED attributionVars => OwnWalkInv'
    BY OwnWalkKept DEF attributionVars, fileVars
  <2> QED
    BY <2>1, OwnWalkStays, OwnWalkMoves DEF Next, WorldMoves, Returned, fileVars
<1> QED
  BY <1>1, <1>2, OwnWalkFollows, TypeCorrect, HarvestIsInductive, RereadIsInductive, PTL DEF Spec


-----------------------------------------------------------------------------
(* How the decided pools change.                                           *)

\* No pool is listed twice in what the census hands over.
LEMMA EligibleOnce ==
  ASSUME TypeOK, AccountsInv, NEW i \in DOMAIN eligible, NEW j \in DOMAIN eligible,
         eligible[i] = eligible[j]
  PROVE  i = j
<1>1. i \in Nat /\ j \in Nat /\ eligible[i] \in Nat /\ eligible[j] \in Nat
  <2>1. DOMAIN eligible \subseteq Nat /\ eligible[i] \in Pools /\ eligible[j] \in Pools
    BY DEF TypeOK, AttributionTypeOK
  <2> QED
    BY <2>1, IdsArePositive
<1>2. ~(i < j) /\ ~(j < i)
  BY <1>1 DEF AccountsInv
<1> QED
  BY <1>1, <1>2

\* The pool at the loop's head is not decided yet.
LEMMA CurrentUndecided ==
  ASSUME TypeOK, AccountsInv, outcome = "running", at <= Len(eligible)
  PROVE  /\ Current \in Pending
         /\ Current \notin Attributed
         /\ Current \notin Listed(stats.failed)
<1>1. at \in DOMAIN eligible /\ DOMAIN eligible = 1..Len(eligible) /\ Len(eligible) \in Nat
  BY DEF TypeOK, AttributionTypeOK
<1>2. Current \notin {eligible[k] : k \in 1..(at - 1)}
  <2> SUFFICES ASSUME NEW k \in 1..(at - 1), eligible[k] = eligible[at] PROVE FALSE
    BY DEF Current
  <2>1. k \in DOMAIN eligible /\ k # at
    BY <1>1
  <2> QED
    BY <1>1, <2>1, EligibleOnce
<1>3. Listed(stats.failed) \subseteq {eligible[k] : k \in 1..(at - 1)}
  BY DEF AccountsInv
<1>4. Current \in {eligible[k] : k \in at..Len(eligible)}
  BY <1>1 DEF Current
<1> QED
  BY <1>2, <1>3, <1>4 DEF Attributed, Pending

\* Deciding the current pool moves the loop past it.
LEMMA DecideCurrent ==
  ASSUME TypeOK, TypeOK', AccountsInv, outcome = "running", at <= Len(eligible),
         eligible' = eligible, at' = at + 1
  PROVE  /\ stats'.failed = stats.failed =>
              /\ Attributed' = Attributed \cup {Current}
              /\ Pending' = Pending \ {Current}
         /\ stats'.failed = Append(stats.failed, Current) =>
              /\ Attributed' = Attributed
              /\ Pending' = Pending \ {Current}
              /\ Listed(stats'.failed) = Listed(stats.failed) \cup {Current}
<1>1. at \in DOMAIN eligible /\ DOMAIN eligible = 1..Len(eligible) /\ Len(eligible) \in Nat /\ at \in Nat
  BY DEF TypeOK, AttributionTypeOK
<1>2. {eligible[k] : k \in 1..(at' - 1)} = {eligible[k] : k \in 1..(at - 1)} \cup {Current}
  <2>1. 1..(at' - 1) = 1..(at - 1) \cup {at}
    BY <1>1
  <2> QED
    BY <2>1 DEF Current
<1>3. {eligible[k] : k \in at'..Len(eligible)}
        = {eligible[k] : k \in at..Len(eligible)} \ {Current}
  <2>1. at..Len(eligible) = at'..Len(eligible) \cup {at} /\ at \notin at'..Len(eligible)
    BY <1>1
  <2>2. ASSUME NEW k \in at'..Len(eligible) PROVE eligible[k] # Current
    <3>1. k \in DOMAIN eligible /\ k # at
      BY <1>1
    <3> QED
      BY <1>1, <3>1, EligibleOnce DEF Current
  <2> QED
    BY <2>1, <2>2 DEF Current
<1>4. Current \notin Attributed /\ Current \notin Listed(stats.failed) /\ Current \in Pools
  BY <1>1, CurrentUndecided DEF TypeOK, AttributionTypeOK, Current
<1>5. /\ Attributed' = {eligible[k] : k \in 1..(at' - 1)} \ Listed(stats'.failed)
      /\ Pending' = {eligible[k] : k \in at'..Len(eligible)} \ Listed(stats'.failed)
  BY DEF Attributed, Pending, Listed
<1>6. ASSUME stats'.failed = stats.failed
      PROVE  Attributed' = Attributed \cup {Current} /\ Pending' = Pending \ {Current}
  <2>1. Attributed' = ({eligible[k] : k \in 1..(at - 1)} \cup {Current}) \ Listed(stats.failed)
    BY <1>2, <1>5, <1>6
  <2>2. Pending' = ({eligible[k] : k \in at..Len(eligible)} \ {Current}) \ Listed(stats.failed)
    BY <1>3, <1>5, <1>6
  <2> QED
    BY <1>4, <2>1, <2>2 DEF Attributed, Pending
<1>7. ASSUME stats'.failed = Append(stats.failed, Current)
      PROVE  /\ Attributed' = Attributed
             /\ Pending' = Pending \ {Current}
             /\ Listed(stats'.failed) = Listed(stats.failed) \cup {Current}
  <2>1. Listed(stats'.failed) = Listed(stats.failed) \cup {Current}
    BY <1>4, <1>7, ListedAppend DEF TypeOK, AttributionTypeOK, HolderStats
  <2>2. Attributed' = ({eligible[k] : k \in 1..(at - 1)} \cup {Current})
                        \ (Listed(stats.failed) \cup {Current})
    BY <1>2, <1>5, <2>1
  <2>3. Pending' = ({eligible[k] : k \in at..Len(eligible)} \ {Current})
                     \ (Listed(stats.failed) \cup {Current})
    BY <1>3, <1>5, <2>1
  <2>4. Current \notin {eligible[k] : k \in 1..(at - 1)}
    BY <1>4 DEF Attributed
  <2> QED
    BY <2>1, <2>2, <2>3, <2>4 DEF Attributed, Pending
<1> QED
  BY <1>6, <1>7

\* The pools an interrupt lists are those still pending; none is decided twice.
LEMMA GivingUp ==
  ASSUME TypeOK, AccountsInv, outcome = "running", at <= Len(eligible),
         NEW rest \in Seq(Pools), rest = SubSeq(eligible, at, Len(eligible))
  PROVE  /\ Listed(stats.failed \o rest) = Listed(stats.failed) \cup Pending
         /\ {eligible[k] : k \in 1..(at - 1)} \cap Listed(rest) = {}
         /\ Listed(rest) = Pending
         /\ Len(rest) = Len(eligible) - at + 1
         /\ \A i, j \in DOMAIN rest : rest[i] = rest[j] => i = j
<1>1. at \in 1..Len(eligible) /\ DOMAIN eligible = 1..Len(eligible) /\ Len(eligible) \in Nat
  BY DEF TypeOK, AttributionTypeOK
<1>2. /\ Len(rest) = Len(eligible) - at + 1
      /\ \A i \in 1..(Len(eligible) - at + 1) : rest[i] = eligible[at + i - 1]
      /\ DOMAIN rest = 1..(Len(eligible) - at + 1)
  <2>1. \A i \in at..Len(eligible) : eligible[i] \in Pools
    BY <1>1 DEF TypeOK, AttributionTypeOK
  <2>2. at \in Int /\ Len(eligible) \in Int
    BY <1>1
  <2> QED
    BY <1>1, <2>1, <2>2, SubSeqProperties, LenProperties
<1>3. Listed(rest) = {eligible[k] : k \in at..Len(eligible)}
  <2>1. ASSUME NEW k \in at..Len(eligible) PROVE eligible[k] \in Listed(rest)
    <3>1. k - at + 1 \in 1..(Len(eligible) - at + 1) /\ at + (k - at + 1) - 1 = k
      BY <1>1
    <3>2. rest[k - at + 1] = eligible[k]
      BY <1>2, <3>1
    <3> QED
      BY <1>2, <3>1, <3>2 DEF Listed
  <2>2. ASSUME NEW i \in DOMAIN rest PROVE rest[i] \in {eligible[k] : k \in at..Len(eligible)}
    <3>1. at + i - 1 \in at..Len(eligible) /\ rest[i] = eligible[at + i - 1]
      BY <1>1, <1>2
    <3> QED
      BY <3>1
  <2> QED
    BY <2>1, <2>2 DEF Listed
<1>4. {eligible[k] : k \in 1..(at - 1)} \cap {eligible[k] : k \in at..Len(eligible)} = {}
  <2> SUFFICES ASSUME NEW k \in 1..(at - 1), NEW l \in at..Len(eligible), eligible[k] = eligible[l]
               PROVE  FALSE
    OBVIOUS
  <2>1. k \in DOMAIN eligible /\ l \in DOMAIN eligible /\ k # l
    BY <1>1
  <2> QED
    BY <2>1, EligibleOnce
<1>5. Pending = Listed(rest)
  BY <1>3, <1>4 DEF Pending, AccountsInv
<1>6. \A i, j \in DOMAIN rest : rest[i] = rest[j] => i = j
  <2> SUFFICES ASSUME NEW i \in DOMAIN rest, NEW j \in DOMAIN rest, rest[i] = rest[j]
               PROVE  i = j
    OBVIOUS
  <2>1. at + i - 1 \in DOMAIN eligible /\ at + j - 1 \in DOMAIN eligible
    BY <1>1, <1>2
  <2>2. eligible[at + i - 1] = eligible[at + j - 1]
    BY <1>2
  <2>3. at + i - 1 = at + j - 1
    BY <2>1, <2>2, EligibleOnce
  <2> QED
    BY <1>1, <1>2, <2>3
<1>7. Listed(stats.failed \o rest) = Listed(stats.failed) \cup Listed(rest)
  BY ListedConcat DEF TypeOK, AttributionTypeOK, HolderStats
<1> QED
  BY <1>2, <1>3, <1>4, <1>5, <1>6, <1>7

\* Two lists without repetition and without a pool in common, one after the other.
LEMMA OnceEach ==
  ASSUME NEW s \in Seq(Pools), NEW t \in Seq(Pools), Listed(s) \cap Listed(t) = {},
         \A i, j \in DOMAIN s : s[i] = s[j] => i = j,
         \A i, j \in DOMAIN t : t[i] = t[j] => i = j
  PROVE  \A i, j \in DOMAIN (s \o t) : (s \o t)[i] = (s \o t)[j] => i = j
<1>1. s \o t \in Seq(Pools) /\ Len(s \o t) = Len(s) + Len(t)
      /\ \A i \in 1 .. Len(s) + Len(t) :
           (s \o t)[i] = IF i <= Len(s) THEN s[i] ELSE t[i - Len(s)]
  BY ConcatProperties
<1>2. Len(s) \in Nat /\ Len(t) \in Nat
  OBVIOUS
<1>3. DOMAIN s = 1..Len(s) /\ DOMAIN t = 1..Len(t) /\ DOMAIN (s \o t) = 1..(Len(s) + Len(t))
  BY <1>1
<1>4. ASSUME NEW i \in DOMAIN (s \o t)
      PROVE  \/ i \in DOMAIN s /\ (s \o t)[i] = s[i]
             \/ i > Len(s) /\ i - Len(s) \in DOMAIN t /\ (s \o t)[i] = t[i - Len(s)]
  BY <1>1, <1>2, <1>3
<1> SUFFICES ASSUME NEW i \in DOMAIN (s \o t), NEW j \in DOMAIN (s \o t),
                    (s \o t)[i] = (s \o t)[j]
             PROVE  i = j
  OBVIOUS
<1>5. ASSUME NEW k \in DOMAIN s, NEW l \in DOMAIN t PROVE s[k] # t[l]
  BY DEF Listed
<1>6. i \in Nat /\ j \in Nat
  BY <1>3
<1>7. CASE i \in DOMAIN s /\ (s \o t)[i] = s[i]
  BY <1>4, <1>5, <1>7
<1>8. CASE i > Len(s) /\ i - Len(s) \in DOMAIN t /\ (s \o t)[i] = t[i - Len(s)]
  <2>1. j > Len(s) /\ j - Len(s) \in DOMAIN t /\ (s \o t)[j] = t[j - Len(s)]
    BY <1>4, <1>5, <1>8
  <2>2. i - Len(s) = j - Len(s)
    BY <1>8, <2>1
  <2> QED
    BY <1>2, <1>6, <2>2
<1> QED
  BY <1>4, <1>7, <1>8

-----------------------------------------------------------------------------
(* The books balance.                                                      *)

\* What the counters count is finite, and a harvest adds rows not on file yet.
LEMMA BooksFinite ==
  ASSUME TypeOK, HarvestInv, outcome # "error"
  PROVE  /\ IsFiniteSet(Attributed) /\ Attributed \subseteq Pools
         /\ IsFiniteSet(positions)
         /\ IsFiniteSet(FreshRows)
         /\ positions \cap FreshRows = {}
<1>1. Attributed \subseteq Pools
  <2>1. \A k \in 1..(at - 1) : eligible[k] \in Pools
    BY DEF TypeOK, AttributionTypeOK
  <2> QED
    BY <2>1 DEF Attributed
<1>2. at \in Nat /\ positions \subseteq PositionRows /\ FreshRows \subseteq PositionRows
  BY FreshRowsType DEF TypeOK, AttributionTypeOK
<1>3. \A r \in positions : r.account \in seen /\ r.walk < at
  BY DEF HarvestInv, FileInv
<1>4. \A r \in positions : r.walk <= at
  BY <1>2, <1>3 DEF PositionRows
<1>5. ASSUME NEW r \in FreshRows PROVE r.account \notin seen /\ r.walk = at
  BY FreshRow
<1>6. \A r \in FreshRows : r.walk <= at
  BY <1>2, <1>5
<1>7. IsFiniteSet(positions) /\ IsFiniteSet(FreshRows)
  BY <1>2, <1>4, <1>6, PositionsFinite
<1>8. positions \cap FreshRows = {}
  BY <1>3, <1>5
<1> QED
  BY <1>1, <1>7, <1>8, IdsAreFinite, FS_Subset

\* A step that decides nothing leaves the books as they are.
LEMMA AccountsKept ==
  ASSUME AccountsInv, UNCHANGED <<eligible, at, stats, positions, outcome>>
  PROVE  AccountsInv'
<1>1. /\ eligible' = eligible /\ at' = at /\ stats' = stats
      /\ positions' = positions /\ outcome' = outcome
  OBVIOUS
<1>2. Attributed' = Attributed /\ Listed(stats'.failed) = Listed(stats.failed)
  BY <1>1 DEF Attributed, Listed
<1> QED
  BY <1>1, <1>2 DEF AccountsInv

\* An aborted pass keeps its list of failed pools.
LEMMA AccountsAborted ==
  ASSUME AccountsInv, outcome = "running", outcome' = "error",
         eligible' = eligible, at' = at, stats'.failed = stats.failed
  PROVE  AccountsInv'
BY DEF AccountsInv, Listed

\* Every step of the pass keeps its books.
LEMMA AccountsStay ==
  ASSUME TypeOK, TypeOK', HarvestInv, HarvestInv', AccountsInv, AttributionStep
  PROVE  AccountsInv'
<1>t. /\ at \in Nat /\ at <= Len(eligible) + 1 /\ Len(eligible) \in Nat
      /\ stats \in HolderStats
      /\ stats.attributed \in Nat /\ stats.failed \in Seq(Pools) /\ Len(stats.failed) \in Nat
  BY DEF TypeOK, AttributionTypeOK, HolderStats
<1>a. /\ \A i, j \in DOMAIN eligible : i < j => eligible[i] < eligible[j]
      /\ \A i, j \in DOMAIN stats.failed : stats.failed[i] = stats.failed[j] => i = j
  BY DEF AccountsInv
<1>r. ASSUME outcome = "running"
      PROVE  /\ Listed(stats.failed) \subseteq {eligible[k] : k \in 1..(at - 1)}
             /\ stats.attributed + Len(stats.failed) = at - 1
             /\ stats.attributed = Cardinality(Attributed)
             /\ stats.positions = Cardinality(positions)
             /\ IsFiniteSet(Attributed) /\ IsFiniteSet(positions)
  BY <1>r, BooksFinite DEF AccountsInv
<1>1. CASE Interrupted
  <2> USE <1>1 DEF Interrupted, AtHead, worldVars, fileVars
  <2>1. PICK rest \in Seq(Pools) : /\ rest = SubSeq(eligible, at, Len(eligible))
                                   /\ stats'.failed = stats.failed \o rest
                                   /\ stats'.attributed = stats.attributed
                                   /\ stats'.positions = stats.positions
    <3>1. SubSeq(eligible, at, Len(eligible)) \in Seq(Pools)
      BY SubSeqProperties DEF TypeOK, AttributionTypeOK
    <3> QED
      BY <1>t, <3>1 DEF HolderStats
  <2>2. /\ {eligible[k] : k \in 1..(at - 1)} \cap Listed(rest) = {}
        /\ Len(rest) = Len(eligible) - at + 1
        /\ \A i, j \in DOMAIN rest : rest[i] = rest[j] => i = j
    BY <2>1, GivingUp
  <2>3. \A i, j \in DOMAIN stats'.failed : stats'.failed[i] = stats'.failed[j] => i = j
    <3>1. Listed(stats.failed) \cap Listed(rest) = {}
      BY <1>r, <2>2
    <3>2. LET f == stats.failed \o rest IN \A i, j \in DOMAIN f : f[i] = f[j] => i = j
      BY ONLY <1>t, <1>a, <2>1, <2>2, <3>1, OnceEach
    <3> QED
      BY ONLY <2>1, <3>2
  <2>4. stats'.attributed + Len(stats'.failed) = Len(eligible)
    <3>1. Len(stats'.failed) = Len(stats.failed) + Len(rest)
      BY <1>t, <2>1, ConcatProperties
    <3> QED
      BY <1>t, <1>r, <2>1, <2>2, <3>1
  <2>5. Attributed' = Attributed
    <3>1. Attributed' = {eligible[k] : k \in 1..(at - 1)} \ Listed(stats'.failed)
      BY DEF Attributed, Listed
    <3>2. Listed(stats'.failed) = Listed(stats.failed) \cup Listed(rest)
      BY <1>t, <2>1, ListedConcat
    <3> QED
      BY <2>2, <3>1, <3>2 DEF Attributed
  <2> QED
    BY <1>a, <1>r, <2>1, <2>3, <2>4, <2>5 DEF AccountsInv
<1>2. CASE RereadOk
  BY <1>2, AccountsKept DEF RereadOk, BeginWalk
<1>3. CASE RereadFails
  BY <1>3, AccountsKept DEF RereadFails, BeginWalk, fileVars
<1>4. CASE RereadNotWritten
  BY <1>4, AccountsAborted DEF RereadNotWritten, Abort, AtHead
<1>5. CASE HoldersPage
  BY <1>5, AccountsKept DEF HoldersPage, fileVars
<1>6. CASE HoldersFail
  <2> USE <1>6 DEF HoldersFail, NextPool, Walking, worldVars, fileVars
  <2>1. at <= Len(eligible) /\ Current \in Pools
    BY DEF TypeOK, AttributionTypeOK, Current
  <2>2. /\ stats'.failed = Append(stats.failed, Current)
        /\ stats'.attributed = stats.attributed /\ stats'.positions = stats.positions
    BY <1>t, <2>1 DEF HolderStats
  <2>3. /\ Attributed' = Attributed
        /\ Listed(stats'.failed) = Listed(stats.failed) \cup {Current}
    BY <2>1, <2>2, DecideCurrent
  <2>4. Current \notin Listed(stats.failed)
    BY <2>1, CurrentUndecided
  <2>5. \A i, j \in DOMAIN stats'.failed : stats'.failed[i] = stats'.failed[j] => i = j
    <3>1. /\ <<Current>> \in Seq(Pools) /\ Listed(<<Current>>) = {Current}
          /\ \A i, j \in DOMAIN <<Current>> : <<Current>>[i] = <<Current>>[j] => i = j
      BY <2>1 DEF Listed
    <3>2. stats'.failed = stats.failed \o <<Current>>
      BY <1>t, <2>1, <2>2, AppendIsConcat
    <3>3. LET f == stats.failed \o <<Current>> IN \A i, j \in DOMAIN f : f[i] = f[j] => i = j
      <4>1. Listed(stats.failed) \cap Listed(<<Current>>) = {}
        BY <2>4, <3>1
      <4> HIDE DEF HoldersFail, NextPool, Walking
      <4> QED
        BY <1>t, <1>a, <3>1, <4>1, OnceEach
    <3> QED
      BY ONLY <3>2, <3>3
  <2>6. Len(stats'.failed) = Len(stats.failed) + 1
    BY <1>t, <2>1, <2>2
  <2>7. Listed(stats'.failed) \subseteq {eligible[k] : k \in 1..(at' - 1)}
    <3>1. at \in 1..(at' - 1) /\ 1..(at - 1) \subseteq 1..(at' - 1)
      BY <1>t DEF TypeOK, AttributionTypeOK
    <3> QED
      BY <1>r, <2>3, <3>1 DEF Current
  <2>8. stats'.attributed + Len(stats'.failed) = at' - 1
    BY <1>t, <1>r, <2>2, <2>6
  <2> QED
    BY <1>a, <1>r, <2>2, <2>3, <2>5, <2>7, <2>8 DEF AccountsInv
<1>7. CASE HoldersEnd
  <2> USE <1>7 DEF HoldersEnd, ListingEnds, NextPool, WritePositions, Walking
  <2>1. at <= Len(eligible)
    BY DEF TypeOK, AttributionTypeOK
  <2>2. /\ IsFiniteSet(FreshRows) /\ positions \cap FreshRows = {}
        /\ Cardinality(FreshRows) \in Nat
    <3>1. IsFiniteSet(FreshRows) /\ positions \cap FreshRows = {}
      BY BooksFinite
    <3> QED
      BY <3>1, FS_CardinalityType
  <2>3. /\ stats'.failed = stats.failed
        /\ stats'.attributed = stats.attributed + 1
        /\ stats'.positions = stats.positions + Cardinality(FreshRows)
    BY <1>t, <2>2, StatsAfterWalk
  <2>4. Attributed' = Attributed \cup {Current} /\ Current \notin Attributed
    BY <2>1, <2>3, DecideCurrent, CurrentUndecided
  <2>5. stats'.attributed = Cardinality(Attributed')
    <3>1. Cardinality(Attributed \cup {Current}) = Cardinality(Attributed) + 1
      BY <1>r, <2>4, FS_AddElement
    <3> QED
      BY <1>r, <2>3, <2>4, <3>1
  <2>6. stats'.positions = Cardinality(positions')
    <3>1. Cardinality(positions') = Cardinality(positions) + Cardinality(FreshRows)
                                      - Cardinality(positions \cap FreshRows)
      BY <1>r, <2>2, FS_Union
    <3>2. Cardinality(positions \cap FreshRows) = 0
      BY <2>2, FS_EmptySet
    <3>3. Cardinality(positions) \in Nat
      BY <1>r, FS_CardinalityType
    <3> QED
      BY <1>r, <2>2, <2>3, <3>1, <3>2, <3>3
  <2>7. Listed(stats'.failed) \subseteq {eligible[k] : k \in 1..(at' - 1)}
    <3>1. 1..(at - 1) \subseteq 1..(at' - 1)
      BY <1>t
    <3> QED
      BY <1>r, <2>3, <3>1
  <2>8. stats'.attributed + Len(stats'.failed) = at' - 1
    BY <1>t, <1>r, <2>3
  <2> QED
    BY <1>a, <1>r, <2>3, <2>5, <2>6, <2>7, <2>8 DEF AccountsInv
<1>8. CASE PositionsNotWritten
  <2> USE <1>8 DEF PositionsNotWritten, ListingEnds, Walking, Abort
  <2>1. stats'.failed = stats.failed
    BY <1>t DEF HolderStats
  <2> QED
    BY <2>1, AccountsAborted
<1>9. CASE LoopEnds
  <2> USE <1>9 DEF LoopEnds, worldVars, fileVars
  <2>1. /\ stats'.failed = stats.failed
        /\ stats'.attributed = stats.attributed /\ stats'.positions = stats.positions
    BY <1>t DEF HolderStats
  <2>2. Attributed' = Attributed
    BY <2>1 DEF Attributed, Listed
  <2>3. stats'.attributed + Len(stats'.failed) = Len(eligible)
    BY <1>t, <1>r, <2>1
  <2> QED
    BY <1>a, <1>r, <2>1, <2>2, <2>3 DEF AccountsInv
<1> QED
  BY <1>1, <1>2, <1>3, <1>4, <1>5, <1>6, <1>7, <1>8, <1>9 DEF AttributionStep

\* Pools decided, failures and counters agree in every reachable state: the
\* inductive invariant behind NoUnlabelledHole and KeepsThePromise.
THEOREM AccountsInductive == Spec => []AccountsInv
<1>1. Init => AccountsInv
  <2> SUFFICES ASSUME Init PROVE AccountsInv
    OBVIOUS
  <2> USE DEF Init, WorldInit, FilesInit, AttributionInit
  <2>1. \A i, j \in DOMAIN eligible : i < j => eligible[i] < eligible[j]
    BY DEF AscendingLists
  <2>2. stats.failed = <<>> /\ stats.attributed = 0 /\ stats.positions = 0
    OBVIOUS
  <2>3. Listed(stats.failed) = {} /\ Attributed = {} /\ positions = {} /\ Len(stats.failed) = 0
    BY <2>2 DEF Listed, Attributed
  <2>4. Cardinality(Attributed) = 0 /\ Cardinality(positions) = 0
    BY <2>3, FS_EmptySet
  <2>5. \A i, j \in DOMAIN stats.failed : stats.failed[i] = stats.failed[j] => i = j
    BY <2>2
  <2>6. at = 1 /\ outcome = "running"
    OBVIOUS
  <2> HIDE DEF Init, WorldInit, FilesInit, AttributionInit
  <2> QED
    BY <2>1, <2>2, <2>3, <2>4, <2>5, <2>6 DEF AccountsInv
<1>2. TypeOK /\ TypeOK' /\ HarvestInv /\ HarvestInv' /\ AccountsInv /\ [Next]_attributionVars
        => AccountsInv'
  <2> SUFFICES ASSUME TypeOK, TypeOK', HarvestInv, HarvestInv', AccountsInv,
                      [Next]_attributionVars
               PROVE  AccountsInv'
    OBVIOUS
  <2>1. CASE AttributionStep
    BY <2>1, AccountsStay
  <2>2. CASE WorldMoves \/ UNCHANGED attributionVars
    BY <2>2, AccountsKept DEF WorldMoves, attributionVars, fileVars, attrVars
  <2> QED
    BY <2>1, <2>2 DEF Next, Returned
<1> QED
  BY <1>1, <1>2, TypeCorrect, HarvestIsInductive, PTL DEF Spec

\* A pass that returns without an error leaves no pool undecided, lists none
\* twice, and its counters are those of the files (run.go:79-87).
THEOREM BooksBalance == Spec => []NoUnlabelledHole
<1>1. AccountsInv => NoUnlabelledHole
  BY DEF AccountsInv, NoUnlabelledHole
<1> QED
  BY <1>1, AccountsInductive, PTL

-----------------------------------------------------------------------------
(* The pass keeps its promise.                                             *)

\* What a harvest writes are positions of accounts with no row on file.
LEMMA HarvestOfStrangers ==
  ASSUME TypeOK, FileInv, NEW rows \in SUBSET FreshRows, positions' = positions \cup rows
  PROVE  LET before == {<<r.account, r.pool>> : r \in positions}
             after  == {<<r.account, r.pool>> : r \in positions'}
         IN  /\ before \subseteq after
             /\ after \subseteq before
                  \cup (Accounts \ {position[1] : position \in before}) \X Pools
<1> DEFINE before == {<<r.account, r.pool>> : r \in positions}
           after  == {<<r.account, r.pool>> : r \in positions'}
<1>1. ASSUME NEW r \in rows
      PROVE  <<r.account, r.pool>> \in (Accounts \ {position[1] : position \in before}) \X Pools
  <2>1. r.account \notin seen /\ r \in PositionRows
    BY FreshRow, FreshRowsType DEF TypeOK, AttributionTypeOK
  <2>2. r.account \in Accounts /\ r.pool \in Pools
    BY <2>1 DEF PositionRows
  <2>3. ASSUME NEW position \in before PROVE position[1] \in seen
    BY DEF FileInv
  <2> QED
    BY <2>1, <2>2, <2>3
<1>2. before \subseteq after
  OBVIOUS
<1>3. ASSUME NEW x \in after
      PROVE  x \in before \cup (Accounts \ {position[1] : position \in before}) \X Pools
  <2>1. PICK r \in positions \cup rows : x = <<r.account, r.pool>>
    OBVIOUS
  <2>2. CASE r \in positions
    BY <2>1, <2>2
  <2>3. CASE r \in rows
    BY <1>1, <2>1, <2>3
  <2> QED
    BY <2>2, <2>3
<1> QED
  BY <1>2, <1>3

\* Each eligible pool is decided once, an account's positions are written at
\* one moment, a failed walk writes nothing, and a pass that returns normally
\* has decided every pool: the pass refines AttributionPromise (main.go:225-330).
THEOREM PassKeepsThePromise == Spec => KeepsThePromise
<1>1. Init => Promise!Init
  <2> SUFFICES ASSUME Init PROVE Promise!Init
    OBVIOUS
  <2> USE DEF Init, WorldInit, FilesInit, AttributionInit
  <2>1. stats.failed = <<>> /\ outcome = "running" /\ positions = {} /\ at = 1
    OBVIOUS
  <2>2. eligible \in Seq(Pools)
    BY DEF AscendingLists
  <2>3. Pending \subseteq Pools /\ Attributed = {} /\ Listed(stats.failed) = {}
    BY <2>1, <2>2 DEF Pending, Attributed, Listed
  <2> HIDE DEF Init, WorldInit, FilesInit, AttributionInit
  <2> QED
    BY <2>1, <2>3 DEF Promise!Init
<1>2. TypeOK /\ TypeOK' /\ HarvestInv /\ AccountsInv /\ [Next]_attributionVars
        => [Promise!Next]_(Promise!vars)
  <2> SUFFICES ASSUME TypeOK, TypeOK', HarvestInv, AccountsInv, [Next]_attributionVars
               PROVE  [Promise!Next]_(Promise!vars)
    OBVIOUS
  <2>t. /\ at \in Nat /\ at <= Len(eligible) + 1 /\ Len(eligible) \in Nat
        /\ stats \in HolderStats /\ stats.failed \in Seq(Pools)
    BY DEF TypeOK, AttributionTypeOK, HolderStats
  <2>u. ASSUME UNCHANGED <<eligible, at, positions, outcome>>, stats'.failed = stats.failed
        PROVE  UNCHANGED Promise!vars
    <3>1. Pending' = Pending /\ Attributed' = Attributed /\ Listed(stats'.failed) = Listed(stats.failed)
      BY <2>u DEF Pending, Attributed, Listed
    <3> QED
      BY <2>u, <3>1 DEF Promise!vars
  <2>1. CASE Interrupted
    <3> USE <2>1 DEF Interrupted, AtHead, worldVars, fileVars
    <3>1. PICK rest \in Seq(Pools) : /\ rest = SubSeq(eligible, at, Len(eligible))
                                     /\ stats'.failed = stats.failed \o rest
      <4>1. SubSeq(eligible, at, Len(eligible)) \in Seq(Pools)
        BY SubSeqProperties DEF TypeOK, AttributionTypeOK
      <4> QED
        BY <2>t, <4>1 DEF HolderStats
    <3>2. /\ Listed(stats'.failed) = Listed(stats.failed) \cup Pending
          /\ {eligible[k] : k \in 1..(at - 1)} \cap Listed(rest) = {}
          /\ Listed(rest) = Pending
      BY <3>1, GivingUp
    <3>3. Attributed' = Attributed /\ Pending' = {}
      <4>1. /\ Attributed' = {eligible[k] : k \in 1..(at - 1)} \ Listed(stats'.failed)
            /\ Pending' = {eligible[k] : k \in at..Len(eligible)} \ Listed(stats'.failed)
        BY DEF Attributed, Pending, Listed
      <4> QED
        BY <3>2, <4>1 DEF Attributed, Pending
    <3>4. Promise!GiveUp
      BY <3>2, <3>3 DEF Promise!GiveUp
    <3> QED
      BY <3>4 DEF Promise!Next
  <2>2. CASE RereadOk
    BY <2>2, <2>u DEF RereadOk, BeginWalk
  <2>3. CASE RereadFails
    BY <2>3, <2>u DEF RereadFails, BeginWalk, fileVars
  <2>4. CASE RereadNotWritten
    <3> USE <2>4 DEF RereadNotWritten, Abort, AtHead, fileVars
    <3>1. Pending' = Pending /\ Attributed' = Attributed /\ Listed(stats'.failed) = Listed(stats.failed)
      BY DEF Pending, Attributed, Listed
    <3>2. Promise!Abort
      BY <3>1 DEF Promise!Abort
    <3> QED
      BY <3>2 DEF Promise!Next
  <2>5. CASE HoldersPage
    BY <2>5, <2>u DEF HoldersPage, fileVars
  <2>6. CASE HoldersFail
    <3> USE <2>6 DEF HoldersFail, NextPool, Walking, worldVars, fileVars
    <3>1. at <= Len(eligible) /\ Current \in Pools
      BY DEF TypeOK, AttributionTypeOK, Current
    <3>2. stats'.failed = Append(stats.failed, Current)
      BY <2>t, <3>1 DEF HolderStats
    <3>3. /\ Attributed' = Attributed
          /\ Pending' = Pending \ {Current}
          /\ Listed(stats'.failed) = Listed(stats.failed) \cup {Current}
      BY <3>1, <3>2, DecideCurrent
    <3>4. Current \in Pending
      BY <3>1, CurrentUndecided
    <3>5. Promise!Fail(Current)
      BY <3>3, <3>4 DEF Promise!Fail
    <3> QED
      BY <3>4, <3>5 DEF Promise!Next
  <2>7. CASE HoldersEnd
    <3> USE <2>7 DEF HoldersEnd, ListingEnds, NextPool, WritePositions, Walking
    <3>1. at <= Len(eligible)
      BY DEF TypeOK, AttributionTypeOK
    <3>2. stats'.failed = stats.failed
      BY <2>t, BooksFinite, FS_CardinalityType, StatsAfterWalk
    <3>3. Attributed' = Attributed \cup {Current} /\ Pending' = Pending \ {Current}
      BY <3>1, <3>2, DecideCurrent
    <3>4. Current \in Pending
      BY <3>1, CurrentUndecided
    <3>5. PICK p \in Pending : p = Current
      BY <3>4
    <3>6. Promise!Attribute(p)
      <4>1. FileInv
        BY DEF HarvestInv
      <4> QED
        BY <3>2, <3>3, <3>5, <4>1, HarvestOfStrangers
           DEF Promise!Attribute, Promise!Strangers, Promise!AccountsOnFile, Listed
    <3>7. outcome = "running"
      OBVIOUS
    <3> QED
      BY ONLY <3>6, <3>7 DEF Promise!Next
  <2>8. CASE PositionsNotWritten
    <3> USE <2>8 DEF PositionsNotWritten, ListingEnds, Walking, Abort, WritePositions
    <3>1. stats'.failed = stats.failed
      BY <2>t DEF HolderStats
    <3>2. Pending' = Pending /\ Attributed' = Attributed /\ Listed(stats'.failed) = Listed(stats.failed)
      BY <3>1 DEF Pending, Attributed, Listed
    <3>3. PICK rows \in SUBSET FreshRows : positions' = positions \cup rows
      OBVIOUS
    <3>4. Promise!Abort
      <4>1. FileInv
        BY DEF HarvestInv
      <4> QED
        BY <3>2, <3>3, <4>1, HarvestOfStrangers
           DEF Promise!Abort, Promise!Strangers, Promise!AccountsOnFile
    <3> QED
      BY <3>4 DEF Promise!Next
  <2>9. CASE LoopEnds
    <3> USE <2>9 DEF LoopEnds, worldVars, fileVars
    <3>1. stats'.failed = stats.failed
      BY <2>t DEF HolderStats
    <3>2. Pending' = Pending /\ Attributed' = Attributed /\ Listed(stats'.failed) = Listed(stats.failed)
      BY <3>1 DEF Pending, Attributed, Listed
    <3>3. Pending = {}
      BY <2>t DEF Pending
    <3>4. Promise!GiveUp
      BY <3>2, <3>3 DEF Promise!GiveUp
    <3> QED
      BY <3>4 DEF Promise!Next
  <2>10. CASE outcome = "running" /\ WorldMoves
    BY <2>10, <2>u DEF WorldMoves, fileVars, attrVars
  <2>11. CASE Returned
    BY <2>11, <2>u DEF Returned, attributionVars, fileVars, attrVars
  <2>12. CASE UNCHANGED attributionVars
    BY <2>12, <2>u DEF attributionVars, fileVars, attrVars
  <2> QED
    BY <2>1, <2>2, <2>3, <2>4, <2>5, <2>6, <2>7, <2>8, <2>9, <2>10, <2>11, <2>12
       DEF Next, AttributionStep
<1> QED
  BY <1>1, <1>2, TypeCorrect, HarvestIsInductive, AccountsInductive, PTL
     DEF Spec, KeepsThePromise, Promise!Spec

-----------------------------------------------------------------------------
(* The pass moves on.                                                       *)

\* Of the ids after a cursor fewer are left after a later one.
LEMMA CountsAfter ==
  ASSUME NEW ids, IsFiniteSet(ids), NEW c
  PROVE  /\ IsFiniteSet(After(ids, c))
         /\ Cardinality(After(ids, c)) \in Nat
         /\ Cardinality(After(ids, c)) <= Cardinality(ids)
         /\ Cardinality(ids) \in Nat
<1>1. After(ids, c) \in SUBSET ids
  BY DEF After
<1> QED
  BY <1>1, FS_Subset, FS_CardinalityType

LEMMA FewerAfter ==
  ASSUME NEW ids \in SUBSET Nat, IsFiniteSet(ids), NEW c \in Nat, NEW d \in After(ids, c)
  PROVE  Cardinality(After(ids, d)) < Cardinality(After(ids, c))
<1>1. d \in Nat /\ c < d
  BY DEF After
<1>2. After(ids, d) \subseteq After(ids, c) \ {d}
  <2>1. \A x \in Nat : x > d => x > c /\ x # d
    BY <1>1
  <2> QED
    BY <2>1 DEF After
<1>3. IsFiniteSet(After(ids, c) \ {d})
      /\ Cardinality(After(ids, c) \ {d}) = Cardinality(After(ids, c)) - 1
  BY CountsAfter, FS_RemoveElement
<1>4. Cardinality(After(ids, d)) <= Cardinality(After(ids, c) \ {d})
  BY <1>2, <1>3, FS_Subset
<1>5. Cardinality(After(ids, c)) \in Nat /\ Cardinality(After(ids, d)) \in Nat
  BY CountsAfter
<1> QED
  BY <1>3, <1>4, <1>5

LEMMA LeftIsCounted ==
  ASSUME TypeOK
  PROVE  PoolsLeft \in Nat /\ AnswersLeft \in Nat
<1>1. /\ at \in Nat /\ Len(eligible) \in Nat /\ at <= Len(eligible) + 1 /\ cursor \in Nat
  BY DEF TypeOK, AttributionTypeOK
<1>2. Cardinality(Accounts) \in Nat /\ Cardinality(After(Accounts, cursor)) \in Nat
  BY <1>1, CountsAfter, IdsAreFinite
<1> QED
  BY <1>1, <1>2 DEF PoolsLeft, AnswersLeft

\* Every answer takes the pass further.
LEMMA StepMovesOn ==
  ASSUME TypeOK, AttributionStep
  PROVE  \/ PoolsLeft' < PoolsLeft
         \/ PoolsLeft' = PoolsLeft /\ AnswersLeft' < AnswersLeft
<1>1. /\ at \in Nat /\ Len(eligible) \in Nat /\ at <= Len(eligible) + 1 /\ cursor \in Nat
      /\ eligible' = eligible /\ outcome = "running" /\ step \in {"loop", "walk"}
  BY AttributionWritesItsOwn DEF TypeOK, AttributionTypeOK
<1>2. /\ Cardinality(Accounts) \in Nat
      /\ \A c \in Nat : /\ Cardinality(After(Accounts, c)) \in Nat
                        /\ Cardinality(After(Accounts, c)) <= Cardinality(Accounts)
  BY CountsAfter, IdsAreFinite
<1>a. /\ PoolsLeft = Len(eligible) + 1 - at /\ PoolsLeft' = Len(eligible) + 1 - at'
      /\ PoolsLeft \in Nat
  BY <1>1 DEF PoolsLeft
<1>b. /\ AnswersLeft = IF step = "loop" THEN 2 + Cardinality(Accounts)
                       ELSE 1 + Cardinality(After(Accounts, cursor))
      /\ AnswersLeft' = IF outcome' # "running" THEN 0
                        ELSE IF step' = "loop" THEN 2 + Cardinality(Accounts)
                        ELSE 1 + Cardinality(After(Accounts, cursor'))
  BY <1>1 DEF AnswersLeft
<1>c. AnswersLeft \in Nat /\ AnswersLeft > 0
  <2>1. Cardinality(After(Accounts, cursor)) \in Nat
    BY <1>1, <1>2
  <2> QED
    BY <1>2, <1>b, <2>1
<1>3. CASE outcome' # "running"
  <2>1. at' \in {at, at + 1}
    BY <1>3 DEF AttributionStep, Interrupted, RereadOk, RereadFails, RereadNotWritten, HoldersPage,
                HoldersFail, HoldersEnd, PositionsNotWritten, LoopEnds, Abort, NextPool, BeginWalk
  <2> QED
    BY <1>1, <1>a, <1>b, <1>c, <1>3, <2>1
<1>4. CASE RereadOk \/ RereadFails
  <2>1. step = "loop" /\ step' = "walk" /\ cursor' = 0 /\ at' = at /\ outcome' = outcome
    BY <1>4 DEF RereadOk, RereadFails, AtHead, BeginWalk
  <2> QED
    BY <1>1, <1>2, <1>a, <1>b, <1>c, <2>1
<1>5. CASE HoldersPage
  <2>1. step = "walk" /\ UNCHANGED <<at, step, outcome>>
    BY <1>5 DEF HoldersPage, Walking
  <2>2. PICK page \in PageOf(Holders(ledger[Current]), cursor, AccountPageSize) :
          \E last \in page : IsLast(last, page) /\ cursor' = last
    BY <1>5 DEF HoldersPage
  <2>3. PICK last \in page : IsLast(last, page) /\ cursor' = last
    BY <2>2
  <2>4. last \in After(Accounts, cursor)
    BY <2>2 DEF PageOf, After, Holders
  <2>5. Cardinality(After(Accounts, last)) < Cardinality(After(Accounts, cursor)) /\ last \in Nat
    <3>1. Accounts \in SUBSET Nat /\ last \in Accounts
      BY <2>4, IdsArePositive DEF After
    <3> QED
      BY <1>1, <2>4, <3>1, FewerAfter, IdsAreFinite
  <2> QED
    BY <1>1, <1>2, <1>a, <1>b, <1>c, <2>1, <2>3, <2>5
<1>6. CASE HoldersFail \/ HoldersEnd
  <2>1. at' = at + 1 /\ at < at + 1
    BY <1>1, <1>6 DEF HoldersFail, HoldersEnd, NextPool
  <2> QED
    BY <1>1, <1>2, <1>a, <1>b, <1>c, <2>1
<1>7. CASE Interrupted \/ RereadNotWritten \/ PositionsNotWritten \/ LoopEnds
  BY <1>3, <1>7 DEF Interrupted, RereadNotWritten, PositionsNotWritten, LoopEnds, Abort
<1> QED
  BY <1>a, <1>b, <1>c, <1>4, <1>5, <1>6, <1>7 DEF AttributionStep

\* Whatever fails and whichever accounts move in front of its cursor, the pass
\* has so many answers before it and no more (main.go:247-327,
\* positions.go:102-137).
THEOREM PassIsBounded == Spec => PassMovesOn /\ [](PoolsLeft \in Nat /\ AnswersLeft \in Nat)
<1>1. TypeOK => (AttributionStep => \/ PoolsLeft' < PoolsLeft
                                    \/ PoolsLeft' = PoolsLeft /\ AnswersLeft' < AnswersLeft)
  BY StepMovesOn
<1> QED
  BY <1>1, LeftIsCounted, TypeCorrect, PTL DEF PassMovesOn
=============================================================================
