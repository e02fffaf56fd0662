------------------------------- MODULE World -------------------------------
(***************************************************************************)
(* What a run does not control: the ledger that Horizon serves, which      *)
(* keeps moving while a census that takes hours reads it, and the          *)
(* operator's Ctrl-C.  External code, modelled from how pkg/horizon and    *)
(* cmd/ingest use it.                                                      *)
(*                                                                         *)
(* ledger[p][a] is account a's share balance in pool p, or NoTrust when a  *)
(* has no trustline to p.  A pool exists while it has a trustline.  Pool   *)
(* and account ids are numbers because Horizon pages in ascending id       *)
(* order; 0 is the cursor before the first record.                         *)
(***************************************************************************)
EXTENDS Integers, FiniteSets

CONSTANTS Pools, Accounts,
          MaxShares,      \* largest balance: bounds the state space
          MaxMoves,       \* ledger movements during a run: bounds the state space
          InitialLedgers  \* the ledgers a run may start from

NoTrust == -1
Balance == NoTrust .. MaxShares
Ledgers == [Pools -> [Accounts -> Balance]]

ASSUME IdsArePositive == Pools \subseteq Nat \ {0} /\ Accounts \subseteq Nat \ {0}
ASSUME IdsAreFinite == IsFiniteSet(Pools) /\ IsFiniteSet(Accounts)
ASSUME BoundsAreNat == MaxShares \in Nat /\ MaxMoves \in Nat
ASSUME InitialLedgersAreLedgers == InitialLedgers \subseteq Ledgers

VARIABLES ledger,
          moved,      \* history: the <<kind, pool>> of every movement so far
          moves,      \* number of movements so far, up to MaxMoves
          cancelled   \* the run's context has been cancelled by a signal

worldVars == <<ledger, moved, moves, cancelled>>

Kinds == {"open", "close", "deposit", "withdraw"}

WorldTypeOK ==
  /\ ledger \in Ledgers
  /\ moved \subseteq Kinds \X Pools
  /\ moves \in 0..MaxMoves
  /\ cancelled \in BOOLEAN

WorldInit ==
  /\ ledger \in InitialLedgers
  /\ moved = {}
  /\ moves = 0
  /\ cancelled = FALSE

-----------------------------------------------------------------------------
(* What Horizon answers.                                                   *)

Holders(row) == {a \in Accounts : row[a] # NoTrust}
Exists(p) == Holders(ledger[p]) # {}

\* An account record carries every pool position of the account, not only the
\* pool that was asked about.
AccountRecord(a) == [account |-> a, shares |-> [q \in Pools |-> ledger[q][a]]]

\* The records of a listing that a page after cursor may hold: a nonempty
\* leading part of what is left, at most size long.  The client relies on no
\* more than that; only an empty page ends a walk.
After(ids, cursor) == {x \in ids : x > cursor}
PageOf(ids, cursor, size) ==
  {page \in SUBSET After(ids, cursor) :
     /\ page # {}
     /\ Cardinality(page) <= size
     /\ \A x \in page, y \in After(ids, cursor) \ page : x < y}
IsLast(x, page) == x \in page /\ \A y \in page : y <= x

-----------------------------------------------------------------------------
(* How the ledger moves.                                                   *)

Move(kind, p, a, balance) ==
  /\ moves < MaxMoves
  /\ ledger' = [ledger EXCEPT ![p][a] = balance]
  /\ moved' = moved \cup {<<kind, p>>}
  /\ moves' = moves + 1
  /\ UNCHANGED cancelled

OpenTrustline(p, a)  == ledger[p][a] = NoTrust /\ Move("open", p, a, 0)
CloseTrustline(p, a) == ledger[p][a] = 0 /\ Move("close", p, a, NoTrust)
Deposit(p, a) ==
  /\ ledger[p][a] \in 0..(MaxShares - 1)
  /\ Move("deposit", p, a, ledger[p][a] + 1)
Withdraw(p, a) ==
  /\ ledger[p][a] > 0
  /\ Move("withdraw", p, a, ledger[p][a] - 1)

\* SIGINT or SIGTERM: signal.NotifyContext cancels the context, and goes on
\* swallowing later signals.
Interrupt ==
  /\ ~cancelled
  /\ cancelled' = TRUE
  /\ UNCHANGED <<ledger, moved, moves>>

WorldStep ==
  \/ \E p \in Pools, a \in Accounts :
       \/ OpenTrustline(p, a)
       \/ CloseTrustline(p, a)
       \/ Deposit(p, a)
       \/ Withdraw(p, a)
  \/ Interrupt

Touched == {m[2] : m \in moved}
Quiet(p) == p \notin Touched
NeverShrank(p) == {<<"withdraw", p>>, <<"close", p>>} \cap moved = {}
=============================================================================
