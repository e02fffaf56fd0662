----------------------------- MODULE MCReaders -----------------------------
(* An instance of a run and one reader for TLC. *)
EXTENDS ReadersProps

\* Accounts 1 and 2 are in the first pool.  In the second account 1 is with
\* account 3, whom only its own walk can meet, or alone: then the pool fails the
\* gate, and is on file through the first one's walk.
TwoPools ==
  {[p \in Pools |-> [a \in Accounts |->
      CASE a = 1 -> 1
        [] a = 2 -> IF p = 1 THEN 1 ELSE NoTrust
        [] OTHER -> IF p = 2 THEN other ELSE NoTrust]] : other \in {1, NoTrust}}

\* Both pools are above the threshold of the gate and of the scope.
EnoughNative == [p \in Pools |-> 5]
OneSwap == [p \in Pools |-> IF p = 1 THEN <<TRUE>> ELSE <<>>]

FullRun == {[maxPages |-> 0, holders |-> TRUE, trades |-> 1]}
=============================================================================
