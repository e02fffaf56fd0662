------------------------------ MODULE MCIngest ------------------------------
(* Instances of a whole run for TLC. *)
EXTENDS IngestProps

\* Two pools with two trustlines and a native leg, a third with one trustline
\* and none: account 1 is in all of them.
ThreePools ==
  {[p \in Pools |-> [a \in Accounts |-> IF a = 1 \/ p < 3 THEN 1 ELSE NoTrust]]}
Legs == [p \in Pools |-> IF p = 3 THEN NoLeg ELSE 5 * p]

\* Usable and unusable trades, over more than a page; a pool with no usable
\* trade, and one nobody ever traded against.
Histories == [p \in Pools |-> CASE p = 1 -> <<TRUE, FALSE, TRUE>>
                                [] p = 2 -> <<FALSE>>
                                [] OTHER -> <<>>]

\* A full run, trades alone after a census without a cap (a negative one is none),
\* and a capped census with holders.
CommandLinesInUse ==
  {[maxPages |-> 0, holders |-> TRUE, trades |-> 1],
   [maxPages |-> -1, holders |-> FALSE, trades |-> 2],
   [maxPages |-> 1, holders |-> TRUE, trades |-> 0]}
=============================================================================
