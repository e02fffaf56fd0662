--------------------------- MODULE MCAttribution ---------------------------
(* Instances of the attribution pass for TLC. *)
EXTENDS ReconcileProps

\* Account 1 is in every pool, account 2 in the first pool only, account 3 in
\* the later ones: the harvest of pool 1 reaches part of the other pools, and
\* account 2 can still join them.
OverlappingHolders ==
  {[p \in Pools |-> [a \in Accounts |->
      CASE a = 1 -> 1
        [] a = 2 -> IF p = 1 THEN 0 ELSE NoTrust
        [] OTHER -> IF p = 1 THEN NoTrust ELSE 1]]}
=============================================================================
