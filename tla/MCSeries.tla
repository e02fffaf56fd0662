------------------------------ MODULE MCSeries ------------------------------
(* An instance of a pool's price series for TLC. *)
EXTENDS Series

\* No amounts on record, dust on one side, and enough on both.
AmountsInUse == {<<0, 0>>, <<1, 2>>, <<2, 2>>}
=============================================================================
