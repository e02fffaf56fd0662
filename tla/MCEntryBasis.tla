---------------------------- MODULE MCEntryBasis ----------------------------
(* An instance of the effects walk for TLC. *)
EXTENDS EntryBasis
=============================================================================
