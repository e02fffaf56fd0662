----------------------------- MODULE MCListing -----------------------------
(* An instance of a walk over getJSON for TLC. *)
EXTENDS Listing

\* Retrying disabled, the default, the smallest, and more than the ladder has.
RetrySettings == {-1, 0, 1, 5}

\* One second, longer than the first wait of the ladder and shorter than the last
\* ones; and 32 seconds, which are negative in a Duration of eight bits.
SomeHeaders ==
  {[form |-> "seconds", value |-> 1], [form |-> "seconds", value |-> 32]}

\* Fewer records than a page may hold, or as many, and one that cannot be converted.
SomeListings == {<<TRUE>>, <<TRUE, TRUE>>, <<TRUE, FALSE>>}

\* Without a cap either way, and as many pages as a listing has records.
SomeCaps == {-1, 0, 2}

\* Calls of many retries are combined with the shortest listing only.
SmallWalkInit == WalkInit /\ (setting \in {0, 5} => Len(listing) = 1)
SmallWalkSpec == SmallWalkInit /\ [][WalkNext]_listingVars /\ WF_listingVars(WalkStep)
=============================================================================
