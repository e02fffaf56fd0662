------------------------- MODULE AttributionPromise -------------------------
(***************************************************************************)
(* What the attribution pass promises its reader: each eligible pool is    *)
(* decided once, an account's positions are written at one moment and      *)
(* never again, nothing is written of a pool's walk that failed, and a     *)
(* pass that returns without an error has decided every pool.              *)
(***************************************************************************)
EXTENDS Integers

CONSTANTS Pools, Accounts

VARIABLES pending,     \* eligible pools not decided yet
          attributed,  \* pools whose holders are on file
          failed,      \* pools listed as failed
          onFile,      \* the <<account, pool>> of every position written
          returned     \* "no", "ok" or "error"

vars == <<pending, attributed, failed, onFile, returned>>

Init ==
  /\ pending \subseteq Pools
  /\ attributed = {} /\ failed = {} /\ onFile = {}
  /\ returned = "no"

AccountsOnFile == {position[1] : position \in onFile}
Strangers == (Accounts \ AccountsOnFile) \X Pools

\* The positions of some accounts met for the first time are written.
Attribute(p) ==
  /\ p \in pending
  /\ pending' = pending \ {p}
  /\ attributed' = attributed \cup {p}
  /\ onFile \subseteq onFile' /\ onFile' \subseteq onFile \cup Strangers
  /\ UNCHANGED <<failed, returned>>

Fail(p) ==
  /\ p \in pending
  /\ pending' = pending \ {p}
  /\ failed' = failed \cup {p}
  /\ UNCHANGED <<attributed, onFile, returned>>

\* The pools never reached are labelled, and the pass returns normally.
GiveUp ==
  /\ failed' = failed \cup pending
  /\ pending' = {}
  /\ returned' = "ok"
  /\ UNCHANGED <<attributed, onFile>>

\* A write failed: the pass returns an error with pools undecided.
Abort ==
  /\ returned' = "error"
  /\ onFile \subseteq onFile' /\ onFile' \subseteq onFile \cup Strangers
  /\ UNCHANGED <<pending, attributed, failed>>

Next ==
  /\ returned = "no"
  /\ \/ \E p \in pending : Attribute(p) \/ Fail(p)
     \/ GiveUp
     \/ Abort

Spec == Init /\ [][Next]_vars
=============================================================================
