---------------------------- MODULE RunDirectory ----------------------------
(***************************************************************************)
(* What a run directory promises its readers (package comment and Manifest *)
(* of pkg/census/run.go): rows are only ever added, the manifest is        *)
(* written last and once, and nothing changes after it or after the run is *)
(* over.                                                                   *)
(***************************************************************************)
VARIABLES rows,  \* every row of every data file, tagged with its place
          seal,  \* the manifest: "none", "torn" or "whole"
          over   \* the process has ended

vars == <<rows, seal, over>>

Init == rows = {} /\ seal = "none" /\ over = FALSE

AddRows ==
  /\ seal = "none"
  /\ rows \subseteq rows'
  /\ UNCHANGED <<seal, over>>

BeginSeal ==
  /\ seal = "none"
  /\ seal' = "torn"
  /\ UNCHANGED <<rows, over>>

Seal ==
  /\ seal = "torn"
  /\ seal' = "whole"
  /\ over' = TRUE
  /\ UNCHANGED rows

End == over' = TRUE /\ UNCHANGED <<rows, seal>>

Next == ~over /\ (AddRows \/ BeginSeal \/ Seal \/ End)

Spec == Init /\ [][Next]_vars
=============================================================================
