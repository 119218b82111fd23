--------------------------- MODULE ShortestScript ---------------------------
(***************************************************************************)
(* What a caller of diff_utils::compute_diff gets: one step after which    *)
(* there is a script, some shortest one that edits the first sequence into *)
(* the second.  Which of the shortest ones is not promised.                *)
(***************************************************************************)
EXTENDS EditGraph

CONSTANTS MaxA, MaxB

VARIABLES aSize, bSize, match, answered, script

vars == <<aSize, bSize, match, answered, script>>

Init ==
  /\ aSize \in 0 .. MaxA
  /\ bSize \in 0 .. MaxB
  /\ match \in SUBSET (Indexes(aSize) \X Indexes(bSize))
  /\ answered = FALSE
  /\ script = EmptyScript

ComputeDiff ==
  /\ ~answered
  /\ answered' = TRUE
  /\ script' \in Scripts
  /\ Rebuilds(script', match, aSize, bSize)
  /\ IsShortest(script', match, aSize, bSize)
  /\ UNCHANGED <<aSize, bSize, match>>

Spec == Init /\ [][ComputeDiff]_vars
=============================================================================
