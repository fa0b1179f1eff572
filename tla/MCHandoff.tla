----------------------------- MODULE MCHandoff -----------------------------
(* Model values and symmetries for Handoff. *)
EXTENDS Handoff, TLC

HandoffSymmetry ==
  Permutations(Deliveries) \cup Permutations(Cleaners) \cup Permutations(Contents)
=============================================================================
