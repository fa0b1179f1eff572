----------------------------- MODULE MCSynthesis -----------------------------
\* Small instances of Synthesis.
EXTENDS Synthesis, TLC

SynthesisSymmetry ==
  Permutations(Calls) \cup Permutations(Reviewers) \cup Permutations(Runners)
    \cup Permutations(Turns)
=============================================================================
