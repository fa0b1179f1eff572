----------------------------- MODULE MCDispatch -----------------------------
(* Model values and bounded inputs for Dispatch. *)
EXTENDS Dispatch, TLC

\* Whatever the dispatcher records (Outcome) is a reading.
MCReadings == Reading

MCItems == 1..MaxIntents

WorkerSymmetry == Permutations(Workers)
=============================================================================
