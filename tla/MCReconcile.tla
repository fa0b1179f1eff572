---------------------------- MODULE MCReconcile ----------------------------
(* Model values and bounded inputs for Reconcile. *)
EXTENDS Reconcile, TLC

\* What a poll finds: a hidden item that stays pending, or no answer.
MCReadings ==
  {[result |-> "pending_provider", item |-> NoItem, native |-> "hidden",
    readback |-> FALSE, proof |-> FALSE],
   [result |-> "publication_unknown", item |-> NoItem, native |-> "none",
    readback |-> FALSE, proof |-> FALSE]}
=============================================================================
