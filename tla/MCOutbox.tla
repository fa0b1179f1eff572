------------------------------ MODULE MCOutbox ------------------------------
(* Model values and bounded inputs for Outbox. *)
EXTENDS Outbox, TLC

Seen(result, item, native, readback) ==
  [result |-> result, item |-> item, native |-> native,
   readback |-> readback, proof |-> readback]

\* The verifications the worker and an operator record: a pending or public
\* readback of the item, an unknown or poisoned outcome without one, a failed
\* readback of it, and a claim of publicity without proof.
MCReadings ==
  {Seen("publication_unknown", NoItem, "none", FALSE),
   Seen("poisoned", NoItem, "none", FALSE),
   Seen("externally_verified_public", NoItem, "none", FALSE)}
  \cup {Seen("pending_provider", i, "hidden", TRUE) : i \in Items}
  \cup {Seen("externally_verified_public", i, "public", TRUE) : i \in Items}
  \cup {Seen("failed_terminal", i, "hidden", TRUE) : i \in Items}

\* The mutation protocol alone; an item whose media is not reviewed waits.
MutationSpec == Init /\ [][MutationNext]_vars

WorkerSymmetry == Permutations(Workers)
=============================================================================
