----------------------------- MODULE Publication -----------------------------
(***************************************************************************)
(* What the distribution of one week promises, whatever is retried, lost   *)
(* or repeated underneath (docs/ops/distribution-terminal-truth.md):       *)
(*                                                                         *)
(*   - a provider gets the media once, and makes it public afterwards;     *)
(*   - a leg is called public when the provider shows it so, and then for  *)
(*     good, whatever is recovered;                                        *)
(*   - a leg that was given up is taken up again by a recovery only, and   *)
(*     only when every leg of the week was;                                *)
(*   - the week is called published when every leg is public, not before,  *)
(*     and stays so.                                                       *)
(***************************************************************************)
CONSTANT Legs  \* the providers requested for the week

VARIABLES
  media,    \* what each provider has: "absent", "hidden" or "public"
  verdict,  \* what is recorded of each leg: "open", "public" or "closed"
  week      \* the week is recorded as published

vars == <<media, verdict, week>>

Init ==
  /\ media = [p \in Legs |-> "absent"]
  /\ verdict = [p \in Legs |-> "open"]
  /\ week = FALSE

Upload(p) ==
  /\ media[p] = "absent"
  /\ media' = [media EXCEPT ![p] = "hidden"]
  /\ UNCHANGED <<verdict, week>>

Promote(p) ==
  /\ media[p] = "hidden"
  /\ media' = [media EXCEPT ![p] = "public"]
  /\ UNCHANGED <<verdict, week>>

\* A late request may still make a leg public that was given up; its verdict
\* stays.
Conclude(p) ==
  /\ verdict[p] = "open"
  /\ \E v \in {"closed"} \cup (IF media[p] = "public" THEN {"public"} ELSE {}) :
       verdict' = [verdict EXCEPT ![p] = v]
  /\ UNCHANGED <<media, week>>

Announce ==
  /\ \A p \in Legs : verdict[p] = "public"
  /\ week' = TRUE
  /\ UNCHANGED <<media, verdict>>

\* An operator has the week tried again.  What the providers have stays, so
\* that no leg is uploaded a second time.
Reopen ==
  /\ \A p \in Legs : verdict[p] = "closed"
  /\ verdict' = [p \in Legs |-> "open"]
  /\ UNCHANGED <<media, week>>

Next == (\E p \in Legs : Upload(p) \/ Promote(p) \/ Conclude(p)) \/ Announce \/ Reopen

Spec == Init /\ [][Next]_vars
=============================================================================
