------------------------------ MODULE Recording ------------------------------
(***************************************************************************)
(* What the recording fan-out promises the job (podcaster/video/           *)
(* recorder.py and editor.py), whatever recorders, editors and deadlines   *)
(* do to each other:                                                       *)
(*                                                                         *)
(*   - each clip gets one outcome, and keeps it until the job is complete: *)
(*     a recording is not lost, and no card takes its place;               *)
(*   - the job is completed when every clip has a picture to show, a       *)
(*     recording or a card, and not before;                                *)
(*   - only then may clips be taken away, and written by who comes late.   *)
(***************************************************************************)
CONSTANT Clips

VARIABLES
  outcome,   \* per clip: "open", "recorded", "card", or "bare", without a picture
  complete

vars == <<outcome, complete>>

Outcomes == {"recorded", "card", "bare"}

Init == outcome = [c \in Clips |-> "open"] /\ complete = FALSE

Conclude(c) ==
  /\ outcome[c] = "open"
  /\ \E o \in Outcomes : outcome' = [outcome EXCEPT ![c] = o]
  /\ UNCHANGED complete

Complete ==
  /\ ~complete
  /\ \A c \in Clips : outcome[c] \in {"recorded", "card"}
  /\ complete' = TRUE
  /\ UNCHANGED outcome

Discard ==
  /\ complete
  /\ outcome' \in [Clips -> Outcomes \cup {"open"}]
  /\ UNCHANGED complete

Next == (\E c \in Clips : Conclude(c)) \/ Complete \/ Discard

Spec == Init /\ [][Next]_vars
=============================================================================
