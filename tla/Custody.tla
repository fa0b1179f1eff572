------------------------------- MODULE Custody -------------------------------
(***************************************************************************)
(* What the handoff of a rendered video promises (podcaster/video/         *)
(* job_runner.py, video/ownership.py, distribution_outbox.py), whatever    *)
(* deliveries of the job stall, die or are taken over, and however often   *)
(* the file is rendered:                                                   *)
(*                                                                         *)
(*   - a job that is reviewed first gets one file, that is kept before it  *)
(*     is handed over, is never replaced, and never deleted;               *)
(*   - a job that is not for review only is announced, once, and only when *)
(*     its file was handed over;                                           *)
(*   - a job that is published directly is published by one delivery, and  *)
(*     never by the outbox as well;                                        *)
(*   - a private job is called complete only with its file in the outbox.  *)
(***************************************************************************)
EXTENDS Naturals

CONSTANTS
  Files,
  NoFile,
  Publishers

VARIABLES
  route,      \* reviewed and private, reviewed and routed, or direct
  kept,       \* the files that are stored
  handed,     \* the file of the outbox item, or NoFile
  announced,  \* notifications sent
  published,  \* who called a provider directly
  status

vars == <<route, kept, handed, announced, published, status>>

Init ==
  /\ route \in {"private", "routed", "direct"}
  /\ kept = {} /\ handed = NoFile
  /\ announced = 0 /\ published = {} /\ status = "none"

Keep(f) ==
  /\ kept' = kept \cup {f}
  /\ UNCHANGED <<route, handed, announced, published, status>>

Discard(f) ==
  /\ f # handed
  /\ kept' = kept \ {f}
  /\ UNCHANGED <<route, handed, announced, published, status>>

HandOver(f) ==
  /\ route # "direct" /\ handed = NoFile /\ f \in kept
  /\ handed' = f
  /\ UNCHANGED <<route, kept, announced, published, status>>

Announce ==
  /\ route = "routed" /\ handed # NoFile /\ announced = 0
  /\ announced' = 1
  /\ UNCHANGED <<route, kept, handed, published, status>>

Publish(p) ==
  /\ route = "direct" /\ published = {}
  /\ published' = {p}
  /\ UNCHANGED <<route, kept, handed, announced, status>>

\* A failure may be recorded at any time, by whoever failed.
Record(s) ==
  /\ s = "completed" /\ route = "private" => handed # NoFile
  /\ s = "completed" => route # "routed"
  /\ status' = s
  /\ UNCHANGED <<route, kept, handed, announced, published>>

Next ==
  \/ \E f \in Files : Keep(f) \/ Discard(f) \/ HandOver(f)
  \/ Announce
  \/ \E p \in Publishers : Publish(p)
  \/ \E s \in {"completed", "failed"} : Record(s)

Spec == Init /\ [][Next]_vars
=============================================================================
