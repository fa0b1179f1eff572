----------------------------- MODULE Generation -----------------------------
(***************************************************************************)
(* Staging one job: calls of /api/generate for one and the same content    *)
(* (podcaster/api.py, jobs.py run_generation_job), the receipt of the      *)
(* upstream dispatch (dispatch_receipts.py) and the job's entry in the     *)
(* ledger of the month (costs.py).                                         *)
(*                                                                         *)
(* A call reserves the replay inputs, then a slot in the ledger, drafts    *)
(* (Drafting), and stages the manifest.  Blobs are written one at a time;  *)
(* a call may die between any two of its writes.                           *)
(***************************************************************************)
EXTENDS Drafting

CONSTANTS
  Calls,        \* calls of /api/generate
  NoCall,
  Results,      \* results an upstream dispatch registers
  NoReviewer,   \* owner of a dispatch of synthesis that was not asked for
  NoRunner      \* owner of a synthesis claim that was not made

ASSUME GenerationAssumption ==
  /\ NoCall \notin Calls
  /\ Results \subseteq {"pending", "accepted", "blocked", "failed"}

VARIABLES
  call,     \* each call: where it is, and why its draft ended
  reserved, \* the call whose replay.json and inputs are stored
  slot,     \* the job's entry in the ledger: "none", "reserved", "final"
  filtered, \* filter-failure.json exists
  receipt,  \* the upstream dispatch: its result, and whether the job arrived
  job       \* the manifest

genVars == <<draft, clock, call, reserved, slot, filtered, receipt, job>>

Terminal == {"blocked", "failed"}

\* queue, owner: generation.synthesis_queue; approval: review.synthesis_approval;
\* claim: generation.synthesis_claim; audio: audio_mode is "synthesized"; runner, video:
\* synthesis_runner and video_runner; lock: generation.pipeline_lock.
NoJob == [queue |-> "none", owner |-> NoReviewer, approval |-> "pending", claim |-> NoRunner,
          claimed |-> "none", audio |-> FALSE, runner |-> "none", lock |-> "none",
          video |-> FALSE]

At(g, at) == call[g].at = at
Goto(g, at) == call' = [call EXCEPT ![g] = [at |-> at, why |-> "none"]]
Because(g, at, why) == call' = [call EXCEPT ![g] = [at |-> at, why |-> why]]

-----------------------------------------------------------------------------
(* Mutants: plausible mistakes in the code below.                          *)

\* The replay inputs go first: another call may start before the slot is dropped.
ReleaseReplayFirst(g) ==
  \/ /\ At(g, "drop")
     /\ reserved' = NoCall
     /\ Because(g, "inputs", call[g].why)
     /\ UNCHANGED <<draft, clock, slot, filtered, receipt, job>>
  \/ /\ At(g, "inputs")
     /\ slot' = "none"
     /\ Goto(g, "failed")
     /\ UNCHANGED <<draft, clock, reserved, filtered, receipt, job>>

-----------------------------------------------------------------------------
(* The receipt of the upstream dispatch.                                   *)

\* The first result is kept; only a pending one is replaced, also after the arrival.
RegisterIntent(res) ==
  /\ receipt.result \in {"none", "pending"} \ {res}
  /\ receipt' = [receipt EXCEPT !.result = res]
  /\ UNCHANGED <<draft, clock, call, reserved, slot, filtered, job>>

RequireArrivalEligible(g) ==
  /\ At(g, "idle")
  /\ Goto(g, IF receipt.result \in {"none"} \cup Terminal THEN "conflict" ELSE "look")
  /\ UNCHANGED <<draft, clock, reserved, slot, filtered, receipt, job>>

\* The job is staged whatever the receipt says by now.
RecordArrival(g) ==
  /\ At(g, "arrive")
  /\ IF receipt.result \in Terminal
       THEN Goto(g, "conflict") /\ UNCHANGED receipt
       ELSE Goto(g, "accepted") /\ receipt' = [receipt EXCEPT !.arrived = TRUE]
  /\ UNCHANGED <<draft, clock, reserved, slot, filtered, job>>

-----------------------------------------------------------------------------
(* The reservation (_reserve_replay_inputs, reserve_monthly_budget).       *)

Look(g) ==
  /\ At(g, "look")
  /\ Goto(g, IF filtered \/ job.queue # "none" THEN "conflict" ELSE "reserve")
  /\ UNCHANGED <<draft, clock, reserved, slot, filtered, receipt, job>>

\* create_only
Reserve(g) ==
  /\ At(g, "reserve")
  /\ IF reserved # NoCall
       THEN Goto(g, "conflict") /\ UNCHANGED reserved
       ELSE Goto(g, "budget") /\ reserved' = g
  /\ UNCHANGED <<draft, clock, slot, filtered, receipt, job>>

\* A job that has an entry is not held back by the others of the month.
ReserveBudget(g) ==
  /\ At(g, "budget")
  /\ \/ /\ slot = "none"
        /\ Because(g, "inputs", "over")
        /\ UNCHANGED <<draft, clock, slot>>
     \/ /\ slot' = "reserved"
        /\ Goto(g, "draft")
        /\ \E m \in Modes : draft' = [NoDraft EXCEPT !.at = "write", !.mode = m]
        /\ clock' = "none"
  /\ UNCHANGED <<reserved, filtered, receipt, job>>

-----------------------------------------------------------------------------
(* The end of the draft.                                                   *)

EndDraft(g) ==
  /\ At(g, "draft") /\ draft.at \in Ended
  /\ IF draft.at = "done" THEN Goto(g, "recheck")
       ELSE Because(g, IF draft.at = "filter" THEN "mark" ELSE "drop", draft.at)
  /\ draft' = NoDraft /\ clock' = "none"
  /\ UNCHANGED <<reserved, slot, filtered, receipt, job>>

\* The content is refused for good; the first marker stays.
MarkFiltered(g) ==
  /\ At(g, "mark")
  /\ filtered' = TRUE
  /\ Because(g, "drop", "filter")
  /\ UNCHANGED <<draft, clock, reserved, slot, receipt, job>>

\* The ledger's slot first, while the replay inputs keep others out; replay.json last,
\* and not at all for filtered content.
ReleaseFailedReservation(g) ==
  \/ /\ At(g, "drop")
     /\ slot' = "none"
     /\ IF call[g].why = "filter" THEN Goto(g, "failed") ELSE Because(g, "inputs", call[g].why)
     /\ UNCHANGED <<draft, clock, reserved, filtered, receipt, job>>
  \/ /\ At(g, "inputs")
     /\ reserved' = NoCall
     /\ Goto(g, IF call[g].why = "throttled" THEN "retry" ELSE "failed")
     /\ UNCHANGED <<draft, clock, slot, filtered, receipt, job>>

\* A storage error, before or after the write: no retry is advertised.
ReleaseFails(g) ==
  /\ \/ At(g, "drop") /\ slot' \in {slot, "none"} /\ UNCHANGED reserved
     \/ At(g, "inputs") /\ reserved' \in {reserved, NoCall} /\ UNCHANGED slot
  /\ Goto(g, "failed")
  /\ UNCHANGED <<draft, clock, filtered, receipt, job>>

-----------------------------------------------------------------------------
(* Staging.                                                                *)

\* The marker is looked at again before an artifact is written.
Recheck(g) ==
  /\ At(g, "recheck")
  /\ Goto(g, IF filtered THEN "conflict" ELSE "stage")
  /\ UNCHANGED <<draft, clock, reserved, slot, filtered, receipt, job>>

Stage(g) ==
  /\ At(g, "stage")
  /\ job' = [NoJob EXCEPT !.queue = "staging"]
  /\ Goto(g, "finalize")
  /\ UNCHANGED <<draft, clock, reserved, slot, filtered, receipt>>

FinalizeBudget(g) ==
  /\ At(g, "finalize")
  /\ slot' = "final"
  /\ Goto(g, "finish")
  /\ UNCHANGED <<draft, clock, reserved, filtered, receipt, job>>

\* The manifest may be approved only now.
FinishStaging(g) ==
  /\ At(g, "finish")
  /\ job' = [job EXCEPT !.queue = "awaiting_review"]
  /\ Goto(g, "arrive")
  /\ UNCHANGED <<draft, clock, reserved, slot, filtered, receipt>>

\* The call dies, or raises where nothing cleans up after it.
CallDies(g) ==
  /\ call[g].at \notin {"idle", "conflict", "failed", "retry", "accepted", "dead"}
  /\ Goto(g, "dead")
  /\ IF At(g, "draft") THEN draft' = NoDraft /\ clock' = "none" ELSE UNCHANGED draftVars
  /\ UNCHANGED <<reserved, slot, filtered, receipt, job>>

-----------------------------------------------------------------------------
GenInit ==
  /\ draft = NoDraft /\ clock = "none"
  /\ call = [g \in Calls |-> [at |-> "idle", why |-> "none"]]
  /\ reserved = NoCall /\ slot = "none" /\ filtered = FALSE
  /\ receipt = [result |-> "none", arrived |-> FALSE]
  /\ job = NoJob

GenNext ==
  \/ DraftStep /\ UNCHANGED <<call, reserved, slot, filtered, receipt, job>>
  \/ \E res \in Results : RegisterIntent(res)
  \/ \E g \in Calls :
       \/ RequireArrivalEligible(g) \/ RecordArrival(g)
       \/ Look(g) \/ Reserve(g) \/ ReserveBudget(g)
       \/ EndDraft(g) \/ MarkFiltered(g) \/ ReleaseFailedReservation(g)
       \/ Recheck(g) \/ Stage(g) \/ FinalizeBudget(g) \/ FinishStaging(g)

GenFault == \E g \in Calls : ReleaseFails(g) \/ CallDies(g)

-----------------------------------------------------------------------------
\* What the calls leave behind is what they tell: a job that may be reviewed holds its
\* replay inputs and its entry in the ledger, however many calls for the same content
\* failed, were throttled or died around it; a dispatch arrived only for such a job; and
\* whoever is told to retry has given its reservation up.
ReservationIsHonest ==
  /\ job.queue \notin {"none", "staging"} => slot = "final" /\ reserved # NoCall
  /\ receipt.arrived => job.queue \notin {"none", "staging"}
  /\ \A g \in Calls : At(g, "retry") => reserved # g

=============================================================================
