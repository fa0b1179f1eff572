------------------------------ MODULE Synthesis ------------------------------
(***************************************************************************)
(* From a staged job to its audio: decisions of reviewers that dispatch    *)
(* synthesis (podcaster/orchestration.py, review.py), executions of the    *)
(* synthesis runner that consume its queue (job_runner.py, tts_pool.py,    *)
(* tts.py), and the lock both pipelines share (pipeline_lock.py).          *)
(*                                                                         *)
(* Every write of the manifest is a conditional update of the latest one;  *)
(* what an execution decided on before may be stale by then.               *)
(***************************************************************************)
EXTENDS Generation

CONSTANTS
  Reviewers,      \* processes of a decision
  Runners,        \* executions of the synthesis runner
  Messages,       \* messages of the synthesis queue; the first is the dispatch
  FirstMessage,
  Segments,       \* segments of a script
  MaxRetries,     \* PODCASTER_TTS_MAX_RETRIES
  MaxTransient,   \* EXACT_REVIEW_TRANSIENT_RETRIES
  MaxDequeue,     \* MAX_DEQUEUE_COUNT
  MaxFaults       \* bound: faults, and jobs queued again, of a behaviour

ASSUME SynthesisAssumption ==
  /\ FirstMessage \in Messages
  /\ Runners \cap {"none", "queued", "gone"} = {}

VARIABLES
  review,   \* each decision: where it is, and the outcome of its send
  exec,     \* each execution of the runner
  message,  \* each message: "none", "queued", "gone" or who holds it, and its count
  bought,   \* executions that called the provider (for the properties)
  late,     \* provider calls that began after a revocation (for the properties)
  faults

synVars == <<review, exec, message, bought, late>>
vars == <<genVars, synVars, faults>>

Dispatchable == {"dispatching", "enqueued", "unknown"}
\* Where the queue stands once a dispatch was requested.
Dispatched == job.queue \in Dispatchable \cup {"not_configured"}

IdleExec == [at |-> "idle", msg |-> FirstMessage, sound |-> FALSE, seg |-> 0, tries |-> 0,
             soft |-> 0, called |-> FALSE]

Doing(x, at) == exec[x].at = at
Leads(x, at) == exec' = [exec EXCEPT ![x].at = at]
Holds(x) == message[exec[x].msg].at = x
\* validate_review_snapshot and validate_review_binding: approved, and the artifacts are
\* still the ones that were reviewed.
StillBound == job.approval = "approved" /\ ~job.audio
Claimed(x) == job.claim = x /\ job.claimed = "started"
Revoked == job.approval = "rejected" /\ Dispatched

-----------------------------------------------------------------------------
(* Mutants: plausible mistakes in the code below.                          *)

\* The claim is not looked at.
ClaimRegardless(x) ==
  /\ Doing(x, "claim")
  /\ IF StillBound /\ job.queue \in Dispatchable
       THEN job' = [job EXCEPT !.claim = x, !.claimed = "started"] /\ Leads(x, "check")
       ELSE Leads(x, "dispose") /\ UNCHANGED job
  /\ UNCHANGED <<review, message, bought, late>>

\* A failed attempt is repeated without looking at the approval again.
RetryWithoutCheck(x, again) == [again EXCEPT !.at = "call"]

\* The completion is bound to the claim alone.
CompleteRegardless(x) ==
  /\ Doing(x, "commit")
  /\ IF Claimed(x)
       THEN /\ job' = [job EXCEPT !.claimed = "completed", !.audio = TRUE, !.runner = "completed"]
            /\ Leads(x, "read")
       ELSE Leads(x, "error") /\ UNCHANGED job
  /\ UNCHANGED <<review, message, bought, late>>

-----------------------------------------------------------------------------
(* Decisions (process_review_decision).                                    *)

\* Before the audio exists an approval consumes the one dispatch; a rejection revokes,
\* whenever it comes.  Decisions on existing audio do not touch the synthesis.
RecordApproval(r) ==
  /\ review[r].at = "idle"
  /\ ~job.audio /\ job.queue = "awaiting_review"
  /\ job' = [job EXCEPT !.approval = "approved", !.queue = "dispatching", !.owner = r]
  /\ review' = [review EXCEPT ![r].at = "send"]
  /\ UNCHANGED <<exec, message, bought, late>>

RecordRejection(r) ==
  /\ review[r].at = "idle"
  /\ ~job.audio /\ job.queue # "none"
  /\ job' = [job EXCEPT !.approval = "rejected"]
  /\ review' = [review EXCEPT ![r].at = "done"]
  /\ UNCHANGED <<exec, message, bought, late>>

\* The intent is stored; the send is never repeated, whatever comes of it.
SendDispatch(r) ==
  /\ review[r].at = "send"
  /\ \E status \in {"enqueued", "not_configured", "unknown"}, sent \in BOOLEAN :
       /\ status = "enqueued" => sent
       /\ status = "not_configured" => ~sent
       /\ message' = IF sent THEN [message EXCEPT ![FirstMessage].at = "queued"] ELSE message
       /\ review' = [review EXCEPT ![r] = [at |-> "finish", status |-> status]]
  /\ UNCHANGED <<job, exec, bought, late>>

FinishDispatch(r) ==
  /\ review[r].at = "finish"
  /\ job' = IF job.owner = r THEN [job EXCEPT !.queue = review[r].status] ELSE job
  /\ review' = [review EXCEPT ![r] = [at |-> "done", status |-> "none"]]
  /\ UNCHANGED <<exec, message, bought, late>>

-----------------------------------------------------------------------------
(* An execution of the runner (process_message, run_synthesis).            *)

\* The manifest is read here, and validated after the lock is claimed.  A job that has
\* its audio gets its video, if it has none.
Receive(x, m) ==
  /\ Doing(x, "idle")
  /\ message[m].at = "queued"
  /\ message' = [message EXCEPT ![m] = [at |-> x, count |-> @.count + 1]]
  /\ exec' = [exec EXCEPT ![x] =
       [IdleExec EXCEPT !.at = IF job.runner = "completed" THEN "dispose" ELSE "lock",
                        !.msg = m, !.sound = StillBound]]
  /\ UNCHANGED <<job, review, bought, late>>

\* The lock is re-entrant for the pipeline that holds it, and never released.
ClaimAudioLock(x) ==
  /\ Doing(x, "lock")
  /\ IF job.lock = "video" THEN Leads(x, "dispose") /\ UNCHANGED job
       ELSE /\ job' = [job EXCEPT !.lock = "audio"]
            /\ Leads(x, IF exec[x].sound THEN "claim" ELSE "dispose")
  /\ UNCHANGED <<review, message, bought, late>>

ClaimSynthesis(x) ==
  /\ Doing(x, "claim")
  /\ IF StillBound /\ job.claimed = "none" /\ job.queue \in Dispatchable
       THEN job' = [job EXCEPT !.claim = x, !.claimed = "started"] /\ Leads(x, "check")
       ELSE Leads(x, "dispose") /\ UNCHANGED job
  /\ UNCHANGED <<review, message, bought, late>>

\* before_provider: ahead of every attempt of every segment, and after the last one.
BeforeProvider(x) ==
  /\ Doing(x, "check")
  /\ Leads(x, IF ~(StillBound /\ Claimed(x)) THEN "error"
              ELSE IF exec[x].seg < Segments THEN "call" ELSE "commit")
  /\ UNCHANGED <<job, review, message, bought, late>>

\* An attempt that fails is repeated from the check.
Again(x, again) == [again EXCEPT !.at = "check"]

\* One attempt of one segment, one segment after the other: a rejection by rate (429) is
\* retried MaxRetries times, a timeout or an error of the server MaxTransient times.
CallProvider(x) ==
  /\ Doing(x, "call")
  /\ bought' = IF exec[x].called THEN bought ELSE bought + 1
  /\ late' = IF Revoked THEN late + 1 ELSE late
  /\ LET e == [exec[x] EXCEPT !.called = TRUE]
     IN \/ exec' = [exec EXCEPT ![x] = [e EXCEPT !.at = "check", !.seg = @ + 1, !.tries = 0,
                                                !.soft = 0]]
        \/ /\ e.tries < MaxRetries
           /\ exec' = [exec EXCEPT ![x] = Again(x, [e EXCEPT !.tries = @ + 1])]
        \/ /\ e.soft < MaxTransient
           /\ exec' = [exec EXCEPT ![x] = Again(x, [e EXCEPT !.tries = @ + 1, !.soft = @ + 1])]
        \/ exec' = [exec EXCEPT ![x] = [e EXCEPT !.at = "error"]]
  /\ UNCHANGED <<job, review, message>>

\* The files are mixed and stored, or the mix is empty.
PutFails(x) ==
  /\ Doing(x, "commit")
  /\ Leads(x, "error")
  /\ UNCHANGED <<job, review, message, bought, late>>

Complete(x) ==
  /\ Doing(x, "commit")
  /\ IF Claimed(x) /\ job.approval = "approved"
       THEN /\ job' = [job EXCEPT !.claimed = "completed", !.audio = TRUE, !.runner = "completed"]
            /\ Leads(x, "read")
       ELSE Leads(x, "error") /\ UNCHANGED job
  /\ UNCHANGED <<review, message, bought, late>>

\* The completed manifest is read back, and the video queued; a failure to queue is
\* logged only.
ReadBack(x) ==
  /\ Doing(x, "read")
  /\ Leads(x, "dispose")
  /\ UNCHANGED <<job, review, message, bought, late>>

\* What the provider may have been paid for stays consumed.
MarkUnknown(x) ==
  /\ Doing(x, "error")
  /\ job' = IF Claimed(x) THEN [job EXCEPT !.claimed = "unknown"] ELSE job
  /\ Leads(x, "fail")
  /\ UNCHANGED <<review, message, bought, late>>

\* The state of the runner is overwritten, whatever it is.
RecordRunnerFailed(x) ==
  /\ Doing(x, "fail")
  /\ job' = [job EXCEPT !.runner = "failed"]
  /\ Leads(x, "keep")
  /\ UNCHANGED <<review, message, bought, late>>

\* A message is deleted when the work is done or cannot be, and at the last delivery.
Dispose(x) ==
  /\ exec[x].at \in {"dispose", "keep"}
  /\ message' = IF Holds(x) /\ (Doing(x, "dispose") \/ message[exec[x].msg].count >= MaxDequeue)
                  THEN [message EXCEPT ![exec[x].msg].at = "gone"]
                  ELSE message
  /\ exec' = [exec EXCEPT ![x] = IdleExec]
  /\ UNCHANGED <<job, review, bought, late>>

-----------------------------------------------------------------------------
\* The video pipeline admits completed audio alone, and takes the lock over then
\* (video/job_runner.py).
VideoTakesLock ==
  /\ job.audio /\ job.claimed = "completed" /\ job.approval = "approved"
  /\ job.lock \in {"none", "video"} \/ (job.lock = "audio" /\ job.runner = "completed")
  /\ job' = [job EXCEPT !.lock = "video"]
  /\ UNCHANGED synVars

\* An operator queues the job again.
Requeue(m) ==
  /\ Dispatched
  /\ m # FirstMessage /\ message[m].at = "none"
  /\ message' = [message EXCEPT ![m].at = "queued"]
  /\ UNCHANGED <<job, review, exec, bought, late>>

-----------------------------------------------------------------------------
(* Faults.                                                                 *)

Reappear(m) ==
  /\ message[m].at \in Runners
  /\ message' = [message EXCEPT ![m].at = "queued"]
  /\ UNCHANGED <<job, review, exec, bought, late>>

\* The claim of the lock fails on storage: the message is deleted as skipped.
LockFails(x) ==
  /\ Doing(x, "lock")
  /\ Leads(x, "dispose")
  /\ UNCHANGED <<job, review, message, bought, late>>

\* The answer of the claim is lost: no handler marks it, and the execution ends.
ClaimLost(x) ==
  /\ Doing(x, "claim")
  /\ StillBound /\ job.claimed = "none" /\ job.queue \in Dispatchable
  /\ job' = [job EXCEPT !.claim = x, !.claimed = "started"]
  /\ exec' = [exec EXCEPT ![x] = IdleExec]
  /\ UNCHANGED <<review, message, bought, late>>

\* The manifest cannot be read, or the answer of its update is lost.
ReadBackFails(x) ==
  /\ Doing(x, "read")
  /\ Leads(x, "error")
  /\ UNCHANGED <<job, review, message, bought, late>>

RunnerDies(x) ==
  /\ ~Doing(x, "idle")
  /\ exec' = [exec EXCEPT ![x] = IdleExec]
  /\ UNCHANGED <<job, review, message, bought, late>>

ReviewDies(r) ==
  /\ review[r].at \in {"send", "finish"}
  /\ review' = [review EXCEPT ![r] = [at |-> "done", status |-> "none"]]
  /\ UNCHANGED <<job, exec, message, bought, late>>

-----------------------------------------------------------------------------
Init ==
  /\ GenInit
  /\ review = [r \in Reviewers |-> [at |-> "idle", status |-> "none"]]
  /\ exec = [x \in Runners |-> IdleExec]
  /\ message = [m \in Messages |-> [at |-> "none", count |-> 0]]
  /\ bought = 0 /\ late = 0
  /\ faults = 0

SynNext ==
  \/ \E r \in Reviewers :
       RecordApproval(r) \/ RecordRejection(r) \/ SendDispatch(r) \/ FinishDispatch(r)
  \/ \E x \in Runners :
       \/ \E m \in Messages : Receive(x, m)
       \/ ClaimAudioLock(x) \/ ClaimSynthesis(x)
       \/ BeforeProvider(x) \/ CallProvider(x) \/ PutFails(x)
       \/ Complete(x) \/ ReadBack(x) \/ MarkUnknown(x) \/ RecordRunnerFailed(x) \/ Dispose(x)
  \/ VideoTakesLock

SynFault ==
  \/ \E m \in Messages : Reappear(m) \/ Requeue(m)
  \/ \E x \in Runners : LockFails(x) \/ ClaimLost(x) \/ ReadBackFails(x) \/ RunnerDies(x)
  \/ \E r \in Reviewers : ReviewDies(r)

OfJob == UNCHANGED <<draft, clock, call, reserved, slot, filtered, receipt>>

Next ==
  \/ (GenNext /\ UNCHANGED synVars) /\ UNCHANGED faults
  \/ (SynNext /\ OfJob) /\ UNCHANGED faults
  \/ /\ faults < MaxFaults /\ faults' = faults + 1
     /\ (GenFault /\ UNCHANGED synVars) \/ (SynFault /\ OfJob)

Spec == Init /\ [][Next]_vars

-----------------------------------------------------------------------------
\* However often the message is delivered, the job queued again, an execution killed or
\* an answer lost: one execution at most ever calls the paid provider for a job.
TtsByOne == bought <= 1

\* A revocation stops the synthesis: only the attempt that had passed its check before
\* the decision still reaches the provider, no retry and no later segment does.
RevocationStopsCalls == late <= 1

\* A revoked dispatch is never completed and never approved again.
RevokedStaysRevoked ==
  [][Revoked => job'.approval = "rejected" /\ job'.audio = job.audio]_job

=============================================================================
