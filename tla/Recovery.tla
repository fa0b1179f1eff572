------------------------------ MODULE Recovery ------------------------------
(***************************************************************************)
(* Which private video of a reviewed job becomes the job's video: ordinary *)
(* attempts, the epochs that may take over once their budget is spent, and *)
(* the one selection (podcaster/video/recovery.py, with the parts of       *)
(* job_runner.py and monitoring.py that drive it).                         *)
(*                                                                         *)
(* An attempt is one delivery of a video message: it receives, renders,    *)
(* stages an intent, stores its candidate, and chooses it.  A conditional  *)
(* update of the manifest is one step, and all that is read before it may  *)
(* be stale.  A lease is `live' until time passes; a heartbeat revives it. *)
(* The heartbeat that fails ends like an attempt that dies.                *)
(***************************************************************************)
EXTENDS Naturals, Sequences, FiniteSets

CONSTANTS
  Attempts,     \* deliveries, numbered in the order of their reception
  Sweeper,      \* the loop of the API
  Requester,    \* callers of /video/generate, one at a time
  Nobody,
  MaxEpochs,    \* 3 epochs are allowed to one job, 1 to the others
  MaxDequeue,   \* MAX_DEQUEUE_COUNT
  MaxMessages,  \* bound: messages ever sent
  MaxFaults     \* bound: failures, deaths and redeliveries of a live holder

ASSUME RecoveryAssumption ==
  /\ \A n \in Attempts : n \in Nat \ {0} /\ 1..n \subseteq Attempts
  /\ Nobody \notin Attempts
  /\ {MaxEpochs, MaxDequeue, MaxMessages} \subseteq Nat \ {0}
  /\ MaxFaults \in Nat

VARIABLES
  budget,   \* video-budget.json: "none", "live", or "over"
  epochs,   \* the ledger of the manifest
  pending,  \* the intent to select, of an attempt and its epoch
  chosen,   \* selected_private_output
  runner,   \* the recorded state of the runner
  clean,    \* the reviewed media are unchanged and no provider knows the job
  message,  \* the video messages, by number
  attempt,  \* program counter and locals of every attempt
  caller,   \* and of every caller
  faults

docVars == <<epochs, pending, chosen, runner>>
vars == <<budget, docVars, clean, message, attempt, caller, faults>>

Nothing == [by |-> Nobody, epoch |-> 0]
Candidate(x) == [by |-> x, epoch |-> attempt[x].epoch]

NewEpoch == [status |-> "reserved", owner |-> Nobody, live |-> FALSE, over |-> FALSE,
             sent |-> FALSE]
NewMessage(e) == [epoch |-> e, at |-> "visible", by |-> Nobody, count |-> 0]
Gone == [epoch |-> 0, at |-> "gone", by |-> Nobody, count |-> 0]
NewAttempt == [at |-> "new", msg |-> 0, epoch |-> 0]

Callers == {Sweeper, Requester}
Open == {"reserved", "dispatched", "running"}
At(x, pc) == attempt[x].at = pc
Idle == [at |-> "idle", epoch |-> 0]
Goto(x, pc) == attempt' = [attempt EXCEPT ![x].at = pc]
Ordinary(x) == attempt[x].epoch = 0
Own(x) == epochs[attempt[x].epoch]

\* The owner's lease and the deadline of its epoch hold.
Authority(x) == Own(x).owner = x /\ Own(x).live /\ ~Own(x).over

-----------------------------------------------------------------------------
(* Mutants: plausible mistakes in the code below.                          *)

\* A selector with no claim is not fenced.
CurrentUnfenced(x) == IF Ordinary(x) THEN TRUE ELSE Authority(x) /\ Own(x).status = "running"

\* A claim does not look at the status of the epoch: a late message revives it.
ClaimableEnded(x, e) ==
  /\ clean /\ chosen = Nothing
  /\ epochs[e].live => epochs[e].owner = x

\* The sweep looks at intents that were not sent only.
SweepPending(a) ==
  /\ a = Sweeper /\ caller[a].at = "idle" /\ epochs # <<>>
  /\ epochs[Len(epochs)].status \in Open /\ ~epochs[Len(epochs)].sent
  /\ caller' = [caller EXCEPT ![a] = [at |-> "observe", epoch |-> Len(epochs)]]
  /\ UNCHANGED <<budget, docVars, clean, message, attempt>>

-----------------------------------------------------------------------------
(* Authority.                                                              *)

\* assert_current, and the checks of a selector: an ordinary one needs an empty ledger.
Current(x) == IF Ordinary(x) THEN epochs = <<>> ELSE Authority(x) /\ Own(x).status = "running"

\* guard_manifest.
MayWrite(x) ==
  /\ IF Ordinary(x) THEN epochs = <<>>
                    ELSE Authority(x) /\ Own(x).status \in {"running", "selected"}
  /\ chosen \in {Nothing, Candidate(x)}

-----------------------------------------------------------------------------
(* Callers: reserve an epoch, send its message.                            *)

\* terminalize_expired_epoch.
Expired(e) ==
  IF epochs[e].over /\ epochs[e].status \in Open /\ chosen = Nothing
    THEN [epochs EXCEPT ![e].status = "terminal"] ELSE epochs

\* No execution of the predecessor runs, as the operator attested.
Quiescent == \A x \in Attempts : attempt[x].at \in {"new", "gone"}

\* reserve_epoch: the first one once the historical budget is spent, the next one only
\* when its predecessor is terminal; a pending intent is abandoned.
Reserve(a) ==
  /\ a = Requester /\ caller[a].at = "idle"
  /\ clean /\ budget = "over" /\ chosen = Nothing
  /\ \/ epochs = <<>>
     \/ /\ Len(epochs) \in 1..(MaxEpochs - 1)
        /\ epochs[Len(epochs)].status = "terminal"
        /\ Quiescent
  /\ epochs' = Append(epochs, NewEpoch)
  /\ pending' = Nothing
  /\ caller' = [caller EXCEPT ![a] = [at |-> "observe", epoch |-> Len(epochs) + 1]]
  /\ UNCHANGED <<budget, chosen, runner, clean, message, attempt>>

\* scoped_epoch: a repeated request returns the epoch there is.
Rejoin(a) ==
  /\ a = Requester /\ caller[a].at = "idle" /\ epochs # <<>>
  /\ clean /\ chosen = Nothing
  /\ epochs[Len(epochs)].status \in Open /\ ~epochs[Len(epochs)].over
  /\ caller' = [caller EXCEPT ![a] = [at |-> "observe", epoch |-> Len(epochs)]]
  /\ UNCHANGED <<budget, docVars, clean, message, attempt>>

\* reconcile_pending, every minute: intents that were not sent, epochs that expired.
Sweep(a) ==
  LET e == Len(epochs) IN
  /\ a = Sweeper /\ caller[a].at = "idle" /\ epochs # <<>>
  /\ \/ /\ epochs[e].status \in Open /\ epochs[e].over
        /\ epochs' = Expired(e)
        /\ UNCHANGED caller
     \/ /\ epochs[e].status \in Open \cup {"selected"} /\ ~epochs[e].sent
        /\ epochs[e].over => epochs[e].status = "selected"
        /\ caller' = [caller EXCEPT ![a] = [at |-> "observe", epoch |-> e]]
        /\ UNCHANGED epochs
  /\ UNCHANGED <<budget, pending, chosen, runner, clean, message, attempt>>

\* reconcile_dispatch reads the manifest: what runs or is selected needs no message.
Observe(a) ==
  LET e == caller[a].epoch IN
  /\ caller[a].at = "observe"
  /\ epochs' = IF epochs[e].status # "selected" THEN Expired(e) ELSE epochs
  /\ caller' = [caller EXCEPT ![a] =
       IF \/ ~clean \/ epochs[e].status = "terminal" \/ (epochs[e].over /\ epochs[e].status # "selected")
          \/ (epochs[e].sent /\ epochs[e].status \notin {"running", "selected"})
         THEN Idle
         ELSE [@ EXCEPT !.at = IF epochs[e].status \in {"running", "selected"} THEN "ack"
                               ELSE "send"]]
  /\ UNCHANGED <<budget, pending, chosen, runner, clean, message, attempt>>

\* The message may be sent again by any caller that saw it unsent.  A queue that fails
\* leaves the intent pending.
Send(a) ==
  LET e == caller[a].epoch IN
  /\ caller[a].at = "send"
  /\ epochs' = Expired(e)
  /\ \/ /\ ~epochs[e].over /\ Len(message) < MaxMessages
        /\ message' = Append(message, NewMessage(e))
        /\ caller' = [caller EXCEPT ![a].at = "ack"]
     \/ caller' = [caller EXCEPT ![a] = Idle] /\ UNCHANGED message
  /\ UNCHANGED <<budget, pending, chosen, runner, clean, attempt>>

\* apply("accepted").
Acknowledge(a) ==
  LET e == caller[a].epoch
      accepted == [epochs[e] EXCEPT !.sent = TRUE,
                                    !.status = IF @ = "reserved" THEN "dispatched" ELSE @]
  IN
  /\ caller[a].at = "ack"
  /\ epochs' = CASE ~clean -> epochs
                 [] epochs[e].status = "selected" -> [epochs EXCEPT ![e].sent = TRUE]
                 [] OTHER -> IF epochs[e].over THEN [epochs EXCEPT ![e].status = "terminal"]
                             ELSE IF epochs[e].status \in Open THEN [epochs EXCEPT ![e] = accepted]
                             ELSE epochs
  /\ caller' = [caller EXCEPT ![a] = Idle]
  /\ UNCHANGED <<budget, pending, chosen, runner, clean, message, attempt>>

CallerStep(a) == Observe(a) \/ Send(a) \/ Acknowledge(a)

-----------------------------------------------------------------------------
(* An attempt (drain, process_message, run_video_generation).              *)

Held(x) == message[attempt[x].msg]
Last(x) == Held(x).count >= MaxDequeue
\* A message is deleted under the receipt of its last delivery only.
Deleted(x) == IF Held(x).by = x THEN [message EXCEPT ![attempt[x].msg] = Gone] ELSE message
Leave(x) == attempt' = [attempt EXCEPT ![x] = [NewAttempt EXCEPT !.at = "gone"]]
Finish(x) == Leave(x) /\ message' = Deleted(x)
\* TransientVideoError: the message stays, unless this was its last delivery.
Retry(x) == Leave(x) /\ message' = IF Last(x) THEN Deleted(x) ELSE message

\* claim_epoch: open, within its deadline and without a live lease of another.
Claimable(x, e) ==
  /\ clean /\ chosen = Nothing
  /\ epochs[e].status \in Open /\ ~epochs[e].over /\ (epochs[e].live => epochs[e].owner = x)
Claimed(x, e) ==
  [epochs EXCEPT ![e].status = "running", ![e].owner = x, ![e].live = TRUE]

Arrives(x, m) ==
  At(x, "new") /\ (\A y \in 1..(x - 1) : ~At(y, "new")) /\ message[m].at = "visible"

\* read_selected for an ordinary message, claim_epoch for one of an epoch.
Begin(x, m) ==
  LET e == message[m].epoch IN
  /\ Arrives(x, m)
  /\ IF e = 0 THEN chosen.epoch # 0 \/ chosen = Nothing ELSE Claimable(x, e)
  /\ message' = [message EXCEPT ![m].at = "held", ![m].by = x, ![m].count = @ + 1]
  /\ attempt' = [attempt EXCEPT ![x] = [at |-> "start", msg |-> m, epoch |-> e]]
  /\ epochs' = IF e = 0 THEN epochs ELSE Claimed(x, e)
  /\ UNCHANGED <<budget, pending, chosen, runner, clean, caller>>

\* What is selected already, or denied, is deleted; a selection that cannot be verified
\* keeps its message.
TurnAway(x, m) ==
  LET e == message[m].epoch IN
  /\ Arrives(x, m)
  /\ IF e = 0 THEN chosen # Nothing /\ (chosen.epoch = 0 \/ ~clean) ELSE ~Claimable(x, e)
  /\ \/ /\ e = 0 => chosen.epoch = 0
        /\ message' = [message EXCEPT ![m] = Gone]
     \/ /\ chosen # Nothing /\ ~clean
        /\ message' = [message EXCEPT ![m].at = "held", ![m].by = x]
  /\ Leave(x)
  /\ epochs' = IF e = 0 THEN epochs ELSE Expired(e)
  /\ UNCHANGED <<budget, pending, chosen, runner, clean, caller>>

\* The manifest is read: an ordinary attempt is stale once the job has an epoch.  The
\* first attempt starts the budget, for good.
Start(x) ==
  /\ At(x, "start")
  /\ \/ /\ Current(x)
        /\ Goto(x, IF runner = "completed" THEN "skip" ELSE "admit")
        /\ budget' = IF Ordinary(x) /\ budget = "none" THEN "live" ELSE budget
        /\ UNCHANGED message
     \/ ~(clean /\ Current(x)) /\ Finish(x) /\ UNCHANGED budget
  /\ UNCHANGED <<docVars, clean, caller>>

\* What was processed is skipped.  A spent budget ends the attempt, and its epoch; the
\* records of an ordinary one are guarded.
Admit(x) ==
  /\ attempt[x].at \in {"admit", "skip"}
  /\ IF Ordinary(x) /\ ~MayWrite(x) THEN Retry(x) /\ UNCHANGED epochs
     ELSE IF At(x, "skip") THEN Finish(x) /\ UNCHANGED epochs
     ELSE IF IF Ordinary(x) THEN budget = "over" ELSE Own(x).over
       THEN /\ Finish(x)
            /\ epochs' = IF Ordinary(x) THEN epochs ELSE Expired(attempt[x].epoch)
     ELSE Goto(x, "render") /\ UNCHANGED <<epochs, message>>
  /\ UNCHANGED <<budget, pending, chosen, runner, clean, caller>>

\* Recorded and composed, as long as it takes; the claim of an epoch is then renewed.
Render(x) ==
  /\ At(x, "render")
  /\ Goto(x, IF Ordinary(x) \/ (clean /\ Current(x)) THEN "stage" ELSE "failed")
  /\ UNCHANGED <<budget, docVars, clean, message, caller>>

\* The intent is stored by the first attempt only; another goes on without one.
Stage(x) ==
  /\ At(x, "stage")
  /\ pending' = IF clean /\ Current(x) /\ chosen = Nothing /\ pending = Nothing
                  THEN Candidate(x) ELSE pending
  /\ Goto(x, IF clean THEN "choose" ELSE "failed")
  /\ UNCHANGED <<budget, epochs, chosen, runner, clean, message, caller>>

\* The candidate is stored at a path of the attempt's own, with its held document.  Then
\* one update is the selection and the completion.
Choose(x) ==
  /\ At(x, "choose")
  /\ IF /\ clean /\ Current(x)
        /\ \/ chosen = Candidate(x)
           \/ chosen = Nothing /\ pending = Candidate(x)
       THEN /\ chosen' = Candidate(x) /\ pending' = Nothing /\ runner' = "completed"
            /\ epochs' = IF Ordinary(x) THEN epochs
                         ELSE [epochs EXCEPT ![attempt[x].epoch].status = "selected"]
            /\ Goto(x, "readback")
       ELSE Goto(x, "failed") /\ UNCHANGED docVars
  /\ UNCHANGED <<budget, clean, message, caller>>

\* PrivateSelectionUnverified keeps the message.
ReadBack(x) ==
  /\ At(x, "readback")
  /\ IF clean THEN Goto(x, "record") ELSE Leave(x)
  /\ UNCHANGED <<budget, docVars, clean, message, caller>>

\* _record_video_state: a selected completion is amended, never replaced.
Write(x, status) ==
  runner' = IF MayWrite(x) /\ chosen = Nothing THEN status ELSE runner

\* The record of the success is mandatory.
Record(x) ==
  /\ At(x, "record")
  /\ IF MayWrite(x) THEN Write(x, "completed") /\ Finish(x)
                    ELSE Goto(x, "failed") /\ UNCHANGED <<runner, message>>
  /\ UNCHANGED <<budget, epochs, pending, chosen, clean, caller>>

\* Any exception of the work is recorded if that is allowed, and the message retried.
Failed(x) ==
  /\ At(x, "failed")
  /\ Write(x, "failed")
  /\ Retry(x)
  /\ UNCHANGED <<budget, epochs, pending, chosen, clean, caller>>

Attempting(x) ==
  \/ \E m \in 1..Len(message) : Begin(x, m) \/ TurnAway(x, m)
  \/ Start(x) \/ Admit(x) \/ Render(x) \/ Stage(x) \/ Choose(x) \/ ReadBack(x)
  \/ Record(x) \/ Failed(x)

Working(x) == attempt[x].at \notin {"new", "gone"}

\* _RecoveryQueueLease.beat: under the receipt of its message, an attempt claims its
\* epoch again, also back from an owner whose lease ended.
Beat(x) ==
  /\ Working(x) /\ ~Ordinary(x) /\ Held(x).by = x /\ Claimable(x, attempt[x].epoch)
  /\ ~Own(x).live
  /\ epochs' = Claimed(x, attempt[x].epoch)
  /\ UNCHANGED <<budget, pending, chosen, runner, clean, message, attempt, caller>>

-----------------------------------------------------------------------------
(* The environment.                                                        *)

BudgetEnds ==
  /\ budget = "live"
  /\ budget' = "over"
  /\ UNCHANGED <<docVars, clean, message, attempt, caller>>

DeadlinePasses ==
  /\ epochs # <<>> /\ ~epochs[Len(epochs)].over
  /\ epochs' = [epochs EXCEPT ![Len(epochs)].over = TRUE, ![Len(epochs)].live = FALSE]
  /\ UNCHANGED <<budget, pending, chosen, runner, clean, message, attempt, caller>>

\* The lease of an attempt that died ends, and its message is visible again, which no
\* claim outlasts.  An attempt that is alive stalls for that (see Fault).
Ends(e) ==
  /\ epochs' = [epochs EXCEPT ![e].live = FALSE]
  /\ UNCHANGED <<budget, pending, chosen, runner, clean, message, attempt, caller>>
LeaseEnds ==
  LET e == Len(epochs) IN
  epochs # <<>> /\ epochs[e].live /\ ~Working(epochs[e].owner) /\ Ends(e)

Visible(m) ==
  /\ message[m].at = "held"
  /\ message' = [message EXCEPT ![m].at = "visible"]
  /\ UNCHANGED <<budget, docVars, clean, attempt, caller>>
Claims(x, m) ==
  message[m].epoch # 0 /\ LET e == epochs[message[m].epoch] IN e.owner = x /\ e.live
Redeliver(m) ==
  LET x == message[m].by IN
  /\ Visible(m) /\ ~Claims(x, m)
  /\ Working(x) => message[m].epoch # 0

\* The work raises, the record of the success fails, the process dies or stalls; the
\* media or the providers' state change.
Fault ==
  /\ faults < MaxFaults /\ faults' = faults + 1
  /\ \/ \E x \in Attempts :
          /\ \/ attempt[x].at \in {"render", "record"} /\ Goto(x, "failed")
             \/ Working(x) /\ Leave(x)
          /\ UNCHANGED <<budget, docVars, clean, message, caller>>
     \/ \E a \in Callers :
          /\ caller[a].at = "ack" /\ caller' = [caller EXCEPT ![a] = Idle]
          /\ UNCHANGED <<budget, docVars, clean, message, attempt>>
     \/ clean /\ clean' = FALSE /\ UNCHANGED <<budget, docVars, message, attempt, caller>>
     \/ \E e \in 1..Len(epochs) : epochs[e].live /\ Working(epochs[e].owner) /\ Ends(e)
     \/ \E m \in 1..Len(message) : Visible(m) /\ message[m].epoch = 0 /\ Working(message[m].by)

Init ==
  /\ budget = "none" /\ epochs = <<>> /\ pending = Nothing /\ chosen = Nothing
  /\ runner = "none" /\ clean = TRUE
  /\ message = <<NewMessage(0)>>
  /\ attempt = [x \in Attempts |-> NewAttempt]
  /\ caller = [a \in Callers |-> Idle]
  /\ faults = 0

Steps ==
  \/ \E a \in Callers : Reserve(a) \/ Rejoin(a) \/ Sweep(a) \/ CallerStep(a)
  \/ \E x \in Attempts : Attempting(x) \/ Beat(x)
  \/ \E m \in 1..Len(message) : Redeliver(m)
  \/ BudgetEnds \/ DeadlinePasses \/ LeaseEnds

Next == (Steps /\ UNCHANGED faults) \/ Fault

\* The API sweeps every minute and finishes what it began; time passes.
Fairness ==
  /\ WF_vars(DeadlinePasses /\ UNCHANGED faults)
  /\ \A a \in Callers : WF_vars((Sweep(a) \/ CallerStep(a)) /\ UNCHANGED faults)

Spec == Init /\ [][Next]_vars /\ Fairness

-----------------------------------------------------------------------------
(* Properties.                                                             *)

\* recovery.py, select_private_output and reserve_epoch: what is selected was stored
\* first and chosen under the authority that still stands in the ledger.  An ordinary
\* attempt is selected only if the job never gets an epoch; else exactly the epoch of
\* the attempt is selected, and was owned by it.
SelectionIsAuthorized ==
  chosen # Nothing =>
    /\ pending = Nothing
    /\ {e \in 1..Len(epochs) : epochs[e].status = "selected"} =
         (IF chosen.epoch = 0 THEN {} ELSE {chosen.epoch})
    /\ IF chosen.epoch = 0 THEN epochs = <<>> ELSE epochs[chosen.epoch].owner = chosen.by

\* job_runner.py, _record_video_state: the failure of a late, stale or repeated attempt
\* never replaces the completion that the selection recorded, nor the selection itself.
CompletionStands ==
  [][chosen # Nothing => chosen' = chosen /\ runner' = "completed"]_vars

\* recovery.py as a whole: the manifest, whatever attempts, callers and messages do with
\* it, passes through the states of Selection.  The last epoch of the ledger has the turn.
LastOpen == epochs # <<>> => epochs[Len(epochs)].status \in Open
Selecting == INSTANCE Selection WITH
  Makers <- Attempts, turn <- Len(epochs), open <- chosen = Nothing /\ LastOpen,
  staged <- pending, selected <- chosen, complete <- runner = "completed"
SelectionImplemented == Selecting!Spec

\* monitoring.py, the sweep: an epoch whose workers and requests all stop is selected or
\* made terminal some day, so that the ledger never waits for ever.
EpochSettles == []<>(epochs = <<>> \/ epochs[Len(epochs)].status \in {"selected", "terminal"})
=============================================================================
