----------------------------- MODULE Reconcile -----------------------------
(***************************************************************************)
(* The scheduler of src/podcaster/distribution_scheduler.py on one outbox  *)
(* item: run_once sends the one initial message of the item, pages through *)
(* the legs that are due, and sends one message for those it could reserve.*)
(* Runs are started by a timer, may overlap, and may die at any step; a    *)
(* worker polls the legs meanwhile.  Every step is one compare-and-swap of *)
(* the outbox document, one send, or one reading of the page.              *)
(*                                                                         *)
(* The worker is any client of Outbox that a message brings to the item;   *)
(* Dispatch says what it really does.  A worker whose provider mutation is *)
(* disabled claims the item, releases it and deletes the message.          *)
(***************************************************************************)
EXTENDS Outbox, FiniteSets

CONSTANTS
  Schedulers,   \* the executions of run_once that may overlap
  NoScheduler,
  MaxHints,     \* bound on the messages in the queue
  MaxFaults     \* bound on crashes, refused sends and overrun reservations

ASSUME ReconcileAssumption ==
  /\ NoScheduler \notin Schedulers
  /\ MaxHints \in Nat \ {0}
  /\ MaxFaults \in Nat

VARIABLES
  initial,    \* enqueue["notification_intent"]
  stale,      \* legs whose recorded notification is older than 15 minutes
  run,        \* what each execution of run_once is doing
  hints,      \* messages of the item in the queue
  announced,  \* the tokens of each leg a message was sent for
  sends,      \* initial messages sent, counted up to 2
  faults

schedulerVars == <<initial, stale, run, hints, announced, sends, faults>>
allVars == <<vars, schedulerVars>>

None == [p \in Providers |-> 0]

Resting == [pc |-> "idle", todo |-> {}, token |-> None, hold |-> None]

At(s, step) == run[s].pc = step

GoTo(s, step) == run' = [run EXCEPT ![s].pc = step]

\* The run ends, by its last step or by an exception.
Rest(s) == run' = [run EXCEPT ![s] = Resting]

Kept(s) == {p \in Providers : run[s].hold[p] # 0}

\* The loop over the reservations is over: the run goes on to the next step.
OnToNext(s, p, step) ==
  run' = [run EXCEPT
    ![s].pc = IF run[s].todo = {p} THEN step ELSE @,
    ![s].todo = IF run[s].todo = {p} THEN Kept(s) ELSE @ \ {p}]

-----------------------------------------------------------------------------
(* The one initial message: repair_notifications_page.                     *)

\* Legs that need a schedule get one before anything is sent.
Ensure(s) ==
  /\ At(s, "idle")
  /\ AllowsDistribution
  /\ GoTo(s, "hint")
  /\ IF \E p \in Providers : NeedsSchedule(p)
     THEN EnsureProviderReconciliation ELSE UNCHANGED vars
  /\ UNCHANGED <<initial, stale, hints, announced, sends, faults>>

ReserveUnaccepted(s) ==
  /\ At(s, "hint")
  /\ IF initial.state = "accepted"
     THEN GoTo(s, "page") /\ UNCHANGED initial
     ELSE /\ initial' = [state |-> "reserved", owner |-> s]
          /\ GoTo(s, "authorize")
  /\ UNCHANGED <<vars, stale, hints, announced, sends, faults>>

\* A reservation no run has consumed is taken over.
ReserveInitial(s) ==
  /\ At(s, "hint")
  /\ IF initial.state \in {"sending", "accepted"}
     THEN GoTo(s, "page") /\ UNCHANGED initial
     ELSE /\ initial' = [state |-> "reserved", owner |-> s]
          /\ GoTo(s, "authorize")
  /\ UNCHANGED <<vars, stale, hints, announced, sends, faults>>

\* The sole authority to send is consumed; a run whose reservation was taken
\* over ends with an exception.
AuthorizeInitial(s) ==
  /\ At(s, "authorize")
  /\ CASE initial.state \in {"sending", "accepted"} ->
            GoTo(s, "page") /\ UNCHANGED initial
       [] initial.state = "reserved" /\ initial.owner = s ->
            /\ initial' = [initial EXCEPT !.state = "sending"]
            /\ GoTo(s, "send")
       [] OTHER -> Rest(s) /\ UNCHANGED initial
  /\ UNCHANGED <<vars, stale, hints, announced, sends, faults>>

OneMore == hints' = IF hints < MaxHints THEN hints + 1 ELSE hints

SendInitial(s) ==
  /\ At(s, "send")
  /\ OneMore
  /\ sends' = IF sends < 2 THEN sends + 1 ELSE sends
  /\ GoTo(s, "accept")
  /\ UNCHANGED <<vars, initial, stale, announced, faults>>

AcceptInitial(s) ==
  /\ At(s, "accept")
  /\ initial.state = "sending" /\ initial.owner = s
  /\ initial' = [initial EXCEPT !.state = "accepted"]
  /\ GoTo(s, "page")
  /\ UNCHANGED <<vars, stale, hints, announced, sends, faults>>

-----------------------------------------------------------------------------
(* The legs that are due: due_reconciliations_page and the rest of the run.*)

Notified(p) == sched[p].notified # 0 /\ sched[p].notified = sched[p].token

ReservedOnce(p) ==
  notice[p].hold # NoHold /\ notice[p].hold.token = sched[p].token

Reserved(p) ==
  /\ notice[p].hold # NoHold
  /\ notice[p].hold.token = sched[p].token
  /\ notice[p].hold.live

\* A leg the page lists: due, not notified in the last 15 minutes and not
\* reserved.
Listed(p) ==
  /\ sched[p].token # 0
  /\ sched[p].due = "now"
  /\ ~(Notified(p) /\ p \notin stale)
  /\ ~Reserved(p)

Page(s) ==
  LET listed == {p \in Providers : Listed(p)}
  IN /\ At(s, "page")
     /\ run' = [run EXCEPT
          ![s] = IF listed = {} \/ ~AllowsDistribution THEN Resting
                 ELSE [Resting EXCEPT !.pc = "reserve", !.todo = listed,
                         !.token = [p \in Providers |-> sched[p].token]]]
     /\ UNCHANGED <<vars, initial, stale, hints, announced, sends, faults>>

\* What the reservation asks of the leg as it is by then.
Reservable(p, token) ==
  /\ sched[p].token = token
  /\ ~Notified(p)
  /\ ~Reserved(p)

\* A leg that is no longer reservable is passed over.
Reserve(s, p) ==
  LET last == run[s].todo = {p}
      won == Reservable(p, run[s].token[p])
      kept == IF won THEN Kept(s) \cup {p} ELSE Kept(s)
  IN /\ At(s, "reserve")
     /\ p \in run[s].todo
     /\ won => notice[p].fence < MaxHolds
     /\ notice' = IF ~won THEN notice ELSE [notice EXCEPT ![p] =
          [fence |-> @.fence + 1,
           hold |-> [id |-> @.fence + 1, token |-> run[s].token[p],
                     stage |-> "reserved", live |-> TRUE]]]
     /\ IF last /\ kept = {} THEN Rest(s)
        ELSE run' = [run EXCEPT
               ![s].pc = IF last THEN "begin" ELSE @,
               ![s].todo = IF last THEN kept ELSE @ \ {p},
               ![s].hold[p] = IF won THEN notice[p].fence + 1 ELSE 0]
     /\ UNCHANGED <<fence, claim, attempts, legs, sched, weekly, review, lastId,
                    horizon, held, initial, stale, hints, announced, sends,
                    faults>>

\* The reservation is still this run's, at this stage.
OwnsHold(s, p, stage) ==
  /\ notice[p].hold.id = run[s].hold[p]
  /\ notice[p].hold.token = run[s].token[p]
  /\ notice[p].hold.stage = stage

\* Without its reservation the run ends with an exception.
BeginEnqueue(s, p) ==
  /\ At(s, "begin")
  /\ p \in run[s].todo
  /\ IF OwnsHold(s, p, "reserved") /\ notice[p].hold.live
     THEN /\ notice' = [notice EXCEPT ![p].hold.stage = "started"]
          /\ OnToNext(s, p, "enqueue")
     ELSE Rest(s) /\ UNCHANGED notice
  /\ UNCHANGED <<fence, claim, attempts, legs, sched, weekly, review, lastId,
                 horizon, held, initial, stale, hints, announced, sends, faults>>

Enqueue(s) ==
  /\ At(s, "enqueue")
  /\ OneMore
  /\ announced' = [p \in Providers |->
       IF p \in Kept(s) THEN announced[p] \cup {run[s].token[p]}
       ELSE announced[p]]
  /\ GoTo(s, "complete")
  /\ UNCHANGED <<vars, initial, stale, sends, faults>>

\* The queue takes no message.
Refused(s) ==
  /\ At(s, "enqueue")
  /\ faults < MaxFaults
  /\ faults' = faults + 1
  /\ GoTo(s, "abort")
  /\ UNCHANGED <<vars, initial, stale, hints, announced, sends>>

Abort(s, p) ==
  /\ At(s, "abort")
  /\ p \in run[s].todo
  /\ IF OwnsHold(s, p, "started")
     THEN /\ notice' = [notice EXCEPT ![p].hold = NoHold]
          /\ IF run[s].todo = {p} THEN Rest(s)
             ELSE run' = [run EXCEPT ![s].todo = @ \ {p}]
     ELSE Rest(s) /\ UNCHANGED notice
  /\ UNCHANGED <<fence, claim, attempts, legs, sched, weekly, review, lastId,
                 horizon, held, initial, stale, hints, announced, sends, faults>>

CompleteUnfenced(s, p) ==
  /\ At(s, "complete")
  /\ p \in run[s].todo
  /\ notice' = [notice EXCEPT ![p].hold = NoHold]
  /\ sched' = [sched EXCEPT ![p].notified = run[s].token[p]]
  /\ stale' = stale \ {p}
  /\ IF run[s].todo = {p} THEN Rest(s)
     ELSE run' = [run EXCEPT ![s].todo = @ \ {p}]
  /\ UNCHANGED <<fence, claim, attempts, legs, weekly, review, lastId,
                 horizon, held, initial, hints, announced, sends, faults>>

Complete(s, p) ==
  /\ At(s, "complete")
  /\ p \in run[s].todo
  /\ IF OwnsHold(s, p, "started") /\ notice[p].hold.live
     THEN /\ notice' = [notice EXCEPT ![p].hold = NoHold]
          /\ sched' = [sched EXCEPT ![p].notified = run[s].token[p]]
          /\ stale' = stale \ {p}
          /\ IF run[s].todo = {p} THEN Rest(s)
             ELSE run' = [run EXCEPT ![s].todo = @ \ {p}]
     ELSE Rest(s) /\ UNCHANGED <<notice, sched, stale>>
  /\ UNCHANGED <<fence, claim, attempts, legs, weekly, review, lastId,
                 horizon, held, initial, hints, announced, sends, faults>>

-----------------------------------------------------------------------------
(* What goes wrong, what time does, and the worker.                        *)

\* A run dies, or is stopped at its replica timeout.
RunDies(s) ==
  /\ ~At(s, "idle")
  /\ faults < MaxFaults
  /\ faults' = faults + 1
  /\ Rest(s)
  /\ UNCHANGED <<vars, initial, stale, hints, announced, sends>>

Expired(p) == [notice EXCEPT ![p].hold.live = FALSE]

Unowned(p) == \A s \in Schedulers : run[s].hold[p] # notice[p].hold.id

\* A reservation runs out after its run has ended; or under a slow run.
HoldExpires(p) ==
  /\ notice[p].hold.live
  /\ Unowned(p)
  /\ notice' = Expired(p)
  /\ UNCHANGED <<fence, claim, attempts, legs, sched, weekly, review, lastId,
                 horizon, held, schedulerVars>>

HoldOverrun(p) ==
  /\ notice[p].hold.live
  /\ ~Unowned(p)
  /\ faults < MaxFaults
  /\ faults' = faults + 1
  /\ notice' = Expired(p)
  /\ UNCHANGED <<fence, claim, attempts, legs, sched, weekly, review, lastId,
                 horizon, held, initial, stale, run, hints, announced, sends>>

NotificationAges(p) ==
  /\ Notified(p)
  /\ p \notin stale
  /\ stale' = stale \cup {p}
  /\ UNCHANGED <<vars, initial, run, hints, announced, sends, faults>>

Deliver(w) ==
  /\ hints > 0
  /\ Claim(w)
  /\ UNCHANGED schedulerVars

\* A leg is polled while it has a token to spare, so that the bound on tokens
\* never leaves it without a schedule.
Poll(w, p) ==
  /\ sched[p].issued < MaxTokens
  /\ \/ ConsumeScheduleToken(w, p)
     \/ \E r \in Readings : RecordVerification(w, p, r)
     \/ ScheduleReconciliation(w, p, FALSE)
  /\ UNCHANGED schedulerVars

Return(w) ==
  /\ Release(w)
  /\ hints' = IF hints > 0 THEN hints - 1 ELSE 0
  /\ UNCHANGED <<initial, stale, run, announced, sends, faults>>

Die(w) == Crash(w) /\ UNCHANGED schedulerVars

Elsewhere ==
  /\ \/ LeaseRuns
     \/ \E p \in Providers : TokenFallsDue(p)
     \/ \E decision \in {"approved", "rejected"} : RecordMediaReview(decision)
  /\ UNCHANGED schedulerVars

RunStep(s) ==
  \/ Ensure(s) \/ ReserveInitial(s) \/ AuthorizeInitial(s) \/ SendInitial(s)
  \/ AcceptInitial(s) \/ Page(s) \/ Enqueue(s)
  \/ \E p \in Providers :
       Reserve(s, p) \/ BeginEnqueue(s, p) \/ Abort(s, p) \/ Complete(s, p)

ReconcileInit ==
  /\ Init
  /\ initial = [state |-> "none", owner |-> NoScheduler]
  /\ stale = {}
  /\ run = [s \in Schedulers |-> Resting]
  /\ hints = 0
  /\ announced = [p \in Providers |-> {}]
  /\ sends = 0
  /\ faults = 0

ReconcileNext ==
  \/ \E s \in Schedulers : RunStep(s) \/ Refused(s) \/ RunDies(s)
  \/ \E p \in Providers : HoldExpires(p) \/ HoldOverrun(p) \/ NotificationAges(p)
  \/ \E w \in Workers : Deliver(w) \/ Return(w) \/ Die(w)
  \/ Elsewhere
  \/ \E w \in Workers, p \in Providers : Poll(w, p)

\* The timer starts run_once again and again, a run does not stop but by a
\* fault, a reservation that nobody holds runs out and a recorded
\* notification ages.  Nothing is assumed of the worker.
Fairness ==
  /\ \A s \in Schedulers : WF_allVars(RunStep(s))
  /\ \A p \in Providers :
       WF_allVars(HoldExpires(p)) /\ WF_allVars(NotificationAges(p))

\* One execution of the scheduler job has one replica, which is stopped after the
\* 300 s of its period: two runs overlap only if the platform is late.
Alone == \A s, t \in Schedulers : s = t \/ run[s] = Resting \/ run[t] = Resting

ReconcileSpec == ReconcileInit /\ [][ReconcileNext]_allVars /\ Fairness

-----------------------------------------------------------------------------
(* Properties.                                                             *)

\* The initial message of an item is sent at most once, however many runs
\* overlap, take a reservation over, or die around the send
\* (reserve_notification, authorize_notification_send).
InitialSendAtMostOnce == sends <= 1

\* A leg the worker settles has no schedule, no reservation and no recorded
\* notification left, even if it is settled in the middle of a run
\* (record_verification, schedule_reconciliation).
SettledIsSilent ==
  \A p \in Providers : legs[p].result # "pending_provider" =>
    /\ sched[p].token = 0 /\ sched[p].notified = 0
    /\ notice[p].hold = NoHold

\* A leg whose schedule is due is announced to the queue, or polled or
\* rescheduled before that, once runs overlap no more: nothing that overlapping
\* or dying runs left behind starves it (run_once).  Runs that overlap for ever
\* may take the initial reservation from one another for ever.
DueIsAnnounced ==
  <>[]Alone =>
    \A p \in Providers :
      (sched[p].token # 0 /\ sched[p].due = "now" /\ AllowsDistribution)
        ~> (sched[p].due # "now" \/ sched[p].token \in announced[p])

=============================================================================
