-------------------------- MODULE ReconcileProofs ---------------------------
(***************************************************************************)
(* Proofs about Reconcile, for every set of schedulers, workers and        *)
(* providers and every value of the bounds.  The types of the item are     *)
(* those of OutboxProofs.                                                  *)
(***************************************************************************)
EXTENDS Reconcile, OutboxProofs

-----------------------------------------------------------------------------
(* The strengthening.                                                      *)

RunSteps == {"idle", "hint", "authorize", "send", "accept", "page", "reserve",
             "begin", "enqueue", "complete", "abort"}

Runs == [pc : RunSteps, todo : SUBSET Providers,
         token : [Providers -> 0..MaxTokens], hold : [Providers -> 0..MaxHolds]]

RunsOK ==
  /\ initial \in [state : {"none", "reserved", "sending", "accepted"},
                  owner : Schedulers \cup {NoScheduler}]
  /\ stale \subseteq Providers
  /\ run \in [Schedulers -> Runs]
  /\ hints \in Nat
  /\ announced \in [Providers -> SUBSET (0..MaxTokens)]
  /\ sends \in 0..2
  /\ faults \in Nat

ReconcileTypeOK == TypeOK /\ RunsOK

\* Nothing was sent before the reservation was consumed, and only who consumed it
\* is about to send.
SenderIsOne ==
  /\ initial.state \in {"none", "reserved"} => sends = 0
  /\ \A s \in Schedulers : At(s, "send") =>
       initial.state = "sending" /\ initial.owner = s /\ sends = 0
  /\ sends <= 1

\* A run only tries to reserve what was scheduled when it read the page.
TodoIsScheduled ==
  \A s \in Schedulers : At(s, "reserve") =>
    \A p \in run[s].todo : run[s].token[p] # 0

RInv ==
  /\ ReconcileTypeOK
  /\ SenderIsOne
  /\ TodoIsScheduled
  /\ SettledIsSilent

-----------------------------------------------------------------------------
(* Types.                                                                  *)

\* The reservations a leg may have, and the start of a run.
LEMMA RunTypes ==
  /\ None \in [Providers -> 0..MaxTokens] /\ None \in [Providers -> 0..MaxHolds]
  /\ Resting \in Runs
  /\ NoHold \in Holds
<1>1. 0 \in 0..MaxTokens /\ 0 \in 0..MaxHolds
  BY OutboxAssumption
<1>2. None \in [Providers -> 0..MaxTokens] /\ None \in [Providers -> 0..MaxHolds]
  BY <1>1 DEF None
<1> QED
  BY <1>1, <1>2 DEF Resting, Runs, RunSteps, NoHold, Holds

\* The step is one of the run s alone.
Turn(s) ==
  /\ run' \in [Schedulers -> Runs]
  /\ \A t \in Schedulers : t # s => run'[t] = run[t]

\* A run that goes on, or narrows down what it has to do.
LEMMA TurnTo ==
  ASSUME RunsOK, NEW s \in Schedulers, NEW step \in RunSteps, NEW todo \in SUBSET Providers,
         run' = [run EXCEPT ![s].pc = step, ![s].todo = todo]
  PROVE  Turn(s) /\ run'[s].pc = step /\ run'[s].todo = todo /\ run'[s].token = run[s].token
<1>1. run \in [Schedulers -> Runs] /\ run[s] \in Runs
  BY DEF RunsOK
<1> DEFINE r == [run[s] EXCEPT !.pc = step, !.todo = todo]
<1>2. r \in Runs /\ r.pc = step /\ r.todo = todo /\ r.token = run[s].token
  BY <1>1 DEF Runs
<1>3. run' = [run EXCEPT ![s] = r]
  BY <1>1
<1> HIDE DEF r
<1> QED
  BY <1>1, <1>2, <1>3 DEF Turn

\* A run that goes to its next step.
LEMMA TurnGoTo ==
  ASSUME RunsOK, NEW s \in Schedulers, NEW step \in RunSteps, GoTo(s, step)
  PROVE  Turn(s) /\ run'[s].pc = step /\ run'[s].todo = run[s].todo
         /\ run'[s].token = run[s].token
<1>1. run \in [Schedulers -> Runs] /\ run[s] \in Runs
  BY DEF RunsOK
<1>2. [run[s] EXCEPT !.pc = step] \in Runs
  BY <1>1 DEF Runs
<1>3. run' = [run EXCEPT ![s] = [run[s] EXCEPT !.pc = step]]
  BY <1>1 DEF GoTo
<1> QED
  BY <1>1, <1>2, <1>3 DEF Turn, Runs

\* A run that ends.
LEMMA TurnRest ==
  ASSUME RunsOK, NEW s \in Schedulers, Rest(s)
  PROVE  Turn(s) /\ run'[s].pc = "idle"
BY RunTypes DEF RunsOK, Rest, Turn, Resting

\* A run that has done one of the legs it has to do.
LEMMA TurnNarrow ==
  ASSUME RunsOK, NEW s \in Schedulers, NEW p \in Providers,
         run' = [run EXCEPT ![s].todo = @ \ {p}]
  PROVE  Turn(s) /\ run'[s].pc = run[s].pc
<1>1. run \in [Schedulers -> Runs] /\ run[s] \in Runs
  BY DEF RunsOK
<1>2. [run[s] EXCEPT !.todo = run[s].todo \ {p}] \in Runs
  BY <1>1 DEF Runs
<1>3. run' = [run EXCEPT ![s] = [run[s] EXCEPT !.todo = run[s].todo \ {p}]]
  BY <1>1
<1>4. run[s].pc = [run[s] EXCEPT !.todo = run[s].todo \ {p}].pc
  BY <1>1 DEF Runs
<1>5. run'[s] = [run[s] EXCEPT !.todo = run[s].todo \ {p}] /\ Turn(s)
  BY <1>1, <1>2, <1>3 DEF Turn
<1> QED
  BY <1>4, <1>5

\* What the step of a run does to the runs: where it arrives, and that it has only
\* scheduled legs to reserve then.
RunTurn(s) ==
  /\ Turn(s)
  /\ run'[s].pc = "send" => AuthorizeInitial(s)
  /\ run'[s].pc = "reserve" =>
       \A p \in run'[s].todo :
         \/ run'[s].token[p] # 0
         \/ At(s, "reserve") /\ p \in run[s].todo /\ run'[s].token[p] = run[s].token[p]

\* The page step.
LEMMA PageTurn ==
  ASSUME ReconcileTypeOK, NEW s \in Schedulers, Page(s)
  PROVE  RunTurn(s)
<1> USE DEF ReconcileTypeOK
<1> DEFINE listed == {p \in Providers : Listed(p)}
           tokens == [p \in Providers |-> sched[p].token]
           r == IF listed = {} \/ ~AllowsDistribution THEN Resting
                ELSE [Resting EXCEPT !.pc = "reserve", !.todo = listed, !.token = tokens]
<1>1. tokens \in [Providers -> 0..MaxTokens]
  BY DEF TypeOK, Schedules
<1>2. \A p \in listed : tokens[p] # 0
  BY DEF Listed
<1>3. run' = [run EXCEPT ![s] = r]
  BY DEF Page
<1>4. listed \in SUBSET Providers
  OBVIOUS
<1> HIDE DEF listed, tokens
<1>5. r \in Runs /\ (r.pc = "reserve" => r.todo = listed /\ r.token = tokens) /\ r.pc # "send"
  BY <1>1, <1>4, RunTypes DEF Runs, RunSteps, Resting
<1> HIDE DEF r
<1>6. run' \in [Schedulers -> Runs] /\ run'[s] = r /\ \A t \in Schedulers : t # s => run'[t] = run[t]
  BY <1>3, <1>5 DEF RunsOK
<1> QED
  BY <1>2, <1>5, <1>6 DEF RunTurn, Turn

\* The reserve step.
LEMMA ReserveTurn ==
  ASSUME ReconcileTypeOK, NEW s \in Schedulers, NEW p \in Providers, Reserve(s, p)
  PROVE  RunTurn(s) /\ TypeOK'
<1> USE DEF ReconcileTypeOK
<1> DEFINE last == run[s].todo = {p}
           won == Reservable(p, run[s].token[p])
           kept == IF won THEN Kept(s) \cup {p} ELSE Kept(s)
           id == IF won THEN notice[p].fence + 1 ELSE 0
           r == IF last /\ kept = {} THEN Resting
                ELSE [run[s] EXCEPT !.pc = IF last THEN "begin" ELSE @,
                                    !.todo = IF last THEN kept ELSE @ \ {p},
                                    !.hold[p] = id]
<1>1. run \in [Schedulers -> Runs] /\ run[s] \in Runs
  BY DEF RunsOK
<1>2. notice \in [Providers -> Notices] /\ notice[p] \in Notices
  BY DEF TypeOK
<1>3. ASSUME won PROVE notice[p].fence + 1 \in 0..MaxHolds
  <2>1. notice[p].fence < MaxHolds
    BY <1>3 DEF Reserve
  <2>2. notice[p].fence \in 0..MaxHolds
    BY <1>2 DEF Notices
  <2>3. MaxHolds \in Nat
    BY OutboxAssumption
  <2> QED
    BY <2>1, <2>2, <2>3
<1>4. id \in 0..MaxHolds
  BY <1>3, OutboxAssumption
<1>5. run' = [run EXCEPT ![s] = r]
  BY <1>1 DEF Reserve, Rest
<1>6. kept \in SUBSET Providers
  BY DEF Kept
<1> HIDE DEF won, kept, id
<1>7. r \in Runs /\ r.pc # "send"
      /\ (r.pc = "reserve" => r.todo = run[s].todo \ {p} /\ r.token = run[s].token)
  <2>1. run[s].pc = "reserve"
    BY DEF Reserve, At
  <2>2. [run[s].hold EXCEPT ![p] = id] \in [Providers -> 0..MaxHolds]
    BY <1>1, <1>4 DEF Runs
  <2> QED
    BY <1>1, <1>6, <2>1, <2>2, RunTypes DEF Runs, RunSteps, Resting
<1> HIDE DEF r
<1>8. RunTurn(s)
  BY <1>1, <1>5, <1>7 DEF RunTurn, Turn, Reserve
<1>9. notice' \in [Providers -> Notices]
  <2>1. CASE ~won
    BY <1>2, <2>1 DEF Reserve, won
  <2>2. CASE won
    <3> DEFINE h == [id |-> notice[p].fence + 1, token |-> run[s].token[p],
                     stage |-> "reserved", live |-> TRUE]
    <3>1. h \in Holds
      BY <1>1, <1>3, <2>2 DEF Holds, Runs
    <3>2. [fence |-> notice[p].fence + 1, hold |-> h] \in Notices
      BY <1>3, <2>2, <3>1 DEF Notices
    <3>3. notice' = [notice EXCEPT ![p] = [fence |-> notice[p].fence + 1, hold |-> h]]
      BY <1>2, <2>2 DEF Reserve, won
    <3> QED
      BY <1>2, <3>2, <3>3
  <2> QED
    BY <2>1, <2>2
<1>10. UNCHANGED <<fence, claim, attempts, legs, sched, weekly, review, lastId, horizon, held>>
  BY DEF Reserve
<1> QED
  BY <1>8, <1>9, <1>10 DEF TypeOK

\* The steps of the message that is sent once.
LEMMA InitialTurn ==
  ASSUME ReconcileTypeOK, NEW s \in Schedulers,
         \/ Ensure(s) \/ ReserveInitial(s) \/ AuthorizeInitial(s) \/ SendInitial(s)
         \/ AcceptInitial(s)
  PROVE  RunTurn(s)
<1> USE DEF ReconcileTypeOK
<1>1. \A step \in RunSteps \ {"reserve", "send"} : GoTo(s, step) => RunTurn(s)
  BY TurnGoTo DEF RunTurn
<1>2. Rest(s) => RunTurn(s)
  BY TurnRest DEF RunTurn
<1>3. GoTo(s, "send") /\ AuthorizeInitial(s) => RunTurn(s)
  BY TurnGoTo DEF RunTurn, RunSteps
<1>4. CASE AuthorizeInitial(s)
  BY <1>1, <1>2, <1>3, <1>4 DEF AuthorizeInitial, RunSteps
<1> QED
  BY <1>1, <1>4 DEF Ensure, ReserveInitial, SendInitial, AcceptInitial, RunSteps

\* The steps of a run that reserved legs.
LEMMA NoticeTurn ==
  ASSUME ReconcileTypeOK, NEW s \in Schedulers, NEW p \in Providers,
         BeginEnqueue(s, p) \/ Abort(s, p) \/ Complete(s, p) \/ Enqueue(s) \/ Refused(s)
         \/ RunDies(s)
  PROVE  RunTurn(s)
<1> USE DEF ReconcileTypeOK
<1>1. \A step \in RunSteps \ {"reserve", "send"} : GoTo(s, step) => RunTurn(s)
  BY TurnGoTo DEF RunTurn
<1>2. Rest(s) => RunTurn(s)
  BY TurnRest DEF RunTurn
<1>3. CASE BeginEnqueue(s, p)
  <2>1. CASE OnToNext(s, p, "enqueue")
    <3> DEFINE step == IF run[s].todo = {p} THEN "enqueue" ELSE run[s].pc
               todo == IF run[s].todo = {p} THEN Kept(s) ELSE run[s].todo \ {p}
    <3>1. step \in RunSteps /\ todo \in SUBSET Providers
      BY <1>3 DEF BeginEnqueue, At, RunSteps, RunsOK, Runs, Kept
    <3>2. run' = [run EXCEPT ![s].pc = step, ![s].todo = todo]
      BY <2>1 DEF OnToNext
    <3>3. step \in {"enqueue", "begin"}
      BY <1>3 DEF BeginEnqueue, At
    <3> HIDE DEF step, todo
    <3>4. Turn(s) /\ run'[s].pc = step
      BY <3>1, <3>2, TurnTo
    <3> QED
      BY <3>3, <3>4 DEF RunTurn
  <2> QED
    BY <1>2, <1>3, <2>1 DEF BeginEnqueue
<1>4. CASE Abort(s, p) \/ Complete(s, p)
  <2>1. CASE run' = [run EXCEPT ![s].todo = @ \ {p}]
    <3>1. Turn(s) /\ run'[s].pc = run[s].pc
      BY <2>1, TurnNarrow
    <3> QED
      BY <1>4, <3>1 DEF RunTurn, Abort, Complete, At
  <2> QED
    BY <1>2, <1>4, <2>1 DEF Abort, Complete
<1> QED
  BY <1>1, <1>2, <1>3, <1>4 DEF Enqueue, Refused, RunDies, RunSteps

\* Every step of a run is one of these.
LEMMA AnyTurn ==
  ASSUME ReconcileTypeOK, NEW s \in Schedulers, RunStep(s) \/ Refused(s) \/ RunDies(s)
  PROVE  RunTurn(s)
<1>1. \E p : p \in Providers
  BY OutboxAssumption
<1> QED
  BY <1>1, InitialTurn, NoticeTurn, PageTurn, ReserveTurn DEF RunStep

\* A step of nobody's run.
Outside ==
  \/ \E p \in Providers : HoldExpires(p) \/ HoldOverrun(p) \/ NotificationAges(p)
  \/ \E w \in Workers : Deliver(w) \/ Return(w) \/ Die(w)
  \/ Elsewhere
  \/ \E w \in Workers, p \in Providers : Poll(w, p)
  \/ UNCHANGED allVars

\* It leaves the runs and the initial message alone.
LEMMA OutsideFrame ==
  ASSUME Outside
  PROVE  run' = run /\ initial' = initial /\ sends' = sends
BY DEF Outside, HoldExpires, HoldOverrun, NotificationAges, Deliver, Return, Die, Elsewhere,
   Poll, schedulerVars, allVars

\* But for a reservation that runs out, it is a step of Outbox.
LEMMA OutsideOfItem ==
  ASSUME Outside, ~\E p \in Providers : HoldExpires(p) \/ HoldOverrun(p)
  PROVE  [Next]_vars
<1>1. ASSUME NEW p \in Providers, NotificationAges(p) PROVE [Next]_vars
  BY <1>1 DEF NotificationAges
<1>2. ASSUME NEW w \in Workers, Deliver(w) \/ Return(w) \/ Die(w) PROVE [Next]_vars
  BY <1>2 DEF Deliver, Return, Die, Next, MutationNext
<1>3. ASSUME Elsewhere PROVE [Next]_vars
  BY <1>3 DEF Elsewhere, Next, MutationNext, ScheduleNext
<1>4. ASSUME NEW w \in Workers, NEW p \in Providers, Poll(w, p) PROVE [Next]_vars
  <2>1. FALSE \in BOOLEAN
    OBVIOUS
  <2> QED
    BY <1>4, <2>1 DEF Poll, Next, MutationNext, ScheduleNext
<1>5. ASSUME UNCHANGED allVars PROVE [Next]_vars
  BY <1>5 DEF allVars
<1> QED
  BY <1>1, <1>2, <1>3, <1>4, <1>5 DEF Outside

\* A step is a run's or an outside one.
LEMMA RunOrOutside ==
  ASSUME [ReconcileNext]_allVars
  PROVE  Outside \/ \E s \in Schedulers : RunStep(s) \/ Refused(s) \/ RunDies(s)
BY Zenon DEF ReconcileNext, Outside

\* A reservation whose lease or stage changes is a reservation.
LEMMA HoldType ==
  ASSUME TypeOK, NEW p \in Providers
  PROVE  /\ Expired(p) \in [Providers -> Notices]
         /\ [notice EXCEPT ![p].hold.stage = "started"] \in [Providers -> Notices]
         /\ [notice EXCEPT ![p].hold = NoHold] \in [Providers -> Notices]
<1>1. notice \in [Providers -> Notices] /\ notice[p] \in Notices
  BY DEF TypeOK
<1>2. /\ [notice[p] EXCEPT !.hold = NoHold] \in Notices
      /\ [notice[p] EXCEPT !.hold.live = FALSE] \in Notices
      /\ [notice[p] EXCEPT !.hold.stage = "started"] \in Notices
  <2>1. [notice[p].hold EXCEPT !.live = FALSE] \in Holds
        /\ [notice[p].hold EXCEPT !.stage = "started"] \in Holds
    BY <1>1 DEF Notices, Holds
  <2> QED
    BY <1>1, <2>1, RunTypes DEF Notices
<1>3. /\ Expired(p) = [notice EXCEPT ![p] = [notice[p] EXCEPT !.hold.live = FALSE]]
      /\ [notice EXCEPT ![p].hold.stage = "started"]
           = [notice EXCEPT ![p] = [notice[p] EXCEPT !.hold.stage = "started"]]
      /\ [notice EXCEPT ![p].hold = NoHold]
           = [notice EXCEPT ![p] = [notice[p] EXCEPT !.hold = NoHold]]
  BY <1>1 DEF Expired
<1> QED
  BY <1>1, <1>2, <1>3

\* The scheduler's steps on the item keep its types too.
LEMMA ItemTypes ==
  ASSUME ReconcileTypeOK, [ReconcileNext]_allVars
  PROVE  TypeOK'
<1> USE DEF ReconcileTypeOK
<1>1. CASE [Next]_vars
  BY <1>1, TypeStep
<1>2. ASSUME NEW s \in Schedulers, RunStep(s) \/ Refused(s) \/ RunDies(s)
      PROVE  TypeOK'
  <2>1. CASE \E p \in Providers : Reserve(s, p)
    BY <2>1, ReserveTurn
  <2>2. ASSUME NEW p \in Providers, BeginEnqueue(s, p) \/ Abort(s, p)
        PROVE  TypeOK'
    <3>1. notice' \in [Providers -> Notices]
      BY <2>2, HoldType DEF BeginEnqueue, Abort, TypeOK
    <3> QED
      BY <2>2, <3>1 DEF BeginEnqueue, Abort, TypeOK
  <2>3. ASSUME NEW p \in Providers, Complete(s, p)
        PROVE  TypeOK'
    <3>1. notice' \in [Providers -> Notices]
      BY ZenonT(30), <2>3, HoldType DEF Complete, TypeOK
    <3>2. sched' \in [Providers -> Schedules]
      <4>1. CASE sched' = [sched EXCEPT ![p].notified = run[s].token[p]]
        <5>1. run[s].token[p] \in 0..MaxTokens /\ sched[p] \in Schedules
              /\ sched \in [Providers -> Schedules]
          BY DEF RunsOK, Runs, TypeOK
        <5>2. [sched[p] EXCEPT !.notified = run[s].token[p]] \in Schedules
          BY <5>1 DEF Schedules
        <5> QED
          BY <4>1, <5>1, <5>2
      <4> QED
        BY <2>3, <4>1 DEF Complete, TypeOK
    <3> QED
      BY <2>3, <3>1, <3>2 DEF Complete, TypeOK
  <2>4. CASE Ensure(s)
    <3>1. EnsureProviderReconciliation \/ UNCHANGED vars
      BY <2>4 DEF Ensure
    <3> QED
      BY <1>1, <3>1 DEF Next, ScheduleNext
  <2>5. CASE ReserveInitial(s) \/ AuthorizeInitial(s) \/ SendInitial(s) \/ AcceptInitial(s)
             \/ Page(s) \/ Enqueue(s) \/ Refused(s) \/ RunDies(s)
    BY <1>1, <2>5 DEF ReserveInitial, AuthorizeInitial, SendInitial, AcceptInitial, Page,
       Enqueue, Refused, RunDies
  <2> QED
    BY <1>2, <2>1, <2>2, <2>3, <2>4, <2>5 DEF RunStep
<1>3. ASSUME NEW p \in Providers, HoldExpires(p) \/ HoldOverrun(p)
      PROVE  TypeOK'
  <2>1. notice' \in [Providers -> Notices]
    BY <1>3, HoldType DEF HoldExpires, HoldOverrun
  <2> QED
    BY <1>3, <2>1 DEF HoldExpires, HoldOverrun, TypeOK
<1>4. CASE Outside /\ ~\E p \in Providers : HoldExpires(p) \/ HoldOverrun(p)
  BY <1>1, <1>4, OutsideOfItem
<1> QED
  BY <1>2, <1>3, <1>4, RunOrOutside

\* Every step keeps the records of the runs well typed.
LEMMA RunsTypes ==
  ASSUME ReconcileTypeOK, [ReconcileNext]_allVars
  PROVE  RunsOK'
<1> USE ReconcileAssumption DEF ReconcileTypeOK, RunsOK
<1>1. ASSUME NEW s \in Schedulers, RunStep(s) \/ Refused(s) \/ RunDies(s)
      PROVE  RunsOK'
  <2>1. run' \in [Schedulers -> Runs]
    BY <1>1, AnyTurn DEF RunTurn, Turn
  <2>2. CASE Ensure(s) \/ Page(s) \/ \E p \in Providers : Reserve(s, p)
    BY <2>1, <2>2 DEF Ensure, Page, Reserve
  <2>9. CASE ReserveInitial(s)
    <3>1. initial' = initial \/ initial' = [state |-> "reserved", owner |-> s]
      BY <2>9 DEF ReserveInitial
    <3> QED
      BY <2>1, <2>9, <3>1 DEF ReserveInitial
  <2>3. CASE AuthorizeInitial(s) \/ AcceptInitial(s)
    BY <2>1, <2>3 DEF AuthorizeInitial, AcceptInitial
  <2>4. CASE SendInitial(s)
    BY <2>1, <2>4 DEF SendInitial, OneMore
  <2>5. CASE Enqueue(s)
    <3>1. \A p \in Providers : run[s].token[p] \in 0..MaxTokens
      BY DEF Runs
    <3>2. announced' \in [Providers -> SUBSET (0..MaxTokens)]
      BY <2>5, <3>1 DEF Enqueue
    <3> QED
      BY <2>1, <2>5, <3>2 DEF Enqueue, OneMore
  <2>6. CASE Refused(s) \/ RunDies(s)
    BY <2>1, <2>6 DEF Refused, RunDies
  <2>7. CASE \E p \in Providers : BeginEnqueue(s, p) \/ Abort(s, p)
    BY <2>1, <2>7 DEF BeginEnqueue, Abort
  <2>8. CASE \E p \in Providers : Complete(s, p)
    BY <2>1, <2>8 DEF Complete
  <2> QED
    BY <1>1, <2>2, <2>3, <2>4, <2>5, <2>6, <2>7, <2>8, <2>9 DEF RunStep
<1>2. CASE Outside
  <2>1. CASE \E p \in Providers : HoldExpires(p) \/ HoldOverrun(p) \/ NotificationAges(p)
    BY <2>1 DEF HoldExpires, HoldOverrun, NotificationAges, schedulerVars
  <2>2. CASE \E w \in Workers : Return(w)
    BY <2>2 DEF Return
  <2>3. CASE UNCHANGED schedulerVars
    BY <2>3 DEF schedulerVars
  <2> QED
    BY <1>2, <2>1, <2>2, <2>3 DEF Outside, Deliver, Die, Elsewhere, Poll, allVars
<1> QED
  BY <1>1, <1>2, RunOrOutside

-----------------------------------------------------------------------------
(* The initial message.                                                    *)

\* Only who consumes the reservation comes to send, and nobody sent before.
LEMMA SenderStep ==
  ASSUME ReconcileTypeOK, SenderIsOne, [ReconcileNext]_allVars
  PROVE  SenderIsOne'
<1> USE DEF ReconcileTypeOK
<1>1. /\ initial \in [state : {"none", "reserved", "sending", "accepted"},
                      owner : Schedulers \cup {NoScheduler}]
      /\ sends \in 0..2
  BY DEF RunsOK
<1>2. CASE Outside
  BY <1>2, OutsideFrame DEF SenderIsOne, At
<1>3. ASSUME NEW s \in Schedulers, RunStep(s) \/ Refused(s) \/ RunDies(s)
      PROVE  SenderIsOne'
  <2>1. /\ \A t \in Schedulers : t # s => run'[t] = run[t]
        /\ run'[s].pc = "send" => AuthorizeInitial(s)
    BY <1>3, AnyTurn DEF RunTurn, Turn
  <2>2. CASE AuthorizeInitial(s)
    <3>1. sends' = sends
      BY <2>2 DEF AuthorizeInitial
    <3>2. CASE initial.state = "reserved" /\ initial.owner = s
      <4>1. initial' = [initial EXCEPT !.state = "sending"]
        BY <2>2, <3>2 DEF AuthorizeInitial
      <4>2. initial'.state = "sending" /\ initial'.owner = s
        BY <1>1, <3>2, <4>1
      <4> QED
        BY <2>1, <3>1, <3>2, <4>2 DEF SenderIsOne, At
    <3>3. CASE ~(initial.state = "reserved" /\ initial.owner = s)
      <4>1. initial' = initial /\ (GoTo(s, "page") \/ Rest(s))
        BY <2>2, <3>3 DEF AuthorizeInitial
      <4>2. run'[s].pc # "send"
        BY <4>1, TurnGoTo, TurnRest DEF RunSteps
      <4> QED
        BY <2>1, <3>1, <4>1, <4>2 DEF SenderIsOne, At
    <3> QED
      BY <3>2, <3>3
  <2>3. CASE ReserveInitial(s)
    <3>1. sends' = sends /\ run'[s].pc # "send"
      BY <2>1, <2>3 DEF ReserveInitial, AuthorizeInitial, At
    <3>2. initial' = initial \/ (initial.state \in {"none", "reserved"} /\ initial'.state = "reserved")
      BY <1>1, <2>3 DEF ReserveInitial
    <3> QED
      BY <2>1, <3>1, <3>2 DEF SenderIsOne, At
  <2>4. CASE SendInitial(s)
    <3>1. initial.state = "sending" /\ initial.owner = s /\ sends = 0 /\ sends' = 1
          /\ initial' = initial
      BY <2>4 DEF SendInitial, SenderIsOne
    <3>2. run'[s].pc # "send"
      BY <2>1, <2>4 DEF SendInitial, AuthorizeInitial, At
    <3> QED
      BY <2>1, <3>1, <3>2 DEF SenderIsOne, At
  <2>5. CASE AcceptInitial(s)
    <3>1. initial.owner = s /\ initial'.state = "accepted" /\ sends' = sends
      BY <1>1, <2>5 DEF AcceptInitial
    <3>2. \A t \in Schedulers : run'[t].pc # "send"
      BY <2>1, <2>5 DEF AcceptInitial, AuthorizeInitial, SenderIsOne, At
    <3> QED
      BY <3>1, <3>2 DEF SenderIsOne, At
  <2>6. CASE ~(AuthorizeInitial(s) \/ ReserveInitial(s) \/ SendInitial(s) \/ AcceptInitial(s))
    <3>1. initial' = initial /\ sends' = sends
      BY <1>3, <2>6 DEF RunStep, Ensure, Page, Enqueue, Reserve, BeginEnqueue, Abort,
         Complete, Refused, RunDies
    <3> QED
      BY <2>1, <2>6, <3>1 DEF SenderIsOne, At
  <2> QED
    BY <2>2, <2>3, <2>4, <2>5, <2>6
<1> QED
  BY <1>2, <1>3, RunOrOutside

-----------------------------------------------------------------------------
(* Settled legs.                                                           *)

\* What a run has left to reserve was scheduled when it read the page.
LEMMA TodoStep ==
  ASSUME ReconcileTypeOK, TodoIsScheduled, [ReconcileNext]_allVars
  PROVE  TodoIsScheduled'
<1>1. CASE Outside
  BY <1>1, OutsideFrame DEF TodoIsScheduled, At
<1>2. ASSUME NEW s \in Schedulers, RunStep(s) \/ Refused(s) \/ RunDies(s)
      PROVE  TodoIsScheduled'
  BY <1>2, AnyTurn DEF RunTurn, Turn, TodoIsScheduled, At
<1> QED
  BY <1>1, <1>2, RunOrOutside

\* No operation of the item gives a settled leg a schedule.
LEMMA SettledByItem ==
  ASSUME TypeOK, SettledIsSilent, [Next]_vars
  PROVE  SettledIsSilent'
<1> SUFFICES ASSUME NEW q \in Providers, legs'[q].result # "pending_provider"
             PROVE  sched'[q].token = 0 /\ sched'[q].notified = 0 /\ notice'[q].hold = NoHold
  BY DEF SettledIsSilent
<1> DEFINE Silent == sched'[q].token = 0 /\ sched'[q].notified = 0 /\ notice'[q].hold = NoHold
<1>1. /\ legs \in [Providers -> Legs] /\ sched \in [Providers -> Schedules]
      /\ notice \in [Providers -> Notices]
      /\ legs[q] \in Legs /\ sched[q] \in Schedules /\ notice[q] \in Notices
  BY DEF TypeOK
<1>2. legs[q].result # "pending_provider" =>
        sched[q].token = 0 /\ sched[q].notified = 0 /\ notice[q].hold = NoHold
  BY DEF SettledIsSilent
<1>3. ASSUME legs'[q].result = legs[q].result, sched' = sched, notice' = notice
      PROVE  Silent
  BY <1>2, <1>3
<1>4. ASSUME NEW w \in Workers, NEW p \in Providers, NEW r \in Readings,
             RecordVerification(w, p, r)
      PROVE  Silent
  <2> DEFINE v == Verification(legs[p], r)
  <2>1. CASE p = q
    <3>1. legs'[q].result = v.result
      BY <1>1, <1>4, <2>1 DEF RecordVerification, Legs
    <3>2. /\ sched' = [sched EXCEPT ![q] = Unscheduled(sched[q])]
          /\ notice' = [notice EXCEPT ![q] = [notice[q] EXCEPT !.hold = NoHold]]
      BY <1>1, <1>4, <2>1, <3>1 DEF RecordVerification
    <3> QED
      BY <1>1, <3>2 DEF Unscheduled, Schedules, Notices
  <2>2. CASE p # q
    <3>1. legs'[q] = legs[q] /\ sched'[q] = sched[q] /\ notice'[q] = notice[q]
      BY <1>1, <1>4, <2>2 DEF RecordVerification
    <3> QED
      BY <1>2, <3>1
  <2> QED
    BY <2>1, <2>2
<1>5. ASSUME NEW w \in Workers, NEW p \in Providers, NEW beyond \in BOOLEAN,
             ScheduleReconciliation(w, p, beyond)
      PROVE  Silent
  <2>1. CASE p = q
    <3>1. CASE /\ legs' = [legs EXCEPT ![p].result = "pending_provider"]
      BY <1>1, <2>1, <3>1 DEF Legs
    <3>2. CASE /\ sched' = [sched EXCEPT ![p] = Unscheduled(@)]
               /\ notice' = [notice EXCEPT ![p].hold = NoHold]
      BY <1>1, <2>1, <3>2 DEF Unscheduled, Schedules, Notices
    <3> QED
      BY <1>5, <3>1, <3>2 DEF ScheduleReconciliation
  <2>2. CASE p # q
    <3>1. legs'[q] = legs[q] /\ sched'[q] = sched[q] /\ notice'[q] = notice[q]
      BY <1>1, <1>5, <2>2 DEF ScheduleReconciliation
    <3> QED
      BY <1>2, <3>1
  <2> QED
    BY <2>1, <2>2
<1>6. ASSUME NEW w \in Workers, NEW p \in Providers, ConsumeScheduleToken(w, p)
      PROVE  Silent
  BY <1>1, <1>2, <1>6 DEF ConsumeScheduleToken, Unscheduled, Schedules
<1>7. CASE EnsureProviderReconciliation
  BY <1>1, <1>2, <1>7 DEF EnsureProviderReconciliation, NeedsSchedule
<1>8. ASSUME NEW decision, RecordMediaReview(decision)
      PROVE  Silent
  BY <1>1, <1>2, <1>8 DEF RecordMediaReview, Schedules
<1>9. ASSUME NEW p \in Providers, TokenFallsDue(p)
      PROVE  Silent
  BY <1>1, <1>2, <1>9 DEF TokenFallsDue, Schedules
<1>10. ASSUME NEW expected, AuthorizeRecovery(expected)
      PROVE  Silent
  BY <1>1, <1>10 DEF AuthorizeRecovery, Succeeding, Legs
<1>11. ASSUME NEW w \in Workers, NEW p \in Providers,
              \/ \E op \in Ops, item \in MaybeItem : PersistIntent(w, p, op, item)
              \/ ConsumeIntent(w, p)
              \/ \E accepted \in BOOLEAN, item \in MaybeItem : RecordReceipt(w, p, accepted, item)
       PROVE  Silent
  <2>1. sched' = sched /\ notice' = notice
    BY <1>11 DEF PersistIntent, ConsumeIntent, RecordReceipt
  <2>2. ASSUME NEW op, NEW item, PersistIntent(w, p, op, item)
        PROVE  legs'[q].result = legs[q].result
    BY <1>1, <2>2 DEF PersistIntent, Legs
  <2>3. ASSUME ConsumeIntent(w, p)
        PROVE  legs'[q].result = legs[q].result
    BY <1>1, <2>3 DEF ConsumeIntent, Legs
  <2>4. ASSUME NEW accepted, NEW item, RecordReceipt(w, p, accepted, item)
        PROVE  legs'[q].result = legs[q].result
    BY <1>1, <2>4 DEF RecordReceipt, Legs
  <2> QED
    BY <1>3, <1>11, <2>1, <2>2, <2>3, <2>4
<1>12. ASSUME NEW w \in Workers, Claim(w) \/ Heartbeat(w) \/ Release(w) \/ Crash(w)
       PROVE  Silent
  BY <1>3, <1>12 DEF Claim, Heartbeat, Release, Crash, docVars
<1>13. CASE LeaseRuns \/ HorizonPasses \/ UNCHANGED vars
  BY <1>3, <1>13 DEF LeaseRuns, HorizonPasses, docVars, vars
<1>14. CASE MutationNext
  BY <1>4, <1>10, <1>11, <1>12, <1>13, <1>14 DEF MutationNext
<1>15. CASE ScheduleNext
  BY <1>5, <1>6, <1>7, <1>8, <1>9, <1>13, <1>15 DEF ScheduleNext
<1> QED
  BY <1>13, <1>14, <1>15 DEF Next

\* Nor does a step of the scheduler: what it reserves or records has a schedule.
LEMMA SettledStep ==
  ASSUME ReconcileTypeOK, TodoIsScheduled, SettledIsSilent, [ReconcileNext]_allVars
  PROVE  SettledIsSilent'
<1> USE DEF ReconcileTypeOK
<1>1. CASE [Next]_vars
  BY <1>1, SettledByItem
<1>2. /\ sched \in [Providers -> Schedules] /\ notice \in [Providers -> Notices]
      /\ \A q \in Providers : sched[q] \in Schedules /\ notice[q] \in Notices
  BY DEF TypeOK
<1>3. ASSUME legs' = legs, sched' = sched,
             NEW p \in Providers, legs[p].result = "pending_provider",
             \A q \in Providers : q # p => notice'[q] = notice[q]
      PROVE  SettledIsSilent'
  BY <1>3 DEF SettledIsSilent
<1>4. \A p \in Providers : notice[p].hold.live => legs[p].result = "pending_provider"
  BY DEF SettledIsSilent, NoHold
<1>5. ASSUME NEW s \in Schedulers, NEW p \in Providers, Reserve(s, p)
      PROVE  SettledIsSilent'
  <2>1. CASE notice' = notice
    BY <1>5, <2>1 DEF Reserve, SettledIsSilent
  <2>2. CASE notice' # notice
    <3>1. sched[p].token = run[s].token[p] /\ p \in run[s].todo /\ At(s, "reserve")
      BY <1>5, <2>2 DEF Reserve, Reservable
    <3>2. legs[p].result = "pending_provider"
      BY <3>1 DEF TodoIsScheduled, SettledIsSilent
    <3>3. \A q \in Providers : q # p => notice'[q] = notice[q]
      BY <1>2, <1>5 DEF Reserve
    <3> QED
      BY <1>3, <1>5, <3>2, <3>3 DEF Reserve
  <2> QED
    BY <2>1, <2>2
<1>6. ASSUME NEW s \in Schedulers, NEW p \in Providers, BeginEnqueue(s, p)
      PROVE  SettledIsSilent'
  <2>1. CASE notice' = notice
    BY <1>6, <2>1 DEF BeginEnqueue, SettledIsSilent
  <2>2. CASE notice[p].hold.live /\ notice' = [notice EXCEPT ![p].hold.stage = "started"]
    <3>1. \A q \in Providers : q # p => notice'[q] = notice[q]
      BY <1>2, <2>2
    <3> QED
      BY <1>3, <1>4, <1>6, <2>2, <3>1 DEF BeginEnqueue
  <2> QED
    BY <1>6, <2>1, <2>2 DEF BeginEnqueue
<1>7. ASSUME NEW s \in Schedulers, NEW p \in Providers, Abort(s, p)
      PROVE  SettledIsSilent'
  <2>1. \A q \in Providers : notice'[q] = notice[q] \/ notice'[q].hold = NoHold
    BY <1>2, <1>7 DEF Abort, Notices
  <2> QED
    BY <1>7, <2>1 DEF Abort, SettledIsSilent
<1>8. ASSUME NEW s \in Schedulers, NEW p \in Providers, Complete(s, p)
      PROVE  SettledIsSilent'
  <2>1. CASE UNCHANGED <<notice, sched>>
    BY <1>8, <2>1 DEF Complete, SettledIsSilent
  <2>2. CASE /\ notice[p].hold.live
             /\ notice' = [notice EXCEPT ![p].hold = NoHold]
             /\ sched' = [sched EXCEPT ![p].notified = run[s].token[p]]
    <3>1. \A q \in Providers : q # p => notice'[q] = notice[q] /\ sched'[q] = sched[q]
      BY <1>2, <2>2
    <3>2. legs[p].result = "pending_provider" /\ legs' = legs
      BY <1>4, <1>8, <2>2 DEF Complete
    <3> QED
      BY <3>1, <3>2 DEF SettledIsSilent
  <2> QED
    BY <1>8, <2>1, <2>2 DEF Complete
<1>9. ASSUME NEW s \in Schedulers, RunStep(s) \/ Refused(s) \/ RunDies(s)
      PROVE  SettledIsSilent'
  <2>1. CASE Ensure(s)
    <3>1. EnsureProviderReconciliation \/ UNCHANGED vars
      BY <2>1 DEF Ensure
    <3> QED
      BY <1>1, <3>1 DEF Next, ScheduleNext
  <2>2. CASE ReserveInitial(s) \/ AuthorizeInitial(s) \/ SendInitial(s) \/ AcceptInitial(s)
             \/ Page(s) \/ Enqueue(s) \/ Refused(s) \/ RunDies(s)
    BY <1>1, <2>2 DEF ReserveInitial, AuthorizeInitial, SendInitial, AcceptInitial, Page,
       Enqueue, Refused, RunDies
  <2> QED
    BY <1>5, <1>6, <1>7, <1>8, <1>9, <2>1, <2>2 DEF RunStep
<1>10. ASSUME NEW p \in Providers, HoldExpires(p) \/ HoldOverrun(p)
       PROVE  SettledIsSilent'
  <2>1. legs[p].result = "pending_provider" /\ legs' = legs /\ sched' = sched
    BY <1>4, <1>10 DEF HoldExpires, HoldOverrun
  <2>2. \A q \in Providers : q # p => notice'[q] = notice[q]
    BY <1>2, <1>10 DEF HoldExpires, HoldOverrun, Expired
  <2> QED
    BY <1>3, <2>1, <2>2
<1>11. CASE Outside /\ ~\E p \in Providers : HoldExpires(p) \/ HoldOverrun(p)
  BY <1>1, <1>11, OutsideOfItem
<1> QED
  BY <1>9, <1>10, <1>11, RunOrOutside

\* Every step is one of Outbox, or leaves legs and attempts of the item as they are:
\* what the scheduler writes of its own is the schedule and the reservation of a leg.
LEMMA ItemOrNotice ==
  ASSUME [ReconcileNext]_allVars
  PROVE  [Next]_vars \/ (legs' = legs /\ attempts' = attempts)
<1>1. ASSUME NEW s \in Schedulers, RunStep(s) \/ Refused(s) \/ RunDies(s)
      PROVE  [Next]_vars \/ (legs' = legs /\ attempts' = attempts)
  <2>1. ASSUME NEW p \in Providers,
               Reserve(s, p) \/ BeginEnqueue(s, p) \/ Abort(s, p) \/ Complete(s, p)
        PROVE  legs' = legs /\ attempts' = attempts
    BY <2>1 DEF Reserve, BeginEnqueue, Abort, Complete
  <2>2. CASE Ensure(s)
    <3>1. EnsureProviderReconciliation \/ UNCHANGED vars
      BY <2>2 DEF Ensure
    <3> QED
      BY <3>1 DEF Next, ScheduleNext
  <2>3. CASE ReserveInitial(s) \/ AuthorizeInitial(s) \/ SendInitial(s) \/ AcceptInitial(s)
             \/ Page(s) \/ Enqueue(s) \/ Refused(s) \/ RunDies(s)
    BY <2>3 DEF ReserveInitial, AuthorizeInitial, SendInitial, AcceptInitial, Page,
       Enqueue, Refused, RunDies
  <2> QED
    BY <1>1, <2>1, <2>2, <2>3 DEF RunStep
<1>2. ASSUME NEW p \in Providers, HoldExpires(p) \/ HoldOverrun(p)
      PROVE  legs' = legs /\ attempts' = attempts
  BY <1>2 DEF HoldExpires, HoldOverrun
<1> QED
  BY <1>1, <1>2, OutsideOfItem, RunOrOutside

-----------------------------------------------------------------------------
(* Results.                                                                *)

\* The initial states satisfy the invariant.
LEMMA ReconcileInvInit == ReconcileInit => RInv
<1> SUFFICES ASSUME ReconcileInit PROVE RInv
  OBVIOUS
<1>1. TypeOK
  BY TypeInit DEF ReconcileInit
<1>2. RunsOK
  <2>1. {} \in SUBSET (0..MaxTokens)
    OBVIOUS
  <2> QED
    BY <2>1, RunTypes DEF ReconcileInit, RunsOK
<1>3. SenderIsOne /\ TodoIsScheduled
  BY DEF ReconcileInit, SenderIsOne, TodoIsScheduled, At, Resting
<1>4. SettledIsSilent
  BY DEF ReconcileInit, Init, NewLeg, SettledIsSilent
<1> QED
  BY <1>1, <1>2, <1>3, <1>4 DEF RInv, ReconcileTypeOK

\* Every step preserves it.
LEMMA ReconcileInvStep == RInv /\ [ReconcileNext]_allVars => RInv'
<1> SUFFICES ASSUME RInv, [ReconcileNext]_allVars PROVE RInv'
  OBVIOUS
<1>1. ReconcileTypeOK'
  BY ItemTypes, RunsTypes DEF RInv, ReconcileTypeOK
<1> QED
  BY <1>1, SenderStep, TodoStep, SettledStep DEF RInv

\* The inductive invariant of the scheduler; no fairness is used.
THEOREM ReconcileInductive == ReconcileSpec => []RInv
BY ReconcileInvInit, ReconcileInvStep, PTL DEF ReconcileSpec

\* The initial message of an item is sent at most once by any number of runs that
\* overlap, take its reservation over and die (authorize_notification_send).
THEOREM InitialSentOnce == ReconcileSpec => []InitialSendAtMostOnce
<1>1. RInv => InitialSendAtMostOnce
  BY DEF RInv, SenderIsOne, InitialSendAtMostOnce
<1> QED
  BY <1>1, ReconcileInductive, PTL

\* A settled leg has no schedule, reservation or notification left, whatever the
\* worker settles in the middle of a run (record_verification).
THEOREM SettledStaysSilent == ReconcileSpec => []SettledIsSilent
<1>1. RInv => SettledIsSilent
  BY DEF RInv
<1> QED
  BY <1>1, ReconcileInductive, PTL

\* No scheduler rewrites an attempt that is over, and no worker does under its
\* messages, whatever runs overlap (release, authorize_recovery, run_once).
THEOREM ReconcileKeepsHistory == ReconcileSpec => HistoryIsImmutable
<1>1. ASSUME RInv, [ReconcileNext]_allVars PROVE [KeepsHistory]_vars
  <2>1. TypeOK
    BY <1>1 DEF RInv, ReconcileTypeOK
  <2>2. CASE [Next]_vars
    BY <2>1, <2>2, HistoryStep
  <2>3. CASE legs' = legs /\ attempts' = attempts
    BY <2>3 DEF KeepsHistory
  <2> QED
    BY <1>1, <2>2, <2>3, ItemOrNotice
<1>2. RInv /\ [ReconcileNext]_allVars => [KeepsHistory]_vars
  BY <1>1
<1> QED
  BY <1>2, ReconcileInductive, PTL DEF ReconcileSpec, HistoryIsImmutable, KeepsHistory

\* Nor does one lose a mutation whose outcome nobody knows, within its attempt.
THEOREM ReconcileKeepsUnknown == ReconcileSpec => UnknownIsKept
<1>1. ASSUME RInv, [ReconcileNext]_allVars
      PROVE  [\A p \in Providers : KeepsUnknown(p)]_vars
  <2>1. TypeOK
    BY <1>1 DEF RInv, ReconcileTypeOK
  <2>2. CASE [Next]_vars
    BY <2>1, <2>2, KeepsUnknownStep
  <2>3. ASSUME legs' = legs, attempts' = attempts, NEW p \in Providers
        PROVE  KeepsUnknown(p)
    BY <2>3 DEF KeepsUnknown
  <2> QED
    BY <1>1, <2>2, <2>3, ItemOrNotice
<1>2. RInv /\ [ReconcileNext]_allVars => [\A p \in Providers : KeepsUnknown(p)]_vars
  BY <1>1
<1> QED
  BY <1>2, ReconcileInductive, PTL DEF ReconcileSpec, UnknownIsKept, KeepsUnknown

=============================================================================
