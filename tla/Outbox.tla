------------------------------- MODULE Outbox -------------------------------
(***************************************************************************)
(* One durable outbox item of src/podcaster/distribution_outbox.py and the *)
(* operations of DistributionOutboxRepository on it.  Every operation is   *)
(* one compare-and-swap of the whole document (_update), so every          *)
(* operation is one action.  The clients are worker executions that hold   *)
(* Claim objects: an execution may be slow, may call any operation its     *)
(* claim still admits, in any order, and may die holding the claim.        *)
(*                                                                         *)
(* Abstractions.  Time is a stage per deadline: a claim's lease is "ample" *)
(* (longer than provider timeout + receipt margin), "short" or "expired";  *)
(* the verification horizon is open or not; a schedule token is due or     *)
(* not.  UUIDs and SHA-256 digests are numbers drawn in order.  The events *)
(* of an attempt are kept as what later decisions read of them: whether    *)
(* the record still equals the one it was authorised with (`fresh') and    *)
(* the fences of its mutation-capable claims (`granted').  The label       *)
(* document["state"], which no operation reads, is left out.               *)
(***************************************************************************)
EXTENDS Integers, Sequences

CONSTANTS
  Workers,      \* executions that may claim the item
  NoWorker,     \* the owner of an absent claim
  Providers,    \* the requested provider legs
  Ops,          \* the mutating operations of a provider adapter
  Items,        \* provider item identities
  NoItem,       \* an absent provider item identity
  Readings,     \* the verifications a client may record
  Budget,       \* verification_budget of a leg
  MaxChecks,    \* bound on the verifications of a leg
  MaxFence,     \* bound on the claims ever taken
  MaxAttempts,  \* bound on the attempts of the item
  MaxIntents,   \* bound on the intents ever created
  MaxReceipts,  \* bound on the receipts of a leg
  MaxTokens,    \* bound on the schedule tokens of a leg
  MaxHolds      \* bound on the notification reservations of a leg

Results == {"pending_provider", "externally_verified_public",
            "publication_unknown", "manual_handoff_required", "partial",
            "failed_retryable_pre_mutation", "failed_terminal", "poisoned",
            "identity_conflict"}

Outcomes == {"published_verified", "identity_conflict", "provider_unknown",
             "manual_action_required", "partial", "failed_terminal"}

WeeklyStates == Outcomes \cup {"published_verified_recovered", "pending"}

MaybeItem == Items \cup {NoItem}

Reading == [result : Results, item : MaybeItem,
            native : {"none", "hidden", "public"},
            readback : BOOLEAN, proof : BOOLEAN]

ASSUME OutboxAssumption ==
  /\ NoWorker \notin Workers
  /\ NoItem \notin Items
  /\ Providers # {}
  /\ Readings \subseteq Reading
  /\ Budget \in Nat
  /\ MaxChecks \in Nat
  /\ MaxFence \in Nat
  /\ MaxAttempts \in Nat \ {0}
  /\ MaxIntents \in Nat
  /\ MaxReceipts \in Nat
  /\ MaxTokens \in Nat \ {0}
  /\ MaxHolds \in Nat

VARIABLES
  fence,     \* document["fencing_token"]
  claim,     \* document["claim"]
  attempts,  \* document["attempts"], each recovery with its authorisation
  legs,      \* document["providers"]: intent, receipts, verification, result
  sched,     \* document["providers"]: the reconciliation schedule of a leg
  notice,    \* document["providers"]: the reservation of a notification
  weekly,    \* document["weekly_aggregation"]["state"]
  review,    \* document["media_review"]
  horizon,   \* the verification horizon is still ahead
  lastId,    \* intents ever created
  held       \* the Claim object each execution holds in memory

docVars == <<fence, claim, attempts, legs, sched, notice, weekly, review, lastId>>
vars == <<docVars, horizon, held>>

NoClaim == [owner |-> NoWorker, fence |-> 0, readOnly |-> TRUE,
            attempt |-> 0, lease |-> "expired"]

Claims == [owner : Workers, fence : 1..MaxFence, readOnly : BOOLEAN,
           attempt : 1..MaxAttempts, lease : {"ample", "short", "expired"}]

NoIntent == [id |-> 0, op |-> "none", expected |-> NoItem,
             consumed |-> 0, attempt |-> 0]

\* `consumed' is the consuming fence, 0 before consumption.
Intents == [id : 1..MaxIntents, op : Ops, expected : MaybeItem,
            consumed : 0..MaxFence, attempt : 0..MaxAttempts]

Receipts == [intent : 1..MaxIntents, op : Ops, attempt : 1..MaxAttempts,
             fence : 1..MaxFence, accepted : BOOLEAN, item : MaybeItem]

NoVerification == [result |-> "none", item |-> NoItem, native |-> "none",
                   readback |-> FALSE, green |-> FALSE]

Verifications == [result : Results, item : MaybeItem,
                  native : {"none", "hidden", "public"},
                  readback : BOOLEAN, green : BOOLEAN]

Evidence == [result : Results,
             verif : Verifications \cup {NoVerification},
             intent : Intents \cup {NoIntent},
             receipts : Seq(Receipts)]

NoEvidence == [result |-> "pending_provider", verif |-> NoVerification,
               intent |-> NoIntent, receipts |-> << >>]

Legs == [result : Results,
         verif : Verifications \cup {NoVerification},
         intent : Intents \cup {NoIntent},
         receipts : Seq(Receipts),
         checks : 0..MaxChecks]

NewLeg == [result |-> "pending_provider", verif |-> NoVerification,
           intent |-> NoIntent, receipts |-> << >>, checks |-> 0]

\* A schedule: the active token (0 if none), who set it, when it falls due
\* ("never" is a token without next_reconcile_at), the tokens issued so far
\* and the last one a notification was recorded for.
Schedules == [token : 0..MaxTokens, source : {"none", "initial", "worker"},
              due : {"never", "later", "now"}, issued : 0..MaxTokens,
              notified : 0..MaxTokens]

NewSchedule == [token |-> 0, source |-> "none", due |-> "never",
                issued |-> 0, notified |-> 0]

\* The reservation of one notification: its id (notification_fence when it
\* was taken), the token it was taken for, its stage and its lease.
Holds == [id : 0..MaxHolds, token : 0..MaxTokens,
          stage : {"none", "reserved", "started"}, live : BOOLEAN]

NoHold == [id |-> 0, token |-> 0, stage |-> "none", live |-> FALSE]

\* `fence' is notification_fence, the reservations ever taken.
Notices == [fence : 0..MaxHolds, hold : Holds]

Unscheduled(s) == [s EXCEPT !.token = 0, !.source = "none", !.due = "never",
                            !.notified = 0]

Scheduled(s, who) ==
  [s EXCEPT !.token = s.issued + 1, !.issued = s.issued + 1, !.source = who,
            !.due = "later", !.notified = 0]

Attempts == [outcome : Outcomes \cup {"none"},
             evidence : [Providers -> Evidence],
             readbacks : Seq([provider : Providers, verif : Verifications]),
             expected : [Providers -> MaybeItem],
             granted : SUBSET (1..MaxFence),
             fresh : BOOLEAN]

NewAttempt(expected) ==
  [outcome |-> "none", evidence |-> [p \in Providers |-> NoEvidence],
   readbacks |-> << >>, expected |-> expected, granted |-> {}, fresh |-> TRUE]

-----------------------------------------------------------------------------
(* What a document says.                                                   *)

Last == Len(attempts)

Active == attempts[Last]

Terminal == Active.outcome # "none"

\* The attempts with the active one rewritten.
Amend(as, a) == [as EXCEPT ![Len(as)] = a]

\* Every event appended to an attempt ends its initial record.
Touched(a) == [a EXCEPT !.fresh = FALSE]

AllowsDistribution == review \in {"absent", "approved"}

Resolves(intent, receipts) ==
  \E k \in DOMAIN receipts :
    receipts[k].intent = intent.id /\ receipts[k].accepted

\* A mutation that may have reached the provider and has no accepted receipt.
Unresolved(leg) ==
  /\ leg.intent.consumed # 0
  /\ ~Resolves(leg.intent, leg.receipts)

AllPublicOrHandedOver(ls) ==
  \A p \in Providers :
    \/ ls[p].result = "manual_handoff_required"
    \/ ls[p].result = "externally_verified_public" /\ ls[p].verif.green

AllPublic(ls) ==
  \A p \in Providers :
    ls[p].result = "externally_verified_public" /\ ls[p].verif.green

Normalized(result) ==
  CASE result = "publication_unknown" -> "provider_unknown"
    [] result = "manual_handoff_required" -> "manual_action_required"
    [] result = "poisoned" -> "failed_terminal"
    [] result \in {"failed_retryable_pre_mutation", "pending_provider"} ->
         "pending"
    [] OTHER -> result

PriorOutcomes(as) ==
  {as[i].outcome : i \in 1..(Len(as) - 1)} \ {"none", "published_verified"}

\* The verified items are the ones the recovery was authorised for.
MatchesAuthorization(ls, as) ==
  \A p \in Providers :
    /\ ls[p].verif.item = as[Len(as)].expected[p]
    /\ ls[p].verif.native = "public"
    /\ ls[p].verif.readback

WeeklyPublic(ls, as) ==
  IF "identity_conflict" \in PriorOutcomes(as) THEN "identity_conflict"
  ELSE IF "provider_unknown" \in PriorOutcomes(as) THEN "provider_unknown"
  ELSE IF PriorOutcomes(as) = {} THEN "published_verified"
  ELSE IF Len(as) > 1 /\ MatchesAuthorization(ls, as)
       THEN "published_verified_recovered"
  ELSE "identity_conflict"

WeeklyPrivate(candidates) ==
  IF "identity_conflict" \in candidates THEN "identity_conflict"
  ELSE IF "provider_unknown" \in candidates THEN "provider_unknown"
  ELSE IF "manual_action_required" \in candidates
       THEN "manual_action_required"
  ELSE IF candidates \cap {"partial", "externally_verified_public"} # {}
       THEN "partial"
  ELSE IF candidates = {"failed_terminal"} THEN "failed_terminal"
  ELSE "pending"

WeeklyOf(ls, as) ==
  IF AllPublic(ls) THEN WeeklyPublic(ls, as)
  ELSE WeeklyPrivate({Normalized(ls[p].result) : p \in Providers})

RefreshAggregateFirst == weekly' = WeeklyOf(legs, attempts)

\* The decision over the document as the operation leaves it.
RefreshAggregate == weekly' = WeeklyOf(legs', attempts')

OutcomeAsDecided(state) == IF state = "pending" THEN "none" ELSE state

OutcomeOf(state) ==
  IF state = "published_verified_recovered" THEN "published_verified"
  ELSE IF state = "pending" THEN "none"
  ELSE state

-----------------------------------------------------------------------------
(* What a claim admits.                                                    *)

RequireClaim(w) ==
  /\ held[w].fence # 0
  /\ claim.owner = w
  /\ claim.fence = held[w].fence
  /\ fence = held[w].fence
  /\ claim.lease # "expired"

\* The recovery authorisation is bound to records that no operation rewrites
\* once a successor exists, so a successor that merely progressed keeps it.
RequireMutation(w) ==
  /\ RequireClaim(w)
  /\ ~claim.readOnly
  /\ AllowsDistribution

-----------------------------------------------------------------------------
(* The operations.                                                         *)

MayOnlyReadUnlessClosed == Terminal \/ (Last > 1 /\ ~Active.fresh)
MayOnlyReadWhileOpen ==
  (Last > 1 /\ ~Active.fresh) \/ \E p \in Providers : Unresolved(legs[p])
MayOnlyReadOnce == Terminal \/ \E p \in Providers : Unresolved(legs[p])

\* A claim reconciles only when the attempt is closed, when it is a recovery
\* that somebody already worked on, or when a mutation may be under way.
MayOnlyRead ==
  \/ Terminal
  \/ Last > 1 /\ ~Active.fresh
  \/ \E p \in Providers : Unresolved(legs[p])

Claim(w) ==
  LET taken == [owner |-> w, fence |-> fence + 1, attempt |-> Last,
                readOnly |-> MayOnlyRead, lease |-> "ample"]
  IN /\ held[w] = NoClaim
     /\ AllowsDistribution
     /\ claim.lease = "expired"
     /\ fence < MaxFence
     /\ fence' = fence + 1
     /\ claim' = taken
     /\ held' = [held EXCEPT ![w] = taken]
     /\ attempts' = Amend(attempts,
          [Touched(Active) EXCEPT !.granted =
             IF taken.readOnly THEN @ ELSE @ \cup {fence + 1}])
     /\ UNCHANGED <<legs, sched, notice, weekly, review, lastId, horizon>>

Heartbeat(w) ==
  /\ RequireClaim(w)
  /\ claim' = [claim EXCEPT !.lease = "ample"]
  /\ UNCHANGED <<fence, attempts, legs, sched, notice, weekly, review, lastId,
                 horizon, held>>

PriorConsumed(intent, receipts) == intent # NoIntent => intent.consumed # 0

PriorResolved(intent, receipts) ==
  intent # NoIntent => intent.consumed # 0 /\ Resolves(intent, receipts)

\* An intent for the operation the leg already has an intent for is returned
\* as it is; any other operation waits for the receipt of the previous one.
PersistIntent(w, p, op, item) ==
  /\ RequireMutation(w)
  /\ Last > 1 => item # NoItem /\ item = Active.expected[p]
  /\ legs[p].intent.op # op
  /\ PriorResolved(legs[p].intent, legs[p].receipts)
  /\ lastId < MaxIntents
  /\ lastId' = lastId + 1
  /\ legs' = [legs EXCEPT ![p].intent =
                [id |-> lastId + 1, op |-> op, expected |-> item,
                 consumed |-> 0, attempt |-> 0]]
  /\ attempts' = Amend(attempts, Touched(Active))
  /\ UNCHANGED <<fence, claim, sched, notice, weekly, review, horizon, held>>

ConsumeIntent(w, p) ==
  /\ RequireMutation(w)
  /\ legs[p].intent # NoIntent
  /\ legs[p].intent.consumed = 0
  /\ claim.lease = "ample"
  /\ legs' = [legs EXCEPT ![p].intent.consumed = claim.fence,
                          ![p].intent.attempt = held[w].attempt]
  /\ attempts' = Amend(attempts, Touched(Active))
  /\ UNCHANGED <<fence, claim, sched, notice, weekly, review, lastId, horizon,
                 held>>

\* `accepted' is transport_class = "accepted" and not ambiguous.
RecordReceipt(w, p, accepted, item) ==
  /\ RequireClaim(w)
  /\ legs[p].intent.consumed # 0
  /\ Len(legs[p].receipts) < MaxReceipts
  /\ legs' = [legs EXCEPT ![p].receipts =
                Append(@, [intent |-> legs[p].intent.id,
                           op |-> legs[p].intent.op,
                           attempt |-> held[w].attempt, fence |-> claim.fence,
                           accepted |-> accepted, item |-> item])]
  /\ attempts' = Amend(attempts, Touched(Active))
  /\ UNCHANGED <<fence, claim, sched, notice, weekly, review, lastId, horizon,
                 held>>

\* Every identity the leg has ever been bound to in this attempt.
KnownItems(leg) ==
  ({leg.receipts[k].item : k \in DOMAIN leg.receipts}
     \cup {leg.intent.expected, leg.verif.item}) \ {NoItem}

VerificationProof(leg, r) ==
  /\ r.proof
  /\ r.readback
  /\ r.native = "public"
  /\ r.item # NoItem
  /\ KnownItems(leg) = {r.item}

Verification(leg, r) ==
  LET green == VerificationProof(leg, r)
  IN [result |-> IF r.result = "externally_verified_public" /\ ~green
                 THEN "identity_conflict" ELSE r.result,
      item |-> r.item, native |-> r.native, readback |-> r.readback,
      green |-> green]

RecordVerification(w, p, r) ==
  LET v == Verification(legs[p], r)
      leg == [legs[p] EXCEPT !.verif = v, !.result = v.result,
                             !.checks = @ + 1]
  IN /\ RequireClaim(w)
     /\ legs[p].checks < MaxChecks
     /\ legs' = [legs EXCEPT ![p] = leg]
     /\ attempts' = Amend(attempts,
          [Touched(Active) EXCEPT !.readbacks =
             IF Terminal THEN Append(@, [provider |-> p, verif |-> v])
             ELSE @])
     /\ IF v.result = "pending_provider"
        THEN /\ sched' = [sched EXCEPT ![p].due = "never"]
             /\ UNCHANGED notice
        ELSE /\ sched' = [sched EXCEPT ![p] = Unscheduled(@)]
             /\ notice' = [notice EXCEPT ![p].hold = NoHold]
     /\ RefreshAggregate
     /\ UNCHANGED <<fence, claim, review, lastId, horizon, held>>

Exhausted(p, beyond) == legs[p].checks >= Budget \/ ~horizon \/ beyond

\* `beyond': the requested time lies past the verification horizon.
ScheduleReconciliation(w, p, beyond) ==
  /\ RequireClaim(w)
  /\ \/ /\ Exhausted(p, beyond)
        /\ legs' = [legs EXCEPT
             ![p].result = "manual_handoff_required",
             ![p].verif = IF @ = NoVerification THEN @
                          ELSE [@ EXCEPT
                                 !.result = "manual_handoff_required"]]
        /\ sched' = [sched EXCEPT ![p] = Unscheduled(@)]
        /\ notice' = [notice EXCEPT ![p].hold = NoHold]
        /\ attempts' = Amend(attempts, Touched(Active))
     \/ /\ ~Exhausted(p, beyond)
        /\ sched[p].source # "worker"
        /\ sched[p].issued < MaxTokens
        /\ legs' = [legs EXCEPT ![p].result = "pending_provider"]
        /\ sched' = [sched EXCEPT ![p] = Scheduled(@, "worker")]
        /\ UNCHANGED <<notice, attempts>>
  /\ RefreshAggregate
  /\ UNCHANGED <<fence, claim, review, lastId, horizon, held>>

ConsumeScheduleToken(w, p) ==
  /\ RequireClaim(w)
  /\ sched[p].token # 0
  /\ sched[p].due = "now"
  /\ sched' = [sched EXCEPT ![p] = Unscheduled(@)]
  /\ UNCHANGED <<fence, claim, attempts, legs, notice, weekly, review, lastId,
                 horizon, held>>

Snapshot(leg) == [result |-> leg.result, verif |-> leg.verif,
                  intent |-> leg.intent, receipts |-> leg.receipts]

\* A reviewed leg that is still pending keeps its attempt open.
KeepsAttempt ==
  /\ weekly \in {"partial", "manual_action_required"}
  /\ review = "approved"
  /\ \E p \in Providers : legs[p].result = "pending_provider"

NewestOutcome == IF KeepsAttempt THEN "none" ELSE OutcomeOf(weekly)

\* The outcome a release gives an attempt that has none.
NewOutcome == IF KeepsAttempt \/ Terminal THEN "none" ELSE OutcomeOf(weekly)

Release(w) ==
  /\ RequireClaim(w)
  /\ attempts' =
       IF NewOutcome = "none" THEN attempts
       ELSE Amend(attempts,
              [Touched(Active) EXCEPT
                 !.outcome = NewOutcome,
                 !.evidence = [p \in Providers |-> Snapshot(legs[p])]])
  /\ claim' = NoClaim
  /\ held' = [held EXCEPT ![w] = NoClaim]
  /\ UNCHANGED <<fence, legs, sched, notice, weekly, review, lastId, horizon>>

-----------------------------------------------------------------------------
(* Recovery: an operator starts a new attempt after a terminal one.        *)

\* What a terminal attempt that did not plainly fail must prove: one consumed
\* mutation per leg with its one accepted receipt on the expected item, and
\* one later readback per leg that found this item dead.
StrictlyResolved(i) ==
  LET ev == attempts[i].evidence
      rb == attempts[i].readbacks
  IN /\ \A p \in Providers :
          /\ ev[p].intent.consumed # 0
          /\ ev[p].intent.attempt = i
          /\ ev[p].intent.expected # NoItem
          /\ Len(ev[p].receipts) = 1
          /\ ev[p].receipts[1].intent = ev[p].intent.id
          /\ ev[p].receipts[1].op = ev[p].intent.op
          /\ ev[p].receipts[1].attempt = i
          /\ ev[p].receipts[1].accepted
          /\ ev[p].receipts[1].item = ev[p].intent.expected
          /\ ev[p].receipts[1].fence = ev[p].intent.consumed
          /\ ev[p].verif.item \in {NoItem, ev[p].intent.expected}
     /\ \A j, k \in DOMAIN rb : rb[j].provider = rb[k].provider => j = k
     /\ \A p \in Providers : \E k \in DOMAIN rb :
          /\ rb[k].provider = p
          /\ rb[k].verif.result = "failed_terminal"
          /\ rb[k].verif.readback
          /\ rb[k].verif.item = ev[p].intent.expected
          /\ rb[k].verif.native # "none"

\* What a plainly failed attempt must prove: its snapshot holds no unknown
\* result and no ambiguous receipt, and binds each leg to one receipt.
PlainlyFailed(i) ==
  LET ev == attempts[i].evidence
  IN /\ attempts[i].outcome = "failed_terminal"
     /\ \A p \in Providers :
          /\ ev[p].result # "publication_unknown"
          /\ \A k \in DOMAIN ev[p].receipts : ev[p].receipts[k].accepted
          /\ ev[p].verif # NoVerification
          /\ IF ev[p].intent = NoIntent THEN ev[p].receipts = << >>
             ELSE Len(ev[p].receipts) = 1

RecoveryEvidenceAssumed(i) == attempts[i].outcome # "none"

RecoveryEvidence(i) ==
  \/ PlainlyFailed(i)
  \/ attempts[i].outcome # "failed_terminal" /\ StrictlyResolved(i)

SucceedingKeepsReceipts(leg) ==
  [leg EXCEPT !.result = "pending_provider", !.verif = NoVerification,
              !.intent = NoIntent]

\* A leg as a new attempt starts it; its checks still count.
Succeeding(leg) ==
  [leg EXCEPT !.result = "pending_provider", !.verif = NoVerification,
              !.intent = NoIntent, !.receipts = << >>]

AuthorizeRecovery(expected) ==
  /\ Terminal
  /\ RecoveryEvidence(Last)
  /\ Last < MaxAttempts
  /\ attempts' = Append(attempts, NewAttempt(expected))
  /\ legs' = [p \in Providers |-> Succeeding(legs[p])]
  /\ RefreshAggregate
  /\ UNCHANGED <<fence, claim, sched, notice, review, lastId, horizon, held>>

-----------------------------------------------------------------------------
(* Scheduling, review, and the environment.                                *)

NeedsSchedule(p) ==
  legs[p].result = "pending_provider" /\ sched[p].token = 0

\* A replayed enqueue, and the scheduler's repair, give every pending leg
\* that has no schedule an initial one.
EnsureProviderReconciliation ==
  /\ \E p \in Providers : NeedsSchedule(p)
  /\ \A p \in Providers : NeedsSchedule(p) => sched[p].issued < MaxTokens
  /\ sched' = [p \in Providers |->
       IF NeedsSchedule(p) THEN Scheduled(sched[p], "initial") ELSE sched[p]]
  /\ notice' = [p \in Providers |->
       IF NeedsSchedule(p) THEN [notice[p] EXCEPT !.hold = NoHold]
       ELSE notice[p]]
  /\ UNCHANGED <<fence, claim, attempts, legs, weekly, review, lastId, horizon,
                 held>>

\* A human decides once, on an item nobody has worked on.
RecordMediaReview(decision) ==
  /\ review = "pending"
  /\ claim = NoClaim
  /\ \A p \in Providers : legs[p].intent = NoIntent /\ legs[p].receipts = << >>
  /\ review' = decision
  /\ IF decision = "approved"
     THEN /\ horizon' = TRUE
          /\ sched' = [p \in Providers |->
               IF legs[p].result = "pending_provider"
               THEN Scheduled(sched[p], "initial")
               ELSE [sched[p] EXCEPT !.token = 0]]
          /\ notice' = [p \in Providers |->
               IF legs[p].result = "pending_provider"
               THEN [notice[p] EXCEPT !.hold = NoHold] ELSE notice[p]]
     ELSE UNCHANGED <<horizon, sched, notice>>
  /\ \A p \in Providers : sched[p].issued < MaxTokens
  /\ UNCHANGED <<fence, claim, attempts, legs, weekly, lastId, held>>

LeaseRuns ==
  /\ claim.lease # "expired"
  /\ claim' = [claim EXCEPT !.lease =
                 IF @ = "ample" THEN "short" ELSE "expired"]
  /\ UNCHANGED <<fence, attempts, legs, sched, notice, weekly, review, lastId,
                 horizon, held>>

HorizonPasses ==
  /\ horizon
  /\ horizon' = FALSE
  /\ UNCHANGED <<docVars, held>>

TokenFallsDue(p) ==
  /\ sched[p].due = "later"
  /\ sched' = [sched EXCEPT ![p].due = "now"]
  /\ UNCHANGED <<fence, claim, attempts, legs, notice, weekly, review, lastId,
                 horizon, held>>

\* An execution dies, or returns without releasing; its claim object is lost
\* and the claim in the document stays until its lease runs out.
Crash(w) ==
  /\ held[w] # NoClaim
  /\ held' = [held EXCEPT ![w] = NoClaim]
  /\ UNCHANGED <<docVars, horizon>>

\* The item as its first enqueue leaves it.
Init ==
  /\ fence = 0
  /\ claim = NoClaim
  /\ attempts = <<NewAttempt([p \in Providers |-> NoItem])>>
  /\ legs = [p \in Providers |-> NewLeg]
  /\ sched = [p \in Providers |-> Scheduled(NewSchedule, "initial")]
  /\ notice = [p \in Providers |-> [fence |-> 0, hold |-> NoHold]]
  /\ weekly = "pending"
  /\ review \in {"absent", "pending"}
  /\ lastId = 0
  /\ horizon = TRUE
  /\ held = [w \in Workers |-> NoClaim]

\* Claims, mutations and recoveries, under expiring leases and crashes.
MutationNext ==
  \/ \E w \in Workers :
       \/ Claim(w)
       \/ Heartbeat(w)
       \/ Release(w)
       \/ Crash(w)
       \/ \E p \in Providers :
            \/ \E op \in Ops, item \in MaybeItem : PersistIntent(w, p, op, item)
            \/ ConsumeIntent(w, p)
            \/ \E accepted \in BOOLEAN, item \in MaybeItem :
                 RecordReceipt(w, p, accepted, item)
            \/ \E r \in Readings : RecordVerification(w, p, r)
  \/ \E expected \in [Providers -> Items] : AuthorizeRecovery(expected)
  \/ LeaseRuns

\* Reconciliation schedules, the media review and the horizon.
ScheduleNext ==
  \/ \E w \in Workers, p \in Providers :
       \/ \E beyond \in BOOLEAN : ScheduleReconciliation(w, p, beyond)
       \/ ConsumeScheduleToken(w, p)
  \/ EnsureProviderReconciliation
  \/ \E decision \in {"approved", "rejected"} : RecordMediaReview(decision)
  \/ HorizonPasses
  \/ \E p \in Providers : TokenFallsDue(p)

Next == MutationNext \/ ScheduleNext

Spec == Init /\ [][Next]_vars

-----------------------------------------------------------------------------
(* Properties.                                                             *)

\* Every field has its type.
TypeOK ==
  /\ fence \in 0..MaxFence
  /\ claim \in Claims \cup {NoClaim}
  /\ attempts \in Seq(Attempts)
  /\ Len(attempts) \in 1..MaxAttempts
  /\ legs \in [Providers -> Legs]
  /\ sched \in [Providers -> Schedules]
  /\ notice \in [Providers -> Notices]
  /\ weekly \in WeeklyStates
  /\ review \in {"absent", "pending", "approved", "rejected"}
  /\ lastId \in 0..MaxIntents
  /\ horizon \in BOOLEAN
  /\ held \in [Workers -> Claims \cup {NoClaim}]

\* Once a mutation may have reached the provider and its receipt is missing,
\* only the claim that consumed it may still mutate: every takeover of the
\* item is reconciliation-only, whatever expired, crashed or came late
\* (claim, the has_receipt scan over the legs).
UnknownIsFenced ==
  \A p \in Providers :
    Unresolved(legs[p]) /\ ~claim.readOnly =>
      legs[p].intent.consumed = claim.fence

\* A mutation-capable claim, even one whose lease ran out, belongs to the
\* attempt that is active and open: no recovery can slip under a worker that
\* may still mutate (claim and authorize_recovery).
MutatorOwnsAttempt ==
  ~claim.readOnly => claim.attempt = Last /\ ~Terminal

\* An authorised recovery grants at most one mutation-capable claim over its
\* whole life, however many executions race for it or die holding it (claim,
\* the unchanged-successor test of _recovery_authorization_binding_is_valid).
SingleRecoveryGrant ==
  \A i \in 2..Last : \A f, g \in attempts[i].granted : f = g

\* The intent and the receipts frozen in a terminal attempt were consumed and
\* recorded in that attempt, never by a claim of an earlier or later one
\* (consume_intent and record_receipt write claim.attempt_id; release).
EvidenceIsOwn ==
  \A i \in 1..Last, p \in Providers :
    LET ev == attempts[i].evidence[p]
    IN /\ ev.intent.consumed # 0 => ev.intent.attempt = i
       /\ \A k \in DOMAIN ev.receipts : ev.receipts[k].attempt = i

\* The stored weekly decision is the one the legs and attempts imply: no
\* operation leaves a stale decision for release to act on (every caller of
\* _refresh_aggregate, and every operation that does not call it).
DecisionIsCurrent == weekly = WeeklyOf(legs, attempts)

\* An attempt that ended published_verified froze an authoritative public
\* readback of every leg, and a recovered one of exactly the items it was
\* authorised for (record_verification, release).
WinnerIsProven ==
  \A i \in 1..Last : attempts[i].outcome = "published_verified" =>
    \A p \in Providers :
      LET ev == attempts[i].evidence[p]
      IN /\ ev.result = "externally_verified_public"
         /\ ev.verif.green
         /\ (\E j \in 1..(i - 1) : attempts[j].outcome # "published_verified")
              => ev.verif.item = attempts[i].expected[p]

\* Recovery never rewrites history: an attempt keeps its outcome and its
\* evidence once it has them, and a superseded attempt does not change at all.
HistoryIsImmutable ==
  [][\A i \in DOMAIN attempts :
       /\ i \in DOMAIN attempts'
       /\ i < Last => attempts'[i] = attempts[i]
       /\ attempts[i].outcome # "none" =>
            /\ attempts'[i].outcome = attempts[i].outcome
            /\ attempts'[i].evidence = attempts[i].evidence]_vars

\* A mutation of unknown outcome is never replaced or forgotten by a worker:
\* within its attempt it keeps its intent and every receipt recorded for it,
\* so that only a further accepted receipt of its own can resolve it.
UnknownIsKept ==
  [][\A p \in Providers :
       Unresolved(legs[p]) /\ Len(attempts') = Len(attempts) =>
         /\ legs'[p].intent = legs[p].intent
         /\ \A k \in DOMAIN legs[p].receipts :
              /\ k \in DOMAIN legs'[p].receipts
              /\ legs'[p].receipts[k] = legs[p].receipts[k]]_vars

=============================================================================
