------------------------------ MODULE Dispatch ------------------------------
(***************************************************************************)
(* The distribution worker (src/podcaster/distribution_worker.py) and the  *)
(* reviewed-video dispatcher (src/podcaster/distribution_dispatch.py) on   *)
(* one outbox item.  An execution receives a queue message, claims the     *)
(* item, walks over its provider legs and deletes the message; it may die, *)
(* raise or stall at any step, its message may come back at any time, and  *)
(* a request it sent may reach the provider after it is gone.              *)
(*                                                                         *)
(* Every step is one repository operation or one provider answer.  A step  *)
(* that only reads the document or the provider leaves the Outbox          *)
(* variables alone.  An exception outside mutate has the same effect as a  *)
(* crash of the execution: Abandon.  The two adapters share one walk; the  *)
(* legs a survey finds are taken in any order.  An upload is one request    *)
(* that makes a new, hidden item (upload_to_youtube refuses to make it     *)
(* public).                                                                *)
(***************************************************************************)
EXTENDS Outbox, FiniteSets

CONSTANTS
  Youtube,     \* the providers the YouTube adapter serves; Spotify the others
  Listing,     \* those of them with a playlist configured
  Messages,    \* queue messages that carry the item
  MaxDequeue,  \* max_dequeue_count
  NoMessage,
  NoLeg

ASSUME DispatchAssumption ==
  /\ Listing \subseteq Youtube /\ Youtube \subseteq Providers
  /\ Items = 1..MaxIntents
  /\ Reading \subseteq Readings
  /\ Ops = {"create", "insert", "publish"}
  /\ MaxDequeue \in Nat \ {0}
  /\ NoMessage \notin Messages
  /\ NoLeg \notin Providers

VARIABLES
  hinted,  \* the authority for the one initial send is used up
  msg,     \* the queue: each message, its dequeue_count and its last receiver
  job,     \* what each execution is doing
  flight,  \* the mutating requests on their way to a provider
  done     \* the mutating requests that took effect

dispatchVars == <<msg, hinted, job, flight, done>>
allVars == <<vars, dispatchVars>>

\* `final': the delivery reached max_dequeue_count.  `stuck': a create may
\* already be under way, or the claim is read-only.  `seen': the visibility
\* the last readback of the item found.
Idle == [pc |-> "idle", msg |-> NoMessage, final |-> FALSE, todo |-> {},
         active |-> {}, leg |-> NoLeg, op |-> "none", item |-> NoItem,
         stuck |-> FALSE, seen |-> "none"]

Deleted == [state |-> "absent", dequeues |-> 0, holder |-> NoWorker]

Sent == [state |-> "visible", dequeues |-> 0, holder |-> NoWorker]

\* The items a provider has, and the public ones.
Made(p) == {r.item : r \in {q \in done : q.leg = p /\ q.op = "create"}}
Public(p) == {r.item : r \in {q \in done : q.leg = p /\ q.op = "publish"}}
Listed(p) == {r.item : r \in {q \in done : q.leg = p /\ q.op = "insert"}}

PreservedButPublic == {"publication_unknown", "identity_conflict",
                       "manual_handoff_required", "failed_terminal"}

Preserved == {"externally_verified_public", "publication_unknown",
              "identity_conflict", "manual_handoff_required",
              "failed_terminal"}

Finished == {"externally_verified_public", "manual_handoff_required",
             "failed_terminal", "poisoned", "identity_conflict"}

Outcome(result, item, native, proven) ==
  [result |-> result, item |-> item, native |-> native,
   readback |-> proven, proof |-> proven]

At(w, step) == job[w].pc = step

GoTo(w, step) == job' = [job EXCEPT ![w].pc = step]

\* The leg is done with; the walk goes on to the next one.
NextLeg(w) ==
  job' = [job EXCEPT ![w].pc = "pick", ![w].leg = NoLeg, ![w].op = "none",
                     ![w].item = NoItem, ![w].stuck = FALSE,
                     ![w].seen = "none"]

\* What validate checks before provider input or output.
MayAsk(w, p) ==
  RequireClaim(w) /\ AllowsDistribution /\ horizon /\ legs[p].checks < Budget

\* What it checks before each request of an operation.
MayMutate(w, p, op) ==
  /\ MayAsk(w, p)
  /\ RequireMutation(w)
  /\ legs[p].intent.op = op
  /\ legs[p].intent.consumed = held[w].fence
  /\ legs[p].intent.attempt = held[w].attempt

Accepted(leg, op) ==
  \E k \in DOMAIN leg.receipts :
    leg.receipts[k].op = op /\ leg.receipts[k].accepted

\* The identities _provider_id reads; more than one is an error.
ProviderIds(leg) ==
  ({leg.receipts[k].item : k \in DOMAIN leg.receipts} \cup {leg.verif.item})
    \ {NoItem}

-----------------------------------------------------------------------------
(* The queue and the start of a delivery.                                  *)

Receive(w, m) ==
  /\ At(w, "idle")
  /\ msg[m].state = "visible"
  /\ LET n == IF msg[m].dequeues < MaxDequeue THEN msg[m].dequeues + 1
              ELSE MaxDequeue
     IN /\ msg' = [msg EXCEPT ![m] =
                     [state |-> "taken", dequeues |-> n, holder |-> w]]
        /\ job' = [job EXCEPT ![w] = [Idle EXCEPT !.pc = "claim", !.msg = m,
                                        !.final = (n = MaxDequeue)]]
  /\ UNCHANGED <<vars, hinted, flight, done>>

\* The visibility timeout runs out, whatever the receiver is doing.
Reappear(m) ==
  /\ msg[m].state = "taken"
  /\ msg' = [msg EXCEPT ![m].state = "visible"]
  /\ UNCHANGED <<vars, hinted, job, flight, done>>

\* Deleting needs the pop receipt of the last delivery.
Delete(w) ==
  msg' = [msg EXCEPT ![job[w].msg] = IF @.holder = w THEN Deleted ELSE @]

\* A live claim leaves the message to come back.  The media review allows
\* distribution before any message is sent, so it is not missing here.
TakeClaim(w) ==
  /\ At(w, "claim")
  /\ \/ /\ Claim(w)
        /\ GoTo(w, "start")
        /\ UNCHANGED msg
     \/ /\ claim.lease # "expired"
        /\ job' = [job EXCEPT ![w] = Idle]
        /\ UNCHANGED <<vars, msg>>
  /\ UNCHANGED <<hinted, flight, done>>

\* `enabled': provider mutation is switched on for this execution.
Start(w, enabled) ==
  /\ At(w, "start")
  /\ Heartbeat(w)
  /\ job' = [job EXCEPT
       ![w].pc = IF job[w].final THEN "list"
                 ELSE IF enabled /\ review # "absent" THEN "survey"
                 ELSE "release",
       ![w].todo = Providers]
  /\ UNCHANGED <<msg, hinted, flight, done>>

\* The lease is renewed while the dispatcher runs.
Renew(w) ==
  /\ job[w].pc \notin {"idle", "claim", "start", "list", "poison", "release",
                       "delete"}
  /\ claim.lease = "short"
  /\ Heartbeat(w)
  /\ UNCHANGED dispatchVars

ListPoisoned(w) ==
  /\ At(w, "list")
  /\ job' = [job EXCEPT ![w].pc = "poison",
       ![w].todo = {p \in Providers : legs[p].result \notin Preserved}]
  /\ UNCHANGED <<vars, msg, hinted, flight, done>>

PoisonLeg(w, p) ==
  /\ At(w, "poison")
  /\ p \in job[w].todo
  /\ RecordVerification(w, p, Outcome("poisoned", NoItem, "none", FALSE))
  /\ job' = [job EXCEPT ![w].todo = @ \ {p}]
  /\ UNCHANGED <<msg, hinted, flight, done>>

Finish(w) ==
  /\ \/ At(w, "release")
     \/ job[w].pc \in {"poison", "pick"} /\ job[w].todo = {}
  /\ Release(w)
  /\ GoTo(w, "delete")
  /\ UNCHANGED <<msg, hinted, flight, done>>

DeleteMessage(w) ==
  /\ At(w, "delete")
  /\ Delete(w)
  /\ job' = [job EXCEPT ![w] = Idle]
  /\ UNCHANGED <<vars, hinted, flight, done>>

\* The execution dies, or an exception ends it; its message will come back.
Abandon(w) ==
  /\ ~At(w, "idle")
  /\ held' = [held EXCEPT ![w] = NoClaim]
  /\ job' = [job EXCEPT ![w] = Idle]
  /\ UNCHANGED <<docVars, horizon, msg, hinted, flight, done>>

-----------------------------------------------------------------------------
(* The walk over the legs: dispatch_reviewed_video.                        *)

\* All destinations are validated before the first provider call; the legs
\* found active are then walked.
Surveyed(w, p, found) ==
  LET left == job[w].todo \ {p}
      active == job[w].active \cup found
  IN job' = [job EXCEPT
       ![w].pc = IF left = {} THEN "pick" ELSE "survey",
       ![w].todo = IF left = {} THEN active ELSE left,
       ![w].active = IF left = {} THEN {} ELSE active]

Survey(w, p) ==
  /\ At(w, "survey")
  /\ p \in job[w].todo
  /\ RequireClaim(w)
  /\ AllowsDistribution
  /\ \/ /\ legs[p].result \in Finished
        /\ Surveyed(w, p, {})
        /\ UNCHANGED vars
     \/ /\ legs[p].result \notin Finished
        /\ Exhausted(p, FALSE)
        /\ ScheduleReconciliation(w, p, FALSE)
        /\ Surveyed(w, p, {})
     \/ /\ legs[p].result \notin Finished
        /\ ~Exhausted(p, FALSE)
        /\ Surveyed(w, p, {p})
        /\ UNCHANGED vars
  /\ UNCHANGED <<msg, hinted, flight, done>>

\* Nothing to do for the leg: it is public, or its next poll is not due.
Skippable(p) ==
  \/ legs[p].result = "externally_verified_public"
  \/ sched[p].source = "worker" /\ sched[p].due # "now"

\* Takes up a leg, with what the document says of it now.
Visiting(w, p) ==
  LET ids == ProviderIds(legs[p])
  IN /\ Cardinality(ids) <= 1
     /\ job' = [job EXCEPT
          ![w].pc = "visit", ![w].todo = @ \ {p}, ![w].leg = p,
          ![w].item = IF ids = {} THEN NoItem ELSE CHOOSE i \in ids : TRUE,
          ![w].stuck = held[w].readOnly
                         \/ (p \in Youtube /\ legs[p].intent.consumed # 0)]

PickLeg(w, p) ==
  /\ At(w, "pick")
  /\ p \in job[w].todo
  /\ MayAsk(w, p)
  /\ \/ /\ Skippable(p)
        /\ job' = [job EXCEPT ![w].todo = @ \ {p}]
        /\ UNCHANGED vars
     \/ /\ ~Skippable(p)
        /\ sched[p].source # "worker"
        /\ Visiting(w, p)
        /\ UNCHANGED vars
     \/ /\ ~Skippable(p)
        /\ sched[p].source = "worker"
        /\ ConsumeScheduleToken(w, p)
        /\ Visiting(w, p)
  /\ UNCHANGED <<msg, hinted, flight, done>>

\* `enabled': the runtime has this provider switched on.
Visit(w, enabled) ==
  LET p == job[w].leg
  IN /\ At(w, "visit")
     /\ \/ /\ enabled
           /\ MayAsk(w, p)
           /\ GoTo(w, IF job[w].item = NoItem THEN "locate" ELSE "read")
           /\ UNCHANGED vars
        \/ /\ ~enabled
           /\ RecordVerification(w, p,
                Outcome("manual_handoff_required", NoItem, "none", FALSE))
           /\ NextLeg(w)
     /\ UNCHANGED <<msg, hinted, flight, done>>

\* No identity is on record.  YouTube looks for the upload by its tag and may
\* miss it; only a plain absence, with no create possibly under way, allows
\* one.  Spotify allows one unless the claim is read-only.
Locate(w) ==
  LET p == job[w].leg
  IN /\ At(w, "locate")
     /\ \/ /\ p \in Youtube
           /\ \E i \in Made(p) :
                job' = [job EXCEPT ![w].pc = "read", ![w].item = i]
           /\ UNCHANGED vars
        \/ /\ p \in Youtube \/ job[w].stuck
           /\ RecordVerification(w, p,
                Outcome("publication_unknown", NoItem, "none", FALSE))
           /\ NextLeg(w)
        \/ /\ ~job[w].stuck
           /\ job' = [job EXCEPT ![w].pc = "persist", ![w].op = "create"]
           /\ UNCHANGED vars
     /\ UNCHANGED <<msg, hinted, flight, done>>

-----------------------------------------------------------------------------
(* One mutation: mutate, and the provider's side of it.                    *)

\* Where the walk goes once the item is in its playlist, or needs none.
Promoting(w) ==
  IF job[w].seen = "public" THEN [job[w] EXCEPT !.pc = "prove"]
  ELSE [job[w] EXCEPT !.pc = "persist", !.op = "publish"]

\* Where it goes once an operation is known to have succeeded.
Mutated(w, item) ==
  IF job[w].op = "insert" THEN Promoting(w)
  ELSE [job[w] EXCEPT !.pc = "read", !.item = item]

Persist(w) ==
  LET p == job[w].leg
      op == job[w].op
  IN /\ At(w, "persist")
     /\ MayAsk(w, p)
     /\ \/ /\ Accepted(legs[p], op)
           /\ job' = [job EXCEPT ![w] = Mutated(w, job[w].item)]
           /\ UNCHANGED vars
        \/ /\ ~Accepted(legs[p], op)
           /\ legs[p].intent.op = op
           /\ RequireMutation(w)
           /\ GoTo(w, "consume")
           /\ UNCHANGED vars
        \/ /\ ~Accepted(legs[p], op)
           /\ PersistIntent(w, p, op, job[w].item)
           /\ GoTo(w, "consume")
     /\ UNCHANGED <<msg, hinted, flight, done>>

Consume(w) ==
  /\ At(w, "consume")
  /\ ConsumeIntent(w, job[w].leg)
  /\ GoTo(w, "call")
  /\ UNCHANGED <<msg, hinted, flight, done>>

\* The request as it leaves: a create names no item, it makes a new one.
Request(w) ==
  [leg |-> job[w].leg, op |-> job[w].op,
   intent |-> legs[job[w].leg].intent.id,
   item |-> IF job[w].op = "create"
            THEN Cardinality({r \in flight \cup done : r.op = "create"}) + 1
            ELSE job[w].item]

Send(w) ==
  /\ At(w, "call")
  /\ MayMutate(w, job[w].leg, job[w].op)
  /\ flight' = flight \cup {Request(w)}
  /\ GoTo(w, "sent")
  /\ UNCHANGED <<vars, msg, hinted, done>>

\* The provider carries out a request, or it is lost, at any time after.
Land(r) ==
  /\ r \in flight
  /\ flight' = flight \ {r}
  /\ done' = done \cup {r}
  /\ UNCHANGED <<vars, msg, hinted, job>>

Drop(r) ==
  /\ r \in flight
  /\ flight' = flight \ {r}
  /\ UNCHANGED <<vars, msg, hinted, job, done>>

\* The answer is taken for granted once the request has left.
ConfirmUnanswered(w) ==
  LET p == job[w].leg
  IN /\ At(w, "sent")
     /\ MayMutate(w, p, job[w].op)
     /\ \E r \in flight \cup done :
          /\ r.leg = p /\ r.op = job[w].op /\ r.intent = legs[p].intent.id
          /\ job' = [job EXCEPT ![w].pc = "accept", ![w].item = r.item]
     /\ UNCHANGED <<vars, msg, hinted, flight, done>>

\* A confirmed answer, under a claim that is still valid.
Confirm(w) ==
  LET p == job[w].leg
  IN /\ At(w, "sent")
     /\ MayMutate(w, p, job[w].op)
     /\ \E r \in done :
          /\ r.leg = p /\ r.op = job[w].op /\ r.intent = legs[p].intent.id
          /\ job' = [job EXCEPT ![w].pc = "accept", ![w].item = r.item]
     /\ UNCHANGED <<vars, msg, hinted, flight, done>>

MisfireRetried(w) ==
  /\ job[w].pc \in {"call", "sent"}
  /\ GoTo(w, IF At(w, "sent") THEN "call" ELSE "doubt")
  /\ UNCHANGED <<vars, msg, hinted, flight, done>>

\* The call raised, before its request left or after: whether it took effect
\* is not known.
Misfire(w) ==
  /\ job[w].pc \in {"call", "sent"}
  /\ GoTo(w, "doubt")
  /\ UNCHANGED <<vars, msg, hinted, flight, done>>

Accept(w) ==
  /\ At(w, "accept")
  /\ RecordReceipt(w, job[w].leg, TRUE, job[w].item)
  /\ job' = [job EXCEPT ![w] = Mutated(w, job[w].item)]
  /\ UNCHANGED <<msg, hinted, flight, done>>

Doubt(w) ==
  /\ At(w, "doubt")
  /\ RecordReceipt(w, job[w].leg, FALSE, job[w].item)
  /\ GoTo(w, "unknown")
  /\ UNCHANGED <<msg, hinted, flight, done>>

\* Then the exception goes on: the delivery can only be abandoned.
Unknown(w) ==
  /\ At(w, "unknown")
  /\ RecordVerification(w, job[w].leg,
       Outcome("publication_unknown", job[w].item, "none", FALSE))
  /\ GoTo(w, "raise")
  /\ UNCHANGED <<msg, hinted, flight, done>>

-----------------------------------------------------------------------------
(* The readbacks of an item, and what follows them: _youtube and _spotify. *)

AfterReadUnlisted(w, p, public) ==
  IF p \in Youtube THEN {"pend", "prove"}
  ELSE IF public THEN {"prove"} ELSE {"prove", "handover"}

\* What may follow a readback.  A YouTube item may still be processing; a
\* hidden Spotify item is promoted only when live publishing is enabled.
AfterRead(w, p, public) ==
  LET again == job[w].op = "publish"
      reader == held[w].readOnly
  IN IF p \in Youtube
     THEN {"pend"} \cup
          (IF public THEN {IF reader \/ again THEN "prove" ELSE "playlist"}
           ELSE IF reader \/ again THEN {} ELSE {"note"})
     ELSE IF public THEN {"prove"}
     ELSE IF reader \/ again THEN {"pend"}
     ELSE {"handover", "persist"}

\* The readback of an item that exists; it may lag behind a promotion.
Read(w) ==
  LET p == job[w].leg
  IN /\ At(w, "read")
     /\ MayAsk(w, p)
     /\ job[w].item \in Made(p)
     /\ \E public \in {FALSE, job[w].item \in Public(p)} :
          \E step \in AfterRead(w, p, public) :
            job' = [job EXCEPT ![w].pc = step,
              ![w].op = IF step = "persist" THEN "publish" ELSE @,
              ![w].seen = IF public THEN "public" ELSE "hidden"]
     /\ UNCHANGED <<vars, msg, hinted, flight, done>>

\* Live publishing of Spotify drafts is switched off.
HandOver(w) ==
  /\ At(w, "handover")
  /\ RecordVerification(w, job[w].leg,
       Outcome("manual_handoff_required", job[w].item, "hidden", FALSE))
  /\ NextLeg(w)
  /\ UNCHANGED <<msg, hinted, flight, done>>

RecordPending(w) ==
  RecordVerification(w, job[w].leg,
    Outcome("pending_provider", job[w].item, job[w].seen, FALSE))

\* The identity is on record before the item is promoted, and the readback
\* counted; the last one the budget permits admits no further request.
Note(w) ==
  /\ At(w, "note")
  /\ RecordPending(w)
  /\ GoTo(w, IF legs'[job[w].leg].checks >= Budget THEN "schedule"
             ELSE "playlist")
  /\ UNCHANGED <<msg, hinted, flight, done>>

Playlist(w) ==
  LET p == job[w].leg
  IN /\ At(w, "playlist")
     /\ job' = [job EXCEPT ![w] =
          IF p \in Listing /\ job[w].item \notin Listed(p)
          THEN [@ EXCEPT !.pc = "persist", !.op = "insert"]
          ELSE Promoting(w)]
     /\ UNCHANGED <<vars, msg, hinted, flight, done>>

Prove(w) ==
  /\ At(w, "prove")
  /\ RecordVerification(w, job[w].leg,
       Outcome("externally_verified_public", job[w].item, "public", TRUE))
  /\ NextLeg(w)
  /\ UNCHANGED <<msg, hinted, flight, done>>

Pend(w) ==
  /\ At(w, "pend")
  /\ RecordPending(w)
  /\ GoTo(w, "schedule")
  /\ UNCHANGED <<msg, hinted, flight, done>>

\* A worker's token is always consumed before its leg is visited, so there is
\* none left here.
Schedule(w, beyond) ==
  /\ At(w, "schedule")
  /\ ScheduleReconciliation(w, job[w].leg, beyond)
  /\ NextLeg(w)
  /\ UNCHANGED <<msg, hinted, flight, done>>

-----------------------------------------------------------------------------
(* What else happens to the item.                                          *)

\* The initial message is sent once, if at all: a crash around the send uses
\* the authority up.
Hint(m, delivered) ==
  /\ ~hinted
  /\ AllowsDistribution
  /\ msg[m].state = "absent"
  /\ hinted' = TRUE
  /\ msg' = IF delivered THEN [msg EXCEPT ![m] = Sent] ELSE msg
  /\ UNCHANGED <<vars, job, flight, done>>

Due(p) == sched[p].due = "now" /\ sched[p].notified # sched[p].token

\* The scheduler sends one message for all legs that are due; it may die
\* before it has recorded so.
Notify(m, marked) ==
  /\ msg[m].state = "absent"
  /\ AllowsDistribution
  /\ \E p \in Providers : Due(p)
  /\ msg' = [msg EXCEPT ![m] = Sent]
  /\ sched' = [p \in Providers |->
       IF Due(p) /\ marked THEN [sched[p] EXCEPT !.notified = sched[p].token]
       ELSE sched[p]]
  /\ UNCHANGED <<fence, claim, attempts, legs, notice, weekly, review, lastId,
                 horizon, held, hinted, job, flight, done>>

Elsewhere ==
  /\ \/ LeaseRuns
     \/ HorizonPasses
     \/ \E p \in Providers : TokenFallsDue(p)
     \/ EnsureProviderReconciliation
     \/ \E decision \in {"approved", "rejected"} : RecordMediaReview(decision)
     \/ \E expected \in [Providers -> Items] : AuthorizeRecovery(expected)
  /\ UNCHANGED dispatchVars

Delivery(w) ==
  \/ \E m \in Messages : Receive(w, m)
  \/ TakeClaim(w)
  \/ \E enabled \in BOOLEAN : Start(w, enabled) \/ Visit(w, enabled)
  \/ Renew(w)
  \/ ListPoisoned(w)
  \/ \E p \in Providers : PoisonLeg(w, p) \/ Survey(w, p) \/ PickLeg(w, p)
  \/ Finish(w)
  \/ DeleteMessage(w)
  \/ Abandon(w)

LegWalk(w) ==
  \/ Locate(w) \/ Read(w) \/ HandOver(w) \/ Note(w) \/ Playlist(w)
  \/ Prove(w) \/ Pend(w)
  \/ \E beyond \in BOOLEAN : Schedule(w, beyond)

Mutate(w) ==
  \/ Persist(w) \/ Consume(w) \/ Send(w) \/ Confirm(w) \/ Misfire(w)
  \/ Accept(w) \/ Doubt(w) \/ Unknown(w)

DispatchInit ==
  /\ Init
  /\ msg = [m \in Messages |-> Deleted]
  /\ hinted = FALSE
  /\ job = [w \in Workers |-> Idle]
  /\ flight = {}
  /\ done = {}

DispatchNext ==
  \/ \E w \in Workers : Delivery(w) \/ LegWalk(w) \/ Mutate(w)
  \/ \E m \in Messages : Reappear(m)
  \/ \E m \in Messages, b \in BOOLEAN : Hint(m, b) \/ Notify(m, b)
  \/ \E r \in flight : Land(r) \/ Drop(r)
  \/ Elsewhere

DispatchSpec == DispatchInit /\ [][DispatchNext]_allVars

-----------------------------------------------------------------------------
(* Properties.                                                             *)

\* A provider never gets the media twice: over all redeliveries, takeovers,
\* lost answers, late requests and recoveries, one create at most leaves for
\* a provider (mutate, claim, persist_intent and the searches by identity).
CreateAtMostOnce ==
  \A p \in Providers :
    Cardinality({r \in flight \cup done : r.leg = p /\ r.op = "create"}) <= 1

\* Within an attempt no mutation of an item starts while the fate of another
\* one is open: two requests are never under way at one provider
\* (persist_intent, claim).
OneMutationInFlight ==
  Last = 1 => \A p \in Providers : Cardinality({r \in flight : r.leg = p}) <= 1

\* What the outbox calls externally verified public is public at the provider
\* and is the item recorded, also when it was verified from another delivery
\* than the one that promoted it (_youtube, _spotify, record_verification).
VerifiedIsPublic ==
  \A p \in Providers :
    legs[p].result = "externally_verified_public" =>
      legs[p].verif.item \in Public(p)

\* A leg that is public stays public in its attempt: neither a redelivered,
\* nor a poisoned, nor a read-only delivery overwrites it
\* (PRESERVED_PROVIDER_RESULTS, the survey of dispatch_reviewed_video).
PublicIsKept ==
  [][\A p \in Providers :
       /\ legs[p].result = "externally_verified_public"
       /\ Len(attempts') = Len(attempts)
       => legs'[p].result = "externally_verified_public"]_allVars

\* The dispatch of a reviewed week implements Publication: the media of a leg is
\* what took effect at its provider, its verdict what the document says of it, and
\* the week is published by the release that closes the attempt so
\* (dispatch_reviewed_video, record_verification, release).
Media(p) ==
  IF Made(p) = {} THEN "absent" ELSE IF Public(p) = {} THEN "hidden" ELSE "public"

Verdict(p) ==
  IF legs[p].result = "externally_verified_public" THEN "public"
  ELSE IF legs[p].result \in Finished THEN "closed" ELSE "open"

Published ==
  INSTANCE Publication WITH
    Legs <- Providers,
    media <- [p \in Providers |-> Media(p)],
    verdict <- [p \in Providers |-> Verdict(p)],
    week <- Active.outcome = "published_verified"

PublicationImplemented == Published!Spec

\* docs/ops/distribution-terminal-truth.md, lines 47 and 48: a due "token is
\* consumed under the live claim before readback, then a still-pending leg
\* receives a fresh bounded schedule".  A pending leg whose token has no due
\* time is one that neither the scheduler nor its repair ever looks at: it
\* would need a message or an execution that still comes to schedule it.
NoLegIsForgotten ==
  \A p \in Providers :
    /\ legs[p].result = "pending_provider"
    /\ sched[p].token # 0
    /\ sched[p].due = "never"
    => \/ \E m \in Messages : msg[m].state # "absent"
       \/ \E w \in Workers : ~At(w, "idle")

\* docs/ops/distribution-terminal-truth.md, lines 82 to 84: "An unknown
\* possible mutation permits read-only reconciliation only and cannot
\* authorize a blind retry."  So no attempt that was recovered from ends with
\* a consumed mutation that has no accepted receipt.
UnknownNeverAuthorizesRetry ==
  \A i \in 1..(Last - 1), p \in Providers :
    attempts[i].evidence[p].intent.consumed # 0 =>
      Resolves(attempts[i].evidence[p].intent, attempts[i].evidence[p].receipts)

=============================================================================
