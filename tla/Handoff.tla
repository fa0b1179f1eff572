------------------------------ MODULE Handoff ------------------------------
(***************************************************************************)
(* The handoff of a rendered video: the deliveries of one video message    *)
(* (src/podcaster/video/job_runner.py) that claim the job in its ownership *)
(* record (video/ownership.py), commit the file to the immutable artifact  *)
(* store, create the outbox item and its first notification, and record    *)
(* the verdict of the job, while the scheduler sweeps orphaned artifacts   *)
(* (distribution_outbox.py).                                               *)
(*                                                                         *)
(* An ownership record, a reference document, the outbox item and the      *)
(* manifest are separate blobs: update_bytes reads one, runs a callback    *)
(* that may look at the ownership record, and writes only if the blob did  *)
(* not change meanwhile.  So an update that asks for authority is two      *)
(* steps here, Ask and the write, and a write to a blob sends everybody    *)
(* else who asked about it back to Ask.                                    *)
(*                                                                         *)
(* Abstractions.  Contents are digests; two renders may differ.  A claim   *)
(* is unexpired or not: its visibility and editor expiries end it alike,   *)
(* and renewals keep it so.  A permit is identified by the fence of the    *)
(* claim that created it.  An execution begins a boundary once, so its     *)
(* own permit is never found completed.  A required YouTube failure is     *)
(* recorded like any verdict.  Left out: the promotion of the local file,  *)
(* which touches no shared state but its own permit; recovery epochs,      *)
(* which have ownership records of their own; the one job whose private    *)
(* output is selected in the manifest instead (select_private_output).     *)
(***************************************************************************)
EXTENDS Integers, FiniteSets

CONSTANTS
  Deliveries,  \* executions the video message is delivered to
  NoDelivery,  \* the message waits in the queue
  Gone,        \* the message was deleted
  Cleaners,    \* executions of cleanup_orphan_artifacts
  NoCleaner,
  Contents,    \* digests of rendered files
  NoContent,
  MaxFence     \* bound on the claims of the job

ASSUME HandoffAssumption ==
  /\ {NoDelivery, Gone} \cap Deliveries = {}
  /\ NoDelivery # Gone
  /\ NoCleaner \notin Cleaners
  /\ NoContent \notin Contents
  /\ MaxFence \in Nat

VARIABLES
  route,     \* how the job is distributed: reviewed first, routed, or directly
  own,       \* the ownership record: fencing token, and whether its claim lives
  permit,    \* the boundaries of the ownership record
  job,       \* what each delivery is doing
  message,   \* the receiver of the video message, NoDelivery or Gone
  blob,      \* the artifact of each content exists
  meta,      \* its metadata
  ref,       \* its reference document
  item,      \* the outbox item: its artifact, source ownership, notification
  verdict,   \* generation.video_runner of the manifest, and the fence of the
             \* claim under which it was last recorded
  sweep,     \* what each cleaner is doing
  called,    \* deliveries that mutated a provider on the direct path
  sends      \* initial notifications sent, counted up to 2

storeVars == <<blob, meta, ref>>
vars == <<route, own, permit, job, message, storeVars, item, verdict, sweep,
          called, sends>>

Boundaries == {"archive", "outbox", "notification", "provider", "success"}

\* The steps that update a blob under the authority of a permit.
Authority == [describe |-> "archive", restore |-> "archive",
              create |-> "outbox", reserve |-> "notification",
              consume |-> "notification", accept |-> "notification",
              evidence |-> "provider", record |-> "success"]

Updated == [describe |-> "metadata", restore |-> "reference",
            create |-> "item", reserve |-> "item", consume |-> "item",
            accept |-> "item", evidence |-> "manifest", record |-> "manifest"]

At(d, step) == job[d].pc = step

GoTo(d, step) == job' = [job EXCEPT ![d].pc = step]

Rendered(d) == job[d].content

-----------------------------------------------------------------------------
(* The ownership record: VideoOwnershipGuard.                              *)

Current(d) == own.live /\ own.fence = job[d].fence

\* assert_permit for a mutation.
Permitted(d, b) ==
  /\ Current(d)
  /\ permit[b] = [fence |-> job[d].fence, completed |-> FALSE]

\* acquire takes over a claim that expired.
Acquire(d) ==
  /\ At(d, "acquire")
  /\ ~own.live
  /\ own.fence < MaxFence
  /\ own' = [fence |-> own.fence + 1, live |-> TRUE]
  /\ \E c \in Contents :
       job' = [job EXCEPT ![d].pc = IF route = "direct" THEN "direct" ELSE "archive",
                          ![d].fence = own.fence + 1,
                          ![d].content = c]
  /\ UNCHANGED <<route, permit, message, storeVars, item, verdict, sweep, called, sends>>

OwnershipExpires ==
  /\ own.live
  /\ own' = [own EXCEPT !.live = FALSE]
  /\ UNCHANGED <<route, permit, job, message, storeVars, item, verdict, sweep, called, sends>>

\* begin of a boundary that may be taken over.
Begin(d, b, here, next) ==
  /\ At(d, here)
  /\ Current(d)
  /\ permit' = [permit EXCEPT ![b] = [fence |-> job[d].fence, completed |-> FALSE]]
  /\ GoTo(d, next)
  /\ UNCHANGED <<route, own, message, storeVars, item, verdict, sweep, called, sends>>

Complete(d, b, here, next) ==
  /\ At(d, here)
  /\ Current(d)
  /\ permit[b].fence = job[d].fence
  /\ permit' = [permit EXCEPT ![b].completed = TRUE]
  /\ GoTo(d, next)
  /\ UNCHANGED <<route, own, message, storeVars, item, verdict, sweep, called, sends>>

-----------------------------------------------------------------------------
(* Conditional updates: update_bytes with an authorize callback.           *)

Target(e) ==
  <<Updated[job[e].pc],
    IF At(e, "describe") \/ At(e, "restore") THEN Rendered(e) ELSE NoContent>>

MovedAlone(d, target, next) ==
  [e \in Deliveries |->
     IF e = d THEN [job[e] EXCEPT !.pc = next, !.asked = FALSE] ELSE job[e]]

\* The job records once d (NoDelivery for the scheduler) wrote the target:
\* whoever read it before has to read it again.
Moved(d, target, next) ==
  [e \in Deliveries |->
     CASE e = d -> [job[e] EXCEPT !.pc = next, !.asked = FALSE]
       [] e # d /\ job[e].asked /\ Target(e) = target ->
            [job[e] EXCEPT !.asked = FALSE]
       [] OTHER -> job[e]]

AcceptableOtherwise(d) ==
  CASE At(d, "consume") ->
         item.notice = "reserved" => item.owner = job[d].fence
    [] At(d, "accept") -> item.notice = "sending" /\ item.owner = job[d].fence
    [] OTHER -> TRUE

\* _create refuses an item with another artifact, _restore_reference one that
\* is being deleted, authorize_notification_send and accept another's intent.
Acceptable(d) ==
  CASE At(d, "create") -> item.content \in {NoContent, Rendered(d)}
    [] At(d, "consume") ->
         item.notice = "reserved" => item.owner = job[d].fence
    [] At(d, "accept") -> item.notice = "sending" /\ item.owner = job[d].fence
    [] OTHER -> TRUE

RestorableAnyway(d) == TRUE

Restorable(d) == At(d, "restore") => ref[Rendered(d)].state # "deleting"

Ask(d) ==
  /\ job[d].pc \in DOMAIN Authority
  /\ ~job[d].asked
  /\ Permitted(d, Authority[job[d].pc])
  /\ Acceptable(d)
  /\ Restorable(d)
  /\ job' = [job EXCEPT ![d].asked = TRUE]
  /\ UNCHANGED <<route, own, permit, message, storeVars, item, verdict, sweep, called, sends>>

Asked(d, step) == At(d, step) /\ job[d].asked

-----------------------------------------------------------------------------
(* commit_immutable_artifact.                                              *)

CheckSize(d) ==
  /\ At(d, "size")
  /\ GoTo(d, IF blob[Rendered(d)] THEN "verify" ELSE "upload")
  /\ UNCHANGED <<route, own, permit, message, storeVars, item, verdict, sweep, called, sends>>

AuthorizeUpload(d) ==
  /\ At(d, "upload")
  /\ Permitted(d, "archive")
  /\ GoTo(d, "put")
  /\ UNCHANGED <<route, own, permit, message, storeVars, item, verdict, sweep, called, sends>>

Upload(d) ==
  /\ At(d, "put")
  /\ blob' = [blob EXCEPT ![Rendered(d)] = TRUE]
  /\ GoTo(d, "verify")
  /\ UNCHANGED <<route, own, permit, message, meta, ref, item, verdict, sweep, called, sends>>

\* verify_artifact, here and again in enqueue.
Verify(d, here, next) ==
  /\ At(d, here)
  /\ blob[Rendered(d)]
  /\ GoTo(d, next)
  /\ UNCHANGED <<route, own, permit, message, storeVars, item, verdict, sweep, called, sends>>

\* Existing metadata is kept, with its old created_at.
Describe(d) ==
  /\ Asked(d, "describe")
  /\ meta' = [meta EXCEPT ![Rendered(d)] = IF @ = "none" THEN "young" ELSE @]
  /\ job' = Moved(d, Target(d), "restore")
  /\ UNCHANGED <<route, own, permit, message, blob, ref, item, verdict, sweep, called, sends>>

Restore(d) ==
  /\ Asked(d, "restore")
  /\ ref' = [ref EXCEPT ![Rendered(d)] =
               [used |-> @.used, state |-> "live", by |-> NoCleaner]]
  /\ job' = Moved(d, Target(d), "archived")
  /\ UNCHANGED <<route, own, permit, message, blob, meta, item, verdict, sweep, called, sends>>

-----------------------------------------------------------------------------
(* enqueue, and the initial notification.                                  *)

RegisterAlways(d) ==
  /\ At(d, "register")
  /\ ref' = [ref EXCEPT ![Rendered(d)] =
               [used |-> TRUE, state |-> "live", by |-> NoCleaner]]
  /\ job' = Moved(d, <<"reference", Rendered(d)>>, "create")
  /\ UNCHANGED <<route, own, permit, message, blob, meta, item, verdict, sweep, called, sends>>

\* _register_artifact_reference asks for no authority.
Register(d) ==
  /\ At(d, "register")
  /\ ref[Rendered(d)].state = "live"
  /\ ref' = [ref EXCEPT ![Rendered(d)] =
               [used |-> TRUE, state |-> "live", by |-> NoCleaner]]
  /\ job' = Moved(d, <<"reference", Rendered(d)>>, "create")
  /\ UNCHANGED <<route, own, permit, message, blob, meta, item, verdict, sweep, called, sends>>

\* _create, or the adoption of the item an earlier delivery created.
Create(d) ==
  /\ Asked(d, "create")
  /\ item' = [item EXCEPT !.content = Rendered(d), !.by = job[d].fence]
  /\ job' = Moved(d, Target(d), "created")
  /\ UNCHANGED <<route, own, permit, message, storeVars, verdict, sweep, called, sends>>

Sent == {"sending", "accepted"}

ReserveNotification(d) ==
  /\ Asked(d, "reserve")
  /\ item' = IF item.notice \in Sent THEN item
             ELSE [item EXCEPT !.notice = "reserved", !.owner = job[d].fence]
  /\ job' = Moved(d, Target(d), "consume")
  /\ UNCHANGED <<route, own, permit, message, storeVars, verdict, sweep, called, sends>>

\* authorize_notification_send: only the reserver of an unsent notification
\* goes on to send it.
ConsumeNotification(d) ==
  /\ Asked(d, "consume")
  /\ IF item.notice \in Sent
     THEN item' = item /\ job' = Moved(d, Target(d), "notified")
     ELSE /\ item' = [item EXCEPT !.notice = "sending"]
          /\ job' = Moved(d, Target(d), "send")
  /\ UNCHANGED <<route, own, permit, message, storeVars, verdict, sweep, called, sends>>

OneMore == sends' = IF sends < 2 THEN sends + 1 ELSE sends

SendNotification(d) ==
  /\ At(d, "send")
  /\ OneMore
  /\ GoTo(d, "accept")
  /\ UNCHANGED <<route, own, permit, message, storeVars, item, verdict, sweep, called>>

AcceptNotification(d) ==
  /\ Asked(d, "accept")
  /\ item' = [item EXCEPT !.notice = "accepted"]
  /\ job' = Moved(d, Target(d), "notified")
  /\ UNCHANGED <<route, own, permit, message, storeVars, verdict, sweep, called, sends>>

\* The scheduler repairs a notification that was never sent; its reservation
\* has owner 0 (repair_notifications_page, see Reconcile).
RepairReserves ==
  /\ route = "routed" /\ item.content # NoContent
  /\ item.notice \notin Sent
  /\ item' = [item EXCEPT !.notice = "reserved", !.owner = 0]
  /\ job' = Moved(NoDelivery, <<"item", NoContent>>, "over")
  /\ UNCHANGED <<route, own, permit, message, storeVars, verdict, sweep, called, sends>>

RepairSends ==
  /\ item.notice = "reserved" /\ item.owner = 0
  /\ item' = [item EXCEPT !.notice = "sending"]
  /\ OneMore
  /\ job' = Moved(NoDelivery, <<"item", NoContent>>, "over")
  /\ UNCHANGED <<route, own, permit, message, storeVars, verdict, sweep, called>>

-----------------------------------------------------------------------------
(* The direct path: distribute_video under direct_provider_intent.         *)

BeginDirectTakingOver(d) == Begin(d, "provider", "direct", "mutate")

\* A permit of another claim makes this one read-only: begin without takeover.
BeginDirect(d) ==
  /\ At(d, "direct")
  /\ Current(d)
  /\ permit' = [permit EXCEPT !["provider"] =
       IF @.fence # 0 THEN @ ELSE [fence |-> job[d].fence, completed |-> FALSE]]
  /\ job' = [job EXCEPT ![d].pc = "mutate",
                        ![d].readOnly = permit["provider"].fence # 0]
  /\ UNCHANGED <<route, own, message, storeVars, item, verdict, sweep, called, sends>>

\* before_mutation
BeforeMutation(d) ==
  /\ At(d, "mutate")
  /\ ~job[d].readOnly
  /\ Permitted(d, "provider")
  /\ GoTo(d, "call")
  /\ UNCHANGED <<route, own, permit, message, storeVars, item, verdict, sweep, called, sends>>

Call(d) ==
  /\ At(d, "call")
  /\ called' = called \cup {d}
  /\ GoTo(d, "evidence")
  /\ UNCHANGED <<route, own, permit, message, storeVars, item, verdict, sweep, sends>>

\* record_publication; the next provider, or the end of the walk.
RecordEvidence(d) ==
  /\ Asked(d, "evidence")
  /\ \E next \in {"mutate", "settle"} : job' = Moved(d, Target(d), next)
  /\ UNCHANGED <<route, own, permit, message, storeVars, item, verdict, sweep, called, sends>>

\* Every provider was published before: nothing is mutated.
NothingToPublish(d) ==
  /\ At(d, "mutate")
  /\ GoTo(d, "settle")
  /\ UNCHANGED <<route, own, permit, message, storeVars, item, verdict, sweep, called, sends>>

-----------------------------------------------------------------------------
(* The delivery.                                                           *)

\* The message is received, again if its visibility ran out; a job that is
\* already completed is skipped and its message deleted.
Receive(d) ==
  /\ At(d, "waiting")
  /\ message # Gone
  /\ message' = d
  /\ GoTo(d, IF verdict.status = "completed" THEN "delete" ELSE "acquire")
  /\ UNCHANGED <<route, own, permit, storeVars, item, verdict, sweep, called, sends>>

\* The statuses the job may end with: media that waits for review completes,
\* a routed video counts as failed until it is delivered.
Ends ==
  CASE route = "private" -> {"completed"}
    [] route = "routed" -> {"failed"}
    [] OTHER -> {"completed", "failed"}

RecordVerdict(d) ==
  /\ Asked(d, "record")
  /\ \E status \in Ends : verdict' = [status |-> status, by |-> job[d].fence]
  /\ job' = Moved(d, Target(d), "recorded")
  /\ UNCHANGED <<route, own, permit, message, storeVars, item, sweep, called, sends>>

\* Only the last receipt of the message deletes it.
DeleteMessage(d) ==
  /\ At(d, "delete")
  /\ message' = IF message = d THEN Gone ELSE message
  /\ GoTo(d, "over")
  /\ UNCHANGED <<route, own, permit, storeVars, item, verdict, sweep, called, sends>>

Working(d) == job[d].pc \notin {"waiting", "over"}

\* The execution dies, or ends with an OwnershipError.
Dies(d) ==
  /\ Working(d)
  /\ job' = [job EXCEPT ![d].pc = "over", ![d].asked = FALSE]
  /\ UNCHANGED <<route, own, permit, message, storeVars, item, verdict, sweep, called, sends>>

\* Any other exception of run_video_generation is recorded as a failure,
\* without asking for authority, over whatever verdict there is; the message is
\* left for a retry, or deleted once the retries are exhausted.
Fails(d) ==
  /\ Working(d) /\ ~At(d, "delete")
  /\ verdict' = [verdict EXCEPT !.status = "failed"]
  /\ \E next \in {"over", "delete"} :
       job' = Moved(d, <<"manifest", NoContent>>, next)
  /\ UNCHANGED <<route, own, permit, message, storeVars, item, sweep, called, sends>>

-----------------------------------------------------------------------------
(* cleanup_orphan_artifacts.                                               *)

Resting == [pc |-> "rest", content |-> NoContent]

\* Metadata older than the retention.
ReadMetadata(s, c) ==
  /\ sweep[s] = Resting
  /\ meta[c] = "old"
  /\ sweep' = [sweep EXCEPT ![s] = [pc |-> "claim", content |-> c]]
  /\ UNCHANGED <<route, own, permit, job, message, storeVars, item, verdict, called, sends>>

ClaimDelete(s) ==
  LET c == sweep[s].content
  IN /\ sweep[s].pc = "claim"
     /\ IF ref[c].used \/ ref[c].state = "deleting"
        THEN sweep' = [sweep EXCEPT ![s] = Resting] /\ UNCHANGED <<ref, job>>
        ELSE /\ ref' = [ref EXCEPT ![c] = [used |-> FALSE, state |-> "deleting", by |-> s]]
             /\ job' = Moved(NoDelivery, <<"reference", c>>, "over")
             /\ sweep' = [sweep EXCEPT ![s].pc = "blob"]
     /\ UNCHANGED <<route, own, permit, message, blob, meta, item, verdict, called, sends>>

DeleteBlob(s) ==
  /\ sweep[s].pc = "blob"
  /\ blob' = [blob EXCEPT ![sweep[s].content] = FALSE]
  /\ sweep' = [sweep EXCEPT ![s].pc = "metadata"]
  /\ UNCHANGED <<route, own, permit, job, message, meta, ref, item, verdict, called, sends>>

DeleteMetadata(s) ==
  /\ sweep[s].pc = "metadata"
  /\ meta' = [meta EXCEPT ![sweep[s].content] = "none"]
  /\ job' = Moved(NoDelivery, <<"metadata", sweep[s].content>>, "over")
  /\ sweep' = [sweep EXCEPT ![s].pc = "finalize"]
  /\ UNCHANGED <<route, own, permit, message, blob, ref, item, verdict, called, sends>>

FinalizeDelete(s) ==
  LET c == sweep[s].content
  IN /\ sweep[s].pc = "finalize"
     /\ ref[c] = [used |-> FALSE, state |-> "deleting", by |-> s]
     /\ ref' = [ref EXCEPT ![c] = [used |-> FALSE, state |-> "deleted", by |-> NoCleaner]]
     /\ job' = Moved(NoDelivery, <<"reference", c>>, "over")
     /\ sweep' = [sweep EXCEPT ![s] = Resting]
     /\ UNCHANGED <<route, own, permit, message, blob, meta, item, verdict, called, sends>>

\* The cleaner dies; what it claimed stays `deleting'.
CleanerDies(s) ==
  /\ sweep[s] # Resting
  /\ sweep' = [sweep EXCEPT ![s] = [pc |-> "dead", content |-> NoContent]]
  /\ UNCHANGED <<route, own, permit, job, message, storeVars, item, verdict, called, sends>>

MetadataAges(c) ==
  /\ meta[c] = "young"
  /\ meta' = [meta EXCEPT ![c] = "old"]
  /\ UNCHANGED <<route, own, permit, job, message, blob, ref, item, verdict, sweep, called, sends>>

-----------------------------------------------------------------------------
Init ==
  /\ route \in {"private", "routed", "direct"}
  /\ own = [fence |-> 0, live |-> FALSE]
  /\ permit = [b \in Boundaries |-> [fence |-> 0, completed |-> FALSE]]
  /\ job = [d \in Deliveries |-> [pc |-> "waiting", fence |-> 0,
              content |-> NoContent, asked |-> FALSE, readOnly |-> FALSE]]
  /\ message = NoDelivery
  /\ blob = [c \in Contents |-> FALSE]
  /\ meta = [c \in Contents |-> "none"]
  /\ ref = [c \in Contents |-> [used |-> FALSE, state |-> "live", by |-> NoCleaner]]
  /\ item = [content |-> NoContent, by |-> 0, notice |-> "none", owner |-> 0]
  /\ verdict = [status |-> "none", by |-> 0]
  /\ sweep = [s \in Cleaners |-> Resting]
  /\ called = {}
  /\ sends = 0

Archive(d) ==
  \/ Begin(d, "archive", "archive", "size")
  \/ CheckSize(d) \/ AuthorizeUpload(d) \/ Upload(d)
  \/ Verify(d, "verify", "describe")
  \/ Describe(d) \/ Restore(d)
  \/ Complete(d, "archive", "archived", "outbox")

Enqueue(d) ==
  \/ Begin(d, "outbox", "outbox", "check")
  \/ Verify(d, "check", "register")
  \/ Register(d) \/ Create(d)
  \/ Complete(d, "outbox", "created", IF route = "routed" THEN "notify" ELSE "finish")

Notify(d) ==
  \/ Begin(d, "notification", "notify", "reserve")
  \/ ReserveNotification(d) \/ ConsumeNotification(d)
  \/ SendNotification(d) \/ AcceptNotification(d)
  \/ Complete(d, "notification", "notified", "finish")

Direct(d) ==
  \/ BeginDirect(d) \/ BeforeMutation(d) \/ Call(d) \/ RecordEvidence(d)
  \/ NothingToPublish(d)
  \/ Complete(d, "provider", "settle", "finish")

Deliver(d) ==
  \/ Receive(d) \/ Acquire(d) \/ Ask(d)
  \/ Begin(d, "success", "finish", "record")
  \/ RecordVerdict(d)
  \/ Complete(d, "success", "recorded", "delete")
  \/ DeleteMessage(d)
  \/ Dies(d) \/ Fails(d)

Sweep(s) ==
  \/ \E c \in Contents : ReadMetadata(s, c)
  \/ ClaimDelete(s) \/ DeleteBlob(s) \/ DeleteMetadata(s)
  \/ FinalizeDelete(s) \/ CleanerDies(s)

Next ==
  \/ \E d \in Deliveries : Deliver(d) \/ Archive(d) \/ Enqueue(d) \/ Notify(d) \/ Direct(d)
  \/ \E s \in Cleaners : Sweep(s)
  \/ RepairReserves \/ RepairSends
  \/ OwnershipExpires
  \/ \E c \in Contents : MetadataAges(c)

Spec == Init /\ [][Next]_vars

-----------------------------------------------------------------------------
(* Properties.                                                             *)

\* An outbox item always has its bytes: no cleaner, however stale the metadata
\* it read, deletes an artifact that an item was created for, although the
\* artifact is verified, registered and used in three separate updates
\* (enqueue, _register_artifact_reference, cleanup_orphan_artifacts).
ItemHasArtifact ==
  item.content # NoContent =>
    /\ blob[item.content]
    /\ ref[item.content].used /\ ref[item.content].state = "live"

\* A cleaner never loses its fence half-way: the error "artifact cleanup fence
\* was lost" cannot happen, whatever is committed or registered meanwhile.
FenceIsNeverLost ==
  \A s \in Cleaners : sweep[s].pc \in {"blob", "metadata", "finalize"} =>
    ref[sweep[s].content] = [used |-> FALSE, state |-> "deleting", by |-> s]

\* On the direct path one delivery at most ever calls a provider, even if it
\* lost the job between the check of its permit and the call (begin without
\* takeover, before_mutation).
ProviderCalledByOne == Cardinality(called) <= 1

\* The initial notification is sent at most once, by the deliveries and the
\* scheduler together (reserve_notification, authorize_notification_send).
HintedAtMostOnce == sends <= 1

\* A job that completed with a private archive has an outbox item of exactly
\* the file the completing delivery rendered, not of an earlier render
\* (enqueue's conflict check, terminal_success).
CompletedIsArchived ==
  verdict.status = "completed" /\ route = "private" =>
    \E d \in Deliveries : job[d].fence = verdict.by /\ item.content = Rendered(d)

\* The item and the verdict are recorded in the order of the claims, although
\* authority is checked in one blob and used in another (update_bytes): what a
\* delivery records under its claim replaces only what earlier claims recorded.
\* A failure is recorded without a claim (run_video_generation); a delivery that
\* lost the job can turn its successor's completion into a failure with it, but
\* can neither complete the job nor make the verdict its own.
AuthorsOnlyRise ==
  [][/\ item'.by >= item.by
     /\ verdict' # verdict => \/ verdict'.by > verdict.by
                              \/ verdict' = [verdict EXCEPT !.status = "failed"]]_vars

\* The handoff as a whole: ownership, artifacts, item, notification and verdict,
\* with their separate blobs and stale answers, pass through the states of Custody.
Handing == INSTANCE Custody WITH
  Files <- Contents, NoFile <- NoContent, Publishers <- Deliveries,
  kept <- {c \in Contents : blob[c]}, handed <- item.content,
  announced <- sends, published <- called, status <- verdict.status
CustodyImplemented == Handing!Spec

=============================================================================
