# A verification development for the podcaster

The program turns one weekly document (an AI newsletter) into a podcast
episode and a reviewed video, and publishes them. It is a set of short-lived
Python jobs around blob storage and storage queues. No job talks to another one
directly: they share JSON documents that are updated by compare-and-swap, and
queue messages that may be lost, repeated or delivered late. Almost every hard
question about it has one form: *a job died, or is slow, in the middle of
something the outside world can see; what may the next one do?*

This directory holds TLA+ modules of the parts where that question is hardest,
TLC configurations that check them on small instances, four abstract specifications
of what the parts promise, which the detailed ones are shown to implement, and proofs,
checked by TLAPS, that the safety properties of every protocol among them, the four
promises included, hold without the bounds of the instances. Source paths below are relative to the repository.

    tlc -workers 2 -config MCOutbox_one.cfg MCOutbox     # a run
    tlapm OutboxProofs.tla                               # the proofs of a module

## 1. The system

### Components, their state and their operations

| Component | Source (podcaster/) | State it keeps | Operations that change it | Modules |
|---|---|---|---|---|
| Generation, review, dispatch | api.py, jobs.py, costs.py, dispatch_receipts.py, orchestration.py, review.py | replay inputs, ledger of the month, dispatch receipt, job manifest | accept, reserve, release, stage, approve, revoke, send | `Generation`, `Synthesis` |
| Script and grounding | script_gen.py, claim_extraction.py, grounding_gate.py | the script in hand and the budgets of its repairs | draft, repair sections and length, audit, targeted and full repair, gate, downgrade | `Drafting` |
| Synthesis runner | job_runner.py, tts_pool.py, pipeline_lock.py | synthesis message, claim, audio lock | receive, claim, call the provider, complete, fail, poison | `Synthesis` |
| Recorder fan-out | video/recorder.py, editor.py, clipset.py | clip set, editor lease, clip messages, admissions, attempts, media, terminal manifests | plan, fan out, record, fall back, commit, terminalise, assemble, clean up | `Recorder`, `Recording` |
| Plans of the picture | audio_metadata.py, video/sync_plan.py, edl.py, video_compose.py | none: functions of the measured audio | topics, edit decision list, segments, fitted lengths | `Timeline` |
| Video job and recovery | video/job_runner.py, recovery.py, monitoring.py | recovery ledger, selected output, runner status, budget | receive, stage, select, reserve an epoch, dispatch, settle, sweep | `Recovery`, `Selection` |
| Video ownership | video/ownership.py | one document per video job: claim, fencing token, permits of boundaries | acquire, refresh, begin, complete | `Handoff`, `Custody` |
| Artifact store | distribution_outbox.py 293-377, 2882-3055 | immutable blobs, their metadata, a reference document per digest | commit_immutable_artifact, register, cleanup_orphan_artifacts | `Handoff` |
| Distribution outbox | distribution_outbox.py | one JSON document per (week, language, package): claim, fencing token, attempts, provider legs, schedules, notification reservations, media review, weekly decision | enqueue, claim, heartbeat, persist_intent, consume_intent, record_receipt, record_verification, record_media_review, schedule_reconciliation, release, authorize_recovery, the initial and the reconciliation reservations | `Outbox`, `Reconcile` |
| Distribution worker and dispatcher | distribution_worker.py, distribution_dispatch.py | the message and the document in hand, the legs left | process_message, poison, lease renewal; survey, the YouTube and the Spotify walk | `Dispatch`, `Publication` |
| Distribution scheduler | distribution_scheduler.py, queue.py | the page in hand, its reservations | repair_notifications_page, run_once, orphan cleanup | `Reconcile`, `Handoff` (the cleanup) |
| Direct publication | publish.py, video/distribution.py, publication_state.py, provider_retry_rearm.py | the evidence ledger | claim, create, recover, adopt, upload, describe, confirm, re-arm | `Evidence`, `Publish` |
| Storage | storage.py | blobs | conditional writes | the assumption of every module |
| Quota, packaging, status views, configuration, credentials, user interface, infrastructure | see PROJECT.json | none, or append-only | | not modelled |

### How they interact

    API --manifest--> review --QUEUE--> synthesis runner --audio--> manifest
                                             |  audio lock
    manifest --QUEUE--> VIDEO RUNNER --clip QUEUE--> recorders --manifests--> editor
                             |  selects one private video; recovery epochs
                             |
                             +--direct--> publish.py, YouTube upload --> evidence
                             |
                 --commit artifact--> artifact store
                 --enqueue----------> OUTBOX document <---- operator: media review,
                                       ^   |   ^              authorize_recovery
             claims, intents, receipts |   |   | reservations
                                       |   v   |
       YouTube / Spotify <--requests-- WORKER  SCHEDULER (timer)
                                       ^          |
                                       +-- QUEUE <-+

The worker only learns of an item by a queue message; the queue gives a message
back when its visibility timeout runs out, so two executions of the worker can
hold the same item. The scheduler is the only other source of messages: one
initial message per item, then one whenever a leg that waits for its provider
falls due. The document is the only thing two executions share, and the only
memory after one dies.

### What is hard

- **Mutations of unknown outcome.** A worker records an *intent*, *consumes* it,
  calls the provider, and records a *receipt*. It may die between any two of
  these, and the request may arrive after its death. From consumption to receipt
  nobody may mutate again, over takeovers, poisoning and recovery.
- **Fencing.** Every claim takes a new fencing token; a slow execution keeps its
  Claim object, and each late write has to be refused or harmless.
- **Attempts.** release closes an attempt by a stored weekly decision; an
  operator may authorise a new attempt from a closed one, while executions of
  the closed one still run.
- **Two legs, one decision.** Operations touch one leg, release judges all.
- **Notification.** Reserve, begin, send, complete: four steps with the queue in
  the middle, taken by runs that overlap and die, about schedules a worker
  replaces meanwhile.
- **Checked in one blob, used in another.** The video runner's authority is a
  permit in the ownership record; what it guards are the reference document, the
  outbox item and the manifest. The claim may be taken over between the two.
- **Requests without an idempotency key.** On the direct path nothing but the
  evidence, a listing and patience tells whether a lost create took effect.
- **One result of many workers.** Clips, the private video of a job and the audio
  are each written by whoever comes first, while slower, superseded or revoked
  workers go on and clean up behind them.
- **Budgets that re-open each other.** The repair loops of a script, the retries of
  a segment and the epochs of a recovery are bounded one by one; what is accepted
  in the end must have passed the last check after the last change.
- **Redelivery as a clock.** A message that comes back too often poisons the
  item, also when the earlier deliveries were healthy but slow.

PROJECT.json lists each hazard at the line where it bites with the properties
that cover it, or says why none does.

## 2. The modules

### `Outbox`: one item of the repository

Every public operation of `DistributionOutboxRepository` is one `_update`, that
is one compare-and-swap of the whole document; so every operation is one action
and the interleaving is between operations. The actions carry the operations'
names in TLA+ form (`Claim`, `PersistIntent`, `ConsumeIntent`,
`RecordReceipt`, `RecordVerification`, `ScheduleReconciliation`, `Release`,
`AuthorizeRecovery`, `RecordMediaReview`, ...), and include the trailing work of
the code: a verification refreshes the aggregate, a settled leg loses its
schedule, a recovery resets the legs.

| Variable | Code |
|---|---|
| `fence`, `claim` | `document["fencing_token"]`, `document["claim"]` |
| `attempts` | `document["attempts"]` with outcome, frozen evidence and recovery authorisation |
| `legs` | `document["providers"][p]`: intent, receipts, verification, result, verification count |
| `sched`, `notice` | the leg's reconciliation schedule; its notification reservation |
| `weekly`, `review` | `document["weekly_aggregation"]["state"]`, `document["media_review"]` |
| `held` | the `Claim` object each execution has in memory |
| `horizon`, `lastId` | whether the verification horizon is still ahead; intents created |

`MutationNext` is the claim / intent / receipt / verification / release /
recovery protocol, `Next` adds review, schedules and time. The clients are the
*most general* ones: an execution may call any operation that its claim admits,
in any order, at any time, or die. What holds here holds for any worker.

Abstractions: time is one stage per deadline (a lease is ample, too short for
a provider call, or expired; a token is due or not); identifiers and digests are
numbers in order of creation; the events of an attempt are kept as what later
decisions read of them; `document["state"]`, which no operation reads, is left
out.

### `Dispatch`: the worker and the dispatcher, with queue and providers

EXTENDS `Outbox` and replaces the general client by the program of the worker:
`job[w]` is the program counter and the locals of an execution, `msg` the queue,
`flight` the requests that left for a provider, `done` those that took effect.
A request may take effect at any time after it left, answered or not, and after
its sender died (`Land`, `Drop`, `Confirm`, `Misfire`, `Doubt`). `Abandon` is
death, or an exception outside `mutate`, at any step. A message comes back at
any time (`Reappear`), and the delivery at `MaxDequeue` poisons. The two adapters
share one walk (`Survey`, `Visit`, `Locate`, `Persist`, `Consume`, `Request`,
`Send`, `Accept`, `Read`, `Prove`, `Pend`, `Schedule`) and differ in their guards:
`Youtube` legs search by identity and may insert into a playlist.

### `Reconcile`: scheduler runs against one item

EXTENDS `Outbox` with runs of `run_once` that may overlap and die: `initial` is
`enqueue["notification_intent"]`, `run[s]` the program counter, the page and the
reservations of a run, `hints` the messages in the queue, `announced` and `sends`
history variables. `Poll` is the part of a worker that matters here.
A worker whose provider mutation is switched off is an execution that never
polls: it claims, releases and deletes the message (`Deliver`, `Return`).

### `Handoff`: from the rendered file to the outbox item

Several deliveries of one video message run `run_video_generation` from the
rendered file on: claim the job, commit the file to the immutable artifact store,
create (or adopt) the outbox item, send its first notification or distribute
directly, record the verdict, delete the message. `route` says which of the three
ways the job goes. Any of them may stall, die (`Dies`), fail (`Fails`) or be taken
over (`OwnershipExpires`, `Acquire`) at any step, and two renders of one job may
differ. `RepairReserves` and `RepairSends` are the scheduler's repair, `Sweep` is
`cleanup_orphan_artifacts`.

| Variable | Code |
|---|---|
| `own`, `permit` | the ownership record: fencing token and claim, `boundaries` |
| `job` | the program counter and locals of each execution |
| `message` | the video message: who received it last, or that it was deleted |
| `blob`, `meta`, `ref` | the artifact of each digest, its metadata, its reference document |
| `item` | of the outbox item: artifact digest, fence of `source_ownership`, notification intent |
| `verdict` | `generation.video_runner.status` with the fence of its author |
| `sweep` | what each cleanup is doing |
| `called`, `sends` | history: deliveries that called a provider; notifications sent |

Here one operation is *not* one action. The callback given to `update_bytes` reads
the ownership record, another blob, before the conditional write. So such an update
is two steps: `Ask` (read the target, check the permit), then the write, which
succeeds only if nobody wrote the target in between; `Moved` sends everybody else
who asked about the written blob back to `Ask`, which is the retry loop of
`update_bytes`. A write whose permit was lost after the check can therefore happen
in the model as it can in the code.

### `Publication`, `Custody`, `Selection`, `Recording`: what the parts promise

Four abstract specifications, of some 20 to 40 lines each. They know nothing of leases,
fences, intents, messages or crashes; they say which states the outside world, or the next
part, may see, and in which order. Each is the claim of one detailed module
(`INSTANCE ... WITH`), which says that every behaviour of it, with all its crashes, late
requests, lost leases and redeliveries, is one of the abstract specification: each step is
a step of it or changes nothing of it.

| Promise | of | State, and what it is mapped from |
|---|---|---|
| `Publication` | `Dispatch` (`PublicationImplemented`) | `media` of each provider, from the requests that took effect; `verdict` of each leg, from its result; `week`, from the outcome of the attempts |
| `Custody` | `Handoff` (`CustodyImplemented`) | `kept`, the stored artifacts; `handed`, the artifact of the outbox item; `announced` and `published`, the notifications sent and the deliveries that called a provider; `status`, the recorded verdict |
| `Selection` | `Recovery` (`SelectionImplemented`) | `turn`, the number of epochs; `open`, whether the turn may still select; `staged`, the pending intent; `selected`, the selected output; `complete`, the status of the runner |
| `Recording` | `Recorder` (`RecordingImplemented`) | `outcome` of each clip, from its manifest and the media that this refers to; `complete`, that the job is finished |

`Publication`: a provider gets the media once; a leg is called public when the provider
shows it so, and then for good; a leg that was given up is taken up again by a recovery
only (`Reopen`, the code's authorize_recovery), and only when every leg was; the week is
published when every leg is public. Nothing the providers have is forgotten by `Reopen`,
so the second attempt cannot upload a second time.

`Custody`: a job that is reviewed first has one file, stored before it is handed over,
never replaced by a later render and never deleted; it is announced once, after that; a job that
is published directly is published by one delivery, and not by the outbox as well; a
private job is complete only when its file was handed over. A failure may be recorded at any
time, also after a completion: the code asks for no authority there (a listed hazard).

`Selection`: ordinary work, and every epoch after it, has one turn, and a closed turn stays
closed; a candidate is staged and selected in its own turn, one at a time; the job is
complete exactly with the selection, which is for good.

`Recording`: a clip is concluded once, as a recording, a card or without a picture, and
stays so until the job is finished; the job is finished only when every clip has a picture.
What the cleanup takes away, and what late recorders write, comes after that.

### `Drafting`, `Generation`, `Synthesis`: from a request to the audio

Three modules, each extending the one before. `Drafting` is how one call gets a
script: a script is its number of spoken words, whether its sections stand, and the
turns that the gate finds ungrounded; what a language model answers is arbitrary, and
time is the budget that is used up (`clock`). `Generation` wraps it in the calls of
`/api/generate` for the same content: replay inputs (`reserved`), a slot in the
ledger (`slot`), the marker of filtered content, the manifest (`job`) and the dispatch
receipt (`receipt`), one blob a step. `Synthesis` adds reviewers, the queue, and
executions of the runner: claim of the synthesis, audio lock, segments with their
retries, completion, the failure handlers and the poisoning. `bought` and `late` are
history: executions that called the provider, calls begun after a revocation.

### `Recorder`: the fan-out of the clips

Recorders and editors around one clip set: `queue` and `attempts` are the clip
messages and their counted failures, `adm` and `lives` the admissions with their
deadlines, `media` and `manifest` the blobs, `run` the program counters. `Outcome` is what
a manifest is worth to the assembly, and is what `Recording` sees of it. A conditional
update is two steps here (`CommitRead`, `CommitWrite`), because its callback may be
repeated; every process may stall, fail or die at any of them.

### `Recovery`: the one private video of a job

Ordinary deliveries, and the epochs that may take over: `epochs` is the ledger with
owner, lease and deadline of each, `pending` the intent of a selection, `chosen` the
selected output, `runner` the recorded status, `message` the queue, `attempt` and
`caller` program counters. A conditional update of the manifest is one step; what was
read before it may be stale. `clean` stands for the two proofs an epoch needs, that the
reviewed media are unchanged and that no provider knows the job. `Selection` sees of all
this the last epoch of the ledger, the intent, the selection and the runner status.

### `Evidence` and `Publish`: the direct path

`Evidence` is the ledger of publication_state.py as operators on a sequence of
records: which record is a duplicate, which claim is taken, what blocks a retry.
`Publish` is three ways to publish one job with it (`scope`: a YouTube upload, a Spotify
video, Spotify audio), by attempts that overlap, die and are repeated. `items` is what
the provider has; a create is answered, refused, lost, or applied `late`, and then listed
at any later time: nothing is assumed of the settling delay, so the one more create that
the recovery of a Spotify video sends after two empty listings (`PostAgain`) may follow a
first that is yet to come. A listing is complete or an error. Drafts of other publications
appear only as faults.

### `Timeline`: when the picture shows what is said

Pure algorithms in one pipeline: measured turns to topics, topics to the edit decision
list (used by tests only at this commit) or to the plan that is recorded, with the
legacy plans of jobs without metadata, and the plan to fitted lengths. Time is counted
in ticks, and a fitted length is a fraction, so that nothing is rounded.

`TimelineIsCovered` has six parts. `EdlTiles` and `SourceFills` are the guarantees of
edl.py, corrected at the two points where the code does not keep them (listed below).
`PlanTiles`: a segment is laid out where its start says, up to the opening of a legacy
script and what was dropped. `RepoIsShown`: a repo that a topic names has a segment from
then on; one that a legacy script names is shown from its mention, earlier only as far as
it and the repos after it need room before the end, later only as far as those before it
do, and for the least length at least. `ContentFits`: the fitted lengths fill the window.
`OnCueInVideo`, in every composition: how far the picture is from the plan, bounded by the
sum of the causes there are, each on the side it acts to: an intro longer than what it
covers of the first segment, a bridge, dropped segments, a page of the week longer than
the bridge, an outro longer than the last segment, section cards, lengths raised for a
transition, one transition per boundary. Without any one of them the run finds the
property violated, but for the dropped segments on the late side, which one transition
hides at these lengths.

### How they are composed

`Dispatch` and `Reconcile` both extend `Outbox`, so the actions of the document
are the same definitions in all three, and an invariant of `Outbox!Next` that is
proved for every client is inherited by both. The scheduler appears in
`Dispatch` as `Hint` and `Notify` (a message, recorded or not), the worker in
`Reconcile` as `Deliver`, `Poll`, `Return` and `Die`. `Handoff` stands before them
and shares no definition with `Outbox`: it keeps of the item only what the runner
writes, its creation and its notification intent. `Synthesis` extends `Generation`,
which extends `Drafting`; their `Next` interleaves all three. `Publish` extends
`Evidence`. `Recorder`, `Recovery` and `Timeline` are what the video runner does
before the file of `Handoff` is there, and meet it only in that file. The promises compose
in that order: `Recording` completes with a picture for every clip, `Selection` with one
video of the job, `Custody` with that file in the outbox, `Publication` with the week.

## 3. What is checked

Every property below has been seen to fail in a mutant of the definitions it is about
(PROJECT.json, "mutants").

| Run | Question | Bounds | Properties |
|---|---|---|---|
| outbox_one | Can two racing, stalling, dying executions mutate twice? | 2 executions, 1 leg, 2 operations, 3 claims, 2 attempts, 2 intents, 2 verifications, 1 provider item | `TypeOK`, `UnknownIsFenced`, `MutatorOwnsAttempt`, `SingleRecoveryGrant`, `EvidenceIsOwn`, `WinnerIsProven`, `HistoryIsImmutable`, `UnknownIsKept` |
| dispatch_youtube | Does the real worker mutate once, and publish what was recovered? | 2 executions, 1 leg with playlist, 3 claims, 2 attempts, 3 intents, 3 verifications, 2 tokens, 2 deliveries | `CreateAtMostOnce`, `OneMutationInFlight`, `PublicationImplemented` |
| dispatch_both | Is what the outbox calls public really public, and the week published only then? | YouTube and Spotify, 1 execution at a time, 2 claims, 2 attempts, 4 intents | `VerifiedIsPublic`, `DecisionIsCurrent`, `PublicIsKept`, `PublicationImplemented` |
| dispatch_retry | Can an unknown mutation authorise a retry, as the documentation denies? | as dispatch_youtube, no playlist, 2 intents | `UnknownNeverAuthorizesRetry` (violated) |
| dispatch_forgotten | Has every pending leg a schedule, a message or an execution that will look at it, as the documentation says? | as dispatch_youtube, 1 execution at a time, 3 deliveries | `NoLegIsForgotten` (violated) |
| reconcile_runs | Is an item announced once, truthfully, not after it settled, and in the end always? | 2 overlapping runs, 1 fault, 2 tokens, 4 reservations | `InitialSendAtMostOnce`, `SettledIsSilent`, `DueIsAnnounced` |
| handoff | Can a redelivered video job lose its file, publish or announce twice, or, other than by a failure, record over its successor? | 2 deliveries, 2 cleaners, 2 contents, 2 claims | `ItemHasArtifact`, `FenceIsNeverLost`, `CompletedIsArchived`, `AuthorsOnlyRise`, `CustodyImplemented` |
| recorder | Can a race for a clip lose its media, change its manifest or count a failure twice? | 1 clip, 2 recorders, 1 editor, plan absent or legacy, 2 deliveries, 2 counted failures, 1 message, 2 recordings, 1 admission, 1 fault | `RecordingKeepsMedia`, `GivenUpIsTerminal`, `FailuresCountOnce`, `ManifestIsFinal`, `RecordingImplemented` |
| synthesis | Is what is spoken an accepted script, paid for once, and nothing after a revocation? | 2 calls, 2 reviewers, 2 runners, 2 messages; 2 turns, 2 segments, lengths 0 to 3 of which 1 and 2 are in range, 3 modes of grounding; 1 repair of each kind, 2 of length, 1 retry; 2 deliveries, 2 faults | `AcceptedIsSound`, `ReservationIsHonest`, `TtsByOne`, `RevocationStopsCalls`, `RevokedStaysRevoked` |
| recovery | Is the private video selected by whoever may, once, and is every epoch settled? | 3 attempts, 2 epochs, 3 messages, 2 deliveries, 1 fault | `SelectionIsAuthorized`, `SelectionImplemented`, `EpochSettles` |
| publish | Does one attempt alone create, and is what it created remembered and published? | 3 attempts, 3 scopes, 2 faults | `CreatedOnce`, `ArtifactIsRemembered`, `PublishedIsLive` |
| timeline | Does the picture cover the audio, and show each repo when it is named, up to what causes? | up to 3 turns of 10 kinds, 3 offsets, 3 lengths of audio, 4 clip libraries, 12 pairs of bumpers; legacy scripts of up to 2 repos | `TimelineIsCovered` |

`ProviderCalledByOne` and `HintedAtMostOnce` (one delivery calls a provider, one initial
notification) follow from `CustodyImplemented`, and `CompletionStands` from
`SelectionImplemented`; no run checks them by themselves, each is a theorem below.

Why the bounds are enough for the questions. A hazard here needs the party that
was interrupted, the one that takes over, and sometimes a third that recovers:
three claims give each of them a fence. A recovery is interesting in the step from
attempt 1 to attempt 2; a third attempt meets the second as the second met
the first. Two intents let a second operation follow a consumed one; three let a
playlist insert stand between. Four schedule tokens cover the enqueue, the media
review and a worker's schedule with one in reserve, so that a leg is polled again
and its budget spent; two are enough for dispatch_youtube, whose budget of three
verifications lets the second attempt see its leg public and publish the week, and for the
scheduler, the one it announces and the one that replaces it. In dispatch_both the
second attempt meets two legs, and a recovery asked for while one is public is refused. The legs are symmetric and only the weekly decision and release read
both, so one leg suffices elsewhere. The proofs below remove the bounds altogether:
every bound is a constant there.

In `Handoff` two claims give one takeover; two contents let the second render differ,
two cleaners meet over one artifact. Clips are independent until they are assembled, so
`Recorder` has one; two recorders and the editor are the writer, the one that lost its
lease, and the deadline. In `Synthesis` each kind of repair may run out and re-open the
others, two turns let a repair mend one and spoil the other, a length above the range and one
below it let a repair leave it either way, and the second message is
the job queued again after the first. `Recovery` has the ordinary attempt and two epochs,
the second of which finds the first settled; the code allows three. Three attempts in
`Publish` are one that died, one that recovers its create and one that overlaps the
recovery. A boundary of `Timeline` lies between two turns and a third makes one of them
inner; lengths of audio are even, so that a half is a whole tick, and long enough for a
plan with and without a window of its own; a library has no clip, a short one, one with
a cut, or both.

Deadlock is not checked: the system may legitimately stop (a week that is
published, a leg that is handed over, a queue that is empty), and the bounds on
claims, intents and tokens stop it too.

Fairness is assumed in two modules; everything else is a safety property and assumes
none.

- `Reconcile`: WF of a run's next step (the timer of infra/ starts `run_once` again and
  again, and a run stops only by a fault, which `MaxFaults` bounds), of the expiry of a
  reservation, and of the ageing of a recorded notification (time passes). Nothing is
  assumed of the worker. `DueIsAnnounced` has the hypothesis that runs overlap no more
  from some point on (`Alone`), which parallelism 1 and a replica timeout no longer
  than the period give. Two runs that overlap without end can take the unconsumed initial
  reservation from one another, each ending with an exception before it reaches the due
  page (listed as a hazard).
- `Recovery`: WF of the passing of an epoch's deadline (time passes), and of the steps
  of the API's sweep and of a request under way (the sweep is repeated every minute, and
  finishes what it began unless it dies, which `MaxFaults` bounds). Nothing is assumed of
  the runners: `EpochSettles` says that the ledger is settled even if no runner ever moves.

### Disagreements between the code and what is said of it

Two have a run:

- *dispatch_retry.* docs/ops/distribution-terminal-truth.md lines 82-84: an
  unknown mutation "cannot authorize a blind retry". `authorize_recovery` only
  asks that the leg has exactly one receipt; after an accepted upload and a
  promotion that was consumed and never answered, the upload's receipt is counted
  for the promotion, and the recovery is granted. `UnknownIsKept` and
  `UnknownIsFenced` show that *within* an attempt the rule does hold.
- *dispatch_forgotten.* The same document, lines 47-48: a token is consumed "before
  readback, then a still-pending leg receives a fresh bounded schedule". A delivery that
  dies between the two leaves a leg that keeps its token and has no due time. If its
  message comes back while provider mutation is switched off, the worker deletes it, and
  then the scheduler passes the leg over for having no time, the repair for having a
  token. With two executions and three deliveries the switch is not needed: a receiver
  that claims late takes the leg over and dies, and the other one deletes the message.

The others are visible in a single function, without any interleaving, so a run would
add nothing to reading it. The models follow the code.

- *A stale notification.* tests/test_distribution_outbox.py lines 794-814: a leg is
  due again 901 seconds after it was notified. The page does list it, but
  `reserve_reconciliation_notification` refuses any token that was ever notified,
  so no second message is sent. If the one message met a worker with provider
  mutation disabled, nothing wakes the leg again.
- *A re-armed YouTube retry.* docs/youtube-publish-workflow.md lines 174-178: the next
  run's claim consumes the re-arm. The runner's claim (video/job_runner.py line 2063) is
  `append_evidence`, which finds the earlier `upload_intent` to be the same record and
  returns nothing; the platform is then passed over, and the re-arm stays armed.
- *The identity tag.* The same document, lines 219-222: every upload intent declares
  the tag of the video in its details. The runner's intent has no details
  (`_upload_intent_details` is called by tests only), and the chunked upload of
  `distribute_video` is not given the tag either.
- *The direct Spotify video.* The runner appends an intent that blocks a retry for this
  platform too; the publisher it then calls asks whether a retry is blocked, and refuses.
- *One new draft.* publish.py line 1541: a single untitled draft that was not there
  before the create is taken for the create's. It may be another publication's.
- *One draft of a video.* publish.py lines 1609-1611: after two listings without a new
  draft, five seconds apart, the create "provably did not take effect"; likewise
  tests/test_publish.py line 7274 ("the create did nothing"), and
  docs/spotify-video-upload.md lines 208-209: a publish sends "at most one *effective*
  draft create". publish.py itself says that "read-your-writes is not guaranteed" (lines
  735-743), and of audio that a second create is never sent because "a still-settling create
  would orphan a duplicate" (lines 1729-1730); the same document, lines 364-368, lists the
  two drafts as a residual window. The model has it: `CreatedOnce` allows the second draft,
  of the same attempt. The document says both stay orphans; an
  attempt that read the claim and stalls before its listing may still adopt the late one,
  and publish it.
- *Ranges of a clip.* video/edl.py line 36, lines 342-345 and `validate_edl` (lines
  678-683): the source ranges of a clip "concatenate to exactly" the length of the segment.
  Where the safe ranges are not enough, the cut of the tail takes `excess` ticks that may
  lie in a range already removed (lines 374-376), and the ranges exceed the segment by
  just that overlap: `SourceFills` has the equation. `validate_edl` would raise; no code
  but the tests calls it.
- *Shortest segment.* video/edl.py line 35 and `validate_edl` (lines 684-687): every
  segment but an intermission is at least `min_visual_ms` long. An episode that is
  shorter has one segment, which is not (`EdlTiles`).
- *On cue.* video/video_compose.py lines 1517-1519: while the intro is shorter than the
  bridge, every repo "stays exactly at its measured audio cue". It does up to one transition
  per boundary and the other causes of `OnCueInVideo`. Likewise `sync_plan`: a dropped
  segment "contributes 0", up to 50 ms each.

## 4. What is proved

Every safety property of section 3 but that of `Timeline` is a theorem of a
specification, for all values of the constants that satisfy the assumptions of the
modules: the sets of executions, legs, clips, contents, calls or messages may be of
any size, the bounds any naturals. TLC has checked each property, and each
strengthening, on a small instance first.

The assumptions are these, and no more. Bounds are naturals, and positive where the
code has at least one of the thing (`OutboxAssumption`, `RecorderAssumption`, ...).
Placeholders are none of the values they stand for: no item is not the number of an item
(`EvidenceAssumption`), no call not a call (`GenerationAssumption`), a fallback card
not a recording (`RecorderAssumption`), an execution not a state of a message
(`SynthesisAssumption`), a recorder not an editor. Readings of a provider are well typed
(`DispatchAssumption`).

| Module | Theorem | Statement |
|---|---|---|
| `OutboxProofs` | `TypeCorrect`, `Inductive` | `TypeOK` and the strengthening `IInv` are invariants, with the most general client |
| | `UnknownFenced` | while a mutation is unresolved, only the claim that consumed it may mutate |
| | `MutatorOwns` | a mutation-capable claim belongs to the open attempt |
| | `OneGrant` | a recovery grants at most one mutation-capable claim |
| | `OwnEvidence` | frozen intents and receipts belong to their attempt |
| | `CurrentDecision` | the stored weekly decision is the one the document implies |
| | `ProvenWinner` | an attempt ends as published only on authoritative proof of every leg, a recovered one only on the authorised items |
| | `ImmutableHistory` | no step changes a closed attempt's outcome or evidence, or a superseded attempt |
| | `UnknownKept` | an unresolved mutation keeps its intent and every receipt within its attempt |
| `DispatchProofs` | `DispatchInductive` | `DInv`, the invariant of document, executions and requests together |
| | `OneCreate` | a provider never gets the media twice |
| | `OneInFlight` | in the first attempt no mutation starts while the fate of another is open |
| | `PublicIsVerified`, `PublicKept` | what is called public is public, and stays so in its attempt |
| | `DispatchDecides` | the weekly decision is current in every state of the dispatch |
| | `DispatchKeepsHistory`, `DispatchKeepsUnknown` | the dispatch keeps closed attempts, and mutations of unknown outcome, as `Outbox` alone does |
| | `Implements` | `DispatchSpec` implements `Publication`, over any number of attempts and recoveries |
| `ReconcileProofs` | `ReconcileInductive` | `RInv`, for overlapping and dying runs |
| | `InitialSentOnce` | the initial message of an item is sent at most once |
| | `SettledStaysSilent` | a settled leg has no schedule, reservation or notification |
| | `ReconcileKeepsHistory`, `ReconcileKeepsUnknown` | the scheduler's runs keep them too |
| `HandoffProofs` | `HandoffTyped`, `HandoffInductive` | the type invariant and `IInv` |
| | `ItemKeepsArtifact` | an item always has its bytes and a live, used reference |
| | `CleanersKeepFence` | no cleanup loses the reference it claimed |
| | `OneCallsProvider`, `HintedOnce` | one delivery calls a provider; one initial notification |
| | `CompletedHasItem` | a private completion has an item of its author's file |
| | `AuthorsRise` | a delivery replaces only what earlier claims recorded, or turns a verdict into a failure |
| | `HandoffKeepsCustody` | `Handoff` implements `Custody` |
| `SynthesisProofs` | `SynthesisInductive` | `IInv`, of `Drafting`, `Generation` and `Synthesis` together |
| | `SoundScript` | a script is accepted only in its length and with nothing flagged, whatever the budgets |
| | `HonestReservation` | a job under review holds its inputs and its slot in the ledger; a retry gave its own up |
| | `OneBuyer`, `LateOnce` | one execution pays; after a revocation at most the call that was past its check |
| | `RevocationStands` | a revoked dispatch is never approved again and completes nothing |
| `RecoveryProofs` | `RecoveryInductive` | `IInv`, of ledger, selection and runner state |
| | `AuthorizedSelection`, `CompletionKept` | a selection has the authority the ledger records, and stands |
| | `SelectionImplements` | `Recovery` implements `Selection` |
| `PublishProofs` | `PublishInductive` | `IInv`, of evidence, attempts and items |
| | `OneItem` | one attempt makes all there is of a publication: one item, or two drafts of a Spotify video |
| | `NeverForgotten` | an item is named, blocks retries, or will be found by a listing |
| | `PublishedStaysLive` | an episode that is called published is live |
| `RecorderProofs` | `RecorderInductive` | `IInv`, of messages, executions, media and manifests |
| | `RecordingKept` | a recording that a manifest refers to stays until the job is finished |
| | `GivenUpHasManifest` | a message is given up only when its clip has a manifest |
| | `CountedOnce` | a failed execution counts once |
| | `ManifestStands` | a terminal manifest is never replaced |
| | `RecordingImplements` | `Recorder` implements `Recording` |

None of the properties is inductive alone, with the exception of `CurrentDecision`. What
each proof adds, and why:

**`Outbox`.** `IInv` adds:

- `ClaimIsCurrent`: the document's claim carries the newest fence, and a Claim
  object with that fence belongs to the same attempt. Without it an execution of
  a closed attempt could be recognised by `_require_claim`, which does not compare
  attempts.
- `LegIsOwn`: the consumed intent and the receipts of a leg belong to the last
  attempt. It turns into `EvidenceIsOwn` when release freezes the leg, and is
  restored when a recovery resets it. It needs `MutatorOwnsAttempt`, because it is
  the claim's attempt that is written.
- `GrantsAreSpent`: an attempt that granted a mutation-capable claim is no longer
  the record it was authorised with, which is what makes a second grant fail.
- `PriorIsClosed`: every attempt but the last has an outcome; together with
  `DecisionIsCurrent` it makes the outcome of release a decision about the legs
  that are frozen with it (`WinnerIsProven`).

A step is first reduced to one of a few kinds (`StepKinds`): work on a leg by a
recognised claim, a new claim, a release, a recovery, or something that touches
neither attempts nor claims. `ClaimFacts`, `ReleaseFacts` and `RecoveryFacts` say
once what each kind changes; the step lemma of each conjunct then splits on the
kinds only. `TypeStep` splits on the actions of `Next`.

**`Dispatch`.** A step of the dispatch is a step of `Outbox` for the document, so `IInv`
is kept for free; `DInv` relates the document to what is outside of it. Intents are
numbered, and a request belongs to one consumed intent (`IntentsAreNumbered`,
`RequestsAreOwn`). What the *claimant* is about to send was not sent before
(`MutationIsFresh`), while an execution whose claim is gone may be anywhere in its walk,
which is why nothing is said of it but what it saw (`SeenIsThere`). In the first attempt
every other request is answered (`OthersAreAnswered`), and a later one has no intent to
create (`CreatesAreOne`), because a recovery binds the leg to an item. `WalkIsOpen`, that
the claimant never works on a finished leg, is what keeps a public leg public.

`Implements` shows that the start maps to the start of `Publication`, and every step to
one of its steps or to none: the landing of a request to `Publication`'s upload or
promotion, a verification to a verdict, the release to the week's, a recovery to `Reopen`.
For the last, `DInv` has `EndedAsClosed`: an attempt that ended as failed left every leg
given up, one that was published every leg public, and a readback that was frozen as failed
is of a leg that is. Without it a recovery, which reads the frozen evidence and not the legs,
could take back the verdict of a leg that is public.
`DispatchKeepsHistory` and `DispatchKeepsUnknown` rest on the same two lemmas as the theorems
of the most general client (`HistoryStep`, `KeepsUnknownStep`); a step that is none of
`Outbox` only marks a notification.

**`Reconcile`.** Only who consumed the reservation is about to send, and nothing was sent
before (`SenderIsOne`). A run reserves from a page that may be old; that the token it
saw was one (`TodoIsScheduled`) and that a reservation is refused for any other
token than the present are what keep a settled leg silent. What a run writes of its own
is the schedule and the reservation of a leg (`ItemOrNotice`), so that history and unknown
mutations are kept as in `Outbox`.

**`Handoff`.** The permit is checked in one blob and used in another, so the invariant
says what is left of an answer when the write comes. `FencesAreDistinct` and
`AuthorsAreClaims` make fences a history of the job, in which a claim records one verdict. `AnswersHold` is what a delivery that
asked may still rely on; `RestoredIsLast` that no older delivery undoes the
restore of the current one; `VerifiedStands` that bytes that were verified are there, or
their reference says they were deleted; `RegisteredStands` that registration keeps them.
The last is only true of the current delivery or of one that has asked, which is the
order of the code: ask, compare, write. `OnRoute` keeps a delivery on the route of its job,
and a notification from an item that is not there. `HandoffKeepsCustody` puts these together:
each record of `Custody` is written by few actions, none of which writes two, and
what a write relies on was established for an earlier step of the same delivery, under
a permit that may be lost by then: `RegisteredStands` that the file handed over is stored,
`AnswersHold` that it replaces no other, `CallersHoldPermit` that who calls is alone.

**`Synthesis`.** One call at a time is at work on the reservation (`OneCallAtWork`), and
after the first write of the manifest nobody gives it up (`StagedIsKept`, `StagesInOrder`).
Before an approval everything of the synthesis is at rest (`UndispatchedIsIdle`); then the
claim is single (`ClaimIsSingle`), and after a call under a revoked approval nobody is at
the provider (`LateIsLast`). `ScriptIsChecked` carries the length from the last repair, or the last
patch that was merged, to the gate.

**`Recovery`.** `SelectionOK` ties three records: an epoch is selected exactly if the
selection names it, the owner in the ledger is who chose, and the runner is completed.
Epochs are only appended, and owners stay once something is chosen (`EpochsKept`). The
runner is completed exactly if something is selected, and every epoch before the last is
terminal, so that an attempt whose authority is current has the turn (`CurrentTurn`) and
whoever staged in an earlier one can select no more: reserving an epoch drops the intent
of its predecessor. `SelectionImplements` needs it for the attempt that staged, lost its
lease, and comes back when a successor has the ledger.

**`Publish`.** `OneCreates`: only one attempt is between its claim and the outcome of its
create, and no claim can be made meanwhile (`Closed`), because the claim is the last record
or what follows it blocks. Until the create there is no item; in the recovery there is
nothing but the one item of its own create (`OnlyOf`), listed or not, so that with its one
more create there are two at most. `OwnIsKnown` keeps this after the attempt has died
(`Made`): all items are of one attempt, close the claims, and are new since the listing.
No time is assumed anywhere.

**`Recorder`.** `RowOK` is what an execution holds: its message's clip, before a commit
the media the manifest will refer to, after it a clip with a manifest. `RecordingsOK` says
that a recording is in the hands of one execution, so that a loser who deletes its own
content deletes nobody else's; fallback cards are shared, and are what `RecordingKeepsMedia`
does not speak of. Every step but the cleanup is shown to be one of a narrow kind
(`Moves`), and `MovesKeep` is the only place where the invariant itself is re-established.
`RecordingImplements` adds `ReadyOK`: an editor that renders found a manifest with a picture
for every clip, and since manifests stand, that is still so when it completes the job, while
recorders whose lease was lost go on. That a recording does not turn into a missing one
meanwhile is `RecordingsOK` again.

### Only model-checked

- `TimelineIsCovered`: the pipeline is recursive over lists of turns, and induction over
  data is out of the prover's reach.
- `DueIsAnnounced` and `EpochSettles`: liveness under fairness.
- The two violated properties are refuted by a run each; there is nothing to prove.

Everything else that a passing run checks is a theorem of a specification.

## 5. Not modelled, and why

- Storage: a conditional write is taken to be atomic and its retry loop to have
  no effect but delay; where a repeated callback matters (`Handoff`, `Recorder`) it is
  two steps. The backends themselves are not modelled.
- Outbox: `backfill_from_publication_evidence` and `_authoritative_green_document`, the
  import and the audit of weeks that were published before the outbox; the refusal
  of enqueue to adopt a foreign document; the migration of the cleanup's reference index
  and its cursors; malformed messages and items that do not exist, which touch no item.
- Generation and synthesis: dry runs, steps switched off by configuration, calls without
  a correlation id, the weekly timer, and `publish_staged_job`, whose update of the
  manifest (orchestration.py line 309) may overwrite a concurrent one.
- Recorder: a clip set that is damaged or of another job, the copy of a clip under its
  index for older readers, a terminal time that is later than the deadline, the editor's
  lease, the in-process pool of development.
- Recovery: the ownership guard (`Handoff` has it) and the pipeline lock; a lost
  heartbeat is death; two epochs of the three; the proofs that the media are unchanged and
  that no provider knows the job are one flag.
- Direct publication: the override for creates that cannot be reconciled, playlists,
  shows, RSS, scheduled go-live, `promote_spotify_video_draft`, dry runs.
- Quota: one compare-and-swap with a ceiling; the only property would restate its guard.
- Timeline: rendering (ffmpeg, cross-fades, title cards), repos that were removed or
  excluded, custom chains of fallbacks, snapping to cues (called by no code), word
  timings, resumed compositions. File digests, durations and metadata of a video elsewhere
  are kept only as the guards they decide.
- What a language model or a voice says: its value is in the text and the sound. The
  models let it be anything, and keep what the program does about it.
- User interface, infrastructure, credentials, configuration, packaging, monitoring views:
  no protocol state.

## 6. Plan

Done: every module of section 2, its runs, and the proofs of section 4, the refinements of
the four promises among them. What remains, in this order:

1. `distribute_video` with its chunked upload and the intermediates of a composition that
   is resumed, which would complete the direct path and the video runner.
2. The promises of `Synthesis` (a script that is bought once) and `Publish` (an item that is
   remembered) as abstract specifications like the four; their parts are theorems today.
3. The composition of the four promises into one of the job, from the clips to the week,
   whose steps are theirs.
4. The parts of section 5 that have protocol state: the import of weeks published before the
   outbox, the migration of the cleanup's index, publish_staged_job.
