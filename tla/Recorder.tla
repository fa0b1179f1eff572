------------------------------ MODULE Recorder ------------------------------
(***************************************************************************)
(* The recording fan-out of one video job: editors plan the clips and wait *)
(* for them, recorders take clip messages, record, and write the terminal  *)
(* manifest of a clip (podcaster/video/recorder.py, editor.py, clipset.py).*)
(*                                                                         *)
(* A storage operation is a step; a conditional update (update_bytes) is   *)
(* two, the read with its callback and the write that fails when the blob  *)
(* was changed in between.  Any process may die or fail at any step.       *)
(*                                                                         *)
(* Media are named by content: recordings are numbered, all fallback cards *)
(* are the same bytes (Static).  The per-index legacy copy of a clip,      *)
(* which no reader consumes, is left out.                                  *)
(***************************************************************************)
EXTENDS Naturals, FiniteSets, Sequences

CONSTANTS
  Clips,          \* indices of the clip set
  Recorders,      \* executions of the recorder
  Editors,        \* deliveries of the video message that fan out
  Nobody,         \* no editor, no clip
  Static,         \* the bytes of the fallback card
  NoMedia,        \* a manifest without media
  Plans,          \* what clipset.json may be when the job starts
  Results,        \* what a browser run may end with: "success", "fallback"
  MaxDequeue,     \* MAX_DEQUEUE_COUNT
  FailedLimit,    \* FAILED_EXECUTION_LIMIT
  MaxMessages,    \* bound: clip messages ever sent
  MaxRecordings,  \* bound: browser runs that end with a file
  MaxAdmissions,  \* bound: admissions of one clip
  MaxFaults       \* bound: failures and deaths

ASSUME RecorderAssumption ==
  /\ {MaxDequeue, FailedLimit, MaxMessages, MaxRecordings, MaxAdmissions} \subseteq Nat \ {0}
  /\ MaxFaults \in Nat
  /\ Recorders \cap Editors = {}
  /\ {Static, NoMedia} \cap Nat = {}
  /\ Plans \subseteq {"absent", "ok", "legacy"}
  /\ Results \subseteq {"success", "fallback"}

VARIABLES
  stage,      \* the last stage of the parent budget that is still open
  plan,       \* clipset.json
  lease,      \* the editor that owns an unexpired lease
  queue,      \* the clip messages, by number
  sent,       \* messages sent
  lives,      \* per clip, the phase of every admission so far
  adm,        \* per clip, the durable admission, 0 when there is none
  attempts,   \* per clip, the executions that failed and the failure count
  media,      \* per clip, the content blobs
  manifest,   \* per clip, the terminal manifest
  recorded,   \* recordings so far
  run,        \* program counter and locals of every execution
  finished,   \* the job is recorded as completed
  faults      \* failures and deaths so far

vars == <<stage, plan, lease, queue, sent, lives, adm, attempts, media, manifest,
          recorded, run, finished, faults>>

clipVars == <<lives, adm, attempts, media, manifest>>

Actors == Recorders \cup Editors
Stages == <<"fanin", "fallback", "render", "over">>
Reached(s) == \E i, j \in 1..4 : i <= j /\ Stages[i] = s /\ Stages[j] = stage

NoManifest == [status |-> "none", media |-> NoMedia]

\* The locals of an execution that is not running.
Idle == [at |-> "idle", clip |-> Nobody, msg |-> 0, count |-> 0, adm |-> 0,
         doc |-> NoManifest, seen |-> NoManifest, wrote |-> FALSE, todo |-> {}]

(* Deadlines: the budget of the job, and the browser deadline of an admission. *)
Life(a) == lives[run[a].clip][run[a].adm]

\* The deadlines of an admission never outlast the stage that caps them.
Capped(phase, next) ==
  CASE next \in {"render", "over"} -> "over"
    [] next = "fallback" /\ phase = "open" -> "final"
    [] OTHER -> phase

\* _remaining_seconds > 0: the browser deadline is capped by the fan-in cutoff.
CaptureOpen(r) == Life(r) = "open"

\* _remaining_finalization_seconds > 0: a reserve after the browser deadline, capped by
\* the fallback cutoff; the editor only asks the stage.
FinalOpen(a) ==
  IF a \in Editors THEN ~Reached("render") ELSE Life(a) # "over"

At(a, pc) == run[a].at = pc
\* What is being committed is a fallback, not a recording.
Fallback(a) == run[a].doc.status # "none" /\ run[a].doc.media \in {Static, NoMedia}
Goto(a, pc) == run' = [run EXCEPT ![a].at = pc]
Leave(a) == run' = [run EXCEPT ![a] = Idle]
Released(e) == IF lease = e THEN Nobody ELSE lease

\* The clip has a manifest: the recorder disposes of its message, the editor goes on.
Onward(a) ==
  run' = [run EXCEPT ![a].at = IF a \in Editors THEN "terminalize" ELSE "dispose",
                      ![a].todo = @ \ {run[a].clip}, ![a].clip = IF a \in Editors THEN Nobody ELSE @,
                      ![a].doc = NoManifest, ![a].seen = NoManifest, ![a].wrote = FALSE]

\* An exception that leaves the process: a recorder keeps its message, an editor
\* releases its lease.
Raise(a) ==
  /\ Leave(a)
  /\ lease' = IF a \in Editors THEN Released(a) ELSE lease
  /\ UNCHANGED <<stage, plan, queue, sent, lives, adm, attempts, manifest, recorded, finished>>

-----------------------------------------------------------------------------
(* Mutants: plausible mistakes in the code above.                          *)

\* The commit overwrites what it finds.
CommitOverwrites(a) ==
  /\ At(a, "write")
  /\ manifest' = [manifest EXCEPT ![run[a].clip] = run[a].doc]
  /\ Goto(a, "won")
  /\ UNCHANGED <<stage, plan, lease, queue, sent, lives, adm, attempts, media, recorded, finished>>

\* A recording whose commit raised is deleted, as a fallback card is.
CommitFailsAndDeletes(a) ==
  LET c == run[a].clip IN
  /\ run[a].at \in {"commit", "write", "lost"}
  /\ \/ UNCHANGED manifest
     \/ /\ At(a, "write") /\ manifest[c] = NoManifest
        /\ manifest' = [manifest EXCEPT ![c] = run[a].doc]
  /\ media' = [media EXCEPT ![c] = @ \ {run[a].doc.media}]
  /\ run' = [run EXCEPT ![a].at = "failed", ![a].seen = NoManifest]
  /\ UNCHANGED <<stage, plan, lease, queue, sent, lives, adm, attempts, recorded, finished>>

\* A message is deleted although its setup is to be retried.
BadSetupDisposes(r) ==
  /\ At(r, "setup")
  /\ plan # "ok"
  /\ queue[run[r].msg].by = r
  /\ queue' = [queue EXCEPT ![run[r].msg].state = "deleted", ![run[r].msg].by = Nobody]
  /\ Leave(r)
  /\ UNCHANGED <<stage, plan, lease, sent, clipVars, recorded, finished>>

\* A clip is taken for usable when it has a manifest, be it without media.
UsableUnlessMissing(e, c) == manifest[c] # NoManifest

\* was_failed is not asked.
CountedAgain(c, k) ==
  [failed |-> attempts[c].failed \cup {k}, count |-> attempts[c].count + 1]

-----------------------------------------------------------------------------
(* The recorder: receive, set up, decide.                                  *)

Receive(r, m) ==
  /\ At(r, "idle")
  /\ queue[m].state = "visible"
  /\ queue[m].count < MaxDequeue
  /\ queue' = [queue EXCEPT ![m].state = "held", ![m].by = r, ![m].count = @ + 1]
  /\ run' = [run EXCEPT ![r] = [Idle EXCEPT !.at = "setup", !.msg = m, !.clip = queue[m].clip,
                                            !.count = queue[m].count + 1]]
  /\ UNCHANGED <<stage, plan, lease, sent, clipVars, recorded, finished>>

\* load_clipset: a plan that is missing or of an old schema leaves the message.
BadSetup(r) ==
  /\ At(r, "setup")
  /\ plan # "ok"
  /\ Leave(r)
  /\ UNCHANGED <<stage, plan, lease, queue, sent, clipVars, recorded, finished>>

\* _load_or_create_admission keeps the first admission; _begin_execution returns the
\* failures counted so far.  A manifest settles the message; a poisoned, twice failed
\* or late one becomes a fallback; else the browser starts.  One step: what others do
\* between its reads is as if done after them, for Capture and Look look again.
Setup(r) ==
  LET c == run[r].clip
      n == IF adm[c] = 0 THEN Len(lives[c]) + 1 ELSE adm[c]
      life == IF adm[c] = 0 THEN Append(lives[c], Capped("open", stage)) ELSE lives[c]
      next == IF manifest[c] # NoManifest THEN "dispose"
              ELSE IF \/ run[r].count >= MaxDequeue
                      \/ attempts[c].count >= FailedLimit
                      \/ life[n] # "open"
                     THEN "look" ELSE "capture"
  IN /\ At(r, "setup")
     /\ plan = "ok"
     /\ n <= MaxAdmissions
     /\ adm' = [adm EXCEPT ![c] = n]
     /\ lives' = [lives EXCEPT ![c] = life]
     /\ run' = [run EXCEPT ![r].at = next, ![r].adm = n]
     /\ UNCHANGED <<stage, plan, lease, queue, sent, attempts, media, manifest, recorded, finished>>

\* record_segment, the capture deadline after it, and the second look for a manifest.
Capture(r) ==
  /\ At(r, "capture")
  /\ \/ /\ plan = "ok" /\ CaptureOpen(r)
        /\ manifest[run[r].clip] = NoManifest
        /\ recorded < MaxRecordings
        /\ recorded' = recorded + 1
        /\ \E s \in Results :
             run' = [run EXCEPT ![r].at = "upload",
                       ![r].doc = [status |-> s, media |-> recorded + 1]]
     \/ /\ manifest[run[r].clip] # NoManifest
        /\ Onward(r)
        /\ UNCHANGED recorded
     \/ /\ plan # "ok" \/ ~CaptureOpen(r)
        /\ Goto(r, "failed")
        /\ UNCHANGED recorded
  /\ UNCHANGED <<stage, plan, lease, queue, sent, clipVars, finished>>

\* upload_file to the content path, and its verification.
Upload(r) ==
  /\ At(r, "upload")
  /\ FinalOpen(r)
  /\ media' = [media EXCEPT ![run[r].clip] = @ \cup {run[r].doc.media}]
  /\ Goto(r, "commit")
  /\ UNCHANGED <<stage, plan, lease, queue, sent, lives, adm, attempts, manifest, recorded, finished>>

\* The browser fails, or the upload: a file that is torn or does not read back is
\* deleted, one whose upload or legacy copy raised stays.
RecordingFails(r) ==
  LET c == run[r].clip IN
  /\ run[r].at \in {"capture", "upload"}
  /\ \/ UNCHANGED media
     \/ At(r, "upload") /\ media' = [media EXCEPT ![c] = @ \cup {run[r].doc.media}]
  /\ Goto(r, "failed")
  /\ UNCHANGED <<stage, plan, lease, queue, sent, lives, adm, attempts, manifest, recorded, finished>>

-----------------------------------------------------------------------------
(* The fallback, of a recorder or of an editor (write_fallback_manifest).  *)

\* The first look; then the card is drawn, or cannot be; a deadline raises.
Look(a) ==
  LET c == run[a].clip IN
  /\ At(a, "look")
  /\ FinalOpen(a)
  /\ \/ manifest[c] # NoManifest /\ Onward(a)
     \/ /\ manifest[c] = NoManifest
        /\ run' = [run EXCEPT ![a].at = "draw",
                     ![a].doc = [status |-> "fallback", media |-> Static]]
     \/ /\ manifest[c] = NoManifest
        /\ run' = [run EXCEPT ![a].at = "commit",
                     ![a].doc = [status |-> "insufficient", media |-> NoMedia]]
  /\ UNCHANGED <<stage, plan, lease, queue, sent, clipVars, recorded, finished>>

\* The card is uploaded and verified.
Draw(a) ==
  /\ At(a, "draw")
  /\ FinalOpen(a)
  /\ media' = [media EXCEPT ![run[a].clip] = @ \cup {Static}]
  /\ Goto(a, "commit")
  /\ UNCHANGED <<stage, plan, lease, queue, sent, lives, adm, attempts, manifest, recorded, finished>>

\* On any exception the content is deleted, whoever else refers to it (unless that
\* fails too), and the exception leaves the process.
DrawFails(a) ==
  /\ At(a, "draw")
  /\ media' \in {media, [media EXCEPT ![run[a].clip] = @ \ {Static}]}
  /\ Raise(a)

-----------------------------------------------------------------------------
(* _write_manifest_if_absent: create the manifest if there is none.  Its   *)
(* flag is set when the callback finds no manifest, and is not taken back  *)
(* when the conditional write then fails.                                  *)

CommitRead(a) ==
  /\ At(a, "commit")
  /\ FinalOpen(a)
  /\ run' = [run EXCEPT ![a].at = "write", ![a].seen = manifest[run[a].clip],
               ![a].wrote = @ \/ manifest[run[a].clip] = NoManifest]
  /\ UNCHANGED <<stage, plan, lease, queue, sent, clipVars, recorded, finished>>

CommitWrite(a) ==
  LET c == run[a].clip IN
  /\ At(a, "write")
  /\ \/ /\ manifest[c] # run[a].seen
        /\ run' = [run EXCEPT ![a].at = "commit", ![a].seen = NoManifest]
        /\ UNCHANGED manifest
     \/ /\ manifest[c] = run[a].seen
        /\ manifest' = [manifest EXCEPT ![c] = IF @ = NoManifest THEN run[a].doc ELSE @]
        /\ run' = [run EXCEPT ![a].at = IF run[a].wrote THEN "won" ELSE "lost",
                                               ![a].seen = NoManifest]
  /\ UNCHANGED <<stage, plan, lease, queue, sent, lives, adm, attempts, media, recorded, finished>>

\* The commit is refused by its deadline, or the write does not arrive, or its answer.
CommitFails(a) ==
  LET c == run[a].clip IN
  /\ run[a].at \in {"commit", "write", "lost"}
  /\ \/ UNCHANGED manifest
     \/ /\ At(a, "write") /\ manifest[c] = NoManifest
        /\ manifest' = [manifest EXCEPT ![c] = run[a].doc]
  /\ run' = [run EXCEPT ![a].at = "failed", ![a].seen = NoManifest]
  /\ UNCHANGED <<stage, plan, lease, queue, sent, lives, adm, attempts, media, recorded, finished>>

\* The winner reports what it wrote; the loser reads the winner and deletes its own
\* content unless the winner refers to it.
Settle(a) ==
  LET c == run[a].clip
      doc == run[a].doc
  IN /\ run[a].at \in {"won", "lost"}
     /\ media' = IF At(a, "lost") /\ manifest[c].media # doc.media
                   THEN [media EXCEPT ![c] = @ \ {doc.media}] ELSE media
     /\ Onward(a)
     /\ UNCHANGED <<stage, plan, lease, queue, sent, lives, adm, attempts, manifest, recorded, finished>>

-----------------------------------------------------------------------------
(* A failed recording is counted once (_finish_execution), also when the   *)
(* answer to the conditional write is lost and the update starts again.    *)

Key(r) == <<run[r].msg, run[r].count>>
Counted(c, k) ==
  [failed |-> attempts[c].failed \cup {k},
   count |-> IF k \in attempts[c].failed THEN attempts[c].count ELSE attempts[c].count + 1]

FinishFailed(r) ==
  LET c == run[r].clip
      new == Counted(c, Key(r))
      ends == \/ new.count >= FailedLimit
              \/ run[r].count >= MaxDequeue - 1
              \/ ~CaptureOpen(r)
  IN /\ At(r, "failed")
     /\ ~Fallback(r)
     /\ attempts' = [attempts EXCEPT ![c] = new]
     /\ IF ends
          THEN run' = [run EXCEPT ![r].at = "look", ![r].doc = NoManifest, ![r].wrote = FALSE]
          ELSE Leave(r)
     /\ UNCHANGED <<stage, plan, lease, queue, sent, lives, adm, media, manifest, recorded, finished>>

\* The answer to the conditional write is lost, and the update starts again.
FinishRepeats(r) ==
  /\ At(r, "failed")
  /\ ~Fallback(r)
  /\ attempts' = [attempts EXCEPT ![run[r].clip] = Counted(run[r].clip, Key(r))]
  /\ UNCHANGED <<stage, plan, lease, queue, sent, lives, adm, media, manifest, recorded, run, finished>>

\* The exception of a commit that was a fallback, or of an editor, leaves the process.
FailedFallback(a) ==
  /\ At(a, "failed")
  /\ Fallback(a)
  /\ Raise(a)
  /\ UNCHANGED media

\* _delete_queue_message: within the finalization budget, and only by the last
\* receiver; a message that cannot be deleted comes back.
Dispose(r) ==
  LET m == run[r].msg IN
  /\ At(r, "dispose")
  /\ Leave(r)
  /\ queue' = IF FinalOpen(r) /\ queue[m].state = "held" /\ queue[m].by = r
                THEN [queue EXCEPT ![m].state = "deleted", ![m].by = Nobody] ELSE queue
  /\ UNCHANGED <<stage, plan, lease, sent, clipVars, recorded, finished>>

Reappear(m) ==
  /\ queue[m].state = "held"
  /\ queue' = [queue EXCEPT ![m].state = "visible", ![m].by = Nobody]
  /\ UNCHANGED <<stage, plan, lease, sent, clipVars, recorded, run, finished>>

-----------------------------------------------------------------------------
(* The editor.                                                             *)

\* acquire_or_renew_lease: every delivery is a run of its own, so a lease is taken
\* only when it is free or expired.
Start(e) ==
  /\ At(e, "idle")
  /\ ~finished /\ ~Reached("over")
  /\ lease = Nobody
  /\ lease' = e
  /\ Goto(e, "plan")
  /\ UNCHANGED <<stage, plan, queue, sent, clipVars, recorded, finished>>

\* plan_or_load_clipset: the first plan stands; an old one gets this budget.  A recovery
\* that comes after the fallback cutoff only uses what is complete.
Plan(e) ==
  /\ At(e, "plan")
  /\ \/ /\ Reached("render") /\ plan = "ok" /\ ~Reached("over")
        /\ Goto(e, "resume")
     \/ run' = [run EXCEPT ![e].todo = Clips,
                  ![e].at = IF Reached("fallback") THEN "wait" ELSE "fanout"]
  /\ plan' = "ok"
  /\ UNCHANGED <<stage, lease, queue, sent, clipVars, recorded, finished>>

\* enqueue_missing_clips: a message for each clip without a manifest, until the
\* cutoff or a failing send.
FanOut(e) ==
  /\ At(e, "fanout")
  /\ \/ \E c \in run[e].todo :
          /\ ~Reached("fallback")
          /\ IF manifest[c] = NoManifest
               THEN /\ sent < MaxMessages
                    /\ sent' = sent + 1
                    /\ queue' = [queue EXCEPT ![sent + 1].state = "visible", ![sent + 1].clip = c]
               ELSE UNCHANGED <<queue, sent>>
          /\ run' = [run EXCEPT ![e].todo = @ \ {c}]
     \/ Goto(e, "wait") /\ UNCHANGED <<queue, sent>>
  /\ UNCHANGED <<stage, plan, lease, clipVars, recorded, finished>>

Missing == {c \in Clips : manifest[c] = NoManifest}

\* wait_for_fanin: every poll renews the lease, and ends the editor that lost it; the
\* cutoff ends the wait without another heartbeat.
Wait(e) ==
  /\ At(e, "wait")
  /\ ~Reached("fallback")
  /\ lease = e
  /\ Missing = {}
  /\ Goto(e, "assemble")
  /\ UNCHANGED <<stage, plan, lease, queue, sent, clipVars, recorded, finished>>

LeaseLost(e) ==
  /\ run[e].at \in {"wait", "render"}
  /\ lease # e
  /\ At(e, "render") \/ ~Reached("fallback")
  /\ Raise(e)
  /\ UNCHANGED media

Cutoff(e) ==
  /\ At(e, "wait")
  /\ Reached("fallback")
  /\ run' = [run EXCEPT ![e].todo = Missing,
               ![e].at = IF Reached("render") THEN "assemble" ELSE "terminalize"]
  /\ UNCHANGED <<stage, plan, lease, queue, sent, clipVars, recorded, finished>>

\* terminalize_missing_clips: the fallback of each missing clip, until its cutoff.
Terminalize(e) ==
  /\ At(e, "terminalize")
  /\ \/ \E c \in run[e].todo :
          /\ ~Reached("render")
          /\ run' = [run EXCEPT ![e].at = "look", ![e].clip = c,
                                                 ![e].doc = NoManifest, ![e].wrote = FALSE]
     \/ /\ run[e].todo = {} \/ Reached("render")
        /\ Goto(e, "assemble")
  /\ UNCHANGED <<stage, plan, lease, queue, sent, clipVars, recorded, finished>>

\* assemble_recording: a clip is usable when its manifest refers to media that is
\* there, or is a fallback, which is drawn again locally.  A resumed recovery draws
\* nothing.
Usable(e, c) ==
  LET m == manifest[c] IN
  /\ m.status \in {"success", "fallback"}
  /\ m.media \in media[c] \/ (m.status = "fallback" /\ ~At(e, "resume"))

MayAssemble(e) ==
  IF At(e, "resume") THEN ~Reached("over") /\ lease = e ELSE ~Reached("render")

Assemble(e) ==
  /\ run[e].at \in {"assemble", "resume"}
  /\ IF MayAssemble(e) /\ \A c \in Clips : Usable(e, c)
       THEN /\ Goto(e, "render")
            /\ UNCHANGED <<stage, plan, lease, queue, sent, clipVars, recorded, finished>>
       ELSE Raise(e) /\ UNCHANGED media                \* RecordingInsufficientError

\* The lease is renewed once more before the job is claimed.
Renew(e) ==
  /\ At(e, "render")
  /\ lease = e
  /\ Goto(e, "compose")
  /\ UNCHANGED <<stage, plan, lease, queue, sent, clipVars, recorded, finished>>

\* Everything up to the completed verdict, which the job runner guards by its own
\* means; nothing renews the lease meanwhile.
Complete(e) ==
  /\ At(e, "compose")
  /\ ~finished
  /\ finished' = TRUE
  /\ Goto(e, "clean")
  /\ UNCHANGED <<stage, plan, lease, queue, sent, clipVars, recorded>>

\* cleanup_clips, and the release of the lease.
Cleanup(e) ==
  /\ At(e, "clean")
  /\ \/ /\ adm' = [c \in Clips |-> 0]
        /\ attempts' = [c \in Clips |-> [failed |-> {}, count |-> 0]]
        /\ media' = [c \in Clips |-> {}]
        /\ manifest' = [c \in Clips |-> NoManifest]
     \/ UNCHANGED <<adm, attempts, media, manifest>>
  /\ Leave(e)
  /\ lease' = Released(e)
  /\ UNCHANGED <<stage, plan, queue, sent, lives, recorded, finished>>

-----------------------------------------------------------------------------
(* Failures and time.                                                      *)

\* An exception at a storage or queue operation of an editor, or of a recorder
\* outside the recording.
Fails(a) ==
  /\ run[a].at \in {"setup", "look", "plan", "wait", "assemble",
                    "resume", "terminalize", "render", "compose"}
  /\ Raise(a)
  /\ UNCHANGED media

\* A replica that is killed leaves everything as it is, its lease included.
Dies(a) ==
  /\ ~At(a, "idle")
  /\ Leave(a)
  /\ UNCHANGED <<stage, plan, lease, queue, sent, clipVars, recorded, finished>>

LeaseExpires ==
  /\ lease # Nobody
  /\ lease' = Nobody
  /\ UNCHANGED <<stage, plan, queue, sent, clipVars, recorded, run, finished>>

StagePasses ==
  \E i \in 1..3 :
    /\ Stages[i] = stage
    /\ stage' = Stages[i + 1]
    /\ lives' = [c \in Clips |-> [n \in DOMAIN lives[c] |-> Capped(lives[c][n], Stages[i + 1])]]
    /\ UNCHANGED <<plan, lease, queue, sent, adm, attempts, media, manifest, recorded, run, finished>>

LifePasses(c) ==
  /\ \E i \in DOMAIN lives[c], p \in {<<"open", "final">>, <<"final", "over">>} :
       lives[c][i] = p[1] /\ lives' = [lives EXCEPT ![c][i] = p[2]]
  /\ UNCHANGED <<stage, plan, lease, queue, sent, adm, attempts, media, manifest, recorded, run, finished>>

-----------------------------------------------------------------------------
\* A job that starts has no plan, or what an earlier release left.
Init ==
  /\ plan \in Plans
  /\ stage = "fanin"
  /\ lease = Nobody
  /\ \E c \in Clips :
       \/ queue = [m \in 1..MaxMessages |-> [state |-> "unsent", clip |-> Nobody, by |-> Nobody, count |-> 0]]
          /\ sent = 0
       \/ plan # "absent" /\ sent = 1
          /\ queue = [m \in 1..MaxMessages |->
                        [state |-> IF m = 1 THEN "visible" ELSE "unsent",
                         clip |-> IF m = 1 THEN c ELSE Nobody, by |-> Nobody, count |-> 0]]
  /\ lives = [c \in Clips |-> <<>>]
  /\ adm = [c \in Clips |-> 0]
  /\ attempts = [c \in Clips |-> [failed |-> {}, count |-> 0]]
  /\ media = [c \in Clips |-> {}]
  /\ manifest = [c \in Clips |-> NoManifest]
  /\ recorded = 0
  /\ run = [a \in Actors |-> Idle]
  /\ finished = FALSE
  /\ faults = 0

RecorderNext ==
  \E r \in Recorders :
    \/ \E m \in 1..MaxMessages : Receive(r, m)
    \/ BadSetup(r) \/ Setup(r) \/ Capture(r) \/ Upload(r)
    \/ FinishFailed(r) \/ Dispose(r)

ManifestNext ==
  \E a \in Actors :
    Look(a) \/ Draw(a) \/ CommitRead(a) \/ CommitWrite(a) \/ Settle(a) \/ FailedFallback(a)

EditorNext ==
  \E e \in Editors :
    \/ Start(e) \/ Plan(e) \/ FanOut(e) \/ Wait(e) \/ LeaseLost(e) \/ Cutoff(e)
    \/ Terminalize(e) \/ Assemble(e) \/ Renew(e) \/ Complete(e) \/ Cleanup(e)

TimeNext ==
  \/ LeaseExpires \/ StagePasses
  \/ \E c \in Clips : LifePasses(c)
  \/ \E m \in 1..MaxMessages : Reappear(m)

FaultNext ==
  \/ \E r \in Recorders : RecordingFails(r) \/ FinishRepeats(r)
  \/ \E a \in Actors : DrawFails(a) \/ CommitFails(a) \/ Fails(a) \/ Dies(a)

Next ==
  \/ (RecorderNext \/ ManifestNext \/ EditorNext \/ TimeNext) /\ UNCHANGED faults
  \/ faults < MaxFaults /\ FaultNext /\ faults' = faults + 1

Spec == Init /\ [][Next]_vars

-----------------------------------------------------------------------------
(* Properties.                                                             *)

\* A terminal manifest is never replaced while the job needs it: only the cleanup of a
\* finished job takes it away ("never overwrite a
\* terminal manifest", recorder.py _write_manifest_if_absent).
ManifestIsFinal ==
  [][\A c \in Clips : manifest[c] # NoManifest =>
        \/ manifest'[c] = manifest[c]
        \/ \E e \in Editors : At(e, "clean")]_vars

\* What a recorder has recorded stays available until the job is finished, whatever
\* duplicates, losers and failing executions delete on their way out.
RecordingKeepsMedia ==
  \A c \in Clips :
    ~finished /\ manifest[c].media \in 1..MaxRecordings => manifest[c].media \in media[c]

\* A message is only given up when its clip has a manifest, so that a clip is never
\* silently forgotten before the fan-in cutoff.
GivenUpIsTerminal ==
  \A m \in 1..MaxMessages :
    queue[m].state = "deleted" /\ ~finished
      => manifest[queue[m].clip] # NoManifest

\* A failed execution counts once towards FAILED_EXECUTION_LIMIT, although the update
\* that counts it may be repeated.
FailuresCountOnce ==
  \A c \in Clips : attempts[c].count = Cardinality(attempts[c].failed)

\* recorder.py and editor.py as a whole: manifests, media and the verdict of the job pass
\* through the states of Recording.  A card need not be stored, for it is drawn again.
Outcome(c) ==
  IF manifest[c] = NoManifest THEN "open"
  ELSE IF manifest[c].media \in Nat
    THEN IF manifest[c].media \in media[c] THEN "recorded" ELSE "bare"
    ELSE IF manifest[c].status \in {"success", "fallback"} THEN "card" ELSE "bare"

Recordings ==
  INSTANCE Recording WITH outcome <- [c \in Clips |-> Outcome(c)], complete <- finished
RecordingImplemented == Recordings!Spec

=============================================================================
