------------------------------ MODULE Publish ------------------------------
(***************************************************************************)
(* The direct publication of one job, by attempts that may run at the same *)
(* time, die anywhere and be repeated: the YouTube upload of the video job *)
(* (video/job_runner.py, video/distribution.py), and the Spotify episodes  *)
(* of publish.py, with video or with audio.                                *)
(*                                                                         *)
(* The evidence of a leg is never read by another one, so a behaviour is   *)
(* that of one `scope'.  The provider has no idempotency key.  A request   *)
(* is one step with its answer; it is lost, refused, or applied, perhaps   *)
(* `late'.  Evidence that cannot be written before any effect, or at the   *)
(* very end, leaves what an attempt that dies there leaves.                *)
(***************************************************************************)
EXTENDS Evidence

CONSTANTS
  Attempts,
  Nobody,    \* who made an item of another publication
  Scopes,    \* SUBSET {"youtube", "video", "audio"}
  MaxFaults  \* bound: deaths, failed writes after an effect, items of others

ASSUME PublishAssumption ==
  /\ Nobody \notin Attempts
  /\ Scopes \subseteq {"youtube", "video", "audio"} /\ Scopes # {}
  /\ MaxFaults \in Nat

VARIABLES
  scope,
  log,    \* the ledger
  items,  \* of the provider, numbered in the order of their creation
  job,    \* program counter and locals of every attempt
  faults

vars == <<scope, log, items, job, faults>>

NewJob == [at |-> "new", item |-> NoItem, owes |-> FALSE, snap |-> {}, pending |-> NoSnapshot,
           reads |-> 0, op |-> "", outcome |-> ""]
Ended == [NewJob EXCEPT !.at = "ended"]

At(x, pc) == job[x].at = pc
Goto(x, pc) == job' = [job EXCEPT ![x].at = pc]
End(x) == job' = [job EXCEPT ![x] = Ended]
\* What is left to do is to write the result.
Finishing(x, op, outcome) ==
  [job EXCEPT ![x] = [Ended EXCEPT !.at = "finish", !.item = job[x].item, !.op = op,
                                   !.outcome = outcome]]

Item(x, state) == [by |-> x, state |-> state, live |-> FALSE]

Own == {i \in DOMAIN items : items[i].by # Nobody}
\* _fetch_episode_listing: complete, or an error.
Visible == {i \in DOMAIN items : items[i].state # "late"}
\* _match_existing_draft: the title is this publication's only.
Matching == {i \in Visible : items[i].state = "titled" /\ ~items[i].live}
\* _new_untitled_draft_ids.
Untitled(known) == {i \in Visible \ known : items[i].state = "untitled"}

-----------------------------------------------------------------------------
(* Before the create.                                                      *)

\* The evidence is read first; what it blocks is left alone.
Read(x) ==
  /\ At(x, "new")
  /\ IF RetryIsBlocked(log) THEN End(x)
     ELSE job' = [job EXCEPT ![x].at = IF scope = "video" THEN "list" ELSE "claim",
                             ![x].pending = UnresolvedSnapshot(log)]
  /\ UNCHANGED <<scope, log, items>>

Adopt(x, i, owes) ==
  job' = [job EXCEPT ![x] = [NewJob EXCEPT !.at = "record", !.item = i, !.owes = owes]]

\* _reconcile_or_create_draft: one listing finds the draft there is, or the one that an
\* unresolved claim must have made; only then may there be another.
List(x) ==
  LET found == Untitled(job[x].pending) IN
  /\ At(x, "list")
  /\ \/ End(x)
     \/ \E i \in Matching : Cardinality(Matching) = 1 /\ Adopt(x, i, FALSE)
     \/ /\ Matching = {}
        /\ IF job[x].pending # NoSnapshot
             THEN \E i \in found : Cardinality(found) = 1 /\ Adopt(x, i, TRUE)
             ELSE job' = [job EXCEPT ![x].at = "claim", ![x].snap = Visible]
  /\ UNCHANGED <<scope, log, items>>

Intent(x) ==
  CASE scope = "youtube" -> Record("upload_intent", "unknown", NoItem, TRUE, NoSnapshot)
    [] scope = "video" -> Record("create_episode_intent", "unknown", NoItem, FALSE, job[x].snap)
    [] scope = "audio" -> Record("create_episode_intent", "unknown", NoItem, TRUE, NoSnapshot)

\* The claim: the video job appends it, publish.py makes it once.
Claim(x) ==
  LET after == IF scope = "youtube" THEN Appended(log, Intent(x)) ELSE Claimed(log, Intent(x)) IN
  /\ At(x, "claim")
  /\ log' = after
  /\ IF after = log THEN End(x)
     ELSE Goto(x, IF scope = "audio" THEN "survey" ELSE "post")
  /\ UNCHANGED <<scope, items>>

\* The session and _audio_pre_create_snapshot: a listing is optional here.
Survey(x) ==
  /\ At(x, "survey")
  /\ \/ \E known \in {Visible, NoSnapshot} :
          job' = [job EXCEPT ![x].at = "post", ![x].snap = known]
     \/ \E op \in {"credential_failure", "provider_mutation_failure"} :
          job' = [job EXCEPT ![x].at = "reject", ![x].op = op, ![x].outcome = "handoff"]
  /\ UNCHANGED <<scope, log, items>>

-----------------------------------------------------------------------------
(* The create.                                                             *)

\* A request that may or may not have made the item: _create_episode.
Ambiguous(x) ==
  \/ UNCHANGED items
  \/ items' = Append(items, Item(x, "late"))

\* The item is known by its id.  An upload to YouTube has its title from the start.
Answered(x) ==
  /\ items' = Append(items, Item(x, IF scope = "youtube" THEN "titled" ELSE "untitled"))
  /\ job' = [job EXCEPT ![x] = [NewJob EXCEPT
               !.at = IF scope = "youtube" THEN "upload" ELSE "record",
               !.item = Len(items) + 1, !.owes = scope = "video"]]

\* A definite rejection: of the credentials, or of the request.
Refused(x) ==
  \E expired \in BOOLEAN :
    job' = [job EXCEPT ![x].at = "reject", ![x].outcome = IF expired THEN "handoff" ELSE "unknown",
              ![x].op = CASE scope = "video" -> "create_episode_failure"
                          [] expired -> "credential_failure"
                          [] OTHER -> "provider_mutation_failure"]

Post(x) ==
  /\ At(x, "post")
  /\ \/ Answered(x)
     \/ /\ Ambiguous(x)
        /\ job' = IF scope = "youtube" THEN Finishing(x, "distribution", "unknown")
                  ELSE [job EXCEPT ![x].at = "recover"]
     \/ UNCHANGED items /\ IF scope = "youtube" THEN End(x) ELSE Refused(x)
  /\ UNCHANGED <<scope, log>>

\* _persist_create_failure, and the handlers of publish_episode: only expired
\* credentials allow a retry, and before the create any failure.
Reject(x) ==
  /\ At(x, "reject")
  /\ log' = Appended(log, Record(job[x].op, job[x].outcome, NoItem, job[x].outcome # "handoff",
                                 NoSnapshot))
  /\ End(x)
  /\ UNCHANGED <<scope, items>>

\* Two listings without a new draft, a fixed delay apart, are taken for the proof that the
\* first create did nothing: it may still be late.
Patient(x) == job[x].reads = 1

\* Mutant: the handler of a rejection is reached by its subclass, the ambiguous answer.
PostAgainHandled(x) == Answered(x) \/ (Ambiguous(x) /\ Refused(x))

\* The one more create of _recover_ambiguous_create: it is not recovered again.
PostAgain(x) ==
  \/ Answered(x)
  \/ Ambiguous(x) /\ End(x)
  \/ UNCHANGED items /\ End(x)

\* _recover_ambiguous_create and _recover_ambiguous_audio_create, which never creates.
Recover(x) ==
  LET found == Untitled(job[x].snap)
      unresolved == scope = "audio" /\ job' = Finishing(x, "create_episode", "unknown")
  IN
  /\ At(x, "recover")
  /\ IF scope = "audio" /\ job[x].snap = NoSnapshot THEN unresolved /\ UNCHANGED items
     ELSE IF scope = "video" /\ Matching # {}
       THEN /\ IF Cardinality(Matching) = 1 THEN \E i \in Matching : Adopt(x, i, FALSE) ELSE End(x)
            /\ UNCHANGED items
     ELSE IF Cardinality(found) = 1 THEN (\E i \in found : Adopt(x, i, scope = "video")) /\ UNCHANGED items
     ELSE \/ unresolved /\ (found # {} \/ job[x].reads = 1) /\ UNCHANGED items
          \/ scope = "video" /\ found # {} /\ End(x) /\ UNCHANGED items
          \/ scope = "video" /\ found = {} /\ Patient(x) /\ PostAgain(x)
          \/ /\ found = {} /\ job[x].reads = 0
             /\ job' = [job EXCEPT ![x].reads = 1] /\ UNCHANGED items
  /\ UNCHANGED <<scope, log>>

\* A listing that fails ends the recovery.
RecoverUnread(x) ==
  /\ At(x, "recover")
  /\ IF scope = "audio" THEN job' = Finishing(x, "create_episode", "unknown") ELSE End(x)
  /\ UNCHANGED <<scope, log, items>>

-----------------------------------------------------------------------------
(* The item.                                                               *)

\* _persist_provider_resolution: the id is recorded before anything else is done.
Resolution(x) ==
  Record(IF job[x].owes \/ scope = "audio" THEN "create_episode" ELSE "reconcile_episode",
         "unknown", job[x].item, TRUE, NoSnapshot)

Keep(x) ==
  /\ At(x, "record")
  /\ log' = Appended(log, Resolution(x))
  /\ Goto(x, IF job[x].owes THEN "title" ELSE "upload")
  /\ UNCHANGED <<scope, items>>

\* _claim_draft_title: a draft without its title cannot be found again.  Applied or not,
\* an error ends the attempt.
Title(x) ==
  /\ At(x, "title")
  /\ \/ items' = [items EXCEPT ![job[x].item].state = "titled"] /\ (Goto(x, "upload") \/ End(x))
     \/ UNCHANGED items /\ End(x)
  /\ UNCHANGED <<scope, log>>

\* The media, within one session.
Upload(x) ==
  /\ At(x, "upload")
  /\ IF scope = "youtube"
       THEN job' = Finishing(x, "distribution", "draft") \/ End(x)
       ELSE \/ Goto(x, "describe")
            \/ \E op \in {"provider_mutation_failure", "credential_failure"} :
                 job' = Finishing(x, op, "unknown")
  /\ UNCHANGED <<scope, log, items>>

\* Mutant: the answer to the request is believed.
VerdictOfAnswer(ok, live, seen) == IF ok THEN "published" ELSE "unknown"

\* What is recorded of a go-live: from the answer to the request and what the provider
\* says afterwards, if it can be read; never from the answer alone.
Verdict(ok, live, seen) ==
  IF ~seen THEN "unknown"
  ELSE IF live THEN "published"
  ELSE IF ok THEN "handoff" ELSE "uploaded"

\* _set_metadata: the last update, which is the go-live unless the episode stays a draft.
\* It may be applied though its answer is an error, and not though it is none.
Describe(x) ==
  LET i == job[x].item IN
  /\ At(x, "describe")
  /\ \E applied, ok \in BOOLEAN :
       \/ /\ items' = IF applied THEN [items EXCEPT ![i].state = "titled"] ELSE items
          /\ job' = IF ok THEN Finishing(x, "draft_setup", "draft")
                    ELSE Finishing(x, "provider_mutation_failure",
                                   IF scope = "video" THEN "unknown" ELSE "uploaded")
       \/ /\ items' = IF applied THEN [items EXCEPT ![i].state = "titled", ![i].live = TRUE]
                      ELSE items
          /\ job' = [job EXCEPT ![x].at = "confirm", ![x].owes = ok]
  /\ UNCHANGED <<scope, log>>

\* _get_episode_publication_state.
Confirm(x) ==
  /\ At(x, "confirm")
  /\ \E seen \in BOOLEAN :
       LET outcome == Verdict(job[x].owes, items[job[x].item].live, seen) IN
       job' = Finishing(x, IF job[x].owes \/ outcome = "published" THEN "publish"
                           ELSE "provider_mutation_failure", outcome)
  /\ UNCHANGED <<scope, log, items>>

\* _finalize_with_evidence, _record_video_publication.
Finish(x) ==
  /\ At(x, "finish")
  /\ log' = Appended(log, Record(job[x].op, job[x].outcome, job[x].item, TRUE, NoSnapshot))
  /\ End(x)
  /\ UNCHANGED <<scope, items>>

Attempting(x) ==
  \/ Read(x) \/ List(x) \/ Claim(x) \/ Survey(x) \/ Post(x) \/ Reject(x)
  \/ Recover(x) \/ RecoverUnread(x) \/ Keep(x) \/ Title(x) \/ Upload(x) \/ Describe(x)
  \/ Confirm(x) \/ Finish(x)

-----------------------------------------------------------------------------
(* The operator, the provider, and faults.                                 *)

Running(x) == job[x].at \notin {"new", "ended"}

\* provider_retry_rearm: a claim that nothing followed is armed again once no attempt can
\* be at work and the channel has no upload of the job.
Rearm ==
  /\ scope = "youtube" /\ log # <<>>
  /\ Last(log).op = "upload_intent" /\ Last(log).blocked
  /\ \A i \in DOMAIN log : log[i].item = NoItem
  /\ \A x \in Attempts : ~Running(x)
  /\ Own = {}
  /\ log' = Appended(log, Record("operator_retry_rearm", "unknown", NoItem, FALSE, NoSnapshot))
  /\ UNCHANGED <<scope, items, job>>

\* A create that was applied late is listed.
Commit(i) ==
  /\ items[i].state = "late"
  /\ items' = [items EXCEPT ![i].state = "untitled"]
  /\ UNCHANGED <<scope, log, job>>

\* The process dies; the id of a draft, or its rejection, cannot be recorded; another
\* publication of the show makes a draft.
Fault ==
  /\ faults < MaxFaults /\ faults' = faults + 1 /\ UNCHANGED scope
  /\ \/ \E x \in Attempts :
          \/ Running(x) /\ End(x) /\ UNCHANGED <<log, items>>
          \/ /\ scope = "video" /\ At(x, "record")
             /\ job' = Finishing(x, "provider_mutation_failure", "unknown")
             /\ UNCHANGED <<log, items>>
          \/ /\ scope = "video" /\ At(x, "reject")
             /\ log' = Appended(log, Record("create_episode_failure_fence", "unknown", NoItem, TRUE,
                                            NoSnapshot))
             /\ End(x)
             /\ UNCHANGED items
     \/ /\ scope # "youtube" /\ items' = Append(items, Item(Nobody, "untitled"))
        /\ UNCHANGED <<log, job>>

Init ==
  /\ scope \in Scopes
  /\ log = <<>> /\ items = <<>>
  /\ job = [x \in Attempts |-> NewJob]
  /\ faults = 0

Steps ==
  \/ \E x \in Attempts : Attempting(x)
  \/ \E i \in DOMAIN items : Commit(i)
  \/ Rearm

Next == (Steps /\ UNCHANGED faults) \/ Fault

Spec == Init /\ [][Next]_vars

-----------------------------------------------------------------------------
(* Properties.                                                             *)

\* publish.py and job_runner.py, the claims: whatever attempts overlap, die or follow
\* each other, one of them makes all there is of a publication.  It makes one upload or
\* audio episode at most; of a Spotify video there may be a second draft, of the one more
\* create of its recovery, when the first was applied too late for both of its listings.
CreatedOnce ==
  /\ \A i, j \in Own : items[i].by = items[j].by
  /\ Cardinality(Own) <= IF scope = "video" THEN 2 ELSE 1

\* publication_state.py: an item that exists is never forgotten.  The evidence names it,
\* or blocks every retry, or has a claim left whose listing lacks the item.
ArtifactIsRemembered ==
  \A i \in Own :
    \/ \E n \in DOMAIN log : log[n].item = i
    \/ RetryIsBlocked(log)
    \/ UnresolvedSnapshot(log) # NoSnapshot /\ i \notin UnresolvedSnapshot(log)

\* publish.py, the go-live: an episode that the evidence calls published is live, whatever
\* the provider answered.
PublishedIsLive ==
  \A n \in DOMAIN log : log[n].outcome = "published" => items[log[n].item].live
=============================================================================
