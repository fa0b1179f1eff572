--------------------------- MODULE HandoffProofs ----------------------------
(***************************************************************************)
(* Proofs about Handoff, for every set of deliveries, cleaners and         *)
(* contents and every bound on the claims.                                 *)
(***************************************************************************)
EXTENDS Handoff, FiniteSetTheorems, TLAPS

-----------------------------------------------------------------------------
(* Types.                                                                  *)

Updates == {"describe", "restore", "create", "reserve", "consume", "accept",
            "evidence", "record"}

Steps == Updates \cup
  {"waiting", "acquire", "archive", "size", "upload", "put", "verify", "archived",
   "outbox", "check", "register", "created", "notify", "send", "notified",
   "direct", "mutate", "call", "settle", "finish", "recorded", "delete", "over"}

\* The three stretches of a delivery: commit and enqueue, notify, publish directly.
Reviewing == {"archive", "size", "upload", "put", "verify", "describe", "restore",
              "archived", "outbox", "check", "register", "create", "created"}
Notifying == {"notify", "reserve", "consume", "send", "accept", "notified"}
Publishing == {"direct", "mutate", "call", "evidence", "settle"}

Jobs == [pc : Steps, fence : Nat, content : Contents \cup {NoContent},
         asked : BOOLEAN, readOnly : BOOLEAN]

Permits == [fence : Nat, completed : BOOLEAN]

References == [used : BOOLEAN, state : {"live", "deleting", "deleted"},
               by : Cleaners \cup {NoCleaner}]

Item == [content : Contents \cup {NoContent}, by : Nat,
         notice : {"none", "reserved", "sending", "accepted"}, owner : Nat]

Sweeps == [pc : {"rest", "claim", "blob", "metadata", "finalize", "dead"},
           content : Contents \cup {NoContent}]

Claimless == {"waiting", "acquire", "delete", "over"}

\* Where a delivery is after it recorded its verdict, or gave up.
Concluded == {"recorded", "delete", "over"}

JobsOK ==
  /\ job \in [Deliveries -> Jobs]
  /\ \A d \in Deliveries :
       /\ job[d].pc \in {"waiting", "acquire"} => job[d].fence = 0
       /\ job[d].pc \notin Claimless => job[d].fence # 0
       /\ job[d].fence # 0 => job[d].content \in Contents
       /\ job[d].asked => job[d].pc \in Updates

StoreOK ==
  /\ blob \in [Contents -> BOOLEAN]
  /\ meta \in [Contents -> {"none", "young", "old"}]
  /\ ref \in [Contents -> References]
  /\ sweep \in [Cleaners -> Sweeps]
  /\ \A s \in Cleaners :
       sweep[s].pc \in {"claim", "blob", "metadata", "finalize"} =>
         sweep[s].content \in Contents

RecordsOK ==
  /\ route \in {"private", "routed", "direct"}
  /\ own \in [fence : Nat, live : BOOLEAN]
  /\ permit \in [Boundaries -> Permits]
  /\ item \in Item
  /\ verdict \in [status : {"none", "completed", "failed"}, by : Nat]
  /\ called \subseteq Deliveries
  /\ sends \in 0..2

HandoffTypeOK == JobsOK /\ StoreOK /\ RecordsOK

-----------------------------------------------------------------------------
(* The strengthening.  A fence names one delivery, and authors are fences; *)
(* what a delivery asked about still holds when it writes; of the store,   *)
(* what was seen cannot have been undone without a trace.                  *)

FencesAreDistinct ==
  /\ own.live => own.fence # 0
  /\ \A d, e \in Deliveries :
       /\ job[d].fence <= own.fence
       /\ job[d].fence # 0 /\ job[d].fence = job[e].fence => d = e

AuthorsAreClaims ==
  /\ item.by <= own.fence
  /\ verdict.by <= own.fence
  /\ verdict.status = "completed" => verdict.by # 0
  /\ \A d \in Deliveries :
       verdict.by # 0 /\ job[d].fence = verdict.by => job[d].pc \in Concluded

AnswersHold ==
  \A d \in Deliveries :
    /\ Asked(d, "restore") => ref[Rendered(d)].state # "deleting"
    /\ Asked(d, "create") =>
         item.by <= job[d].fence /\ item.content \in {NoContent, Rendered(d)}
    /\ Asked(d, "record") => verdict.by <= job[d].fence

UsedIsLive == \A c \in Contents : ref[c].used => ref[c].state = "live"

\* A delivery that restored a reference is not followed by another's restore of
\* it, asked for under an earlier claim.
RestoredIsLast ==
  \A d, e \in Deliveries :
    /\ d # e /\ Current(d) /\ Asked(e, "restore")
    /\ job[d].pc \in {"archived", "outbox", "check", "register"}
    => Rendered(e) # Rendered(d)

\* What was verified is there, or its reference says that it was deleted.
VerifiedStands ==
  \A d \in Deliveries :
    At(d, "register") /\ Current(d) =>
      blob[Rendered(d)] \/ ref[Rendered(d)].state # "live"

RegisteredStands ==
  \A d \in Deliveries :
    At(d, "create") /\ (Current(d) \/ job[d].asked) =>
      blob[Rendered(d)] /\ ref[Rendered(d)].used

StoreInv ==
  /\ UsedIsLive
  /\ FenceIsNeverLost
  /\ RestoredIsLast
  /\ VerifiedStands
  /\ RegisteredStands
  /\ ItemHasArtifact

\* Whoever calls or called a provider holds the one permit ever given for it.
CallersHoldPermit ==
  \A d \in Deliveries : d \in called \/ At(d, "call") =>
    job[d].fence # 0 /\ permit["provider"].fence = job[d].fence

SentOnce ==
  /\ item.notice \notin Sent => sends = 0 /\ \A d \in Deliveries : ~At(d, "send")
  /\ \A d, e \in Deliveries : At(d, "send") => sends = 0 /\ (At(e, "send") => d = e)
  /\ sends <= 1

\* A delivery is where its route leads, past the creation of the item there is one, and
\* only the item of a routed job has a notification.
OnRoute ==
  /\ \A d \in Deliveries :
       /\ job[d].pc \in Reviewing => route # "direct"
       /\ job[d].pc \in Notifying => route = "routed"
       /\ job[d].pc \in Publishing => route = "direct"
       /\ job[d].pc \in {"created"} \cup Notifying => item.content # NoContent
  /\ item.notice # "none" => route = "routed" /\ item.content # NoContent

\* On the private route whoever passed the creation of the item rendered its file.
PrivateIsOwn ==
  route = "private" =>
    \A d \in Deliveries :
      job[d].pc \in {"created", "finish", "record", "recorded"} =>
        item.content = Rendered(d)

IInv ==
  /\ HandoffTypeOK
  /\ FencesAreDistinct
  /\ AuthorsAreClaims
  /\ AnswersHold
  /\ StoreInv
  /\ CallersHoldPermit
  /\ SentOnce
  /\ OnRoute
  /\ PrivateIsOwn
  /\ CompletedIsArchived

-----------------------------------------------------------------------------
(* Steps.                                                                  *)

Act(d) == Deliver(d) \/ Archive(d) \/ Enqueue(d) \/ Notify(d) \/ Direct(d)

\* The tables of the conditional updates are defined on their steps.
LEMMA Tables ==
  /\ DOMAIN Authority = Updates
  /\ \A u \in Updates : Authority[u] \in Boundaries
  /\ Authority["restore"] = "archive" /\ Authority["create"] = "outbox"
  /\ Authority["record"] = "success"
BY DEF Authority, Updates, Boundaries

\* What a delivery is about to update.
LEMMA TargetFacts ==
  ASSUME NEW e \in Deliveries
  PROVE  /\ At(e, "describe") => Target(e) = <<"metadata", Rendered(e)>>
         /\ At(e, "restore") => Target(e) = <<"reference", Rendered(e)>>
         /\ At(e, "create") => Target(e) = <<"item", NoContent>>
         /\ At(e, "reserve") => Target(e) = <<"item", NoContent>>
         /\ At(e, "consume") => Target(e) = <<"item", NoContent>>
         /\ At(e, "accept") => Target(e) = <<"item", NoContent>>
         /\ At(e, "evidence") => Target(e) = <<"manifest", NoContent>>
         /\ At(e, "record") => Target(e) = <<"manifest", NoContent>>
BY DEF Target, Updated, At, Rendered

\* j are the jobs after d wrote target and went on to next; whoever asked about
\* the same blob has to ask again.
Writes(j, d, target, next) ==
  /\ j \in [Deliveries -> Jobs]
  /\ \A e \in Deliveries :
       /\ j[e].fence = job[e].fence
       /\ j[e].content = job[e].content
       /\ j[e].readOnly = job[e].readOnly
       /\ e = d => j[e].pc = next /\ j[e].asked = FALSE
       /\ e # d => j[e].pc = job[e].pc
                   /\ j[e].asked = (job[e].asked /\ Target(e) # target)

\* Moved is such a write.
LEMMA MovedFacts ==
  ASSUME JobsOK, NEW d \in Deliveries \cup {NoDelivery}, NEW target, NEW next \in Steps
  PROVE  Writes(Moved(d, target, next), d, target, next)
<1>1. \A e \in Deliveries : job[e] \in Jobs
  BY DEF JobsOK
<1> SUFFICES ASSUME NEW e \in Deliveries
             PROVE  LET m == CASE e = d -> [job[e] EXCEPT !.pc = next, !.asked = FALSE]
                               [] e # d /\ job[e].asked /\ Target(e) = target ->
                                    [job[e] EXCEPT !.asked = FALSE]
                               [] OTHER -> job[e]
                    IN  /\ m \in Jobs
                        /\ m.fence = job[e].fence
                        /\ m.content = job[e].content
                        /\ m.readOnly = job[e].readOnly
                        /\ e = d => m.pc = next /\ m.asked = FALSE
                        /\ e # d => m.pc = job[e].pc
                                     /\ m.asked = (job[e].asked /\ Target(e) # target)
  BY Zenon DEF Moved, Writes
<1> QED
  BY <1>1 DEF Jobs

\* Each blob is written by few actions.
LEMMA Writers ==
  ASSUME [Next]_vars
  PROVE  /\ ref' = ref \/ (\E d \in Deliveries : Restore(d) \/ Register(d))
                       \/ (\E s \in Cleaners : ClaimDelete(s) \/ FinalizeDelete(s))
         /\ blob' = blob \/ (\E d \in Deliveries : Upload(d))
                         \/ (\E s \in Cleaners : DeleteBlob(s))
         /\ item' = item \/ (\E d \in Deliveries :
                               Create(d) \/ ReserveNotification(d)
                               \/ ConsumeNotification(d) \/ AcceptNotification(d))
                         \/ RepairReserves \/ RepairSends
         /\ verdict' = verdict \/ (\E d \in Deliveries : RecordVerdict(d) \/ Fails(d))
         /\ own' = own \/ OwnershipExpires \/ (\E d \in Deliveries : Acquire(d))
         /\ called' = called \/ (\E d \in Deliveries : Call(d))
         /\ sends' = sends \/ RepairSends \/ (\E d \in Deliveries : SendNotification(d))
         /\ sweep' = sweep \/ (\E s \in Cleaners : Sweep(s))
         /\ route' = route
<1> USE DEF vars, storeVars
<1>1. ASSUME NEW d \in Deliveries, Deliver(d)
      PROVE  /\ ref' = ref /\ blob' = blob /\ item' = item /\ called' = called
             /\ sends' = sends /\ sweep' = sweep /\ route' = route
             /\ own' = own \/ Acquire(d)
             /\ verdict' = verdict \/ RecordVerdict(d) \/ Fails(d)
  BY <1>1 DEF Deliver, Receive, Acquire, Ask, Begin, Complete, DeleteMessage, Dies,
     RecordVerdict, Fails
<1>2. ASSUME NEW d \in Deliveries, Archive(d)
      PROVE  /\ item' = item /\ called' = called /\ verdict' = verdict /\ own' = own
             /\ sends' = sends /\ sweep' = sweep /\ route' = route
             /\ ref' = ref \/ Restore(d)
             /\ blob' = blob \/ Upload(d)
  BY <1>2 DEF Archive, Begin, CheckSize, AuthorizeUpload, Verify, Describe, Complete,
     Restore, Upload
<1>3. ASSUME NEW d \in Deliveries, Enqueue(d)
      PROVE  /\ blob' = blob /\ called' = called /\ verdict' = verdict /\ own' = own
             /\ sends' = sends /\ sweep' = sweep /\ route' = route
             /\ ref' = ref \/ Register(d)
             /\ item' = item \/ Create(d)
  BY <1>3 DEF Enqueue, Begin, Verify, Complete, Register, Create
<1>4. ASSUME NEW d \in Deliveries, Notify(d)
      PROVE  /\ ref' = ref /\ blob' = blob /\ called' = called /\ verdict' = verdict
             /\ own' = own /\ sweep' = sweep /\ route' = route
             /\ sends' = sends \/ SendNotification(d)
             /\ item' = item \/ ReserveNotification(d) \/ ConsumeNotification(d)
                             \/ AcceptNotification(d)
  BY <1>4 DEF Notify, Begin, Complete, ReserveNotification, ConsumeNotification,
     SendNotification, AcceptNotification
<1>5. ASSUME NEW d \in Deliveries, Direct(d)
      PROVE  /\ ref' = ref /\ blob' = blob /\ item' = item /\ verdict' = verdict
             /\ own' = own /\ sends' = sends /\ sweep' = sweep /\ route' = route
             /\ called' = called \/ Call(d)
  BY <1>5 DEF Direct, BeginDirect, BeforeMutation, Call, RecordEvidence,
     NothingToPublish, Complete
<1>6. ASSUME NEW s \in Cleaners, Sweep(s)
      PROVE  /\ item' = item /\ verdict' = verdict /\ own' = own /\ called' = called
             /\ sends' = sends /\ route' = route
             /\ ref' = ref \/ ClaimDelete(s) \/ FinalizeDelete(s)
             /\ blob' = blob \/ DeleteBlob(s)
  BY <1>6 DEF Sweep, ReadMetadata, ClaimDelete, DeleteBlob, DeleteMetadata,
     FinalizeDelete, CleanerDies
<1>7. CASE RepairReserves \/ RepairSends
  BY <1>7 DEF RepairReserves, RepairSends
<1>8. CASE OwnershipExpires \/ (\E c \in Contents : MetadataAges(c)) \/ UNCHANGED vars
  BY <1>8 DEF OwnershipExpires, MetadataAges
<1> QED
  BY <1>1, <1>2, <1>3, <1>4, <1>5, <1>6, <1>7, <1>8, Zenon DEF Next

\* What a step of d, or of the scheduler and the cleaners, leaves of the jobs.
Undisturbed(d) ==
  \A e \in Deliveries : e # d =>
    /\ job'[e].pc = job[e].pc
    /\ job'[e].fence = job[e].fence
    /\ job'[e].content = job[e].content
    /\ job'[e].readOnly = job[e].readOnly
    /\ job'[e].asked => job[e].asked

\* The part of JobsOK that is about one job.
JobOK(j) ==
  /\ j.pc \in {"waiting", "acquire"} => j.fence = 0
  /\ j.pc \notin Claimless => j.fence # 0
  /\ j.fence # 0 => j.content \in Contents
  /\ j.asked => j.pc \in Updates

\* A step that only moves the program counter, from where nothing was asked.
LEMMA GoToFacts ==
  ASSUME JobsOK, NEW d \in Deliveries, NEW next \in Steps, GoTo(d, next),
         job[d].pc \notin Updates, next \in {"acquire", "delete", "over"} \/ job[d].fence # 0,
         next \in {"waiting", "acquire"} => job[d].fence = 0
  PROVE  /\ job' \in [Deliveries -> Jobs]
         /\ JobOK(job'[d])
         /\ job'[d].fence = job[d].fence /\ job'[d].content = job[d].content
         /\ job'[d].pc = next
         /\ job'[d].readOnly = job[d].readOnly
         /\ Undisturbed(d)
<1>1. job[d] \in Jobs /\ job \in [Deliveries -> Jobs]
  BY DEF JobsOK
<1>2. [job[d] EXCEPT !.pc = next] \in Jobs
  BY <1>1 DEF Jobs
<1>3. job' = [job EXCEPT ![d] = [job[d] EXCEPT !.pc = next]]
  BY <1>1 DEF GoTo
<1>4. job'[d] = [job[d] EXCEPT !.pc = next] /\ \A e \in Deliveries : e # d => job'[e] = job[e]
  BY <1>1, <1>3
<1>5. job' \in [Deliveries -> Jobs]
  BY <1>1, <1>2, <1>3
<1>6. JobOK(job[d])
  BY DEF JobsOK, JobOK
<1>7. Undisturbed(d)
  BY <1>4 DEF Undisturbed
<1> QED
  BY <1>1, <1>4, <1>5, <1>6, <1>7 DEF Jobs, JobOK, Claimless

\* A write of d to some blob, or of nobody.
LEMMA WriteFacts ==
  ASSUME JobsOK, NEW d \in Deliveries \cup {NoDelivery}, NEW target, NEW next \in Steps,
         job' = Moved(d, target, next),
         d \in Deliveries => /\ next \notin {"waiting", "acquire"}
                             /\ next \in {"delete", "over"} \/ job[d].fence # 0
  PROVE  /\ job' \in [Deliveries -> Jobs]
         /\ \A e \in Deliveries :
              job'[e].fence = job[e].fence /\ job'[e].content = job[e].content
         /\ d \in Deliveries => JobOK(job'[d]) /\ job'[d].pc = next /\ ~job'[d].asked
                                /\ job'[d].readOnly = job[d].readOnly
         /\ Undisturbed(d)
         /\ \A e \in Deliveries : job'[e].asked => Target(e) # target
<1>1. Writes(job', d, target, next)
  BY MovedFacts
<1>2. job' \in [Deliveries -> Jobs]
      /\ \A e \in Deliveries :
           job'[e].fence = job[e].fence /\ job'[e].content = job[e].content
  BY <1>1 DEF Writes
<1>3. \A e \in Deliveries : JobOK(job[e])
  BY DEF JobsOK, JobOK
<1>4. d \in Deliveries => JobOK(job'[d]) /\ job'[d].pc = next /\ ~job'[d].asked
                          /\ job'[d].readOnly = job[d].readOnly
  BY <1>1, <1>3 DEF JobOK, Claimless, Writes
<1>5. Undisturbed(d)
  BY <1>1 DEF Undisturbed, Writes
<1>6. \A e \in Deliveries : job'[e].asked => Target(e) # target
  BY <1>1 DEF Writes
<1> QED
  BY <1>2, <1>4, <1>5, <1>6

\* What a step of d does to the jobs.
JobStep(d) ==
  /\ job' \in [Deliveries -> Jobs]
  /\ JobOK(job'[d])
  /\ Undisturbed(d)
  /\ \/ Acquire(d)
     \/ job'[d].fence = job[d].fence /\ job'[d].content = job[d].content

\* A step that only moves the program counter is a step of its delivery.
LEMMA GoToStep ==
  ASSUME JobsOK, NEW d \in Deliveries, NEW next \in Steps, GoTo(d, next),
         job[d].pc \notin Updates, next \in {"acquire", "delete", "over"} \/ job[d].fence # 0,
         next \in {"waiting", "acquire"} => job[d].fence = 0
  PROVE  JobStep(d)
BY GoToFacts DEF JobStep

\* So is a write.
LEMMA WriteStep ==
  ASSUME JobsOK, NEW d \in Deliveries, NEW target, NEW next \in Steps,
         job' = Moved(d, target, next), next \notin {"waiting", "acquire"},
         next \in {"delete", "over"} \/ job[d].fence # 0
  PROVE  JobStep(d)
BY WriteFacts DEF JobStep

\* Every action of a delivery does to the jobs what a step of it may do.
LEMMA ActStep ==
  ASSUME HandoffTypeOK, NEW d \in Deliveries, Act(d)
  PROVE  JobStep(d)
<1> USE DEF HandoffTypeOK, At, Asked, Steps, Updates
<1>1. /\ job[d] \in Jobs /\ job \in [Deliveries -> Jobs]
      /\ job[d].pc \notin Claimless => job[d].fence # 0
      /\ JobOK(job[d])
  BY DEF JobsOK, JobOK
<1>2. ASSUME NEW b, NEW here, NEW next \in Steps, Begin(d, b, here, next) \/ Complete(d, b, here, next),
             here \in Steps \ (Updates \cup Claimless), next \notin {"waiting", "acquire"}
      PROVE  JobStep(d)
  BY <1>1, <1>2, GoToStep DEF Begin, Complete, Claimless
<1>3. ASSUME NEW here, NEW next \in Steps, Verify(d, here, next),
             here \in Steps \ (Updates \cup Claimless), next \notin {"waiting", "acquire"}
      PROVE  JobStep(d)
  BY <1>1, <1>3, GoToStep DEF Verify, Claimless
<1>4. CASE Archive(d)
  <2>1. CASE CheckSize(d) \/ AuthorizeUpload(d) \/ Upload(d)
    BY <1>1, <2>1, GoToStep DEF CheckSize, AuthorizeUpload, Upload, Claimless
  <2>2. CASE Describe(d) \/ Restore(d)
    BY <1>1, <2>2, WriteStep DEF Describe, Restore, Claimless
  <2> QED
    BY <1>2, <1>3, <1>4, <2>1, <2>2 DEF Archive, Claimless
<1>5. CASE Enqueue(d)
  <2>1. CASE Register(d) \/ Create(d)
    BY <1>1, <2>1, WriteStep DEF Register, Create, Claimless
  <2> QED
    BY <1>2, <1>3, <1>5, <2>1 DEF Enqueue, Claimless
<1>6. CASE Notify(d)
  <2>1. CASE ReserveNotification(d) \/ ConsumeNotification(d) \/ AcceptNotification(d)
    BY <1>1, <2>1, WriteStep DEF ReserveNotification, ConsumeNotification,
       AcceptNotification, Claimless
  <2>2. CASE SendNotification(d)
    BY <1>1, <2>2, GoToStep DEF SendNotification, Claimless
  <2> QED
    BY <1>2, <1>6, <2>1, <2>2 DEF Notify, Claimless
<1>7. CASE Direct(d)
  <2>1. CASE BeginDirect(d)
    <3>1. job' = [job EXCEPT ![d] = [job[d] EXCEPT !.pc = "mutate",
                                                  !.readOnly = permit["provider"].fence # 0]]
      BY <1>1, <2>1 DEF BeginDirect
    <3>2. (permit["provider"].fence # 0) \in BOOLEAN
      OBVIOUS
    <3> DEFINE j == [job[d] EXCEPT !.pc = "mutate", !.readOnly = permit["provider"].fence # 0]
    <3>3. /\ j \in Jobs /\ j.pc = "mutate" /\ j.fence = job[d].fence
          /\ j.content = job[d].content /\ j.asked = job[d].asked
      BY <1>1, <3>2 DEF Jobs
    <3>4. job' = [job EXCEPT ![d] = j]
      BY <3>1
    <3> HIDE DEF j
    <3>5. /\ job' \in [Deliveries -> Jobs] /\ job'[d] = j
          /\ \A e \in Deliveries : e # d => job'[e] = job[e]
      BY <1>1, <3>3, <3>4
    <3> QED
      BY <1>1, <2>1, <3>3, <3>5 DEF JobStep, JobOK, Undisturbed, Claimless, BeginDirect
  <2>2. CASE BeforeMutation(d) \/ Call(d) \/ NothingToPublish(d)
    BY <1>1, <2>2, GoToStep DEF BeforeMutation, Call, NothingToPublish, Claimless
  <2>3. CASE RecordEvidence(d)
    BY <1>1, <2>3, WriteStep DEF RecordEvidence, Claimless
  <2> QED
    BY <1>2, <1>7, <2>1, <2>2, <2>3 DEF Direct, Claimless
<1>8. CASE Deliver(d)
  <2>1. CASE Receive(d)
    BY <1>1, <2>1, GoToStep DEF Receive, JobOK
  <2>2. CASE Acquire(d)
    <3>1. PICK c \in Contents :
            job' = [job EXCEPT ![d] = [job[d] EXCEPT
                      !.pc = IF route = "direct" THEN "direct" ELSE "archive",
                      !.fence = own.fence + 1, !.content = c]]
      BY <1>1, <2>2 DEF Acquire
    <3> DEFINE pc == IF route = "direct" THEN "direct" ELSE "archive"
               j == [job[d] EXCEPT !.pc = pc, !.fence = own.fence + 1, !.content = c]
    <3>2. own.fence + 1 \in Nat /\ own.fence + 1 # 0 /\ pc \in {"direct", "archive"}
      BY DEF RecordsOK
    <3> HIDE DEF pc
    <3>3. /\ j \in Jobs /\ j.pc = pc /\ j.fence = own.fence + 1
          /\ j.content = c /\ j.asked = job[d].asked
      BY <1>1, <3>2 DEF Jobs
    <3>4. job' = [job EXCEPT ![d] = j]
      BY <3>1 DEF pc
    <3> HIDE DEF j
    <3>5. /\ job' \in [Deliveries -> Jobs] /\ job'[d] = j
          /\ \A e \in Deliveries : e # d => job'[e] = job[e]
      BY <1>1, <3>3, <3>4
    <3>6. ~job[d].asked
      BY <1>1, <2>2 DEF Acquire, JobOK
    <3> QED
      BY <2>2, <3>2, <3>3, <3>5, <3>6 DEF JobStep, JobOK, Undisturbed, Claimless
  <2>3. CASE Ask(d) \/ Dies(d)
    <3> DEFINE j == IF Ask(d) THEN [job[d] EXCEPT !.asked = TRUE]
                    ELSE [job[d] EXCEPT !.pc = "over", !.asked = FALSE]
    <3>1. job' = [job EXCEPT ![d] = j]
      BY <1>1, <2>3 DEF Ask, Dies
    <3>2. j \in Jobs /\ j.fence = job[d].fence /\ j.content = job[d].content
      BY <1>1, <2>3 DEF Jobs
    <3>3. JobOK(j)
      BY <1>1, <2>3, Tables DEF Jobs, JobOK, Claimless, Ask
    <3> HIDE DEF j
    <3>4. /\ job' \in [Deliveries -> Jobs] /\ job'[d] = j
          /\ \A e \in Deliveries : e # d => job'[e] = job[e]
      BY <1>1, <3>1, <3>2
    <3> QED
      BY <3>2, <3>3, <3>4 DEF JobStep, Undisturbed
  <2>4. CASE RecordVerdict(d) \/ Fails(d)
    BY <1>1, <2>4, WriteStep DEF RecordVerdict, Fails, Claimless
  <2>5. CASE DeleteMessage(d)
    BY <1>1, <2>5, GoToStep DEF DeleteMessage
  <2> QED
    BY <1>2, <1>8, <2>1, <2>2, <2>3, <2>4, <2>5 DEF Deliver, Claimless
<1> QED
  BY <1>4, <1>5, <1>6, <1>7, <1>8 DEF Act

\* A job that takes no step of its own keeps everything but, at most, its answer.
Still(e) ==
  /\ job'[e].pc = job[e].pc
  /\ job'[e].fence = job[e].fence
  /\ job'[e].content = job[e].content
  /\ job'[e].readOnly = job[e].readOnly
  /\ job'[e].asked => job[e].asked

\* In any step, each job moves by an action of its own or is still, and only a
\* claim gives it a fence and a content.
LEMMA AnyStep ==
  ASSUME HandoffTypeOK, [Next]_vars
  PROVE  /\ JobsOK'
         /\ \A e \in Deliveries : Act(e) \/ Still(e)
         /\ \A e \in Deliveries :
              \/ Acquire(e)
              \/ job'[e].fence = job[e].fence /\ job'[e].content = job[e].content
<1>1. JobsOK
  BY DEF HandoffTypeOK
<1>2. \A e \in Deliveries : JobOK(job[e])
  BY <1>1 DEF JobsOK, JobOK
<1>3. NoDelivery \notin Deliveries
  BY HandoffAssumption
<1>4. ASSUME NEW d \in Deliveries, Act(d)
      PROVE  /\ job' \in [Deliveries -> Jobs]
             /\ \A e \in Deliveries : JobOK(job'[e])
             /\ \A e \in Deliveries : Act(e) \/ Still(e)
             /\ \A e \in Deliveries :
                  \/ Acquire(e)
                  \/ job'[e].fence = job[e].fence /\ job'[e].content = job[e].content
  BY <1>2, <1>4, ActStep DEF JobStep, Undisturbed, Still, JobOK
<1>5. ASSUME NEW target, NEW next \in Steps, job' = Moved(NoDelivery, target, next)
      PROVE  job' \in [Deliveries -> Jobs] /\ \A e \in Deliveries : Still(e)
  BY <1>1, <1>3, <1>5, WriteFacts DEF Undisturbed, Still
<1>6. ASSUME job' = job
      PROVE  job' \in [Deliveries -> Jobs] /\ \A e \in Deliveries : Still(e)
  BY <1>1, <1>6 DEF JobsOK, Still
<1>7. ASSUME \A d \in Deliveries : ~Act(d)
      PROVE  job' \in [Deliveries -> Jobs] /\ \A e \in Deliveries : Still(e)
  <2>1. "over" \in Steps
    BY DEF Steps
  <2>2. CASE \E s \in Cleaners : Sweep(s)
    BY <1>5, <1>6, <2>1, <2>2 DEF Sweep, ReadMetadata, ClaimDelete, DeleteBlob,
       DeleteMetadata, FinalizeDelete, CleanerDies
  <2>3. CASE RepairReserves \/ RepairSends
    BY <1>5, <2>1, <2>3 DEF RepairReserves, RepairSends
  <2>4. CASE OwnershipExpires \/ (\E c \in Contents : MetadataAges(c)) \/ UNCHANGED vars
    BY <1>6, <2>4 DEF OwnershipExpires, MetadataAges, vars
  <2> QED
    BY <1>7, <2>2, <2>3, <2>4, Zenon DEF Next, Act
<1>8. /\ job' \in [Deliveries -> Jobs]
      /\ \A e \in Deliveries : JobOK(job'[e])
      /\ \A e \in Deliveries : Act(e) \/ Still(e)
      /\ \A e \in Deliveries :
           \/ Acquire(e)
           \/ job'[e].fence = job[e].fence /\ job'[e].content = job[e].content
  BY <1>2, <1>4, <1>7 DEF Still, JobOK
<1>9. JobsOK'
  BY <1>8 DEF JobsOK, JobOK
<1> QED
  BY <1>8, <1>9

\* The guarantee of a conditional update: whoever asked about a blob that changed
\* has to ask again before it writes.
LEMMA StaleAnswersAreDropped ==
  ASSUME HandoffTypeOK, [Next]_vars, NEW e \in Deliveries, job'[e].asked
  PROVE  /\ At(e, "restore") => ref'[Rendered(e)] = ref[Rendered(e)]
         /\ At(e, "create") => item' = item
         /\ At(e, "record") => verdict' = verdict
<1> USE DEF HandoffTypeOK, Asked, At
<1>1. JobsOK /\ NoDelivery \notin Deliveries /\ "over" \in Steps
  BY HandoffAssumption DEF Steps
<1>2. ASSUME NEW d \in Deliveries \cup {NoDelivery}, NEW target, NEW next \in Steps,
             job' = Moved(d, target, next),
             d \in Deliveries => /\ next \notin {"waiting", "acquire"}
                                 /\ next \in {"delete", "over"} \/ job[d].fence # 0
      PROVE  Target(e) # target
  BY <1>1, <1>2, WriteFacts
<1>3. \A d \in Deliveries : job[d].pc \notin Claimless => job[d].fence # 0
  BY <1>1 DEF JobsOK
<1> USE DEF Steps, Updates, Claimless
<1>4. ASSUME At(e, "restore") PROVE ref'[Rendered(e)] = ref[Rendered(e)]
  <2>1. Target(e) = <<"reference", Rendered(e)>>
    BY <1>4, TargetFacts
  <2>2. ASSUME NEW d \in Deliveries, Restore(d)
        PROVE  Rendered(e) # Rendered(d)
    <3>1. Target(d) = <<"reference", Rendered(d)>>
      BY <2>2, TargetFacts DEF Restore
    <3> QED
      BY <1>2, <1>3, <2>1, <2>2, <3>1 DEF Restore
  <2>3. ASSUME NEW d \in Deliveries, Register(d)
        PROVE  Rendered(e) # Rendered(d)
    BY <1>2, <1>3, <2>1, <2>3 DEF Register
  <2>4. ASSUME NEW s \in Cleaners, ClaimDelete(s) \/ FinalizeDelete(s), ref' # ref
        PROVE  Rendered(e) # sweep[s].content
    BY <1>1, <1>2, <2>1, <2>4 DEF ClaimDelete, FinalizeDelete
  <2>5. ref \in [Contents -> References] /\ Rendered(e) \in Contents
    BY <1>4, <1>3 DEF StoreOK, JobsOK, Rendered
  <2>6. CASE \E d \in Deliveries : Restore(d) \/ Register(d)
    BY <2>2, <2>3, <2>5, <2>6 DEF Restore, Register
  <2>7. CASE \E s \in Cleaners : ClaimDelete(s) \/ FinalizeDelete(s)
    BY <2>4, <2>5, <2>7 DEF ClaimDelete, FinalizeDelete
  <2> QED
    BY <2>6, <2>7, Writers
<1>5. ASSUME At(e, "create") PROVE item' = item
  <2>1. Target(e) = <<"item", NoContent>>
    BY <1>5, TargetFacts
  <2>2. ASSUME NEW d \in Deliveries, Create(d) \/ ReserveNotification(d)
                                     \/ ConsumeNotification(d) \/ AcceptNotification(d)
        PROVE  FALSE
    <3>1. Target(d) = <<"item", NoContent>>
      BY <2>2, TargetFacts DEF Create, ReserveNotification, ConsumeNotification,
         AcceptNotification
    <3> QED
      BY <1>2, <1>3, <2>1, <2>2, <3>1 DEF Create, ReserveNotification,
         ConsumeNotification, AcceptNotification
  <2>3. ASSUME RepairReserves \/ RepairSends
        PROVE  FALSE
    BY <1>1, <1>2, <2>1, <2>3 DEF RepairReserves, RepairSends
  <2> QED
    BY <2>2, <2>3, Writers
<1>6. ASSUME At(e, "record") PROVE verdict' = verdict
  <2>1. Target(e) = <<"manifest", NoContent>>
    BY <1>6, TargetFacts
  <2>2. ASSUME NEW d \in Deliveries, RecordVerdict(d)
        PROVE  FALSE
    <3>1. Target(d) = <<"manifest", NoContent>>
      BY <2>2, TargetFacts DEF RecordVerdict
    <3> QED
      BY <1>2, <1>3, <2>1, <2>2, <3>1 DEF RecordVerdict
  <2>3. ASSUME NEW d \in Deliveries, Fails(d)
        PROVE  FALSE
    BY <1>2, <2>1, <2>3 DEF Fails
  <2> QED
    BY <2>2, <2>3, Writers
<1> QED
  BY <1>4, <1>5, <1>6

\* Which action brings a delivery to the places the invariants are about.
Entries(d) ==
  /\ job'[d].asked => Ask(d)
  /\ job'[d].pc = "restore" => Describe(d) \/ Ask(d)
  /\ job'[d].pc = "archived" => Restore(d)
  /\ job'[d].pc = "outbox" => Complete(d, "archive", "archived", "outbox")
  /\ job'[d].pc = "check" => Begin(d, "outbox", "outbox", "check")
  /\ job'[d].pc = "register" => Verify(d, "check", "register")
  /\ job'[d].pc = "create" => Register(d) \/ Ask(d)
  /\ job'[d].pc = "created" => Create(d)
  /\ job'[d].pc = "send" => ConsumeNotification(d)
  /\ job'[d].pc = "call" => BeforeMutation(d)
  /\ job'[d].pc = "record" => Begin(d, "success", "finish", "record") \/ Ask(d)
  /\ job'[d].pc = "recorded" => RecordVerdict(d)
  /\ job'[d].pc = "finish" =>
       (At(d, "created") /\ route # "routed") \/ At(d, "notified") \/ At(d, "settle")
  /\ job'[d].pc \in Reviewing =>
       job[d].pc \in Reviewing \/ (Acquire(d) /\ route # "direct")
  /\ job'[d].pc \in Notifying =>
       job[d].pc \in Notifying \/ (At(d, "created") /\ route = "routed")
  /\ job'[d].pc \in Publishing =>
       job[d].pc \in Publishing \/ (Acquire(d) /\ route = "direct")
  /\ job[d].pc \in Concluded => job'[d].pc \in Concluded

\* Each of these places has one way in.
LEMMA ActEntries ==
  ASSUME HandoffTypeOK, NEW d \in Deliveries, Act(d)
  PROVE  Entries(d)
<1> USE DEF HandoffTypeOK, At, Asked, Steps, Updates, Claimless
<1>1. /\ job[d] \in Jobs /\ job \in [Deliveries -> Jobs]
      /\ job[d].pc \notin Claimless => job[d].fence # 0
      /\ job[d].asked => job[d].pc \in Updates
      /\ job[d].pc \in {"waiting", "acquire"} => job[d].fence = 0
  BY DEF JobsOK
<1>2. JobsOK
  OBVIOUS
<1>3. ASSUME NEW next \in Steps, GoTo(d, next), job[d].pc \notin Updates,
             next \in {"acquire", "delete", "over"} \/ job[d].fence # 0,
             next \in {"waiting", "acquire"} => job[d].fence = 0
      PROVE  job'[d].pc = next /\ ~job'[d].asked
  <2>1. job'[d].pc = next
    BY <1>2, <1>3, GoToFacts
  <2>2. job'[d].asked = job[d].asked
    BY <1>1, <1>3 DEF GoTo, Jobs
  <2> QED
    BY <1>1, <1>3, <2>1, <2>2
<1>4. ASSUME NEW target, NEW next \in Steps, job' = Moved(d, target, next),
             next \notin {"waiting", "acquire"},
             next \in {"delete", "over"} \/ job[d].fence # 0
      PROVE  job'[d].pc = next /\ ~job'[d].asked
  BY <1>2, <1>4, WriteFacts
<1> USE DEF Entries, Reviewing, Notifying, Publishing, Concluded
<1>5. CASE Archive(d)
  <2>1. CASE CheckSize(d) \/ AuthorizeUpload(d) \/ Upload(d)
    BY <1>1, <1>3, <2>1 DEF CheckSize, AuthorizeUpload, Upload
  <2>2. CASE Describe(d) \/ Restore(d)
    BY <1>1, <1>4, <2>2 DEF Describe, Restore
  <2>3. CASE Begin(d, "archive", "archive", "size") \/ Verify(d, "verify", "describe")
             \/ Complete(d, "archive", "archived", "outbox")
    BY <1>1, <1>3, <2>3 DEF Begin, Verify, Complete
  <2> QED
    BY <1>5, <2>1, <2>2, <2>3 DEF Archive
<1>6. CASE Enqueue(d)
  <2>1. CASE Register(d) \/ Create(d)
    BY <1>1, <1>4, <2>1 DEF Register, Create
  <2>2. CASE Begin(d, "outbox", "outbox", "check") \/ Verify(d, "check", "register")
             \/ Complete(d, "outbox", "created", IF route = "routed" THEN "notify" ELSE "finish")
    BY <1>1, <1>3, <2>2 DEF Begin, Verify, Complete
  <2> QED
    BY <1>6, <2>1, <2>2 DEF Enqueue
<1>7. CASE Notify(d)
  <2>1. CASE ReserveNotification(d) \/ ConsumeNotification(d) \/ AcceptNotification(d)
    BY <1>1, <1>4, <2>1 DEF ReserveNotification, ConsumeNotification, AcceptNotification
  <2>2. CASE SendNotification(d) \/ Begin(d, "notification", "notify", "reserve")
             \/ Complete(d, "notification", "notified", "finish")
    BY <1>1, <1>3, <2>2 DEF SendNotification, Begin, Complete
  <2> QED
    BY <1>7, <2>1, <2>2 DEF Notify
<1>8. CASE Direct(d)
  <2>1. CASE BeginDirect(d)
    <3>1. job'[d].pc = "mutate" /\ job'[d].asked = job[d].asked
      BY <1>1, <2>1 DEF BeginDirect, Jobs
    <3> QED
      BY <1>1, <2>1, <3>1 DEF BeginDirect
  <2>2. CASE BeforeMutation(d) \/ Call(d) \/ NothingToPublish(d)
             \/ Complete(d, "provider", "settle", "finish")
    BY <1>1, <1>3, <2>2 DEF BeforeMutation, Call, NothingToPublish, Complete
  <2>3. CASE RecordEvidence(d)
    BY <1>1, <1>4, <2>3 DEF RecordEvidence
  <2> QED
    BY <1>8, <2>1, <2>2, <2>3 DEF Direct
<1>9. CASE Deliver(d)
  <2>1. CASE Receive(d) \/ DeleteMessage(d) \/ Begin(d, "success", "finish", "record")
             \/ Complete(d, "success", "recorded", "delete")
    BY <1>1, <1>3, <2>1 DEF Receive, DeleteMessage, Begin, Complete
  <2>2. CASE Acquire(d)
    <3>1. job'[d].pc = (IF route = "direct" THEN "direct" ELSE "archive")
          /\ job'[d].asked = job[d].asked
      BY <1>1, <2>2 DEF Acquire, Jobs
    <3> QED
      BY <1>1, <2>2, <3>1 DEF Acquire
  <2>3. CASE Ask(d)
    <3>1. job'[d].pc = job[d].pc /\ job[d].pc \in Updates
      BY <1>1, <2>3, Tables DEF Ask, Jobs
    <3> QED
      BY <2>3, <3>1
  <2>4. CASE Dies(d)
    <3>1. job'[d].pc = "over" /\ ~job'[d].asked
      BY <1>1, <2>4 DEF Dies, Jobs
    <3> QED
      BY <3>1
  <2>5. CASE RecordVerdict(d) \/ Fails(d)
    BY <1>1, <1>4, <2>5 DEF RecordVerdict, Fails
  <2> QED
    BY <1>9, <2>1, <2>2, <2>3, <2>4, <2>5 DEF Deliver
<1> QED
  BY <1>5, <1>6, <1>7, <1>8, <1>9 DEF Act

-----------------------------------------------------------------------------
(* Type correctness.                                                       *)

\* Every step leaves the store well typed.
LEMMA StoreStep ==
  ASSUME HandoffTypeOK, [Next]_vars
  PROVE  StoreOK'
<1> USE DEF HandoffTypeOK, At, Asked, StoreOK
<1>1. \A d \in Deliveries : job[d].pc \notin Claimless => Rendered(d) \in Contents
  BY DEF JobsOK, Rendered
<1>2. CASE \E d \in Deliveries : Restore(d) \/ Register(d) \/ Upload(d) \/ Describe(d)
  <2>1. PICK d \in Deliveries : Restore(d) \/ Register(d) \/ Upload(d) \/ Describe(d)
    BY <1>2
  <2>2. Rendered(d) \in Contents
    BY <1>1, <2>1 DEF Restore, Register, Upload, Describe, Claimless
  <2>3. CASE Restore(d) \/ Register(d)
    <3>1. ref[Rendered(d)] \in References
      BY <2>2
    <3>2. \A u \in BOOLEAN : [used |-> u, state |-> "live", by |-> NoCleaner] \in References
      BY DEF References
    <3>3. \E u \in BOOLEAN : ref' = [ref EXCEPT ![Rendered(d)] =
                                 [used |-> u, state |-> "live", by |-> NoCleaner]]
      BY <2>2, <2>3, <3>1 DEF Restore, Register, References
    <3> QED
      BY <2>2, <2>3, <3>2, <3>3 DEF Restore, Register
  <2>4. CASE Upload(d)
    BY <2>2, <2>4 DEF Upload
  <2>5. CASE Describe(d)
    BY <2>2, <2>5 DEF Describe
  <2> QED
    BY <2>1, <2>3, <2>4, <2>5
<1>3. CASE \E s \in Cleaners : Sweep(s)
  <2>1. PICK s \in Cleaners : Sweep(s)
    BY <1>3
  <2>2. Resting \in Sweeps
    BY DEF Resting, Sweeps
  <2>3. CASE \E c \in Contents : ReadMetadata(s, c)
    BY <2>3 DEF ReadMetadata, Sweeps, storeVars
  <2>4. CASE ClaimDelete(s)
    <3>1. CASE sweep' = [sweep EXCEPT ![s] = Resting] /\ UNCHANGED <<ref, job>>
      BY <2>2, <2>4, <3>1 DEF ClaimDelete, Sweeps, Resting
    <3> DEFINE c == sweep[s].content
    <3>2. CASE /\ ref' = [ref EXCEPT ![c] = [used |-> FALSE, state |-> "deleting", by |-> s]]
               /\ sweep' = [sweep EXCEPT ![s].pc = "blob"]
      BY <2>4, <3>2 DEF ClaimDelete, Sweeps, References
    <3> QED
      BY <2>4, <3>1, <3>2 DEF ClaimDelete
  <2>5. CASE DeleteBlob(s)
    BY <2>5 DEF DeleteBlob, Sweeps
  <2>6. CASE DeleteMetadata(s)
    BY <2>6 DEF DeleteMetadata, Sweeps
  <2>7. CASE FinalizeDelete(s)
    BY <2>2, <2>7 DEF FinalizeDelete, Sweeps, References, Resting
  <2>8. CASE CleanerDies(s)
    BY <2>8 DEF CleanerDies, Sweeps, storeVars
  <2> QED
    BY <2>1, <2>3, <2>4, <2>5, <2>6, <2>7, <2>8 DEF Sweep
<1>4. CASE \E c \in Contents : MetadataAges(c)
  BY <1>4 DEF MetadataAges
<1>5. CASE UNCHANGED <<storeVars, sweep>>
  BY <1>5 DEF storeVars
<1>6. UNCHANGED <<storeVars, sweep>>
      \/ (\E d \in Deliveries : Restore(d) \/ Register(d) \/ Upload(d) \/ Describe(d))
      \/ (\E s \in Cleaners : Sweep(s)) \/ (\E c \in Contents : MetadataAges(c))
  <2>1. ASSUME NEW d \in Deliveries, Act(d)
        PROVE  UNCHANGED <<storeVars, sweep>>
               \/ Restore(d) \/ Register(d) \/ Upload(d) \/ Describe(d)
    BY <2>1 DEF storeVars, Act, Deliver, Archive, Enqueue, Notify, Direct, Receive, Acquire,
       Ask, Begin, Complete, DeleteMessage, Dies, RecordVerdict, Fails, CheckSize,
       AuthorizeUpload, Verify, Create, ReserveNotification, ConsumeNotification,
       SendNotification, AcceptNotification, BeginDirect, BeforeMutation, Call,
       RecordEvidence, NothingToPublish
  <2>2. CASE RepairReserves \/ RepairSends \/ OwnershipExpires \/ UNCHANGED vars
    BY <2>2 DEF RepairReserves, RepairSends, OwnershipExpires, storeVars, vars
  <2> QED
    BY <2>1, <2>2, Zenon DEF Next, Act
<1> QED
  BY <1>2, <1>3, <1>4, <1>5, <1>6

\* Every step leaves the ownership record, the item and the manifest well typed.
LEMMA RecordsStep ==
  ASSUME HandoffTypeOK, [Next]_vars
  PROVE  RecordsOK'
<1> USE DEF HandoffTypeOK, RecordsOK, At, Asked
<1>1. \A d \in Deliveries : job[d].fence \in Nat /\ Rendered(d) \in Contents \cup {NoContent}
  BY DEF JobsOK, Jobs, Rendered
<1>2. route' \in {"private", "routed", "direct"}
  BY Writers
<1>3. own' \in [fence : Nat, live : BOOLEAN]
  <2>1. ASSUME NEW d \in Deliveries, Acquire(d)
        PROVE  own' \in [fence : Nat, live : BOOLEAN]
    BY <2>1 DEF Acquire
  <2>2. CASE OwnershipExpires
    BY <2>2 DEF OwnershipExpires
  <2> QED
    BY <2>1, <2>2, Writers
<1>4. item' \in Item
  <2>1. ASSUME NEW d \in Deliveries, Create(d)
        PROVE  item' \in Item
    BY <1>1, <2>1 DEF Create, Item
  <2>2. ASSUME NEW d \in Deliveries, ReserveNotification(d)
        PROVE  item' \in Item
    BY <1>1, <2>2 DEF ReserveNotification, Item
  <2>3. ASSUME NEW d \in Deliveries, ConsumeNotification(d) \/ AcceptNotification(d)
        PROVE  item' \in Item
    BY <2>3 DEF ConsumeNotification, AcceptNotification, Item
  <2>4. CASE RepairReserves
    BY <2>4 DEF RepairReserves, Item
  <2>5. CASE RepairSends
    BY <2>5 DEF RepairSends, Item
  <2> QED
    BY <2>1, <2>2, <2>3, <2>4, <2>5, Writers
<1>5. verdict' \in [status : {"none", "completed", "failed"}, by : Nat]
  <2>1. ASSUME NEW d \in Deliveries, RecordVerdict(d)
        PROVE  verdict' \in [status : {"none", "completed", "failed"}, by : Nat]
    BY <1>1, <2>1 DEF RecordVerdict, Ends
  <2>2. ASSUME NEW d \in Deliveries, Fails(d)
        PROVE  verdict' \in [status : {"none", "completed", "failed"}, by : Nat]
    BY <2>2 DEF Fails
  <2> QED
    BY <2>1, <2>2, Writers
<1>6. called' \subseteq Deliveries
  BY Writers DEF Call
<1>7. sends' \in 0..2
  BY Writers DEF RepairSends, SendNotification, OneMore
<1>8. permit' \in [Boundaries -> Permits]
  <2>1. ASSUME NEW d \in Deliveries, NEW b \in Boundaries, NEW here, NEW next,
               Begin(d, b, here, next) \/ Complete(d, b, here, next)
        PROVE  permit' \in [Boundaries -> Permits]
    <3>1. [fence |-> job[d].fence, completed |-> FALSE] \in Permits
      BY <1>1 DEF Permits
    <3>2. [permit[b] EXCEPT !.completed = TRUE] \in Permits
      BY <2>1 DEF Permits
    <3>3. CASE Begin(d, b, here, next)
      BY <2>1, <3>1, <3>3 DEF Begin
    <3>4. CASE Complete(d, b, here, next)
      <4>1. permit' = [permit EXCEPT ![b] = [permit[b] EXCEPT !.completed = TRUE]]
        BY <3>4 DEF Complete
      <4> QED
        BY <3>2, <4>1
    <3> QED
      BY <2>1, <3>3, <3>4
  <2>2. ASSUME NEW d \in Deliveries, BeginDirect(d)
        PROVE  permit' \in [Boundaries -> Permits]
    <3>1. "provider" \in Boundaries
      BY DEF Boundaries
    <3>2. [fence |-> job[d].fence, completed |-> FALSE] \in Permits
      BY <1>1 DEF Permits
    <3> QED
      BY <2>2, <3>1, <3>2 DEF BeginDirect
  <2>3. ASSUME NEW d \in Deliveries, Act(d)
        PROVE  \/ permit' = permit
               \/ BeginDirect(d)
               \/ \E b \in Boundaries : \E here, next :
                    Begin(d, b, here, next) \/ Complete(d, b, here, next)
    <3> USE DEF Boundaries
    <3>1. CASE Archive(d)
      BY <3>1 DEF Archive, CheckSize, AuthorizeUpload, Upload, Verify, Describe, Restore
    <3>2. CASE Enqueue(d)
      BY <3>2 DEF Enqueue, Verify, Register, Create
    <3>3. CASE Notify(d)
      <4>1. CASE Begin(d, "notification", "notify", "reserve")
                 \/ Complete(d, "notification", "notified", "finish")
        BY <4>1, Zenon
      <4> QED
        BY <3>3, <4>1 DEF Notify, ReserveNotification, ConsumeNotification,
           SendNotification, AcceptNotification
    <3>4. CASE Direct(d)
      BY <3>4 DEF Direct, BeforeMutation, Call, RecordEvidence, NothingToPublish
    <3>5. CASE Deliver(d)
      <4>1. CASE Begin(d, "success", "finish", "record")
                 \/ Complete(d, "success", "recorded", "delete")
        BY <4>1, Zenon
      <4> QED
        BY <3>5, <4>1 DEF Deliver, Receive, Acquire, Ask, DeleteMessage, Dies,
           RecordVerdict, Fails
    <3> QED
      BY <2>3, <3>1, <3>2, <3>3, <3>4, <3>5 DEF Act
  <2>4. ASSUME NEW s \in Cleaners, Sweep(s)
        PROVE  permit' = permit
    BY <2>4 DEF Sweep, ReadMetadata, ClaimDelete, DeleteBlob, DeleteMetadata,
       FinalizeDelete, CleanerDies
  <2>5. CASE RepairReserves \/ RepairSends \/ OwnershipExpires \/ UNCHANGED vars
             \/ \E c \in Contents : MetadataAges(c)
    BY <2>5 DEF RepairReserves, RepairSends, OwnershipExpires, MetadataAges, vars
  <2> QED
    BY <2>1, <2>2, <2>3, <2>4, <2>5, Zenon DEF Next, Act
<1> QED
  BY <1>2, <1>3, <1>4, <1>5, <1>6, <1>7, <1>8

\* The initial states are well typed.
LEMMA TypeInit == Init => HandoffTypeOK
<1> SUFFICES ASSUME Init PROVE HandoffTypeOK
  OBVIOUS
<1> USE HandoffAssumption DEF Init
<1>1. JobsOK
  BY DEF JobsOK, Jobs, Steps, Claimless
<1>2. StoreOK
  BY DEF StoreOK, References, Sweeps, Resting
<1>3. RecordsOK
  BY DEF RecordsOK, Permits, Item
<1> QED
  BY <1>1, <1>2, <1>3 DEF HandoffTypeOK

\* Every reachable state is well typed.
THEOREM HandoffTyped == Spec => []HandoffTypeOK
<1>1. HandoffTypeOK /\ [Next]_vars => HandoffTypeOK'
  BY AnyStep, StoreStep, RecordsStep DEF HandoffTypeOK
<1> QED
  BY <1>1, TypeInit, PTL DEF Spec

-----------------------------------------------------------------------------
(* Fences and authors.                                                     *)

\* Only a claim makes a delivery current.
LEMMA CurrentStep ==
  ASSUME HandoffTypeOK, FencesAreDistinct, [Next]_vars, NEW e \in Deliveries, Current(e)'
  PROVE  \/ Acquire(e)
         \/ Current(e) /\ own' = own
<1> USE DEF HandoffTypeOK, FencesAreDistinct, Current
<1>1. job[e].fence \in Nat /\ own.fence \in Nat
  BY DEF JobsOK, Jobs, RecordsOK
<1>2. SUFFICES ASSUME ~Acquire(e)
               PROVE  Current(e) /\ own' = own
  OBVIOUS
<1>3. job'[e].fence = job[e].fence
  BY <1>2, AnyStep
<1>4. ~OwnershipExpires
  BY DEF OwnershipExpires, RecordsOK
<1>5. ASSUME NEW d \in Deliveries, Acquire(d)
      PROVE  FALSE
  <2>1. own'.fence = own.fence + 1
    BY <1>5 DEF Acquire
  <2> QED
    BY <1>1, <1>3, <2>1
<1> QED
  BY <1>3, <1>4, <1>5, Writers

\* A claim begins the work.
LEMMA AcquireFacts ==
  ASSUME HandoffTypeOK, NEW d \in Deliveries, Acquire(d)
  PROVE  job'[d].pc = (IF route = "direct" THEN "direct" ELSE "archive")
BY DEF HandoffTypeOK, Acquire, JobsOK, Jobs

\* A claim takes a new fence.
LEMMA FencesStep ==
  ASSUME HandoffTypeOK, FencesAreDistinct, [Next]_vars
  PROVE  FencesAreDistinct' /\ own'.fence >= own.fence
<1> USE DEF HandoffTypeOK, FencesAreDistinct
<1>1. /\ \A e \in Deliveries : job[e].fence \in Nat
      /\ own.fence \in Nat /\ own \in [fence : Nat, live : BOOLEAN]
  BY DEF JobsOK, Jobs, RecordsOK
<1>2. ASSUME NEW d \in Deliveries, Acquire(d)
      PROVE  FencesAreDistinct' /\ own'.fence >= own.fence
  <2>1. own' = [fence |-> own.fence + 1, live |-> TRUE]
    BY <1>2 DEF Acquire
  <2>2. job'[d].fence = own.fence + 1
    BY <1>2 DEF Acquire, JobsOK, Jobs
  <2>3. \A e \in Deliveries : e # d => job'[e].fence = job[e].fence
    BY <1>2, ActStep DEF Act, Deliver, JobStep, Undisturbed
  <2> QED
    BY <1>1, <2>1, <2>2, <2>3
<1>3. ASSUME \A d \in Deliveries : ~Acquire(d)
      PROVE  FencesAreDistinct' /\ own'.fence >= own.fence
  <2>1. \A e \in Deliveries : job'[e].fence = job[e].fence
    BY <1>3, AnyStep
  <2>2. own' = own \/ own' = [own EXCEPT !.live = FALSE]
    BY <1>3, Writers DEF OwnershipExpires
  <2> QED
    BY <1>1, <2>1, <2>2
<1> QED
  BY <1>2, <1>3

\* A permitted delivery has the newest fence.
LEMMA AskIsCurrent ==
  ASSUME HandoffTypeOK, NEW d \in Deliveries, Ask(d)
  PROVE  /\ Current(d) /\ Acceptable(d) /\ Restorable(d)
         /\ job'[d] = [job[d] EXCEPT !.asked = TRUE]
         /\ job'[d].pc = job[d].pc
         /\ blob' = blob /\ ref' = ref /\ item' = item /\ verdict' = verdict
BY DEF HandoffTypeOK, Ask, Permitted, JobsOK, Jobs, storeVars

\* The answers a delivery got hold until it writes.
LEMMA AnswersStep ==
  ASSUME HandoffTypeOK, FencesAreDistinct, AuthorsAreClaims, AnswersHold, [Next]_vars
  PROVE  AnswersHold'
<1> SUFFICES ASSUME NEW d \in Deliveries, job'[d].asked
             PROVE  /\ job'[d].pc = "restore" =>
                         ref'[job'[d].content].state # "deleting"
                    /\ job'[d].pc = "create" =>
                         /\ item'.by <= job'[d].fence
                         /\ item'.content \in {NoContent, job'[d].content}
                    /\ job'[d].pc = "record" => verdict'.by <= job'[d].fence
  BY DEF AnswersHold, Asked, At, Rendered
<1>1. CASE Act(d)
  <2>1. Ask(d)
    BY <1>1, ActEntries DEF Entries
  <2>2. job'[d] = [job[d] EXCEPT !.asked = TRUE] /\ job[d] \in Jobs
    BY <2>1, AskIsCurrent DEF HandoffTypeOK, JobsOK
  <2>3. job'[d].pc = job[d].pc /\ job'[d].fence = job[d].fence
        /\ job'[d].content = job[d].content
    BY <2>2 DEF Jobs
  <2> QED
    BY <2>1, <2>3, AskIsCurrent DEF Acceptable, Restorable, AuthorsAreClaims, Current, At,
       Rendered
<1>2. CASE Still(d)
  <2>1. job[d].asked /\ job'[d].pc = job[d].pc /\ job'[d].fence = job[d].fence
        /\ job'[d].content = job[d].content
    BY <1>2 DEF Still
  <2> QED
    BY <2>1, StaleAnswersAreDropped DEF AnswersHold, Asked, At, Rendered
<1> QED
  BY <1>1, <1>2, AnyStep

\* Authors are fences given so far, and a claim records one verdict.
LEMMA AuthorsStep ==
  ASSUME HandoffTypeOK, FencesAreDistinct, AuthorsAreClaims, AnswersHold, [Next]_vars
  PROVE  /\ AuthorsAreClaims'
         /\ item'.by >= item.by
         /\ verdict' # verdict => \/ verdict'.by > verdict.by
                                  \/ verdict' = [verdict EXCEPT !.status = "failed"]
<1> USE DEF HandoffTypeOK
<1>1. /\ \A e \in Deliveries : job[e].fence \in Nat /\ job[e].fence <= own.fence
      /\ own.fence \in Nat /\ item.by \in Nat /\ verdict.by \in Nat /\ own'.fence \in Nat
      /\ own'.fence >= own.fence
  BY FencesStep, RecordsStep DEF JobsOK, Jobs, RecordsOK, Item, FencesAreDistinct
<1>2. item'.by = item.by \/ \E d \in Deliveries : Asked(d, "create") /\ item'.by = job[d].fence
  <2>1. ASSUME NEW d \in Deliveries, Create(d)
        PROVE  Asked(d, "create") /\ item'.by = job[d].fence
    BY <2>1 DEF Create, RecordsOK, Item
  <2>2. ASSUME NEW d \in Deliveries,
               ReserveNotification(d) \/ ConsumeNotification(d) \/ AcceptNotification(d)
        PROVE  item'.by = item.by
    BY <2>2 DEF ReserveNotification, ConsumeNotification, AcceptNotification, RecordsOK, Item
  <2>3. CASE RepairReserves \/ RepairSends
    BY <2>3 DEF RepairReserves, RepairSends, RecordsOK, Item
  <2> QED
    BY <2>1, <2>2, <2>3, Writers
<1>3. ASSUME NEW d \in Deliveries, RecordVerdict(d)
      PROVE  /\ verdict'.by = job[d].fence /\ job[d].fence # 0
             /\ verdict'.by > verdict.by
             /\ job'[d].pc = "recorded" /\ job'[d].fence = job[d].fence
  <2>1. Asked(d, "record") /\ verdict'.by = job[d].fence /\ job[d].fence # 0
    BY <1>3 DEF RecordVerdict, JobsOK, Asked, At, Claimless
  <2>2. verdict.by <= job[d].fence /\ verdict.by # job[d].fence
    BY <2>1 DEF AnswersHold, AuthorsAreClaims, Concluded, Asked, At
  <2>3. job'[d].pc = "recorded" /\ job'[d].fence = job[d].fence
    BY <1>3, <2>1, WriteFacts DEF RecordVerdict, Steps
  <2> QED
    BY <1>1, <2>1, <2>2, <2>3
<1>4. ASSUME NEW d \in Deliveries, Fails(d)
      PROVE  /\ verdict' = [verdict EXCEPT !.status = "failed"]
             /\ verdict'.by = verdict.by /\ verdict'.status = "failed"
  BY <1>4 DEF Fails, RecordsOK
<1>5. \A e \in Deliveries : job[e].pc \in Concluded => job'[e].pc \in Concluded
  BY AnyStep, ActEntries DEF Entries, Still
<1>6. ASSUME NEW e \in Deliveries, verdict'.by # 0, job'[e].fence = verdict'.by
      PROVE  job'[e].pc \in Concluded
  <2>1. CASE \E d \in Deliveries : RecordVerdict(d)
    <3>1. PICK d \in Deliveries : RecordVerdict(d)
      BY <2>1
    <3>2. d = e
      BY <1>3, <1>6, <3>1, FencesStep DEF FencesAreDistinct
    <3> QED
      BY <1>3, <3>1, <3>2 DEF Concluded
  <2>2. CASE verdict'.by = verdict.by
    <3>1. Acquire(e) => job'[e].fence = own.fence + 1
      BY DEF Acquire, JobsOK, Jobs
    <3>2. job[e].fence = verdict.by
      BY <1>1, <1>6, <2>2, <3>1, AnyStep DEF AuthorsAreClaims
    <3> QED
      BY <1>5, <1>6, <2>2, <3>2 DEF AuthorsAreClaims
  <2> QED
    BY <1>4, <2>1, <2>2, Writers
<1>7. item'.by >= item.by /\ item'.by <= own'.fence
  BY <1>1, <1>2 DEF AuthorsAreClaims, AnswersHold
<1>8. verdict'.by <= own'.fence /\ (verdict'.status = "completed" => verdict'.by # 0)
  BY <1>1, <1>3, <1>4, Writers DEF AuthorsAreClaims
<1> QED
  BY <1>3, <1>4, <1>6, <1>7, <1>8, Writers DEF AuthorsAreClaims

-----------------------------------------------------------------------------
(* The artifact store.                                                     *)

\* How a reference changes: to live, and then use is kept, or to being deleted and
\* then to deleted, and then it was not used.
Revives(c) ==
  /\ ref'[c].state = "live" /\ ref[c].state # "deleting"
  /\ ref[c].used => ref'[c].used
  /\ \E d \in Deliveries : Rendered(d) = c /\ (Restore(d) \/ Register(d))

Condemns(c) ==
  /\ ~ref[c].used /\ ref[c].state # "deleting"
  /\ ~ref'[c].used /\ ref'[c].state = "deleting"
  /\ blob' = blob

Buries(c) ==
  /\ ~ref[c].used /\ ~ref'[c].used /\ ref'[c].state = "deleted"
  /\ \E s \in Cleaners :
       /\ FinalizeDelete(s) /\ sweep[s].content = c
       /\ ref[c] = [used |-> FALSE, state |-> "deleting", by |-> s]

\* A reference changes in these three ways only, and unused ones only are deleted.
LEMMA ReferenceStep ==
  ASSUME HandoffTypeOK, AnswersHold, [Next]_vars, NEW c \in Contents
  PROVE  ref'[c] = ref[c] \/ Revives(c) \/ Condemns(c) \/ Buries(c)
<1> USE DEF HandoffTypeOK, StoreOK, Asked, At
<1>1. ASSUME NEW d \in Deliveries, Restore(d), ref'[c] # ref[c]
      PROVE  Revives(c)
  <2>1. Rendered(d) = c
    BY <1>1 DEF Restore
  <2>2. ref'[c] = [used |-> ref[c].used, state |-> "live", by |-> NoCleaner]
    BY <1>1, <2>1 DEF Restore
  <2> QED
    BY <1>1, <2>1, <2>2 DEF Restore, AnswersHold, Revives
<1>2. ASSUME NEW d \in Deliveries, Register(d), ref'[c] # ref[c]
      PROVE  Revives(c)
  <2>1. Rendered(d) = c
    BY <1>2 DEF Register
  <2>2. ref'[c] = [used |-> TRUE, state |-> "live", by |-> NoCleaner]
    BY <1>2, <2>1 DEF Register
  <2> QED
    BY <1>2, <2>1, <2>2 DEF Register, Revives
<1>3. ASSUME NEW s \in Cleaners, ClaimDelete(s), ref'[c] # ref[c]
      PROVE  Condemns(c)
  BY <1>3 DEF ClaimDelete, Condemns
<1>4. ASSUME NEW s \in Cleaners, FinalizeDelete(s), ref'[c] # ref[c]
      PROVE  Buries(c)
  <2>1. /\ sweep[s].content = c
        /\ ref[c] = [used |-> FALSE, state |-> "deleting", by |-> s]
        /\ ref'[c] = [used |-> FALSE, state |-> "deleted", by |-> NoCleaner]
    BY <1>4 DEF FinalizeDelete
  <2>2. ~ref[c].used /\ ~ref'[c].used /\ ref'[c].state = "deleted"
    BY <2>1
  <2> QED
    BY <1>4, <2>1, <2>2, Zenon DEF Buries
<1> QED
  BY <1>1, <1>2, <1>3, <1>4, Writers

\* Only an artifact whose reference its cleaner holds is deleted.
LEMMA BlobStep ==
  ASSUME HandoffTypeOK, FenceIsNeverLost, [Next]_vars, NEW c \in Contents, blob[c]
  PROVE  blob'[c] \/ (~ref[c].used /\ ref[c].state = "deleting" /\ ref' = ref)
<1>1. ASSUME NEW s \in Cleaners, DeleteBlob(s)
      PROVE  blob'[c] \/ (~ref[c].used /\ ref[c].state = "deleting" /\ ref' = ref)
  <2> DEFINE b == sweep[s].content
  <2>1. /\ blob' = [blob EXCEPT ![b] = FALSE] /\ ref' = ref
        /\ ref[b] = [used |-> FALSE, state |-> "deleting", by |-> s]
    BY <1>1 DEF DeleteBlob, FenceIsNeverLost
  <2>2. c # b => blob'[c] = blob[c]
    BY <2>1 DEF HandoffTypeOK, StoreOK
  <2>3. c = b => ~ref[c].used /\ ref[c].state = "deleting"
    BY <2>1
  <2> QED
    BY <2>1, <2>2, <2>3
<1>2. ASSUME NEW d \in Deliveries, Upload(d)
      PROVE  blob'[c]
  BY <1>2 DEF Upload, HandoffTypeOK, StoreOK
<1> QED
  BY <1>1, <1>2, Writers

\* A used reference stays live: neither cleanup claims it.
LEMMA UsedStep ==
  ASSUME HandoffTypeOK, AnswersHold, UsedIsLive, [Next]_vars
  PROVE  /\ UsedIsLive'
         /\ \A c \in Contents : ref[c].used => ref'[c].used
<1> SUFFICES ASSUME NEW c \in Contents
             PROVE  /\ ref'[c].used => ref'[c].state = "live"
                    /\ ref[c].used => ref'[c].used
  BY DEF UsedIsLive
<1> QED
  BY ReferenceStep DEF UsedIsLive, Revives, Condemns, Buries

\* An artifact that is there and in use stays so.
LEMMA UsedBlobStep ==
  ASSUME HandoffTypeOK, AnswersHold, UsedIsLive, FenceIsNeverLost, [Next]_vars,
         NEW c \in Contents, blob[c], ref[c].used
  PROVE  blob'[c] /\ ref'[c].used
BY BlobStep, UsedStep

\* What a cleaner claimed stays its own: restore and registration refuse a reference
\* that is being deleted.
LEMMA FenceStep ==
  ASSUME HandoffTypeOK, AnswersHold, FenceIsNeverLost, [Next]_vars
  PROVE  FenceIsNeverLost'
<1> USE DEF HandoffTypeOK, StoreOK
<1> SUFFICES ASSUME NEW s \in Cleaners, sweep'[s].pc \in {"blob", "metadata", "finalize"}
             PROVE  ref'[sweep'[s].content] = [used |-> FALSE, state |-> "deleting", by |-> s]
  BY DEF FenceIsNeverLost
<1>1. CASE sweep'[s] = sweep[s]
  <2> DEFINE c == sweep[s].content
  <2>1. c \in Contents /\ ref[c] = [used |-> FALSE, state |-> "deleting", by |-> s]
    BY <1>1 DEF FenceIsNeverLost
  <2>2. ASSUME FinalizeDelete(s)
        PROVE  FALSE
    BY <1>1, <2>2 DEF FinalizeDelete, Resting
  <2>3. ref[c].state = "deleting" /\ ~Revives(c) /\ ~Condemns(c)
    BY <2>1 DEF Revives, Condemns
  <2>4. ASSUME Buries(c) PROVE FALSE
    <3>1. PICK t \in Cleaners :
            FinalizeDelete(t) /\ ref[c] = [used |-> FALSE, state |-> "deleting", by |-> t]
      BY <2>4, Zenon DEF Buries
    <3>2. t = s
      BY <2>1, <3>1
    <3> QED
      BY <2>2, <3>1, <3>2
  <2> QED
    BY <1>1, <2>1, <2>3, <2>4, ReferenceStep
<1>2. CASE sweep'[s] # sweep[s]
  <2>1. PICK t \in Cleaners : Sweep(t)
    BY <1>2, Writers
  <2>2. t = s
    BY <1>2, <2>1 DEF Sweep, ReadMetadata, ClaimDelete, DeleteBlob, DeleteMetadata,
       FinalizeDelete, CleanerDies
  <2>3. CASE \E c \in Contents : ReadMetadata(s, c)
    BY <2>3 DEF ReadMetadata
  <2>4. CASE ClaimDelete(s)
    <3> DEFINE c == sweep[s].content
    <3>1. /\ ref' = [ref EXCEPT ![c] = [used |-> FALSE, state |-> "deleting", by |-> s]]
          /\ sweep' = [sweep EXCEPT ![s].pc = "blob"]
      BY <2>4 DEF ClaimDelete, Resting
    <3>2. c \in Contents /\ sweep'[s].content = c
      BY <2>4, <3>1 DEF ClaimDelete, Sweeps
    <3> QED
      BY <3>1, <3>2
  <2>5. CASE DeleteBlob(s) \/ DeleteMetadata(s)
    BY <2>5 DEF DeleteBlob, DeleteMetadata, FenceIsNeverLost, Sweeps
  <2>6. CASE FinalizeDelete(s) \/ CleanerDies(s)
    BY <2>6 DEF FinalizeDelete, CleanerDies, Resting
  <2> QED
    BY <2>1, <2>2, <2>3, <2>4, <2>5, <2>6 DEF Sweep
<1> QED
  BY <1>1, <1>2

\* A restore that was asked for before this delivery restored the same reference
\* has to be asked for again, and is refused.
LEMMA RestoredStep ==
  ASSUME HandoffTypeOK, FencesAreDistinct, RestoredIsLast, [Next]_vars
  PROVE  RestoredIsLast'
<1> USE DEF HandoffTypeOK
<1> DEFINE Past == {"archived", "outbox", "check", "register"}
<1> SUFFICES ASSUME NEW d \in Deliveries, NEW e \in Deliveries, d # e,
                    Current(d)', job'[d].pc \in Past,
                    job'[e].pc = "restore", job'[e].asked
             PROVE  job'[e].content # job'[d].content
  BY DEF RestoredIsLast, Asked, At, Rendered
<1>1. ~Acquire(d)
  BY AcquireFacts
<1>2. Current(d) /\ job'[d].content = job[d].content
  BY <1>1, CurrentStep, AnyStep
<1>3. Still(e)
  <2>1. ASSUME Act(e) PROVE FALSE
    <3>1. Ask(e)
      BY <2>1, ActEntries DEF Entries
    <3>2. Current(e)
      BY <3>1, AskIsCurrent
    <3> QED
      BY <1>2, <3>2 DEF Current, FencesAreDistinct
  <2> QED
    BY <2>1, AnyStep
<1>4. job[e].asked /\ job[e].pc = "restore" /\ job'[e].content = job[e].content
  BY <1>3 DEF Still
<1>5. CASE job[d].pc \in Past
  BY <1>2, <1>4, <1>5 DEF RestoredIsLast, Asked, At, Rendered
<1>6. CASE job[d].pc \notin Past
  <2>1. Act(d)
    BY <1>6, AnyStep DEF Still
  <2>2. Restore(d)
    BY <1>6, <2>1, ActEntries DEF Entries, Complete, Begin, Verify, At
  <2>3. Target(d) = <<"reference", Rendered(d)>> /\ Target(e) = <<"reference", Rendered(e)>>
    BY <1>4, <2>2, TargetFacts DEF Restore, Asked, At
  <2>4. Target(e) # Target(d)
    <3>1. "archived" \in Steps /\ job[d].fence # 0
      BY <2>2 DEF Steps, Restore, Asked, At, JobsOK, Claimless
    <3> QED
      BY <2>2, <3>1, WriteFacts DEF Restore
  <2> QED
    BY <1>2, <1>4, <2>3, <2>4 DEF Rendered
<1> QED
  BY <1>5, <1>6

\* From the verification to the registration, no reference of the delivery comes
\* back to life without its artifact.
LEMMA VerifiedStep ==
  ASSUME HandoffTypeOK, FencesAreDistinct, AnswersHold, FenceIsNeverLost,
         RestoredIsLast, VerifiedStands, [Next]_vars
  PROVE  VerifiedStands'
<1> USE DEF HandoffTypeOK
<1> SUFFICES ASSUME NEW d \in Deliveries, job'[d].pc = "register", Current(d)'
             PROVE  blob'[job'[d].content] \/ ref'[job'[d].content].state # "live"
  BY DEF VerifiedStands, At, Rendered
<1>1. ~Acquire(d)
  BY AcquireFacts
<1>2. Current(d) /\ job'[d].content = job[d].content
  BY <1>1, CurrentStep, AnyStep
<1> DEFINE c == job[d].content
<1>3. CASE Act(d)
  <2>1. Verify(d, "check", "register")
    BY <1>3, ActEntries DEF Entries
  <2> QED
    BY <1>2, <2>1 DEF Verify, Rendered, storeVars
<1>4. CASE Still(d)
  <2>1. job[d].pc = "register" /\ c \in Contents
    BY <1>4 DEF Still, JobsOK, Claimless
  <2>2. blob[c] \/ ref[c].state # "live"
    BY <1>2, <2>1 DEF VerifiedStands, At, Rendered
  <2>3. ASSUME NEW e \in Deliveries, Restore(e) PROVE Rendered(e) # c
    <3>1. e # d
      BY <2>1, <2>3 DEF Restore, Asked, At
    <3> QED
      BY <1>2, <2>1, <2>3, <3>1 DEF RestoredIsLast, Restore, Rendered
  <2>4. ASSUME NEW e \in Deliveries, Register(e), Rendered(e) = c
        PROVE  ref[c].state = "live" /\ blob' = blob
    BY <2>4 DEF Register
  <2>5. blob[c] => blob'[c] \/ ref'[c].state = "deleting"
    BY <2>1, BlobStep
  <2>6. Revives(c) => ref[c].state = "live" /\ blob' = blob
    BY <2>3, <2>4 DEF Revives
  <2>7. ref'[c] = ref[c] \/ Revives(c) \/ ref'[c].state # "live"
    BY <2>1, ReferenceStep DEF Condemns, Buries
  <2> QED
    BY <1>2, <2>1, <2>2, <2>5, <2>6, <2>7
<1> QED
  BY <1>3, <1>4, AnyStep

\* What is registered is there and in use when the item is created.
LEMMA RegisteredStep ==
  ASSUME HandoffTypeOK, FencesAreDistinct, AnswersHold, StoreInv, [Next]_vars
  PROVE  RegisteredStands'
<1> USE DEF HandoffTypeOK, StoreInv
<1> SUFFICES ASSUME NEW d \in Deliveries, job'[d].pc = "create", Current(d)' \/ job'[d].asked
             PROVE  blob'[job'[d].content] /\ ref'[job'[d].content].used
  BY DEF RegisteredStands, At, Rendered
<1>1. ~Acquire(d)
  BY AcquireFacts
<1> DEFINE c == job[d].content
<1>2. job'[d].content = c
  BY <1>1, AnyStep
<1>3. CASE Act(d)
  <2>1. CASE Ask(d)
    <3>1. Current(d) /\ blob' = blob /\ ref' = ref
      BY <2>1, AskIsCurrent
    <3>2. job[d].pc = "create"
      BY <2>1, AskIsCurrent
    <3> QED
      BY <1>2, <3>1, <3>2 DEF RegisteredStands, At, Rendered
  <2>2. CASE ~Ask(d)
    <3>1. Register(d) /\ Current(d)'
      BY <1>3, <2>2, ActEntries DEF Entries
    <3>2. Current(d)
      BY <1>1, <3>1, CurrentStep
    <3>3. c \in Contents
      BY <3>1 DEF Register, At, JobsOK, Claimless
    <3> QED
      BY <1>2, <3>1, <3>2, <3>3 DEF Register, VerifiedStands, Rendered, StoreOK
  <2> QED
    BY <2>1, <2>2
<1>4. CASE Still(d)
  <2>1. job[d].pc = "create" /\ c \in Contents /\ (Current(d) \/ job[d].asked)
    BY <1>1, <1>4, CurrentStep DEF Still, JobsOK, Claimless
  <2>2. blob[c] /\ ref[c].used
    BY <2>1 DEF RegisteredStands, At, Rendered
  <2> QED
    BY <1>2, <2>1, <2>2, UsedBlobStep
<1> QED
  BY <1>3, <1>4, AnyStep

\* An item keeps its artifact: a used reference is neither condemned nor its blob deleted.
LEMMA ArtifactStep ==
  ASSUME HandoffTypeOK, AnswersHold, StoreInv, [Next]_vars
  PROVE  ItemHasArtifact'
<1> USE DEF HandoffTypeOK, StoreInv
<1> SUFFICES ASSUME item'.content # NoContent
             PROVE  /\ blob'[item'.content]
                    /\ ref'[item'.content].used /\ ref'[item'.content].state = "live"
  BY DEF ItemHasArtifact
<1> DEFINE c == item'.content
<1>1. c \in Contents
  BY RecordsStep DEF RecordsOK, Item
<1>2. CASE item.content = c
  BY <1>1, <1>2, UsedBlobStep, UsedStep DEF ItemHasArtifact, UsedIsLive
<1>3. ASSUME NEW d \in Deliveries, Create(d)
      PROVE  blob'[c] /\ ref'[c].used /\ ref'[c].state = "live"
  <2>1. c = Rendered(d) /\ blob' = blob /\ ref' = ref
    BY <1>3 DEF Create, RecordsOK, Item, storeVars
  <2>2. blob[c] /\ ref[c].used
    BY <1>3, <2>1 DEF Create, Asked, RegisteredStands
  <2> QED
    BY <1>1, <2>1, <2>2 DEF UsedIsLive
<1>4. ASSUME NEW d \in Deliveries,
             ReserveNotification(d) \/ ConsumeNotification(d) \/ AcceptNotification(d)
      PROVE  item.content = c
  BY <1>4 DEF ReserveNotification, ConsumeNotification, AcceptNotification, RecordsOK, Item
<1>5. CASE RepairReserves \/ RepairSends
  BY <1>2, <1>5 DEF RepairReserves, RepairSends, RecordsOK, Item
<1> QED
  BY <1>2, <1>3, <1>4, <1>5, Writers

\* The invariants of the store are preserved together.
LEMMA StoreInvStep ==
  ASSUME HandoffTypeOK, FencesAreDistinct, AnswersHold, StoreInv, [Next]_vars
  PROVE  StoreInv'
BY UsedStep, FenceStep, RestoredStep, VerifiedStep, RegisteredStep, ArtifactStep DEF StoreInv

-----------------------------------------------------------------------------
(* The direct path.                                                        *)

\* The provider's boundary is begun once for all.
LEMMA ProviderPermitStays ==
  ASSUME HandoffTypeOK, [Next]_vars, permit["provider"].fence # 0
  PROVE  permit'["provider"].fence = permit["provider"].fence
<1> USE DEF HandoffTypeOK
<1>1. permit \in [Boundaries -> Permits] /\ "provider" \in Boundaries
  BY DEF RecordsOK, Boundaries
<1>2. ASSUME NEW d \in Deliveries, NEW b \in Boundaries \ {"provider"}, NEW here, NEW next,
             Begin(d, b, here, next)
      PROVE  permit'["provider"].fence = permit["provider"].fence
  BY <1>1, <1>2 DEF Begin
<1>3. ASSUME NEW d \in Deliveries, NEW b \in Boundaries, NEW here, NEW next,
             Complete(d, b, here, next)
      PROVE  permit'["provider"].fence = permit["provider"].fence
  BY <1>1, <1>3 DEF Complete, Permits
<1>4. ASSUME NEW d \in Deliveries, BeginDirect(d)
      PROVE  permit'["provider"].fence = permit["provider"].fence
  BY <1>1, <1>4 DEF BeginDirect
<1> USE DEF Boundaries
<1>5. ASSUME NEW d \in Deliveries, Act(d)
      PROVE  permit'["provider"].fence = permit["provider"].fence
  <2>1. CASE Archive(d)
    BY <1>2, <1>3, <2>1 DEF Archive, CheckSize, AuthorizeUpload, Upload, Verify, Describe,
       Restore
  <2>2. CASE Enqueue(d)
    BY <1>2, <1>3, <2>2 DEF Enqueue, Verify, Register, Create
  <2>3. CASE Notify(d)
    BY <1>2, <1>3, <2>3 DEF Notify, ReserveNotification, ConsumeNotification,
       SendNotification, AcceptNotification
  <2>4. CASE Direct(d)
    BY <1>3, <1>4, <2>4 DEF Direct, BeforeMutation, Call, RecordEvidence, NothingToPublish
  <2>5. CASE Deliver(d)
    BY <1>2, <1>3, <2>5 DEF Deliver, Receive, Acquire, Ask, DeleteMessage, Dies,
       RecordVerdict, Fails
  <2> QED
    BY <1>5, <2>1, <2>2, <2>3, <2>4, <2>5 DEF Act
<1>6. ASSUME NEW s \in Cleaners, Sweep(s)
      PROVE  permit' = permit
  BY <1>6 DEF Sweep, ReadMetadata, ClaimDelete, DeleteBlob, DeleteMetadata,
     FinalizeDelete, CleanerDies
<1>7. CASE RepairReserves \/ RepairSends \/ OwnershipExpires \/ UNCHANGED vars
           \/ \E c \in Contents : MetadataAges(c)
  BY <1>7 DEF RepairReserves, RepairSends, OwnershipExpires, MetadataAges, vars
<1> QED
  BY <1>5, <1>6, <1>7 DEF Next, Act

\* Whoever reaches a provider call keeps its permit.
LEMMA CallersStep ==
  ASSUME HandoffTypeOK, CallersHoldPermit, [Next]_vars
  PROVE  CallersHoldPermit'
<1> USE DEF HandoffTypeOK
<1> SUFFICES ASSUME NEW d \in Deliveries, d \in called' \/ job'[d].pc = "call"
             PROVE  job'[d].fence # 0 /\ permit'["provider"].fence = job'[d].fence
  BY DEF CallersHoldPermit, At
<1>1. ASSUME d \in called \/ job[d].pc = "call"
      PROVE  job'[d].fence # 0 /\ permit'["provider"].fence = job'[d].fence
  <2>1. job[d].fence # 0 /\ permit["provider"].fence = job[d].fence
    BY <1>1 DEF CallersHoldPermit, At
  <2>2. ~Acquire(d)
    BY <2>1 DEF Acquire, At, JobsOK
  <2>3. job'[d].fence = job[d].fence
    BY <2>2, AnyStep
  <2> QED
    BY <2>1, <2>3, ProviderPermitStays
<1>2. ASSUME BeforeMutation(d)
      PROVE  job'[d].fence # 0 /\ permit'["provider"].fence = job'[d].fence
  <2>1. permit["provider"].fence = job[d].fence /\ job[d].fence # 0 /\ permit' = permit
    BY <1>2 DEF BeforeMutation, Permitted, At, JobsOK, Claimless
  <2>2. ~Acquire(d)
    BY <2>1 DEF Acquire, At, JobsOK
  <2> QED
    BY <2>1, <2>2, AnyStep
<1>3. ASSUME d \in called' \ called
      PROVE  job[d].pc = "call"
  BY <1>3, Writers DEF Call, At
<1>4. ASSUME job'[d].pc = "call", job[d].pc # "call"
      PROVE  BeforeMutation(d)
  BY <1>4, AnyStep, ActEntries DEF Still, Entries
<1> QED
  BY <1>1, <1>2, <1>3, <1>4

\* Two deliveries that called a provider have the fence of one permit.
LEMMA CallersAreOne ==
  ASSUME HandoffTypeOK, FencesAreDistinct, CallersHoldPermit
  PROVE  ProviderCalledByOne
<1>1. \A d, e \in called : d = e
  BY DEF HandoffTypeOK, RecordsOK, FencesAreDistinct, CallersHoldPermit
<1>2. CASE called = {}
  BY <1>2, FS_EmptySet DEF ProviderCalledByOne
<1>3. CASE called # {}
  <2>1. PICK d \in called : called = {d}
    BY <1>1, <1>3
  <2>2. Cardinality({d}) = 1
    BY FS_Singleton
  <2> QED
    BY <2>1, <2>2 DEF ProviderCalledByOne
<1> QED
  BY <1>2, <1>3

-----------------------------------------------------------------------------
(* The notification.                                                       *)

\* The mark of a notification on its way is set once, by whoever sends it.
LEMMA SentStep ==
  ASSUME HandoffTypeOK, SentOnce, [Next]_vars
  PROVE  SentOnce'
<1> USE DEF HandoffTypeOK
<1>1. sends \in 0..2 /\ item \in Item
  BY DEF RecordsOK
<1>2. \A d \in Deliveries : job'[d].pc = "send" => job[d].pc = "send" \/ ConsumeNotification(d)
  BY AnyStep, ActEntries DEF Still, Entries
<1>3. ASSUME NEW d \in Deliveries, ConsumeNotification(d)
      PROVE  SentOnce'
  <2>1. sends' = sends
    BY <1>3 DEF ConsumeNotification
  <2>2. \A e \in Deliveries : e # d => job'[e].pc = job[e].pc
    BY <1>3, ActStep DEF Act, Notify, JobStep, Undisturbed
  <2>3. CASE item.notice \in Sent
    <3>1. item' = item /\ job'[d].pc = "notified"
      BY <1>3, <2>3, WriteFacts DEF ConsumeNotification, Steps, Asked, At, JobsOK, Claimless
    <3> QED
      BY <2>1, <2>2, <3>1 DEF SentOnce, At
  <2>4. CASE item.notice \notin Sent
    <3>1. item'.notice = "sending" /\ job'[d].pc = "send"
      BY <1>1, <1>3, <2>4, WriteFacts DEF ConsumeNotification, Steps, Asked, At, JobsOK,
         Claimless, Item
    <3> QED
      BY <2>1, <2>2, <2>4, <3>1 DEF SentOnce, At, Sent
  <2> QED
    BY <2>3, <2>4
<1>4. ASSUME NEW d \in Deliveries, SendNotification(d)
      PROVE  SentOnce'
  <2>1. /\ item' = item /\ job[d].pc = "send" /\ sends = 0 /\ sends' = 1
        /\ item.notice \in Sent
    BY <1>1, <1>4 DEF SendNotification, OneMore, At, SentOnce
  <2>2. \A e \in Deliveries : e # d => job'[e].pc = job[e].pc
    BY <1>4, ActStep DEF Act, Notify, JobStep, Undisturbed
  <2>3. job'[d].pc = "accept"
    BY <1>4, <2>1 DEF SendNotification, GoTo, JobsOK, Jobs
  <2> QED
    BY <2>1, <2>2, <2>3 DEF SentOnce, At
<1>5. ASSUME \A d \in Deliveries : ~ConsumeNotification(d) /\ ~SendNotification(d)
      PROVE  SentOnce'
  <2>1. \A d \in Deliveries : job'[d].pc = "send" => job[d].pc = "send"
    BY <1>2, <1>5
  <2>2. CASE RepairSends
    <3>1. item.notice \notin Sent /\ item'.notice = "sending" /\ sends = 0 /\ sends' = 1
      BY <1>1, <2>2 DEF RepairSends, Sent, SentOnce, OneMore, Item
    <3>2. \A d \in Deliveries : job'[d].pc # "send"
      BY <2>1, <3>1 DEF SentOnce, At
    <3> QED
      BY <3>1, <3>2 DEF SentOnce, At, Sent
  <2>3. CASE ~RepairSends
    <3>1. sends' = sends
      BY <1>5, <2>3, Writers
    <3>2. item.notice \in Sent => item'.notice \in Sent
      <4>1. ASSUME NEW d \in Deliveries, Create(d)
            PROVE  item'.notice = item.notice
        BY <1>1, <4>1 DEF Create, Item
      <4>2. ASSUME NEW d \in Deliveries, ReserveNotification(d)
            PROVE  item.notice \in Sent => item' = item
        BY <4>2 DEF ReserveNotification
      <4>3. ASSUME NEW d \in Deliveries, AcceptNotification(d)
            PROVE  item'.notice \in Sent
        BY <1>1, <4>3 DEF AcceptNotification, Item, Sent
      <4>4. CASE RepairReserves
        BY <4>4 DEF RepairReserves
      <4> QED
        BY <1>5, <2>3, <4>1, <4>2, <4>3, <4>4, Writers
    <3> QED
      BY <2>1, <3>1, <3>2 DEF SentOnce, At
  <2> QED
    BY <2>2, <2>3
<1> QED
  BY <1>3, <1>4, <1>5

-----------------------------------------------------------------------------
(* The routes.                                                             *)

\* An item never changes its artifact once it has one.
LEMMA ContentStays ==
  ASSUME HandoffTypeOK, AnswersHold, [Next]_vars, item.content # NoContent
  PROVE  item'.content = item.content
<1>1. item \in Item
  BY DEF HandoffTypeOK, RecordsOK
<1>2. ASSUME NEW d \in Deliveries, Create(d)
      PROVE  item'.content = item.content
  BY <1>1, <1>2 DEF Create, AnswersHold, Item
<1>3. ASSUME NEW d \in Deliveries,
             ReserveNotification(d) \/ ConsumeNotification(d) \/ AcceptNotification(d)
      PROVE  item'.content = item.content
  BY <1>1, <1>3 DEF ReserveNotification, ConsumeNotification, AcceptNotification, Item
<1>4. CASE RepairReserves \/ RepairSends
  BY <1>1, <1>4 DEF RepairReserves, RepairSends, Item
<1> QED
  BY <1>2, <1>3, <1>4, Writers

\* A delivery stays on the route of its job.
LEMMA OnRouteStep ==
  ASSUME HandoffTypeOK, AnswersHold, OnRoute, [Next]_vars
  PROVE  OnRoute'
<1> USE DEF HandoffTypeOK
<1>0. route' = route /\ item \in Item
  BY Writers DEF RecordsOK
<1>1. ASSUME NEW d \in Deliveries, Still(d)
      PROVE  /\ job'[d].pc \in Reviewing => route # "direct"
             /\ job'[d].pc \in Notifying => route = "routed"
             /\ job'[d].pc \in Publishing => route = "direct"
  BY <1>1 DEF Still, OnRoute
<1>2. ASSUME NEW d \in Deliveries, Act(d)
      PROVE  /\ job'[d].pc \in Reviewing => route # "direct"
             /\ job'[d].pc \in Notifying => route = "routed"
             /\ job'[d].pc \in Publishing => route = "direct"
  BY <1>2, ActEntries DEF Entries, OnRoute
<1>3. ASSUME NEW d \in Deliveries, job'[d].pc \in {"created"} \cup Notifying
      PROVE  item'.content # NoContent
  <2>1. CASE job[d].pc \in {"created"} \cup Notifying
    <3>1. item.content # NoContent
      BY <2>1 DEF OnRoute
    <3> QED
      BY <3>1, ContentStays
  <2>2. CASE job[d].pc \notin {"created"} \cup Notifying
    <3>1. Act(d)
      BY <1>3, <2>2, AnyStep DEF Still
    <3>2. Create(d)
      BY <1>3, <2>2, <3>1, ActEntries DEF Entries, At
    <3>3. Rendered(d) \in Contents
      BY <3>2 DEF Create, Asked, At, JobsOK, Claimless, Rendered
    <3> QED
      BY <1>0, <3>2, <3>3, HandoffAssumption DEF Create, Item
  <2> QED
    BY <2>1, <2>2
<1>4. ASSUME item'.notice # "none"
      PROVE  route = "routed" /\ item'.content # NoContent
  <2>1. ASSUME item.notice # "none"
        PROVE  route = "routed" /\ item'.content # NoContent
    BY <2>1, ContentStays DEF OnRoute
  <2>2. ASSUME NEW d \in Deliveries, job[d].pc \in Notifying
        PROVE  route = "routed" /\ item'.content # NoContent
    BY <2>2, ContentStays DEF OnRoute
  <2>3. ASSUME NEW d \in Deliveries, Create(d)
        PROVE  item'.notice = item.notice
    BY <1>0, <2>3 DEF Create, Item
  <2>4. ASSUME NEW d \in Deliveries,
               ReserveNotification(d) \/ ConsumeNotification(d) \/ AcceptNotification(d)
        PROVE  job[d].pc \in Notifying
    BY <2>4 DEF ReserveNotification, ConsumeNotification, AcceptNotification, Asked, At,
       Notifying
  <2>5. CASE RepairReserves
    BY <2>5, ContentStays DEF RepairReserves
  <2>6. CASE RepairSends
    BY <2>1, <2>6 DEF RepairSends
  <2> QED
    BY <1>4, <2>1, <2>2, <2>3, <2>4, <2>5, <2>6, Writers
<1>5. \A d \in Deliveries : Act(d) \/ Still(d)
  BY AnyStep
<1> QED
  BY <1>0, <1>1, <1>2, <1>3, <1>4, <1>5 DEF OnRoute

\* On the private route a delivery gets past the creation of the item only with it.
LEMMA PrivateStep ==
  ASSUME HandoffTypeOK, AnswersHold, OnRoute, PrivateIsOwn, [Next]_vars
  PROVE  PrivateIsOwn'
<1> USE DEF HandoffTypeOK
<1> DEFINE Past == {"created", "finish", "record", "recorded"}
<1> SUFFICES ASSUME route = "private", NEW d \in Deliveries, job'[d].pc \in Past
             PROVE  item'.content = job'[d].content
  BY Writers DEF PrivateIsOwn, Rendered
<1>1. /\ job[d].pc \notin Notifying /\ job[d].pc \notin Publishing
      /\ job[d].pc \in Past => item.content = job[d].content
  BY DEF PrivateIsOwn, Rendered, OnRoute
<1>2. ASSUME job[d].pc \in Past
      PROVE  item'.content = job'[d].content
  <2>1. job[d].content \in Contents /\ ~Acquire(d)
    BY <1>2 DEF JobsOK, Claimless, Acquire, At
  <2>2. item.content # NoContent
    BY <1>1, <1>2, <2>1, HandoffAssumption
  <2> QED
    BY <1>1, <1>2, <2>1, <2>2, AnyStep, ContentStays
<1>3. ASSUME job[d].pc \notin Past, job'[d].pc \in Past
      PROVE  item'.content = job'[d].content
  <2>1. Act(d)
    BY <1>3, AnyStep DEF Still
  <2>2. Create(d)
    <3>1. Entries(d)
      BY <2>1, ActEntries
    <3>2. job'[d].pc # "finish"
      BY <1>1, <1>3, <3>1 DEF Entries, At, Notifying, Publishing
    <3>3. job'[d].pc # "record"
      BY <1>3, <3>1, AskIsCurrent DEF Entries, Begin, At
    <3>4. job'[d].pc # "recorded"
      BY <1>3, <3>1 DEF Entries, RecordVerdict, Asked, At
    <3> QED
      BY <1>3, <3>1, <3>2, <3>3, <3>4 DEF Entries
  <2>3. item'.content = Rendered(d)
    BY <2>2 DEF Create, RecordsOK, Item
  <2>4. ~Acquire(d)
    BY <2>2 DEF Create, Acquire, Asked, At
  <2> QED
    BY <2>3, <2>4, AnyStep DEF Rendered
<1> QED
  BY <1>1, <1>2, <1>3

\* A completed job was completed past the creation of its item.
LEMMA CompletedStep ==
  ASSUME HandoffTypeOK, AuthorsAreClaims, AnswersHold, PrivateIsOwn, CompletedIsArchived,
         [Next]_vars
  PROVE  CompletedIsArchived'
<1> USE DEF HandoffTypeOK
<1> SUFFICES ASSUME verdict'.status = "completed", route = "private"
             PROVE  \E d \in Deliveries : /\ job'[d].fence = verdict'.by
                                          /\ item'.content = job'[d].content
  BY Writers DEF CompletedIsArchived, Rendered
<1>1. ASSUME NEW d \in Deliveries, job[d].fence # 0, item.content = job[d].content
      PROVE  /\ job'[d].fence = job[d].fence
             /\ item'.content = job'[d].content
  <2>1. job[d].content \in Contents /\ ~Acquire(d)
    BY <1>1 DEF JobsOK, Acquire, At
  <2>2. item.content # NoContent
    BY <1>1, <2>1, HandoffAssumption
  <2> QED
    BY <1>1, <2>1, <2>2, AnyStep, ContentStays
<1>2. CASE verdict' = verdict
  <2>1. PICK d \in Deliveries : job[d].fence = verdict.by /\ item.content = job[d].content
    BY <1>2 DEF CompletedIsArchived, Rendered
  <2>2. job[d].fence # 0
    BY <1>2, <2>1 DEF AuthorsAreClaims
  <2> QED
    BY <1>1, <1>2, <2>1, <2>2
<1>3. ASSUME NEW d \in Deliveries, RecordVerdict(d)
      PROVE  \E e \in Deliveries : /\ job'[e].fence = verdict'.by
                                   /\ item'.content = job'[e].content
  <2>1. verdict'.by = job[d].fence /\ job[d].pc = "record"
    BY <1>3 DEF RecordVerdict, Asked, At
  <2>2. job[d].fence # 0 /\ item.content = job[d].content
    BY <2>1 DEF JobsOK, Claimless, PrivateIsOwn, Rendered
  <2> QED
    BY <1>1, <2>1, <2>2
<1>4. ASSUME NEW d \in Deliveries, Fails(d)
      PROVE  FALSE
  BY <1>4 DEF Fails, RecordsOK
<1> QED
  BY <1>2, <1>3, <1>4, Writers

-----------------------------------------------------------------------------
(* Custody.                                                                *)

\* A store of one file more or less.
LEMMA KeptFiles ==
  ASSUME HandoffTypeOK, NEW c \in Contents
  PROVE  /\ blob' = [blob EXCEPT ![c] = TRUE] =>
              {f \in Contents : blob'[f]} = {f \in Contents : blob[f]} \cup {c}
         /\ blob' = [blob EXCEPT ![c] = FALSE] =>
              {f \in Contents : blob'[f]} = {f \in Contents : blob[f]} \ {c}
BY DEF HandoffTypeOK, StoreOK

\* The start of the handoff is one of Custody.
LEMMA CustodyInit == Init => Handing!Init
<1> SUFFICES ASSUME Init PROVE Handing!Init
  OBVIOUS
<1>1. {c \in Contents : blob[c]} = {}
  BY DEF Init
<1> QED
  BY <1>1 DEF Init, Handing!Init

\* Every step of the handoff is one of Custody, or changes none of it: each of its
\* records is written by few actions, and by none of them together with another.
LEMMA CustodyStep ==
  ASSUME IInv, [Next]_vars
  PROVE  [Handing!Next]_(Handing!vars)
<1> USE DEF vars, storeVars
<1>0. /\ HandoffTypeOK /\ AnswersHold /\ StoreInv /\ CallersHoldPermit /\ SentOnce /\ OnRoute
      /\ PrivateIsOwn /\ FencesAreDistinct
  BY DEF IInv
<1>1. /\ item \in Item /\ \A d \in Deliveries : job[d] \in Jobs
      /\ \A d \in Deliveries : job[d].pc \notin Claimless => job[d].content \in Contents
  BY <1>0 DEF HandoffTypeOK, RecordsOK, JobsOK
<1>2. ASSUME NEW d \in Deliveries, Upload(d)
      PROVE  Handing!Next
  <2>1. PICK c \in Contents : c = Rendered(d)
    BY <1>1, <1>2 DEF Upload, At, Claimless, Rendered
  <2>2. {f \in Contents : blob'[f]} = {f \in Contents : blob[f]} \cup {c}
    BY <1>0, <1>2, <2>1, KeptFiles DEF Upload
  <2>3. Handing!Keep(c)
    BY <1>2, <2>2 DEF Upload, Handing!Keep
  <2> QED
    BY <2>3 DEF Handing!Next
<1>3. ASSUME NEW s \in Cleaners, DeleteBlob(s)
      PROVE  Handing!Next
  <2>0. StoreOK /\ FenceIsNeverLost /\ ItemHasArtifact /\ sweep[s].pc = "blob"
    BY <1>0, <1>3 DEF HandoffTypeOK, StoreInv, DeleteBlob
  <2>1. PICK c \in Contents : c = sweep[s].content /\ ref[c].used = FALSE
    <3>1. sweep[s].content \in Contents
      BY <2>0 DEF StoreOK
    <3>2. ref[sweep[s].content] = [used |-> FALSE, state |-> "deleting", by |-> s]
      BY <2>0 DEF FenceIsNeverLost
    <3> QED
      BY <3>1, <3>2
  <2>2. c # item.content
    BY <2>0, <2>1, HandoffAssumption DEF ItemHasArtifact
  <2>3. {f \in Contents : blob'[f]} = {f \in Contents : blob[f]} \ {c}
    BY <1>0, <1>3, <2>1, KeptFiles DEF DeleteBlob
  <2>4. Handing!Discard(c)
    BY <1>3, <2>2, <2>3 DEF DeleteBlob, Handing!Discard
  <2> QED
    BY <2>4 DEF Handing!Next
<1>4. ASSUME NEW d \in Deliveries, Create(d)
      PROVE  Handing!Next \/ UNCHANGED Handing!vars
  <2>1. /\ Rendered(d) \in Contents /\ blob[Rendered(d)] /\ route # "direct"
        /\ item.content \in {NoContent, Rendered(d)}
    BY <1>0, <1>1, <1>4 DEF Create, Asked, At, Claimless, Rendered, StoreInv,
       RegisteredStands, AnswersHold, OnRoute, Reviewing
  <2>2. item'.content = Rendered(d)
    BY <1>1, <1>4 DEF Create, Item
  <2>3. CASE item.content = NoContent
    BY <1>4, <2>1, <2>2, <2>3 DEF Create, Handing!HandOver, Handing!Next
  <2>4. CASE item.content = Rendered(d)
    BY <1>4, <2>2, <2>4 DEF Create, Handing!vars
  <2> QED
    BY <2>1, <2>3, <2>4
<1>5. ASSUME RepairSends \/ \E d \in Deliveries : SendNotification(d)
      PROVE  Handing!Announce
  <2>1. sends = 0 /\ route = "routed" /\ item.content # NoContent
    BY <1>0, <1>5 DEF RepairSends, SendNotification, SentOnce, Sent, At, OnRoute, Notifying
  <2>2. item'.content = item.content /\ sends' = 1
    BY <1>1, <1>5, <2>1 DEF RepairSends, SendNotification, OneMore, Item
  <2> QED
    BY <1>5, <2>1, <2>2 DEF RepairSends, SendNotification, Handing!Announce
<1>6. ASSUME NEW d \in Deliveries, Call(d)
      PROVE  Handing!Next \/ UNCHANGED Handing!vars
  <2>1. At(d, "call") /\ route = "direct" /\ called \subseteq Deliveries
    BY <1>0, <1>6 DEF Call, OnRoute, At, Publishing, HandoffTypeOK, RecordsOK
  <2>2. \A e \in called : e = d
    BY <1>0, <2>1 DEF CallersHoldPermit, FencesAreDistinct
  <2>3. CASE called = {}
    BY <1>6, <2>1, <2>3 DEF Call, Handing!Publish, Handing!Next
  <2>4. CASE called # {}
    <3>1. called' = called
      BY <1>6, <2>2, <2>4 DEF Call
    <3> QED
      BY <1>6, <3>1 DEF Call, Handing!vars
  <2> QED
    BY <2>3, <2>4
<1>7. ASSUME NEW d \in Deliveries, RecordVerdict(d)
      PROVE  Handing!Next
  <2>1. PICK s \in Ends : verdict' = [status |-> s, by |-> job[d].fence]
    BY <1>7 DEF RecordVerdict
  <2>2. route = "private" => item.content \in Contents
    BY <1>0, <1>1, <1>7 DEF RecordVerdict, Asked, At, Claimless, PrivateIsOwn, Rendered
  <2>3. s \in {"completed", "failed"} /\ (s = "completed" => route # "routed")
    BY <2>1 DEF Ends
  <2>4. Handing!Record(s)
    BY <1>7, <2>1, <2>2, <2>3, HandoffAssumption DEF RecordVerdict, Handing!Record
  <2> QED
    BY <2>3, <2>4 DEF Handing!Next
<1>8. ASSUME NEW d \in Deliveries, Fails(d)
      PROVE  Handing!Next
  <2>1. verdict'.status = "failed"
    BY <1>0, <1>8 DEF Fails, HandoffTypeOK, RecordsOK
  <2>2. Handing!Record("failed")
    BY <1>8, <2>1 DEF Fails, Handing!Record
  <2> QED
    BY <2>2 DEF Handing!Next
<1>9. CASE /\ \A d \in Deliveries : ~(Upload(d) \/ Create(d) \/ SendNotification(d) \/ Call(d)
                                      \/ RecordVerdict(d) \/ Fails(d))
           /\ \A s \in Cleaners : ~DeleteBlob(s)
           /\ ~RepairSends
  <2>1. /\ route' = route /\ blob' = blob /\ verdict' = verdict /\ called' = called
        /\ sends' = sends
    BY <1>9, Writers
  <2>2. item'.content = item.content
    <3>1. ASSUME NEW d \in Deliveries,
                 ReserveNotification(d) \/ ConsumeNotification(d) \/ AcceptNotification(d)
          PROVE  item'.content = item.content
      BY <1>1, <3>1 DEF ReserveNotification, ConsumeNotification, AcceptNotification, Item
    <3>2. CASE RepairReserves
      BY <1>1, <3>2 DEF RepairReserves, Item
    <3> QED
      BY <1>9, <3>1, <3>2, Writers
  <2> QED
    BY <2>1, <2>2 DEF Handing!vars
<1>10. Handing!Announce => Handing!Next
  BY DEF Handing!Next
<1> QED
  BY <1>2, <1>3, <1>4, <1>5, <1>6, <1>7, <1>8, <1>9, <1>10

-----------------------------------------------------------------------------
(* Results.                                                                *)

\* The initial states satisfy the inductive invariant.
LEMMA InvInit == Init => IInv
<1> SUFFICES ASSUME Init PROVE IInv
  OBVIOUS
<1>1. HandoffTypeOK
  BY TypeInit
<1> USE HandoffAssumption DEF Init, At, Asked, Rendered, Current
<1>2. FencesAreDistinct /\ AuthorsAreClaims /\ AnswersHold
  BY DEF FencesAreDistinct, AuthorsAreClaims, AnswersHold
<1>3. StoreInv
  BY DEF StoreInv, UsedIsLive, FenceIsNeverLost, RestoredIsLast, VerifiedStands,
     RegisteredStands, ItemHasArtifact, Resting
<1>4. CallersHoldPermit /\ SentOnce /\ OnRoute /\ PrivateIsOwn /\ CompletedIsArchived
  BY DEF CallersHoldPermit, SentOnce, Sent, OnRoute, Reviewing, Notifying, Publishing,
     PrivateIsOwn, CompletedIsArchived
<1> QED
  BY <1>1, <1>2, <1>3, <1>4 DEF IInv

\* Every step preserves it.
LEMMA InvStep == IInv /\ [Next]_vars => IInv'
<1> SUFFICES ASSUME IInv, [Next]_vars PROVE IInv'
  OBVIOUS
<1>1. HandoffTypeOK /\ FencesAreDistinct /\ AuthorsAreClaims /\ AnswersHold /\ StoreInv
      /\ CallersHoldPermit /\ SentOnce /\ OnRoute /\ PrivateIsOwn /\ CompletedIsArchived
  BY DEF IInv
<1>2. HandoffTypeOK'
  BY <1>1, AnyStep, StoreStep, RecordsStep DEF HandoffTypeOK
<1>3. FencesAreDistinct' /\ AuthorsAreClaims' /\ AnswersHold'
  BY <1>1, FencesStep, AuthorsStep, AnswersStep
<1>4. StoreInv'
  BY <1>1, StoreInvStep
<1>5. CallersHoldPermit' /\ SentOnce'
  BY <1>1, CallersStep, SentStep
<1>6. OnRoute' /\ PrivateIsOwn' /\ CompletedIsArchived'
  BY <1>1, OnRouteStep, PrivateStep, CompletedStep
<1> QED
  BY <1>2, <1>3, <1>4, <1>5, <1>6 DEF IInv

\* The inductive invariant of the handoff.
THEOREM HandoffInductive == Spec => []IInv
BY InvInit, InvStep, PTL DEF Spec

\* An outbox item always has its bytes, and its reference is live and used, in
\* every interleaving of commit, registration, creation and orphan cleanup.
THEOREM ItemKeepsArtifact == Spec => []ItemHasArtifact
<1>1. IInv => ItemHasArtifact
  BY DEF IInv, StoreInv
<1> QED
  BY <1>1, HandoffInductive, PTL

\* The cleanup's "artifact cleanup fence was lost" cannot be raised.
THEOREM CleanersKeepFence == Spec => []FenceIsNeverLost
<1>1. IInv => FenceIsNeverLost
  BY DEF IInv, StoreInv
<1> QED
  BY <1>1, HandoffInductive, PTL

\* On the direct path one delivery at most calls a provider.
THEOREM OneCallsProvider == Spec => []ProviderCalledByOne
<1>1. IInv => ProviderCalledByOne
  BY CallersAreOne DEF IInv
<1> QED
  BY <1>1, HandoffInductive, PTL

\* The initial notification is sent at most once, whoever sends it.
THEOREM HintedOnce == Spec => []HintedAtMostOnce
<1>1. IInv => HintedAtMostOnce
  BY DEF IInv, SentOnce, HintedAtMostOnce
<1> QED
  BY <1>1, HandoffInductive, PTL

\* A job that completed privately has an item of the file its author rendered.
THEOREM CompletedHasItem == Spec => []CompletedIsArchived
<1>1. IInv => CompletedIsArchived
  BY DEF IInv
<1> QED
  BY <1>1, HandoffInductive, PTL

\* In the item and in the manifest, a delivery replaces only what earlier claims
\* recorded, except that it may turn any verdict into a failure.
THEOREM AuthorsRise == Spec => AuthorsOnlyRise
<1>1. IInv /\ [Next]_vars =>
        [/\ item'.by >= item.by
         /\ verdict' # verdict => \/ verdict'.by > verdict.by
                                  \/ verdict' = [verdict EXCEPT !.status = "failed"]]_vars
  BY AuthorsStep DEF IInv
<1> QED
  BY <1>1, HandoffInductive, PTL DEF Spec, AuthorsOnlyRise

\* The handoff keeps custody of the file: one file, kept, never replaced nor deleted,
\* announced once or published by one, and complete only when it was handed over.
THEOREM HandoffKeepsCustody == Spec => CustodyImplemented
<1>1. IInv /\ [Next]_vars => [Handing!Next]_(Handing!vars)
  BY CustodyStep
<1> QED
  BY <1>1, CustodyInit, HandoffInductive, PTL DEF Spec, CustodyImplemented, Handing!Spec

=============================================================================
