--------------------------- MODULE DispatchProofs ---------------------------
(***************************************************************************)
(* Proofs about Dispatch, for every set of workers, providers and messages *)
(* and every value of the bounds.  What the repository guarantees to any   *)
(* client is in OutboxProofs; here is what it takes of the dispatcher.     *)
(***************************************************************************)
EXTENDS Dispatch, OutboxProofs, FiniteSetTheorems

-----------------------------------------------------------------------------
(* Types.                                                                  *)

\* The steps of an execution while it works on a leg, and of those the steps
\* of one mutation.
Walking == {"visit", "locate", "persist", "consume", "call", "sent", "accept",
            "doubt", "unknown", "raise", "read", "handover", "note",
            "playlist", "prove", "pend", "schedule"}

Mutating == {"persist", "consume", "call", "sent", "accept", "doubt"}

Steps == Walking \cup {"idle", "claim", "start", "list", "poison", "survey",
                       "pick", "release", "delete"}

Jobs == [pc : Steps, msg : Messages \cup {NoMessage}, final : BOOLEAN,
         todo : SUBSET Providers, active : SUBSET Providers,
         leg : Providers \cup {NoLeg}, op : Ops \cup {"none"},
         item : MaybeItem, stuck : BOOLEAN, seen : {"none", "hidden", "public"}]

Requests == [leg : Providers, op : Ops, intent : 1..MaxIntents, item : Items]

Asked == flight \cup done

DispatchTypeOK ==
  /\ TypeOK
  /\ msg \in [Messages -> [state : {"absent", "visible", "taken"},
                           dequeues : 0..MaxDequeue,
                           holder : Workers \cup {NoWorker}]]
  /\ hinted \in BOOLEAN
  /\ job \in [Workers -> Jobs]
  /\ flight \subseteq Requests
  /\ done \subseteq Requests
  /\ IsFiniteSet(flight)
  /\ IsFiniteSet(done)

-----------------------------------------------------------------------------
(* The strengthening.                                                      *)

\* w holds the claim of the document, though its lease may have run out.
Claimant(w) ==
  held[w].fence # 0 /\ claim.owner = w /\ claim.fence = held[w].fence

\* What an execution knows of its own leg.
JobIsSound ==
  \A w \in Workers :
    LET j == job[w]
    IN /\ j.leg # NoLeg <=> j.pc \in Walking
       /\ j.pc \in Mutating => j.op \in Ops
       /\ j.pc \in Mutating /\ j.op # "create" => j.seen # "none"
       /\ j.pc \in Mutating /\ j.op = "create" => j.seen = "none"
       /\ j.pc \in {"locate", "persist"} /\ j.seen = "none" => j.item = NoItem
       /\ j.pc \in {"visit", "locate"} => j.seen = "none"
       /\ j.pc \in {"note", "playlist"} => j.seen # "none"
       /\ j.pc = "prove" => j.seen = "public"
       /\ j.pc \notin Walking => j.seen = "none"
       /\ j.active # {} => j.pc = "survey"
       /\ j.todo \cap j.active = {}
       /\ j.leg \notin j.todo

\* What it saw at the provider is there.
SeenIsThere ==
  \A w \in Workers :
    /\ job[w].seen # "none" => job[w].item \in Made(job[w].leg)
    /\ job[w].seen = "public" => job[w].item \in Public(job[w].leg)

\* Intents are numbered in the order they were made.
IntentsAreNumbered ==
  /\ \A p \in Providers : legs[p].intent.id <= lastId
  /\ \A p, q \in Providers :
       legs[p].intent.id = legs[q].intent.id => p = q \/ legs[p].intent.id = 0
  /\ \A p \in Providers : \A k \in DOMAIN legs[p].receipts :
       /\ legs[p].receipts[k].intent <= lastId
       /\ \A q \in Providers : legs[p].receipts[k].intent = legs[q].intent.id =>
            p = q /\ legs[p].receipts[k].op = legs[p].intent.op

\* A request was sent for one intent, which nobody else was sent for, and which
\* had been consumed.
RequestsAreOwn ==
  /\ flight \cap done = {}
  /\ \A r, s \in Asked : r.intent = s.intent => r = s
  /\ \A r \in Asked : r.intent <= lastId
  /\ \A r \in Asked, p \in Providers : r.intent = legs[p].intent.id =>
       /\ r.leg = p
       /\ r.op = legs[p].intent.op
       /\ legs[p].intent.consumed # 0
  /\ \A r \in Asked : r.op = "publish" => r.item \in Made(r.leg)

\* What the claimant is about to do is what its leg's intent is for; its
\* request was not sent before, nor answered.
MutationIsFresh ==
  \A w \in Workers :
    LET p == job[w].leg
        mine == {r \in Asked : r.intent = legs[p].intent.id}
    IN Claimant(w) =>
         /\ job[w].pc \in Mutating \ {"persist"} =>
              ~claim.readOnly /\ legs[p].intent.op = job[w].op
         /\ job[w].pc \in {"consume", "call"} => ~Accepted(legs[p], job[w].op)
         /\ job[w].pc = "call" => mine = {}
         /\ job[w].pc = "sent" /\ job[w].op # "create" =>
              \A r \in mine : r.item = job[w].item
         /\ job[w].pc = "accept" => mine \cap done # {}

\* In the first attempt, every request but the one of the leg's intent has been
\* answered, and what was answered is not under way.
OthersAreAnswered ==
  /\ Last = 1 => \A r \in Asked :
       \/ r.intent = legs[r.leg].intent.id
       \/ \E k \in DOMAIN legs[r.leg].receipts :
            /\ legs[r.leg].receipts[k].intent = r.intent
            /\ legs[r.leg].receipts[k].accepted
  /\ \A p \in Providers : \A k \in DOMAIN legs[p].receipts :
       legs[p].receipts[k].accepted =>
         \A r \in flight : r.intent # legs[p].receipts[k].intent

\* A provider gets one create, in the first attempt; a later attempt has no
\* intent to create, because it is bound to an item.
CreatesAreOne ==
  /\ Last > 1 => \A p \in Providers : legs[p].intent.op # "create"
  /\ Last = 1 => \A r \in Asked : r.op = "create" =>
       r.intent = legs[r.leg].intent.id \/ Accepted(legs[r.leg], "create")
  /\ \A r, s \in Asked :
       r.op = "create" /\ s.op = "create" /\ r.leg = s.leg => r = s

\* A leg the claimant works on, or is going to, is not finished.
WalkIsOpen ==
  \A w \in Workers : Claimant(w) =>
    LET j == job[w]
    IN /\ j.leg # NoLeg => legs[j.leg].result \notin Finished
       /\ \A p \in j.active : legs[p].result \notin Finished
       /\ j.pc = "pick" \/ j.pc \in Walking =>
            \A p \in j.todo : legs[p].result \notin Finished
       /\ j.pc = "poison" =>
            \A p \in j.todo : legs[p].result \notin Preserved

\* The legs of an attempt that is over are as its end says, and a leg that is
\* found dead later is given up.
EndedAsClosed ==
  /\ Active.outcome = "failed_terminal" =>
       \A p \in Providers : legs[p].result \in {"failed_terminal", "poisoned"}
  /\ Active.outcome = "published_verified" =>
       \A p \in Providers : legs[p].result = "externally_verified_public"
  /\ \A k \in DOMAIN Active.readbacks :
       Active.readbacks[k].verif.result = "failed_terminal" =>
         legs[Active.readbacks[k].provider].result = "failed_terminal"

DInv ==
  /\ IInv
  /\ DispatchTypeOK
  /\ JobIsSound
  /\ SeenIsThere
  /\ IntentsAreNumbered
  /\ RequestsAreOwn
  /\ MutationIsFresh
  /\ OthersAreAnswered
  /\ CreatesAreOne
  /\ WalkIsOpen
  /\ VerifiedIsPublic
  /\ EndedAsClosed

-----------------------------------------------------------------------------
(* How a step changes what an execution is doing.                          *)

\* The step is one of w alone.
Turn(w) ==
  /\ job' \in [Workers -> Jobs]
  /\ \A v \in Workers : v # w => job'[v] = job[v]

\* w goes on with its leg.
OnLeg(w, pc, op, item, seen) ==
  /\ Turn(w)
  /\ job'[w].pc = pc
  /\ job'[w].leg = job[w].leg
  /\ job'[w].op = op
  /\ job'[w].item = item
  /\ job'[w].seen = seen
  /\ job'[w].todo = job[w].todo
  /\ job'[w].active = job[w].active

\* w works on no leg.
OffLeg(w, pc, todo, active) ==
  /\ Turn(w)
  /\ job'[w].pc = pc
  /\ job'[w].leg = NoLeg
  /\ job'[w].seen = "none"
  /\ job'[w].todo = todo
  /\ job'[w].active = active

\* w takes up the leg p.
Takes(w, p) ==
  /\ Turn(w)
  /\ job'[w].pc = "visit"
  /\ job'[w].leg = p
  /\ job'[w].seen = "none"
  /\ job'[w].todo = job[w].todo \ {p}
  /\ job'[w].active = job[w].active

\* The job of one execution is replaced.
LEMMA Replaced ==
  ASSUME job \in [Workers -> Jobs], NEW w \in Workers, NEW j \in Jobs,
         job' = [job EXCEPT ![w] = j]
  PROVE  Turn(w) /\ job'[w] = j
BY DEF Turn

\* The fields of a job.
LEMMA JobType ==
  ASSUME job \in [Workers -> Jobs], NEW w \in Workers
  PROVE  /\ job[w] \in Jobs
         /\ job[w].pc \in Steps
         /\ job[w].msg \in Messages \cup {NoMessage}
         /\ job[w].todo \subseteq Providers /\ job[w].active \subseteq Providers
         /\ job[w].leg \in Providers \cup {NoLeg}
         /\ job[w].op \in Ops \cup {"none"}
         /\ job[w].item \in MaybeItem
         /\ job[w].seen \in {"none", "hidden", "public"}
BY DEF Jobs

\* Only the step changes.
LEMMA GoToFacts ==
  ASSUME job \in [Workers -> Jobs], NEW w \in Workers, NEW step \in Steps,
         GoTo(w, step)
  PROVE  OnLeg(w, step, job[w].op, job[w].item, job[w].seen)
<1> DEFINE j == [job[w] EXCEPT !.pc = step]
<1>1. /\ j \in Jobs
      /\ j.pc = step /\ j.leg = job[w].leg /\ j.op = job[w].op
      /\ j.item = job[w].item /\ j.seen = job[w].seen
      /\ j.todo = job[w].todo /\ j.active = job[w].active
  BY JobType DEF Jobs
<1>2. job' = [job EXCEPT ![w] = j]
  BY DEF GoTo
<1> HIDE DEF j
<1> QED
  BY <1>1, <1>2, Replaced DEF OnLeg

\* The leg is done with.
LEMMA NextLegFacts ==
  ASSUME job \in [Workers -> Jobs], NEW w \in Workers, NextLeg(w)
  PROVE  OffLeg(w, "pick", job[w].todo, job[w].active)
<1> DEFINE j == [job[w] EXCEPT !.pc = "pick", !.leg = NoLeg, !.op = "none",
                               !.item = NoItem, !.stuck = FALSE, !.seen = "none"]
<1>1. /\ j \in Jobs
      /\ j.pc = "pick" /\ j.leg = NoLeg /\ j.seen = "none"
      /\ j.todo = job[w].todo /\ j.active = job[w].active
  BY ZenonT(30), JobType DEF Jobs, Steps, MaybeItem
<1>2. job' = [job EXCEPT ![w] = j]
  BY DEF NextLeg
<1> HIDE DEF j
<1> QED
  BY <1>1, <1>2, Replaced DEF OffLeg

\* Only the step and what is left to do change.
LEMMA OffLegFacts ==
  ASSUME job \in [Workers -> Jobs], NEW w \in Workers, NEW step \in Steps,
         NEW todo \in SUBSET Providers, NEW active \in SUBSET Providers,
         job[w].leg = NoLeg, job[w].seen = "none",
         job' = [job EXCEPT ![w].pc = step, ![w].todo = todo, ![w].active = active]
  PROVE  OffLeg(w, step, todo, active)
<1> DEFINE j == [job[w] EXCEPT !.pc = step, !.todo = todo, !.active = active]
<1>1. /\ j \in Jobs
      /\ j.pc = step /\ j.leg = NoLeg /\ j.seen = "none"
      /\ j.todo = todo /\ j.active = active
  BY ZenonT(30), JobType DEF Jobs
<1>2. job' = [job EXCEPT ![w] = j]
  OBVIOUS
<1> HIDE DEF j
<1> QED
  BY <1>1, <1>2, Replaced DEF OffLeg

\* Nothing is left in hand.
LEMMA IdleFacts ==
  ASSUME job \in [Workers -> Jobs], NEW w \in Workers, job' = [job EXCEPT ![w] = Idle]
  PROVE  OffLeg(w, "idle", {}, {})
<1>1. Idle \in Jobs
  BY DEF Idle, Jobs, Steps, MaybeItem
<1> QED
  BY <1>1, Replaced DEF OffLeg, Idle

\* Where the walk goes once the item is in its playlist.
LEMMA PromotingFacts ==
  ASSUME job \in [Workers -> Jobs], NEW w \in Workers,
         job' = [job EXCEPT ![w] = Promoting(w)]
  PROVE  \/ /\ job[w].seen = "public"
            /\ OnLeg(w, "prove", job[w].op, job[w].item, job[w].seen)
         \/ /\ job[w].seen # "public"
            /\ OnLeg(w, "persist", "publish", job[w].item, job[w].seen)
<1>1. CASE job[w].seen = "public"
  <2>1. GoTo(w, "prove")
    BY <1>1 DEF Promoting, GoTo
  <2> QED
    BY <1>1, <2>1, GoToFacts DEF Steps, Walking
<1>2. CASE job[w].seen # "public"
  <2> DEFINE j == [job[w] EXCEPT !.pc = "persist", !.op = "publish"]
  <2>0. "publish" \in Ops
    BY DispatchAssumption
  <2>1. /\ j \in Jobs
        /\ j.pc = "persist" /\ j.leg = job[w].leg /\ j.op = "publish"
        /\ j.item = job[w].item /\ j.seen = job[w].seen
        /\ j.todo = job[w].todo /\ j.active = job[w].active
    BY ZenonT(30), <2>0, JobType DEF Jobs, Steps, Walking
  <2>2. job' = [job EXCEPT ![w] = j]
    BY <1>2 DEF Promoting
  <2> HIDE DEF j
  <2> QED
    BY <1>2, <2>1, <2>2, Replaced DEF OnLeg
<1> QED
  BY <1>1, <1>2

\* Where it goes once an operation succeeded.
LEMMA MutatedFacts ==
  ASSUME job \in [Workers -> Jobs], NEW w \in Workers, NEW item \in MaybeItem,
         job' = [job EXCEPT ![w] = Mutated(w, item)]
  PROVE  \/ /\ job[w].op # "insert"
            /\ OnLeg(w, "read", job[w].op, item, job[w].seen)
         \/ /\ job[w].op = "insert"
            /\ job[w].seen = "public"
            /\ OnLeg(w, "prove", job[w].op, job[w].item, job[w].seen)
         \/ /\ job[w].op = "insert"
            /\ job[w].seen # "public"
            /\ OnLeg(w, "persist", "publish", job[w].item, job[w].seen)
<1>1. CASE job[w].op = "insert"
  BY <1>1, PromotingFacts DEF Mutated
<1>2. CASE job[w].op # "insert"
  <2> DEFINE j == [job[w] EXCEPT !.pc = "read", !.item = item]
  <2>1. /\ j \in Jobs
        /\ j.pc = "read" /\ j.leg = job[w].leg /\ j.op = job[w].op
        /\ j.item = item /\ j.seen = job[w].seen
        /\ j.todo = job[w].todo /\ j.active = job[w].active
    BY ZenonT(30), JobType DEF Jobs, Steps, Walking
  <2>2. job' = [job EXCEPT ![w] = j]
    BY <1>2 DEF Mutated
  <2> HIDE DEF j
  <2> QED
    BY <1>2, <2>1, <2>2, Replaced DEF OnLeg
<1> QED
  BY <1>1, <1>2

\* The leg of an execution that walks.
LEMMA WalkingLeg ==
  ASSUME DispatchTypeOK, JobIsSound, NEW w \in Workers
  PROVE  /\ job[w].pc \in Walking => job[w].leg \in Providers
         /\ job[w].pc \notin Walking => job[w].leg = NoLeg /\ job[w].seen = "none"
<1>1. job[w].leg \in Providers \cup {NoLeg}
  BY JobType DEF DispatchTypeOK
<1> QED
  BY <1>1 DEF JobIsSound

\* What the search for the item finds is an item of the provider.
LEMMA MadeItems ==
  ASSUME DispatchTypeOK, NEW p
  PROVE  Made(p) \subseteq Items /\ Public(p) \subseteq Items
BY DEF DispatchTypeOK, Made, Public, Requests

\* The start of a walk over one leg.
VisitMoves(w) ==
  \/ job[w].item = NoItem /\ OnLeg(w, "locate", job[w].op, job[w].item, job[w].seen)
  \/ job[w].item # NoItem /\ OnLeg(w, "read", job[w].op, job[w].item, job[w].seen)
  \/ OffLeg(w, "pick", job[w].todo, job[w].active)

\* Visit finds the item's identity, or none, or hands the leg over.
LEMMA VisitFacts ==
  ASSUME DispatchTypeOK, NEW w \in Workers, NEW enabled \in BOOLEAN, Visit(w, enabled)
  PROVE  job[w].pc = "visit" /\ VisitMoves(w)
<1>1. job \in [Workers -> Jobs]
  BY DEF DispatchTypeOK
<1>2. job[w].pc = "visit"
  BY DEF Visit, At
<1>3. \/ GoTo(w, IF job[w].item = NoItem THEN "locate" ELSE "read")
      \/ NextLeg(w)
  BY DEF Visit
<1>4. "locate" \in Steps /\ "read" \in Steps
  BY DEF Steps, Walking
<1>5. CASE job[w].item = NoItem /\ GoTo(w, "locate")
  BY <1>1, <1>2, <1>4, <1>5, GoToFacts DEF VisitMoves
<1>6. CASE job[w].item # NoItem /\ GoTo(w, "read")
  BY <1>1, <1>2, <1>4, <1>6, GoToFacts DEF VisitMoves
<1>7. CASE NextLeg(w)
  BY <1>1, <1>2, <1>7, NextLegFacts DEF VisitMoves
<1> QED
  BY <1>3, <1>5, <1>6, <1>7

LocateMoves(w) ==
  \/ \E i \in Made(job[w].leg) : OnLeg(w, "read", job[w].op, i, job[w].seen)
  \/ OnLeg(w, "persist", "create", job[w].item, job[w].seen)
  \/ OffLeg(w, "pick", job[w].todo, job[w].active)

\* Locate finds an item the provider has, creates one, or gives up.
LEMMA LocateFacts ==
  ASSUME DispatchTypeOK, NEW w \in Workers, Locate(w)
  PROVE  job[w].pc = "locate" /\ LocateMoves(w)
<1>1. job \in [Workers -> Jobs]
  BY DEF DispatchTypeOK
<1>2. job[w].pc = "locate"
  BY DEF Locate, At
<1>3. ASSUME NEW i \in Made(job[w].leg),
             job' = [job EXCEPT ![w].pc = "read", ![w].item = i]
      PROVE  OnLeg(w, "read", job[w].op, i, job[w].seen)
  <2> DEFINE j == [job[w] EXCEPT !.pc = "read", !.item = i]
  <2>1. i \in MaybeItem
    BY MadeItems DEF MaybeItem
  <2>2. /\ j \in Jobs
        /\ j.pc = "read" /\ j.leg = job[w].leg /\ j.op = job[w].op
        /\ j.item = i /\ j.seen = job[w].seen
        /\ j.todo = job[w].todo /\ j.active = job[w].active
    BY ZenonT(30), <1>1, <2>1, JobType DEF Jobs, Steps, Walking
  <2>3. job' = [job EXCEPT ![w] = j]
    BY <1>3
  <2> HIDE DEF j
  <2> QED
    BY <1>1, <2>2, <2>3, Replaced DEF OnLeg
<1>4. ASSUME job' = [job EXCEPT ![w].pc = "persist", ![w].op = "create"]
      PROVE  OnLeg(w, "persist", "create", job[w].item, job[w].seen)
  <2> DEFINE j == [job[w] EXCEPT !.pc = "persist", !.op = "create"]
  <2>1. "create" \in Ops
    BY DispatchAssumption
  <2>2. /\ j \in Jobs
        /\ j.pc = "persist" /\ j.leg = job[w].leg /\ j.op = "create"
        /\ j.item = job[w].item /\ j.seen = job[w].seen
        /\ j.todo = job[w].todo /\ j.active = job[w].active
    BY ZenonT(30), <1>1, <2>1, JobType DEF Jobs, Steps, Walking
  <2>3. job' = [job EXCEPT ![w] = j]
    BY <1>4
  <2> HIDE DEF j
  <2> QED
    BY <1>1, <2>2, <2>3, Replaced DEF OnLeg
<1>5. CASE NextLeg(w)
  BY <1>1, <1>2, <1>5, NextLegFacts DEF LocateMoves
<1> QED
  BY <1>2, <1>3, <1>4, <1>5 DEF Locate, LocateMoves

\* Where the walk goes after an operation that is known to have succeeded.
MutatedMoves(w, item) ==
  \/ /\ job[w].op # "insert"
     /\ OnLeg(w, "read", job[w].op, item, job[w].seen)
  \/ /\ job[w].op = "insert"
     /\ job[w].seen = "public"
     /\ OnLeg(w, "prove", job[w].op, job[w].item, job[w].seen)
  \/ /\ job[w].op = "insert"
     /\ job[w].seen # "public"
     /\ OnLeg(w, "persist", "publish", job[w].item, job[w].seen)

\* The steps of mutate.
LEMMA PersistFacts ==
  ASSUME DispatchTypeOK, NEW w \in Workers, Persist(w)
  PROVE  /\ job[w].pc = "persist"
         /\ \/ /\ MutatedMoves(w, job[w].item)
               /\ UNCHANGED vars
            \/ /\ OnLeg(w, "consume", job[w].op, job[w].item, job[w].seen)
               /\ RequireMutation(w)
               /\ ~Accepted(legs[job[w].leg], job[w].op)
               /\ \/ UNCHANGED vars /\ legs[job[w].leg].intent.op = job[w].op
                  \/ PersistIntent(w, job[w].leg, job[w].op, job[w].item)
<1>1. job \in [Workers -> Jobs] /\ job[w].item \in MaybeItem
  BY JobType DEF DispatchTypeOK
<1>2. job[w].pc = "persist"
  BY DEF Persist, At
<1>3. CASE job' = [job EXCEPT ![w] = Mutated(w, job[w].item)] /\ UNCHANGED vars
  BY <1>1, <1>2, <1>3, MutatedFacts DEF MutatedMoves
<1>4. ASSUME GoTo(w, "consume")
      PROVE  OnLeg(w, "consume", job[w].op, job[w].item, job[w].seen)
  BY <1>1, <1>4, GoToFacts DEF Steps, Walking
<1>5. CASE /\ ~Accepted(legs[job[w].leg], job[w].op)
           /\ legs[job[w].leg].intent.op = job[w].op
           /\ RequireMutation(w)
           /\ GoTo(w, "consume")
           /\ UNCHANGED vars
  BY <1>2, <1>4, <1>5
<1>6. CASE /\ ~Accepted(legs[job[w].leg], job[w].op)
           /\ PersistIntent(w, job[w].leg, job[w].op, job[w].item)
           /\ GoTo(w, "consume")
  BY <1>2, <1>4, <1>6 DEF PersistIntent
<1> QED
  BY <1>3, <1>5, <1>6 DEF Persist

\* The intent is consumed before the call.
LEMMA ConsumeFacts ==
  ASSUME DispatchTypeOK, NEW w \in Workers, Consume(w)
  PROVE  /\ job[w].pc = "consume"
         /\ OnLeg(w, "call", job[w].op, job[w].item, job[w].seen)
BY GoToFacts DEF Consume, At, DispatchTypeOK, Steps, Walking

\* The request leaves.
LEMMA SendFacts ==
  ASSUME DispatchTypeOK, NEW w \in Workers, Send(w)
  PROVE  /\ job[w].pc = "call"
         /\ OnLeg(w, "sent", job[w].op, job[w].item, job[w].seen)
BY GoToFacts DEF Send, At, DispatchTypeOK, Steps, Walking

\* A confirmed answer is one to this intent, under a claim that may mutate.
LEMMA ConfirmFacts ==
  ASSUME DispatchTypeOK, NEW w \in Workers, Confirm(w)
  PROVE  /\ job[w].pc = "sent"
         /\ RequireMutation(w)
         /\ \E r \in done :
              /\ r.leg = job[w].leg /\ r.op = job[w].op
              /\ r.intent = legs[job[w].leg].intent.id
              /\ OnLeg(w, "accept", job[w].op, r.item, job[w].seen)
<1>1. job \in [Workers -> Jobs]
  BY DEF DispatchTypeOK
<1>2. PICK r \in done :
        /\ r.leg = job[w].leg /\ r.op = job[w].op
        /\ r.intent = legs[job[w].leg].intent.id
        /\ job' = [job EXCEPT ![w].pc = "accept", ![w].item = r.item]
  BY DEF Confirm
<1> DEFINE j == [job[w] EXCEPT !.pc = "accept", !.item = r.item]
<1>3. r.item \in MaybeItem
  BY DEF DispatchTypeOK, Requests, MaybeItem
<1>4. /\ j \in Jobs
      /\ j.pc = "accept" /\ j.leg = job[w].leg /\ j.op = job[w].op
      /\ j.item = r.item /\ j.seen = job[w].seen
      /\ j.todo = job[w].todo /\ j.active = job[w].active
  BY ZenonT(30), <1>1, <1>3, JobType DEF Jobs, Steps, Walking
<1>5. job' = [job EXCEPT ![w] = j]
  BY <1>2
<1> HIDE DEF j
<1>6. OnLeg(w, "accept", job[w].op, r.item, job[w].seen)
  BY <1>1, <1>4, <1>5, Replaced DEF OnLeg
<1> QED
  BY <1>2, <1>6 DEF Confirm, At, MayMutate

\* A call that raised is in doubt.
LEMMA MisfireFacts ==
  ASSUME DispatchTypeOK, NEW w \in Workers, Misfire(w)
  PROVE  /\ job[w].pc \in {"call", "sent"}
         /\ OnLeg(w, "doubt", job[w].op, job[w].item, job[w].seen)
BY GoToFacts DEF Misfire, DispatchTypeOK, Steps, Walking

\* An accepted receipt lets the walk go on.
LEMMA AcceptFacts ==
  ASSUME DispatchTypeOK, NEW w \in Workers, Accept(w)
  PROVE  job[w].pc = "accept" /\ MutatedMoves(w, job[w].item)
<1>1. job \in [Workers -> Jobs] /\ job[w].item \in MaybeItem
  BY JobType DEF DispatchTypeOK
<1> QED
  BY <1>1, MutatedFacts DEF Accept, At, MutatedMoves

\* A receipt in doubt ends in an exception.
LEMMA DoubtFacts ==
  ASSUME DispatchTypeOK, NEW w \in Workers
  PROVE  /\ Doubt(w) => /\ job[w].pc = "doubt"
                        /\ OnLeg(w, "unknown", job[w].op, job[w].item, job[w].seen)
         /\ Unknown(w) => /\ job[w].pc = "unknown"
                          /\ OnLeg(w, "raise", job[w].op, job[w].item, job[w].seen)
BY GoToFacts DEF Doubt, Unknown, At, DispatchTypeOK, Steps, Walking

\* What a readback may lead to.
ReadMoves(w) ==
  \E step \in {"pend", "prove", "playlist", "note", "handover", "persist"},
     seen \in {"hidden", "public"} :
    /\ job[w].item \in Made(job[w].leg)
    /\ seen = "public" => job[w].item \in Public(job[w].leg)
    /\ step = "prove" => seen = "public"
    /\ OnLeg(w, step, IF step = "persist" THEN "publish" ELSE job[w].op,
             job[w].item, seen)

\* Read goes on to what the readback allows.
LEMMA ReadFacts ==
  ASSUME DispatchTypeOK, NEW w \in Workers, Read(w)
  PROVE  job[w].pc = "read" /\ ReadMoves(w)
<1>1. job \in [Workers -> Jobs]
  BY DEF DispatchTypeOK
<1>0. PICK public \in {FALSE, job[w].item \in Public(job[w].leg)} :
        \E step \in AfterRead(w, job[w].leg, public) :
          job' = [job EXCEPT ![w].pc = step,
                    ![w].op = IF step = "persist" THEN "publish" ELSE @,
                    ![w].seen = IF public THEN "public" ELSE "hidden"]
  BY DEF Read
<1>2. PICK step \in AfterRead(w, job[w].leg, public) :
        job' = [job EXCEPT ![w].pc = step,
                  ![w].op = IF step = "persist" THEN "publish" ELSE @,
                  ![w].seen = IF public THEN "public" ELSE "hidden"]
  BY <1>0
<1>3. /\ step \in {"pend", "prove", "playlist", "note", "handover", "persist"}
      /\ step = "prove" => public
  BY <1>2 DEF AfterRead
<1> DEFINE op == IF step = "persist" THEN "publish" ELSE job[w].op
           seen == IF public THEN "public" ELSE "hidden"
           j == [job[w] EXCEPT !.pc = step, !.op = op, !.seen = seen]
<1>4. "publish" \in Ops
  BY DispatchAssumption
<1>5. op \in Ops \cup {"none"} /\ seen \in {"hidden", "public"}
  BY <1>1, <1>4, JobType
<1>6. job' = [job EXCEPT ![w] = j]
  BY <1>1, <1>2 DEF Jobs
<1> HIDE DEF op, seen
<1>12. step \in Steps
  BY <1>3 DEF Steps, Walking
<1>7. /\ j \in Jobs
      /\ j.pc = step /\ j.leg = job[w].leg /\ j.op = op
      /\ j.item = job[w].item /\ j.seen = seen
      /\ j.todo = job[w].todo /\ j.active = job[w].active
  <2>1. job[w] \in Jobs
    BY <1>1
  <2> QED
    BY <2>1, <1>5, <1>12 DEF Jobs
<1> HIDE DEF j
<1>8. OnLeg(w, step, op, job[w].item, seen)
  BY <1>1, <1>6, <1>7, Replaced DEF OnLeg
<1>9. seen = "public" => public
  BY DEF seen
<1>10. job[w].item \in Made(job[w].leg) /\ job[w].pc = "read"
  BY DEF Read, At
<1>11. public => job[w].item \in Public(job[w].leg)
  BY <1>0
<1> QED
  BY <1>3, <1>5, <1>8, <1>9, <1>10, <1>11 DEF ReadMoves, op, seen

PlaylistMoves(w) ==
  \/ OnLeg(w, "persist", "insert", job[w].item, job[w].seen)
  \/ /\ job[w].seen = "public"
     /\ OnLeg(w, "prove", job[w].op, job[w].item, job[w].seen)
  \/ /\ job[w].seen # "public"
     /\ OnLeg(w, "persist", "publish", job[w].item, job[w].seen)

\* Playlist inserts the item, or goes on to promote it.
LEMMA PlaylistFacts ==
  ASSUME DispatchTypeOK, NEW w \in Workers, Playlist(w)
  PROVE  job[w].pc = "playlist" /\ PlaylistMoves(w)
<1>1. job \in [Workers -> Jobs]
  BY DEF DispatchTypeOK
<1>2. CASE job' = [job EXCEPT ![w] = [@ EXCEPT !.pc = "persist", !.op = "insert"]]
  <2> DEFINE j == [job[w] EXCEPT !.pc = "persist", !.op = "insert"]
  <2>1. "insert" \in Ops
    BY DispatchAssumption
  <2>2. /\ j \in Jobs
        /\ j.pc = "persist" /\ j.leg = job[w].leg /\ j.op = "insert"
        /\ j.item = job[w].item /\ j.seen = job[w].seen
        /\ j.todo = job[w].todo /\ j.active = job[w].active
    BY ZenonT(30), <1>1, <2>1, JobType DEF Jobs, Steps, Walking
  <2>3. job' = [job EXCEPT ![w] = j]
    BY <1>2
  <2> HIDE DEF j
  <2> QED
    BY <1>1, <2>2, <2>3, Replaced DEF OnLeg, PlaylistMoves, Playlist, At
<1>3. CASE job' = [job EXCEPT ![w] = Promoting(w)]
  BY <1>1, <1>3, PromotingFacts DEF PlaylistMoves, Playlist, At
<1> QED
  BY <1>2, <1>3 DEF Playlist

\* The other steps of a walk.
LEMMA EndFacts ==
  ASSUME DispatchTypeOK, NEW w \in Workers
  PROVE  /\ HandOver(w) => /\ job[w].pc = "handover"
                           /\ OffLeg(w, "pick", job[w].todo, job[w].active)
         /\ Prove(w) => /\ job[w].pc = "prove"
                        /\ OffLeg(w, "pick", job[w].todo, job[w].active)
         /\ \A beyond \in BOOLEAN : Schedule(w, beyond) =>
              /\ job[w].pc = "schedule"
              /\ OffLeg(w, "pick", job[w].todo, job[w].active)
BY NextLegFacts DEF HandOver, Prove, Schedule, At, DispatchTypeOK

\* A pending readback is scheduled, or noted before the promotion.
LEMMA PendFacts ==
  ASSUME DispatchTypeOK, NEW w \in Workers
  PROVE  /\ Pend(w) => /\ job[w].pc = "pend"
                       /\ OnLeg(w, "schedule", job[w].op, job[w].item, job[w].seen)
         /\ Note(w) => /\ job[w].pc = "note"
                       /\ \E step \in {"schedule", "playlist"} :
                            OnLeg(w, step, job[w].op, job[w].item, job[w].seen)
<1>1. job \in [Workers -> Jobs]
  BY DEF DispatchTypeOK
<1>2. "schedule" \in Steps /\ "playlist" \in Steps
  BY DEF Steps, Walking
<1>3. ASSUME Note(w)
      PROVE  \E step \in {"schedule", "playlist"} : GoTo(w, step)
  BY <1>3 DEF Note
<1> QED
  BY <1>1, <1>2, <1>3, GoToFacts DEF Pend, Note, At

\* The steps outside a walk over a leg.
LEMMA StartFacts ==
  ASSUME DispatchTypeOK, JobIsSound, NEW w \in Workers, NEW enabled \in BOOLEAN,
         Start(w, enabled)
  PROVE  /\ job[w].pc = "start"
         /\ \E step \in {"list", "survey", "release"} :
              OffLeg(w, step, Providers, job[w].active)
<1>1. job \in [Workers -> Jobs]
  BY DEF DispatchTypeOK
<1>2. job[w].pc = "start"
  BY DEF Start, At
<1>3. job[w].leg = NoLeg /\ job[w].seen = "none"
  BY <1>2, WalkingLeg DEF Walking
<1> DEFINE step == IF job[w].final THEN "list"
                   ELSE IF enabled /\ review # "absent" THEN "survey" ELSE "release"
<1>4. job' = [job EXCEPT ![w].pc = step, ![w].todo = Providers]
  BY DEF Start
<1>5. step \in {"list", "survey", "release"} /\ step \in Steps
  BY DEF Steps
<1> HIDE DEF step
<1> DEFINE j == [job[w] EXCEPT !.pc = step, !.todo = Providers]
<1>6. /\ j \in Jobs
      /\ j.pc = step /\ j.leg = NoLeg /\ j.seen = "none"
      /\ j.todo = Providers /\ j.active = job[w].active
  BY ZenonT(30), <1>1, <1>3, <1>5, JobType DEF Jobs
<1>7. job' = [job EXCEPT ![w] = j]
  BY <1>1, <1>4
<1> HIDE DEF j
<1> QED
  BY <1>1, <1>2, <1>5, <1>6, <1>7, Replaced DEF OffLeg

\* Poisoning goes over the legs listed, one by one.
LEMMA PoisonFacts ==
  ASSUME DispatchTypeOK, JobIsSound, NEW w \in Workers
  PROVE  /\ ListPoisoned(w) =>
              /\ job[w].pc = "list"
              /\ OffLeg(w, "poison", {p \in Providers : legs[p].result \notin Preserved},
                        job[w].active)
         /\ \A p \in Providers : PoisonLeg(w, p) =>
              /\ job[w].pc = "poison"
              /\ OffLeg(w, "poison", job[w].todo \ {p}, job[w].active)
<1>1. job \in [Workers -> Jobs]
  BY DEF DispatchTypeOK
<1>2. job[w].pc \in {"list", "poison"} => job[w].leg = NoLeg /\ job[w].seen = "none"
  BY WalkingLeg DEF Walking
<1>3. ASSUME NEW todo \in SUBSET Providers, job[w].pc \in {"list", "poison"},
             job' = [job EXCEPT ![w] = [job[w] EXCEPT !.pc = "poison", !.todo = todo]]
      PROVE  OffLeg(w, "poison", todo, job[w].active)
  <2> DEFINE j == [job[w] EXCEPT !.pc = "poison", !.todo = todo]
  <2>1. /\ j \in Jobs
        /\ j.pc = "poison" /\ j.leg = NoLeg /\ j.seen = "none"
        /\ j.todo = todo /\ j.active = job[w].active
    BY <1>1, <1>2, <1>3, JobType DEF Jobs, Steps
  <2>2. job' = [job EXCEPT ![w] = j]
    BY <1>3
  <2> HIDE DEF j
  <2> QED
    BY <1>1, <2>1, <2>2, Replaced DEF OffLeg
<1>4. ASSUME ListPoisoned(w)
      PROVE  /\ job[w].pc = "list"
             /\ OffLeg(w, "poison", {p \in Providers : legs[p].result \notin Preserved},
                       job[w].active)
  <2> DEFINE todo == {p \in Providers : legs[p].result \notin Preserved}
  <2>1. job[w].pc = "list" /\ todo \in SUBSET Providers
    BY <1>4 DEF ListPoisoned, At
  <2>2. job' = [job EXCEPT ![w] = [job[w] EXCEPT !.pc = "poison", !.todo = todo]]
    BY <1>4 DEF ListPoisoned
  <2> HIDE DEF todo
  <2>3. OffLeg(w, "poison", todo, job[w].active)
    BY <1>3, <2>1, <2>2
  <2> QED
    BY <2>1, <2>3 DEF todo
<1>5. ASSUME NEW p \in Providers, PoisonLeg(w, p)
      PROVE  /\ job[w].pc = "poison"
             /\ OffLeg(w, "poison", job[w].todo \ {p}, job[w].active)
  <2> DEFINE todo == job[w].todo \ {p}
  <2>1. job[w].pc = "poison" /\ todo \in SUBSET Providers
    BY <1>1, <1>5, JobType DEF PoisonLeg, At
  <2>2. job' = [job EXCEPT ![w] = [job[w] EXCEPT !.todo = todo]]
    BY <1>5 DEF PoisonLeg
  <2> HIDE DEF todo
  <2>3. [job[w] EXCEPT !.todo = todo] = [job[w] EXCEPT !.pc = "poison", !.todo = todo]
    BY <1>1, <2>1, JobType DEF Jobs
  <2>4. OffLeg(w, "poison", todo, job[w].active)
    BY <1>3, <2>1, <2>2, <2>3
  <2> QED
    BY <2>1, <2>4 DEF todo
<1> QED
  BY <1>4, <1>5

\* A delivery starts and ends with no leg in hand.
LEMMA DeliveryFacts ==
  ASSUME DispatchTypeOK, JobIsSound, NEW w \in Workers
  PROVE  /\ \A m \in Messages : Receive(w, m) => OffLeg(w, "claim", {}, {})
         /\ TakeClaim(w) =>
              /\ job[w].pc = "claim"
              /\ \/ Claim(w) /\ OffLeg(w, "start", job[w].todo, job[w].active)
                 \/ UNCHANGED vars /\ OffLeg(w, "idle", {}, {})
         /\ Finish(w) => OffLeg(w, "delete", job[w].todo, job[w].active)
         /\ DeleteMessage(w) => OffLeg(w, "idle", {}, {})
         /\ Abandon(w) => OffLeg(w, "idle", {}, {})
<1>1. job \in [Workers -> Jobs]
  BY DEF DispatchTypeOK
<1>2. ASSUME NEW step \in Steps \ Walking, job[w].pc \notin Walking, GoTo(w, step)
      PROVE  OffLeg(w, step, job[w].todo, job[w].active)
  <2>1. job[w].leg = NoLeg /\ job[w].seen = "none"
    BY <1>2, WalkingLeg
  <2>2. OnLeg(w, step, job[w].op, job[w].item, job[w].seen)
    BY <1>1, <1>2, GoToFacts
  <2> QED
    BY <2>1, <2>2 DEF OnLeg, OffLeg
<1>3. ASSUME NEW m \in Messages, Receive(w, m)
      PROVE  OffLeg(w, "claim", {}, {})
  <2>1. PICK f \in BOOLEAN :
          job' = [job EXCEPT ![w] = [Idle EXCEPT !.pc = "claim", !.msg = m, !.final = f]]
    BY <1>3 DEF Receive
  <2> DEFINE j == [Idle EXCEPT !.pc = "claim", !.msg = m, !.final = f]
  <2>2. j \in Jobs /\ j.pc = "claim" /\ j.leg = NoLeg /\ j.seen = "none"
        /\ j.todo = {} /\ j.active = {}
    BY DEF Idle, Jobs, Steps, MaybeItem
  <2>3. job' = [job EXCEPT ![w] = j]
    BY <2>1
  <2> HIDE DEF j
  <2> QED
    BY <1>1, <2>2, <2>3, Replaced DEF OffLeg
<1>4. ASSUME TakeClaim(w)
      PROVE  /\ job[w].pc = "claim"
             /\ \/ Claim(w) /\ OffLeg(w, "start", job[w].todo, job[w].active)
                \/ UNCHANGED vars /\ OffLeg(w, "idle", {}, {})
  <2>1. job[w].pc = "claim" /\ "start" \in Steps \ Walking /\ "claim" \notin Walking
    BY <1>4 DEF TakeClaim, At, Steps, Walking
  <2>2. CASE Claim(w) /\ GoTo(w, "start")
    BY <1>2, <2>1, <2>2
  <2>3. CASE job' = [job EXCEPT ![w] = Idle] /\ UNCHANGED vars
    BY <1>1, <2>1, <2>3, IdleFacts
  <2> QED
    BY <1>4, <2>2, <2>3 DEF TakeClaim
<1>5. ASSUME Finish(w)
      PROVE  OffLeg(w, "delete", job[w].todo, job[w].active)
  <2>1. job[w].pc \notin Walking /\ "delete" \in Steps \ Walking /\ GoTo(w, "delete")
    BY <1>5 DEF Finish, At, Steps, Walking
  <2> QED
    BY <1>2, <2>1
<1>6. DeleteMessage(w) \/ Abandon(w) => OffLeg(w, "idle", {}, {})
  BY <1>1, IdleFacts DEF DeleteMessage, Abandon
<1> QED
  BY <1>3, <1>4, <1>5, <1>6

SurveyMoves(w, p) ==
  \E found \in SUBSET {p} :
    /\ \A q \in found : legs[q].result \notin Finished
    /\ found # {} => UNCHANGED vars
    /\ \/ OffLeg(w, "pick", job[w].active \cup found, {})
       \/ OffLeg(w, "survey", job[w].todo \ {p}, job[w].active \cup found)

\* A survey keeps the legs it finds unfinished, and works on none.
LEMMA SurveyFacts ==
  ASSUME DispatchTypeOK, JobIsSound, NEW w \in Workers, NEW p \in Providers, Survey(w, p)
  PROVE  /\ job[w].pc = "survey"
         /\ p \in job[w].todo
         /\ RequireClaim(w)
         /\ SurveyMoves(w, p)
         /\ \/ UNCHANGED vars
            \/ /\ ScheduleReconciliation(w, p, FALSE)
               /\ legs[p].result \notin Finished
<1>1. job \in [Workers -> Jobs]
  BY DEF DispatchTypeOK
<1>2. job[w].pc = "survey"
  BY DEF Survey, At
<1>3. job[w].leg = NoLeg /\ job[w].seen = "none"
  BY <1>2, WalkingLeg DEF Walking
<1>4. PICK found \in {{}, {p}} :
        /\ Surveyed(w, p, found)
        /\ \A q \in found : legs[q].result \notin Finished
        /\ found # {} => UNCHANGED vars
  BY DEF Survey
<1> DEFINE left == job[w].todo \ {p}
           active == job[w].active \cup found
<1>5. left \in SUBSET Providers /\ active \in SUBSET Providers /\ found \in SUBSET {p}
      /\ {} \in SUBSET Providers
  BY <1>1, <1>4, JobType
<1>6. CASE left = {}
  <2>1. job' = [job EXCEPT ![w].pc = "pick", ![w].todo = active, ![w].active = {}]
    BY <1>4, <1>6 DEF Surveyed
  <2>2. "pick" \in Steps
    BY DEF Steps
  <2> HIDE DEF active, left
  <2>3. OffLeg(w, "pick", active, {})
    BY <1>1, <1>3, <1>5, <2>1, <2>2, OffLegFacts
  <2> QED
    BY <1>2, <1>4, <1>5, <2>3 DEF SurveyMoves, active, Survey
<1>7. CASE left # {}
  <2>1. job' = [job EXCEPT ![w].pc = "survey", ![w].todo = left, ![w].active = active]
    BY <1>4, <1>7 DEF Surveyed
  <2>2. "survey" \in Steps
    BY DEF Steps
  <2> HIDE DEF active, left
  <2>3. OffLeg(w, "survey", left, active)
    BY <1>1, <1>3, <1>5, <2>1, <2>2, OffLegFacts
  <2> QED
    BY <1>2, <1>4, <1>5, <2>3 DEF SurveyMoves, active, left, Survey
<1> QED
  BY <1>6, <1>7

\* The walk takes a leg of its list, or skips it.
LEMMA PickFacts ==
  ASSUME DispatchTypeOK, JobIsSound, NEW w \in Workers, NEW p \in Providers, PickLeg(w, p)
  PROVE  /\ job[w].pc = "pick"
         /\ p \in job[w].todo
         /\ OffLeg(w, "pick", job[w].todo \ {p}, job[w].active) \/ Takes(w, p)
         /\ UNCHANGED vars \/ ConsumeScheduleToken(w, p)
<1>1. job \in [Workers -> Jobs]
  BY DEF DispatchTypeOK
<1>2. job[w].pc = "pick" /\ p \in job[w].todo
  BY DEF PickLeg, At
<1>3. job[w].leg = NoLeg /\ job[w].seen = "none"
  BY <1>2, WalkingLeg DEF Walking
<1>4. CASE job' = [job EXCEPT ![w].todo = @ \ {p}]
  <2> DEFINE j == [job[w] EXCEPT !.todo = job[w].todo \ {p}]
  <2>1. /\ j \in Jobs
        /\ j.pc = "pick" /\ j.leg = NoLeg /\ j.seen = "none"
        /\ j.todo = job[w].todo \ {p} /\ j.active = job[w].active
    BY <1>1, <1>2, <1>3, JobType DEF Jobs
  <2>2. job' = [job EXCEPT ![w] = j]
    BY <1>1, <1>4 DEF Jobs
  <2> HIDE DEF j
  <2> QED
    BY <1>1, <1>2, <2>1, <2>2, Replaced DEF OffLeg, PickLeg
<1>5. CASE Visiting(w, p)
  <2> DEFINE ids == ProviderIds(legs[p])
             item == IF ids = {} THEN NoItem ELSE CHOOSE i \in ids : TRUE
             stuck == held[w].readOnly \/ (p \in Youtube /\ legs[p].intent.consumed # 0)
             j == [job[w] EXCEPT !.pc = "visit", !.todo = job[w].todo \ {p}, !.leg = p,
                                 !.item = item, !.stuck = stuck]
  <2>1. job' = [job EXCEPT ![w] = j]
    BY <1>1, <1>5 DEF Visiting, Jobs
  <2>2. ids \subseteq Items
    <3>1. legs[p].receipts \in Seq(Receipts)
          /\ legs[p].verif \in Verifications \cup {NoVerification}
      BY LegType DEF DispatchTypeOK, Legs
    <3>4. \A k \in DOMAIN legs[p].receipts : legs[p].receipts[k] \in Receipts
      BY <3>1
    <3>2. \A k \in DOMAIN legs[p].receipts : legs[p].receipts[k].item \in MaybeItem
      BY <3>4 DEF Receipts
    <3>3. legs[p].verif.item \in MaybeItem
      BY <3>1 DEF Verifications, NoVerification, MaybeItem
    <3> QED
      BY <3>2, <3>3 DEF ProviderIds, MaybeItem
  <2>3. item \in MaybeItem
    BY <2>2 DEF MaybeItem
  <2>4. stuck \in BOOLEAN
    BY DEF DispatchTypeOK, TypeOK, Claims, NoClaim
  <2> HIDE DEF ids, item, stuck
  <2>5. /\ j \in Jobs
        /\ j.pc = "visit" /\ j.leg = p /\ j.seen = "none"
        /\ j.todo = job[w].todo \ {p} /\ j.active = job[w].active
    <3>1. job[w] \in Jobs /\ "visit" \in Steps
      BY <1>1 DEF Steps, Walking
    <3> QED
      BY <1>3, <2>3, <2>4, <3>1 DEF Jobs
  <2> HIDE DEF j
  <2> QED
    BY <1>1, <1>2, <2>1, <2>5, Replaced DEF Takes, PickLeg
<1> QED
  BY <1>2, <1>4, <1>5 DEF PickLeg

-----------------------------------------------------------------------------
(* What a step does to the item.                                           *)

\* A claimant judges a leg, or schedules it: its intent and receipts stay.
Judges(w) ==
  \E p \in Providers :
    \/ \E r \in Readings : RecordVerification(w, p, r)
    \/ \E beyond \in BOOLEAN : ScheduleReconciliation(w, p, beyond)

\* Nothing but claims, leases and schedules.
Tends(w) ==
  \/ UNCHANGED vars
  \/ TakeClaim(w) /\ Claim(w)
  \/ Heartbeat(w) \/ Release(w) \/ Crash(w)
  \/ \E p \in Providers : ConsumeScheduleToken(w, p)

\* The intent and the receipts of a leg change in four steps only.
Mutates(w) ==
  \/ Persist(w) /\ PersistIntent(w, job[w].leg, job[w].op, job[w].item)
  \/ Consume(w)
  \/ Accept(w)
  \/ Doubt(w)

\* What the dispatcher records is a reading.
LEMMA RecordedIsReading ==
  ASSUME NEW result \in Results, NEW item \in MaybeItem,
         NEW native \in {"none", "hidden", "public"}, NEW proven \in BOOLEAN
  PROVE  Outcome(result, item, native, proven) \in Readings
<1>1. Outcome(result, item, native, proven) \in Reading
  BY DEF Outcome, Reading
<1> QED
  BY <1>1, DispatchAssumption

\* The same for the readback of an item.
LEMMA PendingIsReading ==
  ASSUME DispatchTypeOK, NEW w \in Workers, job[w].leg \in Providers, RecordPending(w)
  PROVE  Judges(w)
<1>1. job[w].item \in MaybeItem /\ job[w].seen \in {"none", "hidden", "public"}
  BY JobType DEF DispatchTypeOK
<1>2. Outcome("pending_provider", job[w].item, job[w].seen, FALSE) \in Readings
  BY <1>1, RecordedIsReading DEF Results
<1> QED
  BY <1>2 DEF RecordPending, Judges

\* Every step of an execution is one operation of the repository, or none.
LEMMA DeliveryOperations ==
  ASSUME DispatchTypeOK, JobIsSound, NEW w \in Workers, Delivery(w)
  PROVE  (Tends(w) \/ Judges(w)) /\ UNCHANGED <<flight, done>>
<1>1. ASSUME NEW m \in Messages, Receive(w, m) PROVE Tends(w) /\ UNCHANGED <<flight, done>>
  BY <1>1 DEF Receive, Tends
<1>2. ASSUME TakeClaim(w) PROVE Tends(w) /\ UNCHANGED <<flight, done>>
  BY <1>2, DeliveryFacts DEF Tends, TakeClaim
<1>3. ASSUME NEW enabled \in BOOLEAN, Start(w, enabled)
      PROVE  Tends(w) /\ UNCHANGED <<flight, done>>
  BY <1>3 DEF Start, Tends
<1>4. ASSUME NEW enabled \in BOOLEAN, Visit(w, enabled)
      PROVE  (Tends(w) \/ Judges(w)) /\ UNCHANGED <<flight, done>>
  <2>1. job[w].leg \in Providers
    BY <1>4, VisitFacts, WalkingLeg DEF Walking
  <2>2. Outcome("manual_handoff_required", NoItem, "none", FALSE) \in Readings
    BY RecordedIsReading DEF Results, MaybeItem
  <2> QED
    BY <1>4, <2>1, <2>2 DEF Visit, Tends, Judges
<1>5. ASSUME Renew(w) PROVE Tends(w) /\ UNCHANGED <<flight, done>>
  BY <1>5 DEF Renew, dispatchVars, Tends
<1>6. ASSUME ListPoisoned(w) PROVE Tends(w) /\ UNCHANGED <<flight, done>>
  BY <1>6 DEF ListPoisoned, Tends
<1>7. ASSUME NEW p \in Providers, PoisonLeg(w, p)
      PROVE  Judges(w) /\ UNCHANGED <<flight, done>>
  <2>1. Outcome("poisoned", NoItem, "none", FALSE) \in Readings
    BY RecordedIsReading DEF Results, MaybeItem
  <2> QED
    BY <1>7, <2>1 DEF PoisonLeg, Judges
<1>8. ASSUME NEW p \in Providers, Survey(w, p)
      PROVE  (Tends(w) \/ Judges(w)) /\ UNCHANGED <<flight, done>>
  BY <1>8, SurveyFacts DEF Survey, Tends, Judges
<1>9. ASSUME NEW p \in Providers, PickLeg(w, p)
      PROVE  Tends(w) /\ UNCHANGED <<flight, done>>
  BY <1>9, PickFacts DEF PickLeg, Tends
<1>10. ASSUME Finish(w) PROVE Tends(w) /\ UNCHANGED <<flight, done>>
  BY <1>10 DEF Finish, Tends
<1>11. ASSUME DeleteMessage(w) PROVE Tends(w) /\ UNCHANGED <<flight, done>>
  BY <1>11 DEF DeleteMessage, Tends
<1>12. ASSUME Abandon(w) PROVE Tends(w) /\ UNCHANGED <<flight, done>>
  <2>1. CASE held[w] = NoClaim
    <3>1. held' = held
      BY <1>12, <2>1 DEF Abandon, DispatchTypeOK, TypeOK
    <3> QED
      BY <1>12, <3>1 DEF Abandon, Tends, vars
  <2>2. CASE held[w] # NoClaim
    BY <1>12, <2>2 DEF Abandon, Tends, Crash
  <2> QED
    BY <2>1, <2>2
<1> QED
  BY <1>1, <1>2, <1>3, <1>4, <1>5, <1>6, <1>7, <1>8, <1>9, <1>10, <1>11, <1>12
     DEF Delivery

\* The same for the steps of a walk.
LEMMA WalkOperations ==
  ASSUME DispatchTypeOK, JobIsSound, NEW w \in Workers, LegWalk(w)
  PROVE  (UNCHANGED vars \/ Judges(w)) /\ UNCHANGED <<flight, done>>
<1>1. ASSUME Locate(w)
      PROVE  (UNCHANGED vars \/ Judges(w)) /\ UNCHANGED <<flight, done>>
  <2>1. job[w].leg \in Providers
    BY <1>1, LocateFacts, WalkingLeg DEF Walking
  <2>2. Outcome("publication_unknown", NoItem, "none", FALSE) \in Readings
    BY RecordedIsReading DEF Results, MaybeItem
  <2> QED
    BY <1>1, <2>1, <2>2 DEF Locate, Judges
<1>2. ASSUME Read(w) \/ Playlist(w)
      PROVE  UNCHANGED <<vars, flight, done>>
  BY <1>2 DEF Read, Playlist
<1>3. ASSUME HandOver(w)
      PROVE  Judges(w) /\ UNCHANGED <<flight, done>>
  <2>1. job[w].leg \in Providers /\ job[w].item \in MaybeItem
    BY <1>3, EndFacts, WalkingLeg, JobType DEF Walking, DispatchTypeOK
  <2>2. Outcome("manual_handoff_required", job[w].item, "hidden", FALSE) \in Readings
    BY <2>1, RecordedIsReading DEF Results
  <2> QED
    BY <1>3, <2>1, <2>2 DEF HandOver, Judges
<1>4. ASSUME Prove(w)
      PROVE  Judges(w) /\ UNCHANGED <<flight, done>>
  <2>1. job[w].leg \in Providers /\ job[w].item \in MaybeItem
    BY <1>4, EndFacts, WalkingLeg, JobType DEF Walking, DispatchTypeOK
  <2>2. Outcome("externally_verified_public", job[w].item, "public", TRUE) \in Readings
    BY <2>1, RecordedIsReading DEF Results
  <2> QED
    BY <1>4, <2>1, <2>2 DEF Prove, Judges
<1>5. ASSUME Note(w) \/ Pend(w)
      PROVE  Judges(w) /\ UNCHANGED <<flight, done>>
  <2>1. job[w].leg \in Providers /\ RecordPending(w)
    BY <1>5, PendFacts, WalkingLeg DEF Walking, Note, Pend
  <2> QED
    BY <1>5, <2>1, PendingIsReading DEF Note, Pend
<1>6. ASSUME NEW beyond \in BOOLEAN, Schedule(w, beyond)
      PROVE  Judges(w) /\ UNCHANGED <<flight, done>>
  <2>1. job[w].leg \in Providers
    BY <1>6, EndFacts, WalkingLeg DEF Walking
  <2> QED
    BY <1>6, <2>1 DEF Schedule, Judges
<1> QED
  BY <1>1, <1>2, <1>3, <1>4, <1>5, <1>6 DEF LegWalk

\* The same for mutate; a request that leaves touches no document.
LEMMA MutateOperations ==
  ASSUME DispatchTypeOK, JobIsSound, NEW w \in Workers, Mutate(w)
  PROVE  \/ (UNCHANGED vars \/ Judges(w) \/ Mutates(w)) /\ UNCHANGED <<flight, done>>
         \/ Send(w) /\ UNCHANGED vars
<1>1. ASSUME Unknown(w)
      PROVE  Judges(w) /\ UNCHANGED <<flight, done>>
  <2>1. job[w].leg \in Providers /\ job[w].item \in MaybeItem
    BY <1>1, DoubtFacts, WalkingLeg, JobType DEF Walking, DispatchTypeOK
  <2>2. Outcome("publication_unknown", job[w].item, "none", FALSE) \in Readings
    BY <2>1, RecordedIsReading DEF Results
  <2> QED
    BY <1>1, <2>1, <2>2 DEF Unknown, Judges
<1>2. ASSUME Persist(w)
      PROVE  (UNCHANGED vars \/ Mutates(w)) /\ UNCHANGED <<flight, done>>
  BY <1>2 DEF Persist, Mutates
<1>3. ASSUME Send(w)
      PROVE  UNCHANGED vars
  BY <1>3 DEF Send
<1>4. ASSUME Consume(w) \/ Accept(w) \/ Doubt(w)
      PROVE  Mutates(w) /\ UNCHANGED <<flight, done>>
  BY <1>4 DEF Consume, Accept, Doubt, Mutates
<1>5. ASSUME Confirm(w) \/ Misfire(w)
      PROVE  UNCHANGED <<vars, flight, done>>
  BY <1>5 DEF Confirm, Misfire
<1> QED
  BY <1>1, <1>2, <1>3, <1>4, <1>5 DEF Mutate

\* A step of the environment that touches no leg, no claim and no execution.
Quiet ==
  /\ UNCHANGED <<legs, lastId, attempts, fence, held, job, flight, done, weekly>>
  /\ claim'.owner = claim.owner
  /\ claim'.fence = claim.fence
  /\ claim'.readOnly = claim.readOnly

Recovers == \E e \in [Providers -> Items] : AuthorizeRecovery(e) /\ UNCHANGED dispatchVars

Provides == \E r \in flight : Land(r) \/ Drop(r)

Runs(w) == Delivery(w) \/ LegWalk(w) \/ Mutate(w)

\* A step is one of an execution, of a provider, a recovery, or touches nothing.
LEMMA WhoSteps ==
  ASSUME DispatchTypeOK, [DispatchNext]_allVars
  PROVE  (\E w \in Workers : Runs(w)) \/ Provides \/ Recovers \/ Quiet
<1>1. CASE UNCHANGED allVars
  BY <1>1 DEF allVars, vars, docVars, dispatchVars, Quiet
<1>2. ASSUME NEW m \in Messages, Reappear(m) PROVE Quiet
  BY <1>2 DEF Reappear, vars, docVars, Quiet
<1>3. ASSUME NEW m \in Messages, NEW b \in BOOLEAN, Hint(m, b) PROVE Quiet
  BY <1>3 DEF Hint, vars, docVars, Quiet
<1>4. ASSUME NEW m \in Messages, NEW b \in BOOLEAN, Notify(m, b) PROVE Quiet
  BY <1>4 DEF Notify, Quiet
<1>5. ASSUME Elsewhere PROVE Recovers \/ Quiet
  <2>1. ASSUME LeaseRuns, UNCHANGED dispatchVars PROVE Quiet
    <3>1. claim \in Claims
      BY <2>1 DEF LeaseRuns, DispatchTypeOK, TypeOK, NoClaim
    <3>2. claim' = [claim EXCEPT !.lease = IF claim.lease = "ample" THEN "short" ELSE "expired"]
      BY <2>1, <3>1 DEF LeaseRuns, Claims
    <3>3. claim'.owner = claim.owner /\ claim'.fence = claim.fence
          /\ claim'.readOnly = claim.readOnly
      BY <3>1, <3>2 DEF Claims
    <3> QED
      BY <2>1, <3>3 DEF LeaseRuns, dispatchVars, Quiet
  <2>2. ASSUME HorizonPasses, UNCHANGED dispatchVars PROVE Quiet
    BY <2>2 DEF HorizonPasses, docVars, dispatchVars, Quiet
  <2>3. ASSUME NEW p \in Providers, TokenFallsDue(p), UNCHANGED dispatchVars PROVE Quiet
    BY <2>3 DEF TokenFallsDue, dispatchVars, Quiet
  <2>4. ASSUME EnsureProviderReconciliation, UNCHANGED dispatchVars PROVE Quiet
    BY <2>4 DEF EnsureProviderReconciliation, dispatchVars, Quiet
  <2>5. ASSUME NEW d, RecordMediaReview(d), UNCHANGED dispatchVars PROVE Quiet
    BY <2>5 DEF RecordMediaReview, dispatchVars, Quiet
  <2> QED
    BY <1>5, <2>1, <2>2, <2>3, <2>4, <2>5 DEF Elsewhere, Recovers
<1> QED
  BY <1>1, <1>2, <1>3, <1>4, <1>5 DEF DispatchNext, Runs, Provides

\* A mutation is an operation of the repository, too.
LEMMA MutatesItem ==
  ASSUME DispatchTypeOK, JobIsSound, NEW w \in Workers, Mutates(w)
  PROVE  /\ MutationNext
         /\ LegWork
         /\ job[w].pc \in Mutating
         /\ job[w].leg \in Providers
         /\ RequireClaim(w)
<1>1. job[w].pc \in Mutating
  BY DEF Mutates, Persist, Consume, Accept, Doubt, At, Mutating
<1>2. job[w].leg \in Providers /\ job[w].op \in Ops /\ job[w].item \in MaybeItem
  BY <1>1, WalkingLeg, JobType DEF Walking, Mutating, JobIsSound, DispatchTypeOK
<1>3. CASE PersistIntent(w, job[w].leg, job[w].op, job[w].item)
  BY <1>1, <1>2, <1>3 DEF MutationNext, LegWork, PersistIntent, RequireMutation
<1>4. CASE Consume(w)
  BY <1>1, <1>2, <1>4 DEF MutationNext, LegWork, Consume, ConsumeIntent, RequireMutation
<1>5. CASE Accept(w) \/ Doubt(w)
  <2>1. \E ok \in BOOLEAN : RecordReceipt(w, job[w].leg, ok, job[w].item)
    BY <1>5 DEF Accept, Doubt
  <2>2. MutationNext /\ LegWork
    BY <1>2, <2>1 DEF MutationNext, LegWork
  <2> QED
    BY <1>1, <1>2, <2>1, <2>2 DEF RecordReceipt
<1> QED
  BY <1>3, <1>4, <1>5 DEF Mutates

\* A judgement is one, and is made under the claim.
LEMMA JudgesItem ==
  ASSUME NEW w \in Workers, Judges(w)
  PROVE  Next /\ LegWork /\ RequireClaim(w)
<1>1. LegWork
  BY DEF Judges, LegWork
<1>2. Next
  BY DEF Judges, Next, MutationNext, ScheduleNext
<1> QED
  BY <1>1, <1>2 DEF Judges, RecordVerification, ScheduleReconciliation

\* Every step is one of the item for its most general client, or only records
\* a notification.
LEMMA ItemStep ==
  ASSUME DispatchTypeOK, JobIsSound, [DispatchNext]_allVars
  PROVE  [Next]_vars \/ \E m \in Messages, b \in BOOLEAN : Notify(m, b)
<1>1. ASSUME NEW w \in Workers, Tends(w) PROVE [Next]_vars
  BY <1>1 DEF Tends, Next, MutationNext, ScheduleNext
<1>2. ASSUME NEW w \in Workers, Runs(w) PROVE [Next]_vars
  BY <1>1, <1>2, DeliveryOperations, WalkOperations, MutateOperations, MutatesItem, JudgesItem
     DEF Runs, Next
<1>3. ASSUME Elsewhere PROVE [Next]_vars
  BY <1>3 DEF Elsewhere, Next, MutationNext, ScheduleNext
<1>4. ASSUME Provides PROVE UNCHANGED vars
  BY <1>4 DEF Provides, Land, Drop
<1>5. ASSUME NEW m \in Messages, NEW b \in BOOLEAN, Reappear(m) \/ Hint(m, b)
      PROVE  UNCHANGED vars
  BY <1>5 DEF Reappear, Hint
<1>6. CASE UNCHANGED allVars
  BY <1>6 DEF allVars
<1> QED
  BY <1>2, <1>3, <1>4, <1>5, <1>6 DEF DispatchNext, Runs, Provides

\* So the invariant of the item is one of the dispatch.
LEMMA ItemInvStep ==
  ASSUME IInv, DispatchTypeOK, JobIsSound, [DispatchNext]_allVars
  PROVE  IInv'
<1>1. CASE [Next]_vars
  BY <1>1, IInvStep
<1>2. ASSUME NEW m \in Messages, NEW b \in BOOLEAN, Notify(m, b)
      PROVE  IInv'
  <2>1. /\ UNCHANGED <<fence, claim, attempts, legs, notice, weekly, review, lastId,
                       horizon, held>>
        /\ sched' = [p \in Providers |->
             IF Due(p) /\ b THEN [sched[p] EXCEPT !.notified = sched[p].token]
             ELSE sched[p]]
    BY <1>2 DEF Notify
  <2>2. \A p \in Providers :
          (IF Due(p) /\ b THEN [sched[p] EXCEPT !.notified = sched[p].token]
           ELSE sched[p]) \in Schedules
    BY ZenonT(30) DEF DispatchTypeOK, TypeOK, Schedules
  <2>3. sched' \in [Providers -> Schedules]
    BY <2>1, <2>2
  <2>4. TypeOK'
    BY <2>1, <2>3 DEF DispatchTypeOK, TypeOK
  <2> QED
    BY <2>1, <2>4 DEF IInv, ClaimIsCurrent, UnknownIsFenced, Unresolved, Resolves,
       MutatorOwnsAttempt, Terminal, Active, Last, LegIsOwn, EvidenceIsOwn, GrantsAreSpent,
       SingleRecoveryGrant, DecisionIsCurrent, PriorIsClosed, WinnerIsProven
<1> QED
  BY <1>1, <1>2, ItemStep

-----------------------------------------------------------------------------
(* The moves of an execution.                                              *)

Stays(w, pc) == OnLeg(w, pc, job[w].op, job[w].item, job[w].seen)

\* The steps around one call.
CallMoves(w) ==
  \/ job[w].pc = "persist" /\ (MutatedMoves(w, job[w].item) \/ Stays(w, "consume"))
  \/ job[w].pc = "consume" /\ Stays(w, "call")
  \/ job[w].pc = "call" /\ Stays(w, "sent")
  \/ /\ job[w].pc = "sent"
     /\ RequireMutation(w)
     /\ \E r \in done :
          /\ r.leg = job[w].leg /\ r.op = job[w].op
          /\ r.intent = legs[job[w].leg].intent.id
          /\ OnLeg(w, "accept", job[w].op, r.item, job[w].seen)
  \/ job[w].pc \in {"call", "sent"} /\ Stays(w, "doubt")
  \/ job[w].pc = "accept" /\ MutatedMoves(w, job[w].item)
  \/ job[w].pc = "doubt" /\ Stays(w, "unknown")
  \/ job[w].pc = "unknown" /\ Stays(w, "raise")

LegMoves(w) ==
  \/ job[w].pc = "visit" /\ VisitMoves(w)
  \/ job[w].pc = "locate" /\ LocateMoves(w)
  \/ job[w].pc = "read" /\ ReadMoves(w)
  \/ job[w].pc = "playlist" /\ PlaylistMoves(w)
  \/ job[w].pc = "note" /\ (Stays(w, "schedule") \/ Stays(w, "playlist"))
  \/ job[w].pc = "pend" /\ Stays(w, "schedule")

RestMoves(w) ==
  \/ job' = job
  \/ job[w].pc = "pick" /\ \E p \in Providers : Takes(w, p)
  \/ \E pc \in Steps \ Walking, todo \in SUBSET Providers, active \in SUBSET Providers :
       /\ OffLeg(w, pc, todo, active)
       /\ active # {} => pc = "survey"
       /\ todo \cap active = {}

\* Every step of an execution is one of these moves.
LEMMA RunMoves ==
  ASSUME DispatchTypeOK, JobIsSound, NEW w \in Workers, Runs(w)
  PROVE  CallMoves(w) \/ LegMoves(w) \/ RestMoves(w)
<1>1. job \in [Workers -> Jobs]
  BY DEF DispatchTypeOK
<1>2. job[w].todo \in SUBSET Providers /\ job[w].active \in SUBSET Providers
  BY <1>1, JobType
<1>0. /\ job[w].active # {} => job[w].pc = "survey"
      /\ job[w].todo \cap job[w].active = {}
  BY DEF JobIsSound
<1>3. ASSUME NEW pc \in Steps \ Walking, NEW todo \in SUBSET Providers,
             NEW active \in SUBSET Providers, OffLeg(w, pc, todo, active),
             active # {} => pc = "survey", todo \cap active = {}
      PROVE  RestMoves(w)
  BY <1>3 DEF RestMoves
<1>4. {"pick", "idle", "start", "list", "survey", "poison", "release", "delete", "claim"}
        \subseteq Steps \ Walking
  BY DEF Steps, Walking
<1>5. CASE LegWalk(w)
  <2>1. CASE Locate(w)
    BY <2>1, LocateFacts DEF LegMoves
  <2>2. CASE Read(w)
    BY <2>2, ReadFacts DEF LegMoves
  <2>3. CASE Playlist(w)
    BY <2>3, PlaylistFacts DEF LegMoves
  <2>4. CASE Note(w) \/ Pend(w)
    BY <2>4, PendFacts DEF LegMoves, Stays
  <2>5. CASE HandOver(w) \/ Prove(w) \/ \E beyond \in BOOLEAN : Schedule(w, beyond)
    BY <1>0, <1>2, <1>3, <1>4, <2>5, EndFacts
  <2> QED
    BY <1>5, <2>1, <2>2, <2>3, <2>4, <2>5 DEF LegWalk
<1>6. CASE Mutate(w)
  BY <1>6, PersistFacts, ConsumeFacts, SendFacts, ConfirmFacts, MisfireFacts, AcceptFacts,
     DoubtFacts DEF Mutate, CallMoves, Stays
<1>7. CASE Delivery(w)
  <2>1. ASSUME NEW m \in Messages, Receive(w, m) PROVE RestMoves(w)
    BY <1>3, <1>4, <2>1, DeliveryFacts
  <2>2. CASE TakeClaim(w) \/ Finish(w) \/ DeleteMessage(w) \/ Abandon(w)
    BY <1>0, <1>2, <1>3, <1>4, <2>2, DeliveryFacts DEF Finish, At
  <2>3. ASSUME NEW enabled \in BOOLEAN, Start(w, enabled) PROVE RestMoves(w)
    BY <1>0, <1>2, <1>3, <1>4, <2>3, StartFacts
  <2>4. ASSUME NEW enabled \in BOOLEAN, Visit(w, enabled) PROVE LegMoves(w)
    BY <2>4, VisitFacts DEF LegMoves
  <2>5. CASE Renew(w)
    BY <2>5 DEF Renew, dispatchVars, RestMoves
  <2>6. CASE ListPoisoned(w)
    <3> DEFINE todo == {p \in Providers : legs[p].result \notin Preserved}
    <3>1. OffLeg(w, "poison", todo, job[w].active) /\ todo \in SUBSET Providers
      BY <2>6, PoisonFacts
    <3> QED
      BY <1>0, <1>2, <1>3, <1>4, <2>6, <3>1, PoisonFacts
  <2>7. ASSUME NEW p \in Providers, PoisonLeg(w, p) PROVE RestMoves(w)
    BY <1>0, <1>2, <1>3, <1>4, <2>7, PoisonFacts
  <2>8. ASSUME NEW p \in Providers, Survey(w, p) PROVE RestMoves(w)
    <3>1. PICK found \in SUBSET Providers :
            \/ OffLeg(w, "pick", job[w].active \cup found, {})
            \/ /\ OffLeg(w, "survey", job[w].todo \ {p}, job[w].active \cup found)
               /\ (job[w].todo \ {p}) \cap (job[w].active \cup found) = {}
      <4>1. SurveyMoves(w, p)
        BY <2>8, SurveyFacts
      <4>2. PICK found \in SUBSET {p} :
              \/ OffLeg(w, "pick", job[w].active \cup found, {})
              \/ OffLeg(w, "survey", job[w].todo \ {p}, job[w].active \cup found)
        BY <4>1 DEF SurveyMoves
      <4>3. found \in SUBSET Providers
        OBVIOUS
      <4>4. (job[w].todo \ {p}) \cap (job[w].active \cup found) = {}
        BY <1>0
      <4> QED
        BY <4>2, <4>3, <4>4
    <3>2. job[w].active \cup found \in SUBSET Providers /\ {} \in SUBSET Providers
          /\ job[w].todo \ {p} \in SUBSET Providers
      BY <1>2
    <3> QED
      BY <1>3, <1>4, <3>1, <3>2
  <2>9. ASSUME NEW p \in Providers, PickLeg(w, p) PROVE RestMoves(w)
    <3>1. CASE Takes(w, p)
      BY <2>9, <3>1, PickFacts DEF RestMoves
    <3>2. CASE OffLeg(w, "pick", job[w].todo \ {p}, job[w].active)
      <4>1. job[w].todo \ {p} \in SUBSET Providers
        BY <1>2
      <4> QED
        BY ZenonT(30), <1>0, <1>2, <1>3, <1>4, <2>9, <3>2, <4>1, PickFacts
    <3> QED
      BY <2>9, <3>1, <3>2, PickFacts
  <2> QED
    BY <1>7, <2>1, <2>2, <2>3, <2>4, <2>5, <2>6, <2>7, <2>8, <2>9 DEF Delivery
<1> QED
  BY <1>5, <1>6, <1>7 DEF Runs

\* So the jobs keep their type, and the others theirs.
LEMMA RunTurns ==
  ASSUME DispatchTypeOK, NEW w \in Workers, CallMoves(w) \/ LegMoves(w) \/ RestMoves(w)
  PROVE  Turn(w)
<1>1. CASE CallMoves(w)
  BY <1>1 DEF CallMoves, MutatedMoves, Stays, OnLeg
<1>2. CASE LegMoves(w)
  BY <1>2 DEF LegMoves, VisitMoves, LocateMoves, ReadMoves, PlaylistMoves, Stays, OnLeg, OffLeg
<1>3. CASE RestMoves(w)
  BY <1>3 DEF RestMoves, Takes, OffLeg, Turn, DispatchTypeOK
<1> QED
  BY <1>1, <1>2, <1>3

-----------------------------------------------------------------------------
(* What an execution knows of its leg.                                     *)

\* What JobIsSound says of one execution.
Knows(j) ==
  /\ j.leg # NoLeg <=> j.pc \in Walking
  /\ j.pc \in Mutating => j.op \in Ops
  /\ j.pc \in Mutating /\ j.op # "create" => j.seen # "none"
  /\ j.pc \in Mutating /\ j.op = "create" => j.seen = "none"
  /\ j.pc \in {"locate", "persist"} /\ j.seen = "none" => j.item = NoItem
  /\ j.pc \in {"visit", "locate"} => j.seen = "none"
  /\ j.pc \in {"note", "playlist"} => j.seen # "none"
  /\ j.pc = "prove" => j.seen = "public"
  /\ j.pc \notin Walking => j.seen = "none"
  /\ j.active # {} => j.pc = "survey"
  /\ j.todo \cap j.active = {}
  /\ j.leg \notin j.todo

\* A step on a leg keeps what holds of the leg itself.
LEMMA OnLegKnows ==
  ASSUME NEW w \in Workers, Knows(job[w]), job[w].pc \in Walking, NEW pc \in Walking,
         NEW op, NEW item, NEW seen, OnLeg(w, pc, op, item, seen),
         pc \in Mutating => /\ op \in Ops
                            /\ op = "create" <=> seen = "none",
         pc \in {"locate", "persist"} /\ seen = "none" => item = NoItem,
         pc = "visit" \/ pc = "locate" => seen = "none",
         pc \in {"note", "playlist"} => seen # "none",
         pc = "prove" => seen = "public"
  PROVE  Knows(job'[w])
<1>1. "survey" \notin Walking
  BY DEF Walking
<1> QED
  BY <1>1 DEF OnLeg, Knows

\* The step of one execution keeps what it knows.
LEMMA KnowsStep ==
  ASSUME DispatchTypeOK, JobIsSound, NEW w \in Workers, Runs(w)
  PROVE  Knows(job'[w])
<1>0. Knows(job[w])
  BY DEF JobIsSound, Knows
<1>a. Mutating \subseteq Walking /\ {"create", "insert", "publish"} \subseteq Ops
  BY DispatchAssumption DEF Mutating, Walking
<1>1. ASSUME MutatedMoves(w, job[w].item), job[w].pc \in {"persist", "accept"}
      PROVE  Knows(job'[w])
  <2>1. job[w].op \in Ops /\ (job[w].op # "create" => job[w].seen # "none")
    BY <1>0, <1>1 DEF Knows, Mutating
  <2> QED
    BY <1>0, <1>1, <1>a, <2>1, OnLegKnows DEF MutatedMoves, Walking, Mutating
<1>2. CASE CallMoves(w)
  <2>1. ASSUME NEW pc \in Walking, Stays(w, pc), job[w].pc \in Mutating \cup {"unknown"},
               pc \in {"consume", "call", "sent", "doubt", "unknown", "raise"},
               job[w].pc = "unknown" => pc = "raise",
               job[w].pc = "doubt" => pc = "unknown"
        PROVE  Knows(job'[w])
    <3>1. job[w].pc \in Walking
      BY <2>1, <1>a DEF Walking
    <3>2. pc \in Mutating => /\ job[w].op \in Ops
                             /\ job[w].op = "create" <=> job[w].seen = "none"
      BY <1>0, <2>1 DEF Knows, Mutating
    <3> QED
      BY <1>0, <2>1, <3>1, <3>2, OnLegKnows DEF Stays
  <2>2. ASSUME NEW r, job[w].pc = "sent", OnLeg(w, "accept", job[w].op, r, job[w].seen)
        PROVE  Knows(job'[w])
    <3>1. /\ job[w].op \in Ops
          /\ job[w].op = "create" <=> job[w].seen = "none"
      BY <1>0, <2>2 DEF Knows, Mutating
    <3> QED
      BY <1>0, <1>a, <2>2, <3>1, OnLegKnows DEF Walking
  <2> QED
    BY <1>1, <1>2, <2>1, <2>2 DEF CallMoves, Walking, Mutating
<1>3. CASE LegMoves(w)
  <2>1. CASE job[w].pc = "visit" /\ VisitMoves(w)
    <3>1. CASE OffLeg(w, "pick", job[w].todo, job[w].active)
      BY <1>0, <2>1, <3>1, DispatchAssumption, JobType DEF OffLeg, Knows, Walking, Mutating, DispatchTypeOK
    <3>2. CASE OnLeg(w, "locate", job[w].op, job[w].item, job[w].seen) /\ job[w].item = NoItem
      <4>1. /\ job[w].pc \in Walking /\ "locate" \in Walking /\ "locate" \notin Mutating
            /\ job[w].seen = "none"
        BY <1>0, <2>1 DEF Knows, Walking, Mutating
      <4> QED
        BY <1>0, <2>1, <3>2, <4>1, OnLegKnows
    <3>3. CASE OnLeg(w, "read", job[w].op, job[w].item, job[w].seen)
      BY <1>0, <2>1, <3>3, OnLegKnows DEF Walking, Mutating
    <3> QED
      BY <2>1, <3>1, <3>2, <3>3 DEF VisitMoves
  <2>2. CASE job[w].pc = "locate" /\ LocateMoves(w)
    <3>1. CASE OffLeg(w, "pick", job[w].todo, job[w].active)
      BY <1>0, <2>2, <3>1, DispatchAssumption, JobType DEF OffLeg, Knows, Walking, Mutating, DispatchTypeOK
    <3>2. CASE OnLeg(w, "persist", "create", job[w].item, job[w].seen)
      <4>1. job[w].seen = "none" /\ job[w].item = NoItem
        BY <1>0, <2>2 DEF Knows
      <4> QED
        BY <1>0, <1>a, <2>2, <3>2, <4>1, OnLegKnows DEF Walking
    <3>3. ASSUME NEW i, OnLeg(w, "read", job[w].op, i, job[w].seen)
          PROVE  Knows(job'[w])
      BY <1>0, <2>2, <3>3, OnLegKnows DEF Walking, Mutating
    <3> QED
      BY <2>2, <3>1, <3>2, <3>3 DEF LocateMoves
  <2>3. CASE job[w].pc = "read" /\ ReadMoves(w)
    <3>1. PICK step \in {"pend", "prove", "playlist", "note", "handover", "persist"},
               seen \in {"hidden", "public"} :
            /\ step = "prove" => seen = "public"
            /\ OnLeg(w, step, IF step = "persist" THEN "publish" ELSE job[w].op,
                     job[w].item, seen)
      BY <2>3 DEF ReadMoves
    <3> DEFINE op == IF step = "persist" THEN "publish" ELSE job[w].op
    <3>2. step \in Walking /\ job[w].pc \in Walking
      BY <2>3 DEF Walking
    <3>3. step \in Mutating => op \in Ops /\ op = "publish"
      BY <1>a DEF Mutating
    <3>4. OnLeg(w, step, op, job[w].item, seen)
      BY <3>1
    <3> HIDE DEF op
    <3> QED
      BY <1>0, <3>1, <3>2, <3>3, <3>4, OnLegKnows
  <2>4. CASE job[w].pc = "playlist" /\ PlaylistMoves(w)
    <3>1. job[w].seen # "none"
      BY <1>0, <2>4 DEF Knows
    <3> QED
      BY <1>0, <1>a, <2>4, <3>1, OnLegKnows DEF PlaylistMoves, Walking, Mutating
  <2>5. CASE job[w].pc = "note" /\ (Stays(w, "schedule") \/ Stays(w, "playlist"))
    <3>1. job[w].seen # "none"
      BY <1>0, <2>5 DEF Knows
    <3> QED
      BY <1>0, <2>5, <3>1, OnLegKnows DEF Stays, Walking, Mutating
  <2>6. CASE job[w].pc = "pend" /\ Stays(w, "schedule")
    BY <1>0, <2>6, OnLegKnows DEF Stays, Walking, Mutating
  <2> QED
    BY <1>3, <2>1, <2>2, <2>3, <2>4, <2>5, <2>6 DEF LegMoves
<1>4. CASE RestMoves(w)
  <2>1. ASSUME NEW p \in Providers, job[w].pc = "pick", Takes(w, p)
        PROVE  Knows(job'[w])
    BY <1>0, <2>1, DispatchAssumption DEF Takes, Knows, Walking, Mutating
  <2>2. ASSUME NEW pc \in Steps \ Walking, NEW todo \in SUBSET Providers,
               NEW active \in SUBSET Providers, OffLeg(w, pc, todo, active),
               active # {} => pc = "survey", todo \cap active = {}
        PROVE  Knows(job'[w])
    <3>1. pc \notin Mutating \cup {"locate", "persist", "visit", "note", "playlist", "prove"}
      BY DEF Walking, Mutating
    <3>2. NoLeg \notin todo
      BY DispatchAssumption
    <3> QED
      BY <2>2, <3>1, <3>2 DEF OffLeg, Knows
  <2> QED
    BY <1>0, <1>4, <2>1, <2>2 DEF RestMoves
<1> QED
  BY <1>2, <1>3, <1>4, RunMoves

\* So every step keeps what the executions know.
LEMMA JobIsSoundStep ==
  ASSUME DispatchTypeOK, JobIsSound, [DispatchNext]_allVars
  PROVE  JobIsSound' /\ job' \in [Workers -> Jobs]
<1>1. ASSUME NEW w \in Workers, Runs(w)
      PROVE  JobIsSound' /\ job' \in [Workers -> Jobs]
  <2>1. Turn(w)
    BY <1>1, RunMoves, RunTurns
  <2>2. \A v \in Workers : Knows(job[v])
    BY DEF JobIsSound, Knows
  <2>3. \A v \in Workers : Knows(job'[v])
    BY <1>1, <2>1, <2>2, KnowsStep DEF Turn
  <2> QED
    BY <2>1, <2>3 DEF Turn, JobIsSound, Knows
<1>2. ASSUME job' = job
      PROVE  JobIsSound' /\ job' \in [Workers -> Jobs]
  BY <1>2 DEF JobIsSound, DispatchTypeOK
<1>3. Provides \/ Recovers \/ Quiet => job' = job
  BY DEF Provides, Land, Drop, Recovers, dispatchVars, Quiet
<1> QED
  BY <1>1, <1>2, <1>3, WhoSteps

-----------------------------------------------------------------------------
(* What a step leaves alone.                                               *)

\* No intent and no receipt changes, and the attempt stays.
SameBooks ==
  /\ lastId' = lastId
  /\ Len(attempts') = Len(attempts)
  /\ \A p \in Providers : legs'[p].intent = legs[p].intent
                          /\ legs'[p].receipts = legs[p].receipts

SameMail == flight' = flight /\ done' = done

\* A judgement, and what tends the claim, changes no intent and no receipt.
LEMMA SameBooksStep ==
  ASSUME DispatchTypeOK, NEW w \in Workers, Tends(w) \/ Judges(w)
  PROVE  SameBooks
<1>0. TypeOK
  BY DEF DispatchTypeOK
<1>1. ASSUME legs' = legs, lastId' = lastId, Len(attempts') = Len(attempts)
      PROVE  SameBooks
  BY <1>1 DEF SameBooks
<1>2. CASE UNCHANGED vars
  BY <1>1, <1>2 DEF vars, docVars
<1>3. CASE Claim(w)
  BY <1>0, <1>1, <1>3, ClaimFacts DEF Claim
<1>4. CASE Release(w)
  BY <1>0, <1>1, <1>4, ReleaseFacts DEF Release
<1>5. CASE Heartbeat(w) \/ Crash(w) \/ \E p \in Providers : ConsumeScheduleToken(w, p)
  BY <1>1, <1>5 DEF Heartbeat, Crash, docVars, ConsumeScheduleToken
<1>6. ASSUME NEW p \in Providers, NEW r \in Readings, RecordVerification(w, p, r)
      PROVE  SameBooks
  <2>1. lastId' = lastId
    BY <1>6 DEF RecordVerification
  <2>2. LegWork
    BY <1>6 DEF LegWork
  <2> QED
    BY <1>0, <1>6, <2>1, <2>2, LegWorkFrame, VerificationFrame DEF SameBooks, SameHistory
<1>7. ASSUME NEW p \in Providers, NEW beyond \in BOOLEAN, ScheduleReconciliation(w, p, beyond)
      PROVE  SameBooks
  <2>1. lastId' = lastId
    BY <1>7 DEF ScheduleReconciliation
  <2>2. LegWork
    BY <1>7 DEF LegWork
  <2> QED
    BY <1>0, <1>7, <2>1, <2>2, LegWorkFrame, ScheduleFrame DEF SameBooks, SameHistory
<1> QED
  BY <1>2, <1>3, <1>4, <1>5, <1>6, <1>7 DEF Tends, Judges

\* What the step of one execution is to intents, receipts and requests.
LEMMA RunKinds ==
  ASSUME DispatchTypeOK, JobIsSound, NEW w \in Workers, Runs(w)
  PROVE  \/ (UNCHANGED vars \/ Tends(w) \/ Judges(w)) /\ SameBooks /\ SameMail
         \/ Send(w) /\ UNCHANGED vars
         \/ Mutates(w) /\ SameMail
<1>1. CASE Delivery(w)
  BY <1>1, DeliveryOperations, SameBooksStep DEF SameMail
<1>2. UNCHANGED vars => SameBooks
  BY DEF vars, docVars, SameBooks
<1>3. CASE LegWalk(w)
  BY <1>2, <1>3, WalkOperations, SameBooksStep DEF SameMail
<1>4. CASE Mutate(w)
  BY <1>2, <1>4, MutateOperations, SameBooksStep DEF SameMail
<1> QED
  BY <1>1, <1>3, <1>4 DEF Runs

\* What every step is.
LEMMA Kinds ==
  ASSUME DispatchTypeOK, JobIsSound, [DispatchNext]_allVars
  PROVE  \/ SameBooks /\ SameMail
         \/ \E w \in Workers : Send(w) /\ UNCHANGED vars
         \/ \E w \in Workers : Mutates(w) /\ SameMail
         \/ Provides
         \/ Recovers
<1>1. Quiet => SameBooks /\ SameMail
  BY DEF Quiet, SameBooks, SameMail
<1> QED
  BY <1>1, WhoSteps, RunKinds

-----------------------------------------------------------------------------
(* Who holds the claim.                                                    *)

\* Only one execution holds it.
LEMMA OneClaimant ==
  ASSUME NEW v, NEW w, Claimant(v), Claimant(w)
  PROVE  v = w
BY DEF Claimant

\* Who passes the check of its claim holds it.
LEMMA RequiredClaimant ==
  ASSUME NEW w, RequireClaim(w)
  PROVE  Claimant(w)
BY DEF RequireClaim, Claimant

\* The holder held it before, or has just claimed the item.
LEMMA ClaimantStep ==
  ASSUME DispatchTypeOK, JobIsSound, [DispatchNext]_allVars, NEW v \in Workers, Claimant(v)'
  PROVE  \/ Claimant(v) /\ claim'.readOnly = claim.readOnly
         \/ TakeClaim(v) /\ Claim(v)
<1>0. TypeOK /\ held \in [Workers -> Claims \cup {NoClaim}]
  BY DEF DispatchTypeOK, TypeOK
<1>1. ASSUME held' = held, claim'.owner = claim.owner, claim'.fence = claim.fence,
             claim'.readOnly = claim.readOnly
      PROVE  Claimant(v) /\ claim'.readOnly = claim.readOnly
  BY <1>1 DEF Claimant
<1>2. ASSUME UNCHANGED vars
      PROVE  Claimant(v) /\ claim'.readOnly = claim.readOnly
  BY <1>1, <1>2 DEF vars, docVars
<1>3. CASE Quiet
  BY <1>1, <1>3 DEF Quiet
<1>4. CASE Provides
  BY <1>2, <1>4 DEF Provides, Land, Drop
<1>5. CASE Recovers
  BY <1>0, <1>1, <1>5, RecoveryFacts DEF Recovers
<1>6. ASSUME NEW w \in Workers, Tends(w)
      PROVE  \/ Claimant(v) /\ claim'.readOnly = claim.readOnly
             \/ TakeClaim(v) /\ Claim(v)
  <2>1. CASE TakeClaim(w) /\ Claim(w)
    <3>1. claim'.owner = w
      BY <2>1 DEF Claim
    <3>2. v = w
      BY <3>1 DEF Claimant
    <3> QED
      BY <2>1, <3>2
  <2>2. CASE Heartbeat(w)
    <3>1. claim \in Claims
      BY <1>0, <2>2, RecognisedClaim DEF Heartbeat
    <3>2. claim' = [claim EXCEPT !.lease = "ample"]
      BY <2>2 DEF Heartbeat
    <3> QED
      BY <1>1, <2>2, <3>1, <3>2 DEF Heartbeat, Claims
  <2>3. CASE Release(w)
    <3>1. claim'.owner = NoWorker
      BY <2>3 DEF Release, NoClaim
    <3> QED
      BY <3>1, OutboxAssumption DEF Claimant
  <2>4. CASE Crash(w)
    <3>1. held'[v] = held[v] \/ held'[v].fence = 0
      BY <1>0, <2>4 DEF Crash, NoClaim
    <3>2. claim' = claim
      BY <2>4 DEF Crash, docVars
    <3> QED
      BY <3>1, <3>2 DEF Claimant
  <2>5. CASE \E p \in Providers : ConsumeScheduleToken(w, p)
    BY <1>1, <2>5 DEF ConsumeScheduleToken
  <2> QED
    BY <1>2, <1>6, <2>1, <2>2, <2>3, <2>4, <2>5 DEF Tends
<1>7. ASSUME NEW w \in Workers, Judges(w) \/ Mutates(w)
      PROVE  Claimant(v) /\ claim'.readOnly = claim.readOnly
  BY <1>0, <1>1, <1>7, JudgesItem, MutatesItem, LegWorkFrame
<1> QED
  BY <1>2, <1>3, <1>4, <1>5, <1>6, <1>7, WhoSteps, RunKinds

\* A judgement and a mutation are the holder's.
LEMMA HolderActs ==
  ASSUME DispatchTypeOK, JobIsSound, NEW w \in Workers, Send(w) \/ Mutates(w) \/ Judges(w)
  PROVE  Claimant(w)
<1>1. RequireClaim(w)
  BY JudgesItem, MutatesItem DEF Send, MayMutate, MayAsk
<1> QED
  BY <1>1, RequiredClaimant

-----------------------------------------------------------------------------
(* What the steps of a mutation do to the leg.                             *)

\* The leg of p has a new intent.
Intends(w, p) ==
  /\ RequireMutation(w)
  /\ Last > 1 => job[w].item # NoItem
  /\ PriorResolved(legs[p].intent, legs[p].receipts)
  /\ lastId' = lastId + 1
  /\ legs'[p].intent.id = lastId + 1
  /\ legs'[p].intent.op = job[w].op
  /\ legs'[p].receipts = legs[p].receipts

\* Its intent is consumed.
Consumes(w, p) ==
  /\ RequireMutation(w)
  /\ legs[p].intent.consumed = 0
  /\ legs'[p].intent.consumed # 0
  /\ legs'[p].intent.id = legs[p].intent.id
  /\ legs'[p].intent.op = legs[p].intent.op
  /\ lastId' = lastId
  /\ legs'[p].receipts = legs[p].receipts

\* It has one receipt more.
Receipted(p, ok) ==
  /\ lastId' = lastId
  /\ legs'[p].intent = legs[p].intent
  /\ legs[p].intent.consumed # 0
  /\ DOMAIN legs[p].receipts \subseteq DOMAIN legs'[p].receipts
  /\ \A k \in DOMAIN legs[p].receipts : legs'[p].receipts[k] = legs[p].receipts[k]
  /\ \A k \in DOMAIN legs'[p].receipts : k \notin DOMAIN legs[p].receipts =>
       /\ legs'[p].receipts[k].intent = legs[p].intent.id
       /\ legs'[p].receipts[k].op = legs[p].intent.op
       /\ legs'[p].receipts[k].accepted = ok

\* The other legs and every verdict stay.
OneLeg(p) ==
  /\ \A q \in Providers \ {p} : legs'[q] = legs[q]
  /\ legs'[p].result = legs[p].result
  /\ legs'[p].verif = legs[p].verif
  /\ legs'[p].checks = legs[p].checks
  /\ Len(attempts') = Len(attempts)

\* A mutation is one of the three, on the leg of the execution.
LEMMA MutatesFacts ==
  ASSUME DispatchTypeOK, JobIsSound, NEW w \in Workers, Mutates(w)
  PROVE  /\ job[w].leg \in Providers
         /\ OneLeg(job[w].leg)
         /\ \/ job[w].pc = "persist" /\ Intends(w, job[w].leg)
            \/ job[w].pc = "consume" /\ Consumes(w, job[w].leg)
            \/ job[w].pc = "accept" /\ Receipted(job[w].leg, TRUE)
            \/ job[w].pc = "doubt" /\ Receipted(job[w].leg, FALSE)
<1> DEFINE p == job[w].leg
<1>0. TypeOK /\ legs \in [Providers -> Legs] /\ p \in Providers
  BY MutatesItem DEF DispatchTypeOK, TypeOK
<1>1. Len(attempts') = Len(attempts)
  BY <1>0, MutatesItem, LegWorkFrame DEF SameHistory
<1>2. CASE Persist(w) /\ PersistIntent(w, p, job[w].op, job[w].item)
  <2>1. job[w].pc = "persist"
    BY <1>2 DEF Persist, At
  <2> DEFINE i == [id |-> lastId + 1, op |-> job[w].op, expected |-> job[w].item,
                   consumed |-> 0, attempt |-> 0]
  <2>2. /\ legs' = [legs EXCEPT ![p].intent = i]
        /\ i.id = lastId + 1 /\ i.op = job[w].op
    BY <1>2 DEF PersistIntent
  <2> HIDE DEF i
  <2>3. OneLeg(p) /\ legs'[p].intent = i /\ legs'[p].receipts = legs[p].receipts
    BY <1>0, <1>1, <2>2 DEF Legs, OneLeg
  <2> QED
    BY <1>0, <1>2, <2>1, <2>2, <2>3 DEF PersistIntent, Intends
<1>3. CASE Consume(w)
  <2>1. job[w].pc = "consume" /\ ConsumeIntent(w, p)
    BY <1>3 DEF Consume, At
  <2>2. legs[p].intent \in Intents
    BY <1>0, <2>1 DEF ConsumeIntent, Legs
  <2>3. OneLeg(p) /\ legs'[p].receipts = legs[p].receipts
        /\ legs'[p].intent = [legs[p].intent EXCEPT !.consumed = claim.fence,
                                                    !.attempt = held[w].attempt]
    <3> DEFINE i == [legs[p].intent EXCEPT !.consumed = claim.fence,
                                           !.attempt = held[w].attempt]
    <3>1. legs' = [legs EXCEPT ![p].intent = i]
      BY <2>1 DEF ConsumeIntent
    <3> HIDE DEF i
    <3>2. OneLeg(p) /\ legs'[p].receipts = legs[p].receipts /\ legs'[p].intent = i
      BY <1>0, <1>1, <3>1 DEF Legs, OneLeg
    <3> QED
      BY <3>2 DEF i
  <2>4. claim.fence # 0
    BY <2>1 DEF ConsumeIntent, RequireMutation, RequireClaim
  <2>5. legs'[p].intent.consumed = claim.fence /\ legs'[p].intent.id = legs[p].intent.id
        /\ legs'[p].intent.op = legs[p].intent.op
    BY <2>2, <2>3 DEF Intents
  <2> QED
    BY <1>0, <2>1, <2>3, <2>4, <2>5 DEF ConsumeIntent, Consumes
<1>4. ASSUME NEW ok \in BOOLEAN, RecordReceipt(w, p, ok, job[w].item)
      PROVE  OneLeg(p) /\ Receipted(p, ok)
  <2> DEFINE rec == [intent |-> legs[p].intent.id, op |-> legs[p].intent.op,
                     attempt |-> held[w].attempt, fence |-> claim.fence,
                     accepted |-> ok, item |-> job[w].item]
  <2>1. job[w].item \in MaybeItem
    BY JobType DEF DispatchTypeOK
  <2>2. legs' = [legs EXCEPT ![p].receipts = Append(legs[p].receipts, rec)]
    BY <1>0, <1>4 DEF RecordReceipt
  <2>3. rec.intent = legs[p].intent.id /\ rec.op = legs[p].intent.op /\ rec.accepted = ok
    OBVIOUS
  <2>4. rec \in Receipts
    <3>1. legs[p].intent \in Intents
      BY <1>0, <1>4 DEF RecordReceipt, Legs, NoIntent
    <3>2. claim \in Claims /\ held[w] \in Claims
      BY <1>0, <1>4, RecognisedClaim DEF RecordReceipt
    <3> QED
      BY <2>1, <3>1, <3>2 DEF Intents, Claims, Receipts
  <2> HIDE DEF rec
  <2>5. legs[p].receipts \in Seq(Receipts)
    BY <1>0 DEF Legs
  <2>6. OneLeg(p) /\ legs'[p].intent = legs[p].intent
        /\ legs'[p].receipts = Append(legs[p].receipts, rec)
    BY <1>0, <1>1, <2>2 DEF Legs, OneLeg
  <2>7. /\ legs'[p].receipts \in Seq(Receipts)
        /\ Len(legs'[p].receipts) = Len(legs[p].receipts) + 1
        /\ \A k \in 1..Len(legs[p].receipts) : legs'[p].receipts[k] = legs[p].receipts[k]
        /\ legs'[p].receipts[Len(legs[p].receipts) + 1] = rec
    BY SMTT(30), <2>4, <2>5, <2>6, AppendProperties
  <2>8. /\ DOMAIN legs[p].receipts = 1..Len(legs[p].receipts)
        /\ DOMAIN legs'[p].receipts = 1..Len(legs'[p].receipts)
        /\ Len(legs[p].receipts) \in Nat
    BY <2>5, <2>7, LenProperties
  <2>a. \A n \in Nat : /\ 1..n \subseteq 1..(n + 1)
                        /\ \A k \in 1..(n + 1) : k \notin 1..n => k = n + 1
    OBVIOUS
  <2>b. /\ 1..Len(legs[p].receipts) \subseteq 1..(Len(legs[p].receipts) + 1)
        /\ \A k \in 1..(Len(legs[p].receipts) + 1) :
             k \notin 1..Len(legs[p].receipts) => k = Len(legs[p].receipts) + 1
    BY <2>8, <2>a
  <2>c. DOMAIN legs'[p].receipts = 1..(Len(legs[p].receipts) + 1)
    BY <2>7, <2>8, Zenon
  <2>9. DOMAIN legs[p].receipts \subseteq DOMAIN legs'[p].receipts
    BY <2>8, <2>b, <2>c, Zenon
  <2>10. \A k \in DOMAIN legs'[p].receipts : k \notin DOMAIN legs[p].receipts =>
           legs'[p].receipts[k] = rec
    BY <2>7, <2>8, <2>b, <2>c, Zenon
  <2>11. lastId' = lastId /\ legs[p].intent.consumed # 0
    BY <1>4 DEF RecordReceipt
  <2>12. \A k \in DOMAIN legs[p].receipts : legs'[p].receipts[k] = legs[p].receipts[k]
    BY <2>7, <2>8
  <2> QED
    BY <2>3, <2>6, <2>9, <2>10, <2>11, <2>12 DEF Receipted
<1>5. CASE Accept(w)
  BY <1>0, <1>4, <1>5 DEF Accept, At
<1>6. CASE Doubt(w)
  BY <1>0, <1>4, <1>6 DEF Doubt, At
<1> QED
  BY <1>0, <1>2, <1>3, <1>5, <1>6 DEF Mutates

-----------------------------------------------------------------------------
(* The numbering of intents, and what follows of a request that leaves.    *)

\* Numbers are numbers; a real intent has one above 0.
LEMMA Numbers ==
  ASSUME DispatchTypeOK
  PROVE  /\ lastId \in Nat /\ lastId <= MaxIntents /\ MaxIntents \in Nat
         /\ Last \in Nat /\ Last >= 1
         /\ \A p \in Providers :
              /\ legs[p].intent.id \in Nat
              /\ legs[p].intent.id <= MaxIntents
              /\ legs[p].intent.consumed # 0 => legs[p].intent.id # 0
              /\ legs[p].intent.id # 0 => legs[p].intent # NoIntent
              /\ legs[p].intent.id = 0 => legs[p].intent.op = "none"
              /\ \A k \in DOMAIN legs[p].receipts :
                   legs[p].receipts[k].intent \in Nat \ {0}
         /\ \A r \in Asked : r \in Requests /\ r.intent \in Nat \ {0}
                             /\ r.intent <= MaxIntents
<1>1. lastId \in Nat /\ lastId <= MaxIntents /\ MaxIntents \in Nat
  BY OutboxAssumption DEF DispatchTypeOK, TypeOK
<1>2. Last \in Nat /\ Last >= 1
  BY OutboxAssumption DEF DispatchTypeOK, TypeOK, Last
<1>3. ASSUME NEW p \in Providers
      PROVE  /\ legs[p].intent.id \in Nat
             /\ legs[p].intent.id <= MaxIntents
             /\ legs[p].intent.consumed # 0 => legs[p].intent.id # 0
             /\ legs[p].intent.id # 0 => legs[p].intent # NoIntent
             /\ legs[p].intent.id = 0 => legs[p].intent.op = "none"
             /\ \A k \in DOMAIN legs[p].receipts :
                  legs[p].receipts[k].intent \in Nat \ {0}
  <2>1. legs[p].intent \in Intents \cup {NoIntent} /\ legs[p].receipts \in Seq(Receipts)
    BY LegType DEF DispatchTypeOK, Legs
  <2>2. \A k \in DOMAIN legs[p].receipts : legs[p].receipts[k] \in Receipts
    BY <2>1
  <2>3. \A k \in DOMAIN legs[p].receipts : legs[p].receipts[k].intent \in Nat \ {0}
    BY <2>2 DEF Receipts
  <2>4. /\ legs[p].intent.id \in Nat
        /\ legs[p].intent.id <= MaxIntents
        /\ legs[p].intent.consumed # 0 => legs[p].intent.id # 0
        /\ legs[p].intent.id # 0 => legs[p].intent # NoIntent
        /\ legs[p].intent.id = 0 => legs[p].intent.op = "none"
    <3>1. CASE legs[p].intent = NoIntent
      BY <1>1, <3>1 DEF NoIntent
    <3>2. CASE legs[p].intent \in Intents
      BY <1>1, <3>2 DEF Intents, NoIntent
    <3> QED
      BY <2>1, <3>1, <3>2
  <2> QED
    BY <2>3, <2>4
<1>4. ASSUME NEW r \in Asked
      PROVE  r \in Requests /\ r.intent \in Nat \ {0} /\ r.intent <= MaxIntents
  <2>1. r \in Requests
    BY DEF Asked, DispatchTypeOK
  <2> QED
    BY <1>1, <2>1 DEF Requests
<1> QED
  BY <1>1, <1>2, <1>3, <1>4

\* A request that leaves: it is the first for the consumed intent of its leg,
\* which nobody has answered.
Leaves(w) ==
  LET p == job[w].leg
      r == Request(w)
  IN /\ p \in Providers
     /\ flight' = flight \cup {r} /\ done' = done
     /\ r.leg = p /\ r.op = job[w].op /\ r.intent = legs[p].intent.id
     /\ r.op # "create" => r.item = job[w].item
     /\ legs[p].intent.op = r.op
     /\ legs[p].intent.consumed # 0
     /\ ~Accepted(legs[p], r.op)
     /\ \A s \in Asked : s.intent # r.intent
     /\ r.op # "create" => job[w].item \in Made(p)

\* A request that is sent is new: nobody sent it before, or had it answered.
LEMMA SendLeaves ==
  ASSUME DInv, NEW w \in Workers, Send(w)
  PROVE  Leaves(w)
<1>1. job[w].pc = "call" /\ MayMutate(w, job[w].leg, job[w].op)
      /\ flight' = flight \cup {Request(w)} /\ done' = done
  BY DEF Send, At
<1>2. job[w].leg \in Providers
  BY <1>1, WalkingLeg DEF DInv, Walking
<1>3. /\ Request(w).leg = job[w].leg /\ Request(w).op = job[w].op
      /\ Request(w).intent = legs[job[w].leg].intent.id
      /\ Request(w).op # "create" => Request(w).item = job[w].item
  BY DEF Request
<1>4. Claimant(w)
  BY <1>1, RequiredClaimant DEF MayMutate, MayAsk
<1>5. /\ ~Accepted(legs[job[w].leg], job[w].op)
      /\ \A s \in Asked : s.intent # legs[job[w].leg].intent.id
  <2>1. MutationIsFresh
    BY DEF DInv
  <2>2. {s \in Asked : s.intent = legs[job[w].leg].intent.id} = {}
        /\ ~Accepted(legs[job[w].leg], job[w].op)
    BY <1>1, <1>4, <2>1 DEF MutationIsFresh
  <2> QED
    BY <2>2
<1>6. /\ legs[job[w].leg].intent.op = job[w].op
      /\ legs[job[w].leg].intent.consumed # 0
  BY <1>1 DEF MayMutate, RequireMutation, RequireClaim
<1>7. job[w].op # "create" => job[w].item \in Made(job[w].leg)
  BY <1>1 DEF DInv, JobIsSound, SeenIsThere, Mutating
<1> QED
  BY <1>1, <1>2, <1>3, <1>5, <1>6, <1>7 DEF Leaves

\* The new item of a create is one of the items: there is an intent for every
\* request, and another one for this.
LEMMA RequestType ==
  ASSUME DInv, NEW w \in Workers, Send(w)
  PROVE  Request(w) \in Requests
<1> DEFINE p == job[w].leg
           id == legs[p].intent.id
           S == {r \in flight \cup done : r.op = "create"}
           T == (1..MaxIntents) \ {id}
<1>1. DispatchTypeOK /\ RequestsAreOwn /\ Leaves(w)
  BY SendLeaves DEF DInv
<1>2. /\ p \in Providers /\ id \in 1..MaxIntents /\ MaxIntents \in Nat
      /\ \A s \in Asked : s.intent # id
  <2>1. p \in Providers /\ legs[p].intent.consumed # 0 /\ \A s \in Asked : s.intent # id
    BY <1>1 DEF Leaves
  <2>2. id \in Nat /\ id <= MaxIntents /\ id # 0 /\ MaxIntents \in Nat
    BY <1>1, <2>1, Numbers
  <2> QED
    BY <2>1, <2>2
<1>3. IsFiniteSet(S) /\ Cardinality(S) \in Nat
  <2>1. IsFiniteSet(flight \cup done)
    BY <1>1, FS_Union DEF DispatchTypeOK
  <2>2. S \in SUBSET (flight \cup done)
    OBVIOUS
  <2> QED
    BY <2>1, <2>2, FS_Subset, FS_CardinalityType
<1>4. IsFiniteSet(T) /\ Cardinality(T) = MaxIntents - 1
  <2>1. IsFiniteSet(1..MaxIntents) /\ Cardinality(1..MaxIntents) = MaxIntents
    BY <1>2, FS_Interval
  <2> QED
    BY ZenonT(30), <1>2, <2>1, FS_RemoveElement
<1>5. Cardinality(S) <= MaxIntents - 1
  <2> DEFINE f == [r \in S |-> r.intent]
  <2>1. \A r \in S : r \in Asked /\ r.intent \in T
    BY <1>1, <1>2, Numbers DEF Asked
  <2>2. f \in [S -> T]
    BY <2>1
  <2>3. \A x, y \in S : f[x] = f[y] => x = y
    BY <1>1, <2>1 DEF RequestsAreOwn
  <2> HIDE DEF f, S, T
  <2>4. ~ (Cardinality(T) < Cardinality(S))
    BY <1>3, <1>4, <2>2, <2>3, FS_PigeonHole
  <2> QED
    BY <1>2, <1>3, <1>4, <2>4
<1>6. Cardinality(S) + 1 \in Items
  BY <1>2, <1>3, <1>5, DispatchAssumption
<1>7. job[w].op # "create" => job[w].item \in Items
  BY <1>1, MadeItems DEF Leaves, Request
<1>8. job[w].op \in Ops
  BY DEF DInv, JobIsSound, Send, At, Mutating
<1> QED
  BY <1>2, <1>6, <1>7, <1>8 DEF Request, Requests

\* A recovery starts every leg again, and sends nothing.
LEMMA Recovered ==
  ASSUME DispatchTypeOK, Recovers
  PROVE  /\ \A p \in Providers : /\ legs'[p].intent = NoIntent
                                 /\ legs'[p].receipts = << >>
                                 /\ legs'[p].result = "pending_provider"
         /\ Len(attempts') = Len(attempts) + 1
         /\ Terminal
         /\ UNCHANGED <<lastId, claim, held, job, flight, done>>
<1>1. PICK e \in [Providers -> Items] : AuthorizeRecovery(e) /\ UNCHANGED dispatchVars
  BY DEF Recovers
<1>2. TypeOK
  BY DEF DispatchTypeOK
<1>3. \A p \in Providers : legs'[p].result = "pending_provider"
  <2>1. legs' = [p \in Providers |-> Succeeding(legs[p])]
    BY <1>1 DEF AuthorizeRecovery
  <2> QED
    BY <1>2, <2>1, LegType DEF Succeeding, Legs
<1> QED
  BY <1>1, <1>2, <1>3, RecoveryFacts, RecoveredLegs DEF AuthorizeRecovery, dispatchVars

\* The provider's answer only moves a request, or loses it.
LEMMA ProvidedFacts ==
  ASSUME Provides
  PROVE  /\ UNCHANGED <<vars, msg, hinted, job>>
         /\ \E r \in flight : /\ flight' = flight \ {r}
                              /\ done' \in {done, done \cup {r}}
BY DEF Provides, Land, Drop

\* Items are made and published for good.
LEMMA Grows ==
  ASSUME DispatchTypeOK, JobIsSound, [DispatchNext]_allVars
  PROVE  /\ done \subseteq done'
         /\ \A p : Made(p) \subseteq Made(p)' /\ Public(p) \subseteq Public(p)'
<1>1. done \subseteq done'
  <2>1. Provides => done \subseteq done'
    BY ProvidedFacts
  <2>2. Recovers => done' = done
    BY Recovered
  <2> QED
    BY <2>1, <2>2, Kinds DEF SameMail, Send
<1> QED
  BY <1>1 DEF Made, Public

-----------------------------------------------------------------------------
(* One lemma per conjunct about intents and requests.                      *)

\* A new intent has a new number; a receipt has the number of its intent.
LEMMA NumberedStep ==
  ASSUME DInv, [DispatchNext]_allVars
  PROVE  IntentsAreNumbered'
<1> USE DEF IntentsAreNumbered
<1>0. DispatchTypeOK /\ JobIsSound /\ IntentsAreNumbered
  BY DEF DInv
<1>a. /\ lastId \in Nat
      /\ \A p \in Providers :
           /\ legs[p].intent.id \in Nat
           /\ legs[p].intent.consumed # 0 => legs[p].intent.id # 0
           /\ \A k \in DOMAIN legs[p].receipts : legs[p].receipts[k].intent \in Nat \ {0}
  BY <1>0, Numbers
<1>1. CASE SameBooks
  BY <1>0, <1>1 DEF SameBooks
<1>2. ASSUME NEW w \in Workers, Mutates(w) PROVE IntentsAreNumbered'
  <2> DEFINE p == job[w].leg
  <2>1. p \in Providers /\ OneLeg(p)
    BY <1>0, <1>2, MutatesFacts
  <2>2. CASE Intends(w, p)
    <3>1. /\ lastId' = lastId + 1
          /\ legs'[p].intent.id = lastId + 1
          /\ legs'[p].receipts = legs[p].receipts
      BY <2>2 DEF Intends
    <3> QED
      BY SMTT(30), <1>0, <1>a, <2>1, <3>1 DEF OneLeg
  <2>3. CASE Consumes(w, p)
    <3>1. /\ lastId' = lastId
          /\ legs'[p].intent.id = legs[p].intent.id
          /\ legs'[p].intent.op = legs[p].intent.op
          /\ legs'[p].receipts = legs[p].receipts
      BY <2>3 DEF Consumes
    <3>2. \A q \in Providers : /\ legs'[q].intent.id = legs[q].intent.id
                               /\ legs'[q].intent.op = legs[q].intent.op
                               /\ legs'[q].receipts = legs[q].receipts
      BY <2>1, <3>1 DEF OneLeg
    <3> HIDE DEF p
    <3> QED
      BY <1>0, <3>1, <3>2
  <2>4. ASSUME NEW ok, Receipted(p, ok) PROVE IntentsAreNumbered'
    <3>1. lastId' = lastId /\ legs'[p].intent = legs[p].intent /\ legs[p].intent.id # 0
      BY <1>a, <2>1, <2>4 DEF Receipted
    <3>2. \A q \in Providers : legs'[q].intent = legs[q].intent
      BY <2>1, <3>1 DEF OneLeg
    <3>3. \A q \in Providers : q # p => legs'[q].receipts = legs[q].receipts
      BY <2>1 DEF OneLeg
    <3>4. ASSUME NEW k \in DOMAIN legs'[p].receipts
          PROVE  /\ legs'[p].receipts[k].intent <= lastId
                 /\ \A q \in Providers : legs'[p].receipts[k].intent = legs[q].intent.id =>
                      p = q /\ legs'[p].receipts[k].op = legs[p].intent.op
      <4>1. CASE k \in DOMAIN legs[p].receipts
        BY <1>0, <2>1, <2>4, <4>1 DEF Receipted
      <4>2. CASE k \notin DOMAIN legs[p].receipts
        BY SMTT(30), <1>0, <2>1, <2>4, <3>1, <4>2 DEF Receipted
      <4> QED
        BY <4>1, <4>2
    <3> QED
      BY <1>0, <2>1, <3>1, <3>2, <3>3, <3>4
  <2> QED
    BY <1>0, <1>2, <2>2, <2>3, <2>4, MutatesFacts
<1>3. CASE Provides
  BY <1>0, <1>3, ProvidedFacts DEF vars, docVars
<1>4. CASE Recovers
  <2>1. \A p \in Providers : legs'[p].intent = NoIntent /\ legs'[p].receipts = << >>
    BY <1>0, <1>4, Recovered
  <2> QED
    BY <1>0, <1>4, <1>a, <2>1, Recovered DEF NoIntent
<1>5. ASSUME UNCHANGED vars PROVE SameBooks
  BY <1>5 DEF vars, docVars, SameBooks
<1> QED
  BY <1>0, <1>1, <1>2, <1>3, <1>4, <1>5, Kinds

\* A request leaves for a consumed intent that no other was sent for.
LEMMA OwnStep ==
  ASSUME DInv, [DispatchNext]_allVars
  PROVE  RequestsAreOwn'
<1> USE DEF RequestsAreOwn, Asked
<1>0. DispatchTypeOK /\ JobIsSound /\ RequestsAreOwn /\ IntentsAreNumbered
  BY DEF DInv
<1>a. /\ lastId \in Nat
      /\ \A p \in Providers :
           /\ legs[p].intent.id \in Nat
           /\ legs[p].intent.consumed # 0 => legs[p].intent.id # 0
      /\ \A r \in Asked : r \in Requests /\ r.intent \in Nat \ {0}
  BY <1>0, Numbers
<1>b. \A p : Made(p) \subseteq Made(p)'
  BY <1>0, Grows
<1>1. CASE SameBooks /\ SameMail
  BY <1>0, <1>1, <1>b DEF SameBooks, SameMail
<1>2. ASSUME NEW w \in Workers, Send(w), UNCHANGED vars PROVE RequestsAreOwn'
  <2> DEFINE p == job[w].leg
             r0 == Request(w)
  <2>1. Leaves(w)
    BY <1>2, SendLeaves
  <2>2. /\ p \in Providers
        /\ flight' = flight \cup {r0} /\ done' = done
        /\ r0.leg = p /\ r0.intent = legs[p].intent.id
        /\ legs[p].intent.op = r0.op
        /\ legs[p].intent.consumed # 0
        /\ \A s \in Asked : s.intent # r0.intent
        /\ r0.op # "create" => r0.item \in Made(p)
    BY <2>1 DEF Leaves
  <2>3. legs' = legs /\ lastId' = lastId
    BY <1>2 DEF vars, docVars
  <2> HIDE DEF p, r0
  <2>4. r0.intent <= lastId /\ r0.intent # 0
    BY <1>0, <1>a, <2>2 DEF IntentsAreNumbered
  <2>5. \A q \in Providers : r0.intent = legs[q].intent.id => q = p
    <3>1. \A t, q \in Providers :
            legs[t].intent.id = legs[q].intent.id => t = q \/ legs[t].intent.id = 0
      BY <1>0 DEF IntentsAreNumbered
    <3> QED
      BY <2>2, <2>4, <3>1
  <2> QED
    BY <1>0, <1>b, <2>2, <2>3, <2>4, <2>5
<1>3. ASSUME NEW w \in Workers, Mutates(w), SameMail PROVE RequestsAreOwn'
  <2> DEFINE p == job[w].leg
  <2>1. p \in Providers /\ OneLeg(p)
    BY <1>0, <1>3, MutatesFacts
  <2>2. \A q \in Providers \ {p} : legs'[q].intent = legs[q].intent
    BY <2>1 DEF OneLeg
  <2>3. \/ lastId' = lastId + 1 /\ legs'[p].intent.id = lastId + 1
        \/ /\ lastId' = lastId
           /\ legs'[p].intent.id = legs[p].intent.id
           /\ legs'[p].intent.op = legs[p].intent.op
           /\ legs[p].intent.consumed # 0 => legs'[p].intent.consumed # 0
    BY <1>0, <1>3, MutatesFacts DEF Intends, Consumes, Receipted
  <2> HIDE DEF p
  <2> QED
    BY <1>0, <1>3, <1>a, <1>b, <2>1, <2>2, <2>3 DEF SameMail
<1>4. CASE Provides
  <2>1. PICK r \in flight : flight' = flight \ {r} /\ done' \in {done, done \cup {r}}
    BY <1>4, ProvidedFacts
  <2>2. legs' = legs /\ lastId' = lastId
    BY <1>4, ProvidedFacts DEF vars, docVars
  <2> QED
    BY <1>0, <1>b, <2>1, <2>2
<1>5. CASE Recovers
  <2>1. \A p \in Providers : legs'[p].intent.id = 0
    BY <1>0, <1>5, Recovered DEF NoIntent
  <2> QED
    BY <1>0, <1>5, <1>a, <1>b, <2>1, Recovered
<1> QED
  BY <1>0, <1>1, <1>2, <1>3, <1>4, <1>5, Kinds

\* An answered intent is not under way, because its one request arrived.
LEMMA AnsweredStep ==
  ASSUME DInv, [DispatchNext]_allVars
  PROVE  OthersAreAnswered'
<1> USE DEF OthersAreAnswered, Asked, Last
<1>0. DispatchTypeOK /\ JobIsSound /\ RequestsAreOwn /\ IntentsAreNumbered /\ OthersAreAnswered
      /\ MutationIsFresh
  BY DEF DInv
<1>a. /\ Last \in Nat /\ Last >= 1
      /\ \A p \in Providers :
           /\ legs[p].intent.id # 0 => legs[p].intent # NoIntent
           /\ legs[p].intent.consumed # 0 => legs[p].intent.id # 0
      /\ \A r \in Asked : r \in Requests /\ r.intent # 0
  BY <1>0, Numbers
<1>b. \A r \in Asked : r.leg \in Providers
  BY <1>a DEF Requests
<1>1. CASE SameBooks /\ SameMail
  BY <1>0, <1>1, <1>b DEF SameBooks, SameMail
<1>2. ASSUME NEW w \in Workers, Send(w), UNCHANGED vars PROVE OthersAreAnswered'
  <2> DEFINE p == job[w].leg
             r0 == Request(w)
  <2>1. Leaves(w)
    BY <1>2, SendLeaves
  <2>2. /\ p \in Providers
        /\ flight' = flight \cup {r0} /\ done' = done
        /\ r0.leg = p /\ r0.intent = legs[p].intent.id
        /\ legs[p].intent.op = r0.op
        /\ ~Accepted(legs[p], r0.op)
    BY <2>1 DEF Leaves
  <2>3. legs' = legs /\ attempts' = attempts
    BY <1>2 DEF vars, docVars
  <2> HIDE DEF p, r0
  <2>4. \A q \in Providers : \A k \in DOMAIN legs[q].receipts :
          legs[q].receipts[k].accepted => r0.intent # legs[q].receipts[k].intent
    <3> SUFFICES ASSUME NEW q \in Providers, NEW k \in DOMAIN legs[q].receipts,
                        legs[q].receipts[k].accepted, r0.intent = legs[q].receipts[k].intent
                 PROVE  FALSE
      OBVIOUS
    <3>0. IntentsAreNumbered /\ p \in Providers
          /\ legs[q].receipts[k].intent = legs[p].intent.id
      BY <1>0, <2>2
    <3>1. p = q /\ legs[q].receipts[k].op = legs[p].intent.op
      BY <3>0 DEF IntentsAreNumbered
    <3> QED
      BY <2>2, <3>1 DEF Accepted
  <2>5. \A q \in Providers : \A k \in DOMAIN legs'[q].receipts :
          legs'[q].receipts[k].accepted =>
            \A r \in flight' : r.intent # legs'[q].receipts[k].intent
    <3>1. \A q \in Providers : \A k \in DOMAIN legs[q].receipts :
            legs[q].receipts[k].accepted =>
              \A r \in flight : r.intent # legs[q].receipts[k].intent
      BY <1>0
    <3> QED
      BY <2>2, <2>3, <2>4, <3>1
  <2>6. Last' = 1 => \A r \in Asked' :
          \/ r.intent = legs'[r.leg].intent.id
          \/ \E k \in DOMAIN legs'[r.leg].receipts :
               /\ legs'[r.leg].receipts[k].intent = r.intent
               /\ legs'[r.leg].receipts[k].accepted
    BY <1>0, <2>2, <2>3
  <2> QED
    BY <2>5, <2>6
<1>3. ASSUME NEW w \in Workers, Mutates(w), SameMail PROVE OthersAreAnswered'
  <2> DEFINE p == job[w].leg
  <2>1. p \in Providers /\ OneLeg(p)
    BY <1>0, <1>3, MutatesFacts
  <2>2. /\ \A q \in Providers \ {p} : legs'[q].intent = legs[q].intent
                                      /\ legs'[q].receipts = legs[q].receipts
        /\ Len(attempts') = Len(attempts)
    BY <2>1 DEF OneLeg
  <2>3. CASE Intends(w, p)
    <3>1. legs'[p].receipts = legs[p].receipts
      BY <2>3 DEF Intends
    <3>2. ASSUME NEW r \in Asked, r.leg = p, r.intent = legs[p].intent.id
          PROVE  \E k \in DOMAIN legs[p].receipts :
                    legs[p].receipts[k].intent = r.intent /\ legs[p].receipts[k].accepted
      <4>1. legs[p].intent # NoIntent
        BY <1>a, <2>1, <3>2
      <4> QED
        BY <2>3, <3>2, <4>1 DEF Intends, PriorResolved, Resolves
    <3> HIDE DEF p
    <3> QED
      BY <1>0, <1>3, <1>b, <2>1, <2>2, <3>1, <3>2 DEF SameMail
  <2>4. CASE Consumes(w, p)
    <3>1. legs'[p].receipts = legs[p].receipts /\ legs'[p].intent.id = legs[p].intent.id
      BY <2>4 DEF Consumes
    <3> HIDE DEF p
    <3> QED
      BY <1>0, <1>3, <1>b, <2>1, <2>2, <3>1 DEF SameMail
  <2>5. ASSUME NEW ok \in BOOLEAN, Receipted(p, ok), ok => job[w].pc = "accept"
        PROVE  OthersAreAnswered'
    <3>1. legs'[p].intent = legs[p].intent
      BY <2>5 DEF Receipted
    <3>2. \A r \in flight : ok => r.intent # legs[p].intent.id
      <4>1. Claimant(w)
        BY <1>0, <1>3, HolderActs
      <4>2. ok => \E s \in done : s.intent = legs[p].intent.id
        BY <1>0, <2>5, <4>1 DEF MutationIsFresh
      <4> QED
        BY <1>0, <4>2 DEF RequestsAreOwn
    <3>3. \A k \in DOMAIN legs'[p].receipts : legs'[p].receipts[k].accepted =>
            \A r \in flight : r.intent # legs'[p].receipts[k].intent
      <4>1. ASSUME NEW k \in DOMAIN legs'[p].receipts, legs'[p].receipts[k].accepted,
                   k \in DOMAIN legs[p].receipts
            PROVE  \A r \in flight : r.intent # legs'[p].receipts[k].intent
        BY <1>0, <2>1, <2>5, <4>1 DEF Receipted
      <4>2. ASSUME NEW k \in DOMAIN legs'[p].receipts, legs'[p].receipts[k].accepted,
                   k \notin DOMAIN legs[p].receipts
            PROVE  \A r \in flight : r.intent # legs'[p].receipts[k].intent
        BY <2>5, <3>2, <4>2 DEF Receipted
      <4> QED
        BY <4>1, <4>2
    <3>4. \A k \in DOMAIN legs[p].receipts :
            k \in DOMAIN legs'[p].receipts /\ legs'[p].receipts[k] = legs[p].receipts[k]
      BY <2>5 DEF Receipted
    <3> HIDE DEF p
    <3>5. \A q \in Providers : \A k \in DOMAIN legs'[q].receipts :
            legs'[q].receipts[k].accepted =>
              \A r \in flight : r.intent # legs'[q].receipts[k].intent
      BY <1>0, <2>1, <2>2, <3>3
    <3>6. \A q \in Providers :
            /\ legs'[q].intent = legs[q].intent
            /\ \A k \in DOMAIN legs[q].receipts :
                 k \in DOMAIN legs'[q].receipts /\ legs'[q].receipts[k] = legs[q].receipts[k]
      BY <2>1, <2>2, <3>1, <3>4
    <3> QED
      BY <1>0, <1>3, <1>b, <2>2, <3>5, <3>6 DEF SameMail
  <2> QED
    BY <1>0, <1>3, <2>3, <2>4, <2>5, MutatesFacts
<1>4. CASE Provides
  <2>1. PICK r \in flight : flight' = flight \ {r} /\ done' \in {done, done \cup {r}}
    BY <1>4, ProvidedFacts
  <2>2. legs' = legs /\ attempts' = attempts
    BY <1>4, ProvidedFacts DEF vars, docVars
  <2> QED
    BY <1>0, <2>1, <2>2
<1>5. CASE Recovers
  <2>1. \A p \in Providers : legs'[p].receipts = << >>
    BY <1>0, <1>5, Recovered
  <2>2. Len(attempts') # 1
    BY <1>0, <1>5, <1>a, Recovered
  <2> QED
    BY <2>1, <2>2
<1> QED
  BY <1>0, <1>1, <1>2, <1>3, <1>4, <1>5, Kinds

\* A create leaves only if none has left before.
LEMMA CreatesStep ==
  ASSUME DInv, [DispatchNext]_allVars
  PROVE  CreatesAreOne'
<1> USE DEF CreatesAreOne, Asked, Last
<1>0. DispatchTypeOK /\ JobIsSound /\ RequestsAreOwn /\ IntentsAreNumbered /\ CreatesAreOne
  BY DEF DInv
<1>a. /\ Last \in Nat /\ Last >= 1
      /\ \A p \in Providers :
           legs[p].intent.id # 0 => legs[p].intent # NoIntent
      /\ \A r \in Asked : r \in Requests /\ r.intent # 0
  BY <1>0, Numbers
<1>b. \A r \in Asked : r.leg \in Providers
  BY <1>a DEF Requests
<1>1. CASE SameBooks /\ SameMail
  <2>1. \A p \in Providers : Accepted(legs[p], "create") => Accepted(legs'[p], "create")
    BY <1>1 DEF SameBooks, Accepted
  <2> QED
    BY <1>0, <1>1, <1>b, <2>1 DEF SameBooks, SameMail
<1>2. ASSUME NEW w \in Workers, Send(w), UNCHANGED vars PROVE CreatesAreOne'
  <2> DEFINE p == job[w].leg
             r0 == Request(w)
  <2>1. Leaves(w)
    BY <1>2, SendLeaves
  <2>2. /\ p \in Providers
        /\ flight' = flight \cup {r0} /\ done' = done
        /\ r0.leg = p /\ r0.intent = legs[p].intent.id
        /\ legs[p].intent.op = r0.op
        /\ ~Accepted(legs[p], r0.op)
        /\ \A s \in Asked : s.intent # r0.intent
    BY <2>1 DEF Leaves
  <2>3. legs' = legs /\ attempts' = attempts
    BY <1>2 DEF vars, docVars
  <2> HIDE DEF p, r0
  <2>4. ASSUME r0.op = "create", NEW s \in Asked, s.op = "create", s.leg = p
        PROVE  FALSE
    <3>0. legs[p].intent.op = "create" /\ p \in Providers
      BY <2>2, <2>4
    <3>3. ~(Len(attempts) > 1)
      BY <1>0, <3>0
    <3>4. Len(attempts) \in Nat /\ Len(attempts) >= 1
      BY <1>a
    <3>1. Len(attempts) = 1
      <4>1. \A n \in Nat : n >= 1 /\ ~(n > 1) => n = 1
        OBVIOUS
      <4> QED
        BY <3>3, <3>4, <4>1, Zenon
    <3>2. s.intent = legs[p].intent.id \/ Accepted(legs[p], "create")
      BY <1>0, <2>4, <3>1
    <3> QED
      BY <2>2, <2>4, <3>2
  <2> QED
    BY <1>0, <2>2, <2>3, <2>4
<1>3. ASSUME NEW w \in Workers, Mutates(w), SameMail PROVE CreatesAreOne'
  <2> DEFINE p == job[w].leg
  <2>1. p \in Providers /\ OneLeg(p)
    BY <1>0, <1>3, MutatesFacts
  <2>2. /\ \A q \in Providers \ {p} : legs'[q] = legs[q]
        /\ Len(attempts') = Len(attempts)
    BY <2>1 DEF OneLeg
  <2>3. CASE Intends(w, p) /\ job[w].pc = "persist"
    <3>1. /\ legs'[p].receipts = legs[p].receipts
          /\ legs'[p].intent.op = job[w].op
      BY <2>3 DEF Intends
    <3>2. Last > 1 => job[w].op # "create"
      BY <1>0, <2>3 DEF Intends, JobIsSound, Mutating
    <3>3. ASSUME NEW r \in Asked, r.leg = p, r.op = "create", r.intent = legs[p].intent.id
          PROVE  Accepted(legs[p], "create")
      <4>1. legs[p].intent # NoIntent
        BY <1>a, <2>1, <3>3
      <4>2. PICK k \in DOMAIN legs[p].receipts :
              legs[p].receipts[k].intent = legs[p].intent.id /\ legs[p].receipts[k].accepted
        BY <2>3, <4>1 DEF Intends, PriorResolved, Resolves
      <4>3. legs[p].receipts[k].op = legs[p].intent.op
        BY <1>0, <2>1, <4>2 DEF IntentsAreNumbered
      <4>4. legs[p].intent.op = "create"
        BY <1>0, <2>1, <3>3 DEF RequestsAreOwn
      <4> QED
        BY <4>2, <4>3, <4>4 DEF Accepted
    <3>4. \A q \in Providers : Accepted(legs[q], "create") => Accepted(legs'[q], "create")
      BY <2>1, <2>2, <3>1 DEF Accepted
    <3> HIDE DEF p
    <3> QED
      BY <1>0, <1>3, <1>b, <2>1, <2>2, <3>1, <3>2, <3>3, <3>4 DEF SameMail
  <2>4. ASSUME legs'[p].intent.id = legs[p].intent.id, legs'[p].intent.op = legs[p].intent.op,
               DOMAIN legs[p].receipts \subseteq DOMAIN legs'[p].receipts,
               \A k \in DOMAIN legs[p].receipts : legs'[p].receipts[k] = legs[p].receipts[k]
        PROVE  CreatesAreOne'
    <3>1. \A q \in Providers : Accepted(legs[q], "create") => Accepted(legs'[q], "create")
      BY <2>1, <2>2, <2>4 DEF Accepted
    <3> HIDE DEF p
    <3> QED
      BY <1>0, <1>3, <1>b, <2>1, <2>2, <2>4, <3>1 DEF SameMail
  <2>5. CASE Consumes(w, p)
    BY <2>4, <2>5 DEF Consumes
  <2>6. ASSUME NEW ok, Receipted(p, ok) PROVE CreatesAreOne'
    BY <2>4, <2>6 DEF Receipted
  <2> QED
    BY <1>0, <1>3, <2>3, <2>5, <2>6, MutatesFacts
<1>4. CASE Provides
  <2>1. PICK r \in flight : flight' = flight \ {r} /\ done' \in {done, done \cup {r}}
    BY <1>4, ProvidedFacts
  <2>2. legs' = legs /\ attempts' = attempts
    BY <1>4, ProvidedFacts DEF vars, docVars
  <2> QED
    BY <1>0, <2>1, <2>2
<1>5. CASE Recovers
  <2>1. \A p \in Providers : legs'[p].intent.op = "none"
    BY <1>0, <1>5, Recovered DEF NoIntent
  <2>2. Len(attempts') # 1 /\ UNCHANGED <<flight, done>>
    BY <1>0, <1>5, <1>a, Recovered
  <2> QED
    BY <1>0, <2>1, <2>2
<1> QED
  BY <1>0, <1>1, <1>2, <1>3, <1>4, <1>5, Kinds

-----------------------------------------------------------------------------
(* What an execution is about to do.                                       *)

\* What MutationIsFresh says of one execution that holds the claim.
Fresh(w) ==
  LET p == job[w].leg
  IN /\ job[w].pc \in Mutating \ {"persist"} =>
          ~claim.readOnly /\ legs[p].intent.op = job[w].op
     /\ job[w].pc \in {"consume", "call"} => ~Accepted(legs[p], job[w].op)
     /\ job[w].pc = "call" => \A r \in Asked : r.intent # legs[p].intent.id
     /\ job[w].pc = "sent" /\ job[w].op # "create" =>
          \A r \in Asked : r.intent = legs[p].intent.id => r.item = job[w].item
     /\ job[w].pc = "accept" => \E r \in done : r.intent = legs[p].intent.id

\* MutationIsFresh, one execution at a time.
LEMMA FreshMeans ==
  MutationIsFresh <=> \A w \in Workers : Claimant(w) => Fresh(w)
<1>1. ASSUME NEW w \in Workers
      PROVE  (LET p == job[w].leg
                  mine == {r \in Asked : r.intent = legs[p].intent.id}
              IN /\ job[w].pc \in Mutating \ {"persist"} =>
                      ~claim.readOnly /\ legs[p].intent.op = job[w].op
                 /\ job[w].pc \in {"consume", "call"} => ~Accepted(legs[p], job[w].op)
                 /\ job[w].pc = "call" => mine = {}
                 /\ job[w].pc = "sent" /\ job[w].op # "create" =>
                      \A r \in mine : r.item = job[w].item
                 /\ job[w].pc = "accept" => mine \cap done # {})
             <=> Fresh(w)
  <2> DEFINE mine == {r \in Asked : r.intent = legs[job[w].leg].intent.id}
  <2>1. mine = {} <=> \A r \in Asked : r.intent # legs[job[w].leg].intent.id
    OBVIOUS
  <2>2. mine \cap done # {} <=> \E r \in done : r.intent = legs[job[w].leg].intent.id
    BY DEF Asked
  <2>3. ASSUME NEW i
        PROVE  (\A r \in mine : r.item = i) <=>
               \A r \in Asked : r.intent = legs[job[w].leg].intent.id => r.item = i
    OBVIOUS
  <2>4. (\A r \in mine : r.item = job[w].item) <=>
           \A r \in Asked : r.intent = legs[job[w].leg].intent.id => r.item = job[w].item
    BY <2>3
  <2> HIDE DEF mine
  <2>5. (/\ job[w].pc \in Mutating \ {"persist"} =>
               ~claim.readOnly /\ legs[job[w].leg].intent.op = job[w].op
         /\ job[w].pc \in {"consume", "call"} => ~Accepted(legs[job[w].leg], job[w].op)
         /\ job[w].pc = "call" => mine = {}
         /\ job[w].pc = "sent" /\ job[w].op # "create" =>
              \A r \in mine : r.item = job[w].item
         /\ job[w].pc = "accept" => mine \cap done # {})
        <=> Fresh(w)
    BY <2>1, <2>2, <2>4 DEF Fresh
  <2> QED
    BY <2>5 DEF mine
<1> QED
  BY <1>1, Zenon DEF MutationIsFresh

\* The steps that take an execution on with its mutation.
LEMMA MutatingMoves ==
  ASSUME DispatchTypeOK, JobIsSound, NEW w \in Workers, Runs(w)
  PROVE  \/ Persist(w) \/ Consume(w) \/ Send(w) \/ Confirm(w) \/ Misfire(w)
         \/ Renew(w)
         \/ job'[w].pc \notin Mutating \ {"persist"}
<1>1. ASSUME Accept(w) \/ Doubt(w) \/ Unknown(w)
      PROVE  job'[w].pc \notin Mutating \ {"persist"}
  BY <1>1, AcceptFacts, DoubtFacts DEF MutatedMoves, OnLeg, Mutating
<1>2. ASSUME LegWalk(w) PROVE job'[w].pc \notin Mutating \ {"persist"}
  <2>1. CASE Locate(w)
    BY <2>1, LocateFacts DEF LocateMoves, OnLeg, OffLeg, Mutating
  <2>2. CASE Read(w)
    BY <2>2, ReadFacts DEF ReadMoves, OnLeg, Mutating
  <2>3. CASE Playlist(w)
    BY <2>3, PlaylistFacts DEF PlaylistMoves, OnLeg, Mutating
  <2>4. CASE Note(w) \/ Pend(w)
    BY <2>4, PendFacts DEF OnLeg, Mutating
  <2>5. CASE HandOver(w) \/ Prove(w) \/ \E beyond \in BOOLEAN : Schedule(w, beyond)
    BY <2>5, EndFacts DEF OffLeg, Mutating
  <2> QED
    BY <1>2, <2>1, <2>2, <2>3, <2>4, <2>5 DEF LegWalk
<1>3. ASSUME Delivery(w), ~Renew(w) PROVE job'[w].pc \notin Mutating \ {"persist"}
  <2>1. ASSUME NEW m \in Messages, Receive(w, m)
        PROVE  job'[w].pc \notin Mutating \ {"persist"}
    BY <2>1, DeliveryFacts DEF OffLeg, Mutating
  <2>2. CASE TakeClaim(w) \/ Finish(w) \/ DeleteMessage(w) \/ Abandon(w)
    BY <2>2, DeliveryFacts DEF OffLeg, Mutating
  <2>3. ASSUME NEW enabled \in BOOLEAN, Start(w, enabled)
        PROVE  job'[w].pc \notin Mutating \ {"persist"}
    BY <2>3, StartFacts DEF OffLeg, Mutating
  <2>4. ASSUME NEW enabled \in BOOLEAN, Visit(w, enabled)
        PROVE  job'[w].pc \notin Mutating \ {"persist"}
    BY <2>4, VisitFacts DEF VisitMoves, OnLeg, OffLeg, Mutating
  <2>5. CASE ListPoisoned(w)
    BY <2>5, PoisonFacts DEF OffLeg, Mutating
  <2>6. ASSUME NEW p \in Providers, PoisonLeg(w, p)
        PROVE  job'[w].pc \notin Mutating \ {"persist"}
    BY <2>6, PoisonFacts DEF OffLeg, Mutating
  <2>7. ASSUME NEW p \in Providers, Survey(w, p)
        PROVE  job'[w].pc \notin Mutating \ {"persist"}
    BY <2>7, SurveyFacts DEF SurveyMoves, OffLeg, Mutating
  <2>8. ASSUME NEW p \in Providers, PickLeg(w, p)
        PROVE  job'[w].pc \notin Mutating \ {"persist"}
    BY <2>8, PickFacts DEF Takes, OffLeg, Mutating
  <2> QED
    BY <1>3, <2>1, <2>2, <2>3, <2>4, <2>5, <2>6, <2>7, <2>8 DEF Delivery
<1> QED
  BY <1>1, <1>2, <1>3 DEF Runs, Mutate

\* The step of the execution itself.
LEMMA FreshRun ==
  ASSUME DInv, [DispatchNext]_allVars, NEW w \in Workers, Runs(w), Claimant(w)'
  PROVE  Fresh(w)'
<1> DEFINE p == job[w].leg
<1>0. DispatchTypeOK /\ JobIsSound /\ RequestsAreOwn
  BY DEF DInv
<1>1. ASSUME Claimant(w) PROVE Fresh(w)
  BY <1>1, FreshMeans DEF DInv
<1>2. ASSUME job'[w].pc \notin Mutating \ {"persist"} PROVE Fresh(w)'
  BY <1>2 DEF Fresh, Mutating
<1>3. CASE TakeClaim(w) /\ Claim(w)
  <2>1. job'[w].pc \in {"start", "idle"}
    BY <1>0, <1>3, DeliveryFacts DEF OffLeg
  <2> QED
    BY <1>2, <2>1 DEF Mutating
<1>4. ASSUME Claimant(w), claim'.readOnly = claim.readOnly PROVE Fresh(w)'
  <2>1. Fresh(w)
    BY <1>1, <1>4
  <2>2. CASE Persist(w)
    <3>1. CASE MutatedMoves(w, job[w].item)
      <4>1. job'[w].pc \in {"read", "prove", "persist"}
        BY <3>1 DEF MutatedMoves, OnLeg
      <4> QED
        BY <1>2, <4>1 DEF Mutating
    <3>2. ASSUME OnLeg(w, "consume", job[w].op, job[w].item, job[w].seen), RequireMutation(w),
                 ~Accepted(legs[p], job[w].op), UNCHANGED vars, legs[p].intent.op = job[w].op
          PROVE  Fresh(w)'
      BY <1>4, <3>2 DEF Fresh, OnLeg, RequireMutation, vars, docVars, Mutating
    <3>3. ASSUME OnLeg(w, "consume", job[w].op, job[w].item, job[w].seen), RequireMutation(w),
                 ~Accepted(legs[p], job[w].op), PersistIntent(w, p, job[w].op, job[w].item)
          PROVE  Fresh(w)'
      <4>1. Mutates(w) /\ job[w].pc = "persist"
        BY <1>0, <2>2, <3>3, PersistFacts DEF Mutates
      <4>2. Intends(w, p)
        BY <1>0, <4>1, MutatesFacts
      <4>3. legs'[p].intent.op = job[w].op /\ legs'[p].receipts = legs[p].receipts
        BY <4>2 DEF Intends
      <4>4. ~Accepted(legs'[p], job[w].op)
        BY <3>3, <4>3 DEF Accepted
      <4> QED
        BY <1>4, <3>3, <4>3, <4>4 DEF Fresh, OnLeg, RequireMutation
    <3> QED
      BY <1>0, <2>2, <3>1, <3>2, <3>3, PersistFacts
  <2>3. CASE Consume(w)
    <3>1. Mutates(w) /\ job[w].pc = "consume"
      BY <2>3 DEF Mutates, Consume, At
    <3>2. p \in Providers /\ Consumes(w, p) /\ UNCHANGED <<flight, done>>
      BY <1>0, <2>3, <3>1, MutatesFacts DEF Consume
    <3>3. OnLeg(w, "call", job[w].op, job[w].item, job[w].seen)
      BY <1>0, <2>3, ConsumeFacts
    <3>4. ~Accepted(legs'[p], job[w].op) /\ legs'[p].intent.op = job[w].op
      BY <2>1, <3>1, <3>2 DEF Fresh, Consumes, Accepted, Mutating
    <3>5. \A r \in Asked : r.intent # legs'[p].intent.id
      BY <1>0, <3>2 DEF RequestsAreOwn, Consumes
    <3> QED
      BY <1>4, <3>2, <3>3, <3>4, <3>5 DEF Fresh, OnLeg, Consumes, RequireMutation, Asked
  <2>4. CASE Send(w)
    <3>1. OnLeg(w, "sent", job[w].op, job[w].item, job[w].seen) /\ job[w].pc = "call"
      BY <1>0, <2>4, SendFacts
    <3>2. Leaves(w) /\ legs' = legs
      BY <2>4, SendLeaves DEF Send, vars, docVars
    <3>3. \A r \in Asked' : r.intent = legs[p].intent.id => r = Request(w)
      BY <3>2 DEF Leaves, Asked
    <3>4. job[w].op # "create" => Request(w).item = job[w].item
      BY DEF Request
    <3>5. ~claim.readOnly /\ legs[p].intent.op = job[w].op
      BY <2>1, <3>1 DEF Fresh, Mutating
    <3> QED
      BY <1>4, <3>1, <3>2, <3>3, <3>4, <3>5 DEF Fresh, OnLeg
  <2>5. CASE Confirm(w)
    <3>1. PICK r \in done : /\ r.intent = legs[p].intent.id
                            /\ OnLeg(w, "accept", job[w].op, r.item, job[w].seen)
      BY <1>0, <2>5, ConfirmFacts
    <3>2. job[w].pc = "sent" /\ legs' = legs /\ done' = done
      BY <2>5 DEF Confirm, At, vars, docVars
    <3>3. ~claim.readOnly /\ legs[p].intent.op = job[w].op
      BY <2>1, <3>2 DEF Fresh, Mutating
    <3> QED
      BY <1>4, <3>1, <3>2, <3>3 DEF Fresh, OnLeg
  <2>6. CASE Misfire(w)
    <3>1. job[w].pc \in {"call", "sent"}
          /\ OnLeg(w, "doubt", job[w].op, job[w].item, job[w].seen)
      BY <1>0, <2>6, MisfireFacts
    <3>2. legs' = legs
      BY <2>6 DEF Misfire, vars, docVars
    <3>3. ~claim.readOnly /\ legs[p].intent.op = job[w].op
      BY <2>1, <3>1 DEF Fresh, Mutating
    <3> QED
      BY <1>4, <3>1, <3>2, <3>3 DEF Fresh, OnLeg
  <2>7. CASE Renew(w)
    <3>1. legs' = legs /\ job' = job /\ flight' = flight /\ done' = done
      BY <2>7 DEF Renew, Heartbeat, dispatchVars
    <3> QED
      BY <1>4, <2>1, <3>1 DEF Fresh, Asked
  <2> QED
    BY <1>0, <1>2, <2>2, <2>3, <2>4, <2>5, <2>6, <2>7, MutatingMoves
<1> QED
  BY <1>0, <1>3, <1>4, ClaimantStep

\* The step of somebody else.
LEMMA FreshRest ==
  ASSUME DInv, [DispatchNext]_allVars, NEW v \in Workers, Claimant(v)', job'[v] = job[v],
         \A w \in Workers : w # v \/ ~Runs(w)
  PROVE  Fresh(v)'
<1> DEFINE p == job[v].leg
<1>0. /\ DispatchTypeOK /\ JobIsSound /\ MutatorOwnsAttempt
      /\ \A w \in Workers : Claimant(w) => Fresh(w)
      /\ job[v].pc \in Mutating => p \in Providers
  BY FreshMeans, WalkingLeg DEF DInv, IInv, Mutating, Walking
<1>1. ~TakeClaim(v)
  BY DEF Runs, Delivery
<1>2. Claimant(v) /\ claim'.readOnly = claim.readOnly /\ Fresh(v)
  BY <1>0, <1>1, ClaimantStep
<1>3. \A w \in Workers : ~Send(w) /\ ~Mutates(w)
  <2>1. ASSUME NEW w \in Workers, Send(w) \/ Mutates(w) PROVE FALSE
    <3>1. w = v
      BY <1>0, <1>2, <2>1, HolderActs, OneClaimant
    <3> QED
      BY <2>1, <3>1 DEF Runs, Mutate, Mutates
  <2> QED
    BY <2>1
<1>4. CASE SameBooks /\ SameMail
  <2>1. p \in Providers => /\ legs'[p].intent = legs[p].intent
                           /\ legs'[p].receipts = legs[p].receipts
    BY <1>4 DEF SameBooks
  <2>2. Asked' = Asked /\ done' = done
    BY <1>4 DEF SameMail, Asked
  <2>3. p \in Providers => (Accepted(legs'[p], job[v].op) <=> Accepted(legs[p], job[v].op))
    BY <2>1 DEF Accepted
  <2>4. CASE p \in Providers
    BY <1>2, <2>1, <2>2, <2>3, <2>4 DEF Fresh
  <2>5. CASE p \notin Providers
    BY <1>0, <2>5 DEF Fresh, Mutating
  <2> QED
    BY <2>4, <2>5
<1>5. CASE Provides
  <2>1. legs' = legs
    BY <1>5, ProvidedFacts DEF vars, docVars
  <2>2. done \subseteq done' /\ Asked' \subseteq Asked
    BY <1>5, ProvidedFacts DEF Asked
  <2> QED
    BY <1>2, <2>1, <2>2 DEF Fresh
<1>6. CASE Recovers
  <2>1. claim.readOnly
    BY <1>0, <1>6, Recovered DEF MutatorOwnsAttempt
  <2>2. job[v].pc \notin Mutating \ {"persist"}
    BY <1>2, <2>1 DEF Fresh
  <2> QED
    BY <2>2 DEF Fresh, Mutating
<1> QED
  BY <1>0, <1>3, <1>4, <1>5, <1>6, Kinds

\* So every step keeps the mutation of the holder a fresh one.
LEMMA FreshStep ==
  ASSUME DInv, [DispatchNext]_allVars
  PROVE  MutationIsFresh'
<1>0. DispatchTypeOK /\ JobIsSound
  BY DEF DInv
<1>1. ASSUME NEW v \in Workers, Claimant(v)' PROVE Fresh(v)'
  <2>1. CASE Runs(v)
    BY <1>1, <2>1, FreshRun
  <2>2. CASE ~Runs(v)
    <3>1. job'[v] = job[v]
      <4>1. Provides \/ Recovers \/ Quiet => job' = job
        BY <1>0, ProvidedFacts, Recovered DEF Quiet
      <4>2. ASSUME NEW w \in Workers, Runs(w) PROVE job'[v] = job[v]
        <5>1. Turn(w) /\ w # v
          BY <1>0, <2>2, <4>2, RunMoves, RunTurns
        <5> QED
          BY <5>1 DEF Turn
      <4> QED
        BY <1>0, <4>1, <4>2, WhoSteps
    <3> QED
      BY <1>1, <2>2, <3>1, FreshRest
  <2> QED
    BY <2>1, <2>2
<1>2. (\A w \in Workers : Claimant(w) => Fresh(w))'
  BY <1>1
<1>3. MutationIsFresh' <=> (\A w \in Workers : Claimant(w) => Fresh(w))'
  BY FreshMeans, PTL
<1> QED
  BY <1>2, <1>3


-----------------------------------------------------------------------------
(* What an execution saw.                                                  *)

\* What SeenIsThere says of one execution.
Sees(w) ==
  /\ job[w].seen # "none" => job[w].item \in Made(job[w].leg)
  /\ job[w].seen = "public" => job[w].item \in Public(job[w].leg)

\* A step on a leg keeps its item in sight, when it knew or finds it.
LEMMA OnLegSees ==
  ASSUME DispatchTypeOK, JobIsSound, [DispatchNext]_allVars, NEW w \in Workers,
         NEW pc, NEW op, NEW item, NEW seen, OnLeg(w, pc, op, item, seen),
         seen # "none" => item \in Made(job[w].leg),
         seen = "public" => item \in Public(job[w].leg)
  PROVE  Sees(w)'
BY Grows DEF Sees, OnLeg

\* The step of an execution itself.
LEMMA SeesRun ==
  ASSUME DInv, [DispatchNext]_allVars, NEW w \in Workers, Runs(w)
  PROVE  Sees(w)'
<1> DEFINE p == job[w].leg
<1>0. DispatchTypeOK /\ JobIsSound /\ Sees(w)
  BY DEF DInv, SeenIsThere, Sees
<1>1. ASSUME NEW pc, NEW op, OnLeg(w, pc, op, job[w].item, job[w].seen) PROVE Sees(w)'
  BY <1>0, <1>1, OnLegSees DEF Sees
<1>2. ASSUME NEW pc, NEW op, NEW item, OnLeg(w, pc, op, item, job[w].seen),
             job[w].seen = "none"
      PROVE  Sees(w)'
  BY <1>0, <1>2, OnLegSees
<1>3. ASSUME job'[w].seen = "none" PROVE Sees(w)'
  BY <1>3 DEF Sees
<1>4. CASE CallMoves(w)
  <2>1. ASSUME MutatedMoves(w, job[w].item) PROVE Sees(w)'
    BY <1>1, <2>1 DEF MutatedMoves
  <2>2. ASSUME job[w].pc = "sent", RequireMutation(w), NEW r \in done,
               r.intent = legs[p].intent.id,
               OnLeg(w, "accept", job[w].op, r.item, job[w].seen)
        PROVE  Sees(w)'
    <3>1. CASE job[w].op = "create"
      <4>1. job[w].seen = "none"
        BY <1>0, <2>2, <3>1 DEF JobIsSound, Mutating
      <4> QED
        BY <1>2, <2>2, <4>1
    <3>2. CASE job[w].op # "create"
      <4>1. Claimant(w)
        BY <2>2, RequiredClaimant DEF RequireMutation
      <4>2. Fresh(w)
        BY <4>1, FreshMeans DEF DInv
      <4>3. r.item = job[w].item
        BY <2>2, <3>2, <4>2 DEF Fresh, Asked
      <4> QED
        BY <1>1, <2>2, <4>3
    <3> QED
      BY <3>1, <3>2
  <2> QED
    BY <1>1, <1>4, <2>1, <2>2 DEF CallMoves, Stays
<1>5. CASE LegMoves(w)
  <2>1. CASE job[w].pc = "visit" /\ VisitMoves(w)
    BY <1>1, <1>3, <2>1 DEF VisitMoves, OffLeg
  <2>2. CASE job[w].pc = "locate" /\ LocateMoves(w)
    <3>1. job[w].seen = "none"
      BY <1>0, <2>2 DEF JobIsSound
    <3> QED
      BY <1>1, <1>2, <1>3, <2>2, <3>1 DEF LocateMoves, OffLeg
  <2>3. CASE job[w].pc = "read" /\ ReadMoves(w)
    <3>1. PICK step \in {"pend", "prove", "playlist", "note", "handover", "persist"},
               seen \in {"hidden", "public"} :
            /\ job[w].item \in Made(job[w].leg)
            /\ seen = "public" => job[w].item \in Public(job[w].leg)
            /\ OnLeg(w, step, IF step = "persist" THEN "publish" ELSE job[w].op,
                     job[w].item, seen)
      BY <2>3 DEF ReadMoves
    <3> DEFINE op == IF step = "persist" THEN "publish" ELSE job[w].op
    <3>2. OnLeg(w, step, op, job[w].item, seen)
      BY <3>1
    <3> HIDE DEF op
    <3> QED
      BY <1>0, <3>1, <3>2, OnLegSees
  <2> QED
    BY <1>1, <1>5, <2>1, <2>2, <2>3 DEF LegMoves, PlaylistMoves, Stays
<1>6. CASE RestMoves(w)
  <2>1. CASE job' = job
    BY <1>0, <2>1, Grows DEF Sees
  <2> QED
    BY <1>3, <1>6, <2>1 DEF RestMoves, Takes, OffLeg
<1> QED
  BY <1>0, <1>4, <1>5, <1>6, RunMoves

\* So what the executions saw stays in place.
LEMMA SeenStep ==
  ASSUME DInv, [DispatchNext]_allVars
  PROVE  SeenIsThere'
<1>0. DispatchTypeOK /\ JobIsSound /\ \A w \in Workers : Sees(w)
  BY DEF DInv, SeenIsThere, Sees
<1>1. ASSUME NEW v \in Workers PROVE Sees(v)'
  <2>1. ASSUME job'[v] = job[v] PROVE Sees(v)'
    BY <1>0, <2>1, Grows DEF Sees
  <2>2. ASSUME NEW w \in Workers, Runs(w) PROVE Sees(v)'
    <3>1. CASE w = v
      BY <2>2, <3>1, SeesRun
    <3>2. CASE w # v
      <4>1. Turn(w)
        BY <1>0, <2>2, RunMoves, RunTurns
      <4> QED
        BY <2>1, <3>2, <4>1 DEF Turn
    <3> QED
      BY <3>1, <3>2
  <2>3. Provides \/ Recovers \/ Quiet => job' = job
    BY <1>0, ProvidedFacts, Recovered DEF Quiet
  <2> QED
    BY <1>0, <2>1, <2>2, <2>3, WhoSteps
<1> QED
  BY <1>1 DEF SeenIsThere, Sees

-----------------------------------------------------------------------------
(* Type correctness.                                                       *)

Queue == [state : {"absent", "visible", "taken"}, dequeues : 0..MaxDequeue,
          holder : Workers \cup {NoWorker}]

\* The messages stay messages.
LEMMA QueueStep ==
  ASSUME DispatchTypeOK, [DispatchNext]_allVars
  PROVE  msg' \in [Messages -> Queue] /\ hinted' \in BOOLEAN
<1>0. msg \in [Messages -> Queue] /\ hinted \in BOOLEAN
  BY DEF DispatchTypeOK, Queue
<1>1. Deleted \in Queue /\ Sent \in Queue
  BY DispatchAssumption DEF Deleted, Sent, Queue
<1>2. ASSUME UNCHANGED <<msg, hinted>>
      PROVE  msg' \in [Messages -> Queue] /\ hinted' \in BOOLEAN
  BY <1>0, <1>2
<1>3. ASSUME NEW w \in Workers, NEW m \in Messages, Receive(w, m)
      PROVE  msg' \in [Messages -> Queue] /\ hinted' \in BOOLEAN
  <2> DEFINE n == IF msg[m].dequeues < MaxDequeue THEN msg[m].dequeues + 1
                  ELSE MaxDequeue
             q == [state |-> "taken", dequeues |-> n, holder |-> w]
  <2>1. n \in 0..MaxDequeue
    BY <1>0, DispatchAssumption DEF Queue
  <2>2. q \in Queue
    BY <2>1 DEF Queue
  <2>3. msg' = [msg EXCEPT ![m] = q] /\ hinted' = hinted
    BY <1>3 DEF Receive
  <2> HIDE DEF q
  <2> QED
    BY <1>0, <2>2, <2>3
<1>4. ASSUME NEW w \in Workers, DeleteMessage(w)
      PROVE  msg' \in [Messages -> Queue] /\ hinted' \in BOOLEAN
  <2>1. \E q \in Queue : msg' = [msg EXCEPT ![job[w].msg] = q] \/ msg' = msg
    BY <1>0, <1>1, <1>4 DEF DeleteMessage, Delete
  <2> QED
    BY <1>0, <1>4, <2>1 DEF DeleteMessage
<1>5. ASSUME NEW w \in Workers, Runs(w), \A m \in Messages : ~Receive(w, m), ~DeleteMessage(w)
      PROVE  UNCHANGED <<msg, hinted>>
  BY <1>5 DEF Runs, Delivery, LegWalk, Mutate, TakeClaim, Start, Visit, Renew, ListPoisoned,
     PoisonLeg, Survey, PickLeg, Finish, Abandon, Locate, Read, HandOver, Note, Playlist, Prove,
     Pend, Schedule, Persist, Consume, Send, Confirm, Misfire, Accept, Doubt, Unknown,
     dispatchVars
<1>6. ASSUME NEW m \in Messages, Reappear(m)
      PROVE  msg' \in [Messages -> Queue] /\ hinted' \in BOOLEAN
  <2> DEFINE q == [msg[m] EXCEPT !.state = "visible"]
  <2>1. q \in Queue
    BY <1>0 DEF Queue
  <2>2. msg' = [msg EXCEPT ![m] = q] /\ hinted' = hinted
    BY <1>0, <1>6 DEF Reappear
  <2> HIDE DEF q
  <2> QED
    BY <1>0, <2>1, <2>2
<1>7. ASSUME NEW m \in Messages, NEW b \in BOOLEAN, Hint(m, b) \/ Notify(m, b)
      PROVE  msg' \in [Messages -> Queue] /\ hinted' \in BOOLEAN
  BY <1>0, <1>1, <1>7 DEF Hint, Notify
<1>8. ASSUME NEW r, Land(r) \/ Drop(r)
      PROVE  UNCHANGED <<msg, hinted>>
  BY <1>8 DEF Land, Drop
<1>9. ASSUME Elsewhere \/ UNCHANGED allVars
      PROVE  UNCHANGED <<msg, hinted>>
  BY <1>9 DEF Elsewhere, allVars, dispatchVars
<1> QED
  BY <1>2, <1>3, <1>4, <1>5, <1>6, <1>7, <1>8, <1>9 DEF DispatchNext, Runs

\* The requests stay requests, and finitely many.
LEMMA MailStep ==
  ASSUME DInv, [DispatchNext]_allVars
  PROVE  /\ flight' \subseteq Requests /\ done' \subseteq Requests
         /\ IsFiniteSet(flight') /\ IsFiniteSet(done')
<1>0. /\ DispatchTypeOK /\ JobIsSound
      /\ flight \subseteq Requests /\ done \subseteq Requests
      /\ IsFiniteSet(flight) /\ IsFiniteSet(done)
  BY DEF DInv, DispatchTypeOK
<1>1. ASSUME NEW w \in Workers, Send(w)
      PROVE  flight' \subseteq Requests /\ IsFiniteSet(flight') /\ done' = done
  <2>1. Request(w) \in Requests /\ flight' = flight \cup {Request(w)} /\ done' = done
    BY <1>1, RequestType DEF Send
  <2>2. IsFiniteSet(flight \cup {Request(w)})
    BY <1>0, FS_AddElement
  <2> QED
    BY <1>0, <2>1, <2>2
<1>2. CASE Provides
  <2>1. PICK r \in flight : flight' = flight \ {r} /\ done' \in {done, done \cup {r}}
    BY <1>2, ProvidedFacts
  <2>2. IsFiniteSet(flight \ {r}) /\ IsFiniteSet(done \cup {r})
    BY <1>0, FS_AddElement, FS_RemoveElement
  <2> QED
    BY <1>0, <2>1, <2>2
<1>3. SameMail \/ Recovers => flight' = flight /\ done' = done
  BY <1>0, Recovered DEF SameMail
<1> QED
  BY <1>0, <1>1, <1>2, <1>3, Kinds

\* So every variable keeps its type.
LEMMA DispatchTypeStep ==
  ASSUME DInv, [DispatchNext]_allVars
  PROVE  DispatchTypeOK'
<1>1. IInv /\ DispatchTypeOK /\ JobIsSound
  BY DEF DInv
<1>2. TypeOK'
  BY <1>1, ItemInvStep DEF IInv
<1> QED
  BY <1>1, <1>2, QueueStep, MailStep, JobIsSoundStep DEF DispatchTypeOK, Queue

-----------------------------------------------------------------------------
(* The verdicts on the legs.                                               *)

SameVerdicts ==
  \A p \in Providers : /\ legs'[p].result = legs[p].result
                       /\ legs'[p].verif = legs[p].verif

\* One leg is judged that was open, and is called public only if it is.  (A
\* poisoned leg may be poisoned again.)
Judgement(p) ==
  /\ \A q \in Providers \ {p} : /\ legs'[q].result = legs[q].result
                                /\ legs'[q].verif = legs[q].verif
  /\ legs'[p].result = "externally_verified_public" => legs'[p].verif.item \in Public(p)
  /\ \/ legs[p].result \notin Finished
     \/ legs[p].result = "poisoned" /\ legs'[p].result = "poisoned"

Verdicts == SameVerdicts \/ \E p \in Providers : Judgement(p)

\* What WalkIsOpen says of one execution.
Open(w) ==
  LET j == job[w]
  IN /\ j.leg # NoLeg => legs[j.leg].result \notin Finished
     /\ \A p \in j.active : legs[p].result \notin Finished
     /\ j.pc = "pick" \/ j.pc \in Walking =>
          \A p \in j.todo : legs[p].result \notin Finished
     /\ j.pc = "poison" =>
          \A p \in j.todo : legs[p].result \notin Preserved

\* What record_verification makes of the legs.
LEMMA RecordedVerdict ==
  ASSUME TypeOK, NEW w \in Workers, NEW p \in Providers, NEW r, RecordVerification(w, p, r)
  PROVE  /\ RequireClaim(w)
         /\ \A q \in Providers \ {p} : legs'[q] = legs[q]
         /\ legs'[p].result \in {r.result, "identity_conflict"}
         /\ r.result # "externally_verified_public" => legs'[p].result = r.result
         /\ legs'[p].verif.item = r.item
<1> DEFINE v == Verification(legs[p], r)
           leg == [legs[p] EXCEPT !.verif = v, !.result = v.result, !.checks = @ + 1]
<1>1. /\ v.result \in {r.result, "identity_conflict"}
      /\ r.result # "externally_verified_public" => v.result = r.result
      /\ v.item = r.item
  BY DEF Verification
<1>2. RequireClaim(w) /\ legs' = [legs EXCEPT ![p] = leg]
  BY DEF RecordVerification
<1>3. legs[p] \in Legs
  BY LegType
<1> HIDE DEF v
<1>4. leg.verif = v /\ leg.result = v.result
  BY <1>3 DEF Legs
<1> HIDE DEF leg
<1> QED
  BY <1>1, <1>2, <1>4 DEF TypeOK

\* What schedule_provider_reconciliation makes of them.
LEMMA ScheduledVerdict ==
  ASSUME TypeOK, NEW w \in Workers, NEW p \in Providers, NEW beyond \in BOOLEAN,
         ScheduleReconciliation(w, p, beyond)
  PROVE  /\ RequireClaim(w)
         /\ \A q \in Providers \ {p} : legs'[q] = legs[q]
         /\ legs'[p].result \in {"pending_provider", "manual_handoff_required"}
<1>1. legs[p] \in Legs
  BY LegType
<1>2. CASE legs' = [legs EXCEPT
             ![p].result = "manual_handoff_required",
             ![p].verif = IF @ = NoVerification THEN @
                          ELSE [@ EXCEPT !.result = "manual_handoff_required"]]
  <2> DEFINE v == IF legs[p].verif = NoVerification THEN legs[p].verif
                  ELSE [legs[p].verif EXCEPT !.result = "manual_handoff_required"]
             leg == [legs[p] EXCEPT !.result = "manual_handoff_required", !.verif = v]
  <2>1. leg.result = "manual_handoff_required"
    BY <1>1 DEF Legs
  <2>2. legs' = [legs EXCEPT ![p] = leg]
    BY <1>1, <1>2 DEF Legs, TypeOK
  <2> HIDE DEF leg
  <2> QED
    BY <2>1, <2>2 DEF ScheduleReconciliation, TypeOK
<1>3. CASE legs' = [legs EXCEPT ![p].result = "pending_provider"]
  <2> DEFINE leg == [legs[p] EXCEPT !.result = "pending_provider"]
  <2>1. leg.result = "pending_provider"
    BY <1>1 DEF Legs
  <2>2. legs' = [legs EXCEPT ![p] = leg]
    BY <1>3
  <2> HIDE DEF leg
  <2> QED
    BY <2>1, <2>2 DEF ScheduleReconciliation, TypeOK
<1> QED
  BY <1>2, <1>3 DEF ScheduleReconciliation

\* A walk that goes on with less, after a verdict on none of what is left, is
\* still over open legs.
LEMMA OpenKept ==
  ASSUME DispatchTypeOK, NEW w \in Workers, Open(w),
         \A q \in Providers : \/ legs'[q].result = legs[q].result
                              \/ /\ q \notin job'[w].todo \cup job'[w].active
                                 /\ q = job'[w].leg => legs'[q].result \notin Finished,
         job'[w].leg \in {NoLeg, job[w].leg},
         job'[w].todo \subseteq job[w].todo, job'[w].active \subseteq job[w].active,
         job'[w].pc = "pick" \/ job'[w].pc \in Walking =>
           job[w].pc = "pick" \/ job[w].pc \in Walking,
         job'[w].pc = "poison" => job[w].pc = "poison"
  PROVE  Open(w)'
<1>1. /\ job[w].todo \subseteq Providers /\ job[w].active \subseteq Providers
      /\ job[w].leg \in Providers \cup {NoLeg}
  BY JobType DEF DispatchTypeOK
<1> QED
  BY <1>1 DEF Open

\* w goes on with its leg, somehow.
Onwards(w) == \E pc \in Walking : \E op, item, seen : OnLeg(w, pc, op, item, seen)

\* The holder judges the leg it walks, and leaves it, or goes on when the leg
\* stays open.
LEMMA LegJudged ==
  ASSUME DInv, NEW w \in Workers, RequireClaim(w), job[w].pc \in Walking,
         \A q \in Providers \ {job[w].leg} : legs'[q] = legs[q],
         legs'[job[w].leg].result = "externally_verified_public" =>
           legs'[job[w].leg].verif.item \in Public(job[w].leg),
         \/ OffLeg(w, "pick", job[w].todo, job[w].active)
         \/ /\ legs'[job[w].leg].result \notin Finished
            /\ Onwards(w)
  PROVE  Verdicts /\ Open(w)'
<1> DEFINE p == job[w].leg
<1>0. DispatchTypeOK /\ JobIsSound /\ p \in Providers /\ Open(w)
  BY RequiredClaimant, WalkingLeg DEF DInv, WalkIsOpen, Open
<1>1. p \notin job[w].todo /\ job[w].active = {} /\ p # NoLeg
  BY <1>0, DispatchAssumption DEF JobIsSound, Walking
<1>2. legs[p].result \notin Finished
  BY <1>0, <1>1 DEF Open
<1>3. Judgement(p)
  BY <1>0, <1>2 DEF Judgement
<1>4. ASSUME OffLeg(w, "pick", job[w].todo, job[w].active) PROVE Open(w)'
  BY <1>0, <1>1, <1>4, DispatchAssumption, OpenKept DEF OffLeg
<1>5. ASSUME legs'[p].result \notin Finished, NEW pc \in Walking, NEW op, NEW item, NEW seen,
             OnLeg(w, pc, op, item, seen)
      PROVE  Open(w)'
  <2>1. "poison" \notin Walking
    BY DEF Walking
  <2> QED
    BY <1>0, <1>1, <1>5, <2>1, OpenKept DEF OnLeg
<1> QED
  BY <1>0, <1>3, <1>4, <1>5 DEF Verdicts, Onwards

\* The steps that judge the leg of the walk.
LEMMA WalkJudges ==
  ASSUME DInv, NEW w \in Workers
  PROVE  /\ HandOver(w) => Verdicts /\ Open(w)'
         /\ Prove(w) => Verdicts /\ Open(w)'
         /\ Note(w) \/ Pend(w) => Verdicts /\ Open(w)'
         /\ Unknown(w) => Verdicts /\ Open(w)'
         /\ (\E beyond \in BOOLEAN : Schedule(w, beyond)) => Verdicts /\ Open(w)'
<1> DEFINE p == job[w].leg
<1>0. DispatchTypeOK /\ JobIsSound /\ TypeOK /\ (job[w].pc \in Walking => p \in Providers)
  BY WalkingLeg DEF DInv, DispatchTypeOK
<1>1. {"handover", "prove", "note", "pend", "unknown", "schedule", "raise", "playlist"}
        \subseteq Walking
  BY DEF Walking
<1>2. {"pending_provider", "publication_unknown"} \cap Finished = {}
  BY DEF Finished
<1>3. ASSUME HandOver(w) PROVE Verdicts /\ Open(w)'
  <2>1. job[w].pc = "handover" /\ OffLeg(w, "pick", job[w].todo, job[w].active)
    BY <1>0, <1>3, EndFacts
  <2> DEFINE r == Outcome("manual_handoff_required", job[w].item, "hidden", FALSE)
  <2>2. r.result = "manual_handoff_required" /\ RecordVerification(w, p, r)
    BY <1>3 DEF HandOver, Outcome
  <2> HIDE DEF r
  <2> QED
    BY <1>0, <1>1, <2>1, <2>2, RecordedVerdict, LegJudged
<1>4. ASSUME Prove(w) PROVE Verdicts /\ Open(w)'
  <2>1. job[w].pc = "prove" /\ OffLeg(w, "pick", job[w].todo, job[w].active)
    BY <1>0, <1>4, EndFacts
  <2> DEFINE r == Outcome("externally_verified_public", job[w].item, "public", TRUE)
  <2>2. r.item = job[w].item /\ RecordVerification(w, p, r)
    BY <1>4 DEF Prove, Outcome
  <2>3. job[w].item \in Public(p)
    BY <1>0, <2>1 DEF DInv, SeenIsThere, JobIsSound
  <2> HIDE DEF r
  <2> QED
    BY <1>0, <1>1, <2>1, <2>2, <2>3, RecordedVerdict, LegJudged
<1>5. ASSUME Note(w) \/ Pend(w) PROVE Verdicts /\ Open(w)'
  <2>1. job[w].pc \in Walking /\ Onwards(w)
    BY <1>0, <1>1, <1>5, PendFacts DEF Onwards
  <2> DEFINE r == Outcome("pending_provider", job[w].item, job[w].seen, FALSE)
  <2>2. r.result = "pending_provider" /\ RecordVerification(w, p, r)
    BY <1>5 DEF Note, Pend, RecordPending, Outcome
  <2> HIDE DEF r
  <2>3. legs'[p].result = "pending_provider" /\ RequireClaim(w)
        /\ \A q \in Providers \ {p} : legs'[q] = legs[q]
    BY <1>0, <2>1, <2>2, RecordedVerdict
  <2> QED
    BY <1>2, <2>1, <2>3, LegJudged
<1>6. ASSUME Unknown(w) PROVE Verdicts /\ Open(w)'
  <2>1. job[w].pc \in Walking /\ Onwards(w)
    BY <1>0, <1>1, <1>6, DoubtFacts DEF Onwards
  <2> DEFINE r == Outcome("publication_unknown", job[w].item, "none", FALSE)
  <2>2. r.result = "publication_unknown" /\ RecordVerification(w, p, r)
    BY <1>6 DEF Unknown, Outcome
  <2> HIDE DEF r
  <2>3. legs'[p].result = "publication_unknown" /\ RequireClaim(w)
        /\ \A q \in Providers \ {p} : legs'[q] = legs[q]
    BY <1>0, <2>1, <2>2, RecordedVerdict
  <2> QED
    BY <1>2, <2>1, <2>3, LegJudged
<1>7. ASSUME NEW beyond \in BOOLEAN, Schedule(w, beyond) PROVE Verdicts /\ Open(w)'
  <2>1. job[w].pc = "schedule" /\ OffLeg(w, "pick", job[w].todo, job[w].active)
    BY <1>0, <1>7, EndFacts
  <2>2. ScheduleReconciliation(w, p, beyond)
    BY <1>7 DEF Schedule
  <2> QED
    BY <1>0, <1>1, <2>1, <2>2, ScheduledVerdict, LegJudged
<1> QED
  BY <1>3, <1>4, <1>5, <1>6, <1>7

\* The steps that may also leave it unjudged.
LEMMA VisitJudges ==
  ASSUME DInv, NEW w \in Workers
  PROVE  /\ \A enabled \in BOOLEAN : Visit(w, enabled) =>
              Verdicts /\ (Claimant(w) => Open(w)')
         /\ Locate(w) => Verdicts /\ (Claimant(w) => Open(w)')
<1> DEFINE p == job[w].leg
<1>0. DispatchTypeOK /\ JobIsSound /\ TypeOK /\ (job[w].pc \in Walking => p \in Providers)
      /\ (Claimant(w) => Open(w))
  BY WalkingLeg DEF DInv, DispatchTypeOK, WalkIsOpen, Open
<1>1. {"visit", "locate", "read", "persist"} \subseteq Walking /\ "poison" \notin Walking
  BY DEF Walking
<1>2. ASSUME UNCHANGED vars, job[w].pc \in {"visit", "locate"},
             NEW pc \in Walking, NEW op, NEW item, NEW seen,
             OnLeg(w, pc, op, item, seen)
      PROVE  Verdicts /\ (Claimant(w) => Open(w)')
  <2>1. legs' = legs
    BY <1>2 DEF vars, docVars
  <2>2. Claimant(w) => Open(w)'
    BY <1>0, <1>1, <1>2, <2>1, OpenKept DEF OnLeg
  <2> QED
    BY <2>1, <2>2 DEF Verdicts, SameVerdicts
<1>3. ASSUME NEW r, r.result # "externally_verified_public", RecordVerification(w, p, r),
             job[w].pc \in {"visit", "locate"},
             OffLeg(w, "pick", job[w].todo, job[w].active)
      PROVE  Verdicts /\ (Claimant(w) => Open(w)')
  BY <1>0, <1>1, <1>3, RecordedVerdict, LegJudged
<1>4. ASSUME NEW enabled \in BOOLEAN, Visit(w, enabled)
      PROVE  Verdicts /\ (Claimant(w) => Open(w)')
  <2>1. job[w].pc = "visit"
    BY <1>4 DEF Visit, At
  <2>2. CASE UNCHANGED vars /\ GoTo(w, IF job[w].item = NoItem THEN "locate" ELSE "read")
    <3>1. \E pc \in Walking : GoTo(w, pc)
      BY <1>1, <2>2
    <3>2. \E pc \in Walking : OnLeg(w, pc, job[w].op, job[w].item, job[w].seen)
      BY <1>0, <3>1, GoToFacts DEF DispatchTypeOK, Steps
    <3> QED
      BY <1>2, <2>1, <2>2, <3>2
  <2>3. CASE /\ RecordVerification(w, p, Outcome("manual_handoff_required", NoItem, "none", FALSE))
             /\ NextLeg(w)
    <3>1. OffLeg(w, "pick", job[w].todo, job[w].active)
      BY <1>0, <2>3, NextLegFacts DEF DispatchTypeOK
    <3>2. Outcome("manual_handoff_required", NoItem, "none", FALSE).result
            = "manual_handoff_required"
      BY DEF Outcome
    <3> QED
      BY <1>3, <2>1, <2>3, <3>1, <3>2
  <2> QED
    BY <1>4, <2>2, <2>3 DEF Visit
<1>5. ASSUME Locate(w)
      PROVE  Verdicts /\ (Claimant(w) => Open(w)')
  <2>1. job[w].pc = "locate" /\ LocateMoves(w)
    BY <1>0, <1>5, LocateFacts
  <2>2. CASE UNCHANGED vars /\ Onwards(w)
    BY <1>2, <2>1, <2>2 DEF Onwards
  <2>3. CASE UNCHANGED vars /\ OffLeg(w, "pick", job[w].todo, job[w].active)
    <3>1. legs' = legs
      BY <2>3 DEF vars, docVars
    <3>2. Claimant(w) => Open(w)'
      BY <1>0, <1>1, <2>1, <2>3, <3>1, OpenKept DEF OffLeg
    <3> QED
      BY <3>1, <3>2 DEF Verdicts, SameVerdicts
  <2>4. CASE /\ RecordVerification(w, p, Outcome("publication_unknown", NoItem, "none", FALSE))
             /\ NextLeg(w)
    <3>1. OffLeg(w, "pick", job[w].todo, job[w].active)
      BY <1>0, <2>4, NextLegFacts DEF DispatchTypeOK
    <3>2. Outcome("publication_unknown", NoItem, "none", FALSE).result = "publication_unknown"
      BY DEF Outcome
    <3> QED
      BY <1>3, <2>1, <2>4, <3>1, <3>2
  <2>5. \/ UNCHANGED vars
        \/ /\ RecordVerification(w, p, Outcome("publication_unknown", NoItem, "none", FALSE))
           /\ NextLeg(w)
    BY <1>5 DEF Locate
  <2>6. \/ Onwards(w)
        \/ OffLeg(w, "pick", job[w].todo, job[w].active)
    BY <1>1, <2>1 DEF LocateMoves, Onwards
  <2> QED
    BY <2>2, <2>3, <2>4, <2>5, <2>6
<1> QED
  BY <1>4, <1>5

\* A step that judges nothing, and goes on with its leg or leaves it.
LEMMA OpenStays ==
  ASSUME DispatchTypeOK, NEW w \in Workers, Open(w), SameVerdicts,
         \/ job' = job
         \/ /\ job[w].pc \in Walking
            /\ Onwards(w) \/ OffLeg(w, "pick", job[w].todo, job[w].active)
         \/ \E pc \in Steps : \E todo \in SUBSET Providers, active \in SUBSET Providers :
              /\ OffLeg(w, pc, todo, active)
              /\ todo \subseteq job[w].todo /\ active \subseteq job[w].active
              /\ pc \notin Walking /\ pc # "poison"
              /\ pc = "pick" => job[w].pc = "pick"
  PROVE  Open(w)'
<1>1. \A q \in Providers : legs'[q].result = legs[q].result
  BY DEF SameVerdicts
<1>2. "poison" \notin Walking
  BY DEF Walking
<1>3. CASE job' = job
  BY <1>1, <1>3, OpenKept
<1>4. CASE job[w].pc \in Walking /\ Onwards(w)
  BY <1>1, <1>2, <1>4, OpenKept DEF Onwards, OnLeg
<1>5. CASE job[w].pc \in Walking /\ OffLeg(w, "pick", job[w].todo, job[w].active)
  BY <1>1, <1>5, OpenKept DEF OffLeg
<1>6. ASSUME NEW pc \in Steps, NEW todo \in SUBSET Providers, NEW active \in SUBSET Providers,
             OffLeg(w, pc, todo, active),
             todo \subseteq job[w].todo /\ active \subseteq job[w].active,
             pc \notin Walking /\ pc # "poison", pc = "pick" => job[w].pc = "pick"
      PROVE  Open(w)'
  BY <1>1, <1>6, OpenKept DEF OffLeg
<1> QED
  BY <1>3, <1>4, <1>5, <1>6

\* The steps of the delivery outside a walk over a leg.
LEMMA DeliveryVerdicts ==
  ASSUME DInv, NEW w \in Workers, Delivery(w), Claimant(w) => Open(w),
         Claimant(w)' => Claimant(w) \/ TakeClaim(w)
  PROVE  Verdicts /\ (Claimant(w)' => Open(w)')
<1>0. DispatchTypeOK /\ JobIsSound /\ TypeOK
  BY DEF DInv, DispatchTypeOK
<1>a. legs' = legs => SameVerdicts /\ Verdicts
  BY DEF SameVerdicts, Verdicts
<1>b. {"claim", "start", "list", "survey", "release", "delete", "idle"} \cap
        (Walking \cup {"pick", "poison"}) = {}
      /\ "pick" \notin Walking /\ "poison" \notin Walking
  BY DEF Walking
<1>c. job[w].active # {} => job[w].pc = "survey"
  BY <1>0 DEF JobIsSound
<1>d. ASSUME NEW pc \in {"claim", "start", "list", "survey", "release", "delete", "idle"},
             NEW todo, OffLeg(w, pc, todo, {})
      PROVE  Open(w)'
  BY <1>b, <1>d DEF OffLeg, Open
<1>1. ASSUME NEW m \in Messages, Receive(w, m)
      PROVE  Verdicts /\ (Claimant(w)' => Open(w)')
  BY <1>0, <1>a, <1>d, <1>1, DeliveryFacts DEF Receive, vars, docVars
<1>2. ASSUME TakeClaim(w)
      PROVE  Verdicts /\ (Claimant(w)' => Open(w)')
  <2>1. job[w].active = {} /\ legs' = legs
    BY <1>0, <1>c, <1>2, DeliveryFacts DEF TakeClaim, Claim, vars, docVars
  <2> QED
    BY <1>0, <1>a, <1>d, <1>2, <2>1, DeliveryFacts
<1>3. ASSUME NEW enabled \in BOOLEAN, Start(w, enabled)
      PROVE  Verdicts /\ (Claimant(w)' => Open(w)')
  <2>1. legs' = legs /\ job[w].active = {}
        /\ \E step \in {"list", "survey", "release"} : OffLeg(w, step, Providers, {})
    BY <1>0, <1>c, <1>3, StartFacts DEF Start, Heartbeat
  <2> QED
    BY <1>a, <1>d, <2>1
<1>4. ASSUME NEW enabled \in BOOLEAN, Visit(w, enabled)
      PROVE  Verdicts /\ (Claimant(w)' => Open(w)')
  <2>1. ~TakeClaim(w)
    BY <1>4 DEF Visit, TakeClaim, At
  <2> QED
    BY <1>4, <2>1, VisitJudges
<1>5. ASSUME Renew(w)
      PROVE  Verdicts /\ (Claimant(w)' => Open(w)')
  <2>1. legs' = legs /\ job' = job /\ ~TakeClaim(w)
    BY <1>5 DEF Renew, Heartbeat, dispatchVars, TakeClaim, At
  <2> QED
    BY <1>0, <1>a, <2>1, OpenStays
<1>6. ASSUME ListPoisoned(w)
      PROVE  Verdicts /\ (Claimant(w)' => Open(w)')
  <2>1. legs' = legs /\ job[w].active = {}
        /\ OffLeg(w, "poison", {p \in Providers : legs[p].result \notin Preserved}, {})
    BY <1>0, <1>c, <1>6, PoisonFacts DEF ListPoisoned, vars, docVars
  <2>2. Open(w)'
    BY <1>b, <2>1 DEF Open, OffLeg
  <2> QED
    BY <1>a, <2>1, <2>2
<1>7. ASSUME NEW p \in Providers, PoisonLeg(w, p)
      PROVE  Verdicts /\ (Claimant(w)' => Open(w)')
  <2>1. job[w].pc = "poison" /\ OffLeg(w, "poison", job[w].todo \ {p}, job[w].active)
        /\ p \in job[w].todo /\ job[w].active = {}
    BY <1>0, <1>c, <1>7, PoisonFacts DEF PoisonLeg
  <2> DEFINE r == Outcome("poisoned", NoItem, "none", FALSE)
  <2>2. r.result = "poisoned" /\ RecordVerification(w, p, r)
    BY <1>7 DEF PoisonLeg, Outcome
  <2> HIDE DEF r
  <2>3. /\ RequireClaim(w) /\ legs'[p].result = "poisoned"
        /\ \A q \in Providers \ {p} : legs'[q] = legs[q]
    BY <1>0, <2>2, RecordedVerdict
  <2>4. Open(w)
    BY <2>3, RequiredClaimant
  <2>5. legs[p].result \notin Preserved
    BY <2>1, <2>4 DEF Open
  <2>6. Judgement(p)
    BY <2>3, <2>5 DEF Judgement, Preserved, Finished
  <2>7. Open(w)'
    BY <1>0, <1>b, <2>1, <2>3, <2>4, DispatchAssumption, OpenKept DEF OffLeg
  <2> QED
    BY <2>6, <2>7 DEF Verdicts
<1>8. ASSUME NEW p \in Providers, Survey(w, p)
      PROVE  Verdicts /\ (Claimant(w)' => Open(w)')
  <2>1. /\ job[w].pc = "survey" /\ p \in job[w].todo /\ RequireClaim(w)
        /\ SurveyMoves(w, p)
        /\ \/ UNCHANGED vars
           \/ ScheduleReconciliation(w, p, FALSE) /\ legs[p].result \notin Finished
    BY <1>0, <1>8, SurveyFacts
  <2>2. Open(w) /\ p \notin job[w].active
    BY <1>0, <2>1, RequiredClaimant DEF JobIsSound
  <2>3. PICK found \in SUBSET {p} :
          /\ \A q \in found : legs[q].result \notin Finished
          /\ found # {} => UNCHANGED vars
          /\ \/ OffLeg(w, "pick", job[w].active \cup found, {})
             \/ OffLeg(w, "survey", job[w].todo \ {p}, job[w].active \cup found)
    BY <2>1 DEF SurveyMoves
  <2>4. job[w].active \subseteq Providers
    BY <1>0, JobType DEF DispatchTypeOK
  <2>5. ASSUME \A q \in job[w].active \cup found : legs'[q].result = legs[q].result
        PROVE  Open(w)'
    <3>1. \A q \in job[w].active \cup found : legs'[q].result \notin Finished
      BY <2>2, <2>3, <2>5 DEF Open
    <3> QED
      BY <1>b, <2>3, <3>1 DEF Open, OffLeg
  <2>6. CASE UNCHANGED vars
    <3>1. legs' = legs
      BY <2>6 DEF vars, docVars
    <3> QED
      BY <1>a, <2>5, <3>1
  <2>7. CASE /\ ScheduleReconciliation(w, p, FALSE) /\ legs[p].result \notin Finished
             /\ found = {}
    <3>1. /\ \A q \in Providers \ {p} : legs'[q] = legs[q]
          /\ legs'[p].result # "externally_verified_public"
      BY <1>0, <2>7, ScheduledVerdict
    <3>2. Judgement(p)
      BY <2>7, <3>1 DEF Judgement
    <3> QED
      BY <2>2, <2>4, <2>5, <2>7, <3>1, <3>2 DEF Verdicts
  <2> QED
    BY <2>1, <2>3, <2>6, <2>7
<1>9. ASSUME NEW p \in Providers, PickLeg(w, p)
      PROVE  Verdicts /\ (Claimant(w)' => Open(w)')
  <2>1. /\ job[w].pc = "pick" /\ p \in job[w].todo /\ job[w].active = {} /\ p # NoLeg
        /\ OffLeg(w, "pick", job[w].todo \ {p}, job[w].active) \/ Takes(w, p)
        /\ job[w].todo \in SUBSET Providers
    BY <1>0, <1>c, <1>9, PickFacts, JobType, DispatchAssumption DEF DispatchTypeOK
  <2>2. legs' = legs /\ ~TakeClaim(w)
    BY <1>0, <1>9, <2>1, PickFacts DEF ConsumeScheduleToken, vars, docVars, TakeClaim, At
  <2>3. ASSUME Open(w) PROVE Open(w)'
    <3>1. \A q \in job[w].todo : legs'[q].result \notin Finished
      BY <2>1, <2>2, <2>3 DEF Open
    <3>2. CASE Takes(w, p)
      BY <1>b, <2>1, <3>1, <3>2 DEF Takes, Open
    <3>3. CASE OffLeg(w, "pick", job[w].todo \ {p}, job[w].active)
      BY <1>b, <2>1, <3>1, <3>3 DEF OffLeg, Open
    <3> QED
      BY <2>1, <3>2, <3>3
  <2> QED
    BY <1>a, <2>2, <2>3
<1>10. ASSUME Finish(w) \/ DeleteMessage(w) \/ Abandon(w)
       PROVE  Verdicts /\ (Claimant(w)' => Open(w)')
  <2>1. Finish(w) => job[w].pc # "survey"
    BY <1>10 DEF Finish, At, Release
  <2>2. legs' = legs
    BY <1>10 DEF Finish, Release, DeleteMessage, Abandon, vars, docVars
  <2>3. OffLeg(w, "delete", job[w].todo, {}) \/ OffLeg(w, "idle", {}, {})
    BY <1>0, <1>c, <1>10, <2>1, DeliveryFacts
  <2> QED
    BY <1>a, <1>d, <2>2, <2>3
<1> QED
  BY <1>1, <1>2, <1>3, <1>4, <1>5, <1>6, <1>7, <1>8, <1>9, <1>10 DEF Delivery

\* The steps of a walk over a leg.
LEMMA WalkVerdicts ==
  ASSUME DInv, NEW w \in Workers, LegWalk(w) \/ Mutate(w), Claimant(w) => Open(w),
         Claimant(w)' => Claimant(w) \/ TakeClaim(w)
  PROVE  Verdicts /\ (Claimant(w)' => Open(w)')
<1>0. DispatchTypeOK /\ JobIsSound
  BY DEF DInv
<1>a. Verdicts <=> (SameVerdicts \/ \E p \in Providers : Judgement(p))
  BY DEF Verdicts
<1>b. job[w].pc \in Walking /\ ~TakeClaim(w)
  BY DEF LegWalk, Mutate, Locate, Read, HandOver, Note, Playlist, Prove, Pend, Schedule, Persist,
     Consume, Send, Confirm, Misfire, Accept, Doubt, Unknown, At, Walking, TakeClaim
<1>c. {"read", "prove", "persist", "consume", "call", "sent", "accept", "doubt", "unknown",
       "pend", "playlist", "note", "handover"} \subseteq Walking
  BY DEF Walking
<1>1. ASSUME SameVerdicts, Onwards(w)
      PROVE  Verdicts /\ (Claimant(w)' => Open(w)')
  <2>1. Claimant(w)' => Open(w)'
    BY <1>0, <1>1, <1>b, OpenStays
  <2> QED
    BY <1>1, <1>a, <2>1
<1>2. ASSUME HandOver(w) \/ Prove(w) \/ Note(w) \/ Pend(w) \/ Unknown(w)
             \/ \E beyond \in BOOLEAN : Schedule(w, beyond)
      PROVE  Verdicts /\ (Claimant(w)' => Open(w)')
  BY <1>2, WalkJudges
<1>3. ASSUME Locate(w)
      PROVE  Verdicts /\ (Claimant(w)' => Open(w)')
  BY <1>3, <1>b, VisitJudges
<1>4. ASSUME Read(w) \/ Playlist(w)
      PROVE  SameVerdicts /\ Onwards(w)
  <2>1. SameVerdicts
    BY <1>4 DEF Read, Playlist, vars, docVars, SameVerdicts
  <2>2. CASE Read(w)
    <3>1. \E step \in Walking : \E op, item, seen : OnLeg(w, step, op, item, seen)
      BY <1>0, <1>c, <2>2, ReadFacts DEF ReadMoves
    <3> QED
      BY <2>1, <3>1 DEF Onwards
  <2>3. CASE Playlist(w)
    BY <1>0, <1>c, <2>1, <2>3, PlaylistFacts DEF PlaylistMoves, Onwards
  <2> QED
    BY <1>4, <2>2, <2>3
<1>5. ASSUME Persist(w) \/ Consume(w) \/ Send(w) \/ Confirm(w) \/ Misfire(w) \/ Accept(w)
             \/ Doubt(w)
      PROVE  SameVerdicts /\ Onwards(w)
  <2>1. UNCHANGED vars => SameVerdicts
    BY DEF vars, docVars, SameVerdicts
  <2>2. Mutates(w) => SameVerdicts
    BY <1>0, MutatesFacts DEF OneLeg, SameVerdicts
  <2>3. SameVerdicts
    BY <1>5, <2>1, <2>2 DEF Persist, Send, Confirm, Misfire, Mutates
  <2>4. Onwards(w)
    BY <1>0, <1>5, <1>c, PersistFacts, ConsumeFacts, SendFacts, ConfirmFacts, MisfireFacts,
       AcceptFacts, DoubtFacts DEF MutatedMoves, Onwards
  <2> QED
    BY <2>3, <2>4
<1> QED
  BY <1>1, <1>2, <1>3, <1>4, <1>5 DEF LegWalk, Mutate

\* What every step is to the verdicts.
LEMMA VerdictsStep ==
  ASSUME DInv, [DispatchNext]_allVars
  PROVE  Verdicts \/ Recovers
<1>0. DispatchTypeOK /\ JobIsSound
  BY DEF DInv
<1>1. ASSUME NEW w \in Workers, Runs(w) PROVE Verdicts
  <2>1. Claimant(w) => Open(w)
    BY DEF DInv, WalkIsOpen, Open
  <2>2. Claimant(w)' => Claimant(w) \/ TakeClaim(w)
    BY <1>0, ClaimantStep
  <2> QED
    BY <1>1, <2>1, <2>2, DeliveryVerdicts, WalkVerdicts DEF Runs
<1>2. Provides \/ Quiet => Verdicts
  BY ProvidedFacts DEF Quiet, vars, docVars, Verdicts, SameVerdicts
<1> QED
  BY <1>0, <1>1, <1>2, WhoSteps

\* The holder's walk stays over open legs.
LEMMA OpenStep ==
  ASSUME DInv, [DispatchNext]_allVars
  PROVE  WalkIsOpen'
<1>0. DispatchTypeOK /\ JobIsSound /\ \A w \in Workers : Claimant(w) => Open(w)
  BY DEF DInv, WalkIsOpen, Open
<1>1. ASSUME NEW v \in Workers, Claimant(v)' PROVE Open(v)'
  <2>1. Claimant(v) \/ TakeClaim(v)
    BY <1>0, <1>1, ClaimantStep
  <2>2. CASE Runs(v)
    <3>1. Claimant(v)' => Claimant(v) \/ TakeClaim(v)
      BY <2>1
    <3> QED
      BY <1>0, <1>1, <2>2, <3>1, DeliveryVerdicts, WalkVerdicts DEF Runs
  <2>3. CASE ~Runs(v)
    <3>1. Claimant(v) /\ Open(v)
      BY <1>0, <2>1, <2>3 DEF Runs, Delivery
    <3>2. ASSUME SameVerdicts, job'[v] = job[v] PROVE Open(v)'
      BY <1>0, <3>1, <3>2, OpenKept DEF SameVerdicts
    <3>3. CASE Quiet \/ Provides
      <4>1. SameVerdicts /\ job' = job
        BY <3>3, ProvidedFacts DEF Quiet, vars, docVars, SameVerdicts
      <4> QED
        BY <3>2, <4>1
    <3>4. CASE Recovers
      <4>1. job' = job /\ \A p \in Providers : legs'[p].result = "pending_provider"
        BY <1>0, <3>4, Recovered
      <4>2. job[v].todo \subseteq Providers /\ job[v].active \subseteq Providers
            /\ job[v].leg \in Providers \cup {NoLeg}
        BY <1>0, JobType DEF DispatchTypeOK
      <4> QED
        BY <4>1, <4>2 DEF Open, Finished, Preserved
    <3>5. ASSUME NEW w \in Workers, Runs(w) PROVE Open(v)'
      <4>1. Turn(w) /\ w # v
        BY <1>0, <2>3, <3>5, RunMoves, RunTurns
      <4>2. ~Judges(w) /\ ~Mutates(w) /\ ~Send(w)
        BY <1>0, <3>1, <4>1, HolderActs, OneClaimant
      <4>3. UNCHANGED vars \/ Tends(w)
        BY <1>0, <3>5, <4>2, RunKinds
      <4>4. legs' = legs
        BY <4>3 DEF Tends, vars, docVars, Claim, Heartbeat, Release, Crash, ConsumeScheduleToken
      <4> QED
        BY <3>2, <4>1, <4>4 DEF Turn, SameVerdicts
    <3> QED
      BY <1>0, <3>3, <3>4, <3>5, WhoSteps
  <2> QED
    BY <2>2, <2>3
<1> QED
  BY <1>1 DEF WalkIsOpen, Open

\* What is called public is public.
LEMMA VerifiedStep ==
  ASSUME DInv, [DispatchNext]_allVars
  PROVE  VerifiedIsPublic'
<1>0. DispatchTypeOK /\ JobIsSound /\ VerifiedIsPublic
  BY DEF DInv
<1>1. \A p \in Providers : Public(p) \subseteq Public(p)'
  BY <1>0, Grows
<1>2. CASE Verdicts
  BY <1>0, <1>1, <1>2 DEF Verdicts, SameVerdicts, Judgement, VerifiedIsPublic
<1>3. CASE Recovers
  BY <1>0, <1>3, Recovered DEF VerifiedIsPublic
<1> QED
  BY <1>2, <1>3, VerdictsStep

\* A finished leg keeps its result until a recovery.
LEMMA FinishedKept ==
  ASSUME Verdicts, NEW p \in Providers, legs[p].result \in Finished
  PROVE  legs'[p].result = legs[p].result
BY DEF Verdicts, SameVerdicts, Judgement

\* A new attempt is open, and nothing was read back in it.
LEMMA RecoveredActive ==
  ASSUME TypeOK, NEW e \in [Providers -> Items], AuthorizeRecovery(e)
  PROVE  Active'.outcome = "none" /\ Active'.readbacks = << >>
<1>1. Active' = NewAttempt(e)
  BY RecoveryFacts DEF Active, Last
<1> QED
  BY <1>1 DEF NewAttempt

\* An attempt ends as its legs did, and they stay.
LEMMA EndedStep ==
  ASSUME DInv, [DispatchNext]_allVars
  PROVE  EndedAsClosed'
<1>0. /\ DispatchTypeOK /\ JobIsSound /\ EndedAsClosed
      /\ TypeOK /\ DecisionIsCurrent /\ Active \in Attempts
  BY ActiveType DEF DInv, DispatchTypeOK, IInv
<1>1. ASSUME NEW e \in [Providers -> Items], AuthorizeRecovery(e)
      PROVE  EndedAsClosed'
  <2>1. Active'.outcome = "none" /\ Active'.readbacks = << >>
    BY <1>0, <1>1, RecoveredActive
  <2>2. DOMAIN Active'.readbacks = {}
    BY <2>1
  <2> QED
    BY <2>1, <2>2 DEF EndedAsClosed
<1>2. ASSUME NEW m \in Messages, NEW b \in BOOLEAN, Notify(m, b)
      PROVE  EndedAsClosed'
  BY <1>0, <1>2 DEF Notify, EndedAsClosed, Active, Last
<1>3. ASSUME [Next]_vars, ~(\E e \in [Providers -> Items] : AuthorizeRecovery(e))
      PROVE  EndedAsClosed'
  <2>0. ~Recovers
    BY <1>3 DEF Recovers
  <2>1. \A p \in Providers :
          legs[p].result \in Finished => legs'[p].result = legs[p].result
    BY <2>0, VerdictsStep, FinishedKept
  <2>2. \/ Active'.outcome = Active.outcome
        \/ ~Terminal /\ legs' = legs /\ Active'.outcome = NewOutcome
    BY <1>0, <1>3, OutcomeKinds
  <2>3. ASSUME Active'.outcome = "failed_terminal", NEW p \in Providers
        PROVE  legs'[p].result \in {"failed_terminal", "poisoned"}
    <3>1. legs[p].result \in {"failed_terminal", "poisoned"}
      BY <1>0, <2>2, <2>3, FailedDecision DEF EndedAsClosed
    <3> QED
      BY <2>1, <3>1 DEF Finished
  <2>4. ASSUME Active'.outcome = "published_verified", NEW p \in Providers
        PROVE  legs'[p].result = "externally_verified_public"
    <3>1. legs[p].result = "externally_verified_public"
      BY <1>0, <2>2, <2>4, PublishedDecision DEF EndedAsClosed, AllPublic
    <3> QED
      BY <2>1, <3>1 DEF Finished
  <2>5. ASSUME NEW k \in DOMAIN Active'.readbacks,
               Active'.readbacks[k].verif.result = "failed_terminal"
        PROVE  legs'[Active'.readbacks[k].provider].result = "failed_terminal"
    <3> DEFINE rb == Active.readbacks
               Rows == [provider : Providers, verif : Verifications]
    <3>1. rb \in Seq(Rows)
      BY <1>0 DEF Attempts
    <3>2. ASSUME k \in DOMAIN rb, Active'.readbacks[k] = rb[k]
          PROVE  legs'[Active'.readbacks[k].provider].result = "failed_terminal"
      <4>1. legs[rb[k].provider].result = "failed_terminal"
        BY <1>0, <2>5, <3>2 DEF EndedAsClosed
      <4>2. rb[k] \in Rows
        <5> HIDE DEF rb, Rows
        <5> QED
          BY <3>1, <3>2, ElementOfSeq, LenProperties
      <4>3. legs'[rb[k].provider].result = "failed_terminal"
        BY <2>1, <4>1, <4>2 DEF Finished
      <4> QED
        BY <3>2, <4>3
    <3>3. CASE Active'.readbacks = rb
      BY <2>5, <3>2, <3>3
    <3>4. ASSUME NEW p \in Providers, NEW v \in Verifications,
                 legs'[p].result = v.result,
                 Active'.readbacks = Append(rb, [provider |-> p, verif |-> v])
          PROVE  legs'[Active'.readbacks[k].provider].result = "failed_terminal"
      <4> DEFINE row == [provider |-> p, verif |-> v]
      <4>1. row \in Rows /\ row.provider = p /\ row.verif = v
        OBVIOUS
      <4> HIDE DEF row, Rows
      <4>2. /\ Append(rb, row) \in Seq(Rows) /\ Len(Append(rb, row)) = Len(rb) + 1
            /\ \A i \in 1..Len(rb) : Append(rb, row)[i] = rb[i]
            /\ Append(rb, row)[Len(rb) + 1] = row
            /\ Len(rb) \in Nat /\ DOMAIN rb = 1..Len(rb)
        BY <3>1, <4>1, AppendProperties, LenProperties
      <4>3. k \in 1..(Len(rb) + 1)
        BY <2>5, <3>4, <4>2, LenProperties DEF row
      <4>4. CASE k \in 1..Len(rb)
        BY <3>2, <3>4, <4>2, <4>4 DEF row
      <4>5. CASE k = Len(rb) + 1
        BY <2>5, <3>4, <4>1, <4>2, <4>5 DEF row
      <4> QED
        BY <4>2, <4>3, <4>4, <4>5
    <3> QED
      BY <1>0, <1>3, <3>3, <3>4, ReadbackKinds
  <2> QED
    BY <2>3, <2>4, <2>5 DEF EndedAsClosed
<1> QED
  BY <1>0, <1>1, <1>2, <1>3, ItemStep

-----------------------------------------------------------------------------
(* The invariant of the dispatch.                                          *)

\* Before anything is sent.
LEMMA DispatchInitial == DispatchInit => DInv
<1> SUFFICES ASSUME DispatchInit PROVE DInv
  OBVIOUS
<1>0. Init /\ flight = {} /\ done = {} /\ hinted = FALSE
      /\ msg = [m \in Messages |-> Deleted] /\ job = [w \in Workers |-> Idle]
  BY DEF DispatchInit
<1>1. IInv
  BY <1>0, IInvInit
<1>2. DispatchTypeOK
  <2>1. TypeOK
    BY <1>1 DEF IInv
  <2>2. Idle \in Jobs
    BY DEF Idle, Jobs, Steps, MaybeItem
  <2>3. Deleted \in [state : {"absent", "visible", "taken"}, dequeues : 0..MaxDequeue,
                     holder : Workers \cup {NoWorker}]
    BY DispatchAssumption DEF Deleted
  <2>4. IsFiniteSet({})
    BY FS_EmptySet
  <2> QED
    BY <1>0, <2>1, <2>2, <2>3, <2>4 DEF DispatchTypeOK
<1>3. \A w \in Workers : /\ job[w].pc = "idle" /\ job[w].leg = NoLeg /\ job[w].todo = {}
                         /\ job[w].active = {} /\ job[w].seen = "none"
  BY <1>0 DEF Idle
<1>4. \A w \in Workers : ~Claimant(w)
  BY <1>0 DEF Claimant, Init, NoClaim
<1>5. JobIsSound /\ SeenIsThere
  BY <1>3 DEF JobIsSound, SeenIsThere, Walking, Mutating
<1>6. \A p \in Providers : /\ legs[p].intent = NoIntent /\ legs[p].receipts = << >>
                           /\ legs[p].result = "pending_provider"
  BY <1>0 DEF Init, NewLeg
<1>7. lastId = 0 /\ NoIntent.id = 0 /\ NoIntent.op = "none"
  BY <1>0 DEF Init, NoIntent
<1>8. IntentsAreNumbered
  BY <1>6, <1>7 DEF IntentsAreNumbered
<1>9. RequestsAreOwn /\ OthersAreAnswered /\ CreatesAreOne
  BY <1>0, <1>6, <1>7 DEF RequestsAreOwn, OthersAreAnswered, CreatesAreOne, Asked
<1>10. MutationIsFresh /\ WalkIsOpen
  BY <1>4 DEF MutationIsFresh, WalkIsOpen
<1>11. VerifiedIsPublic
  BY <1>6 DEF VerifiedIsPublic
<1>12. EndedAsClosed
  <2>1. Active.outcome = "none" /\ Active.readbacks = << >>
    BY <1>0 DEF Init, Active, Last, NewAttempt
  <2> QED
    BY <2>1 DEF EndedAsClosed
<1> QED
  BY <1>1, <1>2, <1>5, <1>8, <1>9, <1>10, <1>11, <1>12 DEF DInv

\* Every step of every execution keeps it.
LEMMA DispatchStep == DInv /\ [DispatchNext]_allVars => DInv'
<1> SUFFICES ASSUME DInv, [DispatchNext]_allVars PROVE DInv'
  OBVIOUS
<1>1. IInv' /\ JobIsSound'
  BY ItemInvStep, JobIsSoundStep DEF DInv
<1> QED
  BY <1>1, DispatchTypeStep, SeenStep, NumberedStep, OwnStep, FreshStep, AnsweredStep,
     CreatesStep, OpenStep, VerifiedStep, EndedStep DEF DInv

\* The strengthening is an invariant of the dispatch.
THEOREM DispatchInductive == DispatchSpec => []DInv
<1> QED
  BY DispatchInitial, DispatchStep, PTL DEF DispatchSpec

\* A set whose elements are all the same has one at most.
LEMMA AtMostOne ==
  ASSUME NEW S, \A x, y \in S : x = y
  PROVE  Cardinality(S) <= 1
<1>1. CASE S = {}
  BY <1>1, FS_EmptySet
<1>2. ASSUME NEW x \in S PROVE Cardinality(S) <= 1
  <2>1. S = {x}
    BY <1>2
  <2> QED
    BY <2>1, FS_Singleton
<1> QED
  BY <1>1, <1>2

\* A provider never gets the media twice, over all redeliveries, takeovers, lost
\* answers, late requests and recoveries (mutate, claim, persist_intent).
THEOREM OneCreate == DispatchSpec => []CreateAtMostOnce
<1>1. DInv => CreateAtMostOnce
  <2> SUFFICES ASSUME DInv, NEW p \in Providers
               PROVE  Cardinality({r \in flight \cup done : r.leg = p /\ r.op = "create"}) <= 1
    BY DEF CreateAtMostOnce
  <2>1. \A r, s \in {r \in flight \cup done : r.leg = p /\ r.op = "create"} : r = s
    BY DEF DInv, CreatesAreOne, Asked
  <2> QED
    BY <2>1, AtMostOne
<1> QED
  BY <1>1, DispatchInductive, PTL

\* Within the first attempt no mutation of a leg starts while the fate of another
\* one is open (persist_intent, claim).
THEOREM OneInFlight == DispatchSpec => []OneMutationInFlight
<1>1. DInv => OneMutationInFlight
  <2> SUFFICES ASSUME DInv, Last = 1, NEW p \in Providers
               PROVE  Cardinality({r \in flight : r.leg = p}) <= 1
    BY DEF OneMutationInFlight
  <2>1. ASSUME NEW r \in flight, r.leg = p PROVE r.intent = legs[p].intent.id
    BY <2>1 DEF DInv, OthersAreAnswered, Asked
  <2>2. \A r, s \in {r \in flight : r.leg = p} : r = s
    BY <2>1 DEF DInv, RequestsAreOwn, Asked
  <2> QED
    BY <2>2, AtMostOne
<1> QED
  BY <1>1, DispatchInductive, PTL

\* What the outbox calls externally verified public is public at the provider
\* (_youtube, _spotify, record_verification).
THEOREM PublicIsVerified == DispatchSpec => []VerifiedIsPublic
<1>1. DInv => VerifiedIsPublic
  BY DEF DInv
<1> QED
  BY <1>1, DispatchInductive, PTL

\* A leg that is public stays public in its attempt, whatever delivery comes
\* (PRESERVED_PROVIDER_RESULTS, dispatch_reviewed_video).
THEOREM PublicKept == DispatchSpec => PublicIsKept
<1>1. ASSUME DInv, [DispatchNext]_allVars, NEW p \in Providers,
             legs[p].result = "externally_verified_public",
             Len(attempts') = Len(attempts)
      PROVE  legs'[p].result = "externally_verified_public"
  <2>1. ~Recovers
    <3>1. DispatchTypeOK /\ Len(attempts) \in Nat
      BY <1>1, Numbers DEF DInv, Last
    <3>2. \A n \in Nat : n # n + 1
      OBVIOUS
    <3>3. ASSUME Recovers PROVE Len(attempts') = Len(attempts) + 1
      BY <3>1, <3>3, Recovered
    <3> QED
      BY <1>1, <3>1, <3>2, <3>3
  <2>2. Verdicts
    BY <1>1, <2>1, VerdictsStep
  <2> QED
    BY <1>1, <2>2 DEF Verdicts, SameVerdicts, Judgement, Finished
<1>2. DInv /\ [DispatchNext]_allVars =>
        [\A p \in Providers :
           /\ legs[p].result = "externally_verified_public"
           /\ Len(attempts') = Len(attempts)
           => legs'[p].result = "externally_verified_public"]_allVars
  BY <1>1
<1> QED
  BY <1>2, DispatchInductive, PTL DEF DispatchSpec, PublicIsKept

\* The decision release acts on is current at every step of the dispatch, also
\* while several executions hold a stale claim (_refresh_aggregate, release).
THEOREM DispatchDecides == DispatchSpec => []DecisionIsCurrent
<1>1. DInv => DecisionIsCurrent
  BY DEF DInv, IInv
<1> QED
  BY <1>1, DispatchInductive, PTL

\* The workers and the scheduler rewrite no attempt that is over, and nothing of
\* one that was recovered from (release, authorize_recovery, record_verification).
THEOREM DispatchKeepsHistory == DispatchSpec => HistoryIsImmutable
<1>1. ASSUME DInv, [DispatchNext]_allVars PROVE [KeepsHistory]_vars
  <2>0. TypeOK /\ DispatchTypeOK /\ JobIsSound
    BY <1>1 DEF DInv, DispatchTypeOK
  <2>1. CASE [Next]_vars
    BY <2>0, <2>1, HistoryStep
  <2>2. ASSUME NEW m \in Messages, NEW b \in BOOLEAN, Notify(m, b)
        PROVE  KeepsHistory
    BY <2>2 DEF Notify, KeepsHistory
  <2> QED
    BY <1>1, <2>0, <2>1, <2>2, ItemStep
<1>2. DInv /\ [DispatchNext]_allVars => [KeepsHistory]_vars
  BY <1>1
<1> QED
  BY <1>2, DispatchInductive, PTL DEF DispatchSpec, HistoryIsImmutable, KeepsHistory

\* Nor do they lose or replace a mutation whose outcome nobody knows, within its
\* attempt (mutate, persist_intent, record_receipt).
THEOREM DispatchKeepsUnknown == DispatchSpec => UnknownIsKept
<1>1. ASSUME DInv, [DispatchNext]_allVars
      PROVE  [\A p \in Providers : KeepsUnknown(p)]_vars
  <2>0. TypeOK /\ DispatchTypeOK /\ JobIsSound
    BY <1>1 DEF DInv, DispatchTypeOK
  <2>1. CASE [Next]_vars
    BY <2>0, <2>1, KeepsUnknownStep
  <2>2. ASSUME NEW m \in Messages, NEW b \in BOOLEAN, Notify(m, b),
               NEW p \in Providers
        PROVE  KeepsUnknown(p)
    BY <2>2 DEF Notify, KeepsUnknown
  <2> QED
    BY <1>1, <2>0, <2>1, <2>2, ItemStep
<1>2. DInv /\ [DispatchNext]_allVars => [\A p \in Providers : KeepsUnknown(p)]_vars
  BY <1>1
<1> QED
  BY <1>2, DispatchInductive, PTL DEF DispatchSpec, UnknownIsKept, KeepsUnknown

-----------------------------------------------------------------------------
(* The dispatch implements Publication.                                    *)

medias == [p \in Providers |-> Media(p)]

verdicts == [p \in Providers |-> Verdict(p)]

published == Active.outcome = "published_verified"

\* What is public at a provider was made there.
LEMMA PublicIsMade ==
  ASSUME RequestsAreOwn, NEW p
  PROVE  Public(p) \subseteq Made(p)
BY DEF RequestsAreOwn, Public, Made, Asked

\* A request that takes effect uploads the media, promotes it, or changes
\* nothing at its provider.
LEMMA LandPublishes ==
  ASSUME DInv, Provides
  PROVE  \/ medias' = medias
         \/ \E p \in Providers : \/ /\ medias[p] = "absent"
                                    /\ medias' = [medias EXCEPT ![p] = "hidden"]
                                 \/ /\ medias[p] = "hidden"
                                    /\ medias' = [medias EXCEPT ![p] = "public"]
<1>0. DispatchTypeOK /\ RequestsAreOwn /\ CreatesAreOne
  BY DEF DInv
<1>1. PICK r \in flight : flight' = flight \ {r} /\ done' \in {done, done \cup {r}}
  BY ProvidedFacts
<1>2. r \in Requests /\ r \notin done /\ r.leg \in Providers
  BY <1>0, <1>1 DEF DispatchTypeOK, RequestsAreOwn, Requests
<1>3. ASSUME \A p \in Providers : Made(p)' = Made(p) /\ Public(p)' = Public(p)
      PROVE  medias' = medias
  BY <1>3 DEF medias, Media
<1>4. CASE done' = done
  BY <1>3, <1>4 DEF Made, Public
<1>5. CASE done' = done \cup {r} /\ r.op \notin {"create", "publish"}
  BY <1>3, <1>5 DEF Made, Public
<1>6. CASE done' = done \cup {r} /\ r.op = "create"
  <2>1. \A p \in Providers : /\ Public(p)' = Public(p)
                             /\ p # r.leg => Made(p)' = Made(p)
    BY <1>6 DEF Made, Public
  <2>2. Made(r.leg)' # {}
    BY <1>6 DEF Made
  <2>3. Made(r.leg) = {}
    BY <1>0, <1>1, <1>2, <1>6 DEF CreatesAreOne, Made, Asked
  <2>4. Public(r.leg) = {}
    BY <1>0, <2>3, PublicIsMade
  <2>5. Media(r.leg) = "absent" /\ Media(r.leg)' = "hidden"
    BY <1>2, <2>1, <2>2, <2>3, <2>4 DEF Media
  <2>6. \A p \in Providers \ {r.leg} : Media(p)' = Media(p)
    BY <2>1 DEF Media
  <2>7. medias[r.leg] = "absent" /\ medias' = [medias EXCEPT ![r.leg] = "hidden"]
    BY <1>2, <2>5, <2>6 DEF medias
  <2> QED
    BY <1>2, <2>7
<1>7. CASE done' = done \cup {r} /\ r.op = "publish"
  <2>1. \A p \in Providers : /\ Made(p)' = Made(p)
                             /\ p # r.leg => Public(p)' = Public(p)
    BY <1>7 DEF Made, Public
  <2>2. Public(r.leg)' # {}
    BY <1>7 DEF Public
  <2>3. Made(r.leg) # {}
    BY <1>0, <1>1, <1>7 DEF RequestsAreOwn, Asked
  <2>4. Media(r.leg)' = "public" /\ Media(r.leg) \in {"hidden", "public"}
    BY <1>2, <2>1, <2>2, <2>3 DEF Media
  <2>5. \A p \in Providers \ {r.leg} : Media(p)' = Media(p)
    BY <2>1 DEF Media
  <2>6. CASE Media(r.leg) = "hidden"
    <3>1. medias[r.leg] = "hidden" /\ medias' = [medias EXCEPT ![r.leg] = "public"]
      BY <1>2, <2>4, <2>5, <2>6 DEF medias
    <3> QED
      BY <1>2, <3>1
  <2>7. CASE Media(r.leg) = "public"
    BY <2>4, <2>5, <2>7 DEF medias
  <2> QED
    BY <2>4, <2>6, <2>7
<1> QED
  BY <1>1, <1>4, <1>5, <1>6, <1>7

\* A judgement concludes an open leg, or leaves it open.
LEMMA JudgementConcludes ==
  ASSUME DInv, Verdicts, done' = done
  PROVE  /\ medias' = medias
         /\ \/ verdicts' = verdicts
            \/ \E p \in Providers :
                 /\ verdicts[p] = "open"
                 /\ \E v \in {"closed"} \cup (IF medias[p] = "public" THEN {"public"} ELSE {}) :
                      verdicts' = [verdicts EXCEPT ![p] = v]
<1>0. RequestsAreOwn
  BY DEF DInv
<1>1. medias' = medias
  BY DEF medias, Media, Made, Public
<1>2. CASE SameVerdicts
  BY <1>1, <1>2 DEF SameVerdicts, verdicts, Verdict
<1>3. ASSUME NEW p \in Providers, Judgement(p)
      PROVE  \/ verdicts' = verdicts
             \/ /\ verdicts[p] = "open"
                /\ \E v \in {"closed"} \cup (IF medias[p] = "public" THEN {"public"} ELSE {}) :
                     verdicts' = [verdicts EXCEPT ![p] = v]
  <2>1. \A q \in Providers \ {p} : Verdict(q)' = Verdict(q)
    BY <1>3 DEF Judgement, Verdict
  <2>2. ASSUME NEW v, Verdict(p)' = v
        PROVE  verdicts' = [verdicts EXCEPT ![p] = v]
    BY <2>1, <2>2 DEF verdicts
  <2>3. CASE legs[p].result = "poisoned" /\ legs'[p].result = "poisoned"
    <3>1. Verdict(p)' = Verdict(p)
      BY <2>3 DEF Verdict
    <3> QED
      BY <2>1, <3>1 DEF verdicts
  <2>4. CASE legs[p].result \notin Finished
    <3>1. Verdict(p) = "open" /\ verdicts[p] = "open"
      BY <2>4 DEF Verdict, Finished, verdicts
    <3>2. CASE legs'[p].result = "externally_verified_public"
      <4>1. Public(p) # {} /\ Made(p) # {}
        BY <1>0, <1>3, <3>2, PublicIsMade DEF Judgement
      <4>2. medias[p] = "public" /\ Verdict(p)' = "public"
        BY <3>2, <4>1 DEF medias, Media, Verdict
      <4> QED
        BY <2>2, <3>1, <4>2
    <3>3. CASE legs'[p].result # "externally_verified_public" /\ legs'[p].result \in Finished
      <4>1. Verdict(p)' = "closed"
        BY <3>3 DEF Verdict
      <4> QED
        BY <2>2, <3>1, <4>1
    <3>4. CASE legs'[p].result \notin Finished
      <4>1. Verdict(p)' = Verdict(p)
        BY <3>1, <3>4 DEF Verdict, Finished
      <4> QED
        BY <2>1, <4>1 DEF verdicts
    <3> QED
      BY <3>2, <3>3, <3>4
  <2> QED
    BY <1>3, <2>3, <2>4 DEF Judgement
<1> QED
  BY <1>1, <1>2, <1>3 DEF Verdicts

\* The week is published by a release of legs that are all public.
LEMMA ReleaseAnnounces ==
  ASSUME DInv, NEW w \in Workers, Runs(w)
  PROVE  \/ published' = published
         \/ /\ published' = TRUE
            /\ legs' = legs
            /\ \A p \in Providers : verdicts[p] = "public"
<1>0. DispatchTypeOK /\ JobIsSound /\ TypeOK /\ DecisionIsCurrent
      /\ Len(attempts) \in 1..Len(attempts)
  BY ActiveType DEF DInv, DispatchTypeOK, IInv
<1>1. ASSUME Len(attempts') = Len(attempts),
             attempts'[Len(attempts)].outcome = attempts[Len(attempts)].outcome
      PROVE  published' = published
  BY <1>1 DEF published, Active, Last
<1>2. ASSUME attempts' = attempts PROVE published' = published
  BY <1>2 DEF published, Active, Last
<1>3. CASE Judges(w) \/ Mutates(w)
  <2>1. SameHistory
    BY <1>0, <1>3, JudgesItem, MutatesItem, LegWorkFrame
  <2> QED
    BY <1>0, <1>1, <2>1 DEF SameHistory
<1>4. CASE Claim(w)
  BY <1>0, <1>1, <1>4, ClaimFacts
<1>5. CASE UNCHANGED vars \/ Heartbeat(w) \/ Crash(w)
           \/ \E p \in Providers : ConsumeScheduleToken(w, p)
  BY <1>2, <1>5 DEF vars, docVars, Heartbeat, Crash, ConsumeScheduleToken
<1>6. CASE Release(w)
  <2>1. /\ legs' = legs /\ Len(attempts') = Len(attempts)
        /\ \/ attempts'[Len(attempts)].outcome = attempts[Len(attempts)].outcome
           \/ /\ ~Terminal
              /\ attempts'[Len(attempts)].outcome = NewOutcome
    BY <1>0, <1>6, ReleaseFacts
  <2>2. CASE attempts'[Len(attempts)].outcome = attempts[Len(attempts)].outcome
    BY <1>1, <2>1, <2>2
  <2>3. CASE ~Terminal /\ attempts'[Len(attempts)].outcome = NewOutcome
    <3>1. published = FALSE
      BY <2>3 DEF published, Terminal
    <3>2. published' = (NewOutcome = "published_verified")
      BY <2>1, <2>3 DEF published, Active, Last
    <3>3. ASSUME NewOutcome = "published_verified"
          PROVE  \A p \in Providers : verdicts[p] = "public"
      BY <1>0, <3>3, PublishedDecision DEF AllPublic, verdicts, Verdict
    <3> QED
      BY <2>1, <3>1, <3>2, <3>3
  <2> QED
    BY <2>1, <2>2, <2>3
<1> QED
  BY <1>0, <1>3, <1>4, <1>5, <1>6, RunKinds DEF Tends, Send

\* A recovery has evidence that every leg was given up, and opens them all.
LEMMA RecoveryReopens ==
  ASSUME DInv, Recovers
  PROVE  Published!Reopen
<1>0. DispatchTypeOK /\ TypeOK /\ EndedAsClosed
  BY DEF DInv, DispatchTypeOK
<1>1. PICK e \in [Providers -> Items] : AuthorizeRecovery(e) /\ UNCHANGED dispatchVars
  BY DEF Recovers
<1>2. ASSUME NEW p \in Providers PROVE legs[p].result \in {"failed_terminal", "poisoned"}
  <2>1. CASE PlainlyFailed(Last)
    <3>1. Active.outcome = "failed_terminal"
      BY <2>1 DEF PlainlyFailed, Active
    <3> QED
      BY <1>0, <3>1 DEF EndedAsClosed
  <2>2. CASE StrictlyResolved(Last)
    <3>1. PICK k \in DOMAIN Active.readbacks :
            /\ Active.readbacks[k].provider = p
            /\ Active.readbacks[k].verif.result = "failed_terminal"
      BY <2>2 DEF StrictlyResolved, Active
    <3> QED
      BY <1>0, <3>1 DEF EndedAsClosed
  <2> QED
    BY <1>1, <2>1, <2>2 DEF AuthorizeRecovery, RecoveryEvidence
<1>3. \A p \in Providers : verdicts[p] = "closed"
  BY <1>2 DEF verdicts, Verdict, Finished
<1>4. \A p \in Providers : Verdict(p)' = "open"
  BY <1>0, Recovered DEF Verdict, Finished
<1>5. published = FALSE
  BY <1>0, <1>2, OutboxAssumption DEF EndedAsClosed, published
<1>6. published' = FALSE
  BY <1>0, <1>1, RecoveredActive DEF published
<1>7. medias' = medias
  BY <1>0, Recovered DEF medias, Media, Made, Public
<1>8. verdicts' = [p \in Providers |-> "open"]
  BY <1>4 DEF verdicts
<1> QED
  BY <1>3, <1>5, <1>6, <1>7, <1>8 DEF Published!Reopen, medias, verdicts, published

\* Every step of the dispatch is one of Publication, or changes none of it.
LEMMA PublicationStep ==
  ASSUME DInv, [DispatchNext]_allVars
  PROVE  [Published!Next]_(Published!vars)
<1>0. DispatchTypeOK /\ JobIsSound
  BY DEF DInv
<1>1. ASSUME medias' = medias, verdicts' = verdicts, published' = published
      PROVE  UNCHANGED Published!vars
  BY <1>1 DEF Published!vars, medias, verdicts, published
<1>2. CASE Provides
  <2>1. verdicts' = verdicts /\ published' = published
    BY <1>2, ProvidedFacts DEF vars, docVars, verdicts, Verdict, published, Active, Last
  <2>2. ASSUME NEW p \in Providers, medias[p] = "absent",
               medias' = [medias EXCEPT ![p] = "hidden"]
        PROVE  Published!Upload(p)
    BY <2>1, <2>2 DEF Published!Upload, medias, verdicts, published
  <2>3. ASSUME NEW p \in Providers, medias[p] = "hidden",
               medias' = [medias EXCEPT ![p] = "public"]
        PROVE  Published!Promote(p)
    BY <2>1, <2>3 DEF Published!Promote, medias, verdicts, published
  <2> QED
    BY <1>1, <1>2, <2>1, <2>2, <2>3, LandPublishes DEF Published!Next
<1>3. ASSUME NEW w \in Workers, Runs(w), ~Recovers
      PROVE  [Published!Next]_(Published!vars)
  <2>1. Verdicts
    BY <1>3, VerdictsStep
  <2>2. done' = done
    BY <1>0, <1>3, RunKinds DEF SameMail, Send
  <2>3. CASE published' = published
    <3>1. ASSUME NEW p \in Providers, verdicts[p] = "open", medias' = medias,
                 \E v \in {"closed"} \cup (IF medias[p] = "public" THEN {"public"} ELSE {}) :
                   verdicts' = [verdicts EXCEPT ![p] = v]
          PROVE  Published!Conclude(p)
      BY <2>3, <3>1 DEF Published!Conclude, medias, verdicts, published
    <3> QED
      BY <1>1, <2>1, <2>2, <2>3, <3>1, JudgementConcludes DEF Published!Next
  <2>4. CASE /\ published' = TRUE
             /\ legs' = legs
             /\ \A p \in Providers : verdicts[p] = "public"
    <3>1. medias' = medias /\ verdicts' = verdicts
      BY <2>2, <2>4 DEF medias, Media, Made, Public, verdicts, Verdict
    <3>2. Published!Announce
      BY <2>4, <3>1 DEF Published!Announce, medias, verdicts, published
    <3> QED
      BY <3>2 DEF Published!Next
  <2> QED
    BY <1>3, <2>3, <2>4, ReleaseAnnounces
<1>4. CASE Quiet
  <2>1. legs' = legs /\ done' = done /\ attempts' = attempts
    BY <1>4 DEF Quiet
  <2>2. medias' = medias /\ verdicts' = verdicts /\ published' = published
    BY <2>1 DEF medias, Media, Made, Public, verdicts, Verdict, published, Active, Last
  <2> QED
    BY <1>1, <2>2
<1>5. CASE Recovers
  BY <1>5, RecoveryReopens DEF Published!Next
<1> QED
  BY <1>0, <1>2, <1>3, <1>4, <1>5, WhoSteps

\* The dispatch implements Publication, over all its attempts: a provider gets
\* the media once, a verdict is for good until a recovery of a week all of whose
\* legs were given up, and the week is published when every leg is public.
THEOREM Implements == DispatchSpec => PublicationImplemented
<1>1. DispatchInit => Published!Init
  <2> SUFFICES ASSUME DispatchInit PROVE Published!Init
    OBVIOUS
  <2>1. done = {} /\ Init
    BY DEF DispatchInit
  <2>2. \A p \in Providers : Media(p) = "absent" /\ Verdict(p) = "open"
    BY <2>1 DEF Media, Made, Init, NewLeg, Verdict, Finished
  <2>3. Active.outcome = "none"
    BY <2>1 DEF Init, Active, Last, NewAttempt
  <2> QED
    BY <2>2, <2>3 DEF Published!Init
<1>2. DInv /\ [DispatchNext]_allVars => [Published!Next]_(Published!vars)
  BY PublicationStep
<1> QED
  BY <1>1, <1>2, DispatchInductive, PTL DEF DispatchSpec, PublicationImplemented, Published!Spec
=============================================================================
