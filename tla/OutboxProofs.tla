---------------------------- MODULE OutboxProofs ----------------------------
(***************************************************************************)
(* Proofs about Outbox, for every set of workers, providers, operations,   *)
(* items and readings and every value of the bounds.                       *)
(***************************************************************************)
EXTENDS Outbox, SequenceTheorems, TLAPS

-----------------------------------------------------------------------------
(* The strengthening.  ClaimIsCurrent ties the claim objects in memory to  *)
(* the document, LegIsOwn ties intents and receipts to the open attempt,   *)
(* GrantsAreSpent and PriorIsClosed are what claim and authorize_recovery  *)
(* leave behind.                                                           *)

ClaimIsCurrent ==
  /\ claim # NoClaim => claim.fence = fence
  /\ \A w \in Workers : held[w].fence <= fence
  /\ \A w \in Workers : held[w].fence # 0 /\ held[w].fence = claim.fence =>
       held[w].attempt = claim.attempt

LegIsOwn ==
  \A p \in Providers :
    /\ legs[p].intent.consumed # 0 =>
         /\ legs[p].intent.attempt = Last
         /\ claim # NoClaim => claim.attempt = Last
    /\ \A k \in DOMAIN legs[p].receipts : legs[p].receipts[k].attempt = Last

GrantsAreSpent ==
  \A i \in 1..Last : attempts[i].granted # {} => ~attempts[i].fresh

PriorIsClosed == \A i \in 1..(Last - 1) : attempts[i].outcome # "none"

IInv ==
  /\ TypeOK
  /\ ClaimIsCurrent
  /\ UnknownIsFenced
  /\ MutatorOwnsAttempt
  /\ LegIsOwn
  /\ EvidenceIsOwn
  /\ GrantsAreSpent
  /\ SingleRecoveryGrant
  /\ DecisionIsCurrent
  /\ PriorIsClosed
  /\ WinnerIsProven

-----------------------------------------------------------------------------
(* Amending the active attempt.                                            *)

\* Amend replaces the last attempt and nothing else.
LEMMA AmendFacts ==
  ASSUME NEW S, NEW as \in Seq(S), Len(as) \in 1..Len(as), NEW a \in S
  PROVE  /\ Amend(as, a) \in Seq(S)
         /\ Len(Amend(as, a)) = Len(as)
         /\ Amend(as, a)[Len(as)] = a
         /\ \A i \in 1..Len(as) : i # Len(as) => Amend(as, a)[i] = as[i]
<1>1. as \in [1..Len(as) -> S]
  BY LenProperties
<1>2. Amend(as, a) = [as EXCEPT ![Len(as)] = a]
  BY DEF Amend
<1>3. [as EXCEPT ![Len(as)] = a] \in Seq(S)
  BY ExceptSeq
<1>4. Len([as EXCEPT ![Len(as)] = a]) = Len(as)
  <2> DEFINE b == [as EXCEPT ![Len(as)] = a]
  <2>1. DOMAIN b = 1..Len(as) /\ Len(as) \in Nat
    BY <1>1, LenProperties
  <2>2. b \in Seq(S)
    BY <1>3
  <2> HIDE DEF b
  <2>3. DOMAIN b = 1..Len(b) /\ Len(b) \in Nat
    BY <2>2, LenProperties
  <2>4. Len(b) = Len(as)
    <3>1. 1..Len(as) = 1..Len(b)
      BY <2>1, <2>3, Zenon
    <3>2. Len(as) \in 1..Len(b)
      BY <3>1, Zenon
    <3> DEFINE k == Len(as)
               m == Len(b)
    <3>3. k \in Nat /\ m \in Nat /\ k \in 1..m /\ 1..k = 1..m
      BY <2>1, <2>3, <3>1, <3>2
    <3> HIDE DEF k, m
    <3>4. m \in 1..m
      BY <3>3
    <3>5. m \in 1..k
      BY <3>3, <3>4, Zenon
    <3>6. k = m
      BY <3>3, <3>5
    <3> QED
      BY <3>6, Zenon DEF k, m
  <2> QED
    BY <2>4 DEF b
<1>5. [as EXCEPT ![Len(as)] = a][Len(as)] = a
  BY <1>1
<1>6. \A i \in 1..Len(as) :
        i # Len(as) => [as EXCEPT ![Len(as)] = a][i] = as[i]
  BY <1>1
<1> QED
  BY <1>2, <1>3, <1>4, <1>5, <1>6

\* A touched attempt is an attempt that differs in `fresh' alone.
LEMMA TouchedFacts ==
  ASSUME NEW a \in Attempts
  PROVE  /\ Touched(a) \in Attempts
         /\ Touched(a).outcome = a.outcome
         /\ Touched(a).evidence = a.evidence
         /\ Touched(a).readbacks = a.readbacks
         /\ Touched(a).expected = a.expected
         /\ Touched(a).granted = a.granted
         /\ Touched(a).fresh = FALSE
BY DEF Touched, Attempts

\* The active attempt is the last of a non-empty history.
LEMMA ActiveType ==
  ASSUME TypeOK
  PROVE  /\ Last \in 1..MaxAttempts
         /\ Len(attempts) \in 1..Len(attempts)
         /\ Active \in Attempts
         /\ MaxAttempts \in Nat
<1>1. Last \in 1..MaxAttempts
  BY DEF TypeOK, Last
<1>2. Len(attempts) \in 1..Len(attempts)
  BY OutboxAssumption DEF TypeOK
<1>3. Active \in Attempts
  BY <1>2, ElementOfSeq DEF TypeOK, Active, Last
<1> QED
  BY <1>1, <1>2, <1>3, OutboxAssumption

-----------------------------------------------------------------------------
(* Types of the helpers.                                                   *)

\* The decision is one of the weekly states, whatever it is taken over.
LEMMA WeeklyOfType ==
  ASSUME NEW ls, NEW as
  PROVE  WeeklyOf(ls, as) \in WeeklyStates
BY DEF WeeklyOf, WeeklyPublic, WeeklyPrivate, WeeklyStates, Outcomes

\* A decision closes an attempt with an outcome, or leaves it open.
LEMMA OutcomeOfType ==
  ASSUME NEW s \in WeeklyStates
  PROVE  OutcomeOf(s) \in Outcomes \cup {"none"}
BY DEF OutcomeOf, WeeklyStates, Outcomes

\* What record_verification stores of a reading is a verification.
LEMMA VerificationType ==
  ASSUME NEW leg, NEW r \in Reading
  PROVE  Verification(leg, r) \in Verifications
<1> DEFINE green == VerificationProof(leg, r)
<1>1. green \in BOOLEAN
  BY DEF VerificationProof, Reading
<1>2. r.result \in Results /\ r.item \in MaybeItem
      /\ r.native \in {"none", "hidden", "public"} /\ r.readback \in BOOLEAN
  BY DEF Reading
<1>3. "identity_conflict" \in Results
  BY DEF Results
<1> HIDE DEF green
<1>4. [result |-> IF r.result = "externally_verified_public" /\ ~green
                 THEN "identity_conflict" ELSE r.result,
       item |-> r.item, native |-> r.native, readback |-> r.readback,
       green |-> green] \in Verifications
  BY <1>1, <1>2, <1>3 DEF Verifications
<1> QED
  BY <1>4 DEF Verification, green

\* What release freezes of a leg is evidence.
LEMMA SnapshotType ==
  ASSUME NEW leg \in Legs
  PROVE  Snapshot(leg) \in Evidence
BY DEF Snapshot, Legs, Evidence

\* A leg as enqueue creates it is a leg.
LEMMA NewLegType == NewLeg \in Legs
<1>1. << >> \in Seq(Receipts)
  BY EmptySeq
<1>2. 0 \in 0..MaxChecks
  BY OutboxAssumption
<1> QED
  BY <1>1, <1>2 DEF NewLeg, Legs, Results

\* An attempt as it starts is an attempt.
LEMMA NewAttemptType ==
  ASSUME NEW expected \in [Providers -> MaybeItem]
  PROVE  NewAttempt(expected) \in Attempts
<1>1. NoEvidence \in Evidence
  <2>1. << >> \in Seq(Receipts)
    BY EmptySeq
  <2> QED
    BY <2>1 DEF NoEvidence, Evidence, Results
<1>2. << >> \in Seq([provider : Providers, verif : Verifications])
  BY EmptySeq
<1> QED
  BY <1>1, <1>2 DEF NewAttempt, Attempts

\* A leg reset by authorize_recovery is a leg.
LEMMA SucceedingType ==
  ASSUME NEW leg \in Legs
  PROVE  Succeeding(leg) \in Legs
<1>1. << >> \in Seq(Receipts)
  BY EmptySeq
<1>2. leg.checks \in 0..MaxChecks
  BY DEF Legs
<1> QED
  BY <1>1, <1>2 DEF Succeeding, Legs, Results

\* A schedule that is cleared is a schedule.
LEMMA UnscheduledType ==
  ASSUME NEW s \in Schedules
  PROVE  Unscheduled(s) \in Schedules /\ [s EXCEPT !.token = 0] \in Schedules
<1>1. 0 \in 0..MaxTokens
  BY OutboxAssumption
<1> QED
  BY <1>1 DEF Unscheduled, Schedules

\* A schedule that is issued within the bound on tokens is a schedule.
LEMMA ScheduledType ==
  ASSUME NEW s \in Schedules, s.issued < MaxTokens,
         NEW who \in {"initial", "worker"}
  PROVE  Scheduled(s, who) \in Schedules
<1>1. MaxTokens \in Nat /\ s.issued \in 0..MaxTokens
  BY OutboxAssumption DEF Schedules
<1>2. s.issued + 1 \in 0..MaxTokens /\ 0 \in 0..MaxTokens
  BY <1>1
<1> QED
  BY <1>2 DEF Scheduled, Schedules

\* A notice whose reservation is dropped is a notice.
LEMMA NoticeType ==
  ASSUME NEW n \in Notices
  PROVE  [n EXCEPT !.hold = NoHold] \in Notices
<1>1. NoHold \in Holds
  BY OutboxAssumption DEF NoHold, Holds
<1> QED
  BY <1>1 DEF Notices

-----------------------------------------------------------------------------
(* Type correctness.                                                       *)

\* An amended history is a history of the same length.
LEMMA AmendedType ==
  ASSUME TypeOK, NEW a \in Attempts
  PROVE  /\ Amend(attempts, a) \in Seq(Attempts)
         /\ Len(Amend(attempts, a)) = Len(attempts)
         /\ Amend(attempts, a)[Len(attempts)] = a
         /\ \A i \in 1..Len(attempts) :
              i # Len(attempts) => Amend(attempts, a)[i] = attempts[i]
<1>1. attempts \in Seq(Attempts)
  BY DEF TypeOK
<1> QED
  BY <1>1, ActiveType, AmendFacts

\* Touching the active attempt leaves a history of the same length.
LEMMA TouchedType ==
  ASSUME TypeOK
  PROVE  /\ Amend(attempts, Touched(Active)) \in Seq(Attempts)
         /\ Len(Amend(attempts, Touched(Active))) = Len(attempts)
<1>1. Touched(Active) \in Attempts
  BY ActiveType, TouchedFacts
<1> QED
  BY <1>1, AmendedType

\* A claim object in memory that the document recognises is a claim.
LEMMA RecognisedClaim ==
  ASSUME TypeOK, NEW w \in Workers, RequireClaim(w)
  PROVE  /\ held[w] \in Claims
         /\ claim \in Claims
         /\ claim # NoClaim
<1>1. held[w] \in Claims \cup {NoClaim} /\ claim \in Claims \cup {NoClaim}
  BY DEF TypeOK
<1>2. held[w] # NoClaim /\ claim # NoClaim
  BY OutboxAssumption DEF RequireClaim, NoClaim
<1> QED
  BY <1>1, <1>2

\* The record of a requested provider is a leg.
LEMMA LegType ==
  ASSUME TypeOK, NEW p \in Providers
  PROVE  legs[p] \in Legs
BY DEF TypeOK

\* The document of a first enqueue is well typed.
LEMMA TypeInit == Init => TypeOK
<1> SUFFICES ASSUME Init PROVE TypeOK
  OBVIOUS
<1>1. fence \in 0..MaxFence /\ lastId \in 0..MaxIntents
  BY OutboxAssumption DEF Init
<1>2. attempts \in Seq(Attempts) /\ Len(attempts) \in 1..MaxAttempts
  <2>1. [p \in Providers |-> NoItem] \in [Providers -> MaybeItem]
    BY DEF MaybeItem
  <2>2. NewAttempt([p \in Providers |-> NoItem]) \in Attempts
    BY <2>1, NewAttemptType
  <2>3. 1 \in 1..MaxAttempts
    BY OutboxAssumption
  <2> QED
    BY <2>2, <2>3 DEF Init
<1>3. legs \in [Providers -> Legs]
  BY NewLegType DEF Init
<1>4. sched \in [Providers -> Schedules]
  <2>1. NewSchedule \in Schedules /\ NewSchedule.issued < MaxTokens
    BY OutboxAssumption DEF NewSchedule, Schedules
  <2>2. Scheduled(NewSchedule, "initial") \in Schedules
    BY <2>1, ScheduledType
  <2> QED
    BY <2>2 DEF Init
<1>5. notice \in [Providers -> Notices]
  BY OutboxAssumption DEF Init, Notices, Holds, NoHold
<1> QED
  BY <1>1, <1>2, <1>3, <1>4, <1>5 DEF Init, TypeOK, WeeklyStates

\* Every operation keeps the document and the claim objects well typed.
LEMMA TypeStep == TypeOK /\ [Next]_vars => TypeOK'
<1> SUFFICES ASSUME TypeOK, [Next]_vars PROVE TypeOK'
  OBVIOUS
<1> USE OutboxAssumption
<1>1. ASSUME NEW w \in Workers, Claim(w) PROVE TypeOK'
  <2>1. fence + 1 \in 1..MaxFence /\ fence' = fence + 1
    BY <1>1 DEF Claim, TypeOK
  <2>2. PICK ro \in BOOLEAN :
          claim' = [owner |-> w, fence |-> fence + 1, attempt |-> Last,
                    readOnly |-> ro, lease |-> "ample"]
          /\ held' = [held EXCEPT ![w] = claim']
          /\ attempts' = Amend(attempts, [Touched(Active) EXCEPT !.granted =
                           IF ro THEN @ ELSE @ \cup {fence + 1}])
    <3>1. MayOnlyRead \in BOOLEAN
      BY DEF MayOnlyRead
    <3> QED
      BY <1>1, <3>1 DEF Claim
  <2>3. claim' \in Claims
    BY <2>1, <2>2, ActiveType DEF Claims
  <2>4. attempts' \in Seq(Attempts) /\ Len(attempts') = Len(attempts)
    <3>1. [Touched(Active) EXCEPT !.granted =
             IF ro THEN @ ELSE @ \cup {fence + 1}] \in Attempts
      BY <2>1, ActiveType, TouchedFacts DEF Attempts
    <3> QED
      BY <2>2, <3>1, AmendedType
  <2> QED
    BY <1>1, <2>1, <2>2, <2>3, <2>4 DEF Claim, TypeOK
<1>2. ASSUME NEW w \in Workers, Heartbeat(w) PROVE TypeOK'
  <2>1. claim \in Claims
    BY <1>2, RecognisedClaim DEF Heartbeat
  <2>2. claim' \in Claims
    BY <1>2, <2>1 DEF Heartbeat, Claims
  <2> QED
    BY <1>2, <2>2 DEF Heartbeat, TypeOK
<1>3. ASSUME NEW w \in Workers, Release(w) PROVE TypeOK'
  <2>1. attempts' \in Seq(Attempts) /\ Len(attempts') = Len(attempts)
    <3>1. CASE NewOutcome = "none"
      BY <1>3, <3>1 DEF Release, TypeOK
    <3>2. CASE NewOutcome # "none"
      <4> DEFINE ev == [p \in Providers |-> Snapshot(legs[p])]
                 a == [Touched(Active) EXCEPT !.outcome = NewOutcome,
                                              !.evidence = ev]
      <4>1. NewOutcome \in Outcomes \cup {"none"}
        BY OutcomeOfType DEF NewOutcome, TypeOK
      <4>2. ev \in [Providers -> Evidence]
        BY LegType, SnapshotType
      <4>3. a \in Attempts
        <5> HIDE DEF ev
        <5> QED
          BY <4>1, <4>2, ActiveType, TouchedFacts DEF Attempts
      <4>4. attempts' = Amend(attempts, a)
        BY <1>3, <3>2 DEF Release
      <4> HIDE DEF a
      <4> QED
        BY <4>3, <4>4, AmendedType
    <3> QED
      BY <3>1, <3>2
  <2> QED
    BY <1>3, <2>1 DEF Release, TypeOK
<1>4. ASSUME NEW w \in Workers, Crash(w) PROVE TypeOK'
  BY <1>4 DEF Crash, docVars, TypeOK
<1>5. ASSUME NEW w \in Workers, NEW p \in Providers, NEW op \in Ops,
             NEW item \in MaybeItem, PersistIntent(w, p, op, item)
      PROVE  TypeOK'
  <2> DEFINE new == [id |-> lastId + 1, op |-> op, expected |-> item,
                     consumed |-> 0, attempt |-> 0]
  <2>1. lastId + 1 \in 1..MaxIntents /\ lastId' = lastId + 1
    BY <1>5 DEF PersistIntent, TypeOK
  <2>2. new \in Intents
    BY <2>1 DEF Intents
  <2>3. legs' = [legs EXCEPT ![p].intent = new]
    BY <1>5 DEF PersistIntent
  <2>4. legs' \in [Providers -> Legs]
    <3> HIDE DEF new
    <3> QED
      BY <2>2, <2>3 DEF TypeOK, Legs
  <2> QED
    BY <1>5, <2>1, <2>4, TouchedType DEF PersistIntent, TypeOK
<1>6. ASSUME NEW w \in Workers, NEW p \in Providers, ConsumeIntent(w, p)
      PROVE  TypeOK'
  <2>1. /\ claim.fence \in 0..MaxFence
        /\ held[w].attempt \in 0..MaxAttempts
        /\ legs[p].intent \in Intents
    <3>1. RequireClaim(w) /\ legs[p].intent # NoIntent
      BY <1>6 DEF ConsumeIntent, RequireMutation
    <3>2. claim \in Claims /\ held[w] \in Claims
      BY <3>1, RecognisedClaim
    <3> QED
      BY <3>1, <3>2, LegType DEF Claims, Legs
  <2>2. [legs[p].intent EXCEPT !.consumed = claim.fence,
                               !.attempt = held[w].attempt] \in Intents
    BY <2>1 DEF Intents
  <2>3. legs' = [legs EXCEPT ![p].intent =
                   [legs[p].intent EXCEPT !.consumed = claim.fence,
                                          !.attempt = held[w].attempt]]
    <3>1. legs \in [Providers -> Legs]
      BY DEF TypeOK
    <3> QED
      BY <1>6, <2>1, <3>1 DEF ConsumeIntent, Legs, Intents
  <2>4. legs' \in [Providers -> Legs]
    BY <2>2, <2>3 DEF TypeOK, Legs
  <2> QED
    BY <1>6, <2>4, TouchedType DEF ConsumeIntent, TypeOK
<1>7. ASSUME NEW w \in Workers, NEW p \in Providers, NEW ok \in BOOLEAN,
             NEW item \in MaybeItem, RecordReceipt(w, p, ok, item)
      PROVE  TypeOK'
  <2> DEFINE new == [intent |-> legs[p].intent.id, op |-> legs[p].intent.op,
                     attempt |-> held[w].attempt, fence |-> claim.fence,
                     accepted |-> ok, item |-> item]
  <2>1. legs[p].intent \in Intents
    <3>1. legs[p].intent # NoIntent
      BY <1>7 DEF RecordReceipt, NoIntent
    <3> QED
      BY <3>1, LegType DEF Legs
  <2>2. claim \in Claims /\ held[w] \in Claims
    BY <1>7, RecognisedClaim DEF RecordReceipt
  <2>3. new \in Receipts
    BY <2>1, <2>2 DEF Intents, Claims, Receipts
  <2>4. legs' = [legs EXCEPT ![p] =
                   [legs[p] EXCEPT !.receipts = Append(legs[p].receipts, new)]]
    BY <1>7 DEF RecordReceipt, TypeOK
  <2>5. [legs[p] EXCEPT !.receipts = Append(legs[p].receipts, new)] \in Legs
    <3>1. Append(legs[p].receipts, new) \in Seq(Receipts)
      <4>1. legs[p].receipts \in Seq(Receipts)
        BY LegType DEF Legs
      <4> HIDE DEF new
      <4> QED
        BY <2>3, <4>1, AppendProperties
    <3> HIDE DEF new
    <3> QED
      BY <3>1, LegType DEF Legs
  <2>6. legs' \in [Providers -> Legs]
    <3> HIDE DEF new
    <3> QED
      BY <2>4, <2>5 DEF TypeOK
  <2> QED
    BY <1>7, <2>6, TouchedType DEF RecordReceipt, TypeOK
<1>8. ASSUME NEW w \in Workers, NEW p \in Providers, NEW r \in Readings,
             RecordVerification(w, p, r)
      PROVE  TypeOK'
  <2> DEFINE v == Verification(legs[p], r)
             leg == [legs[p] EXCEPT !.verif = v, !.result = v.result,
                                    !.checks = legs[p].checks + 1]
             rb == IF Terminal
                   THEN Append(Touched(Active).readbacks,
                               [provider |-> p, verif |-> v])
                   ELSE Touched(Active).readbacks
             a == [Touched(Active) EXCEPT !.readbacks = rb]
  <2>1. v \in Verifications
    BY VerificationType
  <2> HIDE DEF v
  <2>2. leg \in Legs
    <3>1. legs[p].checks + 1 \in 0..MaxChecks
      BY <1>8, LegType DEF RecordVerification, Legs
    <3>2. v.result \in Results
      BY <2>1 DEF Verifications
    <3> QED
      BY <2>1, <3>1, <3>2, LegType DEF Legs
  <2>3. a \in Attempts
    <3>1. rb \in Seq([provider : Providers, verif : Verifications])
      <4>1. Touched(Active).readbacks
              \in Seq([provider : Providers, verif : Verifications])
        BY ActiveType, TouchedFacts DEF Attempts
      <4>2. [provider |-> p, verif |-> v]
              \in [provider : Providers, verif : Verifications]
        BY <2>1
      <4> QED
        BY <4>1, <4>2, AppendProperties
    <3> HIDE DEF rb
    <3> QED
      BY <3>1, ActiveType, TouchedFacts DEF Attempts
  <2>4. legs' = [legs EXCEPT ![p] = leg] /\ attempts' = Amend(attempts, a)
    BY <1>8 DEF RecordVerification, v
  <2>5. sched' \in [Providers -> Schedules]
    <3>1. [sched[p] EXCEPT !.due = "never"] \in Schedules
      BY DEF TypeOK, Schedules
    <3>2. Unscheduled(sched[p]) \in Schedules
      BY UnscheduledType DEF TypeOK
    <3> QED
      BY <1>8, <3>1, <3>2 DEF RecordVerification, TypeOK
  <2>6. notice' \in [Providers -> Notices]
    <3>1. \/ notice' = notice
          \/ notice' = [notice EXCEPT ![p].hold = NoHold]
      BY <1>8 DEF RecordVerification
    <3>2. notice \in [Providers -> Notices]
      BY DEF TypeOK
    <3> QED
      BY <3>1, <3>2, NoticeType
  <2>7. weekly' \in WeeklyStates
    BY <1>8, WeeklyOfType DEF RecordVerification, RefreshAggregate
  <2>8. attempts' \in Seq(Attempts) /\ Len(attempts') = Len(attempts)
    <3> HIDE DEF a
    <3> QED
      BY <2>3, <2>4, AmendedType
  <2>9. legs' \in [Providers -> Legs]
    <3> HIDE DEF leg
    <3>1. legs \in [Providers -> Legs]
      BY DEF TypeOK
    <3> QED
      BY <2>2, <2>4, <3>1
  <2>10. UNCHANGED <<fence, claim, review, lastId, horizon, held>>
    BY <1>8 DEF RecordVerification
  <2> QED
    BY <2>5, <2>6, <2>7, <2>8, <2>9, <2>10 DEF TypeOK
<1>9. ASSUME NEW w \in Workers, NEW p \in Providers, NEW beyond \in BOOLEAN,
             ScheduleReconciliation(w, p, beyond)
      PROVE  TypeOK'
  <2>1. weekly' \in WeeklyStates
    BY <1>9, WeeklyOfType DEF ScheduleReconciliation, RefreshAggregate
  <2>2. CASE Exhausted(p, beyond)
    <3> DEFINE v == IF legs[p].verif = NoVerification THEN legs[p].verif
                    ELSE [legs[p].verif EXCEPT
                            !.result = "manual_handoff_required"]
    <3>1. v \in Verifications \cup {NoVerification}
      BY LegType DEF Legs, Verifications, Results
    <3>2. legs' = [legs EXCEPT ![p].result = "manual_handoff_required",
                               ![p].verif = v]
      BY <1>9, <2>2 DEF ScheduleReconciliation, TypeOK, Legs
    <3>3. legs' \in [Providers -> Legs]
      <4> HIDE DEF v
      <4>1. legs \in [Providers -> Legs] /\ legs[p] \in Legs
        BY DEF TypeOK
      <4>2. [legs[p] EXCEPT !.result = "manual_handoff_required",
                            !.verif = v] \in Legs
        BY <3>1, <4>1 DEF Legs, Results
      <4>3. legs' = [legs EXCEPT ![p] =
                       [legs[p] EXCEPT !.result = "manual_handoff_required",
                                       !.verif = v]]
        BY <3>2, <4>1
      <4> QED
        BY <4>1, <4>2, <4>3
    <3>4. sched' \in [Providers -> Schedules]
      <4>1. sched' = [sched EXCEPT ![p] = Unscheduled(sched[p])]
        BY <1>9, <2>2, Zenon DEF ScheduleReconciliation
      <4> QED
        BY <4>1, UnscheduledType DEF TypeOK
    <3>5. notice' \in [Providers -> Notices]
      BY <1>9, <2>2, NoticeType DEF ScheduleReconciliation, TypeOK
    <3>6. attempts' = Amend(attempts, Touched(Active))
      BY <1>9, <2>2 DEF ScheduleReconciliation
    <3> QED
      BY <1>9, <2>1, <3>3, <3>4, <3>5, <3>6, TouchedType
         DEF ScheduleReconciliation, TypeOK
  <2>3. CASE ~Exhausted(p, beyond)
    <3>1. legs' \in [Providers -> Legs]
      <4>1. [legs[p] EXCEPT !.result = "pending_provider"] \in Legs
        BY LegType DEF Legs, Results
      <4>2. legs' = [legs EXCEPT
                       ![p] = [legs[p] EXCEPT !.result = "pending_provider"]]
        BY <1>9, <2>3 DEF ScheduleReconciliation, TypeOK
      <4> QED
        BY <4>1, <4>2 DEF TypeOK
    <3>2. sched' \in [Providers -> Schedules]
      <4>1. Scheduled(sched[p], "worker") \in Schedules
        BY <1>9, <2>3, ScheduledType DEF ScheduleReconciliation, TypeOK
      <4> QED
        BY <1>9, <2>3, <4>1 DEF ScheduleReconciliation, TypeOK
    <3>3. UNCHANGED <<notice, attempts>>
      BY <1>9, <2>3 DEF ScheduleReconciliation
    <3> QED
      BY <1>9, <2>1, <3>1, <3>2, <3>3 DEF ScheduleReconciliation, TypeOK
  <2> QED
    BY <2>2, <2>3
<1>10. ASSUME NEW w \in Workers, NEW p \in Providers, ConsumeScheduleToken(w, p)
       PROVE  TypeOK'
  BY <1>10, UnscheduledType DEF ConsumeScheduleToken, TypeOK
<1>11. ASSUME NEW e \in [Providers -> Items], AuthorizeRecovery(e)
       PROVE  TypeOK'
  <2>1. attempts' \in Seq(Attempts) /\ Len(attempts') \in 1..MaxAttempts
    <3>1. NewAttempt(e) \in Attempts
      BY NewAttemptType DEF MaybeItem
    <3>2. attempts' = Append(attempts, NewAttempt(e)) /\ Last < MaxAttempts
      BY <1>11 DEF AuthorizeRecovery
    <3>3. attempts' \in Seq(Attempts) /\ Len(attempts') = Len(attempts) + 1
      BY <3>1, <3>2, AppendProperties DEF TypeOK
    <3> QED
      BY <3>2, <3>3 DEF TypeOK, Last
  <2>2. legs' \in [Providers -> Legs]
    BY <1>11, LegType, SucceedingType DEF AuthorizeRecovery
  <2>3. weekly' \in WeeklyStates
    BY <1>11, WeeklyOfType DEF AuthorizeRecovery, RefreshAggregate
  <2> QED
    BY <1>11, <2>1, <2>2, <2>3 DEF AuthorizeRecovery, TypeOK
<1>12. ASSUME EnsureProviderReconciliation PROVE TypeOK'
  <2>1. sched' \in [Providers -> Schedules]
    BY <1>12, ScheduledType DEF EnsureProviderReconciliation, TypeOK
  <2>2. notice' \in [Providers -> Notices]
    BY <1>12, NoticeType DEF EnsureProviderReconciliation, TypeOK
  <2> QED
    BY <1>12, <2>1, <2>2 DEF EnsureProviderReconciliation, TypeOK
<1>13. ASSUME NEW d \in {"approved", "rejected"}, RecordMediaReview(d)
       PROVE  TypeOK'
  <2>1. sched' \in [Providers -> Schedules]
    BY <1>13, UnscheduledType, ScheduledType DEF RecordMediaReview, TypeOK
  <2>2. notice' \in [Providers -> Notices]
    BY SMTT(30), <1>13, NoticeType DEF RecordMediaReview, TypeOK
  <2>3. horizon' \in BOOLEAN
    BY <1>13 DEF RecordMediaReview, TypeOK
  <2> QED
    BY <1>13, <2>1, <2>2, <2>3 DEF RecordMediaReview, TypeOK
<1>14. ASSUME LeaseRuns PROVE TypeOK'
  <2>1. claim \in Claims
    BY <1>14 DEF LeaseRuns, TypeOK, NoClaim
  <2>2. claim' \in Claims
    BY <1>14, <2>1 DEF LeaseRuns, Claims
  <2> QED
    BY <1>14, <2>2 DEF LeaseRuns, TypeOK
<1>15. ASSUME HorizonPasses PROVE TypeOK'
  BY <1>15 DEF HorizonPasses, docVars, TypeOK
<1>16. ASSUME NEW p \in Providers, TokenFallsDue(p) PROVE TypeOK'
  BY ZenonT(30), <1>16 DEF TokenFallsDue, TypeOK, Schedules
<1>17. ASSUME UNCHANGED vars PROVE TypeOK'
  BY <1>17 DEF vars, docVars, TypeOK
<1> QED
  BY <1>1, <1>2, <1>3, <1>4, <1>5, <1>6, <1>7, <1>8, <1>9, <1>10, <1>11,
     <1>12, <1>13, <1>14, <1>15, <1>16, <1>17
     DEF Next, MutationNext, ScheduleNext

\* Every reachable document and every claim object has its type.
THEOREM TypeCorrect == Spec => []TypeOK
BY TypeInit, TypeStep, PTL DEF Spec

-----------------------------------------------------------------------------
(* What the steps leave alone.                                             *)

\* Every attempt keeps all that decisions and recoveries read of it.
SameHistory ==
  /\ Len(attempts') = Len(attempts)
  /\ \A i \in 1..Len(attempts) :
       i # Len(attempts) => attempts'[i] = attempts[i]
  /\ \A i \in 1..Len(attempts) :
       /\ attempts'[i].outcome = attempts[i].outcome
       /\ attempts'[i].evidence = attempts[i].evidence
       /\ attempts'[i].expected = attempts[i].expected
       /\ attempts'[i].granted = attempts[i].granted
       /\ attempts'[i].fresh => attempts[i].fresh

\* Steps that work on no leg: the claim may only gain or lose lease, and an
\* execution may only lose its claim object.
Aside ==
  /\ UNCHANGED <<fence, attempts, legs, weekly>>
  /\ claim # NoClaim <=> claim' # NoClaim
  /\ claim'.fence = claim.fence
  /\ claim'.readOnly = claim.readOnly
  /\ claim'.attempt = claim.attempt
  /\ \A w \in Workers : held'[w] = held[w] \/ held'[w] = NoClaim

\* Steps of a claimant on one leg.
LegWork ==
  \E w \in Workers, p \in Providers :
    \/ \E op \in Ops, item \in MaybeItem : PersistIntent(w, p, op, item)
    \/ ConsumeIntent(w, p)
    \/ \E ok \in BOOLEAN, item \in MaybeItem : RecordReceipt(w, p, ok, item)
    \/ \E r \in Readings : RecordVerification(w, p, r)
    \/ \E beyond \in BOOLEAN : ScheduleReconciliation(w, p, beyond)

\* Each operation is a claim, a release, a recovery, work on a leg, or touches
\* neither legs nor history.
LEMMA StepKinds ==
  ASSUME TypeOK, [Next]_vars
  PROVE  \/ \E w \in Workers : Claim(w)
         \/ \E w \in Workers : Release(w)
         \/ \E e \in [Providers -> Items] : AuthorizeRecovery(e)
         \/ LegWork
         \/ Aside
<1>1. ASSUME NEW w \in Workers, Heartbeat(w) PROVE Aside
  <2>1. claim \in Claims
    BY <1>1, RecognisedClaim DEF Heartbeat
  <2>2. claim' = [claim EXCEPT !.lease = "ample"]
    BY <1>1 DEF Heartbeat
  <2>3. claim' # NoClaim /\ claim # NoClaim
    BY <2>1, <2>2 DEF Claims, NoClaim
  <2>4. /\ claim'.fence = claim.fence
        /\ claim'.readOnly = claim.readOnly
        /\ claim'.attempt = claim.attempt
    BY <2>1, <2>2 DEF Claims
  <2> QED
    BY <1>1, <2>3, <2>4 DEF Heartbeat, Aside
<1>2. ASSUME LeaseRuns PROVE Aside
  <2>1. claim \in Claims
    BY <1>2 DEF LeaseRuns, TypeOK, NoClaim
  <2>2. claim' = [claim EXCEPT !.lease =
                    IF claim.lease = "ample" THEN "short" ELSE "expired"]
    BY <1>2, <2>1 DEF LeaseRuns, Claims
  <2>3. claim' # NoClaim /\ claim # NoClaim
    <3>1. claim'.owner \in Workers
      BY <2>1, <2>2 DEF Claims
    <3> QED
      BY <2>1, <3>1, OutboxAssumption DEF Claims, NoClaim
  <2>4. /\ claim'.fence = claim.fence
        /\ claim'.readOnly = claim.readOnly
        /\ claim'.attempt = claim.attempt
    BY <2>1, <2>2 DEF Claims
  <2> QED
    BY <1>2, <2>3, <2>4 DEF LeaseRuns, Aside
<1>3. ASSUME NEW w \in Workers, Crash(w) PROVE Aside
  BY <1>3 DEF Crash, docVars, Aside, TypeOK
<1>4. ASSUME NEW w \in Workers, NEW p \in Providers, ConsumeScheduleToken(w, p)
      PROVE  Aside
  BY <1>4 DEF ConsumeScheduleToken, Aside
<1>5. ASSUME EnsureProviderReconciliation PROVE Aside
  BY <1>5 DEF EnsureProviderReconciliation, Aside
<1>6. ASSUME NEW d \in {"approved", "rejected"}, RecordMediaReview(d)
      PROVE  Aside
  BY <1>6 DEF RecordMediaReview, Aside
<1>7. ASSUME HorizonPasses PROVE Aside
  BY <1>7 DEF HorizonPasses, docVars, Aside
<1>8. ASSUME NEW p \in Providers, TokenFallsDue(p) PROVE Aside
  BY <1>8 DEF TokenFallsDue, Aside
<1>9. ASSUME UNCHANGED vars PROVE Aside
  BY <1>9 DEF vars, docVars, Aside
<1> QED
  BY <1>1, <1>2, <1>3, <1>4, <1>5, <1>6, <1>7, <1>8, <1>9
     DEF Next, MutationNext, ScheduleNext, LegWork

\* A history whose active attempt is touched, or given readbacks, is the same.
LEMMA TouchedHistory ==
  ASSUME TypeOK, NEW a \in Attempts, attempts' = Amend(attempts, a),
         a.outcome = Active.outcome, a.evidence = Active.evidence,
         a.expected = Active.expected, a.granted = Active.granted,
         a.fresh = FALSE
  PROVE  SameHistory
<1>1. /\ Len(attempts') = Len(attempts)
      /\ attempts'[Len(attempts)] = a
      /\ \A i \in 1..Len(attempts) :
           i # Len(attempts) => attempts'[i] = attempts[i]
  BY AmendedType
<1>2. Active = attempts[Len(attempts)]
  BY DEF Active, Last
<1> QED
  BY <1>1, <1>2 DEF SameHistory

\* Work on a leg changes neither claims nor the outcomes of the history.
LEMMA LegWorkFrame ==
  ASSUME TypeOK, LegWork
  PROVE  /\ UNCHANGED <<fence, claim, held>>
         /\ SameHistory
<1>1. ASSUME attempts' = attempts PROVE SameHistory
  BY <1>1 DEF SameHistory
<1>2. ASSUME attempts' = Amend(attempts, Touched(Active)) PROVE SameHistory
  <2>1. Touched(Active) \in Attempts
    BY ActiveType, TouchedFacts
  <2> QED
    BY <1>2, <2>1, ActiveType, TouchedFacts, TouchedHistory
<1>3. ASSUME NEW w \in Workers, NEW p \in Providers, NEW r \in Readings,
             RecordVerification(w, p, r)
      PROVE  SameHistory
  <2> DEFINE rb == IF Terminal
                   THEN Append(Touched(Active).readbacks,
                               [provider |-> p, verif |-> Verification(legs[p], r)])
                   ELSE Touched(Active).readbacks
             a == [Touched(Active) EXCEPT !.readbacks = rb]
  <2>1. attempts' = Amend(attempts, a)
    BY <1>3 DEF RecordVerification
  <2>2. rb \in Seq([provider : Providers, verif : Verifications])
    <3>1. Touched(Active).readbacks
            \in Seq([provider : Providers, verif : Verifications])
      BY ActiveType, TouchedFacts DEF Attempts
    <3>2. [provider |-> p, verif |-> Verification(legs[p], r)]
            \in [provider : Providers, verif : Verifications]
      BY VerificationType, OutboxAssumption
    <3> QED
      BY <3>1, <3>2, AppendProperties
  <2> HIDE DEF rb
  <2>3. /\ a \in Attempts
        /\ a.outcome = Active.outcome /\ a.evidence = Active.evidence
        /\ a.expected = Active.expected /\ a.granted = Active.granted
        /\ a.fresh = FALSE
    BY <2>2, ActiveType, TouchedFacts DEF Attempts
  <2> HIDE DEF a
  <2> QED
    BY <2>1, <2>3, TouchedHistory
<1>4. ASSUME NEW w \in Workers, NEW p \in Providers, NEW beyond \in BOOLEAN,
             ScheduleReconciliation(w, p, beyond)
      PROVE  SameHistory
  <2>1. \/ attempts' = attempts
        \/ attempts' = Amend(attempts, Touched(Active))
    BY <1>4 DEF ScheduleReconciliation
  <2> QED
    BY <1>1, <1>2, <2>1
<1>5. SameHistory
  <2>1. ASSUME NEW w \in Workers, NEW p \in Providers, NEW op \in Ops,
               NEW item \in MaybeItem, PersistIntent(w, p, op, item)
        PROVE  attempts' = Amend(attempts, Touched(Active))
    BY <2>1 DEF PersistIntent
  <2>2. ASSUME NEW w \in Workers, NEW p \in Providers, ConsumeIntent(w, p)
        PROVE  attempts' = Amend(attempts, Touched(Active))
    BY <2>2 DEF ConsumeIntent
  <2>3. ASSUME NEW w \in Workers, NEW p \in Providers, NEW ok \in BOOLEAN,
               NEW item \in MaybeItem, RecordReceipt(w, p, ok, item)
        PROVE  attempts' = Amend(attempts, Touched(Active))
    BY <2>3 DEF RecordReceipt
  <2> QED
    BY <1>2, <1>3, <1>4, <2>1, <2>2, <2>3 DEF LegWork
<1>6. UNCHANGED <<fence, claim, held>>
  <2>1. ASSUME NEW w \in Workers, NEW p \in Providers, NEW op \in Ops,
               NEW item \in MaybeItem, PersistIntent(w, p, op, item)
        PROVE  UNCHANGED <<fence, claim, held>>
    BY <2>1 DEF PersistIntent
  <2>2. ASSUME NEW w \in Workers, NEW p \in Providers, ConsumeIntent(w, p)
        PROVE  UNCHANGED <<fence, claim, held>>
    BY <2>2 DEF ConsumeIntent
  <2>3. ASSUME NEW w \in Workers, NEW p \in Providers, NEW ok \in BOOLEAN,
               NEW item \in MaybeItem, RecordReceipt(w, p, ok, item)
        PROVE  UNCHANGED <<fence, claim, held>>
    BY <2>3 DEF RecordReceipt
  <2>4. ASSUME NEW w \in Workers, NEW p \in Providers, NEW r \in Readings,
               RecordVerification(w, p, r)
        PROVE  UNCHANGED <<fence, claim, held>>
    BY <2>4 DEF RecordVerification
  <2>5. ASSUME NEW w \in Workers, NEW p \in Providers, NEW beyond \in BOOLEAN,
               ScheduleReconciliation(w, p, beyond)
        PROVE  UNCHANGED <<fence, claim, held>>
    BY <2>5 DEF ScheduleReconciliation
  <2> QED
    BY <2>1, <2>2, <2>3, <2>4, <2>5 DEF LegWork
<1> QED
  BY <1>5, <1>6

-----------------------------------------------------------------------------
(* The steps that do change claims and attempts.                           *)

\* What claim does: a new fence, bound to the active attempt, and mutation-
\* capable only if MayOnlyRead does not hold.
LEMMA ClaimFacts ==
  ASSUME TypeOK, NEW w \in Workers, Claim(w)
  PROVE  /\ fence' = fence + 1
         /\ claim'.fence = fence + 1
         /\ claim'.attempt = Last
         /\ ~claim'.readOnly => ~MayOnlyRead
         /\ held' = [held EXCEPT ![w] = claim']
         /\ UNCHANGED <<legs, weekly>>
         /\ Len(attempts') = Len(attempts)
         /\ \A i \in 1..Len(attempts) :
              i # Len(attempts) => attempts'[i] = attempts[i]
         /\ \A i \in 1..Len(attempts) :
              /\ attempts'[i].outcome = attempts[i].outcome
              /\ attempts'[i].evidence = attempts[i].evidence
              /\ attempts'[i].expected = attempts[i].expected
              /\ attempts'[i].fresh => attempts[i].fresh
              /\ attempts'[i].granted # attempts[i].granted =>
                   /\ i = Last
                   /\ ~claim'.readOnly
                   /\ attempts'[i].granted = attempts[i].granted \cup {fence + 1}
                   /\ ~attempts'[i].fresh
<1> DEFINE a == [Touched(Active) EXCEPT !.granted =
                   IF claim'.readOnly THEN Touched(Active).granted
                   ELSE Touched(Active).granted \cup {fence + 1}]
<1>1. /\ fence' = fence + 1
      /\ claim'.fence = fence + 1
      /\ claim'.attempt = Last
      /\ claim'.readOnly = MayOnlyRead
      /\ held' = [held EXCEPT ![w] = claim']
      /\ UNCHANGED <<legs, weekly>>
      /\ attempts' = Amend(attempts, a)
  BY DEF Claim
<1>2. fence + 1 \in 1..MaxFence
  BY OutboxAssumption DEF Claim, TypeOK
<1>3. /\ a \in Attempts
      /\ a.outcome = Active.outcome /\ a.evidence = Active.evidence
      /\ a.expected = Active.expected /\ a.fresh = FALSE
      /\ a.granted # Active.granted =>
           ~claim'.readOnly /\ a.granted = Active.granted \cup {fence + 1}
  BY <1>2, ActiveType, TouchedFacts DEF Attempts
<1> HIDE DEF a
<1>4. /\ Len(attempts') = Len(attempts)
      /\ attempts'[Len(attempts)] = a
      /\ \A i \in 1..Len(attempts) :
           i # Len(attempts) => attempts'[i] = attempts[i]
  BY <1>1, <1>3, AmendedType
<1>5. Active = attempts[Len(attempts)] /\ Last = Len(attempts)
  BY DEF Active, Last
<1> QED
  BY <1>1, <1>3, <1>4, <1>5

\* What release does: the claim goes, and at most the active attempt closes,
\* with the present legs as its evidence.
LEMMA ReleaseFacts ==
  ASSUME TypeOK, NEW w \in Workers, Release(w)
  PROVE  /\ UNCHANGED <<fence, legs, weekly>>
         /\ claim' = NoClaim
         /\ held' = [held EXCEPT ![w] = NoClaim]
         /\ Len(attempts') = Len(attempts)
         /\ \A i \in 1..Len(attempts) :
              i # Len(attempts) => attempts'[i] = attempts[i]
         /\ \A i \in 1..Len(attempts) :
              /\ attempts'[i].expected = attempts[i].expected
              /\ attempts'[i].granted = attempts[i].granted
              /\ attempts'[i].fresh => attempts[i].fresh
              /\ \/ /\ attempts'[i].outcome = attempts[i].outcome
                    /\ attempts'[i].evidence = attempts[i].evidence
                 \/ /\ i = Last
                    /\ ~Terminal
                    /\ NewOutcome # "none"
                    /\ attempts'[i].outcome = NewOutcome
                    /\ attempts'[i].evidence =
                          [p \in Providers |-> Snapshot(legs[p])]
<1>1. /\ UNCHANGED <<fence, legs, weekly>>
      /\ claim' = NoClaim
      /\ held' = [held EXCEPT ![w] = NoClaim]
  BY DEF Release
<1>2. CASE NewOutcome = "none"
  <2>1. attempts' = attempts
    BY <1>2 DEF Release
  <2> QED
    BY <1>1, <2>1
<1>3. CASE NewOutcome # "none"
  <2> DEFINE ev == [p \in Providers |-> Snapshot(legs[p])]
             a == [Touched(Active) EXCEPT !.outcome = NewOutcome,
                                          !.evidence = ev]
  <2>1. attempts' = Amend(attempts, a)
    BY <1>3 DEF Release
  <2>2. ev \in [Providers -> Evidence]
    BY LegType, SnapshotType
  <2>3. NewOutcome \in Outcomes \cup {"none"}
    BY OutcomeOfType DEF NewOutcome, TypeOK
  <2> HIDE DEF ev
  <2>4. /\ a \in Attempts
        /\ a.outcome = NewOutcome /\ a.evidence = ev
        /\ a.expected = Active.expected /\ a.granted = Active.granted
        /\ a.fresh = FALSE
    BY <2>2, <2>3, ActiveType, TouchedFacts DEF Attempts
  <2> HIDE DEF a
  <2>5. /\ Len(attempts') = Len(attempts)
        /\ attempts'[Len(attempts)] = a
        /\ \A i \in 1..Len(attempts) :
             i # Len(attempts) => attempts'[i] = attempts[i]
    BY <2>1, <2>4, AmendedType
  <2>6. Active = attempts[Len(attempts)] /\ Last = Len(attempts) /\ ~Terminal
    BY <1>3 DEF Active, Last, NewOutcome
  <2> QED
    BY <1>1, <1>3, <2>4, <2>5, <2>6 DEF ev
<1> QED
  BY <1>2, <1>3

\* What authorize_recovery does: a closed history grows by one attempt and
\* every leg starts again.
LEMMA RecoveryFacts ==
  ASSUME TypeOK, NEW e \in [Providers -> Items], AuthorizeRecovery(e)
  PROVE  /\ UNCHANGED <<fence, claim, held>>
         /\ Terminal
         /\ legs' = [p \in Providers |-> Succeeding(legs[p])]
         /\ weekly' = WeeklyOf(legs', attempts')
         /\ Len(attempts') = Len(attempts) + 1
         /\ \A i \in 1..Len(attempts) : attempts'[i] = attempts[i]
         /\ attempts'[Len(attempts) + 1] = NewAttempt(e)
<1>1. NewAttempt(e) \in Attempts
  BY NewAttemptType DEF MaybeItem
<1>2. attempts' = Append(attempts, NewAttempt(e))
  BY DEF AuthorizeRecovery
<1>3. /\ Len(attempts') = Len(attempts) + 1
      /\ \A i \in 1..Len(attempts) : attempts'[i] = attempts[i]
      /\ attempts'[Len(attempts) + 1] = NewAttempt(e)
  BY <1>1, <1>2, AppendProperties DEF TypeOK
<1> QED
  BY <1>3 DEF AuthorizeRecovery, RefreshAggregate

\* A recovery leaves every leg without intent and without receipts.
LEMMA RecoveredLegs ==
  ASSUME TypeOK, NEW e \in [Providers -> Items], AuthorizeRecovery(e)
  PROVE  \A p \in Providers : /\ legs'[p].intent = NoIntent
                              /\ legs'[p].receipts = << >>
<1> SUFFICES ASSUME NEW p \in Providers
             PROVE  /\ legs'[p].intent = NoIntent
                    /\ legs'[p].receipts = << >>
  OBVIOUS
<1>1. legs'[p] = Succeeding(legs[p])
  BY RecoveryFacts
<1>2. legs[p] \in Legs
  BY LegType
<1>3. /\ Succeeding(legs[p]).intent = NoIntent
      /\ Succeeding(legs[p]).receipts = << >>
  BY <1>2 DEF Succeeding, Legs
<1> QED
  BY <1>1, <1>3

-----------------------------------------------------------------------------
(* How a step changes the active attempt.                                  *)

\* The active attempt is replaced, and the history keeps its length.
LEMMA AmendedActive ==
  ASSUME TypeOK, NEW a \in Attempts, attempts' = Amend(attempts, a)
  PROVE  Active' = a
BY AmendedType DEF Active, Last

\* An attempt gets its outcome from a release; otherwise it keeps the one it has
\* until a recovery opens the next.
LEMMA OutcomeKinds ==
  ASSUME TypeOK, [Next]_vars
  PROVE  \/ \E e \in [Providers -> Items] : AuthorizeRecovery(e)
         \/ Active'.outcome = Active.outcome
         \/ /\ ~Terminal
            /\ legs' = legs
            /\ Active'.outcome = NewOutcome
<1>0. Len(attempts) \in 1..Len(attempts) /\ Active = attempts[Len(attempts)]
  BY ActiveType DEF Active, Last
<1>1. ASSUME Len(attempts') = Len(attempts) PROVE Active' = attempts'[Len(attempts)]
  BY <1>1 DEF Active, Last
<1>2. CASE \E w \in Workers : Claim(w)
  BY <1>0, <1>1, <1>2, ClaimFacts
<1>3. CASE \E w \in Workers : Release(w)
  BY <1>0, <1>1, <1>3, ReleaseFacts
<1>4. CASE LegWork
  <2>1. SameHistory
    BY <1>4, LegWorkFrame
  <2> QED
    BY <1>0, <1>1, <2>1 DEF SameHistory
<1>5. CASE Aside
  BY <1>5 DEF Aside, Active, Last
<1> QED
  BY <1>2, <1>3, <1>4, <1>5, StepKinds

\* The readbacks of an attempt that is over grow by what record_verification
\* makes of one leg.
LEMMA ReadbackKinds ==
  ASSUME TypeOK, [Next]_vars
  PROVE  \/ \E e \in [Providers -> Items] : AuthorizeRecovery(e)
         \/ Active'.readbacks = Active.readbacks
         \/ \E p \in Providers : \E v \in Verifications :
              /\ legs'[p].result = v.result
              /\ Active'.readbacks = Append(Active.readbacks, [provider |-> p, verif |-> v])
<1>0. Active \in Attempts /\ Touched(Active) \in Attempts
      /\ Touched(Active).readbacks = Active.readbacks
  BY ActiveType, TouchedFacts
<1>1. ASSUME attempts' = attempts PROVE Active'.readbacks = Active.readbacks
  BY <1>1 DEF Active, Last
<1>2. ASSUME attempts' = Amend(attempts, Touched(Active))
      PROVE  Active'.readbacks = Active.readbacks
  BY <1>0, <1>2, AmendedActive
<1>3. ASSUME NEW w \in Workers, Claim(w) PROVE Active'.readbacks = Active.readbacks
  <2> DEFINE g == IF claim'.readOnly THEN Touched(Active).granted
                  ELSE Touched(Active).granted \cup {fence + 1}
             a == [Touched(Active) EXCEPT !.granted = g]
  <2>1. attempts' = Amend(attempts, a)
    BY <1>3 DEF Claim
  <2>2. fence + 1 \in 1..MaxFence
    BY <1>3, OutboxAssumption DEF Claim, TypeOK
  <2>3. g \in SUBSET (1..MaxFence)
    BY <1>0, <2>2 DEF Attempts
  <2> HIDE DEF g
  <2>4. a \in Attempts /\ a.readbacks = Active.readbacks
    BY <1>0, <2>3 DEF Attempts
  <2> HIDE DEF a
  <2> QED
    BY <2>1, <2>4, AmendedActive
<1>4. ASSUME NEW w \in Workers, Release(w) PROVE Active'.readbacks = Active.readbacks
  <2>1. CASE NewOutcome = "none"
    BY <1>1, <1>4, <2>1 DEF Release
  <2>2. CASE NewOutcome # "none"
    <3> DEFINE ev == [p \in Providers |-> Snapshot(legs[p])]
               a == [Touched(Active) EXCEPT !.outcome = NewOutcome, !.evidence = ev]
    <3>1. attempts' = Amend(attempts, a)
      BY <1>4, <2>2 DEF Release
    <3>2. ev \in [Providers -> Evidence]
      BY LegType, SnapshotType
    <3>3. NewOutcome \in Outcomes \cup {"none"}
      BY OutcomeOfType DEF NewOutcome, TypeOK
    <3> HIDE DEF ev
    <3>4. a \in Attempts /\ a.readbacks = Active.readbacks
      BY <1>0, <3>2, <3>3 DEF Attempts
    <3> HIDE DEF a
    <3> QED
      BY <3>1, <3>4, AmendedActive
  <2> QED
    BY <2>1, <2>2
<1>5. ASSUME NEW w \in Workers, NEW p \in Providers, NEW r \in Readings,
             RecordVerification(w, p, r)
      PROVE  \/ Active'.readbacks = Active.readbacks
             \/ \E v \in Verifications :
                  /\ legs'[p].result = v.result
                  /\ Active'.readbacks = Append(Active.readbacks, [provider |-> p, verif |-> v])
  <2> DEFINE v == Verification(legs[p], r)
             row == [provider |-> p, verif |-> v]
             rb == IF Terminal THEN Append(Touched(Active).readbacks, row)
                   ELSE Touched(Active).readbacks
             a == [Touched(Active) EXCEPT !.readbacks = rb]
             leg == [legs[p] EXCEPT !.verif = v, !.result = v.result, !.checks = @ + 1]
  <2>1. attempts' = Amend(attempts, a) /\ legs' = [legs EXCEPT ![p] = leg]
    BY <1>5 DEF RecordVerification
  <2>2. v \in Verifications
    BY VerificationType, OutboxAssumption
  <2> HIDE DEF v
  <2>3. leg.result = v.result
    BY LegType DEF Legs
  <2> HIDE DEF leg
  <2>4. legs'[p].result = v.result
    BY <2>1, <2>3 DEF TypeOK
  <2>5. Touched(Active).readbacks \in Seq([provider : Providers, verif : Verifications])
    BY <1>0 DEF Attempts
  <2>6. row \in [provider : Providers, verif : Verifications]
    BY <2>2
  <2> HIDE DEF row
  <2>7. rb \in Seq([provider : Providers, verif : Verifications])
    BY <2>5, <2>6, AppendProperties
  <2>8. rb \in {Active.readbacks, Append(Active.readbacks, row)}
    BY <1>0
  <2> HIDE DEF rb
  <2>9. a \in Attempts /\ a.readbacks = rb
    BY <1>0, <2>7 DEF Attempts
  <2> HIDE DEF a
  <2>10. Active'.readbacks = rb
    BY <2>1, <2>9, AmendedActive
  <2> QED
    BY <2>2, <2>4, <2>8, <2>10 DEF row
<1>6. CASE LegWork
  <2>1. ASSUME NEW w \in Workers, NEW p \in Providers, NEW op \in Ops,
               NEW item \in MaybeItem, PersistIntent(w, p, op, item)
        PROVE  attempts' = Amend(attempts, Touched(Active))
    BY <2>1 DEF PersistIntent
  <2>2. ASSUME NEW w \in Workers, NEW p \in Providers, ConsumeIntent(w, p)
        PROVE  attempts' = Amend(attempts, Touched(Active))
    BY <2>2 DEF ConsumeIntent
  <2>3. ASSUME NEW w \in Workers, NEW p \in Providers, NEW ok \in BOOLEAN,
               NEW item \in MaybeItem, RecordReceipt(w, p, ok, item)
        PROVE  attempts' = Amend(attempts, Touched(Active))
    BY <2>3 DEF RecordReceipt
  <2>4. ASSUME NEW w \in Workers, NEW p \in Providers, NEW beyond \in BOOLEAN,
               ScheduleReconciliation(w, p, beyond)
        PROVE  attempts' = attempts \/ attempts' = Amend(attempts, Touched(Active))
    BY <2>4 DEF ScheduleReconciliation
  <2> QED
    BY <1>1, <1>2, <1>5, <1>6, <2>1, <2>2, <2>3, <2>4 DEF LegWork
<1>7. CASE Aside
  BY <1>1, <1>7 DEF Aside
<1> QED
  BY <1>3, <1>4, <1>6, <1>7, StepKinds

-----------------------------------------------------------------------------
(* One lemma per conjunct of the strengthening.                            *)

\* Every step keeps the claim objects in line with the document: a stale
\* object has a lower fence for ever.
LEMMA ClaimIsCurrentStep ==
  ASSUME IInv, [Next]_vars
  PROVE  ClaimIsCurrent'
<1> USE DEF ClaimIsCurrent
<1>0. TypeOK /\ ClaimIsCurrent /\ fence \in Nat
  BY OutboxAssumption DEF IInv, TypeOK
<1>a. \A w \in Workers : held[w] \in Claims \cup {NoClaim} /\ held[w].fence \in Nat
  BY <1>0, OutboxAssumption DEF TypeOK, Claims, NoClaim
<1>1. ASSUME NEW w \in Workers, Claim(w) PROVE ClaimIsCurrent'
  <2>1. /\ fence' = fence + 1
        /\ claim'.fence = fence + 1
        /\ held' = [held EXCEPT ![w] = claim']
    BY <1>0, <1>1, ClaimFacts
  <2>2. held \in [Workers -> Claims \cup {NoClaim}]
    BY <1>0 DEF TypeOK
  <2> QED
    BY <1>0, <1>a, <2>1, <2>2
<1>2. ASSUME NEW w \in Workers, Release(w) PROVE ClaimIsCurrent'
  BY <1>0, <1>a, <1>2, ReleaseFacts DEF TypeOK, NoClaim
<1>3. ASSUME NEW e \in [Providers -> Items], AuthorizeRecovery(e)
      PROVE  ClaimIsCurrent'
  BY <1>0, <1>3, RecoveryFacts
<1>4. ASSUME LegWork PROVE ClaimIsCurrent'
  BY <1>0, <1>4, LegWorkFrame
<1>5. ASSUME Aside PROVE ClaimIsCurrent'
  BY <1>0, <1>5 DEF Aside, NoClaim
<1> QED
  BY <1>0, <1>1, <1>2, <1>3, <1>4, <1>5, StepKinds

\* Every step keeps a mutation-capable claim in the open attempt.
LEMMA MutatorStep ==
  ASSUME IInv, [Next]_vars
  PROVE  MutatorOwnsAttempt'
<1> USE DEF MutatorOwnsAttempt, Terminal, Active, Last
<1>0. TypeOK /\ MutatorOwnsAttempt /\ Len(attempts) \in 1..Len(attempts)
  BY ActiveType DEF IInv
<1>1. ASSUME NEW w \in Workers, Claim(w) PROVE MutatorOwnsAttempt'
  BY <1>0, <1>1, ClaimFacts DEF MayOnlyRead
<1>2. ASSUME NEW w \in Workers, Release(w) PROVE MutatorOwnsAttempt'
  BY <1>0, <1>2, ReleaseFacts DEF NoClaim
<1>3. ASSUME NEW e \in [Providers -> Items], AuthorizeRecovery(e)
      PROVE  MutatorOwnsAttempt'
  BY <1>0, <1>3, RecoveryFacts
<1>4. ASSUME LegWork PROVE MutatorOwnsAttempt'
  BY <1>0, <1>4, LegWorkFrame DEF SameHistory
<1>5. ASSUME Aside PROVE MutatorOwnsAttempt'
  BY <1>0, <1>5 DEF Aside
<1> QED
  BY <1>0, <1>1, <1>2, <1>3, <1>4, <1>5, StepKinds

\* Every step keeps a recovery to one mutation-capable claim: granting it ends
\* the record's freshness.
LEMMA GrantStep ==
  ASSUME IInv, [Next]_vars
  PROVE  GrantsAreSpent' /\ SingleRecoveryGrant'
<1> USE DEF GrantsAreSpent, SingleRecoveryGrant, Active, Last
<1>0. /\ TypeOK /\ GrantsAreSpent /\ SingleRecoveryGrant
      /\ Len(attempts) \in 1..Len(attempts)
  BY ActiveType DEF IInv
<1>1. ASSUME NEW w \in Workers, Claim(w)
      PROVE  GrantsAreSpent' /\ SingleRecoveryGrant'
  <2>1. ~claim'.readOnly /\ Last > 1 => Active.granted = {}
    BY <1>0, <1>1, ClaimFacts DEF MayOnlyRead
  <2>2. GrantsAreSpent'
    BY <1>0, <1>1, ClaimFacts
  <2>3. SingleRecoveryGrant'
    BY <1>0, <1>1, <2>1, ClaimFacts
  <2> QED
    BY <2>2, <2>3
<1>2. ASSUME NEW w \in Workers, Release(w)
      PROVE  GrantsAreSpent' /\ SingleRecoveryGrant'
  <2>1. /\ Len(attempts') = Len(attempts)
        /\ \A i \in 1..Len(attempts) :
             /\ attempts'[i].granted = attempts[i].granted
             /\ attempts'[i].fresh => attempts[i].fresh
    BY <1>0, <1>2, ReleaseFacts
  <2> QED
    BY <1>0, <2>1
<1>3. ASSUME NEW e \in [Providers -> Items], AuthorizeRecovery(e)
      PROVE  GrantsAreSpent' /\ SingleRecoveryGrant'
  <2>1. /\ Len(attempts') = Len(attempts) + 1
        /\ \A i \in 1..Len(attempts) : attempts'[i] = attempts[i]
        /\ attempts'[Len(attempts) + 1].granted = {}
    <3>1. NewAttempt(e).granted = {}
      BY DEF NewAttempt
    <3> QED
      BY <1>0, <1>3, <3>1, RecoveryFacts
  <2> QED
    BY <1>0, <2>1
<1>4. ASSUME LegWork PROVE GrantsAreSpent' /\ SingleRecoveryGrant'
  BY <1>0, <1>4, LegWorkFrame DEF SameHistory
<1>5. ASSUME Aside PROVE GrantsAreSpent' /\ SingleRecoveryGrant'
  BY <1>0, <1>5 DEF Aside
<1> QED
  BY <1>0, <1>1, <1>2, <1>3, <1>4, <1>5, StepKinds

\* A verification and a schedule leave intents and receipts alone.
LEMMA VerificationFrame ==
  ASSUME TypeOK, NEW w \in Workers, NEW p \in Providers, NEW r \in Readings,
         RecordVerification(w, p, r)
  PROVE  \A q \in Providers : /\ legs'[q].intent = legs[q].intent
                             /\ legs'[q].receipts = legs[q].receipts
<1>1. legs \in [Providers -> Legs]
  BY DEF TypeOK
<1>2. legs' = [legs EXCEPT ![p] =
                 [legs[p] EXCEPT !.verif = Verification(legs[p], r),
                                 !.result = Verification(legs[p], r).result,
                                 !.checks = legs[p].checks + 1]]
  BY <1>1 DEF RecordVerification, Legs
<1> QED
  BY <1>1, <1>2 DEF Legs

\* A rescheduling leaves intents and receipts alone.
LEMMA ScheduleFrame ==
  ASSUME TypeOK, NEW w \in Workers, NEW p \in Providers, NEW beyond \in BOOLEAN,
         ScheduleReconciliation(w, p, beyond)
  PROVE  \A q \in Providers : /\ legs'[q].intent = legs[q].intent
                             /\ legs'[q].receipts = legs[q].receipts
<1>1. legs \in [Providers -> Legs]
  BY DEF TypeOK
<1>2. CASE Exhausted(p, beyond)
  <2>1. PICK v : legs' = [legs EXCEPT ![p].result = "manual_handoff_required",
                                      ![p].verif = v]
    BY <1>1, <1>2 DEF ScheduleReconciliation, Legs
  <2> QED
    BY <1>1, <2>1 DEF Legs
<1>3. CASE ~Exhausted(p, beyond)
  <2>1. legs' = [legs EXCEPT ![p].result = "pending_provider"]
    BY <1>3 DEF ScheduleReconciliation
  <2> QED
    BY <1>1, <2>1 DEF Legs
<1> QED
  BY <1>2, <1>3

\* A receipt is appended to its own leg, under the attempt of its claim.
LEMMA ReceiptFacts ==
  ASSUME TypeOK, NEW w \in Workers, NEW p \in Providers, NEW ok \in BOOLEAN,
         NEW item \in MaybeItem, RecordReceipt(w, p, ok, item)
  PROVE  /\ \A q \in Providers \ {p} : legs'[q] = legs[q]
         /\ legs'[p].intent = legs[p].intent
         /\ DOMAIN legs[p].receipts \subseteq DOMAIN legs'[p].receipts
         /\ \A k \in DOMAIN legs[p].receipts :
              legs'[p].receipts[k] = legs[p].receipts[k]
         /\ \A k \in DOMAIN legs'[p].receipts :
              k \notin DOMAIN legs[p].receipts =>
                legs'[p].receipts[k].attempt = held[w].attempt
<1> DEFINE rec == [intent |-> legs[p].intent.id, op |-> legs[p].intent.op,
                   attempt |-> held[w].attempt, fence |-> claim.fence,
                   accepted |-> ok, item |-> item]
<1>1. legs \in [Providers -> Legs]
  BY DEF TypeOK
<1>2. rec \in Receipts /\ rec.attempt = held[w].attempt
  <2>1. legs[p].intent \in Intents
    BY <1>1 DEF RecordReceipt, Legs, NoIntent
  <2>2. claim \in Claims /\ held[w] \in Claims
    BY RecognisedClaim DEF RecordReceipt
  <2> QED
    BY <2>1, <2>2 DEF Intents, Claims, Receipts
<1>3. legs' = [legs EXCEPT ![p].receipts = Append(legs[p].receipts, rec)]
  BY <1>1 DEF RecordReceipt
<1> HIDE DEF rec
<1>4. /\ \A q \in Providers \ {p} : legs'[q] = legs[q]
      /\ legs'[p].intent = legs[p].intent
      /\ legs'[p].receipts = Append(legs[p].receipts, rec)
  BY <1>1, <1>3 DEF Legs
<1>5. legs[p].receipts \in Seq(Receipts)
  BY <1>1 DEF Legs
<1>6. /\ legs'[p].receipts \in Seq(Receipts)
      /\ Len(legs'[p].receipts) = Len(legs[p].receipts) + 1
      /\ \A k \in 1..Len(legs[p].receipts) :
           legs'[p].receipts[k] = legs[p].receipts[k]
      /\ legs'[p].receipts[Len(legs[p].receipts) + 1] = rec
  BY <1>2, <1>4, <1>5, AppendProperties
<1>7. /\ DOMAIN legs[p].receipts = 1..Len(legs[p].receipts)
      /\ DOMAIN legs'[p].receipts = 1..Len(legs'[p].receipts)
      /\ Len(legs[p].receipts) \in Nat
  BY <1>5, <1>6, LenProperties
<1> QED
  BY <1>2, <1>4, <1>6, <1>7

\* Every step keeps an unresolved mutation with the claim that consumed it.
LEMMA UnknownStep ==
  ASSUME IInv, [Next]_vars
  PROVE  UnknownIsFenced'
<1> USE DEF UnknownIsFenced, Unresolved
<1>0. TypeOK /\ UnknownIsFenced
  BY DEF IInv
<1>1. ASSUME NEW w \in Workers, Claim(w) PROVE UnknownIsFenced'
  BY <1>0, <1>1, ClaimFacts DEF MayOnlyRead
<1>2. ASSUME NEW w \in Workers, Release(w) PROVE UnknownIsFenced'
  BY <1>0, <1>2, ReleaseFacts DEF NoClaim
<1>3. ASSUME NEW e \in [Providers -> Items], AuthorizeRecovery(e)
      PROVE  UnknownIsFenced'
  <2>1. \A p \in Providers : legs'[p].intent = NoIntent
    BY <1>0, <1>3, RecoveredLegs
  <2> QED
    BY <2>1 DEF NoIntent
<1>4. ASSUME LegWork PROVE UnknownIsFenced'
  <2>0. claim' = claim /\ legs \in [Providers -> Legs]
    BY <1>0, <1>4, LegWorkFrame DEF TypeOK
  <2>1. ASSUME NEW w \in Workers, NEW p \in Providers, NEW op \in Ops,
               NEW item \in MaybeItem, PersistIntent(w, p, op, item)
        PROVE  UnknownIsFenced'
    <3>1. /\ \A q \in Providers \ {p} : legs'[q] = legs[q]
          /\ legs'[p].intent.consumed = 0
      BY <2>0, <2>1 DEF PersistIntent, Legs
    <3> QED
      BY <1>0, <2>0, <3>1
  <2>2. ASSUME NEW w \in Workers, NEW p \in Providers, ConsumeIntent(w, p)
        PROVE  UnknownIsFenced'
    <3>1. legs[p].intent \in Intents
      BY <2>0, <2>2 DEF ConsumeIntent, Legs
    <3>2. /\ \A q \in Providers \ {p} : legs'[q] = legs[q]
          /\ legs'[p].intent.consumed = claim.fence
      BY <2>0, <2>2, <3>1 DEF ConsumeIntent, Legs, Intents
    <3> QED
      BY <1>0, <2>0, <3>2
  <2>3. ASSUME NEW w \in Workers, NEW p \in Providers, NEW ok \in BOOLEAN,
               NEW item \in MaybeItem, RecordReceipt(w, p, ok, item)
        PROVE  UnknownIsFenced'
    <3>1. /\ \A q \in Providers \ {p} : legs'[q] = legs[q]
          /\ legs'[p].intent = legs[p].intent
          /\ DOMAIN legs[p].receipts \subseteq DOMAIN legs'[p].receipts
          /\ \A k \in DOMAIN legs[p].receipts :
               legs'[p].receipts[k] = legs[p].receipts[k]
      BY <1>0, <2>3, ReceiptFacts
    <3>2. Resolves(legs[p].intent, legs[p].receipts) =>
            Resolves(legs'[p].intent, legs'[p].receipts)
      BY <3>1 DEF Resolves
    <3> QED
      BY <1>0, <2>0, <3>1, <3>2
  <2>4. ASSUME NEW w \in Workers, NEW p \in Providers, NEW r \in Readings,
               RecordVerification(w, p, r)
        PROVE  UnknownIsFenced'
    BY <1>0, <2>0, <2>4, VerificationFrame
  <2>5. ASSUME NEW w \in Workers, NEW p \in Providers, NEW beyond \in BOOLEAN,
               ScheduleReconciliation(w, p, beyond)
        PROVE  UnknownIsFenced'
    BY <1>0, <2>0, <2>5, ScheduleFrame
  <2> QED
    BY <1>4, <2>1, <2>2, <2>3, <2>4, <2>5 DEF LegWork
<1>5. ASSUME Aside PROVE UnknownIsFenced'
  BY <1>0, <1>5 DEF Aside
<1> QED
  BY <1>0, <1>1, <1>2, <1>3, <1>4, <1>5, StepKinds

\* Every step keeps intents and receipts in the open attempt, because only its
\* claim can write them.
LEMMA LegIsOwnStep ==
  ASSUME IInv, [Next]_vars
  PROVE  LegIsOwn'
<1> USE DEF LegIsOwn, Last
<1>0. /\ TypeOK /\ LegIsOwn /\ MutatorOwnsAttempt /\ ClaimIsCurrent
      /\ legs \in [Providers -> Legs]
  BY DEF IInv, TypeOK
<1>1. ASSUME NEW w \in Workers, Claim(w) PROVE LegIsOwn'
  BY <1>0, <1>1, ClaimFacts
<1>2. ASSUME NEW w \in Workers, Release(w) PROVE LegIsOwn'
  BY <1>0, <1>2, ReleaseFacts
<1>3. ASSUME NEW e \in [Providers -> Items], AuthorizeRecovery(e)
      PROVE  LegIsOwn'
  <2>1. \A p \in Providers :
          legs'[p].intent = NoIntent /\ legs'[p].receipts = << >>
    BY <1>0, <1>3, RecoveredLegs
  <2> QED
    BY <2>1 DEF NoIntent
<1>4. ASSUME LegWork PROVE LegIsOwn'
  <2>0. claim' = claim /\ Len(attempts') = Len(attempts)
    BY <1>0, <1>4, LegWorkFrame DEF SameHistory
  <2>a. ASSUME NEW w \in Workers, RequireClaim(w)
        PROVE  claim # NoClaim /\ held[w].attempt = claim.attempt
    BY <1>0, <2>a, RecognisedClaim DEF RequireClaim, ClaimIsCurrent
  <2>1. ASSUME NEW w \in Workers, NEW p \in Providers, NEW op \in Ops,
               NEW item \in MaybeItem, PersistIntent(w, p, op, item)
        PROVE  LegIsOwn'
    <3>1. /\ \A q \in Providers \ {p} : legs'[q] = legs[q]
          /\ legs'[p].intent.consumed = 0
          /\ legs'[p].receipts = legs[p].receipts
      BY <1>0, <2>1 DEF PersistIntent, Legs
    <3> QED
      BY <1>0, <2>0, <3>1
  <2>2. ASSUME NEW w \in Workers, NEW p \in Providers, ConsumeIntent(w, p)
        PROVE  LegIsOwn'
    <3>1. legs[p].intent \in Intents
      BY <1>0, <2>2 DEF ConsumeIntent, Legs
    <3>2. /\ \A q \in Providers \ {p} : legs'[q] = legs[q]
          /\ legs'[p].intent.attempt = held[w].attempt
          /\ legs'[p].receipts = legs[p].receipts
      BY <1>0, <2>2, <3>1 DEF ConsumeIntent, Legs, Intents
    <3>3. held[w].attempt = Last /\ claim.attempt = Last
      BY <1>0, <2>2, <2>a
         DEF ConsumeIntent, RequireMutation, MutatorOwnsAttempt
    <3> QED
      BY <1>0, <2>0, <3>2, <3>3
  <2>3. ASSUME NEW w \in Workers, NEW p \in Providers, NEW ok \in BOOLEAN,
               NEW item \in MaybeItem, RecordReceipt(w, p, ok, item)
        PROVE  LegIsOwn'
    <3>1. held[w].attempt = Last
      BY <1>0, <2>3, <2>a DEF RecordReceipt
    <3> QED
      BY <1>0, <2>0, <2>3, <3>1, ReceiptFacts
  <2>4. ASSUME NEW w \in Workers, NEW p \in Providers, NEW r \in Readings,
               RecordVerification(w, p, r)
        PROVE  LegIsOwn'
    BY <1>0, <2>0, <2>4, VerificationFrame
  <2>5. ASSUME NEW w \in Workers, NEW p \in Providers, NEW beyond \in BOOLEAN,
               ScheduleReconciliation(w, p, beyond)
        PROVE  LegIsOwn'
    BY <1>0, <2>0, <2>5, ScheduleFrame
  <2> QED
    BY <1>4, <2>1, <2>2, <2>3, <2>4, <2>5 DEF LegWork
<1>5. ASSUME Aside PROVE LegIsOwn'
  BY <1>0, <1>5 DEF Aside
<1> QED
  BY <1>0, <1>1, <1>2, <1>3, <1>4, <1>5, StepKinds

\* A step leaves the outcome and evidence of an attempt alone, or it is the
\* release that closes the active one.
Keeps(i) == /\ attempts'[i].outcome = attempts[i].outcome
            /\ attempts'[i].evidence = attempts[i].evidence

Closes(i) == /\ i = Last
             /\ ~Terminal
             /\ NewOutcome # "none"
             /\ attempts'[i].outcome = NewOutcome
             /\ attempts'[i].evidence = [p \in Providers |-> Snapshot(legs[p])]

\* An attempt keeps its outcome and evidence, or closes, or is a new one.
LEMMA EvidenceSteps ==
  ASSUME TypeOK, [Next]_vars
  PROVE  /\ Len(attempts') \in {Len(attempts), Len(attempts) + 1}
         /\ Len(attempts') = Len(attempts) + 1 =>
              /\ Terminal
              /\ attempts'[Len(attempts) + 1].outcome = "none"
              /\ \A p \in Providers :
                   attempts'[Len(attempts) + 1].evidence[p] = NoEvidence
         /\ \A i \in 1..Len(attempts) :
              /\ attempts'[i].expected = attempts[i].expected
              /\ Keeps(i) \/ Closes(i)
<1>0. Len(attempts) \in Nat
  BY DEF TypeOK
<1>1. ASSUME NEW w \in Workers, Claim(w)
      PROVE  /\ Len(attempts') = Len(attempts)
             /\ \A i \in 1..Len(attempts) :
                  /\ attempts'[i].expected = attempts[i].expected
                  /\ attempts'[i].outcome = attempts[i].outcome
                  /\ attempts'[i].evidence = attempts[i].evidence
  BY <1>1, ClaimFacts
<1>2. ASSUME NEW e \in [Providers -> Items], AuthorizeRecovery(e)
      PROVE  /\ Len(attempts') = Len(attempts) + 1
             /\ Terminal
             /\ attempts'[Len(attempts) + 1] = NewAttempt(e)
             /\ \A i \in 1..Len(attempts) : attempts'[i] = attempts[i]
  BY <1>2, RecoveryFacts
<1>3. ASSUME NEW e
      PROVE  /\ NewAttempt(e).outcome = "none"
             /\ \A p \in Providers : NewAttempt(e).evidence[p] = NoEvidence
  BY DEF NewAttempt
<1>4. LegWork => SameHistory
  BY LegWorkFrame
<1>5. Aside => attempts' = attempts
  BY DEF Aside
<1>6. CASE \E w \in Workers : Claim(w)
  BY <1>0, <1>1, <1>6 DEF Keeps
<1>7. CASE \E w \in Workers : Release(w)
  <2>1. /\ Len(attempts') = Len(attempts)
        /\ \A i \in 1..Len(attempts) :
             attempts'[i].expected = attempts[i].expected
    BY <1>7, ReleaseFacts
  <2>2. \A i \in 1..Len(attempts) : Keeps(i) \/ Closes(i)
    BY <1>7, ReleaseFacts DEF Keeps, Closes
  <2> QED
    BY <1>0, <2>1, <2>2
<1>8. CASE \E e \in [Providers -> Items] : AuthorizeRecovery(e)
  BY <1>0, <1>2, <1>3, <1>8 DEF Keeps
<1>9. CASE LegWork
  BY <1>0, <1>4, <1>9 DEF SameHistory, Keeps
<1>10. CASE Aside
  BY <1>0, <1>5, <1>10 DEF Keeps
<1> QED
  BY <1>6, <1>7, <1>8, <1>9, <1>10, StepKinds

\* Superseded attempts keep their outcome, and none is superseded while open.
LEMMA PriorSteps ==
  ASSUME TypeOK, [Next]_vars
  PROVE  /\ \A i \in 1..Len(attempts) :
              attempts'[i].expected = attempts[i].expected
         /\ \A i \in 1..Len(attempts) : i # Len(attempts) => Keeps(i)
         /\ Len(attempts') = Len(attempts) + 1 =>
              Terminal /\ Keeps(Len(attempts))
<1>1. Closes(Len(attempts)) => ~Terminal
  BY DEF Closes
<1>2. \A i \in 1..Len(attempts) : Closes(i) => i = Len(attempts)
  BY DEF Closes, Last
<1>3. Len(attempts) \in 1..Len(attempts)
  BY ActiveType
<1> QED
  BY <1>1, <1>2, <1>3, EvidenceSteps

\* Every step keeps evidence with its attempt and closes all but the last one.
LEMMA EvidenceStep ==
  ASSUME IInv, [Next]_vars
  PROVE  EvidenceIsOwn' /\ PriorIsClosed'
<1> USE DEF Last
<1>0. /\ TypeOK /\ EvidenceIsOwn /\ LegIsOwn /\ PriorIsClosed
      /\ Len(attempts) \in Nat
  BY DEF IInv, TypeOK
<1>1. PriorIsClosed'
  <2> SUFFICES ASSUME NEW i \in 1..(Len(attempts') - 1)
               PROVE  attempts'[i].outcome # "none"
    BY DEF PriorIsClosed
  <2>1. CASE i < Len(attempts)
    <3>1. attempts'[i].outcome = attempts[i].outcome
      BY <1>0, <2>1, PriorSteps DEF Keeps
    <3> QED
      BY <1>0, <2>1, <3>1 DEF PriorIsClosed
  <2>2. CASE i = Len(attempts) /\ Len(attempts') = Len(attempts) + 1
    <3>1. Terminal /\ attempts'[i].outcome = attempts[i].outcome
      BY <1>0, <2>2, PriorSteps DEF Keeps
    <3> QED
      BY <2>2, <3>1 DEF Terminal, Active
  <2> QED
    BY <1>0, <2>1, <2>2, EvidenceSteps
<1>2. ASSUME NEW i \in 1..Len(attempts'), NEW p \in Providers
      PROVE  /\ attempts'[i].evidence[p].intent.consumed # 0 =>
                  attempts'[i].evidence[p].intent.attempt = i
             /\ \A k \in DOMAIN attempts'[i].evidence[p].receipts :
                  attempts'[i].evidence[p].receipts[k].attempt = i
  <2>1. CASE i \in 1..Len(attempts) /\ Keeps(i)
    BY <1>0, <2>1 DEF EvidenceIsOwn, Keeps
  <2>2. CASE i \in 1..Len(attempts) /\ Closes(i)
    <3>1. attempts'[i].evidence[p] = Snapshot(legs[p]) /\ i = Last
      BY <2>2 DEF Closes
    <3> QED
      BY <1>0, <3>1 DEF Snapshot, LegIsOwn
  <2>3. CASE i \notin 1..Len(attempts)
    <3>1. attempts'[i].evidence[p] = NoEvidence
      BY <1>0, <2>3, EvidenceSteps
    <3> QED
      BY <3>1 DEF NoEvidence, NoIntent
  <2> QED
    BY <1>0, <2>1, <2>2, <2>3, EvidenceSteps
<1> QED
  BY <1>1, <1>2 DEF EvidenceIsOwn

\* The decision reads the results and verifications of the legs, the outcomes
\* of the superseded attempts and what the last one expects.
LEMMA WeeklyFrame ==
  ASSUME NEW ls1, NEW ls2, NEW as1, NEW as2,
         Len(as2) = Len(as1), Len(as1) \in Nat \ {0},
         \A p \in Providers : /\ ls2[p].result = ls1[p].result
                             /\ ls2[p].verif = ls1[p].verif,
         \A i \in 1..(Len(as1) - 1) : as2[i].outcome = as1[i].outcome,
         as2[Len(as1)].expected = as1[Len(as1)].expected
  PROVE  WeeklyOf(ls2, as2) = WeeklyOf(ls1, as1)
<1>1. AllPublic(ls2) <=> AllPublic(ls1)
  BY DEF AllPublic
<1>2. PriorOutcomes(as2) = PriorOutcomes(as1)
  BY DEF PriorOutcomes
<1>3. MatchesAuthorization(ls2, as2) <=> MatchesAuthorization(ls1, as1)
  BY DEF MatchesAuthorization
<1>4. WeeklyPublic(ls2, as2) = WeeklyPublic(ls1, as1)
  BY <1>2, <1>3 DEF WeeklyPublic
<1>5. {Normalized(ls2[p].result) : p \in Providers}
        = {Normalized(ls1[p].result) : p \in Providers}
  OBVIOUS
<1> QED
  BY <1>1, <1>4, <1>5 DEF WeeklyOf

\* Every step recomputes the decision, or changes nothing the decision reads.
LEMMA DecisionStep ==
  ASSUME IInv, [Next]_vars
  PROVE  DecisionIsCurrent'
<1> USE DEF DecisionIsCurrent
<1>0. /\ TypeOK /\ DecisionIsCurrent /\ legs \in [Providers -> Legs]
      /\ Len(attempts) \in Nat \ {0}
  BY DEF IInv, TypeOK
<1>1. ASSUME UNCHANGED weekly, Len(attempts') = Len(attempts),
             \A p \in Providers : /\ legs'[p].result = legs[p].result
                                 /\ legs'[p].verif = legs[p].verif
      PROVE  DecisionIsCurrent'
  <2>1. \A i \in 1..(Len(attempts) - 1) :
          attempts'[i].outcome = attempts[i].outcome
    BY <1>0, PriorSteps DEF Keeps
  <2>2. attempts'[Len(attempts)].expected = attempts[Len(attempts)].expected
    BY <1>0, PriorSteps
  <2> QED
    BY <1>0, <1>1, <2>1, <2>2, WeeklyFrame
<1>2. CASE \E w \in Workers : Claim(w)
  BY <1>0, <1>1, <1>2, ClaimFacts
<1>3. CASE \E w \in Workers : Release(w)
  BY <1>0, <1>1, <1>3, ReleaseFacts
<1>4. CASE \E e \in [Providers -> Items] : AuthorizeRecovery(e)
  BY <1>0, <1>4, RecoveryFacts
<1>5. CASE LegWork
  <2>0. Len(attempts') = Len(attempts)
    BY <1>0, <1>5, LegWorkFrame DEF SameHistory
  <2>1. ASSUME NEW w \in Workers, NEW p \in Providers, NEW op \in Ops,
               NEW item \in MaybeItem, PersistIntent(w, p, op, item)
        PROVE  DecisionIsCurrent'
    <3>1. UNCHANGED weekly
          /\ \A q \in Providers : /\ legs'[q].result = legs[q].result
                                 /\ legs'[q].verif = legs[q].verif
      BY <1>0, <2>1 DEF PersistIntent, Legs
    <3> QED
      BY <1>1, <2>0, <3>1
  <2>2. ASSUME NEW w \in Workers, NEW p \in Providers, ConsumeIntent(w, p)
        PROVE  DecisionIsCurrent'
    <3>1. UNCHANGED weekly
          /\ \A q \in Providers : /\ legs'[q].result = legs[q].result
                                 /\ legs'[q].verif = legs[q].verif
      BY <1>0, <2>2 DEF ConsumeIntent, Legs
    <3> QED
      BY <1>1, <2>0, <3>1
  <2>3. ASSUME NEW w \in Workers, NEW p \in Providers, NEW ok \in BOOLEAN,
               NEW item \in MaybeItem, RecordReceipt(w, p, ok, item)
        PROVE  DecisionIsCurrent'
    <3>1. UNCHANGED weekly
          /\ \A q \in Providers : /\ legs'[q].result = legs[q].result
                                 /\ legs'[q].verif = legs[q].verif
      BY <1>0, <2>3 DEF RecordReceipt, Legs
    <3> QED
      BY <1>1, <2>0, <3>1
  <2>4. ASSUME NEW w \in Workers, NEW p \in Providers, NEW r \in Readings,
               RecordVerification(w, p, r)
        PROVE  DecisionIsCurrent'
    BY <2>4 DEF RecordVerification, RefreshAggregate
  <2>5. ASSUME NEW w \in Workers, NEW p \in Providers, NEW beyond \in BOOLEAN,
               ScheduleReconciliation(w, p, beyond)
        PROVE  DecisionIsCurrent'
    BY <2>5 DEF ScheduleReconciliation, RefreshAggregate
  <2> QED
    BY <1>5, <2>1, <2>2, <2>3, <2>4, <2>5 DEF LegWork
<1>6. CASE Aside
  BY <1>0, <1>6 DEF Aside
<1> QED
  BY <1>0, <1>2, <1>3, <1>4, <1>5, <1>6, StepKinds

\* What a release that publishes has before it.
LEMMA PublishedDecision ==
  ASSUME DecisionIsCurrent, NewOutcome = "published_verified"
  PROVE  /\ AllPublic(legs)
         /\ PriorOutcomes(attempts) = {} \/ MatchesAuthorization(legs, attempts)
<1>1. weekly \in {"published_verified", "published_verified_recovered"}
  BY DEF NewOutcome, OutcomeOf
<1>2. AllPublic(legs)
  BY <1>1 DEF DecisionIsCurrent, WeeklyOf, WeeklyPrivate
<1>3. WeeklyOf(legs, attempts) = WeeklyPublic(legs, attempts)
  BY <1>2 DEF WeeklyOf
<1> QED
  BY <1>1, <1>2, <1>3 DEF DecisionIsCurrent, WeeklyPublic

\* What a release that gives up has before it.
LEMMA FailedDecision ==
  ASSUME DecisionIsCurrent, NewOutcome = "failed_terminal", NEW p \in Providers
  PROVE  legs[p].result \in {"failed_terminal", "poisoned"}
<1>1. weekly = "failed_terminal"
  BY DEF NewOutcome, OutcomeOf
<1>2. WeeklyPublic(legs, attempts) # "failed_terminal"
  BY DEF WeeklyPublic
<1> DEFINE candidates == {Normalized(legs[q].result) : q \in Providers}
<1>3. WeeklyPrivate(candidates) = "failed_terminal"
  BY <1>1, <1>2 DEF DecisionIsCurrent, WeeklyOf
<1>4. Normalized(legs[p].result) \in candidates
  OBVIOUS
<1> HIDE DEF candidates
<1>5. candidates = {"failed_terminal"}
  BY <1>3 DEF WeeklyPrivate
<1>6. Normalized(legs[p].result) = "failed_terminal"
  BY <1>4, <1>5
<1> QED
  BY <1>6 DEF Normalized

\* An attempt closes as published only on the proof the decision read.
LEMMA WinnerStep ==
  ASSUME IInv, [Next]_vars
  PROVE  WinnerIsProven'
<1> USE DEF Last
<1>0. /\ TypeOK /\ DecisionIsCurrent /\ PriorIsClosed /\ WinnerIsProven
      /\ Len(attempts) \in Nat
  BY DEF IInv, TypeOK
<1> SUFFICES ASSUME NEW i \in 1..Len(attempts'),
                    attempts'[i].outcome = "published_verified",
                    NEW p \in Providers
             PROVE  LET ev == attempts'[i].evidence[p]
                    IN /\ ev.result = "externally_verified_public"
                       /\ ev.verif.green
                       /\ (\E j \in 1..(i - 1) :
                             attempts'[j].outcome # "published_verified")
                            => ev.verif.item = attempts'[i].expected[p]
  BY DEF WinnerIsProven
<1>1. i \in 1..Len(attempts)
  BY <1>0, EvidenceSteps
<1>2. /\ attempts'[i].expected = attempts[i].expected
      /\ \A j \in 1..(i - 1) : attempts'[j].outcome = attempts[j].outcome
  BY <1>0, <1>1, PriorSteps DEF Keeps
<1>3. CASE Keeps(i)
  BY <1>0, <1>1, <1>2, <1>3 DEF WinnerIsProven, Keeps
<1>4. CASE Closes(i)
  <2> USE <1>4 DEF Closes
  <2>1. /\ AllPublic(legs)
        /\ PriorOutcomes(attempts) = {} \/ MatchesAuthorization(legs, attempts)
    BY <1>0, <1>4, PublishedDecision
  <2>2. /\ attempts'[i].evidence[p].result = legs[p].result
        /\ attempts'[i].evidence[p].verif = legs[p].verif
    BY <1>4 DEF Snapshot
  <2>3. ASSUME NEW j \in 1..(i - 1), attempts'[j].outcome # "published_verified"
        PROVE  MatchesAuthorization(legs, attempts)
    <3>1. attempts[j].outcome \in PriorOutcomes(attempts)
      BY <1>0, <1>2, <1>4, <2>3 DEF PriorOutcomes, PriorIsClosed
    <3> QED
      BY <2>1, <3>1
  <2> QED
    BY <1>1, <1>2, <1>4, <2>1, <2>2, <2>3 DEF AllPublic, MatchesAuthorization
<1> QED
  BY <1>1, <1>3, <1>4, EvidenceSteps, <1>0

-----------------------------------------------------------------------------
(* The theorems.                                                           *)

\* The first document satisfies the strengthening.
LEMMA IInvInit == Init => IInv
<1> SUFFICES ASSUME Init PROVE IInv
  OBVIOUS
<1> DEFINE none == [p \in Providers |-> NoItem]
<1>1. TypeOK
  BY TypeInit
<1>2. /\ Len(attempts) = 1
      /\ attempts[1] = NewAttempt(none)
      /\ claim = NoClaim /\ fence = 0
      /\ \A w \in Workers : held[w] = NoClaim
      /\ \A p \in Providers : legs[p] = NewLeg
      /\ weekly = "pending"
  BY DEF Init
<1>3. /\ NewAttempt(none).outcome = "none"
      /\ NewAttempt(none).granted = {}
      /\ \A p \in Providers : NewAttempt(none).evidence[p] = NoEvidence
  BY DEF NewAttempt
<1> HIDE DEF none
<1>4. ClaimIsCurrent
  BY <1>2 DEF ClaimIsCurrent, NoClaim
<1>5. UnknownIsFenced /\ LegIsOwn
  BY <1>2 DEF UnknownIsFenced, Unresolved, LegIsOwn, NewLeg, NoIntent
<1>6. MutatorOwnsAttempt
  BY <1>2 DEF MutatorOwnsAttempt, NoClaim
<1>7. EvidenceIsOwn
  BY <1>2, <1>3 DEF EvidenceIsOwn, Last, NoEvidence, NoIntent
<1>8. /\ GrantsAreSpent /\ SingleRecoveryGrant
      /\ PriorIsClosed /\ WinnerIsProven
  BY <1>2, <1>3
     DEF GrantsAreSpent, SingleRecoveryGrant, PriorIsClosed, WinnerIsProven, Last
<1>9. DecisionIsCurrent
  <2>1. \A p \in Providers : /\ legs[p].result = "pending_provider"
                            /\ Normalized(legs[p].result) = "pending"
    BY <1>2 DEF NewLeg, Normalized
  <2>2. ~AllPublic(legs)
    BY <2>1, OutboxAssumption DEF AllPublic
  <2>3. {Normalized(legs[p].result) : p \in Providers} = {"pending"}
    BY <2>1, OutboxAssumption
  <2>4. WeeklyPrivate({"pending"}) = "pending"
    BY DEF WeeklyPrivate
  <2> QED
    BY <1>2, <2>2, <2>3, <2>4 DEF DecisionIsCurrent, WeeklyOf
<1> QED
  BY <1>1, <1>4, <1>5, <1>6, <1>7, <1>8, <1>9 DEF IInv

\* The strengthening is inductive.
LEMMA IInvStep == IInv /\ [Next]_vars => IInv'
<1> SUFFICES ASSUME IInv, [Next]_vars PROVE IInv'
  OBVIOUS
<1>1. TypeOK'
  BY TypeStep DEF IInv
<1> QED
  BY <1>1, ClaimIsCurrentStep, UnknownStep, MutatorStep, LegIsOwnStep,
     EvidenceStep, GrantStep, DecisionStep, WinnerStep DEF IInv

\* The strengthening holds in every reachable state.
THEOREM Inductive == Spec => []IInv
BY IInvInit, IInvStep, PTL DEF Spec

\* A mutation of unknown outcome can only be followed by mutations of the very
\* claim that consumed it: every later claim is read-only.
THEOREM UnknownFenced == Spec => []UnknownIsFenced
<1>1. IInv => UnknownIsFenced
  BY DEF IInv
<1> QED
  BY <1>1, Inductive, PTL

\* A claim that may mutate belongs to the open attempt.
THEOREM MutatorOwns == Spec => []MutatorOwnsAttempt
<1>1. IInv => MutatorOwnsAttempt
  BY DEF IInv
<1> QED
  BY <1>1, Inductive, PTL

\* A recovery authorises at most one mutation-capable claim.
THEOREM OneGrant == Spec => []SingleRecoveryGrant
<1>1. IInv => SingleRecoveryGrant
  BY DEF IInv
<1> QED
  BY <1>1, Inductive, PTL

\* The evidence frozen in an attempt was produced in that attempt.
THEOREM OwnEvidence == Spec => []EvidenceIsOwn
<1>1. IInv => EvidenceIsOwn
  BY DEF IInv
<1> QED
  BY <1>1, Inductive, PTL

\* The stored weekly decision is never stale.
THEOREM CurrentDecision == Spec => []DecisionIsCurrent
<1>1. IInv => DecisionIsCurrent
  BY DEF IInv
<1> QED
  BY <1>1, Inductive, PTL

\* An attempt published on proof, and a recovery on its authorised items.
THEOREM ProvenWinner == Spec => []WinnerIsProven
<1>1. IInv => WinnerIsProven
  BY DEF IInv
<1> QED
  BY <1>1, Inductive, PTL

\* No step touches an attempt that has a successor.
LEMMA SupersededKept ==
  ASSUME TypeOK, [Next]_vars
  PROVE  \A i \in 1..Len(attempts) :
           i # Len(attempts) => attempts'[i] = attempts[i]
<1>1. CASE \E w \in Workers : Claim(w)
  BY <1>1, ClaimFacts
<1>2. CASE \E w \in Workers : Release(w)
  BY <1>2, ReleaseFacts
<1>3. CASE \E e \in [Providers -> Items] : AuthorizeRecovery(e)
  BY <1>3, RecoveryFacts
<1>4. CASE LegWork
  BY <1>4, LegWorkFrame DEF SameHistory
<1>5. CASE Aside
  BY <1>5 DEF Aside
<1> QED
  BY <1>1, <1>2, <1>3, <1>4, <1>5, StepKinds

\* What one step may do to the history.
KeepsHistory ==
  \A i \in DOMAIN attempts :
    /\ i \in DOMAIN attempts'
    /\ i < Last => attempts'[i] = attempts[i]
    /\ attempts[i].outcome # "none" =>
         /\ attempts'[i].outcome = attempts[i].outcome
         /\ attempts'[i].evidence = attempts[i].evidence

\* Every operation keeps what is closed.
LEMMA HistoryStep ==
  ASSUME TypeOK, [Next]_vars
  PROVE  KeepsHistory
<1>1. TypeOK'
  BY TypeStep
<1>2. /\ DOMAIN attempts = 1..Len(attempts) /\ DOMAIN attempts' = 1..Len(attempts')
      /\ Len(attempts) \in Nat /\ Len(attempts') \in Nat
  BY <1>1, LenProperties DEF TypeOK
<1>3. Len(attempts') \in {Len(attempts), Len(attempts) + 1}
  BY EvidenceSteps
<1>4. ASSUME NEW i \in 1..Len(attempts), attempts[i].outcome # "none"
      PROVE  Keeps(i)
  <2>1. ~Closes(i)
    BY <1>4 DEF Closes, Terminal, Active
  <2> QED
    BY <2>1, EvidenceSteps
<1> SUFFICES ASSUME NEW i \in 1..Len(attempts)
             PROVE  /\ i \in 1..Len(attempts')
                    /\ i < Len(attempts) => attempts'[i] = attempts[i]
                    /\ attempts[i].outcome # "none" => Keeps(i)
  BY <1>2 DEF KeepsHistory, Last, Keeps
<1>a. Len(attempts) \in Nat /\ Len(attempts') \in Nat
  BY <1>2
<1>5. i \in 1..Len(attempts')
  BY <1>a, <1>3
<1>6. i < Len(attempts) => attempts'[i] = attempts[i]
  <2>1. i < Len(attempts) => i # Len(attempts)
    BY <1>a
  <2> QED
    BY <2>1, SupersededKept
<1> QED
  BY <1>4, <1>5, <1>6

\* No step rewrites a closed attempt, or anything of a superseded one.
THEOREM ImmutableHistory == Spec => HistoryIsImmutable
<1>1. TypeOK /\ [Next]_vars => [KeepsHistory]_vars
  BY HistoryStep
<1> QED
  BY <1>1, TypeCorrect, PTL DEF Spec, HistoryIsImmutable, KeepsHistory

\* What one step may do to an unresolved leg of an attempt that goes on.
KeepsUnknown(p) ==
  Unresolved(legs[p]) /\ Len(attempts') = Len(attempts) =>
    /\ legs'[p].intent = legs[p].intent
    /\ \A k \in DOMAIN legs[p].receipts :
         /\ k \in DOMAIN legs'[p].receipts
         /\ legs'[p].receipts[k] = legs[p].receipts[k]

\* Work on a leg keeps every unresolved mutation: the next intent waits for
\* the receipt of this one, and an intent is consumed once.
LEMMA LegWorkKeepsUnknown ==
  ASSUME TypeOK, LegWork, NEW p \in Providers
  PROVE  KeepsUnknown(p)
<1>1. legs \in [Providers -> Legs]
  BY DEF TypeOK
<1>2. ASSUME NEW w \in Workers, NEW q \in Providers, NEW op \in Ops,
             NEW item \in MaybeItem, PersistIntent(w, q, op, item)
      PROVE  KeepsUnknown(p)
  <2>1. q # p => legs'[p] = legs[p]
    BY <1>1, <1>2 DEF PersistIntent
  <2>2. ~Unresolved(legs[q])
    BY <1>2 DEF PersistIntent, PriorResolved, Unresolved, NoIntent
  <2> QED
    BY <2>1, <2>2 DEF KeepsUnknown
<1>3. ASSUME NEW w \in Workers, NEW q \in Providers, ConsumeIntent(w, q)
      PROVE  KeepsUnknown(p)
  <2>1. legs[q].intent.consumed = 0
    BY <1>3 DEF ConsumeIntent
  <2>2. \A r \in Providers \ {q} : legs'[r] = legs[r]
    <3>1. legs[q].intent \in Intents
      BY <1>1, <1>3 DEF ConsumeIntent, Legs
    <3> QED
      BY <1>1, <1>3, <3>1 DEF ConsumeIntent, Legs, Intents
  <2>3. ~Unresolved(legs[q])
    BY <2>1 DEF Unresolved
  <2> QED
    BY <2>2, <2>3 DEF KeepsUnknown
<1>4. ASSUME NEW w \in Workers, NEW q \in Providers, NEW ok \in BOOLEAN,
             NEW item \in MaybeItem, RecordReceipt(w, q, ok, item)
      PROVE  KeepsUnknown(p)
  BY <1>4, ReceiptFacts DEF KeepsUnknown
<1>5. ASSUME NEW w \in Workers, NEW q \in Providers, NEW r \in Readings,
             RecordVerification(w, q, r)
      PROVE  KeepsUnknown(p)
  BY <1>5, VerificationFrame DEF KeepsUnknown
<1>6. ASSUME NEW w \in Workers, NEW q \in Providers, NEW beyond \in BOOLEAN,
             ScheduleReconciliation(w, q, beyond)
      PROVE  KeepsUnknown(p)
  BY <1>6, ScheduleFrame DEF KeepsUnknown
<1> QED
  BY <1>2, <1>3, <1>4, <1>5, <1>6 DEF LegWork

\* So does every other step.
LEMMA KeepsUnknownStep ==
  ASSUME TypeOK, [Next]_vars, NEW p \in Providers
  PROVE  KeepsUnknown(p)
<1>0. Len(attempts) \in Nat
  BY DEF TypeOK
<1>1. ASSUME NEW w \in Workers, Claim(w) PROVE KeepsUnknown(p)
  BY <1>1, ClaimFacts DEF KeepsUnknown
<1>2. ASSUME NEW w \in Workers, Release(w) PROVE KeepsUnknown(p)
  BY <1>2, ReleaseFacts DEF KeepsUnknown
<1>3. ASSUME NEW e \in [Providers -> Items], AuthorizeRecovery(e)
      PROVE  KeepsUnknown(p)
  <2>1. Len(attempts') = Len(attempts) + 1
    BY <1>3, RecoveryFacts
  <2> QED
    BY <1>0, <2>1 DEF KeepsUnknown
<1>4. LegWork => KeepsUnknown(p)
  BY LegWorkKeepsUnknown
<1>5. Aside => KeepsUnknown(p)
  BY DEF Aside, KeepsUnknown
<1> QED
  BY <1>1, <1>2, <1>3, <1>4, <1>5, StepKinds

\* No step of a worker loses a mutation whose outcome nobody knows: the leg of
\* a consumed intent without accepted receipt keeps the intent and its receipts
\* for as long as the attempt lasts, whatever claims, crashes, verifications
\* and reschedulings come in between.
THEOREM UnknownKept == Spec => UnknownIsKept
<1>1. TypeOK /\ [Next]_vars => [\A p \in Providers : KeepsUnknown(p)]_vars
  BY KeepsUnknownStep
<1> QED
  BY <1>1, TypeCorrect, PTL DEF Spec, UnknownIsKept, KeepsUnknown

=============================================================================
