-------------------------- MODULE SynthesisProofs ---------------------------
(***************************************************************************)
(* Proofs about Synthesis, and about Drafting and Generation inside it, for *)
(* every set of calls, reviewers, executions and messages, every number of *)
(* segments and every bound on repairs, retries, deliveries and faults.    *)
(***************************************************************************)
EXTENDS Synthesis, TLAPS

-----------------------------------------------------------------------------
(* The inductive invariant.                                                *)

CallSteps == {"idle", "conflict", "look", "reserve", "budget", "draft", "mark", "drop",
              "inputs", "recheck", "stage", "finalize", "finish", "arrive", "accepted",
              "failed", "retry", "dead"}

ExecSteps == {"idle", "lock", "claim", "check", "call", "commit", "read", "dispose",
              "error", "fail", "keep"}

CallStates == [at : CallSteps, why : {"none", "over"} \cup Ended]

Queues == {"none", "staging", "awaiting_review"} \cup Dispatchable \cup {"not_configured"}

Jobs == [queue : Queues, owner : Reviewers \cup {NoReviewer},
         approval : {"pending", "approved", "rejected"}, claim : Runners \cup {NoRunner},
         claimed : {"none", "started", "completed", "unknown"}, audio : BOOLEAN,
         runner : {"none", "completed", "failed"}, lock : {"none", "audio", "video"},
         video : BOOLEAN]

Decisions == [at : {"idle", "send", "finish", "done"},
              status : {"none", "enqueued", "not_configured", "unknown"}]

Executions == [at : ExecSteps, msg : Messages, sound : BOOLEAN, seg : Nat, tries : Nat,
               soft : Nat, called : BOOLEAN]

Deliveries == [at : {"none", "queued", "gone"} \cup Runners, count : Nat]

Scripts == [at : {"off", "write", "sections", "length", "audit", "repair", "gate",
                  "settle"} \cup Ended,
            mode : Modes \cup {"audit"}, words : Nat, sections : BOOLEAN, tries : Nat,
            flagged : SUBSET Turns, found : SUBSET Turns, target : BOOLEAN, full : Nat,
            targeted : Nat, rounds : Nat]

GenTypeOK ==
  /\ draft \in Scripts
  /\ call \in [Calls -> CallStates]
  /\ reserved \in Calls \cup {NoCall}
  /\ slot \in {"none", "reserved", "final"}
  /\ receipt \in [result : {"none"} \cup Results, arrived : BOOLEAN]

SynTypeOK ==
  /\ job \in Jobs
  /\ review \in [Reviewers -> Decisions]
  /\ exec \in [Runners -> Executions]
  /\ message \in [Messages -> Deliveries]
  /\ bought \in {0, 1}
  /\ late \in {0, 1}

\* A script under audit has its length; after a downgrade nothing is flagged.
ScriptIsChecked ==
  /\ draft.at \in {"audit", "repair"} => InRange(draft.words) /\ draft.mode # "construct"
  /\ draft.at = "settle" => draft.flagged = {}

\* Calls that hold the replay inputs: the ones that may still give them up, and the one
\* that stages.
Drawing == {"budget", "draft", "mark", "drop", "inputs", "recheck", "stage"}
Staging == {"finalize", "finish", "arrive"}

OneCallAtWork ==
  \A g \in Calls : call[g].at \in Drawing \cup Staging => reserved = g

Staged == job.queue # "none"
Reviewable == job.queue \notin {"none", "staging"}

\* From the first write of the manifest on, nobody gives the reservation up any more.
StagedIsKept ==
  Staged => reserved # NoCall /\ \A g \in Calls : call[g].at \notin Drawing

StagesInOrder ==
  \A g \in Calls :
    /\ call[g].at = "finalize" => job.queue = "staging"
    /\ call[g].at = "finish" => job.queue = "staging" /\ slot = "final"
    /\ call[g].at = "arrive" => Reviewable

StagedHasEntry == Reviewable => slot = "final"
ArrivedIsStaged == receipt.arrived => Reviewable
RetryGaveUp == \A g \in Calls : call[g].at = "retry" => reserved # g

\* Nothing of the synthesis happens before an approval dispatched it.
UndispatchedIsIdle ==
  ~Dispatched =>
    /\ job.claimed = "none" /\ ~job.audio
    /\ \A r \in Reviewers : review[r].at \notin {"send", "finish"}
    /\ \A m \in Messages : message[m].at = "none"
    /\ \A x \in Runners : exec[x].at = "idle"

SendHasOutcome ==
  \A r \in Reviewers : review[r].at = "finish" => review[r].status # "none"

\* The provider is called under the one claim, and counted at the first call.
ClaimIsSingle ==
  /\ job.claimed = "none" => bought = 0
  /\ \A x \in Runners :
       exec[x].at \in {"check", "call", "commit"} =>
         /\ job.claimed # "none" /\ job.claim = x
         /\ ~exec[x].called => bought = 0

\* After a call under a revoked approval nobody is about to call.
LateIsLast == late = 1 => Revoked /\ \A x \in Runners : exec[x].at # "call"

IInv ==
  /\ GenTypeOK /\ SynTypeOK
  /\ ScriptIsChecked /\ AcceptedIsSound
  /\ OneCallAtWork /\ StagedIsKept /\ StagesInOrder
  /\ StagedHasEntry /\ ArrivedIsStaged /\ RetryGaveUp
  /\ UndispatchedIsIdle /\ SendHasOutcome
  /\ ClaimIsSingle /\ LateIsLast

-----------------------------------------------------------------------------
(* Drafting: the script.                                                   *)

\* The script before the first draft.
LEMMA NoDraftType == NoDraft \in Scripts
  BY DEF NoDraft, Scripts

\* What a counted step puts in place of a field.
LEMMA ScriptFields ==
  ASSUME draft \in Scripts
  PROVE  /\ draft.tries + 1 \in Nat /\ draft.rounds + 1 \in Nat
         /\ draft.targeted + 1 \in Nat /\ draft.full + 1 \in Nat
         /\ draft.mode \in Modes \cup {"audit"}
         /\ draft.flagged \in SUBSET Turns /\ draft.found \in SUBSET Turns
  BY DEF Scripts

\* A repair that is counted, with a new script, leaves nothing checked.
LEMMA RewriteStep ==
  ASSUME draft \in Scripts, draft.at \in {"sections", "length"},
         NEW n \in Nat, NEW w \in Nat, NEW s \in BOOLEAN,
         draft' = [draft EXCEPT !.tries = n, !.words = w, !.sections = s]
  PROVE  draft' \in Scripts /\ draft'.at = draft.at
<1>1. draft' \in Scripts
  BY DEF Scripts
<1> QED
  BY <1>1 DEF Scripts

\* A failed script is a script, and claims nothing.
LEMMA FailStep ==
  ASSUME draft \in Scripts, Fail
  PROVE  draft' \in Scripts /\ draft'.at = "failed"
  BY DEF Fail, Scripts, Ended

\* What a step of the draft must keep.
ScriptOK == draft \in Scripts /\ ScriptIsChecked /\ AcceptedIsSound

\* Every step of the draft keeps a script a script, and what it was checked for.
LEMMA DraftingStep ==
  ASSUME draft \in Scripts, ScriptIsChecked, DraftStep
  PROVE  ScriptOK'
<1> USE DEF ScriptIsChecked, AcceptedIsSound, Drafted
<1>0. /\ MaxWords \in Nat /\ 0..MaxWords \subseteq Nat
      /\ Low \in Nat /\ High \in Nat /\ Low..High \subseteq Nat
  BY DraftingAssumption
<1>m. Modes \cup {"audit"} \subseteq {"audit", "both", "construct"}
  BY DraftingAssumption
<1>f. Fail => ScriptOK'
  BY FailStep DEF ScriptOK
<1>1. CASE Write
  <2>1. PICK w \in Nat, s \in BOOLEAN :
          draft' = [draft EXCEPT !.at = "sections", !.words = w, !.sections = s,
                                 !.tries = 0]
    BY <1>0, <1>1 DEF Write
  <2> QED
    BY <2>1 DEF ScriptOK, Scripts
<1>2. CASE SectionsStand
  BY <1>2 DEF SectionsStand, ScriptOK, Scripts
<1>3. CASE RepairSections
  <2>1. CASE Fail
    BY <2>1, <1>f
  <2>2. CASE draft' = [draft EXCEPT !.tries = draft.tries + 1]
    BY <1>3, <2>2 DEF RepairSections, ScriptOK, Scripts
  <2>3. ASSUME NEW w \in Nat, NEW s \in BOOLEAN,
               draft' = [draft EXCEPT !.tries = draft.tries + 1, !.words = w,
                                      !.sections = s]
        PROVE  ScriptOK'
    <3>1. draft.at \in {"sections", "length"}
      BY <1>3 DEF RepairSections
    <3>2. draft' \in Scripts /\ draft'.at = draft.at
      BY <2>3, <3>1, RewriteStep, ScriptFields
    <3> QED
      BY <3>1, <3>2 DEF ScriptOK
  <2> QED
    BY <1>0, <1>3, <2>1, <2>2, <2>3 DEF RepairSections
<1>4. CASE LengthStands
  <2>1. PICK f \in SUBSET Turns :
          draft' = [draft EXCEPT
                      !.at = IF draft.mode = "construct" THEN "gate" ELSE "audit",
                      !.flagged = f, !.found = {}, !.tries = 0]
    BY <1>4 DEF LengthStands
  <2>2. InRange(draft.words)
    BY <1>4 DEF LengthStands
  <2>3. draft' \in Scripts
    BY <2>1 DEF Scripts
  <2>4. ScriptIsChecked' /\ AcceptedIsSound'
    BY <2>1, <2>2 DEF Scripts, InRange
  <2> QED
    BY <2>3, <2>4 DEF ScriptOK
<1>5. CASE RepairLength
  <2>1. CASE Fail
    BY <2>1, <1>f
  <2>2. CASE draft' = [draft EXCEPT !.tries = draft.tries + 1]
    BY <1>5, <2>2 DEF RepairLength, ScriptOK, Scripts
  <2>3. ASSUME NEW w \in Nat, NEW s \in BOOLEAN,
               draft' = [draft EXCEPT !.tries = draft.tries + 1, !.words = w,
                                      !.sections = s]
        PROVE  ScriptOK'
    <3>1. draft.at \in {"sections", "length"}
      BY <1>5 DEF RepairLength
    <3>2. draft' \in Scripts /\ draft'.at = draft.at
      BY <2>3, <3>1, RewriteStep, ScriptFields
    <3> QED
      BY <3>1, <3>2 DEF ScriptOK
  <2> QED
    BY <1>0, <1>5, <2>1, <2>2, <2>3 DEF RepairLength
<1>6. CASE Audit
  <2>0. InRange(draft.words) /\ draft.mode # "construct"
    BY <1>6 DEF Audit
  <2>1. CASE Fail
    BY <2>1, <1>f
  <2>2. ASSUME NEW v \in SUBSET Turns, draft' = [draft EXCEPT !.at = "done", !.found = {}],
               {} = IF v = {} /\ draft.mode = "both" THEN draft.flagged ELSE v
        PROVE  ScriptOK'
    <3>1. draft.mode = "both" => draft.flagged = {}
      BY <2>2
    <3>2. draft' \in Scripts
      BY <2>2 DEF Scripts, Ended
    <3>3. /\ draft'.at = "done" /\ draft'.words = draft.words
          /\ draft'.mode = draft.mode /\ draft'.flagged = draft.flagged
      BY <2>2 DEF Scripts
    <3> QED
      BY <2>0, <3>1, <3>2, <3>3 DEF ScriptOK, InRange
  <2>3. ASSUME NEW t \in BOOLEAN, NEW f \in SUBSET Turns,
               draft' = [draft EXCEPT !.at = "repair", !.target = t, !.found = f]
        PROVE  ScriptOK'
    <3>2. draft' \in Scripts
      BY <2>3 DEF Scripts
    <3>3. /\ draft'.at = "repair" /\ draft'.words = draft.words
          /\ draft'.mode = draft.mode
      BY <2>3 DEF Scripts
    <3> QED
      BY <2>0, <3>2, <3>3 DEF ScriptOK, InRange
  <2> QED
    <3>1. PICK v \in SUBSET Turns, usable \in BOOLEAN :
            LET found == IF v = {} /\ draft.mode = "both" THEN draft.flagged ELSE v
                target == usable /\ found # {}
                next == target /\ draft.targeted < MaxTargeted
            IN IF usable /\ found = {}
                 THEN draft' = [draft EXCEPT !.at = "done", !.found = {}]
                 ELSE IF (~next /\ draft.full >= MaxFull) \/ OutOfTime(draft.rounds)
                   THEN Fail
                   ELSE draft' = [draft EXCEPT !.at = "repair", !.target = target,
                                               !.found = IF target THEN found ELSE {}]
      BY <1>6 DEF Audit
    <3> DEFINE found == IF v = {} /\ draft.mode = "both" THEN draft.flagged ELSE v
               target == usable /\ found # {}
    <3>2. found \in SUBSET Turns /\ target \in BOOLEAN
      BY DEF Scripts
    <3>3. (IF target THEN found ELSE {}) \in SUBSET Turns
      BY <3>2
    <3>4. \/ draft' = [draft EXCEPT !.at = "done", !.found = {}] /\ found = {}
          \/ Fail
          \/ draft' = [draft EXCEPT !.at = "repair", !.target = target,
                                    !.found = IF target THEN found ELSE {}]
      BY <3>1
    <3>5. CASE draft' = [draft EXCEPT !.at = "done", !.found = {}] /\ found = {}
      BY <2>2, <3>5
    <3>6. CASE draft' = [draft EXCEPT !.at = "repair", !.target = target,
                                      !.found = IF target THEN found ELSE {}]
      <4> HIDE DEF found, target
      <4> QED
        BY <2>3, <3>2, <3>3, <3>6
    <3> QED
      BY <2>1, <3>4, <3>5, <3>6
<1>7. CASE RepairTurns
  <2>0. InRange(draft.words) /\ draft.mode # "construct" /\ draft.at = "repair"
    BY <1>7 DEF RepairTurns
  <2>1. CASE Fail
    BY <2>1, <1>f
  <2>2. ASSUME NEW f \in SUBSET draft.found, NEW w \in 0..MaxWords, Merges(w),
               draft' = [draft EXCEPT !.rounds = draft.rounds + 1,
                                      !.targeted = draft.targeted + 1,
                                      !.at = "audit", !.found = {}, !.target = FALSE,
                                      !.words = w,
                                      !.flagged = (draft.flagged \ draft.found) \cup f]
        PROVE  ScriptOK'
    <3>0. (draft.flagged \ draft.found) \cup f \in SUBSET Turns
      BY DEF Scripts
    <3>1. draft.rounds + 1 \in Nat /\ draft.targeted + 1 \in Nat
      BY ScriptFields
    <3>2. draft' \in Scripts
      <4> DEFINE n == draft.rounds + 1
                 m == draft.targeted + 1
                 g == (draft.flagged \ draft.found) \cup f
      <4>1. draft' = [draft EXCEPT !.rounds = n, !.targeted = m, !.at = "audit",
                                   !.found = {}, !.target = FALSE, !.words = w,
                                   !.flagged = g]
        BY <2>2
      <4>2. n \in Nat /\ m \in Nat /\ g \in SUBSET Turns /\ w \in Nat
        BY <1>0, <3>0, <3>1
      <4> HIDE DEF n, m, g
      <4> QED
        BY <4>1, <4>2 DEF Scripts
    <3>3. /\ draft'.at = "audit" /\ draft'.words = w
          /\ draft'.mode = draft.mode
      BY <2>2 DEF Scripts
    <3> QED
      BY <2>0, <2>2, <3>2, <3>3 DEF ScriptOK, Merges, InRange
  <2>3. ASSUME draft' = [draft EXCEPT !.rounds = draft.rounds + 1,
                                      !.targeted = draft.targeted + 1]
        PROVE  ScriptOK'
    <3>1. draft.rounds + 1 \in Nat /\ draft.targeted + 1 \in Nat
      BY ScriptFields
    <3>2. draft' \in Scripts
      <4> DEFINE n == draft.rounds + 1
                 m == draft.targeted + 1
      <4>1. draft' = [draft EXCEPT !.rounds = n, !.targeted = m]
        BY <2>3
      <4>2. n \in Nat /\ m \in Nat
        BY <3>1
      <4> HIDE DEF n, m
      <4> QED
        BY <4>1, <4>2 DEF Scripts
    <3>3. /\ draft'.at = "repair" /\ draft'.words = draft.words
          /\ draft'.mode = draft.mode
      BY <2>0, <2>3 DEF Scripts
    <3> QED
      BY <2>0, <3>2, <3>3 DEF ScriptOK, InRange
  <2> QED
    BY <1>7, <2>1, <2>2, <2>3 DEF RepairTurns, Scripts
<1>8. CASE RepairAll
  <2>1. CASE Fail
    BY <2>1, <1>f
  <2>2. ASSUME draft' = [NoDraft EXCEPT !.at = "write", !.mode = draft.mode,
                                        !.full = draft.full + 1,
                                        !.rounds = draft.rounds + 1]
        PROVE  ScriptOK'
    <3> DEFINE n == draft.full + 1
               m == draft.rounds + 1
               d == draft.mode
    <3>1. draft' = [NoDraft EXCEPT !.at = "write", !.mode = d, !.full = n,
                                   !.rounds = m]
      BY <2>2
    <3>2. n \in Nat /\ m \in Nat /\ d \in Modes \cup {"audit"}
      BY ScriptFields
    <3> HIDE DEF n, m, d
    <3>3. draft' \in Scripts /\ draft'.at = "write"
      BY <3>1, <3>2, NoDraftType DEF Scripts
    <3> QED
      BY <3>3 DEF ScriptOK
  <2> QED
    BY <1>8, <2>1, <2>2 DEF RepairAll
<1>9. CASE GateRepair
  <2>1. PICK changed \in SUBSET Turns, f \in SUBSET Turns, w \in 0..MaxWords :
          LET next == [draft EXCEPT !.rounds = draft.rounds + 1] IN
          draft' = IF changed \subseteq draft.flagged /\ Merges(w)
                     THEN [next EXCEPT !.flagged = f, !.words = w] ELSE next
    BY <1>9 DEF GateRepair
  <2> DEFINE n == draft.rounds + 1
  <2>2. n \in Nat /\ w \in Nat /\ draft.at = "gate"
    BY <1>0, <1>9, ScriptFields DEF GateRepair
  <2>3. \/ draft' = [draft EXCEPT !.rounds = n]
        \/ draft' = [draft EXCEPT !.rounds = n, !.flagged = f, !.words = w]
    BY <2>1
  <2> HIDE DEF n
  <2>4. draft' \in Scripts /\ draft'.at = "gate"
    BY <2>2, <2>3 DEF Scripts
  <2> QED
    BY <2>4 DEF ScriptOK
<1>10. CASE Downgrade
  <2>1. PICK w \in Nat :
          draft' = [draft EXCEPT !.at = "settle", !.words = w, !.flagged = {}]
    BY <1>0, <1>10 DEF Downgrade
  <2> QED
    BY <2>1 DEF ScriptOK, Scripts
<1>11. CASE Settle
  <2>1. CASE Fail
    BY <2>1, <1>f
  <2>2. ASSUME NEW w \in Low..High, draft' = [draft EXCEPT !.at = "done", !.words = w]
        PROVE  ScriptOK'
    <3>0. draft.flagged = {}
      BY <1>11 DEF Settle
    <3>2. draft' \in Scripts
      BY <1>0, <2>2 DEF Scripts, Ended
    <3>3. /\ draft'.at = "done" /\ draft'.words = w
          /\ draft'.mode = draft.mode /\ draft'.flagged = draft.flagged
      BY <2>2 DEF Scripts
    <3>4. InRange(w)
      BY <1>0, <2>2 DEF InRange
    <3> QED
      BY <3>0, <3>2, <3>3, <3>4 DEF ScriptOK, InRange
  <2> QED
    BY <1>11, <2>1, <2>2 DEF Settle
<1>12. CASE Break
  <2>1. PICK why \in {"filter", "throttled", "broken"} :
          draft' = [NoDraft EXCEPT !.at = why]
    BY <1>12 DEF Break
  <2> QED
    BY <2>1, NoDraftType DEF ScriptOK, Scripts, Ended
<1>13. CASE Late
  BY <1>13 DEF Late, Drafts, Ended, ScriptOK
<1> QED
  BY <1>1, <1>2, <1>3, <1>4, <1>5, <1>6, <1>7, <1>8, <1>9, <1>10, <1>11, <1>12,
     <1>13 DEF DraftStep

-----------------------------------------------------------------------------
(* Generation: the reservation.                                            *)

\* What a step of call g does to the program counters.
Moves(g, at) ==
  /\ call' \in [Calls -> CallStates]
  /\ call'[g].at = at
  /\ \A h \in Calls : h # g => call'[h] = call[h]

\* Every transition of a call is a move.
LEMMA MoveFacts ==
  ASSUME call \in [Calls -> CallStates], NEW g \in Calls, NEW at \in CallSteps,
         NEW why \in {"none", "over"} \cup Ended, Because(g, at, why)
  PROVE  Moves(g, at)
<1> DEFINE c == [at |-> at, why |-> why]
<1>1. c \in CallStates /\ c.at = at
  BY DEF CallStates
<1>2. call' = [call EXCEPT ![g] = c]
  BY DEF Because
<1> HIDE DEF c
<1> QED
  BY <1>1, <1>2 DEF Moves

\* A transition without a reason.
LEMMA GotoFacts ==
  ASSUME call \in [Calls -> CallStates], NEW g \in Calls, NEW at \in CallSteps,
         Goto(g, at)
  PROVE  Moves(g, at)
<1>1. Because(g, at, "none")
  BY DEF Goto, Because
<1> QED
  BY <1>1, MoveFacts

\* The document and the calls that hold it.
ReservationOK ==
  /\ OneCallAtWork /\ StagedIsKept /\ StagesInOrder
  /\ StagedHasEntry /\ ArrivedIsStaged /\ RetryGaveUp

\* The types of what the calls share.
LedgerOK ==
  /\ call \in [Calls -> CallStates]
  /\ reserved \in Calls \cup {NoCall}
  /\ slot \in {"none", "reserved", "final"}
  /\ receipt \in [result : {"none"} \cup Results, arrived : BOOLEAN]

\* Steps that leave the reservation, the ledger and the manifest alone, and move
\* the call to where it holds no more than before.
LEMMA QuietMove ==
  ASSUME LedgerOK, ReservationOK, NEW g \in Calls, NEW at \in CallSteps, Moves(g, at),
         UNCHANGED <<reserved, slot, receipt, job>>,
         \/ at \in {"idle", "conflict", "look", "reserve", "accepted", "failed", "dead"}
         \/ call[g].at \in Drawing /\ at \in Drawing
  PROVE  LedgerOK' /\ ReservationOK'
<1> USE DEF ReservationOK, LedgerOK, Moves
<1>1. LedgerOK'
  OBVIOUS
<1>2. OneCallAtWork'
  BY DEF OneCallAtWork, Drawing, Staging
<1>3. StagedIsKept'
  BY DEF StagedIsKept, Staged, Drawing
<1>4. StagesInOrder'
  BY DEF StagesInOrder, Reviewable, Drawing
<1>5. StagedHasEntry' /\ ArrivedIsStaged'
  BY DEF StagedHasEntry, ArrivedIsStaged, Reviewable
<1>6. RetryGaveUp'
  BY DEF RetryGaveUp, Drawing
<1> QED
  BY <1>1, <1>2, <1>3, <1>4, <1>5, <1>6

\* Nobody but the call itself is between its reservation and its end.
LEMMA Alone ==
  ASSUME ReservationOK, NEW g \in Calls, call[g].at \in Drawing \cup Staging
  PROVE  /\ reserved = g
         /\ \A h \in Calls : h # g => call[h].at \notin Drawing \cup Staging
         /\ call[g].at \in Drawing => job.queue = "none"
  BY DEF ReservationOK, OneCallAtWork, StagedIsKept, Staged

\* A call that draws its draft may also give the ledger's slot or the replay
\* inputs back: no manifest exists yet.
LEMMA DrawingMove ==
  ASSUME LedgerOK, ReservationOK, NEW g \in Calls, NEW at \in CallSteps, Moves(g, at),
         call[g].at \in Drawing, UNCHANGED <<receipt, job>>,
         slot' \in {"none", "reserved", "final"},
         \/ reserved' = reserved /\ at \in Drawing \cup {"failed"}
         \/ reserved' = NoCall /\ at \in {"failed", "retry"}
  PROVE  LedgerOK' /\ ReservationOK'
<1> USE DEF ReservationOK, LedgerOK, Moves
<1>0. /\ reserved = g /\ job.queue = "none"
      /\ \A h \in Calls : h # g => call[h].at \notin Drawing \cup Staging
  BY Alone
<1>1. LedgerOK'
  OBVIOUS
<1>2. OneCallAtWork'
  BY <1>0 DEF OneCallAtWork, Drawing, Staging
<1>3. StagedIsKept'
  BY <1>0 DEF StagedIsKept, Staged
<1>4. StagesInOrder'
  BY <1>0 DEF StagesInOrder, Reviewable, Drawing, Staging
<1>5. StagedHasEntry' /\ ArrivedIsStaged'
  BY <1>0 DEF StagedHasEntry, ArrivedIsStaged, Reviewable
<1>6. RetryGaveUp'
  BY <1>0, GenerationAssumption DEF RetryGaveUp, Drawing
<1> QED
  BY <1>1, <1>2, <1>3, <1>4, <1>5, <1>6

\* Staging: one more write of the manifest.
LEMMA StageStep ==
  ASSUME LedgerOK, ReservationOK, job \in Jobs, NEW g \in Calls, Stage(g)
  PROVE  /\ LedgerOK' /\ ReservationOK'
         /\ job.queue = "none" /\ job' \in Jobs
         /\ job'.queue = "staging" /\ job'.claimed = "none" /\ ~job'.audio
<1> USE DEF ReservationOK, LedgerOK
<1>1. call[g].at = "stage" /\ UNCHANGED <<reserved, slot, receipt>>
  BY DEF Stage, At
<1>2. Moves(g, "finalize")
  BY GotoFacts DEF Stage, CallSteps
<1>3. /\ reserved = g /\ job.queue = "none" /\ g # NoCall
      /\ \A h \in Calls : h # g => call[h].at \notin Drawing \cup Staging
  BY <1>1, Alone, GenerationAssumption DEF Drawing
<1>4. NoJob \in Jobs
  BY DEF NoJob, Jobs, Queues
<1>5. job' \in Jobs /\ job'.queue = "staging" /\ job'.claimed = "none" /\ ~job'.audio
  BY <1>4 DEF Stage, Jobs, Queues, NoJob
<1>6. OneCallAtWork'
  BY <1>1, <1>2, <1>3 DEF OneCallAtWork, Moves
<1>7. StagedIsKept'
  BY <1>1, <1>2, <1>3 DEF StagedIsKept, Moves, Drawing
<1>8. StagesInOrder'
  BY <1>1, <1>2, <1>3, <1>5 DEF StagesInOrder, Moves, Staging
<1>9. StagedHasEntry'
  BY <1>5 DEF StagedHasEntry, Reviewable
<1>10. ArrivedIsStaged'
  BY <1>1, <1>3 DEF ArrivedIsStaged, Reviewable
<1>11. RetryGaveUp'
  BY <1>1, <1>2 DEF RetryGaveUp, Moves
<1> QED
  BY <1>1, <1>2, <1>3, <1>5, <1>6, <1>7, <1>8, <1>9, <1>10, <1>11 DEF Moves

\* The entry of the ledger is final before the manifest may be reviewed.
LEMMA FinalizeStep ==
  ASSUME LedgerOK, ReservationOK, NEW g \in Calls, FinalizeBudget(g)
  PROVE  LedgerOK' /\ ReservationOK' /\ job' = job
<1> USE DEF ReservationOK, LedgerOK
<1>1. /\ call[g].at = "finalize" /\ slot' = "final"
      /\ UNCHANGED <<reserved, receipt, job>>
  BY DEF FinalizeBudget, At
<1>2. Moves(g, "finish")
  BY GotoFacts DEF FinalizeBudget, CallSteps
<1>3. job.queue = "staging" /\ reserved = g
  BY <1>1 DEF StagesInOrder, OneCallAtWork, Staging
<1>4. OneCallAtWork' /\ StagedIsKept' /\ RetryGaveUp'
  BY <1>1, <1>2, <1>3
     DEF OneCallAtWork, StagedIsKept, RetryGaveUp, Moves, Staged, Drawing
<1>5. StagesInOrder'
  BY <1>1, <1>2, <1>3 DEF StagesInOrder, Moves, Reviewable
<1>6. StagedHasEntry' /\ ArrivedIsStaged'
  BY <1>1 DEF StagedHasEntry, ArrivedIsStaged, Reviewable
<1> QED
  BY <1>1, <1>2, <1>4, <1>5, <1>6 DEF Moves

\* The manifest may be reviewed from here on.
LEMMA FinishStep ==
  ASSUME LedgerOK, ReservationOK, job \in Jobs, NEW g \in Calls, FinishStaging(g)
  PROVE  /\ LedgerOK' /\ ReservationOK'
         /\ job.queue = "staging"
         /\ job' = [job EXCEPT !.queue = "awaiting_review"]
<1> USE DEF ReservationOK, LedgerOK
<1>1. call[g].at = "finish" /\ UNCHANGED <<reserved, slot, receipt>>
  BY DEF FinishStaging, At
<1>2. Moves(g, "arrive")
  BY GotoFacts DEF FinishStaging, CallSteps
<1>3. /\ reserved = g /\ job.queue = "staging" /\ slot = "final"
      /\ \A h \in Calls : h # g => call[h].at \notin Drawing \cup Staging
  BY <1>1, Alone DEF StagesInOrder, Staging
<1>4. job' = [job EXCEPT !.queue = "awaiting_review"]
  BY DEF FinishStaging
<1>5. job'.queue = "awaiting_review"
  BY <1>4 DEF Jobs
<1>6. OneCallAtWork' /\ StagedIsKept' /\ RetryGaveUp'
  BY <1>1, <1>2, <1>3
     DEF OneCallAtWork, StagedIsKept, RetryGaveUp, Moves, Staged, Drawing
<1>7. StagesInOrder'
  BY <1>1, <1>2, <1>3, <1>5 DEF StagesInOrder, Moves, Reviewable, Staging
<1>8. StagedHasEntry' /\ ArrivedIsStaged'
  BY <1>1, <1>3, <1>5 DEF StagedHasEntry, ArrivedIsStaged, Reviewable
<1> QED
  BY <1>1, <1>2, <1>3, <1>4, <1>6, <1>7, <1>8 DEF Moves

\* A dispatch is told to have arrived only for a manifest that may be reviewed.
LEMMA ArriveStep ==
  ASSUME LedgerOK, ReservationOK, NEW g \in Calls, RecordArrival(g)
  PROVE  LedgerOK' /\ ReservationOK' /\ job' = job
<1> USE DEF ReservationOK, LedgerOK
<1>1. call[g].at = "arrive" /\ UNCHANGED <<reserved, slot, job>> /\ Reviewable
  BY DEF RecordArrival, At, StagesInOrder
<1>2. CASE receipt.result \in Terminal
  <2>1. Moves(g, "conflict") /\ UNCHANGED receipt
    BY <1>2, GotoFacts DEF RecordArrival, CallSteps
  <2> QED
    BY <1>1, <2>1, QuietMove DEF CallSteps
<1>3. CASE receipt.result \notin Terminal
  <2>1. Moves(g, "accepted") /\ receipt' = [receipt EXCEPT !.arrived = TRUE]
    BY <1>3, GotoFacts DEF RecordArrival, CallSteps
  <2>2. receipt' \in [result : {"none"} \cup Results, arrived : BOOLEAN]
    BY <2>1
  <2>3. OneCallAtWork' /\ StagedIsKept' /\ RetryGaveUp' /\ StagesInOrder'
    BY <1>1, <2>1
       DEF OneCallAtWork, StagedIsKept, RetryGaveUp, StagesInOrder, Moves, Staged,
           Drawing, Staging, Reviewable
  <2>4. StagedHasEntry' /\ ArrivedIsStaged'
    BY <1>1 DEF StagedHasEntry, ArrivedIsStaged, Reviewable
  <2> QED
    BY <1>1, <2>1, <2>2, <2>3, <2>4 DEF Moves
<1> QED
  BY <1>2, <1>3

\* The replay inputs are free, and so is everything that hangs on them.
LEMMA ReserveStep ==
  ASSUME LedgerOK, ReservationOK, NEW g \in Calls, Reserve(g)
  PROVE  LedgerOK' /\ ReservationOK' /\ job' = job
<1> USE DEF ReservationOK, LedgerOK
<1>1. call[g].at = "reserve" /\ UNCHANGED <<slot, receipt, job>>
  BY DEF Reserve, At
<1>2. CASE reserved # NoCall
  <2>1. Moves(g, "conflict") /\ UNCHANGED reserved
    BY <1>2, GotoFacts DEF Reserve, CallSteps
  <2> QED
    BY <1>1, <2>1, QuietMove DEF CallSteps
<1>3. CASE reserved = NoCall
  <2>1. Moves(g, "budget") /\ reserved' = g
    BY <1>3, GotoFacts DEF Reserve, CallSteps
  <2>2. /\ job.queue = "none"
        /\ \A h \in Calls : call[h].at \notin Drawing \cup Staging
    BY <1>3, GenerationAssumption DEF StagedIsKept, Staged, OneCallAtWork
  <2>3. OneCallAtWork' /\ StagedIsKept' /\ RetryGaveUp'
    BY <1>1, <2>1, <2>2
       DEF OneCallAtWork, StagedIsKept, RetryGaveUp, Moves, Staged
  <2>4. StagesInOrder' /\ StagedHasEntry' /\ ArrivedIsStaged'
    BY <1>1, <2>1, <2>2
       DEF StagesInOrder, StagedHasEntry, ArrivedIsStaged, Moves, Reviewable, Staging
  <2> QED
    BY <1>1, <2>1, <2>3, <2>4 DEF Moves
<1> QED
  BY <1>2, <1>3

\* Every step of a call keeps the reservation, and writes the manifest twice only.
LEMMA GenReservation ==
  ASSUME LedgerOK, ReservationOK, job \in Jobs, GenNext \/ GenFault
  PROVE  /\ LedgerOK' /\ ReservationOK'
         /\ \/ job' = job
            \/ /\ job.queue = "none" /\ job' \in Jobs
               /\ job'.queue = "staging" /\ job'.claimed = "none" /\ ~job'.audio
            \/ /\ job.queue = "staging"
               /\ job' = [job EXCEPT !.queue = "awaiting_review"]
<1> DEFINE Kept == LedgerOK' /\ ReservationOK' /\ job' = job
<1>c. call \in [Calls -> CallStates]
  BY DEF LedgerOK
<1>1. ASSUME UNCHANGED <<call, reserved, slot, job>>,
             \/ UNCHANGED receipt
             \/ \E res \in Results : RegisterIntent(res)
      PROVE  Kept
  <2>1. /\ receipt' \in [result : {"none"} \cup Results, arrived : BOOLEAN]
        /\ receipt'.arrived = receipt.arrived
    <3>1. receipt \in [result : {"none"} \cup Results, arrived : BOOLEAN]
      BY DEF LedgerOK
    <3>2. CASE UNCHANGED receipt
      BY <3>1, <3>2
    <3>3. ASSUME NEW res \in Results, RegisterIntent(res)
          PROVE  /\ receipt' \in [result : {"none"} \cup Results, arrived : BOOLEAN]
                 /\ receipt'.arrived = receipt.arrived
      BY <3>1, <3>3 DEF RegisterIntent
    <3> QED
      BY <1>1, <3>2, <3>3
  <2>2. OneCallAtWork' /\ StagedIsKept' /\ StagesInOrder'
    BY <1>1
       DEF ReservationOK, OneCallAtWork, StagedIsKept, StagesInOrder, Staged, Reviewable
  <2>3. StagedHasEntry' /\ ArrivedIsStaged' /\ RetryGaveUp'
    BY <1>1, <2>1
       DEF ReservationOK, StagedHasEntry, ArrivedIsStaged, RetryGaveUp, Reviewable
  <2> QED
    BY <1>1, <2>1, <2>2, <2>3 DEF LedgerOK, ReservationOK
<1>2. ASSUME NEW g \in Calls, RequireArrivalEligible(g) PROVE Kept
  <2>1. UNCHANGED <<reserved, slot, receipt, job>>
    BY <1>2 DEF RequireArrivalEligible
  <2>2. PICK at \in {"conflict", "look"} : Goto(g, at)
    BY <1>2 DEF RequireArrivalEligible
  <2>3. at \in CallSteps /\ Moves(g, at)
    BY <1>c, <2>2, GotoFacts DEF CallSteps
  <2> QED
    BY <2>1, <2>3, QuietMove
<1>3. ASSUME NEW g \in Calls, Look(g) PROVE Kept
  <2>1. UNCHANGED <<reserved, slot, receipt, job>>
    BY <1>3 DEF Look
  <2>2. PICK at \in {"conflict", "reserve"} : Goto(g, at)
    BY <1>3 DEF Look
  <2>3. at \in CallSteps /\ Moves(g, at)
    BY <1>c, <2>2, GotoFacts DEF CallSteps
  <2> QED
    BY <2>1, <2>3, QuietMove
<1>4. ASSUME NEW g \in Calls, ReserveBudget(g) PROVE Kept
  <2>1. /\ call[g].at \in Drawing
        /\ UNCHANGED <<reserved, receipt, job>>
    BY <1>4 DEF ReserveBudget, At, Drawing
  <2>2. slot' \in {"none", "reserved", "final"}
    BY <1>4 DEF ReserveBudget
  <2>3. PICK at \in {"inputs", "draft"}, why \in {"none", "over"} :
          Because(g, at, why)
    BY <1>4 DEF ReserveBudget, Goto, Because
  <2>4. /\ at \in CallSteps /\ why \in {"none", "over"} \cup Ended
        /\ at \in Drawing \cup {"failed"}
    BY DEF CallSteps, Drawing
  <2>5. Moves(g, at)
    BY <1>c, <2>3, <2>4, MoveFacts
  <2> QED
    BY <2>1, <2>2, <2>4, <2>5, DrawingMove
<1>5. ASSUME NEW g \in Calls, EndDraft(g) PROVE Kept
  <2>1. /\ call[g].at \in Drawing /\ draft.at \in Ended
        /\ UNCHANGED <<reserved, slot, receipt, job>>
    BY <1>5 DEF EndDraft, At, Drawing
  <2>2. PICK at \in {"recheck", "mark", "drop"}, why \in {"none", draft.at} :
          Because(g, at, why)
    BY <1>5 DEF EndDraft, Goto, Because
  <2>4. /\ at \in CallSteps /\ why \in {"none", "over"} \cup Ended /\ at \in Drawing
    BY <2>1 DEF CallSteps, Drawing
  <2>5. Moves(g, at)
    BY <1>c, <2>2, <2>4, MoveFacts
  <2> QED
    BY <2>1, <2>4, <2>5, QuietMove
<1>6. ASSUME NEW g \in Calls, MarkFiltered(g) PROVE Kept
  <2>1. /\ call[g].at \in Drawing
        /\ UNCHANGED <<reserved, slot, receipt, job>>
    BY <1>6 DEF MarkFiltered, At, Drawing
  <2>2. "drop" \in CallSteps /\ "drop" \in Drawing
    BY DEF CallSteps, Drawing
  <2>3. Moves(g, "drop")
    BY <1>c, <1>6, <2>2, MoveFacts DEF MarkFiltered, Ended
  <2> QED
    BY <2>1, <2>2, <2>3, QuietMove
<1>7. ASSUME NEW g \in Calls, ReleaseFailedReservation(g) PROVE Kept
  <2>1. /\ call[g].at \in Drawing /\ UNCHANGED <<receipt, job>>
    BY <1>7 DEF ReleaseFailedReservation, At, Drawing
  <2>2. call[g].why \in {"none", "over"} \cup Ended
    BY <1>c DEF CallStates
  <2>3. slot' \in {"none", "reserved", "final"}
    BY <1>7 DEF ReleaseFailedReservation, LedgerOK
  <2>4. PICK at \in {"failed", "inputs", "retry"},
             why \in {"none", call[g].why} :
          /\ Because(g, at, why)
          /\ \/ reserved' = reserved /\ at \in {"failed", "inputs"}
             \/ reserved' = NoCall /\ at \in {"failed", "retry"}
    <3>1. CASE call[g].at = "drop"
      BY <1>7, <3>1 DEF ReleaseFailedReservation, At, Goto, Because
    <3>2. CASE call[g].at # "drop"
      BY <1>7, <3>2 DEF ReleaseFailedReservation, At, Goto, Because
    <3> QED
      BY <3>1, <3>2
  <2>5. at \in CallSteps /\ why \in {"none", "over"} \cup Ended
    BY <2>2 DEF CallSteps
  <2>6. Moves(g, at)
    BY <1>c, <2>4, <2>5, MoveFacts
  <2>7. at \in {"failed", "inputs"} => at \in Drawing \cup {"failed"}
    BY DEF Drawing
  <2> QED
    BY <2>1, <2>3, <2>4, <2>5, <2>6, <2>7, DrawingMove
<1>8. ASSUME NEW g \in Calls, ReleaseFails(g) PROVE Kept
  <2>1. /\ call[g].at \in Drawing /\ UNCHANGED <<receipt, job>>
        /\ slot' \in {"none", "reserved", "final"}
        /\ reserved' \in {reserved, NoCall}
    BY <1>8 DEF ReleaseFails, At, Drawing, LedgerOK
  <2>2. "failed" \in CallSteps
    BY DEF CallSteps
  <2>3. Moves(g, "failed")
    BY <1>c, <1>8, <2>2, GotoFacts DEF ReleaseFails
  <2> QED
    BY <2>1, <2>2, <2>3, DrawingMove
<1>9. ASSUME NEW g \in Calls, Recheck(g) PROVE Kept
  <2>1. /\ call[g].at \in Drawing
        /\ UNCHANGED <<reserved, slot, receipt, job>>
    BY <1>9 DEF Recheck, At, Drawing
  <2>2. PICK at \in {"conflict", "stage"} : Goto(g, at)
    BY <1>9 DEF Recheck
  <2>3. /\ at \in CallSteps /\ Moves(g, at)
        /\ at = "stage" => at \in Drawing
    BY <1>c, <2>2, GotoFacts DEF CallSteps, Drawing
  <2> QED
    BY <2>1, <2>2, <2>3, QuietMove
<1>10. ASSUME NEW g \in Calls, CallDies(g) PROVE Kept
  <2>1. UNCHANGED <<reserved, slot, receipt, job>>
    BY <1>10 DEF CallDies
  <2>2. "dead" \in CallSteps
    BY DEF CallSteps
  <2>3. Moves(g, "dead")
    BY <1>c, <1>10, <2>2, GotoFacts DEF CallDies
  <2> QED
    BY <2>1, <2>2, <2>3, QuietMove
<1>11. DraftStep /\ UNCHANGED <<call, reserved, slot, filtered, receipt, job>> => Kept
  BY <1>1
<1>12. ASSUME NEW res \in Results, RegisterIntent(res) PROVE Kept
  BY <1>1, <1>12 DEF RegisterIntent
<1> HIDE DEF Kept
<1>13. CASE \E g \in Calls : Stage(g)
  BY <1>13, StageStep
<1>14. CASE \E g \in Calls : FinishStaging(g)
  BY <1>14, FinishStep
<1>15. \A g \in Calls : Reserve(g) \/ FinalizeBudget(g) \/ RecordArrival(g) => Kept
  BY ReserveStep, FinalizeStep, ArriveStep DEF Kept
<1>16. Kept \/ (\E g \in Calls : Stage(g)) \/ (\E g \in Calls : FinishStaging(g))
  BY <1>2, <1>3, <1>4, <1>5, <1>6, <1>7, <1>8, <1>9, <1>10, <1>11, <1>12, <1>15
     DEF GenNext, GenFault
<1> QED
  BY <1>13, <1>14, <1>16 DEF Kept

\* Every step of a call keeps the script checked.
LEMMA GenScript ==
  ASSUME ScriptOK, GenNext \/ GenFault
  PROVE  ScriptOK'
<1>1. ASSUME draft' = draft PROVE ScriptOK'
  BY <1>1 DEF ScriptOK, ScriptIsChecked, AcceptedIsSound, Drafted
<1>2. ASSUME draft' = NoDraft PROVE ScriptOK'
  BY <1>2, NoDraftType
     DEF ScriptOK, ScriptIsChecked, AcceptedIsSound, Drafted, NoDraft
<1>3. ASSUME NEW g \in Calls, ReserveBudget(g) PROVE ScriptOK'
  <2>1. CASE draft' = draft
    BY <1>1, <2>1
  <2>2. ASSUME NEW m \in Modes, draft' = [NoDraft EXCEPT !.at = "write", !.mode = m]
        PROVE  ScriptOK'
    <3>1. draft' \in Scripts
      BY <2>2, NoDraftType DEF Scripts
    <3>2. draft'.at = "write"
      BY <2>2, NoDraftType DEF Scripts
    <3> QED
      BY <3>1, <3>2 DEF ScriptOK, ScriptIsChecked, AcceptedIsSound, Drafted
  <2> QED
    BY <1>3, <2>1, <2>2 DEF ReserveBudget
<1>4. ASSUME NEW g \in Calls, EndDraft(g) PROVE ScriptOK'
  BY <1>2, <1>4 DEF EndDraft
<1>5. ASSUME NEW g \in Calls, CallDies(g) PROVE ScriptOK'
  BY <1>1, <1>2, <1>5 DEF CallDies, draftVars
<1>6. DraftStep => ScriptOK'
  BY DraftingStep DEF ScriptOK
<1>7. \A res \in Results : RegisterIntent(res) => draft' = draft
  BY DEF RegisterIntent
<1>8. \A g \in Calls :
        \/ RequireArrivalEligible(g) \/ RecordArrival(g) \/ Look(g) \/ Reserve(g)
        \/ MarkFiltered(g) \/ ReleaseFailedReservation(g) \/ Recheck(g) \/ Stage(g)
        \/ FinalizeBudget(g) \/ FinishStaging(g) \/ ReleaseFails(g)
        => draft' = draft
  BY DEF RequireArrivalEligible, RecordArrival, Look, Reserve, MarkFiltered,
         ReleaseFailedReservation, Recheck, Stage, FinalizeBudget, FinishStaging,
         ReleaseFails
<1> QED
  BY <1>1, <1>3, <1>4, <1>5, <1>6, <1>7, <1>8 DEF GenNext, GenFault

-----------------------------------------------------------------------------
(* Synthesis: what the decisions and the executions share.                 *)

SynthesisOK ==
  /\ SynTypeOK
  /\ UndispatchedIsIdle /\ SendHasOutcome
  /\ ClaimIsSingle /\ LateIsLast

\* A step of a call writes the manifest only before the dispatch, when nothing of
\* the synthesis has happened yet.
LEMMA GenSynthesis ==
  ASSUME SynthesisOK, UNCHANGED synVars,
         \/ job' = job
         \/ /\ job.queue = "none" /\ job' \in Jobs
            /\ job'.queue = "staging" /\ job'.claimed = "none" /\ ~job'.audio
         \/ /\ job.queue = "staging"
            /\ job' = [job EXCEPT !.queue = "awaiting_review"]
  PROVE  SynthesisOK'
<1> USE DEF SynthesisOK, SynTypeOK, synVars
<1>1. CASE job' = job
  BY <1>1
     DEF UndispatchedIsIdle, SendHasOutcome, ClaimIsSingle, LateIsLast, Dispatched,
         Revoked
<1>2. CASE job' # job
  <2>1. job.queue \in {"none", "staging"} /\ ~Dispatched
    BY <1>2 DEF Dispatched, Dispatchable
  <2>2. /\ job' \in Jobs
        /\ job'.queue \in {"staging", "awaiting_review"}
        /\ job'.claimed = "none" /\ ~job'.audio
    <3>1. CASE job.queue = "none"
      BY <1>2, <3>1
    <3>2. CASE job.queue = "staging"
      <4>1. job' = [job EXCEPT !.queue = "awaiting_review"]
        BY <1>2, <3>2
      <4>2. job' \in Jobs /\ job'.queue = "awaiting_review"
        BY <4>1 DEF Jobs, Queues
      <4>3. job'.claimed = job.claimed /\ job'.audio = job.audio
        BY <4>1 DEF Jobs
      <4> QED
        BY <2>1, <4>2, <4>3 DEF UndispatchedIsIdle
    <3> QED
      BY <2>1, <3>1, <3>2
  <2>3. UndispatchedIsIdle'
    BY <2>1, <2>2 DEF UndispatchedIsIdle
  <2>4. SendHasOutcome'
    BY DEF SendHasOutcome
  <2>5. ClaimIsSingle'
    BY <2>1, <2>2 DEF UndispatchedIsIdle, ClaimIsSingle
  <2>6. LateIsLast'
    BY <2>1 DEF LateIsLast, Revoked
  <2> QED
    BY <2>2, <2>3, <2>4, <2>5, <2>6
<1> QED
  BY <1>1, <1>2

\* What a step of execution x does to the program counters.
Follows(x, at, called) ==
  /\ exec' \in [Runners -> Executions]
  /\ exec'[x].at = at
  /\ exec'[x].called = called
  /\ \A y \in Runners : y # x => exec'[y] = exec[y]

\* A transition keeps all else of the execution.
LEMMA LeadsFacts ==
  ASSUME SynTypeOK, NEW x \in Runners, NEW at \in ExecSteps, Leads(x, at)
  PROVE  Follows(x, at, exec[x].called)
<1>1. exec \in [Runners -> Executions]
  BY DEF SynTypeOK
<1>2. exec' = [exec EXCEPT ![x].at = at]
  BY DEF Leads
<1> QED
  BY <1>1, <1>2 DEF Executions, Follows

\* An execution that ends has called nobody.
LEMMA RestFacts ==
  ASSUME SynTypeOK, NEW x \in Runners, exec' = [exec EXCEPT ![x] = IdleExec]
  PROVE  Follows(x, "idle", FALSE)
<1>1. exec \in [Runners -> Executions]
  BY DEF SynTypeOK
<1>2. IdleExec \in Executions /\ IdleExec.at = "idle" /\ IdleExec.called = FALSE
  BY SynthesisAssumption DEF IdleExec, Executions, ExecSteps
<1> HIDE DEF IdleExec
<1> QED
  BY <1>1, <1>2 DEF Follows

-----------------------------------------------------------------------------
(* Synthesis: every step.                                                  *)

\* What every step must keep: the invariant, a revocation, and the stage that the
\* manifest has reached.
SynKept ==
  /\ SynthesisOK'
  /\ Revoked => job'.approval = "rejected" /\ job'.audio = job.audio
  /\ job'.queue = job.queue \/ (Reviewable /\ Reviewable')

\* Most steps of an execution: after the dispatch, without calling or claiming.
LEMMA ExecutionStep ==
  ASSUME SynthesisOK, Dispatched, NEW x \in Runners, NEW at \in ExecSteps,
         NEW called \in BOOLEAN, Follows(x, at, called),
         at \in {"check", "call", "commit"} =>
           exec[x].at \in {"check", "call", "commit"} /\ called = exec[x].called,
         at = "call" => ~Revoked,
         job' \in Jobs, job'.queue = job.queue, job'.approval = job.approval,
         job'.claim = job.claim, job.claimed = "none" <=> job'.claimed = "none",
         Revoked => job'.audio = job.audio,
         message' \in [Messages -> Deliveries],
         UNCHANGED <<review, bought, late>>
  PROVE  SynKept
<1> USE DEF SynthesisOK, SynTypeOK, Follows
<1>1. SynTypeOK'
  OBVIOUS
<1>2. UndispatchedIsIdle'
  BY DEF UndispatchedIsIdle, Dispatched
<1>3. SendHasOutcome'
  BY DEF SendHasOutcome
<1>4. ClaimIsSingle'
  BY DEF ClaimIsSingle
<1>5. LateIsLast'
  BY DEF LateIsLast, Revoked, Dispatched
<1> QED
  BY <1>1, <1>2, <1>3, <1>4, <1>5 DEF SynKept, Revoked

\* An execution that has begun was dispatched.
LEMMA BegunIsDispatched ==
  ASSUME SynthesisOK
  PROVE  /\ \A x \in Runners : exec[x].at # "idle" => Dispatched
         /\ \A m \in Messages : message[m].at # "none" => Dispatched
         /\ \A r \in Reviewers : review[r].at \in {"send", "finish"} => Dispatched
         /\ job.audio => Dispatched
  BY DEF SynthesisOK, UndispatchedIsIdle

\* Steps that move an execution and nothing else.
LEMMA TransitionStep ==
  ASSUME SynthesisOK, NEW x \in Runners, NEW at \in ExecSteps, Leads(x, at),
         exec[x].at # "idle",
         at \in {"check", "call", "commit"} => exec[x].at \in {"check", "call", "commit"},
         at = "call" => ~Revoked,
         UNCHANGED <<job, review, message, bought, late>>
  PROVE  SynKept
<1>1. Dispatched
  BY BegunIsDispatched
<1>2. Follows(x, at, exec[x].called) /\ exec[x].called \in BOOLEAN
  BY LeadsFacts DEF SynthesisOK, SynTypeOK, Executions
<1>3. job' \in Jobs /\ message' \in [Messages -> Deliveries]
  BY DEF SynthesisOK, SynTypeOK
<1> QED
  BY <1>1, <1>2, <1>3, ExecutionStep

\* An execution ends, with its message or without it.
LEMMA EndStep ==
  ASSUME SynthesisOK, NEW x \in Runners, exec' = [exec EXCEPT ![x] = IdleExec],
         exec[x].at # "idle", message' \in [Messages -> Deliveries],
         UNCHANGED <<job, review, bought, late>>
  PROVE  SynKept
<1>1. Dispatched
  BY BegunIsDispatched
<1>2. Follows(x, "idle", FALSE) /\ "idle" \in ExecSteps
  BY RestFacts DEF SynthesisOK, ExecSteps
<1>3. job' \in Jobs
  BY DEF SynthesisOK, SynTypeOK
<1> QED
  BY <1>1, <1>2, <1>3, ExecutionStep

\* An approval consumes the one dispatch.
LEMMA ApprovalStep ==
  ASSUME SynthesisOK, NEW r \in Reviewers, RecordApproval(r)
  PROVE  SynKept
<1> USE DEF SynthesisOK, SynTypeOK
<1>1. /\ job.queue = "awaiting_review" /\ ~job.audio
      /\ job' = [job EXCEPT !.approval = "approved", !.queue = "dispatching",
                            !.owner = r]
      /\ review' = [review EXCEPT ![r].at = "send"]
      /\ UNCHANGED <<exec, message, bought, late>>
  BY DEF RecordApproval
<1>2. ~Dispatched
  BY <1>1 DEF Dispatched, Dispatchable
<1>3. /\ job' \in Jobs /\ job'.queue = "dispatching"
      /\ job'.claimed = job.claimed /\ job'.claim = job.claim
  BY <1>1 DEF Jobs, Queues, Dispatchable
<1>4. review' \in [Reviewers -> Decisions]
  BY <1>1 DEF Decisions
<1>5. UndispatchedIsIdle'
  BY <1>3 DEF UndispatchedIsIdle, Dispatched, Dispatchable
<1>6. SendHasOutcome'
  BY <1>1 DEF SendHasOutcome, Decisions
<1>7. ClaimIsSingle'
  BY <1>1, <1>3 DEF ClaimIsSingle
<1>8. LateIsLast'
  BY <1>1, <1>2 DEF LateIsLast, Revoked
<1> QED
  BY <1>1, <1>2, <1>3, <1>4, <1>5, <1>6, <1>7, <1>8 DEF SynKept, Revoked, Reviewable

\* A rejection revokes what was dispatched.
LEMMA RejectionStep ==
  ASSUME SynthesisOK, NEW r \in Reviewers, RecordRejection(r)
  PROVE  SynKept
<1> USE DEF SynthesisOK, SynTypeOK
<1>1. /\ job' = [job EXCEPT !.approval = "rejected"]
      /\ review' = [review EXCEPT ![r].at = "done"]
      /\ UNCHANGED <<exec, message, bought, late>>
  BY DEF RecordRejection
<1>3. /\ job' \in Jobs /\ job'.queue = job.queue /\ job'.approval = "rejected"
      /\ job'.claimed = job.claimed /\ job'.claim = job.claim
      /\ job'.audio = job.audio
  BY <1>1 DEF Jobs
<1>4. review' \in [Reviewers -> Decisions]
  BY <1>1 DEF Decisions
<1>5. UndispatchedIsIdle'
  BY <1>1, <1>3 DEF UndispatchedIsIdle, Dispatched, Decisions
<1>6. SendHasOutcome'
  BY <1>1 DEF SendHasOutcome, Decisions
<1>7. ClaimIsSingle'
  BY <1>1, <1>3 DEF ClaimIsSingle
<1>8. LateIsLast'
  BY <1>1, <1>3 DEF LateIsLast, Revoked, Dispatched
<1> QED
  BY <1>1, <1>3, <1>4, <1>5, <1>6, <1>7, <1>8 DEF SynKept

\* The send of a dispatch.
LEMMA SendStep ==
  ASSUME SynthesisOK, NEW r \in Reviewers, SendDispatch(r)
  PROVE  SynKept
<1> USE DEF SynthesisOK, SynTypeOK
<1>1. Dispatched /\ review[r].at = "send" /\ UNCHANGED <<job, exec, bought, late>>
  BY BegunIsDispatched DEF SendDispatch
<1>2. PICK status \in {"enqueued", "not_configured", "unknown"}, sent \in BOOLEAN :
        /\ message' = IF sent THEN [message EXCEPT ![FirstMessage].at = "queued"]
                              ELSE message
        /\ review' = [review EXCEPT ![r] = [at |-> "finish", status |-> status]]
  BY DEF SendDispatch
<1>3. message' \in [Messages -> Deliveries]
  BY <1>2, SynthesisAssumption DEF Deliveries
<1>4. /\ review' \in [Reviewers -> Decisions]
      /\ review'[r].status = status
      /\ \A q \in Reviewers : q # r => review'[q] = review[q]
  BY <1>2 DEF Decisions
<1>5. UndispatchedIsIdle'
  BY <1>1 DEF UndispatchedIsIdle, Dispatched
<1>6. SendHasOutcome'
  BY <1>4 DEF SendHasOutcome
<1>7. ClaimIsSingle' /\ LateIsLast'
  BY <1>1 DEF ClaimIsSingle, LateIsLast, Revoked, Dispatched
<1> QED
  BY <1>1, <1>3, <1>4, <1>5, <1>6, <1>7 DEF SynKept, Revoked

\* The outcome of the send, recorded by the decision that owns the dispatch.
LEMMA FinishDispatchStep ==
  ASSUME SynthesisOK, NEW r \in Reviewers, FinishDispatch(r)
  PROVE  SynKept
<1> USE DEF SynthesisOK, SynTypeOK
<1>1. /\ Dispatched /\ review[r].at = "finish" /\ UNCHANGED <<exec, message, bought, late>>
      /\ review' = [review EXCEPT ![r] = [at |-> "done", status |-> "none"]]
  BY BegunIsDispatched DEF FinishDispatch
<1>2. review[r].status \in {"enqueued", "not_configured", "unknown"}
  BY <1>1 DEF SendHasOutcome, Decisions
<1>3. /\ job' \in Jobs
      /\ job'.queue \in Dispatchable \cup {"not_configured"}
      /\ job'.approval = job.approval /\ job'.audio = job.audio
      /\ job'.claimed = job.claimed /\ job'.claim = job.claim
  <2>1. CASE job' = job
    BY <1>1, <2>1 DEF Dispatched
  <2>2. CASE job' = [job EXCEPT !.queue = review[r].status]
    <3> DEFINE s == review[r].status
    <3>1. s \in {"enqueued", "not_configured", "unknown"} /\ job' = [job EXCEPT !.queue = s]
      BY <1>2, <2>2
    <3> HIDE DEF s
    <3> QED
      BY <3>1 DEF Jobs, Queues, Dispatchable
  <2> QED
    BY <2>1, <2>2 DEF FinishDispatch
<1>4. /\ review' \in [Reviewers -> Decisions]
      /\ review'[r].at = "done"
      /\ \A q \in Reviewers : q # r => review'[q] = review[q]
  BY <1>1 DEF Decisions
<1>5. UndispatchedIsIdle' /\ Dispatched'
  BY <1>3 DEF UndispatchedIsIdle, Dispatched
<1>6. SendHasOutcome'
  BY <1>4 DEF SendHasOutcome
<1>7. ClaimIsSingle' /\ LateIsLast'
  BY <1>1, <1>3, <1>5 DEF ClaimIsSingle, LateIsLast, Revoked
<1>8. Reviewable /\ Reviewable'
  BY <1>1, <1>3 DEF Reviewable, Dispatched, Dispatchable
<1> QED
  BY <1>3, <1>4, <1>5, <1>6, <1>7, <1>8, <1>1 DEF SynKept, Revoked

\* The one claim: nobody has called the provider yet.
LEMMA ClaimStep ==
  ASSUME SynthesisOK, NEW x \in Runners, NEW at \in {"check", "idle"},
         NEW called \in BOOLEAN, Follows(x, at, called),
         exec[x].at # "idle", StillBound, job.claimed = "none",
         job' = [job EXCEPT !.claim = x, !.claimed = "started"],
         UNCHANGED <<review, message, bought, late>>
  PROVE  SynKept
<1> USE DEF SynthesisOK, SynTypeOK, Follows
<1>1. Dispatched /\ ~Revoked /\ late # 1
  BY BegunIsDispatched DEF StillBound, LateIsLast, Revoked
<1>2. /\ job' \in Jobs /\ job'.queue = job.queue /\ job'.approval = job.approval
      /\ job'.claim = x /\ job'.claimed = "started" /\ job'.audio = job.audio
  BY DEF Jobs
<1>3. UndispatchedIsIdle' /\ SendHasOutcome'
  BY <1>1, <1>2 DEF UndispatchedIsIdle, SendHasOutcome, Dispatched
<1>4. ClaimIsSingle'
  BY <1>2 DEF ClaimIsSingle
<1>5. LateIsLast'
  BY <1>1 DEF LateIsLast
<1> QED
  BY <1>1, <1>2, <1>3, <1>4, <1>5 DEF SynKept

\* One attempt of one segment: the only step that calls the provider.
LEMMA CallStep ==
  ASSUME SynthesisOK, NEW x \in Runners, CallProvider(x)
  PROVE  SynKept
<1> USE DEF SynthesisOK, SynTypeOK
<1> DEFINE e == [exec[x] EXCEPT !.called = TRUE]
<1>1. /\ exec[x].at = "call" /\ UNCHANGED <<job, review, message>>
      /\ bought' = IF exec[x].called THEN bought ELSE bought + 1
      /\ late' = IF Revoked THEN late + 1 ELSE late
  BY DEF CallProvider, Doing
<1>2. Dispatched
  BY <1>1, BegunIsDispatched
<1>3. exec[x] \in Executions /\ exec \in [Runners -> Executions]
  OBVIOUS
<1>a. e \in Executions /\ e.called = TRUE
  BY <1>3 DEF Executions
<1> HIDE DEF e
<1>4. /\ e \in Executions /\ e.called = TRUE
      /\ e.tries + 1 \in Nat /\ e.soft + 1 \in Nat /\ e.seg + 1 \in Nat
  BY <1>a DEF Executions
<1>5. ASSUME NEW f \in Executions, f.called = TRUE, f.at \in {"check", "error"},
             exec' = [exec EXCEPT ![x] = f]
      PROVE  \E at \in {"check", "error"} : Follows(x, at, TRUE)
  BY <1>3, <1>5 DEF Follows
<1>6. PICK at \in {"check", "error"} : Follows(x, at, TRUE)
  <2>1. CASE exec' = [exec EXCEPT ![x] =
                        [e EXCEPT !.at = "check", !.seg = e.seg + 1, !.tries = 0,
                                  !.soft = 0]]
    <3> DEFINE n == e.seg + 1
               f == [e EXCEPT !.at = "check", !.seg = n, !.tries = 0, !.soft = 0]
    <3>1. n \in Nat
      BY <1>4
    <3>2. exec' = [exec EXCEPT ![x] = f]
      BY <2>1
    <3> HIDE DEF n
    <3>3. f \in Executions /\ f.called = TRUE /\ f.at = "check"
      BY <1>4, <3>1 DEF Executions, ExecSteps
    <3> HIDE DEF f
    <3> QED
      BY <1>5, <3>2, <3>3
  <2>2. CASE exec' = [exec EXCEPT ![x] = Again(x, [e EXCEPT !.tries = e.tries + 1])]
    <3> DEFINE n == e.tries + 1
               f == [[e EXCEPT !.tries = n] EXCEPT !.at = "check"]
    <3>1. n \in Nat
      BY <1>4
    <3>2. exec' = [exec EXCEPT ![x] = f]
      BY <2>2 DEF Again
    <3> HIDE DEF n
    <3>3. f \in Executions /\ f.called = TRUE /\ f.at = "check"
      BY <1>4, <3>1 DEF Executions, ExecSteps
    <3> HIDE DEF f
    <3> QED
      BY <1>5, <3>2, <3>3
  <2>3. CASE exec' = [exec EXCEPT ![x] =
                        Again(x, [e EXCEPT !.tries = e.tries + 1, !.soft = e.soft + 1])]
    <3> DEFINE n == e.tries + 1
               m == e.soft + 1
               f == [[e EXCEPT !.tries = n, !.soft = m] EXCEPT !.at = "check"]
    <3>1. n \in Nat /\ m \in Nat
      BY <1>4
    <3>2. exec' = [exec EXCEPT ![x] = f]
      BY <2>3 DEF Again
    <3> HIDE DEF n, m
    <3>3. f \in Executions /\ f.called = TRUE /\ f.at = "check"
      BY <1>4, <3>1 DEF Executions, ExecSteps
    <3> HIDE DEF f
    <3> QED
      BY <1>5, <3>2, <3>3
  <2>4. CASE exec' = [exec EXCEPT ![x] = [e EXCEPT !.at = "error"]]
    <3> DEFINE f == [e EXCEPT !.at = "error"]
    <3>1. f \in Executions /\ f.called = TRUE /\ f.at = "error"
      BY <1>4 DEF Executions, ExecSteps
    <3>2. exec' = [exec EXCEPT ![x] = f]
      BY <2>4
    <3> HIDE DEF f
    <3> QED
      BY <1>5, <3>1, <3>2
  <2> QED
    BY <2>1, <2>2, <2>3, <2>4 DEF CallProvider, e
<1> USE DEF Follows
<1>7. \A y \in Runners : exec[y].at = "call" => y = x
  BY <1>1 DEF ClaimIsSingle
<1>8. /\ job.claimed # "none" /\ job.claim = x
      /\ ~exec[x].called => bought = 0
  BY <1>1 DEF ClaimIsSingle
<1>9. bought' \in {0, 1} /\ late = 0 /\ late' \in {0, 1}
  BY <1>1, <1>8 DEF LateIsLast
<1>10. UndispatchedIsIdle' /\ SendHasOutcome'
  BY <1>1, <1>2 DEF UndispatchedIsIdle, SendHasOutcome, Dispatched
<1>11. ClaimIsSingle'
  <2>1. \A y \in Runners : y # x => exec'[y].at \notin {"check", "call", "commit"}
    BY <1>6, <1>8 DEF ClaimIsSingle
  <2> QED
    BY <1>1, <1>6, <1>8, <2>1 DEF ClaimIsSingle
<1>12. LateIsLast'
  BY <1>1, <1>6, <1>7, <1>9 DEF LateIsLast, Revoked, Dispatched
<1> QED
  BY <1>1, <1>6, <1>9, <1>10, <1>11, <1>12 DEF SynKept, Revoked

\* A claim that another execution may not make ends in a disposal; else it is the
\* one claim.
LEMMA ClaimSynthesisStep ==
  ASSUME SynthesisOK, NEW x \in Runners, ClaimSynthesis(x)
  PROVE  SynKept
<1>0. /\ exec[x].at = "claim" /\ UNCHANGED <<review, message, bought, late>>
      /\ "check" \in ExecSteps /\ "dispose" \in ExecSteps
      /\ SynTypeOK /\ exec[x].called \in BOOLEAN
  BY DEF ClaimSynthesis, Doing, ExecSteps, SynthesisOK, SynTypeOK, Executions
<1>1. CASE StillBound /\ job.claimed = "none" /\ job.queue \in Dispatchable
  <2>1. /\ job' = [job EXCEPT !.claim = x, !.claimed = "started"]
        /\ Leads(x, "check")
    BY <1>1 DEF ClaimSynthesis
  <2>2. Follows(x, "check", exec[x].called)
    BY <1>0, <2>1, LeadsFacts
  <2> QED
    BY <1>0, <1>1, <2>1, <2>2, ClaimStep
<1>2. CASE ~(StillBound /\ job.claimed = "none" /\ job.queue \in Dispatchable)
  BY <1>0, <1>2, TransitionStep DEF ClaimSynthesis
<1> QED
  BY <1>1, <1>2

\* A message is taken from the queue.
LEMMA ReceiveStep ==
  ASSUME SynthesisOK, NEW x \in Runners, NEW m \in Messages, Receive(x, m)
  PROVE  SynKept
<1> USE DEF SynthesisOK, SynTypeOK
<1>1. Dispatched /\ UNCHANGED <<job, review, bought, late>>
  BY BegunIsDispatched DEF Receive
<1>2. message' \in [Messages -> Deliveries]
  <2>1. message[m] \in Deliveries /\ message[m].count + 1 \in Nat
    BY DEF Deliveries
  <2>2. message' = [message EXCEPT ![m] = [at |-> x, count |-> message[m].count + 1]]
    BY DEF Receive
  <2> QED
    BY <2>1, <2>2 DEF Deliveries
<1>3. \E at \in {"dispose", "lock"} : Follows(x, at, FALSE)
  <2> DEFINE at == IF job.runner = "completed" THEN "dispose" ELSE "lock"
             e == [IdleExec EXCEPT !.at = at, !.msg = m, !.sound = StillBound]
  <2>1. exec' = [exec EXCEPT ![x] = e]
    BY DEF Receive
  <2>2. StillBound \in BOOLEAN
    BY DEF StillBound, Jobs
  <2>3. e \in Executions /\ e.at \in {"dispose", "lock"} /\ e.called = FALSE
    BY <2>2 DEF IdleExec, Executions, ExecSteps
  <2> HIDE DEF e
  <2> QED
    BY <2>1, <2>3 DEF Follows
<1>4. PICK at \in {"dispose", "lock"} : Follows(x, at, FALSE)
  BY <1>3
<1>5. at \in ExecSteps
  BY DEF ExecSteps
<1> QED
  BY <1>1, <1>2, <1>4, <1>5, ExecutionStep

\* The steps of an execution that amend the manifest: the lock, the completion, the
\* record of an unknown outcome and of a failure.
LEMMA AmendStep ==
  ASSUME SynthesisOK, NEW x \in Runners, NEW at \in ExecSteps, Leads(x, at),
         exec[x].at # "idle", at \notin {"check", "call", "commit"},
         \/ job' = job
         \/ job' = [job EXCEPT !.lock = "audio"]
         \/ job' = [job EXCEPT !.runner = "failed"]
         \/ Claimed(x) /\ job' = [job EXCEPT !.claimed = "unknown"]
         \/ /\ Claimed(x) /\ job.approval = "approved"
            /\ job' = [job EXCEPT !.claimed = "completed", !.audio = TRUE,
                                  !.runner = "completed"],
         UNCHANGED <<review, message, bought, late>>
  PROVE  SynKept
<1>1. Dispatched
  BY BegunIsDispatched
<1>2. Follows(x, at, exec[x].called) /\ exec[x].called \in BOOLEAN
  BY LeadsFacts DEF SynthesisOK, SynTypeOK, Executions
<1>3. message' \in [Messages -> Deliveries]
  BY DEF SynthesisOK, SynTypeOK
<1>4. /\ job' \in Jobs /\ job'.queue = job.queue /\ job'.approval = job.approval
      /\ job'.claim = job.claim
  BY ZenonT(30) DEF SynthesisOK, SynTypeOK, Jobs
<1>5. job.claimed = "none" <=> job'.claimed = "none"
  BY DEF SynthesisOK, SynTypeOK, Jobs, Claimed
<1>6. Revoked => job'.audio = job.audio
  BY DEF SynthesisOK, SynTypeOK, Jobs, Revoked
<1> QED
  BY <1>1, <1>2, <1>3, <1>4, <1>5, <1>6, ExecutionStep

\* Every step of the decisions, the executions and their faults.
LEMMA SynthesisStep ==
  ASSUME SynthesisOK, SynNext \/ SynFault
  PROVE  SynKept
<1>0. SynTypeOK /\ message \in [Messages -> Deliveries]
  BY DEF SynthesisOK, SynTypeOK
<1>s. ExecSteps = {"idle", "lock", "claim", "check", "call", "commit", "read",
                   "dispose", "error", "fail", "keep"}
  BY DEF ExecSteps
<1>1. ASSUME NEW x \in Runners, ClaimAudioLock(x) PROVE SynKept
  <2>1. exec[x].at # "idle" /\ UNCHANGED <<review, message, bought, late>>
    BY <1>1 DEF ClaimAudioLock, Doing
  <2>2. PICK at \in {"dispose", "claim"} : Leads(x, at)
    BY <1>1 DEF ClaimAudioLock
  <2>3. job' = job \/ job' = [job EXCEPT !.lock = "audio"]
    BY <1>1 DEF ClaimAudioLock
  <2> QED
    BY <1>s, <2>1, <2>2, <2>3, AmendStep
<1>2. ASSUME NEW x \in Runners, BeforeProvider(x) PROVE SynKept
  <2>1. /\ exec[x].at = "check"
        /\ UNCHANGED <<job, review, message, bought, late>>
    BY <1>2 DEF BeforeProvider, Doing
  <2>2. PICK at \in {"error", "call", "commit"} :
          Leads(x, at) /\ (at = "call" => StillBound)
    BY <1>2 DEF BeforeProvider
  <2>3. at = "call" => ~Revoked
    BY <2>2 DEF StillBound, Revoked
  <2> QED
    BY <1>s, <2>1, <2>2, <2>3, TransitionStep
<1>3. ASSUME NEW x \in Runners, PutFails(x) \/ ReadBackFails(x) PROVE SynKept
  <2>1. /\ exec[x].at \in {"commit", "read"} /\ Leads(x, "error")
        /\ UNCHANGED <<job, review, message, bought, late>>
    BY <1>3 DEF PutFails, ReadBackFails, Doing
  <2> QED
    BY <1>s, <2>1, TransitionStep
<1>4. ASSUME NEW x \in Runners, ReadBack(x) \/ LockFails(x) PROVE SynKept
  <2>1. /\ exec[x].at \in {"read", "lock"} /\ Leads(x, "dispose")
        /\ UNCHANGED <<job, review, message, bought, late>>
    BY <1>4 DEF ReadBack, LockFails, Doing
  <2> QED
    BY <1>s, <2>1, TransitionStep
<1>5. ASSUME NEW x \in Runners, Complete(x) PROVE SynKept
  <2>1. exec[x].at # "idle" /\ UNCHANGED <<review, message, bought, late>>
    BY <1>5 DEF Complete, Doing
  <2>2. PICK at \in {"read", "error"} : Leads(x, at)
    BY <1>5 DEF Complete
  <2>3. \/ job' = job
        \/ /\ Claimed(x) /\ job.approval = "approved"
           /\ job' = [job EXCEPT !.claimed = "completed", !.audio = TRUE,
                                 !.runner = "completed"]
    BY <1>5 DEF Complete
  <2> QED
    BY <1>s, <2>1, <2>2, <2>3, AmendStep
<1>6. ASSUME NEW x \in Runners, MarkUnknown(x) PROVE SynKept
  <2>1. /\ exec[x].at # "idle" /\ UNCHANGED <<review, message, bought, late>>
        /\ Leads(x, "fail")
    BY <1>6 DEF MarkUnknown, Doing
  <2>3. job' = job \/ (Claimed(x) /\ job' = [job EXCEPT !.claimed = "unknown"])
    BY <1>6 DEF MarkUnknown
  <2> QED
    BY <1>s, <2>1, <2>3, AmendStep
<1>7. ASSUME NEW x \in Runners, RecordRunnerFailed(x) PROVE SynKept
  <2>1. /\ exec[x].at # "idle" /\ UNCHANGED <<review, message, bought, late>>
        /\ Leads(x, "keep") /\ job' = [job EXCEPT !.runner = "failed"]
    BY <1>7 DEF RecordRunnerFailed, Doing
  <2> QED
    BY <1>s, <2>1, AmendStep
<1>8. ASSUME NEW x \in Runners, Dispose(x) PROVE SynKept
  <2>1. /\ exec[x].at # "idle" /\ exec' = [exec EXCEPT ![x] = IdleExec]
        /\ UNCHANGED <<job, review, bought, late>>
    BY <1>8 DEF Dispose
  <2>2. message' \in [Messages -> Deliveries]
    <3>1. exec[x].msg \in Messages
      BY <1>0 DEF SynTypeOK, Executions
    <3>2. CASE message' = [message EXCEPT ![exec[x].msg].at = "gone"]
      BY <1>0, <3>1, <3>2 DEF Deliveries
    <3> QED
      BY <1>0, <1>8, <3>2 DEF Dispose
  <2> QED
    BY <2>1, <2>2, EndStep
<1>9. ASSUME NEW x \in Runners, RunnerDies(x) PROVE SynKept
  <2>1. /\ exec[x].at # "idle" /\ exec' = [exec EXCEPT ![x] = IdleExec]
        /\ UNCHANGED <<job, review, message, bought, late>>
    BY <1>9 DEF RunnerDies, Doing
  <2> QED
    BY <1>0, <2>1, EndStep
<1>10. ASSUME NEW x \in Runners, ClaimLost(x) PROVE SynKept
  <2>1. /\ exec[x].at # "idle" /\ exec' = [exec EXCEPT ![x] = IdleExec]
        /\ UNCHANGED <<review, message, bought, late>>
        /\ StillBound /\ job.claimed = "none"
        /\ job' = [job EXCEPT !.claim = x, !.claimed = "started"]
    BY <1>10 DEF ClaimLost, Doing
  <2>2. Follows(x, "idle", FALSE)
    BY <1>0, <2>1, RestFacts
  <2> QED
    BY <2>1, <2>2, ClaimStep
<1>11. ASSUME VideoTakesLock PROVE SynKept
  <2> USE DEF SynthesisOK, SynTypeOK, synVars
  <2>1. /\ job' = [job EXCEPT !.lock = "video"]
        /\ UNCHANGED <<review, exec, message, bought, late>>
    BY <1>11 DEF VideoTakesLock
  <2>2. /\ job' \in Jobs /\ job'.queue = job.queue /\ job'.approval = job.approval
        /\ job'.claimed = job.claimed /\ job'.claim = job.claim
        /\ job'.audio = job.audio
    BY <2>1 DEF Jobs
  <2>3. UndispatchedIsIdle' /\ SendHasOutcome' /\ ClaimIsSingle' /\ LateIsLast'
    BY <2>1, <2>2
       DEF UndispatchedIsIdle, SendHasOutcome, ClaimIsSingle, LateIsLast, Revoked,
           Dispatched
  <2> QED
    BY <2>1, <2>2, <2>3 DEF SynKept, Revoked
<1>12. ASSUME NEW m \in Messages, Reappear(m) \/ Requeue(m) PROVE SynKept
  <2> USE DEF SynthesisOK, SynTypeOK
  <2>1. /\ message' = [message EXCEPT ![m].at = "queued"]
        /\ UNCHANGED <<job, review, exec, bought, late>>
    BY <1>12 DEF Reappear, Requeue
  <2>2. Dispatched
    <3>1. Reappear(m) => message[m].at # "none"
      BY SynthesisAssumption DEF Reappear
    <3> QED
      BY <1>12, <3>1, BegunIsDispatched DEF Requeue
  <2>3. message' \in [Messages -> Deliveries]
    BY <2>1 DEF Deliveries
  <2>4. UndispatchedIsIdle' /\ SendHasOutcome' /\ ClaimIsSingle' /\ LateIsLast'
    BY <2>1, <2>2
       DEF UndispatchedIsIdle, SendHasOutcome, ClaimIsSingle, LateIsLast, Revoked,
           Dispatched
  <2> QED
    BY <2>1, <2>3, <2>4 DEF SynKept, Revoked
<1>13. ASSUME NEW r \in Reviewers, ReviewDies(r) PROVE SynKept
  <2> USE DEF SynthesisOK, SynTypeOK
  <2>1. /\ review' = [review EXCEPT ![r] = [at |-> "done", status |-> "none"]]
        /\ UNCHANGED <<job, exec, message, bought, late>>
    BY <1>13 DEF ReviewDies
  <2>2. /\ review' \in [Reviewers -> Decisions]
        /\ review'[r].at = "done"
        /\ \A q \in Reviewers : q # r => review'[q] = review[q]
    BY <2>1 DEF Decisions
  <2>4. UndispatchedIsIdle' /\ SendHasOutcome' /\ ClaimIsSingle' /\ LateIsLast'
    BY <2>1, <2>2
       DEF UndispatchedIsIdle, SendHasOutcome, ClaimIsSingle, LateIsLast, Revoked,
           Dispatched
  <2> QED
    BY <2>1, <2>2, <2>4 DEF SynKept, Revoked
<1>14. \A r \in Reviewers :
         RecordApproval(r) \/ RecordRejection(r) \/ SendDispatch(r) \/ FinishDispatch(r)
           => SynKept
  BY ApprovalStep, RejectionStep, SendStep, FinishDispatchStep
<1>15. \A x \in Runners :
         \/ \E m \in Messages : Receive(x, m)
         \/ ClaimSynthesis(x) \/ CallProvider(x)
         => SynKept
  BY ReceiveStep, ClaimSynthesisStep, CallStep
<1> QED
  BY <1>1, <1>2, <1>3, <1>4, <1>5, <1>6, <1>7, <1>8, <1>9, <1>10, <1>11, <1>12,
     <1>13, <1>14, <1>15 DEF SynNext, SynFault

-----------------------------------------------------------------------------
(* The theorems.                                                           *)

\* A step of the synthesis leaves the reservation alone, and the manifest staged.
LEMMA SynthesisReservation ==
  ASSUME LedgerOK, ReservationOK, OfJob,
         job'.queue = job.queue \/ (Reviewable /\ Reviewable')
  PROVE  LedgerOK' /\ ReservationOK'
<1> USE DEF OfJob, ReservationOK
<1>1. LedgerOK'
  BY DEF LedgerOK
<1>2. OneCallAtWork' /\ RetryGaveUp'
  BY DEF OneCallAtWork, RetryGaveUp
<1>3. StagedIsKept'
  BY DEF StagedIsKept, Staged, Reviewable
<1>4. StagesInOrder'
  BY DEF StagesInOrder, Reviewable
<1>5. StagedHasEntry' /\ ArrivedIsStaged'
  BY DEF StagedHasEntry, ArrivedIsStaged, Reviewable
<1> QED
  BY <1>1, <1>2, <1>3, <1>4, <1>5

\* The invariant, by the three parts that the steps work on.
LEMMA Parts == IInv <=> ScriptOK /\ LedgerOK /\ ReservationOK /\ SynthesisOK
  BY DEF IInv, GenTypeOK, ScriptOK, LedgerOK, ReservationOK, SynthesisOK

\* The invariant holds at the start.
LEMMA IInvInit == Init => IInv
<1> SUFFICES ASSUME Init PROVE IInv
  OBVIOUS
<1> USE DEF Init, GenInit
<1>1. ScriptOK
  BY NoDraftType DEF ScriptOK, ScriptIsChecked, AcceptedIsSound, Drafted, NoDraft
<1>2. LedgerOK
  BY DEF LedgerOK, CallStates, CallSteps
<1>3. job.queue = "none" /\ job \in Jobs
  BY DEF NoJob, Jobs, Queues
<1>4. ReservationOK
  BY <1>3
     DEF ReservationOK, OneCallAtWork, StagedIsKept, StagesInOrder, StagedHasEntry,
         ArrivedIsStaged, RetryGaveUp, Staged, Reviewable, Drawing, Staging
<1>5. IdleExec \in Executions /\ IdleExec.at = "idle"
  BY SynthesisAssumption DEF IdleExec, Executions, ExecSteps
<1>6. SynTypeOK
  BY <1>3, <1>5 DEF SynTypeOK, Decisions, Deliveries
<1>7. job.claimed = "none" /\ job.audio = FALSE
  BY DEF NoJob
<1>8. UndispatchedIsIdle /\ SendHasOutcome
  BY <1>5, <1>7 DEF UndispatchedIsIdle, SendHasOutcome
<1>9. ClaimIsSingle /\ LateIsLast
  BY <1>5, <1>7 DEF ClaimIsSingle, LateIsLast
<1> QED
  BY <1>1, <1>2, <1>4, <1>6, <1>8, <1>9, Parts DEF SynthesisOK

\* What every step must keep: the invariant, and a revocation.
Kept == IInv' /\ (Revoked => job'.approval = "rejected" /\ job'.audio = job.audio)

\* Every step keeps the invariant, and a revocation.
LEMMA IInvStep == IInv /\ [Next]_vars => Kept
<1> SUFFICES ASSUME IInv, [Next]_vars PROVE Kept
  OBVIOUS
<1>0. /\ ScriptOK /\ LedgerOK /\ ReservationOK /\ SynthesisOK
      /\ job \in Jobs
  BY Parts DEF SynthesisOK, SynTypeOK
<1>p. ScriptOK' /\ LedgerOK' /\ ReservationOK' /\ SynthesisOK' => IInv'
  BY Parts, PTL
<1>1. ASSUME GenNext \/ GenFault, UNCHANGED synVars PROVE Kept
  <2>1. /\ LedgerOK' /\ ReservationOK'
        /\ \/ job' = job
           \/ /\ job.queue = "none" /\ job' \in Jobs
              /\ job'.queue = "staging" /\ job'.claimed = "none" /\ ~job'.audio
           \/ /\ job.queue = "staging"
              /\ job' = [job EXCEPT !.queue = "awaiting_review"]
    BY <1>0, <1>1, GenReservation
  <2>2. ScriptOK'
    BY <1>0, <1>1, GenScript
  <2>3. SynthesisOK'
    BY <1>0, <1>1, <2>1, GenSynthesis
  <2>4. Revoked => job' = job
    BY <2>1 DEF Revoked, Dispatched, Dispatchable
  <2> QED
    BY <1>p, <2>1, <2>2, <2>3, <2>4 DEF Kept, Revoked
<1>2. ASSUME SynNext \/ SynFault, OfJob PROVE Kept
  <2>1. SynKept
    BY <1>0, <1>2, SynthesisStep
  <2>2. LedgerOK' /\ ReservationOK'
    BY <1>0, <1>2, <2>1, SynthesisReservation DEF SynKept
  <2>3. ScriptOK'
    BY <1>0, <1>2 DEF OfJob, ScriptOK, ScriptIsChecked, AcceptedIsSound, Drafted
  <2> QED
    BY <1>p, <2>1, <2>2, <2>3 DEF Kept, SynKept
<1>3. ASSUME UNCHANGED vars PROVE Kept
  <2>1. UNCHANGED <<draft, call, reserved, slot, receipt, job>> /\ UNCHANGED synVars
    BY <1>3 DEF vars, genVars
  <2>2. ScriptOK'
    BY <1>0, <2>1 DEF ScriptOK, ScriptIsChecked, AcceptedIsSound, Drafted
  <2>3. LedgerOK' /\ ReservationOK'
    BY <1>0, <2>1
       DEF LedgerOK, ReservationOK, OneCallAtWork, StagedIsKept, StagesInOrder,
           StagedHasEntry, ArrivedIsStaged, RetryGaveUp, Staged, Reviewable
  <2>4. SynthesisOK'
    BY <1>0, <2>1, GenSynthesis
  <2> QED
    BY <1>p, <2>1, <2>2, <2>3, <2>4 DEF Kept, Revoked
<1> QED
  BY <1>1, <1>2, <1>3 DEF Next

\* However the calls, decisions, executions and faults interleave, the reservation,
\* the manifest, the claim and the counters stay consistent with each other.
THEOREM SynthesisInductive == Spec => []IInv
<1>1. IInv /\ [Next]_vars => IInv'
  BY IInvStep DEF Kept
<1> QED
  BY <1>1, IInvInit, PTL DEF Spec

\* A job that may be reviewed holds its replay inputs and its entry in the ledger,
\* and a call that is told to retry has given its reservation up.
THEOREM HonestReservation == Spec => []ReservationIsHonest
<1>1. IInv => ReservationIsHonest
  BY DEF IInv, ReservationIsHonest, StagedIsKept, StagedHasEntry, ArrivedIsStaged,
         RetryGaveUp, Staged, Reviewable, At
<1> QED
  BY <1>1, SynthesisInductive, PTL

\* A script is accepted only in its length and with nothing flagged in the modes
\* that look at the gate.
THEOREM SoundScript == Spec => []AcceptedIsSound
<1>1. IInv => AcceptedIsSound
  BY DEF IInv
<1> QED
  BY <1>1, SynthesisInductive, PTL

\* At most one execution ever calls the paid provider for a job.
THEOREM OneBuyer == Spec => []TtsByOne
<1>1. IInv => TtsByOne
  BY DEF IInv, SynTypeOK, TtsByOne
<1> QED
  BY <1>1, SynthesisInductive, PTL

\* After a revocation at most the attempt that had passed its check reaches the
\* provider.
THEOREM LateOnce == Spec => []RevocationStopsCalls
<1>1. IInv => RevocationStopsCalls
  BY DEF IInv, SynTypeOK, RevocationStopsCalls
<1> QED
  BY <1>1, SynthesisInductive, PTL

\* A revoked dispatch is never approved again, and completes nothing.
THEOREM RevocationStands == Spec => RevokedStaysRevoked
<1>1. IInv /\ [Next]_vars
        => [Revoked => job'.approval = "rejected" /\ job'.audio = job.audio]_job
  BY IInvStep DEF Kept
<1> QED
  BY <1>1, SynthesisInductive, PTL DEF Spec, RevokedStaysRevoked

=============================================================================
