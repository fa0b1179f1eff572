------------------------------ MODULE Evidence ------------------------------
(***************************************************************************)
(* The publication evidence of one job (podcaster/publication_state.py):   *)
(* an append-only document of records, each write one conditional update.  *)
(* A ledger here is the sequence of the records that one publication       *)
(* identity has for one platform and media kind: the decisions of the code *)
(* never read the others.  Operators only; Publish holds the ledger.       *)
(***************************************************************************)
EXTENDS Naturals, Sequences, FiniteSetsExt, SequencesExt

CONSTANT NoItem  \* a record without provider_artifact_id

\* The items of a provider are numbered.
ASSUME EvidenceAssumption == NoItem \notin Nat

\* A record: its operation and outcome, the provider item it names, whether it
\* blocks a retry, and for a claim the episode ids listed before the create.
Record(op, outcome, item, blocked, snapshot) ==
  [op |-> op, outcome |-> outcome, item |-> item, blocked |-> blocked,
   snapshot |-> snapshot]

NoSnapshot == {NoItem}

\* REARMABLE_CLAIM_OPERATIONS
Claims == {"upload_intent", "create_episode_intent"}

\* The records with the idempotency key of r.
Duplicates(log, r) ==
  {i \in DOMAIN log :
     log[i].op = r.op /\ log[i].outcome = r.outcome /\ log[i].item = r.item}

\* The records after the last of these.
Later(log, indices) == {i \in DOMAIN log : \A j \in indices : j < i}

\* append_evidence: a duplicate changes nothing, unless it authorizes a retry
\* and a claim was made since.
Appended(log, r) ==
  LET same == Duplicates(log, r)
      repeated == same # {} /\ (r.blocked \/ \A i \in Later(log, same) : log[i].op \notin Claims)
  IN IF repeated THEN log ELSE Append(log, r)

\* Mutant: any later record arms the claim again, one that blocks a retry too.
ClaimedAnyway(log, r) ==
  LET same == Duplicates(log, r)
      armed == Later(log, same) # {} /\ Last(log).op \notin Claims
  IN IF same # {} /\ ~armed THEN log ELSE Append(log, r)

\* claim_evidence: a claim is made once, and once more after every later record
\* that authorizes a retry.
Claimed(log, r) ==
  LET same == Duplicates(log, r)
      armed == Later(log, same) # {} /\ Last(log).op \notin Claims /\ ~Last(log).blocked
  IN IF same # {} /\ ~armed THEN log ELSE Append(log, r)

\* retry_is_blocked, and spotify_video_retry_is_blocked, whose exception is for records
\* of an older form: every outcome written here is a blocking one.
RetryIsBlocked(log) == log # <<>> /\ Last(log).blocked

\* A provider id, or a definite rejection, says what became of a create.
Resolves(r) ==
  r.item # NoItem \/ r.op = "create_episode_failure"

\* _spotify_video_unresolved_create_intent_snapshot: the claims whose outcome
\* is not known.
UnresolvedClaims(log) ==
  {i \in DOMAIN log :
     /\ log[i].op = "create_episode_intent"
     /\ \A j \in i+1..Len(log) : ~Resolves(log[j])}

UnresolvedSnapshot(log) ==
  IF UnresolvedClaims(log) = {} THEN NoSnapshot
  ELSE log[Max(UnresolvedClaims(log))].snapshot
=============================================================================
