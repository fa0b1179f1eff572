---------------------------- MODULE PublishProofs ----------------------------
(***************************************************************************)
(* Proofs about Publish, for every number of attempts, items and faults.   *)
(***************************************************************************)
EXTENDS Publish, SequenceTheorems, FiniteSetTheorems, TLAPS

-----------------------------------------------------------------------------
(* The inductive invariant.                                                *)

AttemptSteps == {"new", "list", "claim", "survey", "post", "recover", "reject", "record",
                 "title", "upload", "describe", "confirm", "finish", "ended"}

\* Between the claim and the moment the create is answered, refused or given up.
Gate == {"survey", "post", "recover", "reject"}
BeforeCreate == {"survey", "post", "reject"}
WithItem == {"record", "title", "upload", "describe", "confirm"}

Results == {"create_episode", "reconcile_episode", "create_episode_failure",
            "create_episode_failure_fence", "credential_failure", "provider_mutation_failure",
            "distribution", "draft_setup", "publish", "operator_retry_rearm"}
Outcomes == {"unknown", "draft", "handoff", "uploaded", "published"}

Known == Nat \cup {NoItem}

Records == [op : Results \cup Claims, outcome : Outcomes, item : Known, blocked : BOOLEAN,
            snapshot : SUBSET Known]

Items == [by : Attempts \cup {Nobody}, state : {"late", "untitled", "titled"}, live : BOOLEAN]

Jobs == [at : AttemptSteps, item : Known, owes : BOOLEAN, snap : SUBSET Known,
         pending : SUBSET Known, reads : {0, 1}, op : Results \cup {""},
         outcome : Outcomes \cup {""}]

\* The items there are, and the absence of one.
Listed == (1..Len(items)) \cup {NoItem}

\* What an attempt holds exists, and what it will call published is live.
AttemptOK(x) ==
  /\ At(x, "list") => scope = "video"
  /\ At(x, "survey") => scope = "audio"
  /\ At(x, "recover") => scope # "youtube"
  /\ job[x].at \in WithItem => job[x].item \in 1..Len(items)
  /\ job[x].item \in Listed /\ job[x].snap \subseteq Listed
  /\ scope = "video" => NoItem \notin job[x].snap
  /\ At(x, "reject") => job[x].op \in Results /\ job[x].outcome \in Outcomes \ {"published"}
  /\ At(x, "finish") =>
       /\ job[x].op \in Results /\ job[x].outcome \in Outcomes
       /\ job[x].outcome = "published" =>
            job[x].item \in 1..Len(items) /\ items[job[x].item].live

ClaimOp == IF scope = "youtube" THEN "upload_intent" ELSE "create_episode_intent"

\* The same of a record.  Claims have one key, and a claim blocks a retry unless its
\* listing is to find the draft.
RecordOK(r) ==
  /\ r.item \in Listed /\ r.snapshot \subseteq Listed
  /\ r.op \in Claims =>
       /\ r.op = ClaimOp /\ r.outcome = "unknown" /\ r.item = NoItem
       /\ r.blocked = (scope # "video")
       /\ scope = "video" => NoItem \notin r.snapshot
  /\ r.outcome = "published" => r.item \in 1..Len(items) /\ items[r.item].live

StateOK ==
  /\ scope \in {"youtube", "video", "audio"}
  /\ log \in Seq(Records) /\ items \in Seq(Items) /\ job \in [Attempts -> Jobs]
  /\ \A x \in Attempts : AttemptOK(x)
  /\ \A n \in 1..Len(log) : RecordOK(log[n])

\* No claim can be made: there is one, and nothing since that authorizes another.
Closed(l) ==
  /\ \E n \in 1..Len(l) : l[n].op \in Claims
  /\ Last(l).op \in Claims \/ Last(l).blocked

\* There is nothing but the item of this attempt's own create.
OnlyOf(x) == \A i, j \in Own : i = j /\ items[i].by = x

\* One attempt made all there is: one item, or two drafts of a video.
Made ==
  /\ \A i, j \in Own : items[i].by = items[j].by
  /\ \A i, j, k \in Own : i = j \/ j = k \/ i = k
  /\ scope # "video" => \A i, j \in Own : i = j

OneCreates ==
  /\ \A x, y \in Attempts : job[x].at \in Gate /\ job[y].at \in Gate => x = y
  /\ \A x \in Attempts : job[x].at \in Gate => Closed(log)
  /\ \A x \in Attempts : job[x].at \in BeforeCreate => Own = {}
  /\ \A x \in Attempts : At(x, "recover") => OnlyOf(x)

\* The items of this publication are of one attempt, close the claims, and are new since
\* the listing of the last claim.
OwnIsKnown ==
  /\ Made
  /\ Own # {} => Closed(log)
  /\ \A i \in Own : Last(log).op \in Claims => i \notin Last(log).snapshot

IInv == StateOK /\ OneCreates /\ OwnIsKnown

-----------------------------------------------------------------------------
(* The ledger.                                                             *)

\* A finite set of numbers has a greatest one: the one with the fewest above it.
LEMMA MaxIsThere ==
  ASSUME NEW n \in Nat, NEW S \in SUBSET (1..n), S # {}
  PROVE  Max(S) \in S
<1> DEFINE Above(t) == {u \in S : u > t}
           T == {Above(t) : t \in S}
           R == StrictSubsetOrdering(S)
<1>1. IsFiniteSet(1..n)
  BY FS_Interval
<1>2. IsFiniteSet(S)
  BY <1>1, FS_Subset
<1>3. IsWellFoundedOn(R, FiniteSubsetsOf(S))
  BY <1>2, FS_StrictSubsetOrderingWellFounded
<1>4. T \subseteq FiniteSubsetsOf(S) /\ T # {}
  <2>1. \A t \in S : Above(t) \in SUBSET S
    OBVIOUS
  <2>2. \A t \in S : Above(t) \in FiniteSubsetsOf(S)
    BY <1>2, <2>1, FS_FiniteSubsetsOfFinite
  <2> QED
    BY <2>2
<1>5. PICK A \in T : \A B \in T : <<B, A>> \notin R
  <2> HIDE DEF T, R
  <2> QED
    BY <1>3, <1>4, WFMin
<1>6. PICK m \in S : A = Above(m)
  OBVIOUS
<1>7. \A t \in S : m >= t
  <2> SUFFICES ASSUME NEW t \in S, t > m
               PROVE  FALSE
    <3> HIDE DEF T, R, Above
    <3>1. \A t \in S : t \in Nat /\ m \in Nat
      OBVIOUS
    <3> QED
      BY <3>1
  <2>1. Above(t) \subseteq Above(m) /\ Above(t) # Above(m) /\ Above(t) \in T
    <3> HIDE DEF R
    <3>1. \A u \in S : u \in Nat
      OBVIOUS
    <3>2. \A u \in S : u > t => u > m
      BY <3>1
    <3>3. t \in Above(m) /\ t \notin Above(t)
      BY <3>1
    <3> QED
      BY <3>2, <3>3
  <2>2. <<Above(t), Above(m)>> \in R
    BY <2>1 DEF StrictSubsetOrdering
  <2> QED
    BY <1>5, <1>6, <2>1, <2>2
<1> QED
  BY <1>7 DEF Max

\* An element of a ledger is a record.
LEMMA RecordType ==
  ASSUME NEW l \in Seq(Records), NEW n \in 1..Len(l)
  PROVE  l[n] \in Records
  BY ElementOfSeq

\* What appending a record does.
LEMMA AppendRecord ==
  ASSUME NEW l \in Seq(Records), NEW r \in Records
  PROVE  /\ Append(l, r) \in Seq(Records)
         /\ Len(Append(l, r)) = Len(l) + 1 /\ Len(l) \in Nat
         /\ \A n \in 1..Len(l) : Append(l, r)[n] = l[n]
         /\ Append(l, r)[Len(l) + 1] = r
         /\ Last(Append(l, r)) = r
  BY AppendProperties, LenProperties DEF Last

\* append_evidence writes the record, or nothing.
LEMMA AppendedIs ==
  ASSUME NEW l, NEW r
  PROVE  Appended(l, r) = l \/ Appended(l, r) = Append(l, r)
  BY DEF Appended

\* A blocking record is not written twice.
LEMMA AppendedOnce ==
  ASSUME NEW l, NEW r, r.blocked, Duplicates(l, r) # {}
  PROVE  Appended(l, r) = l
  BY DEF Appended

\* A claim is written only where no claim closes the ledger.
LEMMA ClaimedIs ==
  ASSUME NEW l \in Seq(Records), NEW r,
         \A n \in 1..Len(l) : l[n].op \in Claims => n \in Duplicates(l, r)
  PROVE  Claimed(l, r) = l \/ (Claimed(l, r) = Append(l, r) /\ ~Closed(l))
<1> SUFFICES ASSUME Closed(l)
             PROVE  Claimed(l, r) = l
  BY DEF Claimed
<1>1. Duplicates(l, r) # {}
  BY LenProperties DEF Closed
<1> QED
  BY <1>1 DEF Claimed, Closed

\* A ledger stays closed by a record that claims, or blocks.
LEMMA StaysClosed ==
  ASSUME NEW l \in Seq(Records), NEW r \in Records,
         Closed(l) \/ r.op \in Claims, r.op \in Claims \/ r.blocked
  PROVE  Closed(Append(l, r))
<1> DEFINE k == Append(l, r)
<1>1. /\ Len(k) = Len(l) + 1 /\ Len(l) \in Nat
      /\ \A n \in 1..Len(l) : k[n] = l[n]
      /\ k[Len(l) + 1] = r /\ Last(k) = r
  BY AppendRecord
<1>2. \E n \in 1..Len(k) : k[n].op \in Claims
  <2> HIDE DEF k
  <2>1. CASE Closed(l)
    <3>1. PICK n \in 1..Len(l) : l[n].op \in Claims
      BY <2>1 DEF Closed
    <3>2. n \in 1..Len(k) /\ k[n].op \in Claims
      BY <1>1, <3>1
    <3> QED
      BY <3>2
  <2>2. CASE r.op \in Claims
    <3>1. Len(l) + 1 \in 1..Len(k) /\ k[Len(l) + 1].op \in Claims
      BY <1>1, <2>2
    <3> QED
      BY <3>1
  <2> QED
    BY <2>1, <2>2
<1>3. Closed(k)
  <2> HIDE DEF k
  <2> QED
    BY <1>1, <1>2 DEF Closed
<1> QED
  BY <1>3

-----------------------------------------------------------------------------
(* The items.                                                              *)

\* Items are numbered once, keep who made them, and stay live.
ItemsGrow ==
  /\ items' \in Seq(Items) /\ Len(items) \in Nat /\ Len(items') \in Nat
  /\ Len(items) <= Len(items')
  /\ \A i \in 1..Len(items) :
       /\ items'[i].by = items[i].by
       /\ items[i].live => items'[i].live

\* An item is one.
LEMMA ItemType ==
  ASSUME items \in Seq(Items), NEW i \in 1..Len(items)
  PROVE  items[i] \in Items
  BY ElementOfSeq

\* The items of this publication, by their numbers.
LEMMA OwnIs ==
  ASSUME items \in Seq(Items)
  PROVE  Own = {i \in 1..Len(items) : items[i].by # Nobody}
  BY LenProperties DEF Own

\* Nothing happens to the items.
LEMMA SameItems ==
  ASSUME items \in Seq(Items), items' = items
  PROVE  ItemsGrow /\ Own' = Own /\ Len(items') = Len(items)
  BY LenProperties DEF ItemsGrow, Own

\* One item changes its state or goes live.
LEMMA ChangeItem ==
  ASSUME items \in Seq(Items), NEW i \in 1..Len(items), NEW r \in Items,
         items' = [items EXCEPT ![i] = r],
         r.by = items[i].by, items[i].live => r.live
  PROVE  /\ ItemsGrow /\ Own' = Own /\ Len(items') = Len(items)
<1>1. /\ items' \in Seq(Items)
      /\ Len(items') = Len(items)
      /\ \A j \in 1..Len(items) : items'[j] = IF j = i THEN r ELSE items[j]
  BY ExceptSeq
<1>2. Len(items) \in Nat
  BY LenProperties
<1>3. \A j \in 1..Len(items) : items'[j].by = items[j].by
  BY <1>1
<1>4. Own = {j \in 1..Len(items) : items[j].by # Nobody}
  BY OwnIs
<1>5. Own' = {j \in 1..Len(items') : items'[j].by # Nobody}
  BY <1>1, LenProperties DEF Own
<1> QED
  BY <1>1, <1>2, <1>3, <1>4, <1>5 DEF ItemsGrow

\* An item is made: it is the newest, and this publication's if an attempt made it.
LEMMA AppendItem ==
  ASSUME items \in Seq(Items), NEW r \in Items, items' = Append(items, r), ~r.live
  PROVE  /\ ItemsGrow /\ Len(items') = Len(items) + 1 /\ Len(items) \in Nat
         /\ items'[Len(items) + 1] = r
         /\ Own' = IF r.by = Nobody THEN Own ELSE Own \cup {Len(items) + 1}
<1>1. /\ items' \in Seq(Items)
      /\ Len(items') = Len(items) + 1
      /\ \A j \in 1..Len(items) : items'[j] = items[j]
      /\ items'[Len(items) + 1] = r
  BY AppendProperties
<1>2. Len(items) \in Nat
  BY LenProperties
<1>3. Own = {j \in 1..Len(items) : items[j].by # Nobody}
  BY OwnIs
<1>4. Own' = {j \in 1..Len(items') : items'[j].by # Nobody}
  BY <1>1, LenProperties DEF Own
<1>5. 1..Len(items') = (1..Len(items)) \cup {Len(items) + 1}
  BY <1>1, <1>2
<1>6. Own' = IF r.by = Nobody THEN Own ELSE Own \cup {Len(items) + 1}
  BY <1>1, <1>3, <1>4, <1>5
<1> QED
  BY <1>1, <1>2, <1>6 DEF ItemsGrow

\* What is known of an attempt or a record stays true while the items grow.
LEMMA AttemptStays ==
  ASSUME ItemsGrow, scope' = scope, NEW x \in Attempts, AttemptOK(x), job'[x] = job[x]
  PROVE  AttemptOK(x)'
<1>1. 1..Len(items) \subseteq 1..Len(items')
  BY DEF ItemsGrow
<1> QED
  BY <1>1 DEF ItemsGrow, AttemptOK, At, Listed

LEMMA RecordStays ==
  ASSUME ItemsGrow, scope' = scope, NEW r, RecordOK(r)
  PROVE  RecordOK(r)'
<1>1. 1..Len(items) \subseteq 1..Len(items')
  BY DEF ItemsGrow
<1> QED
  BY <1>1 DEF ItemsGrow, RecordOK, Listed, ClaimOp

-----------------------------------------------------------------------------
(* The step of an attempt that leaves, or stays in, the gate.              *)

\* It writes nothing, or one record that blocks.
LogGrows ==
  \/ log' = log
  \/ \E r \in Records :
       /\ log' = Append(log, r) /\ r.op \notin Claims /\ r.blocked
       /\ r.item \in Listed' /\ r.snapshot \subseteq Listed'
       /\ r.outcome = "published" => r.item \in 1..Len(items') /\ items'[r.item].live

\* The ledger after such a step, or after any record that is no claim.
LEMMA LogAppends ==
  ASSUME StateOK, ItemsGrow, scope' = scope, NEW r \in Records, log' = Append(log, r),
         RecordOK(r)'
  PROVE  /\ log' \in Seq(Records)
         /\ \A n \in 1..Len(log') : RecordOK(log[n])'
<1>1. /\ log' \in Seq(Records)
      /\ Len(log') = Len(log) + 1 /\ Len(log) \in Nat
      /\ \A n \in 1..Len(log) : log'[n] = log[n]
      /\ log'[Len(log) + 1] = r
  BY AppendRecord DEF StateOK
<1>2. SUFFICES ASSUME NEW n \in 1..Len(log')
               PROVE  RecordOK(log[n])'
  BY <1>1
<1>3. CASE n \in 1..Len(log)
  <2>1. RecordOK(log[n]) /\ log'[n] = log[n]
    BY <1>1, <1>3 DEF StateOK
  <2>2. 1..Len(items) \subseteq 1..Len(items')
    BY DEF ItemsGrow
  <2> QED
    BY <2>1, <2>2 DEF ItemsGrow, RecordOK, Listed, ClaimOp
<1>4. CASE n = Len(log) + 1
  <2>1. log'[n] = r
    BY <1>1, <1>4
  <2> QED
    BY <2>1
<1> QED
  BY <1>1, <1>2, <1>3, <1>4

LEMMA LogStays ==
  ASSUME StateOK, ItemsGrow, scope' = scope, log' = log
  PROVE  /\ log' \in Seq(Records)
         /\ \A n \in 1..Len(log') : RecordOK(log[n])'
<1>1. log' \in Seq(Records)
  BY DEF StateOK
<1>2. SUFFICES ASSUME NEW n \in 1..Len(log')
               PROVE  RecordOK(log[n])'
  BY <1>1
<1>3. RecordOK(log[n]) /\ log'[n] = log[n]
  BY DEF StateOK
<1>4. 1..Len(items) \subseteq 1..Len(items')
  BY DEF ItemsGrow
<1> QED
  BY <1>3, <1>4 DEF ItemsGrow, RecordOK, Listed, ClaimOp

LEMMA LogKept ==
  ASSUME StateOK, ItemsGrow, scope' = scope, LogGrows
  PROVE  /\ log' \in Seq(Records)
         /\ \A n \in 1..Len(log') : RecordOK(log[n])'
         /\ Closed(log) => Closed(log')
         /\ Last(log').op \in Claims => log' = log
<1>1. CASE log' = log
  BY <1>1, LogStays
<1>2. CASE \E r \in Records :
             /\ log' = Append(log, r) /\ r.op \notin Claims /\ r.blocked
             /\ r.item \in Listed' /\ r.snapshot \subseteq Listed'
             /\ r.outcome = "published" => r.item \in 1..Len(items') /\ items'[r.item].live
  <2>1. PICK r \in Records :
             /\ log' = Append(log, r) /\ r.op \notin Claims /\ r.blocked
             /\ r.item \in Listed' /\ r.snapshot \subseteq Listed'
             /\ r.outcome = "published" => r.item \in 1..Len(items') /\ items'[r.item].live
    BY <1>2
  <2>2. RecordOK(r)'
    BY <2>1 DEF RecordOK
  <2>3. log \in Seq(Records)
    BY DEF StateOK
  <2>4. Closed(log) => Closed(log')
    BY <2>1, <2>3, StaysClosed
  <2>5. Last(log').op \notin Claims
    BY <2>1, <2>3, AppendRecord
  <2> QED
    BY <2>1, <2>2, <2>4, <2>5, LogAppends
<1> QED
  BY <1>1, <1>2 DEF LogGrows

\* Items keep who made them.
LEMMA SameMakers ==
  ASSUME items \in Seq(Items), ItemsGrow
  PROVE  \A i \in Own : items'[i].by = items[i].by
  BY OwnIs DEF ItemsGrow

\* Where no item is made, what there is stays of one attempt.
LEMMA StaysMade ==
  ASSUME items \in Seq(Items), ItemsGrow, scope' = scope, Own' = Own, Made
  PROVE  Made'
<1>1. \A i \in Own : items'[i].by = items[i].by
  BY SameMakers
<1> QED
  BY <1>1 DEF Made

\* The conditions under which a step of one attempt keeps the invariant.
Moves(x) ==
  /\ scope' = scope /\ ItemsGrow /\ LogGrows
  /\ job' \in [Attempts -> Jobs] /\ AttemptOK(x)'
  /\ \A y \in Attempts \ {x} : job'[y] = job[y]
  /\ Own' = Own \/ (job[x].at \in Gate /\ \E i \in 1..Len(items') \ 1..Len(items) :
                                             Own' = Own \cup {i})
  /\ Made'
  /\ job'[x].at \in Gate => job[x].at \in Gate
  /\ job'[x].at \in BeforeCreate => Own' = {}
  /\ job'[x].at = "recover" => OnlyOf(x)'

LEMMA MovesKeep ==
  ASSUME IInv, NEW x \in Attempts, Moves(x)
  PROVE  IInv'
<1> USE DEF Moves
<1>1. StateOK'
  <2>1. \A y \in Attempts : AttemptOK(y)'
    BY AttemptStays DEF IInv, StateOK
  <2>2. /\ log' \in Seq(Records)
        /\ \A n \in 1..Len(log') : RecordOK(log[n])'
    BY LogKept DEF IInv
  <2> QED
    BY <2>1, <2>2 DEF IInv, StateOK, ItemsGrow
<1>2. Closed(log) => Closed(log')
  BY LogKept DEF IInv
<1>3. \A y \in Attempts \ {x} : job'[y].at \in Gate => Own' = Own
  BY DEF IInv, OneCreates
<1>4. (\A y, z \in Attempts : job[y].at \in Gate /\ job[z].at \in Gate => y = z)'
  BY DEF IInv, OneCreates
<1>5. (\A y \in Attempts : job[y].at \in Gate => Closed(log))'
  BY <1>2 DEF IInv, OneCreates
<1>6. (\A y \in Attempts : job[y].at \in BeforeCreate => Own = {})'
  BY <1>3 DEF IInv, OneCreates, BeforeCreate, Gate
<1>7. ASSUME NEW y \in Attempts, At(y, "recover")'
      PROVE  OnlyOf(y)'
  <2>1. CASE y = x
    BY <1>7, <2>1 DEF At
  <2>2. CASE y # x
    <3>1. At(y, "recover") /\ job'[y] = job[y]
      BY <1>7, <2>2 DEF At
    <3>2. OnlyOf(y) /\ Own' = Own
      BY <1>3, <1>7, <2>2, <3>1 DEF IInv, OneCreates, At, Gate
    <3> QED
      BY <3>2, SameMakers DEF OnlyOf, IInv, StateOK
  <2> QED
    BY <2>1, <2>2
<1>8. Own' # {} => Closed(log')
  BY <1>2 DEF IInv, OwnIsKnown, OneCreates
<1>9. ASSUME NEW i \in Own', Last(log').op \in Claims
      PROVE  i \notin Last(log').snapshot
  <2>1. log' = log
    BY <1>9, LogKept DEF IInv
  <2>2. CASE i \in Own
    BY <1>9, <2>1, <2>2 DEF IInv, OwnIsKnown
  <2>3. CASE i \notin Own
    <3>1. i \in 1..Len(items') \ 1..Len(items)
      BY <1>9, <2>3
    <3>2. Closed(log) /\ log \in Seq(Records)
      BY <2>3, <1>9 DEF IInv, StateOK, OneCreates
    <3>3. Len(log) \in 1..Len(log)
      BY <3>2, LenProperties DEF Closed
    <3>4. Last(log).snapshot \subseteq Listed
      BY <3>3 DEF IInv, StateOK, RecordOK, Last
    <3>5. i # NoItem
      BY <3>1, EvidenceAssumption DEF ItemsGrow
    <3> QED
      BY <2>1, <3>1, <3>4, <3>5 DEF Listed
  <2> QED
    BY <2>2, <2>3
<1>10. OneCreates'
  BY <1>4, <1>5, <1>6, <1>7 DEF OneCreates
<1>11. OwnIsKnown'
  BY <1>8, <1>9 DEF OwnIsKnown
<1> QED
  BY <1>1, <1>10, <1>11 DEF IInv

-----------------------------------------------------------------------------
(* What a step makes of an attempt.                                        *)

LEMMA SetJob ==
  ASSUME StateOK, NEW x \in Attempts, NEW r \in Jobs, job' = [job EXCEPT ![x] = r]
  PROVE  /\ job' \in [Attempts -> Jobs] /\ job'[x] = r
         /\ \A y \in Attempts \ {x} : job'[y] = job[y]
  BY DEF StateOK

LEMMA JobType ==
  ASSUME StateOK, NEW x \in Attempts
  PROVE  job[x] \in Jobs /\ AttemptOK(x) /\ Listed \subseteq Known /\ Len(items) \in Nat
  BY LenProperties DEF StateOK, Listed, Known

\* A new attempt and an ended one.
LEMMA NewJobType ==
  /\ NewJob \in Jobs /\ NewJob.at = "new" /\ NewJob.snap = {} /\ NewJob.item = NoItem
  /\ Ended \in Jobs /\ Ended.at = "ended" /\ Ended.snap = {} /\ Ended.item = NoItem
  BY DEF NewJob, Ended, Jobs, AttemptSteps, Known, NoSnapshot

\* The step leaves the gate, or was not in it.
LEMMA Leaves ==
  ASSUME IInv, NEW x \in Attempts, scope' = scope, ItemsGrow, LogGrows, Own' = Own,
         NEW r \in Jobs, job' = [job EXCEPT ![x] = r], AttemptOK(x)',
         r.at \notin Gate
  PROVE  Moves(x)
<1>1. /\ job' \in [Attempts -> Jobs] /\ job'[x] = r
      /\ \A y \in Attempts \ {x} : job'[y] = job[y]
  BY SetJob DEF IInv
<1>2. Made'
  BY StaysMade DEF IInv, StateOK, OwnIsKnown
<1> QED
  BY <1>1, <1>2 DEF Moves, Gate, BeforeCreate

\* The same of a step that only looks.
LEMMA LooksOnly ==
  ASSUME IInv, NEW x \in Attempts, scope' = scope, items' = items, log' = log,
         NEW r \in Jobs, job' = [job EXCEPT ![x] = r], AttemptOK(x)',
         r.at \notin Gate
  PROVE  Moves(x)
<1>1. ItemsGrow /\ Own' = Own
  BY SameItems DEF IInv, StateOK
<1> QED
  BY <1>1, Leaves DEF LogGrows

\* The attempt ends.
LEMMA Ends ==
  ASSUME IInv, NEW x \in Attempts, scope' = scope, ItemsGrow, LogGrows, Own' = Own,
         End(x)
  PROVE  Moves(x)
<1>1. Ended \in Jobs /\ Ended.at = "ended" /\ Ended.snap = {} /\ Ended.item = NoItem
  BY NewJobType DEF AttemptSteps, Known
<1>2. job' = [job EXCEPT ![x] = Ended]
  BY DEF End
<1>3. job'[x] = Ended
  BY <1>2 DEF IInv, StateOK
<1>4. AttemptOK(x)'
  BY <1>1, <1>3 DEF AttemptOK, At, WithItem, Listed
<1> QED
  BY <1>1, <1>2, <1>4, Leaves DEF Gate

\* The attempt takes a listed item for its own.
LEMMA Adopts ==
  ASSUME IInv, NEW x \in Attempts, scope' = scope, items' = items, log' = log,
         NEW i \in Visible, NEW owes \in BOOLEAN, Adopt(x, i, owes)
  PROVE  Moves(x)
<1> DEFINE r == [NewJob EXCEPT !.at = "record", !.item = i, !.owes = owes]
<1>1. i \in 1..Len(items) /\ i \in Known
  <2>1. items \in Seq(Items)
    BY DEF IInv, StateOK
  <2>2. DOMAIN items = 1..Len(items) /\ Len(items) \in Nat
    BY <2>1, LenProperties
  <2> QED
    BY <2>2 DEF Visible, Known
<1>2. r \in Jobs /\ r.at = "record" /\ r.item = i /\ r.snap = {}
  BY <1>1 DEF NewJob, Jobs, AttemptSteps, Known, NoSnapshot
<1>3. job' = [job EXCEPT ![x] = r]
  BY DEF Adopt
<1> HIDE DEF r
<1>4. job'[x] = r
  BY <1>3 DEF IInv, StateOK
<1>5. AttemptOK(x)'
  BY <1>1, <1>2, <1>4 DEF AttemptOK, At, WithItem, Listed
<1> QED
  BY <1>2, <1>3, <1>5, LooksOnly DEF Gate

\* What is left is to write the result.
LEMMA Finishes ==
  ASSUME IInv, NEW x \in Attempts, scope' = scope, ItemsGrow, Own' = Own, log' = log,
         NEW op \in Results, NEW outcome \in Outcomes,
         job[x].item \in Listed,
         outcome = "published" => job[x].item \in 1..Len(items) /\ items'[job[x].item].live,
         job' = Finishing(x, op, outcome)
  PROVE  Moves(x)
<1> DEFINE r == [Ended EXCEPT !.at = "finish", !.item = job[x].item, !.op = op,
                              !.outcome = outcome]
<1>1. job[x].item \in Known /\ Listed \subseteq Listed' /\ 1..Len(items) \subseteq 1..Len(items')
  BY JobType DEF IInv, ItemsGrow, Listed
<1>2. /\ r \in Jobs /\ r.at = "finish" /\ r.item = job[x].item /\ r.snap = {}
      /\ r.op = op /\ r.outcome = outcome
  BY <1>1 DEF Ended, NewJob, Jobs, AttemptSteps, NoSnapshot, Known
<1>3. job' = [job EXCEPT ![x] = r]
  BY DEF Finishing
<1> HIDE DEF r
<1>4. job'[x] = r
  BY <1>3 DEF IInv, StateOK
<1>5. AttemptOK(x)'
  BY <1>1, <1>2, <1>4 DEF AttemptOK, At, WithItem
<1> QED
  BY <1>2, <1>3, <1>5, Leaves DEF Gate, LogGrows

-----------------------------------------------------------------------------
(* The actions of an attempt.                                              *)

\* The snapshot of an unresolved claim lists items.
LEMMA SnapshotType ==
  ASSUME StateOK
  PROVE  UnresolvedSnapshot(log) \in SUBSET Known
<1> DEFINE U == UnresolvedClaims(log)
<1>1. CASE U = {}
  BY <1>1 DEF UnresolvedSnapshot, NoSnapshot, Known
<1>2. CASE U # {}
  <2>1. log \in Seq(Records)
    BY DEF StateOK
  <2>2. Len(log) \in Nat /\ DOMAIN log = 1..Len(log)
    BY <2>1, LenProperties
  <2>3. U \in SUBSET (1..Len(log))
    BY <2>2 DEF UnresolvedClaims
  <2>4. Max(U) \in 1..Len(log)
    <3> HIDE DEF U
    <3> QED
      BY <1>2, <2>2, <2>3, MaxIsThere
  <2>5. log[Max(U)] \in Records
    <3> HIDE DEF U
    <3> QED
      BY <2>1, <2>4, RecordType
  <2>6. UnresolvedSnapshot(log) = log[Max(U)].snapshot
    BY <1>2 DEF UnresolvedSnapshot
  <2> HIDE DEF U
  <2> QED
    BY <2>5, <2>6 DEF Records
<1> QED
  BY <1>1, <1>2

LEMMA ReadMoves ==
  ASSUME IInv, NEW x \in Attempts, Read(x)
  PROVE  Moves(x)
<1>1. scope' = scope /\ items' = items /\ log' = log
  BY DEF Read
<1>2. ItemsGrow /\ Own' = Own
  BY <1>1, SameItems DEF IInv, StateOK
<1>3. CASE End(x)
  BY <1>1, <1>2, <1>3, Ends DEF LogGrows
<1>4. CASE ~End(x)
  <2> DEFINE pc == IF scope = "video" THEN "list" ELSE "claim"
             r == [job[x] EXCEPT !.at = pc, !.pending = UnresolvedSnapshot(log)]
  <2>1. job' = [job EXCEPT ![x].at = pc, ![x].pending = UnresolvedSnapshot(log)]
    BY <1>4 DEF Read
  <2>2. job[x] \in Jobs /\ AttemptOK(x) /\ UnresolvedSnapshot(log) \in SUBSET Known
    BY JobType, SnapshotType DEF IInv
  <2>3. r \in Jobs /\ r.at = pc /\ r.snap = job[x].snap /\ r.item = job[x].item
    BY <2>2 DEF Jobs, AttemptSteps
  <2>4. job' = [job EXCEPT ![x] = r]
    BY <2>1 DEF IInv, StateOK
  <2> HIDE DEF r
  <2>5. job'[x] = r
    BY <2>4 DEF IInv, StateOK
  <2>6. AttemptOK(x)'
    BY <1>1, <2>2, <2>3, <2>5 DEF AttemptOK, At, WithItem, Listed
  <2>7. r.at \notin Gate
    BY <2>3 DEF Gate
  <2> QED
    BY <1>1, <2>3, <2>4, <2>6, <2>7, LooksOnly
<1> QED
  BY <1>3, <1>4

\* What is listed are items.
LEMMA VisibleType ==
  ASSUME StateOK
  PROVE  Visible \subseteq 1..Len(items) /\ Visible \in SUBSET Known /\ Matching \subseteq Visible
<1>1. items \in Seq(Items)
  BY DEF StateOK
<1>2. DOMAIN items = 1..Len(items) /\ Len(items) \in Nat
  BY <1>1, LenProperties
<1> QED
  BY <1>2 DEF Visible, Known, Matching

LEMMA ListMoves ==
  ASSUME IInv, NEW x \in Attempts, List(x)
  PROVE  Moves(x)
<1>1. scope' = scope /\ items' = items /\ log' = log
  BY DEF List
<1>2. ItemsGrow /\ Own' = Own
  BY <1>1, SameItems DEF IInv, StateOK
<1>3. CASE End(x)
  BY <1>1, <1>2, <1>3, Ends DEF LogGrows
<1>4. CASE \E i \in Visible, owes \in BOOLEAN : Adopt(x, i, owes)
  BY <1>1, <1>4, Adopts
<1>5. CASE job' = [job EXCEPT ![x].at = "claim", ![x].snap = Visible]
  <2> DEFINE r == [job[x] EXCEPT !.at = "claim", !.snap = Visible]
  <2>1. /\ job[x] \in Jobs /\ AttemptOK(x) /\ Visible \in SUBSET Known
        /\ Visible \subseteq 1..Len(items) /\ NoItem \notin Visible
    BY JobType, VisibleType, EvidenceAssumption DEF IInv
  <2>2. r \in Jobs /\ r.at = "claim" /\ r.snap = Visible /\ r.item = job[x].item
    BY <2>1 DEF Jobs, AttemptSteps
  <2>3. job' = [job EXCEPT ![x] = r]
    BY <1>5 DEF IInv, StateOK
  <2> HIDE DEF r
  <2>4. job'[x] = r
    BY <2>3 DEF IInv, StateOK
  <2>5. AttemptOK(x)'
    BY <1>1, <2>1, <2>2, <2>4 DEF AttemptOK, At, WithItem, Listed
  <2> QED
    BY <1>1, <2>2, <2>3, <2>5, LooksOnly DEF Gate
<1>6. \A known : Untitled(known) \subseteq Visible
  BY DEF Untitled
<1>7. Matching \subseteq Visible
  BY DEF Matching
<1> QED
  BY <1>3, <1>4, <1>5, <1>6, <1>7 DEF List

LEMMA RecoverUnreadMoves ==
  ASSUME IInv, NEW x \in Attempts, RecoverUnread(x)
  PROVE  Moves(x)
<1>1. scope' = scope /\ items' = items /\ log' = log
  BY DEF RecoverUnread
<1>2. ItemsGrow /\ Own' = Own
  BY <1>1, SameItems DEF IInv, StateOK
<1>3. CASE End(x)
  BY <1>1, <1>2, <1>3, Ends DEF LogGrows
<1>4. CASE job' = Finishing(x, "create_episode", "unknown")
  <2>1. job[x].item \in Listed
    BY JobType DEF IInv, AttemptOK
  <2>2. "create_episode" \in Results /\ "unknown" \in Outcomes
    BY DEF Results, Outcomes
  <2> QED
    BY <1>1, <1>2, <1>4, <2>1, <2>2, Finishes
<1> QED
  BY <1>3, <1>4 DEF RecoverUnread

\* The step stays in the gate, or enters it never: what it needs there is given.
LEMMA StaysInGate ==
  ASSUME IInv, NEW x \in Attempts, scope' = scope, items' = items, log' = log,
         job[x].at \in Gate, NEW r \in Jobs, job' = [job EXCEPT ![x] = r], AttemptOK(x)',
         r.at \in BeforeCreate => Own = {}, r.at = "recover" => At(x, "recover")
  PROVE  Moves(x)
<1>1. /\ job' \in [Attempts -> Jobs] /\ job'[x] = r
      /\ \A y \in Attempts \ {x} : job'[y] = job[y]
  BY SetJob DEF IInv
<1>2. ItemsGrow /\ Own' = Own
  BY SameItems DEF IInv, StateOK
<1>3. Made'
  BY <1>2, StaysMade DEF IInv, StateOK, OwnIsKnown
<1>4. ASSUME r.at = "recover"
      PROVE  OnlyOf(x)'
  <2>1. OnlyOf(x)
    BY <1>4 DEF IInv, OneCreates
  <2> QED
    BY <1>2, <2>1 DEF OnlyOf
<1> QED
  BY <1>1, <1>2, <1>3, <1>4 DEF Moves, LogGrows

\* The step creates an item: the first of this publication, or the second draft of a
\* recovery.
LEMMA Creates ==
  ASSUME IInv, NEW x \in Attempts, scope' = scope, log' = log,
         NEW state \in {"late", "untitled", "titled"}, items' = Append(items, Item(x, state)),
         job[x].at \in Gate, OnlyOf(x), scope # "video" => Own = {},
         NEW r \in Jobs, job' = [job EXCEPT ![x] = r], AttemptOK(x)',
         r.at \notin Gate \/ (r.at = "recover" /\ Own = {})
  PROVE  Moves(x)
<1>1. /\ job' \in [Attempts -> Jobs] /\ job'[x] = r
      /\ \A y \in Attempts \ {x} : job'[y] = job[y]
  BY SetJob DEF IInv
<1> DEFINE s == Item(x, state)
           n == Len(items) + 1
<1>2. s \in Items /\ ~s.live /\ s.by = x /\ x # Nobody
  BY PublishAssumption DEF Item, Items
<1>3. items \in Seq(Items) /\ items' = Append(items, s)
  BY DEF IInv, StateOK
<1> HIDE DEF s
<1>4. /\ ItemsGrow /\ Len(items') = n /\ Len(items) \in Nat
      /\ items'[n] = s /\ Own' = Own \cup {n}
  BY <1>2, <1>3, AppendItem
<1>5. n \in 1..Len(items') \ 1..Len(items)
  BY <1>4
<1> HIDE DEF n
<1>6. \A i \in Own' : items'[i].by = x
  <2>1. \A i \in Own : items'[i].by = x
    BY <1>3, <1>4, SameMakers DEF OnlyOf
  <2> QED
    BY <1>2, <1>4, <2>1
<1>7. \A i, j \in Own : i = j
  BY DEF OnlyOf
<1>8. Made'
  <2>1. \A i, j \in Own' : i = j \/ i = n \/ j = n
    BY <1>4, <1>7
  <2>2. \A i, j, k \in Own' : i = j \/ j = k \/ i = k
    BY <2>1
  <2>3. scope # "video" => \A i, j \in Own' : i = j
    BY <1>4
  <2> QED
    BY <1>6, <2>2, <2>3 DEF Made
<1>9. r.at = "recover" => OnlyOf(x)'
  BY <1>4, <1>6 DEF OnlyOf, Gate
<1> QED
  BY <1>1, <1>4, <1>5, <1>8, <1>9 DEF Moves, LogGrows, Gate, BeforeCreate

LEMMA SurveyMoves ==
  ASSUME IInv, NEW x \in Attempts, Survey(x)
  PROVE  Moves(x)
<1>1. scope' = scope /\ items' = items /\ log' = log /\ At(x, "survey")
  BY DEF Survey
<1>2. Own = {} /\ job[x].at \in Gate
  BY <1>1 DEF IInv, OneCreates, BeforeCreate, Gate, At
<1>3. job[x] \in Jobs /\ AttemptOK(x) /\ Listed \subseteq Known
  BY JobType DEF IInv
<1>4. CASE \E known \in {Visible, NoSnapshot} :
             job' = [job EXCEPT ![x].at = "post", ![x].snap = known]
  <2>1. PICK known \in {Visible, NoSnapshot} :
               job' = [job EXCEPT ![x].at = "post", ![x].snap = known]
    BY <1>4
  <2>2. known \subseteq Listed
    BY VisibleType DEF IInv, NoSnapshot, Listed
  <2> DEFINE r == [job[x] EXCEPT !.at = "post", !.snap = known]
  <2>3. r \in Jobs /\ r.at = "post" /\ r.snap = known /\ r.item = job[x].item
    BY <1>3, <2>2 DEF Jobs, AttemptSteps
  <2>4. job' = [job EXCEPT ![x] = r]
    BY <2>1 DEF IInv, StateOK
  <2> HIDE DEF r
  <2>5. job'[x] = r
    BY <2>4 DEF IInv, StateOK
  <2>6. AttemptOK(x)'
    BY <1>1, <1>3, <2>2, <2>3, <2>5 DEF AttemptOK, At, WithItem, Listed
  <2> QED
    BY <1>1, <1>2, <2>3, <2>4, <2>6, StaysInGate
<1>5. CASE \E op \in {"credential_failure", "provider_mutation_failure"} :
             job' = [job EXCEPT ![x].at = "reject", ![x].op = op, ![x].outcome = "handoff"]
  <2>1. PICK op \in {"credential_failure", "provider_mutation_failure"} :
               job' = [job EXCEPT ![x].at = "reject", ![x].op = op, ![x].outcome = "handoff"]
    BY <1>5
  <2> DEFINE r == [job[x] EXCEPT !.at = "reject", !.op = op, !.outcome = "handoff"]
  <2>2. op \in Results /\ "handoff" \in Outcomes
    BY DEF Results, Outcomes
  <2>3. /\ r \in Jobs /\ r.at = "reject" /\ r.snap = job[x].snap /\ r.item = job[x].item
        /\ r.op = op /\ r.outcome = "handoff"
    BY <1>3, <2>2 DEF Jobs, AttemptSteps
  <2>4. job' = [job EXCEPT ![x] = r]
    BY <2>1 DEF IInv, StateOK
  <2> HIDE DEF r
  <2>5. job'[x] = r
    BY <2>4 DEF IInv, StateOK
  <2>6. AttemptOK(x)'
    BY <1>1, <1>3, <2>2, <2>3, <2>5 DEF AttemptOK, At, WithItem, Listed
  <2> QED
    BY <1>1, <1>2, <2>3, <2>4, <2>6, StaysInGate
<1> QED
  BY <1>4, <1>5 DEF Survey

\* A create that is answered: the attempt goes on with the new item.
LEMMA AnsweredMoves ==
  ASSUME IInv, NEW x \in Attempts, scope' = scope, log' = log,
         job[x].at \in Gate, OnlyOf(x), scope # "video" => Own = {}, Answered(x)
  PROVE  Moves(x)
<1> DEFINE pc == IF scope = "youtube" THEN "upload" ELSE "record"
           state == IF scope = "youtube" THEN "titled" ELSE "untitled"
           r == [NewJob EXCEPT !.at = pc, !.item = Len(items) + 1, !.owes = scope = "video"]
<1>1. Len(items) \in Nat
  BY JobType DEF IInv
<1>2. job' = [job EXCEPT ![x] = r] /\ items' = Append(items, Item(x, state))
  BY DEF Answered
<1>3. r \in Jobs /\ r.at = pc /\ r.snap = {} /\ r.item = Len(items) + 1
  <2> DEFINE n == Len(items) + 1
             owes == scope = "video"
  <2>1. n \in Known /\ pc \in AttemptSteps /\ owes \in BOOLEAN
    BY <1>1 DEF Known, AttemptSteps
  <2>2. r = [NewJob EXCEPT !.at = pc, !.item = n, !.owes = owes]
    OBVIOUS
  <2> HIDE DEF n, owes, pc, r
  <2>3. r \in Jobs /\ r.at = pc /\ r.snap = {} /\ r.item = n
    BY <2>1, <2>2 DEF NewJob, Jobs, NoSnapshot, Known
  <2> QED
    BY <2>3 DEF n
<1>4. Len(items') = Len(items) + 1
  BY <1>2, AppendProperties DEF IInv, StateOK, Item, Items
<1>5. pc \in {"upload", "record"} /\ state \in {"late", "untitled", "titled"}
  OBVIOUS
<1> HIDE DEF r, pc, state
<1>6. job'[x] = r
  BY <1>2 DEF IInv, StateOK
<1>7. AttemptOK(x)'
  BY <1>1, <1>3, <1>4, <1>5, <1>6 DEF AttemptOK, At, WithItem, Listed
<1>8. r.at \notin Gate
  BY <1>3, <1>5 DEF Gate
<1> QED
  BY <1>2, <1>3, <1>5, <1>7, <1>8, Creates

\* A create whose outcome is not known: the attempt ends, or recovers, or says so.
LEMMA AmbiguousMoves ==
  ASSUME IInv, NEW x \in Attempts, scope' = scope, log' = log,
         job[x].at \in Gate, OnlyOf(x), scope # "video" => Own = {}, Ambiguous(x),
         NEW r \in Jobs, job' = [job EXCEPT ![x] = r],
         r.at \in {"ended", "finish", "recover"}, r.snap \in {{}, job[x].snap},
         r.item \in {job[x].item, NoItem},
         r.at = "recover" => scope # "youtube" /\ Own = {},
         r.at = "finish" => r.op \in Results /\ r.outcome = "unknown"
  PROVE  Moves(x)
<1>1. job'[x] = r
  BY DEF IInv, StateOK
<1>2. job[x] \in Jobs /\ AttemptOK(x) /\ Len(items) \in Nat
  BY JobType DEF IInv
<1>3. CASE items' = items
  <2>1. AttemptOK(x)'
    BY <1>1, <1>2, <1>3 DEF AttemptOK, At, WithItem, Listed, Outcomes
  <2>2. /\ job' \in [Attempts -> Jobs]
        /\ \A y \in Attempts \ {x} : job'[y] = job[y]
    BY SetJob DEF IInv
  <2>3. ItemsGrow /\ Own' = Own
    BY <1>3, SameItems DEF IInv, StateOK
  <2>4. r.at = "recover" => OnlyOf(x)'
    BY <2>3 DEF OnlyOf
  <2>5. Made'
    BY <2>3, StaysMade DEF IInv, StateOK, OwnIsKnown
  <2> QED
    BY <1>1, <2>1, <2>2, <2>3, <2>4, <2>5 DEF Moves, LogGrows, Gate, BeforeCreate
<1>4. CASE items' = Append(items, Item(x, "late"))
  <2>1. Len(items') = Len(items) + 1
    BY <1>4, AppendProperties DEF IInv, StateOK, Item, Items
  <2>2. Listed \subseteq Listed'
    BY <1>2, <2>1 DEF Listed
  <2>3. AttemptOK(x)'
    BY <1>1, <1>2, <2>1, <2>2 DEF AttemptOK, At, WithItem, Listed, Outcomes
  <2>4. r.at \notin Gate \/ (r.at = "recover" /\ Own = {})
    BY DEF Gate
  <2> QED
    BY <1>4, <2>3, <2>4, Creates
<1> QED
  BY <1>3, <1>4 DEF Ambiguous

\* An attempt that only goes on keeps what it holds.
LEMMA GoesOn ==
  ASSUME StateOK, NEW x \in Attempts, NEW pc \in AttemptSteps, Goto(x, pc)
  PROVE  \E r \in Jobs :
           /\ job' = [job EXCEPT ![x] = r] /\ job'[x] = r
           /\ r.at = pc /\ r.item = job[x].item /\ r.snap = job[x].snap
<1> DEFINE r == [job[x] EXCEPT !.at = pc]
<1>1. job[x] \in Jobs
  BY JobType
<1>2. r \in Jobs /\ r.at = pc /\ r.item = job[x].item /\ r.snap = job[x].snap
  BY <1>1 DEF Jobs
<1>3. job' = [job EXCEPT ![x] = r]
  BY DEF Goto, StateOK
<1>4. job'[x] = r
  BY <1>3 DEF StateOK
<1> QED
  BY <1>2, <1>3, <1>4

\* An attempt that finishes holds its item and the result.
LEMMA FinishingIs ==
  ASSUME StateOK, NEW x \in Attempts, NEW op \in Results, NEW outcome \in Outcomes,
         job' = Finishing(x, op, outcome)
  PROVE  \E r \in Jobs :
           /\ job' = [job EXCEPT ![x] = r]
           /\ r.at = "finish" /\ r.item = job[x].item /\ r.snap = {}
           /\ r.op = op /\ r.outcome = outcome
<1> DEFINE r == [Ended EXCEPT !.at = "finish", !.item = job[x].item, !.op = op,
                              !.outcome = outcome]
<1>1. job[x].item \in Known
  BY JobType DEF Jobs
<1>2. /\ r \in Jobs /\ r.at = "finish" /\ r.item = job[x].item /\ r.snap = {}
      /\ r.op = op /\ r.outcome = outcome
  BY <1>1 DEF Ended, NewJob, Jobs, AttemptSteps, NoSnapshot, Known
<1> QED
  BY <1>2 DEF Finishing

\* The provider refuses the create.
LEMMA RefusedMoves ==
  ASSUME IInv, NEW x \in Attempts, scope' = scope, items' = items, log' = log,
         At(x, "post"), Refused(x)
  PROVE  Moves(x)
<1>1. PICK expired \in BOOLEAN :
        job' = [job EXCEPT ![x].at = "reject", ![x].outcome = IF expired THEN "handoff" ELSE "unknown",
                  ![x].op = CASE scope = "video" -> "create_episode_failure"
                              [] expired -> "credential_failure"
                              [] OTHER -> "provider_mutation_failure"]
  BY DEF Refused
<1> DEFINE outcome == IF expired THEN "handoff" ELSE "unknown"
           op == CASE scope = "video" -> "create_episode_failure"
                   [] expired -> "credential_failure"
                   [] OTHER -> "provider_mutation_failure"
           r == [job[x] EXCEPT !.at = "reject", !.outcome = outcome, !.op = op]
<1>2. outcome \in Outcomes \ {"published"} /\ op \in Results
  BY DEF Outcomes, Results
<1>3. job' = [job EXCEPT ![x].at = "reject", ![x].outcome = outcome, ![x].op = op]
  BY <1>1
<1> HIDE DEF outcome, op
<1>4. job[x] \in Jobs /\ AttemptOK(x)
  BY JobType DEF IInv
<1>5. /\ r \in Jobs /\ r.at = "reject" /\ r.snap = job[x].snap /\ r.item = job[x].item
      /\ r.op = op /\ r.outcome = outcome
  BY <1>2, <1>4 DEF Jobs, AttemptSteps
<1>6. job' = [job EXCEPT ![x] = r]
  BY <1>3 DEF IInv, StateOK
<1> HIDE DEF r
<1>7. job'[x] = r
  BY <1>6 DEF IInv, StateOK
<1>8. AttemptOK(x)'
  BY <1>2, <1>4, <1>5, <1>7 DEF AttemptOK, At, WithItem, Listed
<1>9. Own = {} /\ job[x].at \in Gate
  BY DEF IInv, OneCreates, BeforeCreate, Gate, At
<1> QED
  BY <1>5, <1>6, <1>8, <1>9, StaysInGate

LEMMA PostMoves ==
  ASSUME IInv, NEW x \in Attempts, Post(x)
  PROVE  Moves(x)
<1>1. scope' = scope /\ log' = log /\ At(x, "post")
  BY DEF Post
<1>2. Own = {} /\ OnlyOf(x) /\ job[x].at \in Gate
  BY <1>1 DEF IInv, OneCreates, BeforeCreate, Gate, At, OnlyOf
<1>3. CASE Answered(x)
  BY <1>1, <1>2, <1>3, AnsweredMoves
<1>4. CASE Ambiguous(x) /\ scope = "youtube" /\ job' = Finishing(x, "distribution", "unknown")
  <2>1. "distribution" \in Results /\ "unknown" \in Outcomes
    BY DEF Results, Outcomes
  <2>2. PICK r \in Jobs :
               /\ job' = [job EXCEPT ![x] = r]
               /\ r.at = "finish" /\ r.item = job[x].item /\ r.snap = {}
               /\ r.op = "distribution" /\ r.outcome = "unknown"
    BY <1>4, <2>1, FinishingIs DEF IInv
  <2> QED
    BY <1>1, <1>2, <1>4, <2>1, <2>2, AmbiguousMoves
<1>5. CASE Ambiguous(x) /\ scope # "youtube" /\ job' = [job EXCEPT ![x].at = "recover"]
  <2>1. PICK r \in Jobs :
               /\ job' = [job EXCEPT ![x] = r] /\ job'[x] = r
               /\ r.at = "recover" /\ r.item = job[x].item /\ r.snap = job[x].snap
    BY <1>5, GoesOn DEF IInv, Goto, AttemptSteps
  <2> QED
    BY <1>1, <1>2, <1>5, <2>1, AmbiguousMoves
<1>6. CASE items' = items /\ End(x)
  <2>1. ItemsGrow /\ Own' = Own
    BY <1>6, SameItems DEF IInv, StateOK
  <2> QED
    BY <1>1, <1>6, <2>1, Ends DEF LogGrows
<1>7. CASE items' = items /\ Refused(x)
  BY <1>1, <1>7, RefusedMoves
<1> QED
  BY <1>3, <1>4, <1>5, <1>6, <1>7 DEF Post

\* The one more create, once nothing was found.
LEMMA PostAgainMoves ==
  ASSUME IInv, NEW x \in Attempts, scope' = scope, log' = log, At(x, "recover"),
         scope = "video", PostAgain(x)
  PROVE  Moves(x)
<1>1. job[x].at \in Gate /\ OnlyOf(x)
  BY DEF Gate, At, IInv, OneCreates
<1>2. CASE Answered(x)
  BY <1>1, <1>2, AnsweredMoves
<1>3. CASE Ambiguous(x) /\ End(x)
  <2>1. Ended \in Jobs /\ Ended.at = "ended" /\ Ended.snap = {} /\ Ended.item = NoItem
    BY NewJobType
  <2>2. job' = [job EXCEPT ![x] = Ended]
    BY <1>3 DEF End
  <2> QED
    BY <1>1, <1>3, <2>1, <2>2, AmbiguousMoves
<1>4. CASE items' = items /\ End(x)
  <2>1. ItemsGrow /\ Own' = Own
    BY <1>4, SameItems DEF IInv, StateOK
  <2> QED
    BY <1>4, <2>1, Ends DEF LogGrows
<1> QED
  BY <1>2, <1>3, <1>4 DEF PostAgain

LEMMA RecoverMoves ==
  ASSUME IInv, NEW x \in Attempts, Recover(x)
  PROVE  Moves(x)
<1> DEFINE found == Untitled(job[x].snap)
<1>1. scope' = scope /\ log' = log /\ At(x, "recover")
  BY DEF Recover
<1>2. items' = items => ItemsGrow /\ Own' = Own
  BY SameItems DEF IInv, StateOK
<1>3. CASE items' = items /\ End(x)
  BY <1>1, <1>2, <1>3, Ends DEF LogGrows
<1>4. CASE items' = items /\ \E i \in Visible, owes \in BOOLEAN : Adopt(x, i, owes)
  BY <1>1, <1>4, Adopts
<1>5. CASE items' = items /\ job' = Finishing(x, "create_episode", "unknown")
  <2>1. job[x].item \in Listed
    BY JobType DEF IInv, AttemptOK
  <2>2. "create_episode" \in Results /\ "unknown" \in Outcomes
    BY DEF Results, Outcomes
  <2> QED
    BY <1>1, <1>2, <1>5, <2>1, <2>2, Finishes
<1>6. CASE items' = items /\ job' = [job EXCEPT ![x].reads = 1]
  <2> DEFINE r == [job[x] EXCEPT !.reads = 1]
  <2>1. job[x] \in Jobs /\ AttemptOK(x)
    BY JobType DEF IInv
  <2>2. r \in Jobs /\ r.at = "recover" /\ r.snap = job[x].snap /\ r.item = job[x].item
    BY <1>1, <2>1 DEF Jobs, At
  <2>3. job' = [job EXCEPT ![x] = r]
    BY <1>6 DEF IInv, StateOK
  <2> HIDE DEF r
  <2>4. job'[x] = r
    BY <2>3 DEF IInv, StateOK
  <2>5. AttemptOK(x)'
    BY <1>1, <1>6, <2>1, <2>2, <2>4 DEF AttemptOK, At, WithItem, Listed
  <2>6. job[x].at \in Gate /\ r.at \notin BeforeCreate
    BY <1>1, <2>2 DEF Gate, BeforeCreate, At
  <2> QED
    BY <1>1, <1>6, <2>2, <2>3, <2>5, <2>6, StaysInGate
<1>7. CASE scope = "video" /\ Matching = {} /\ found = {} /\ Patient(x) /\ PostAgain(x)
  BY <1>1, <1>7, PostAgainMoves
<1>8. found \subseteq Visible /\ Matching \subseteq Visible
  BY DEF Untitled, Matching
<1> QED
  BY <1>3, <1>4, <1>5, <1>6, <1>7, <1>8 DEF Recover

LEMMA KeepMoves ==
  ASSUME IInv, NEW x \in Attempts, Keep(x)
  PROVE  Moves(x)
<1> DEFINE pc == IF job[x].owes THEN "title" ELSE "upload"
<1>1. scope' = scope /\ items' = items /\ At(x, "record") /\ Goto(x, pc)
  BY DEF Keep
<1>2. ItemsGrow /\ Own' = Own
  BY <1>1, SameItems DEF IInv, StateOK
<1>3. job[x] \in Jobs /\ AttemptOK(x) /\ job[x].item \in Listed
  BY JobType DEF IInv, AttemptOK
<1>4. pc \in AttemptSteps /\ pc \in {"title", "upload"}
  BY DEF AttemptSteps
<1>5. PICK r \in Jobs :
             /\ job' = [job EXCEPT ![x] = r] /\ job'[x] = r
             /\ r.at = pc /\ r.item = job[x].item /\ r.snap = job[x].snap
  <2> HIDE DEF pc
  <2> QED
    BY <1>1, <1>4, GoesOn DEF IInv
<1> HIDE DEF pc
<1>6. AttemptOK(x)'
  BY <1>1, <1>3, <1>4, <1>5 DEF AttemptOK, At, WithItem, Listed
<1>7. LogGrows
  <2> DEFINE s == Resolution(x)
  <2>1. /\ s \in Records /\ s.op \notin Claims /\ s.blocked /\ s.item = job[x].item
        /\ s.snapshot = {NoItem} /\ s.outcome = "unknown"
    BY <1>3 DEF Resolution, Record, Records, Results, Outcomes, Claims, Known, Jobs, NoSnapshot
  <2>2. log' = log \/ log' = Append(log, s)
    BY AppendedIs DEF Keep
  <2> HIDE DEF s
  <2> QED
    BY <1>1, <1>3, <2>1, <2>2 DEF LogGrows, Listed
<1>8. r.at \notin Gate
  BY <1>4, <1>5 DEF Gate
<1> QED
  BY <1>1, <1>2, <1>5, <1>6, <1>7, <1>8, Leaves

LEMMA FinishMoves ==
  ASSUME IInv, NEW x \in Attempts, Finish(x)
  PROVE  Moves(x)
<1> DEFINE s == Record(job[x].op, job[x].outcome, job[x].item, TRUE, NoSnapshot)
<1>1. scope' = scope /\ items' = items /\ At(x, "finish") /\ End(x)
  BY DEF Finish
<1>2. ItemsGrow /\ Own' = Own
  BY <1>1, SameItems DEF IInv, StateOK
<1>3. job[x] \in Jobs /\ AttemptOK(x)
  BY JobType DEF IInv
<1>4. /\ s \in Records /\ s.op \notin Claims /\ s.blocked /\ s.item = job[x].item
      /\ s.snapshot = {NoItem} /\ s.outcome = job[x].outcome
  BY <1>1, <1>3 DEF AttemptOK, Record, Records, Results, Claims, Known, Jobs, NoSnapshot
<1>5. log' = log \/ log' = Append(log, s)
  BY AppendedIs DEF Finish
<1> HIDE DEF s
<1>6. LogGrows
  BY <1>1, <1>3, <1>4, <1>5 DEF LogGrows, Listed, AttemptOK
<1> QED
  BY <1>1, <1>2, <1>6, Ends

\* The item an attempt holds, with another state.
LEMMA HeldItem ==
  ASSUME IInv, NEW x \in Attempts, job[x].at \in WithItem
  PROVE  /\ items \in Seq(Items) /\ job[x].item \in 1..Len(items)
         /\ items[job[x].item] \in Items
<1>1. items \in Seq(Items) /\ job[x].item \in 1..Len(items)
  BY JobType DEF IInv, StateOK, AttemptOK
<1> QED
  BY <1>1, ItemType

\* An update of the item gives it its title, and may publish it.
LEMMA Titled ==
  ASSUME IInv, NEW x \in Attempts, job[x].at \in WithItem, NEW live \in BOOLEAN,
         items' = IF live THEN [items EXCEPT ![job[x].item].state = "titled",
                                             ![job[x].item].live = TRUE]
                  ELSE [items EXCEPT ![job[x].item].state = "titled"]
  PROVE  /\ ItemsGrow /\ Own' = Own /\ Len(items') = Len(items)
<1> DEFINE i == job[x].item
           r == IF live THEN [items[i] EXCEPT !.state = "titled", !.live = TRUE]
                ELSE [items[i] EXCEPT !.state = "titled"]
<1>1. items \in Seq(Items) /\ i \in 1..Len(items) /\ items[i] \in Items
  BY HeldItem
<1>2. r \in Items /\ r.by = items[i].by /\ (items[i].live => r.live)
  BY <1>1 DEF Items
<1>3. items' = [items EXCEPT ![i] = r]
  <2>1. CASE live
    BY <2>1, <1>1, LenProperties
  <2>2. CASE ~live
    BY <2>2, <1>1, LenProperties
  <2> QED
    BY <2>1, <2>2
<1> HIDE DEF r, i
<1>4. /\ ItemsGrow /\ Own' = Own /\ Len(items') = Len(items)
  BY <1>1, <1>2, <1>3, ChangeItem
<1> QED
  BY <1>4

LEMMA TitleMoves ==
  ASSUME IInv, NEW x \in Attempts, Title(x)
  PROVE  Moves(x)
<1>1. scope' = scope /\ log' = log /\ At(x, "title")
  BY DEF Title
<1>2. ItemsGrow /\ Own' = Own /\ Len(items') = Len(items)
  <2>1. CASE items' = items
    BY <2>1, SameItems DEF IInv, StateOK
  <2>2. CASE items' = [items EXCEPT ![job[x].item].state = "titled"]
    BY <1>1, <2>2, Titled DEF At, WithItem
  <2> QED
    BY <2>1, <2>2 DEF Title
<1>3. CASE End(x)
  BY <1>1, <1>2, <1>3, Ends DEF LogGrows
<1>4. CASE Goto(x, "upload")
  <2>1. PICK r \in Jobs :
               /\ job' = [job EXCEPT ![x] = r] /\ job'[x] = r
               /\ r.at = "upload" /\ r.item = job[x].item /\ r.snap = job[x].snap
    BY <1>4, GoesOn DEF IInv, AttemptSteps
  <2>2. AttemptOK(x)'
    BY <1>1, <1>2, <2>1, JobType DEF IInv, AttemptOK, At, WithItem, Listed
  <2>3. r.at \notin Gate
    BY <2>1 DEF Gate
  <2> QED
    BY <1>1, <1>2, <2>1, <2>2, <2>3, Leaves DEF LogGrows
<1> QED
  BY <1>3, <1>4 DEF Title

LEMMA UploadMoves ==
  ASSUME IInv, NEW x \in Attempts, Upload(x)
  PROVE  Moves(x)
<1>1. scope' = scope /\ log' = log /\ items' = items /\ At(x, "upload")
  BY DEF Upload
<1>2. ItemsGrow /\ Own' = Own
  BY <1>1, SameItems DEF IInv, StateOK
<1>3. job[x].item \in Listed
  BY JobType DEF IInv, AttemptOK
<1>4. CASE End(x)
  BY <1>1, <1>2, <1>4, Ends DEF LogGrows
<1>5. CASE \E op \in Results, outcome \in {"draft", "unknown"} : job' = Finishing(x, op, outcome)
  <2>1. {"draft", "unknown"} \subseteq Outcomes
    BY DEF Outcomes
  <2> QED
    BY <1>1, <1>2, <1>3, <1>5, <2>1, Finishes
<1>6. CASE Goto(x, "describe")
  <2>1. PICK r \in Jobs :
               /\ job' = [job EXCEPT ![x] = r] /\ job'[x] = r
               /\ r.at = "describe" /\ r.item = job[x].item /\ r.snap = job[x].snap
    BY <1>6, GoesOn DEF IInv, AttemptSteps
  <2>2. AttemptOK(x)'
    BY <1>1, <2>1, JobType DEF IInv, AttemptOK, At, WithItem, Listed
  <2>3. /\ job' \in [Attempts -> Jobs]
        /\ \A y \in Attempts \ {x} : job'[y] = job[y]
    BY <2>1, SetJob DEF IInv
  <2>4. Made'
    BY <1>1, <1>2, StaysMade DEF IInv, StateOK, OwnIsKnown
  <2> QED
    BY <1>1, <1>2, <2>1, <2>2, <2>3, <2>4 DEF Moves, LogGrows, Gate, BeforeCreate
<1>7. {"distribution", "provider_mutation_failure", "credential_failure"} \subseteq Results
  BY DEF Results
<1> QED
  BY <1>4, <1>5, <1>6, <1>7 DEF Upload

LEMMA DescribeMoves ==
  ASSUME IInv, NEW x \in Attempts, Describe(x)
  PROVE  Moves(x)
<1>1. scope' = scope /\ log' = log /\ At(x, "describe")
  BY DEF Describe
<1>2. job[x].item \in Listed /\ job[x].at \in WithItem
  BY <1>1, JobType DEF IInv, AttemptOK, At, WithItem
<1>3. /\ ItemsGrow /\ Own' = Own /\ Len(items') = Len(items)
  <2>1. CASE items' = items
    BY <2>1, SameItems DEF IInv, StateOK
  <2>2. CASE items' = [items EXCEPT ![job[x].item].state = "titled"]
    BY <1>2, <2>2, Titled
  <2>3. CASE items' = [items EXCEPT ![job[x].item].state = "titled", ![job[x].item].live = TRUE]
    BY <1>2, <2>3, Titled
  <2> QED
    BY <2>1, <2>2, <2>3 DEF Describe
<1>4. CASE \E op \in Results, outcome \in {"draft", "unknown", "uploaded"} :
             job' = Finishing(x, op, outcome)
  <2>1. {"draft", "unknown", "uploaded"} \subseteq Outcomes
    BY DEF Outcomes
  <2> QED
    BY <1>1, <1>2, <1>3, <1>4, <2>1, Finishes
<1>5. CASE \E ok \in BOOLEAN : job' = [job EXCEPT ![x].at = "confirm", ![x].owes = ok]
  <2>1. PICK ok \in BOOLEAN : job' = [job EXCEPT ![x].at = "confirm", ![x].owes = ok]
    BY <1>5
  <2> DEFINE r == [job[x] EXCEPT !.at = "confirm", !.owes = ok]
  <2>2. job[x] \in Jobs /\ AttemptOK(x)
    BY JobType DEF IInv
  <2>3. r \in Jobs /\ r.at = "confirm" /\ r.snap = job[x].snap /\ r.item = job[x].item
    BY <2>2 DEF Jobs, AttemptSteps
  <2>4. job' = [job EXCEPT ![x] = r]
    BY <2>1 DEF IInv, StateOK
  <2> HIDE DEF r
  <2>5. job'[x] = r
    BY <2>4 DEF IInv, StateOK
  <2>a. r.item \in 1..Len(items') /\ r.item \in Listed' /\ r.snap \subseteq Listed'
    BY <1>2, <1>3, <2>2, <2>3 DEF AttemptOK, Listed
  <2>b. scope' = "video" => NoItem \notin r.snap
    BY <1>1, <2>2, <2>3 DEF AttemptOK
  <2>6. AttemptOK(x)'
    BY <2>3, <2>5, <2>a, <2>b DEF AttemptOK, At
  <2>7. r.at \notin Gate
    BY <2>3 DEF Gate
  <2> QED
    BY <1>1, <1>3, <2>3, <2>4, <2>6, <2>7, Leaves DEF LogGrows
<1>6. {"draft_setup", "provider_mutation_failure"} \subseteq Results
  BY DEF Results
<1> QED
  BY <1>4, <1>5, <1>6 DEF Describe

LEMMA ConfirmMoves ==
  ASSUME IInv, NEW x \in Attempts, Confirm(x)
  PROVE  Moves(x)
<1>1. scope' = scope /\ log' = log /\ items' = items /\ At(x, "confirm")
  BY DEF Confirm
<1>2. ItemsGrow /\ Own' = Own
  BY <1>1, SameItems DEF IInv, StateOK
<1>3. job[x].item \in Listed /\ job[x].item \in 1..Len(items)
  BY <1>1, JobType DEF IInv, AttemptOK, At, WithItem
<1>4. PICK op \in Results, outcome \in Outcomes :
        /\ job' = Finishing(x, op, outcome)
        /\ outcome = "published" => items[job[x].item].live
  <2>1. PICK seen \in BOOLEAN :
          LET outcome == Verdict(job[x].owes, items[job[x].item].live, seen) IN
          job' = Finishing(x, IF job[x].owes \/ outcome = "published" THEN "publish"
                              ELSE "provider_mutation_failure", outcome)
    BY DEF Confirm
  <2> DEFINE outcome == Verdict(job[x].owes, items[job[x].item].live, seen)
             op == IF job[x].owes \/ outcome = "published" THEN "publish"
                   ELSE "provider_mutation_failure"
  <2>2. outcome \in Outcomes /\ (outcome = "published" => items[job[x].item].live)
    BY DEF Verdict, Outcomes
  <2>3. job' = Finishing(x, op, outcome)
    BY <2>1
  <2> HIDE DEF outcome
  <2>4. op \in Results
    BY DEF Results
  <2> HIDE DEF op
  <2> QED
    BY <2>2, <2>3, <2>4
<1> QED
  BY <1>1, <1>2, <1>3, <1>4, Finishes

-----------------------------------------------------------------------------
(* The claim, and the steps that are not an attempt's own.                 *)

\* What a claim writes.
LEMMA IntentIs ==
  ASSUME IInv, NEW x \in Attempts
  PROVE  /\ Intent(x) \in Records /\ Intent(x).op = ClaimOp /\ Intent(x).op \in Claims
         /\ Intent(x).outcome = "unknown" /\ Intent(x).item = NoItem
         /\ Intent(x).blocked = (scope # "video")
         /\ Intent(x).snapshot \subseteq Listed
         /\ scope = "video" => NoItem \notin Intent(x).snapshot
<1>1. /\ job[x] \in Jobs /\ job[x].snap \subseteq Listed /\ job[x].snap \in SUBSET Known
      /\ scope = "video" => NoItem \notin job[x].snap
  BY JobType DEF IInv, AttemptOK, Jobs
<1>2. scope \in {"youtube", "video", "audio"}
  BY DEF IInv, StateOK
<1>3. NoSnapshot \subseteq Listed /\ NoSnapshot \in SUBSET Known /\ NoItem \in Known
  BY DEF NoSnapshot, Listed, Known
<1>4. CASE scope = "youtube"
  BY <1>3, <1>4 DEF Intent, Record, Records, Claims, Outcomes, ClaimOp
<1>5. CASE scope = "video"
  BY <1>1, <1>3, <1>5 DEF Intent, Record, Records, Claims, Outcomes, ClaimOp
<1>6. CASE scope = "audio"
  BY <1>3, <1>6 DEF Intent, Record, Records, Claims, Outcomes, ClaimOp
<1> QED
  BY <1>2, <1>4, <1>5, <1>6

\* A claim that is written is the first, or follows a record that authorizes it.
LEMMA ClaimWrites ==
  ASSUME IInv, NEW x \in Attempts, Claim(x), log' # log
  PROVE  log' = Append(log, Intent(x)) /\ ~Closed(log)
<1> DEFINE s == Intent(x)
<1>1. /\ s.op = ClaimOp /\ s.outcome = "unknown" /\ s.item = NoItem
      /\ s.blocked = (scope # "video")
  BY IntentIs
<1> HIDE DEF s
<1>2. log \in Seq(Records) /\ DOMAIN log = 1..Len(log)
  BY LenProperties DEF IInv, StateOK
<1>3. \A n \in 1..Len(log) : log[n].op \in Claims => n \in Duplicates(log, s)
  BY <1>1, <1>2 DEF IInv, StateOK, RecordOK, Duplicates
<1>4. CASE scope = "youtube"
  <2>1. log' = Appended(log, s)
    BY <1>4 DEF Claim, s
  <2>2. Duplicates(log, s) = {}
    BY <1>1, <1>4, <2>1, AppendedOnce
  <2>3. ~Closed(log)
    BY <1>3, <2>2 DEF Closed
  <2> QED
    BY <2>1, <2>3, AppendedIs DEF s
<1>5. CASE scope # "youtube"
  <2>1. log' = Claimed(log, s)
    BY <1>5 DEF Claim, s
  <2> QED
    BY <1>2, <1>3, <2>1, ClaimedIs DEF s
<1> QED
  BY <1>4, <1>5

\* Nobody is in the gate, and nothing was made.
LEMMA AllQuiet ==
  ASSUME StateOK', Own' = {}, \A x \in Attempts : job'[x].at \notin Gate
  PROVE  IInv'
<1>1. OneCreates'
  BY DEF OneCreates, Gate, BeforeCreate, At
<1>2. OwnIsKnown'
  BY DEF OwnIsKnown, Made
<1> QED
  BY <1>1, <1>2 DEF IInv

LEMMA ClaimKeeps ==
  ASSUME IInv, NEW x \in Attempts, Claim(x)
  PROVE  IInv'
<1>1. scope' = scope /\ items' = items /\ At(x, "claim")
  BY DEF Claim
<1>2. ItemsGrow /\ Own' = Own
  BY <1>1, SameItems DEF IInv, StateOK
<1>3. CASE log' = log
  <2>1. End(x)
    BY <1>3 DEF Claim
  <2>2. Moves(x)
    BY <1>1, <1>2, <1>3, <2>1, Ends DEF LogGrows
  <2> QED
    BY <2>2, MovesKeep
<1>4. CASE log' # log
  <2> DEFINE s == Intent(x)
             pc == IF scope = "audio" THEN "survey" ELSE "post"
  <2>1. log' = Append(log, s) /\ ~Closed(log)
    BY <1>4, ClaimWrites
  <2>2. /\ s \in Records /\ s.op = ClaimOp /\ s.op \in Claims
        /\ s.outcome = "unknown" /\ s.item = NoItem
        /\ s.blocked = (scope # "video") /\ s.snapshot \subseteq Listed
        /\ scope = "video" => NoItem \notin s.snapshot
    BY IntentIs
  <2> HIDE DEF s
  <2>3. Own = {} /\ \A y \in Attempts : job[y].at \notin Gate
    BY <2>1 DEF IInv, OneCreates, OwnIsKnown
  <2>4. pc \in AttemptSteps /\ pc \in BeforeCreate /\ pc \in Gate /\ pc # "recover"
    BY DEF AttemptSteps, BeforeCreate, Gate
  <2>5. Goto(x, pc)
    BY <1>4 DEF Claim
  <2>6. PICK r \in Jobs :
               /\ job' = [job EXCEPT ![x] = r] /\ job'[x] = r
               /\ r.at = pc /\ r.item = job[x].item /\ r.snap = job[x].snap
    <3> HIDE DEF pc
    <3> QED
      BY <2>4, <2>5, GoesOn DEF IInv
  <2>7. /\ job' \in [Attempts -> Jobs]
        /\ \A y \in Attempts \ {x} : job'[y] = job[y]
    BY <2>6, SetJob DEF IInv
  <2>8. AttemptOK(x)'
    BY <1>1, <2>6, JobType DEF IInv, AttemptOK, At, WithItem, Listed
  <2> HIDE DEF pc
  <2>9. StateOK'
    <3>1. PICK c \in Records : c = s
      BY <2>2
    <3>2. RecordOK(c)'
      BY <1>1, <2>2, <3>1 DEF RecordOK, Listed, ClaimOp
    <3>4. /\ log' \in Seq(Records)
          /\ \A n \in 1..Len(log') : RecordOK(log[n])'
      BY <1>1, <1>2, <2>1, <3>1, <3>2, LogAppends DEF IInv
    <3>3. \A y \in Attempts : AttemptOK(y)'
      BY <1>1, <1>2, <2>7, <2>8, AttemptStays DEF IInv, StateOK
    <3> QED
      BY <1>1, <2>7, <3>4, <3>3 DEF IInv, StateOK
  <2>10. Closed(log')
    BY <2>1, <2>2, StaysClosed DEF IInv, StateOK
  <2>11. \A y \in Attempts : job'[y].at \in Gate => y = x
    BY <2>3, <2>7
  <2>12. Own' = {}
    BY <1>2, <2>3
  <2>13. OneCreates'
    BY <2>4, <2>6, <2>10, <2>11, <2>12 DEF OneCreates, At, Gate
  <2>14. OwnIsKnown'
    BY <2>12 DEF OwnIsKnown, Made
  <2> QED
    BY <2>9, <2>13, <2>14 DEF IInv
<1> QED
  BY <1>3, <1>4

LEMMA RejectKeeps ==
  ASSUME IInv, NEW x \in Attempts, Reject(x)
  PROVE  IInv'
<1> DEFINE s == Record(job[x].op, job[x].outcome, NoItem, job[x].outcome # "handoff", NoSnapshot)
<1>1. /\ scope' = scope /\ items' = items /\ At(x, "reject") /\ End(x)
      /\ log' = Appended(log, s)
  BY DEF Reject
<1>2. ItemsGrow /\ Own' = Own
  BY <1>1, SameItems DEF IInv, StateOK
<1>3. Own = {} /\ \A y \in Attempts \ {x} : job[y].at \notin Gate
  BY <1>1 DEF IInv, OneCreates, BeforeCreate, Gate, At
<1>4. Moves(x) \/ log' # log
  BY <1>1, <1>2, Ends DEF LogGrows
<1>5. ASSUME log' # log
      PROVE  IInv'
  <2>1. job[x].op \in Results /\ job[x].outcome \in Outcomes \ {"published"}
    BY <1>1, JobType DEF IInv, AttemptOK
  <2>2. /\ s \in Records /\ s.op \notin Claims /\ s.item = NoItem /\ s.snapshot = {NoItem}
        /\ s.outcome # "published"
    BY <2>1 DEF Record, Records, Results, Claims, Known, NoSnapshot
  <2>3. log' = Append(log, s)
    BY <1>1, <1>5, AppendedIs
  <2> HIDE DEF s
  <2>4. PICK c \in Records : c = s
    BY <2>2
  <2>12. RecordOK(c)'
    BY <2>2, <2>4 DEF RecordOK, Listed
  <2>5. /\ log' \in Seq(Records)
        /\ \A n \in 1..Len(log') : RecordOK(log[n])'
    BY <1>1, <1>2, <2>3, <2>4, <2>12, LogAppends DEF IInv
  <2>6. Ended \in Jobs /\ Ended.at = "ended" /\ Ended.snap = {} /\ Ended.item = NoItem
    BY NewJobType
  <2>7. /\ job' \in [Attempts -> Jobs] /\ job'[x] = Ended
        /\ \A y \in Attempts \ {x} : job'[y] = job[y]
    BY <1>1, <2>6, SetJob DEF IInv, End
  <2>8. AttemptOK(x)'
    BY <2>6, <2>7 DEF AttemptOK, At, WithItem, Listed
  <2>9. \A y \in Attempts : AttemptOK(y)'
    BY <1>1, <1>2, <2>7, <2>8, AttemptStays DEF IInv, StateOK
  <2>10. StateOK'
    BY <1>1, <2>5, <2>7, <2>9 DEF IInv, StateOK
  <2>11. \A y \in Attempts : job'[y].at \notin Gate
    BY <1>3, <2>6, <2>7 DEF Gate
  <2> QED
    BY <1>2, <1>3, <2>10, <2>11, AllQuiet
<1> QED
  BY <1>4, <1>5, MovesKeep

LEMMA RearmKeeps ==
  ASSUME IInv, Rearm
  PROVE  IInv'
<1> DEFINE s == Record("operator_retry_rearm", "unknown", NoItem, FALSE, NoSnapshot)
<1>1. /\ scope' = scope /\ items' = items /\ job' = job
      /\ log' = Appended(log, s) /\ Own = {} /\ \A x \in Attempts : ~Running(x)
  BY DEF Rearm
<1>2. ItemsGrow /\ Own' = Own
  BY <1>1, SameItems DEF IInv, StateOK
<1>3. /\ s \in Records /\ s.op \notin Claims /\ s.item = NoItem /\ s.snapshot = {NoItem}
      /\ s.outcome # "published"
  BY DEF Record, Records, Results, Outcomes, Claims, Known, NoSnapshot
<1>4. log' = log \/ log' = Append(log, s)
  BY <1>1, AppendedIs
<1> HIDE DEF s
<1>5. RecordOK(s)'
  BY <1>3 DEF RecordOK, Listed
<1>6. /\ log' \in Seq(Records)
      /\ \A n \in 1..Len(log') : RecordOK(log[n])'
  BY <1>1, <1>2, <1>3, <1>4, <1>5, LogAppends, LogStays DEF IInv
<1>7. \A y \in Attempts : AttemptOK(y)'
  BY <1>1, <1>2, AttemptStays DEF IInv, StateOK
<1>8. StateOK'
  BY <1>1, <1>6, <1>7 DEF IInv, StateOK
<1>9. \A y \in Attempts : job'[y].at \notin Gate
  BY <1>1 DEF Running, Gate
<1> QED
  BY <1>1, <1>2, <1>8, <1>9, AllQuiet

\* The provider, or another publication, does something to the items.
LEMMA ItemsMove ==
  ASSUME IInv, scope' = scope, log' = log, job' = job, ItemsGrow, Own' = Own
  PROVE  IInv'
<1>1. \A y \in Attempts : AttemptOK(y)'
  BY AttemptStays DEF IInv, StateOK
<1>2. /\ log' \in Seq(Records)
      /\ \A n \in 1..Len(log') : RecordOK(log[n])'
  BY LogStays DEF IInv
<1>3. StateOK'
  BY <1>1, <1>2 DEF IInv, StateOK, ItemsGrow
<1>4. ASSUME NEW x \in Attempts, OnlyOf(x)
      PROVE  OnlyOf(x)'
  BY <1>4, SameMakers DEF OnlyOf, IInv, StateOK
<1>5. OneCreates'
  BY <1>4 DEF IInv, OneCreates, At
<1>6. OwnIsKnown'
  BY StaysMade DEF IInv, StateOK, OwnIsKnown
<1> QED
  BY <1>3, <1>5, <1>6 DEF IInv

LEMMA CommitKeeps ==
  ASSUME IInv, NEW i \in DOMAIN items, Commit(i)
  PROVE  IInv'
<1> DEFINE r == [items[i] EXCEPT !.state = "untitled"]
<1>1. items \in Seq(Items)
  BY DEF IInv, StateOK
<1>2. i \in 1..Len(items)
  BY <1>1, LenProperties
<1>3. items[i] \in Items
  BY <1>1, <1>2, ItemType
<1>4. r \in Items /\ r.by = items[i].by /\ r.live = items[i].live
  BY <1>3 DEF Items
<1>5. items' = [items EXCEPT ![i] = r]
  BY DEF Commit
<1> HIDE DEF r
<1>6. ItemsGrow /\ Own' = Own
  BY <1>1, <1>2, <1>4, <1>5, ChangeItem
<1> QED
  BY <1>6, ItemsMove DEF Commit

LEMMA FaultKeeps ==
  ASSUME IInv, Fault
  PROVE  IInv'
<1>1. scope' = scope
  BY DEF Fault
<1>2. items' = items => ItemsGrow /\ Own' = Own
  BY SameItems DEF IInv, StateOK
<1>3. ASSUME NEW x \in Attempts, End(x), log' = log, items' = items
      PROVE  IInv'
  BY <1>1, <1>2, <1>3, Ends, MovesKeep DEF LogGrows
<1>4. ASSUME NEW x \in Attempts, At(x, "record"), log' = log, items' = items,
             job' = Finishing(x, "provider_mutation_failure", "unknown")
      PROVE  IInv'
  <2>1. job[x].item \in Listed
    BY JobType DEF IInv, AttemptOK
  <2>2. "provider_mutation_failure" \in Results /\ "unknown" \in Outcomes
    BY DEF Results, Outcomes
  <2> QED
    BY <1>1, <1>2, <1>4, <2>1, <2>2, Finishes, MovesKeep
<1>5. ASSUME NEW x \in Attempts, End(x), items' = items,
             log' = Appended(log, Record("create_episode_failure_fence", "unknown", NoItem, TRUE,
                                         NoSnapshot))
      PROVE  IInv'
  <2> DEFINE s == Record("create_episode_failure_fence", "unknown", NoItem, TRUE, NoSnapshot)
  <2>1. /\ s \in Records /\ s.op \notin Claims /\ s.item = NoItem /\ s.snapshot = {NoItem}
        /\ s.outcome # "published" /\ s.blocked
    BY DEF Record, Records, Results, Outcomes, Claims, Known, NoSnapshot
  <2>2. log' = log \/ log' = Append(log, s)
    BY <1>5, AppendedIs
  <2> HIDE DEF s
  <2>3. LogGrows
    BY <2>1, <2>2 DEF LogGrows, Listed
  <2> QED
    BY <1>1, <1>2, <1>5, <2>3, Ends, MovesKeep
<1>6. ASSUME items' = Append(items, Item(Nobody, "untitled")), log' = log, job' = job
      PROVE  IInv'
  <2> DEFINE r == Item(Nobody, "untitled")
  <2>1. r \in Items /\ ~r.live /\ r.by = Nobody /\ items \in Seq(Items)
    BY DEF Item, Items, IInv, StateOK
  <2>2. items' = Append(items, r)
    BY <1>6
  <2> HIDE DEF r
  <2>3. ItemsGrow /\ Own' = Own
    BY <2>1, <2>2, AppendItem
  <2> QED
    BY <1>1, <1>6, <2>3, ItemsMove
<1> QED
  BY <1>3, <1>4, <1>5, <1>6 DEF Fault

-----------------------------------------------------------------------------
(* The invariant, and what it says.                                        *)

LEMMA InitIInv ==
  ASSUME Init
  PROVE  IInv
<1>1. Len(log) = 0 /\ Len(items) = 0 /\ DOMAIN items = {}
  BY DEF Init
<1>2. NewJob \in Jobs /\ NewJob.at = "new" /\ NewJob.snap = {} /\ NewJob.item = NoItem
  BY NewJobType
<1>3. Own = {}
  BY <1>1 DEF Own
<1>4. \A x \in Attempts : AttemptOK(x)
  BY <1>2 DEF Init, AttemptOK, At, WithItem, Listed
<1>5. StateOK
  BY <1>1, <1>2, <1>4, PublishAssumption DEF StateOK, Init
<1>6. OneCreates
  BY <1>2 DEF Init, OneCreates, Gate, BeforeCreate, At
<1> QED
  BY <1>3, <1>5, <1>6 DEF IInv, OwnIsKnown, Made

LEMMA NextIInv ==
  ASSUME IInv, [Next]_vars
  PROVE  IInv'
<1>1. CASE \E x \in Attempts : Attempting(x)
  <2>1. PICK x \in Attempts : Attempting(x)
    BY <1>1
  <2>2. CASE Claim(x)
    BY <2>2, ClaimKeeps
  <2>3. CASE Reject(x)
    BY <2>3, RejectKeeps
  <2>4. CASE ~Claim(x) /\ ~Reject(x)
    <3>1. Moves(x)
      BY <2>1, <2>4, ReadMoves, ListMoves, SurveyMoves, PostMoves, RecoverMoves,
         RecoverUnreadMoves, KeepMoves, TitleMoves, UploadMoves, DescribeMoves, ConfirmMoves,
         FinishMoves DEF Attempting
    <3> QED
      BY <3>1, MovesKeep
  <2> QED
    BY <2>2, <2>3, <2>4
<1>2. CASE \E i \in DOMAIN items : Commit(i)
  BY <1>2, CommitKeeps
<1>3. CASE Rearm
  BY <1>3, RearmKeeps
<1>4. CASE Fault
  BY <1>4, FaultKeeps
<1>5. CASE UNCHANGED vars
  <2>1. scope' = scope /\ log' = log /\ items' = items /\ job' = job
    BY <1>5 DEF vars
  <2>2. ItemsGrow /\ Own' = Own
    BY <2>1, SameItems DEF IInv, StateOK
  <2> QED
    BY <2>1, <2>2, ItemsMove
<1> QED
  BY <1>1, <1>2, <1>3, <1>4, <1>5 DEF Next, Steps

\* Every reachable state satisfies the strengthening of the properties below: the single
\* attempt between its claim and the outcome of its create, and what its recovery can find.
THEOREM PublishInductive == Spec => []IInv
<1>1. Init => IInv
  BY InitIInv
<1>2. IInv /\ [Next]_vars => IInv'
  BY NextIInv
<1> QED
  BY <1>1, <1>2, PTL DEF Spec

\* publish.py and job_runner.py, the claims: one attempt makes all there is of a
\* publication, one item, or two drafts of a Spotify video.
THEOREM OneItem == Spec => []CreatedOnce
<1>1. ASSUME IInv
      PROVE  CreatedOnce
  <2>1. Made
    BY <1>1 DEF IInv, OwnIsKnown
  <2>2. CASE Own = {}
    BY <2>2, FS_EmptySet DEF CreatedOnce
  <2>3. CASE Own # {}
    <3>1. PICK i, j \in Own : Own = {i, j} /\ (scope # "video" => i = j)
      BY <2>1, <2>3 DEF Made
    <3>2. CASE i = j
      <4>1. Own = {i}
        BY <3>1, <3>2
      <4>2. Cardinality(Own) = 1
        BY <4>1, FS_Singleton
      <4> QED
        BY <2>1, <4>2 DEF CreatedOnce, Made
    <3>3. CASE i # j
      <4>1. Own = {i} \cup {j} /\ j \notin {i} /\ scope = "video"
        BY <3>1, <3>3
      <4>2. IsFiniteSet({i}) /\ Cardinality({i}) = 1
        BY FS_Singleton
      <4>3. Cardinality({i} \cup {j}) = 2
        BY <4>1, <4>2, FS_AddElement
      <4>4. Cardinality(Own) = 2
        BY <4>1, <4>3
      <4> QED
        BY <2>1, <4>1, <4>4 DEF CreatedOnce, Made
    <3> QED
      BY <3>2, <3>3
  <2> QED
    BY <2>2, <2>3
<1>2. IInv => CreatedOnce
  BY <1>1
<1> QED
  BY <1>2, PublishInductive, PTL

\* publication_state.py: an item that exists is named by the evidence, blocks every retry,
\* or is found by the listing of the claim that is left.
THEOREM NeverForgotten == Spec => []ArtifactIsRemembered
<1>1. ASSUME IInv
      PROVE  ArtifactIsRemembered
  <2> SUFFICES ASSUME NEW i \in Own, ~RetryIsBlocked(log)
               PROVE  UnresolvedSnapshot(log) # NoSnapshot /\ i \notin UnresolvedSnapshot(log)
    BY DEF ArtifactIsRemembered
  <2>1. log \in Seq(Records) /\ Closed(log)
    BY <1>1 DEF IInv, StateOK, OwnIsKnown
  <2>2. Len(log) \in 1..Len(log) /\ DOMAIN log = 1..Len(log) /\ Len(log) \in Nat /\ log # <<>>
    BY <2>1, LenProperties, EmptySeq DEF Closed
  <2>3. Last(log).op \in Claims /\ Last(log) = log[Len(log)]
    BY <2>1, <2>2 DEF Closed, RetryIsBlocked, Last
  <2>4. ~Last(log).blocked /\ RecordOK(Last(log))
    BY <1>1, <2>2, <2>3 DEF IInv, StateOK, RetryIsBlocked
  <2>5. Last(log).op = "create_episode_intent"
    BY <1>1, <2>3, <2>4 DEF RecordOK, ClaimOp
  <2>6. Len(log) \in UnresolvedClaims(log)
    BY <2>2, <2>3, <2>5 DEF UnresolvedClaims
  <2>7. \A n \in UnresolvedClaims(log) : Len(log) >= n
    BY <2>2 DEF UnresolvedClaims
  <2>8. Max(UnresolvedClaims(log)) = Len(log)
    <3>1. \A n \in UnresolvedClaims(log) : n \in Nat
      BY <2>2 DEF UnresolvedClaims
    <3> QED
      BY <2>2, <2>6, <2>7, <3>1 DEF Max
  <2>9. UnresolvedSnapshot(log) = Last(log).snapshot
    BY <2>3, <2>6, <2>8 DEF UnresolvedSnapshot
  <2>10. i \notin Last(log).snapshot
    BY <1>1, <2>3 DEF IInv, OwnIsKnown
  <2>11. Last(log).snapshot # NoSnapshot
    BY <2>3, <2>4, <2>5 DEF RecordOK, NoSnapshot, ClaimOp
  <2> QED
    BY <2>9, <2>10, <2>11
<1>2. IInv => ArtifactIsRemembered
  BY <1>1
<1> QED
  BY <1>2, PublishInductive, PTL

\* publish.py, the go-live: an episode that the evidence calls published is live.
THEOREM PublishedStaysLive == Spec => []PublishedIsLive
<1>1. ASSUME IInv
      PROVE  PublishedIsLive
  <2>1. DOMAIN log = 1..Len(log)
    BY <1>1, LenProperties DEF IInv, StateOK
  <2> QED
    BY <1>1, <2>1 DEF IInv, StateOK, RecordOK, PublishedIsLive
<1>2. IInv => PublishedIsLive
  BY <1>1
<1> QED
  BY <1>2, PublishInductive, PTL
=============================================================================
