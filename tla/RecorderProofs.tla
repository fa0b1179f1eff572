--------------------------- MODULE RecorderProofs ---------------------------
(***************************************************************************)
(* Proofs about Recorder, for every number of clips, executions, messages, *)
(* recordings and faults.                                                  *)
(***************************************************************************)
EXTENDS Recorder, SequenceTheorems, FiniteSetTheorems, TLAPS

-----------------------------------------------------------------------------
(* The inductive invariant.                                                *)

Media == Nat \cup {Static, NoMedia}

Docs == [status : {"none", "success", "fallback", "insufficient"}, media : Media]

\* Where an execution works at a clip.
ClipSteps == {"setup", "capture", "upload", "look", "draw", "commit", "write", "won", "lost",
              "failed", "dispose"}
Phases == ClipSteps \cup {"idle", "plan", "fanout", "wait", "terminalize", "assemble", "resume",
                          "render", "compose", "clean"}

Locals == [at : Phases, clip : Clips \cup {Nobody}, msg : Nat, count : Nat, adm : Nat,
           doc : Docs, seen : Docs, wrote : BOOLEAN, todo : SUBSET Clips]

ClipMessages == [state : {"unsent", "visible", "held", "deleted"}, clip : Clips \cup {Nobody},
                 by : Recorders \cup {Nobody}, count : Nat]

Tallies == [failed : SUBSET (Nat \X Nat), count : Nat]

Lifetimes == {"open", "final", "over"}

TypeOK ==
  /\ stage \in {"fanin", "fallback", "render", "over"}
  /\ queue \in [1..MaxMessages -> ClipMessages] /\ sent \in 0..MaxMessages
  /\ lives \in [Clips -> Seq(Lifetimes)] /\ adm \in [Clips -> Nat]
  /\ attempts \in [Clips -> Tallies]
  /\ media \in [Clips -> SUBSET Media] /\ manifest \in [Clips -> Docs]
  /\ recorded \in 0..MaxRecordings
  /\ run \in [Actors -> Locals]
  /\ finished \in BOOLEAN

\* A message that was sent is of a clip; one that was given up, of a clip with a manifest.
QueueOK ==
  /\ \A m \in 1..sent : queue[m].clip \in Clips
  /\ \A m \in 1..MaxMessages : m > sent => queue[m].state = "unsent"
  /\ GivenUpIsTerminal

\* What an execution holds: a recorder the clip of its message, before a commit the
\* media it will refer to, after it a clip that has a manifest.
RowOK(a, r) ==
  /\ a \in Recorders /\ r.at # "idle" => r.msg \in 1..sent /\ r.clip = queue[r.msg].clip
  /\ r.at \in ClipSteps => r.clip \in Clips
  /\ r.at \in {"upload", "draw", "commit", "write", "won", "lost"} => r.doc.status # "none"
  /\ r.at \in {"won", "lost", "dispose"} => finished \/ manifest[r.clip] # NoManifest
  /\ r.at \in {"commit", "write"} /\ r.doc.media \in Nat =>
       finished \/ r.doc.media \in media[r.clip]
  /\ r.doc.media \in Nat => r.doc.media <= recorded /\ r.at # "draw"
  /\ r.at = "clean" => finished

RunOK(a) == RowOK(a, run[a])

\* A recording is the work of one execution, and is kept for its manifest.
RecordingsOK ==
  /\ \A a, b \in Actors :
       run[a].doc.media \in Nat /\ run[a].doc.media = run[b].doc.media => a = b
  /\ \A c \in Clips : ~finished /\ manifest[c].media \in Nat => manifest[c].media \in media[c]

CountsOK ==
  /\ \A c \in Clips : IsFiniteSet(attempts[c].failed)
  /\ FailuresCountOnce

IInv ==
  /\ TypeOK /\ QueueOK /\ RecordingsOK /\ CountsOK
  /\ \A a \in Actors : RunOK(a)

-----------------------------------------------------------------------------
(* Any step of one execution but the cleanup.                              *)

\* A manifest is only created, by an execution that commits its document.
ManifestMoves(a) ==
  \A c \in Clips :
    \/ manifest'[c] = manifest[c]
    \/ /\ manifest[c] = NoManifest /\ manifest'[c] = run[a].doc
       /\ At(a, "write") /\ c = run[a].clip

\* Content is only deleted that is a fallback card, or the loser's own.
MediaMoves(a) ==
  \A c \in Clips : \A x \in media[c] :
    \/ x \in media'[c]
    \/ x = Static
    \/ At(a, "lost") /\ c = run[a].clip /\ x = run[a].doc.media /\ manifest[c].media # x

\* A message keeps its clip, and is only given up when the clip has a manifest.
QueueMoves ==
  /\ sent <= sent'
  /\ \A m \in 1..sent : queue'[m].clip = queue[m].clip
  /\ \A m \in 1..sent' : queue'[m].clip \in Clips
  /\ \A m \in 1..MaxMessages : m > sent' => queue'[m].state = "unsent"
  /\ \A m \in 1..MaxMessages :
       queue'[m].state = "deleted" =>
         \/ queue[m].state = "deleted"
         \/ m \in 1..sent /\ (finished \/ manifest[queue[m].clip] # NoManifest)

\* What no other execution depends on.
Aside ==
  /\ stage' \in {"fanin", "fallback", "render", "over"}
  /\ lives' \in [Clips -> Seq(Lifetimes)] /\ adm' \in [Clips -> Nat]
  /\ attempts' \in [Clips -> Tallies] /\ CountsOK'

Moves(a) ==
  /\ TypeOK' /\ CountsOK' /\ RunOK(a)'
  /\ \A b \in Actors \ {a} : run'[b] = run[b]
  /\ ManifestMoves(a) /\ MediaMoves(a) /\ QueueMoves
  /\ recorded <= recorded'
  /\ run'[a].doc.media \in Nat =>
       run'[a].doc.media = run[a].doc.media \/ recorded < run'[a].doc.media
  /\ finished => finished'

\* The limits are numbers, and what is no recording is none.
LEMMA Limits ==
  /\ MaxMessages \in Nat /\ MaxRecordings \in Nat /\ MaxDequeue \in Nat
  /\ Static \notin Nat /\ NoMedia \notin Nat
  /\ \A m \in 0..MaxMessages : m \in Nat
  /\ \A n \in 0..MaxRecordings : n \in Nat
  BY RecorderAssumption

\* Under those conditions the invariant is kept.
LEMMA MovesKeep ==
  ASSUME IInv, NEW a \in Actors, Moves(a)
  PROVE  IInv'
<1>1. TypeOK /\ TypeOK' /\ CountsOK' /\ (finished => finished') /\ recorded <= recorded'
  BY DEF IInv, Moves
<1>2. \A c \in Clips : manifest[c] # NoManifest => manifest'[c] = manifest[c]
  BY DEF Moves, ManifestMoves
<1>3. sent <= sent' /\ sent \in 0..MaxMessages /\ sent' \in 0..MaxMessages
  BY DEF IInv, Moves, QueueMoves, TypeOK
<1>4. 1..sent \subseteq 1..sent' /\ 1..sent \subseteq 1..MaxMessages
  BY <1>3, Limits
<1>5. QueueOK'
  <2>1. ASSUME NEW m \in 1..MaxMessages, queue'[m].state = "deleted", ~finished'
        PROVE  manifest'[queue'[m].clip] # NoManifest
    <3>1. m \in 1..sent
      <4>1. queue[m].state = "deleted" => m <= sent
        BY <1>3, Limits DEF IInv, QueueOK
      <4>2. m <= sent => m \in 1..sent
        BY <1>3, Limits
      <4> QED
        BY <2>1, <4>1, <4>2 DEF Moves, QueueMoves
    <3>2. queue'[m].clip = queue[m].clip /\ queue[m].clip \in Clips
      BY <3>1 DEF IInv, QueueOK, Moves, QueueMoves
    <3>3. ~finished
      BY <1>1, <2>1
    <3>4. manifest[queue[m].clip] # NoManifest
      BY <2>1, <3>3 DEF IInv, QueueOK, GivenUpIsTerminal, Moves, QueueMoves
    <3> QED
      BY <1>2, <3>2, <3>4
  <2>2. GivenUpIsTerminal'
    BY <2>1 DEF GivenUpIsTerminal
  <2> QED
    BY <2>2 DEF QueueOK, Moves, QueueMoves
<1>6. ASSUME NEW b \in Actors
      PROVE  RunOK(b)'
  <2>1. CASE b = a
    BY <2>1 DEF Moves
  <2>2. CASE b # a
    <3>1. run'[b] = run[b] /\ RunOK(b) /\ run[b] \in Locals
      BY <2>2 DEF IInv, TypeOK, Moves
    <3>2. b \in Recorders /\ ~At(b, "idle") =>
            run[b].msg \in 1..sent' /\ run[b].clip = queue'[run[b].msg].clip
      BY <1>4, <3>1 DEF RunOK, RowOK, At, Moves, QueueMoves
    <3>3. run[b].doc.media \in Nat => run[b].doc.media <= recorded'
      <4>1. recorded \in Nat /\ recorded' \in Nat
        BY <1>1, Limits DEF TypeOK
      <4> QED
        BY <1>1, <3>1, <4>1 DEF RunOK, RowOK
    <3>4. ASSUME run[b].at \in {"commit", "write"}, run[b].doc.media \in Nat, ~finished'
          PROVE  run[b].doc.media \in media'[run[b].clip]
      <4>1. run[b].clip \in Clips /\ run[b].doc.media \in media[run[b].clip]
        BY <1>1, <3>1, <3>4 DEF RunOK, RowOK, ClipSteps
      <4>2. run[b].doc.media # Static /\ run[b].doc.media # run[a].doc.media
        BY <2>2, <3>4, Limits DEF IInv, RecordingsOK
      <4> QED
        BY <4>1, <4>2 DEF Moves, MediaMoves
    <3>5. run[b].at \in {"won", "lost", "dispose"} =>
            finished' \/ manifest'[run[b].clip] # NoManifest
      BY <1>1, <1>2, <3>1 DEF RunOK, RowOK, ClipSteps
    <3>6. RowOK(b, run[b])
      BY <3>1 DEF RunOK
    <3> QED
      BY <1>1, <3>1, <3>2, <3>3, <3>4, <3>5, <3>6 DEF RunOK, RowOK, At
  <2> QED
    BY <2>1, <2>2
<1>7. RecordingsOK'
  <2>1. ASSUME NEW b \in Actors \ {a}, run'[a].doc.media \in Nat
        PROVE  run'[a].doc.media # run'[b].doc.media
    <3>1. run'[b] = run[b] /\ RunOK(b) /\ recorded \in Nat
      BY Limits DEF IInv, TypeOK, Moves
    <3>2. CASE run'[a].doc.media = run[a].doc.media
      BY <2>1, <3>1, <3>2 DEF IInv, RecordingsOK
    <3>3. CASE recorded < run'[a].doc.media
      <4>1. run[b].doc.media \in Nat => run[b].doc.media <= recorded
        BY <3>1 DEF RunOK, RowOK
      <4> QED
        BY <2>1, <3>1, <3>3, <4>1
    <3> QED
      BY <2>1, <3>2, <3>3 DEF Moves
  <2>2. \A b, d \in Actors :
          run'[b].doc.media \in Nat /\ run'[b].doc.media = run'[d].doc.media => b = d
    BY <2>1 DEF IInv, RecordingsOK, Moves
  <2>3. ASSUME NEW c \in Clips, ~finished', manifest'[c].media \in Nat
        PROVE  manifest'[c].media \in media'[c]
    <3>1. ~finished /\ Static # manifest'[c].media
      BY <1>1, <2>3, Limits
    <3>2. CASE manifest'[c] = manifest[c]
      BY <2>3, <3>1, <3>2 DEF IInv, RecordingsOK, Moves, MediaMoves
    <3>3. CASE manifest'[c] # manifest[c]
      <4>1. At(a, "write") /\ c = run[a].clip /\ manifest'[c] = run[a].doc
        BY <3>3 DEF Moves, ManifestMoves
      <4>2. run[a].doc.media \in media[c]
        BY <2>3, <3>1, <4>1 DEF IInv, RunOK, RowOK, At
      <4> QED
        BY <3>1, <4>1, <4>2 DEF Moves, MediaMoves, At
    <3> QED
      BY <3>2, <3>3
  <2> QED
    BY <2>2, <2>3 DEF RecordingsOK
<1> QED
  BY <1>1, <1>5, <1>6, <1>7 DEF IInv

-----------------------------------------------------------------------------
(* What a step makes of an execution.                                      *)

\* One execution is set, the others stay.
LEMMA SetRow ==
  ASSUME TypeOK, NEW a \in Actors, NEW r \in Locals, run' = [run EXCEPT ![a] = r]
  PROVE  /\ run' \in [Actors -> Locals] /\ run'[a] = r
         /\ \A b \in Actors \ {a} : run'[b] = run[b]
  BY DEF TypeOK

\* The row of an execution has the fields of one, and its clip a manifest.
LEMMA RowType ==
  ASSUME TypeOK, NEW a \in Actors
  PROVE  run[a] \in Locals /\ (run[a].clip \in Clips => manifest[run[a].clip] \in Docs)
  BY DEF TypeOK

\* An execution at rest holds nothing.
LEMMA IdleType ==
  /\ NoManifest \in Docs /\ NoManifest.status = "none" /\ NoManifest.media = NoMedia
  /\ Idle \in Locals /\ Idle.at = "idle" /\ Idle.doc = NoManifest
  BY DEF Idle, NoManifest, Locals, Docs, Media, Phases

\* What is aside does not change.
LEMMA SameAside ==
  ASSUME TypeOK, CountsOK, UNCHANGED <<stage, lives, adm, attempts>>
  PROVE  Aside
  BY DEF Aside, TypeOK, CountsOK, FailuresCountOnce

\* A step that leaves the queue, the recordings and the job alone.
LEMMA WorkMoves ==
  ASSUME IInv, NEW a \in Actors, UNCHANGED <<queue, sent, recorded, finished>>, Aside,
         ManifestMoves(a), MediaMoves(a),
         media' \in [Clips -> SUBSET Media], manifest' \in [Clips -> Docs],
         NEW r \in Locals, run' = [run EXCEPT ![a] = r], RunOK(a)',
         r.doc.media \in Nat => r.doc.media = run[a].doc.media
  PROVE  Moves(a)
<1>1. /\ run' \in [Actors -> Locals] /\ run'[a] = r
      /\ \A b \in Actors \ {a} : run'[b] = run[b]
  BY SetRow DEF IInv
<1>2. TypeOK'
  BY <1>1 DEF IInv, TypeOK, Aside
<1>3. sent \in Nat /\ recorded \in Nat
  BY Limits DEF IInv, TypeOK
<1>4. QueueMoves
  BY <1>3 DEF IInv, QueueOK, QueueMoves
<1> QED
  BY <1>1, <1>2, <1>3, <1>4 DEF Moves, Aside

\* A step of an execution by itself.
LEMMA LocalMoves ==
  ASSUME IInv, NEW a \in Actors, UNCHANGED <<queue, sent, recorded, finished, media, manifest>>,
         Aside, NEW r \in Locals, run' = [run EXCEPT ![a] = r], RowOK(a, r),
         r.doc.media \in Nat => r.doc.media = run[a].doc.media
  PROVE  Moves(a)
<1>1. ManifestMoves(a) /\ MediaMoves(a)
  BY DEF ManifestMoves, MediaMoves
<1>2. media' \in [Clips -> SUBSET Media] /\ manifest' \in [Clips -> Docs]
  BY DEF IInv, TypeOK
<1>3. run'[a] = r
  BY SetRow DEF IInv
<1>4. RunOK(a)'
  BY <1>3 DEF RunOK, RowOK
<1> QED
  BY <1>1, <1>2, <1>4, WorkMoves

\* An execution that goes on keeps what it holds.
LEMMA GoesOn ==
  ASSUME TypeOK, NEW a \in Actors, NEW pc \in Phases, Goto(a, pc)
  PROVE  \E r \in Locals :
           /\ run' = [run EXCEPT ![a] = r] /\ run'[a] = r
           /\ r.at = pc /\ r.doc = run[a].doc /\ r.clip = run[a].clip /\ r.msg = run[a].msg
<1> DEFINE r == [run[a] EXCEPT !.at = pc]
<1>1. r \in Locals /\ r.at = pc /\ r.doc = run[a].doc /\ r.clip = run[a].clip /\ r.msg = run[a].msg
  BY RowType DEF Locals
<1>2. run' = [run EXCEPT ![a] = r] /\ run'[a] = r
  BY DEF Goto, TypeOK
<1> QED
  BY <1>1, <1>2

\* An execution that is through with a clip.
LEMMA OnwardIs ==
  ASSUME TypeOK, NEW a \in Actors, Onward(a)
  PROVE  \E r \in Locals :
           /\ run' = [run EXCEPT ![a] = r] /\ run'[a] = r
           /\ r.doc = NoManifest /\ r.msg = run[a].msg
           /\ a \in Editors => r.at = "terminalize"
           /\ a \notin Editors => r.at = "dispose" /\ r.clip = run[a].clip
<1> DEFINE pc == IF a \in Editors THEN "terminalize" ELSE "dispose"
           clip == IF a \in Editors THEN Nobody ELSE run[a].clip
           r == [run[a] EXCEPT !.at = pc, !.todo = run[a].todo \ {run[a].clip}, !.clip = clip,
                               !.doc = NoManifest, !.seen = NoManifest, !.wrote = FALSE]
<1>1. run[a] \in Locals /\ NoManifest \in Docs
  BY RowType, IdleType
<1>2. pc \in Phases
  BY DEF Phases, ClipSteps
<1>3. run' = [run EXCEPT ![a] = r]
  BY DEF Onward, TypeOK
<1>4. clip \in Clips \cup {Nobody}
  BY <1>1 DEF Locals
<1>5. (a \in Editors => pc = "terminalize") /\ (a \notin Editors => pc = "dispose" /\ clip = run[a].clip)
  OBVIOUS
<1> HIDE DEF pc, clip
<1>6. /\ r \in Locals /\ r.at = pc /\ r.clip = clip /\ r.doc = NoManifest /\ r.msg = run[a].msg
  BY <1>1, <1>2, <1>4 DEF Locals
<1> HIDE DEF r
<1>7. run'[a] = r
  BY <1>3 DEF TypeOK
<1> QED
  BY <1>3, <1>5, <1>6, <1>7

\* The execution ends.
LEMMA LeaveMoves ==
  ASSUME IInv, NEW a \in Actors, UNCHANGED <<queue, sent, recorded, finished, manifest>>, Aside,
         MediaMoves(a), media' \in [Clips -> SUBSET Media], Leave(a)
  PROVE  Moves(a)
<1>1. /\ Idle \in Locals /\ Idle.at = "idle" /\ Idle.doc = NoManifest
      /\ NoManifest.media = NoMedia
  BY IdleType
<1>2. run' = [run EXCEPT ![a] = Idle] /\ run'[a] = Idle
  BY DEF Leave, IInv, TypeOK
<1>3. ManifestMoves(a) /\ manifest' \in [Clips -> Docs]
  BY DEF ManifestMoves, IInv, TypeOK
<1>4. RunOK(a)'
  BY <1>1, <1>2, Limits DEF RunOK, RowOK, ClipSteps
<1> QED
  BY <1>1, <1>2, <1>3, <1>4, Limits, WorkMoves

\* The exception that leaves the process.
LEMMA RaiseMoves ==
  ASSUME IInv, NEW a \in Actors, Raise(a), MediaMoves(a), media' \in [Clips -> SUBSET Media]
  PROVE  Moves(a)
  BY SameAside, LeaveMoves DEF Raise, IInv

\* The content does not change.
LEMMA SameMedia ==
  ASSUME IInv, NEW a, media' = media
  PROVE  MediaMoves(a) /\ media' \in [Clips -> SUBSET Media]
  BY DEF MediaMoves, IInv, TypeOK

-----------------------------------------------------------------------------
(* The recorder.                                                           *)

\* An execution that goes on with its clip holds what the new place asks for.
LEMMA WorkRow ==
  ASSUME IInv, NEW a \in Actors, run[a].at \in ClipSteps,
         NEW r \in Locals, r.at \in ClipSteps, r.clip = run[a].clip, r.msg = run[a].msg,
         r.at \in {"upload", "draw", "commit", "write", "won", "lost"} => r.doc.status # "none",
         r.at \in {"won", "lost", "dispose"} => finished \/ manifest[r.clip] # NoManifest,
         r.at \in {"commit", "write"} /\ r.doc.media \in Nat =>
           finished \/ r.doc.media \in media[r.clip],
         r.doc.media \in Nat => r.doc.media = run[a].doc.media /\ r.at # "draw"
  PROVE  RowOK(a, r)
<1>1. run[a].at # "idle" /\ r.at # "clean"
  BY DEF ClipSteps
<1> QED
  BY <1>1 DEF IInv, RunOK, RowOK

\* The step of an execution that works at a clip is local.
LEMMA WorksOn ==
  ASSUME IInv, NEW a \in Actors, run[a].at \in ClipSteps, Aside,
         UNCHANGED <<queue, sent, recorded, finished, media, manifest>>,
         NEW r \in Locals, run' = [run EXCEPT ![a] = r],
         r.at \in ClipSteps, r.clip = run[a].clip, r.msg = run[a].msg,
         r.at \in {"upload", "draw", "commit", "write", "won", "lost"} => r.doc.status # "none",
         r.at \in {"won", "lost", "dispose"} => finished \/ manifest[r.clip] # NoManifest,
         r.at \in {"commit", "write"} /\ r.doc.media \in Nat =>
           finished \/ r.doc.media \in media[r.clip],
         r.doc.media \in Nat => r.doc.media = run[a].doc.media /\ r.at # "draw"
  PROVE  Moves(a)
  BY WorkRow, LocalMoves

\* A recorder knows the clip it works at.
LEMMA AtClip ==
  ASSUME IInv, NEW a \in Actors, run[a].at \in ClipSteps
  PROVE  run[a].clip \in Clips /\ run[a] \in Locals /\ manifest[run[a].clip] \in Docs
  BY RowType DEF IInv, RunOK, RowOK

\* A plan that cannot be used ends the execution, and nothing else.
LEMMA BadSetupMoves ==
  ASSUME IInv, NEW r \in Recorders, BadSetup(r)
  PROVE  Moves(r)
  BY SameAside, SameMedia, LeaveMoves DEF BadSetup, clipVars, Actors, IInv

\* The setup admits the clip and decides; it disposes only of a clip with a manifest.
LEMMA SetupMoves ==
  ASSUME IInv, NEW r \in Recorders, Setup(r)
  PROVE  Moves(r)
<1> DEFINE c == run[r].clip
           n == IF adm[c] = 0 THEN Len(lives[c]) + 1 ELSE adm[c]
           life == IF adm[c] = 0 THEN Append(lives[c], Capped("open", stage)) ELSE lives[c]
           next == IF manifest[c] # NoManifest THEN "dispose"
                   ELSE IF \/ run[r].count >= MaxDequeue
                           \/ attempts[c].count >= FailedLimit
                           \/ life[n] # "open"
                          THEN "look" ELSE "capture"
           row == [run[r] EXCEPT !.at = next, !.adm = n]
<1>1. r \in Actors /\ run[r].at = "setup" /\ run[r].at \in ClipSteps
  BY DEF Setup, Actors, At, ClipSteps
<1>2. c \in Clips /\ run[r] \in Locals
  BY <1>1, AtClip
<1>3. lives[c] \in Seq(Lifetimes) /\ adm[c] \in Nat
  BY <1>2 DEF IInv, TypeOK
<1>4. n \in Nat
  <2>1. Len(lives[c]) \in Nat
    BY <1>3, LenProperties
  <2> QED
    BY <1>3, <2>1
<1>5. life \in Seq(Lifetimes)
  <2>1. Capped("open", stage) \in Lifetimes
    BY DEF Capped, Lifetimes
  <2> QED
    BY <1>3, <2>1, AppendProperties
<1>6. next \in {"dispose", "look", "capture"} /\ (next = "dispose" => manifest[c] # NoManifest)
  OBVIOUS
<1>7. /\ adm' = [adm EXCEPT ![c] = n] /\ lives' = [lives EXCEPT ![c] = life]
      /\ run' = [run EXCEPT ![r].at = next, ![r].adm = n]
      /\ UNCHANGED <<stage, queue, sent, attempts, media, manifest, recorded, finished>>
  BY DEF Setup
<1> HIDE DEF n, life, next
<1>8. Aside
  BY <1>2, <1>4, <1>5, <1>7 DEF Aside, IInv, TypeOK, CountsOK, FailuresCountOnce
<1>9. run' = [run EXCEPT ![r] = row]
  BY <1>1, <1>7 DEF IInv, TypeOK
<1>10. /\ row \in Locals /\ row.at = next /\ row.clip = c /\ row.msg = run[r].msg
       /\ row.doc = run[r].doc
  BY <1>2, <1>4, <1>6 DEF Locals, Phases, ClipSteps
<1> HIDE DEF row
<1>11. row.at \in ClipSteps
  BY <1>6, <1>10 DEF ClipSteps
<1> QED
  BY <1>1, <1>6, <1>7, <1>8, <1>9, <1>10, <1>11, WorksOn

\* An execution that found the manifest is through with the clip.
LEMMA OnwardMoves ==
  ASSUME IInv, NEW a \in Actors, run[a].at \in ClipSteps, Onward(a),
         finished \/ manifest[run[a].clip] # NoManifest, Aside, MediaMoves(a),
         UNCHANGED <<queue, sent, recorded, finished, manifest>>,
         media' \in [Clips -> SUBSET Media]
  PROVE  Moves(a)
<1>1. PICK r \in Locals :
        /\ run' = [run EXCEPT ![a] = r] /\ run'[a] = r
        /\ r.doc = NoManifest /\ r.msg = run[a].msg
        /\ a \in Editors => r.at = "terminalize"
        /\ a \notin Editors => r.at = "dispose" /\ r.clip = run[a].clip
  BY OnwardIs DEF IInv
<1>2. r.doc.media \notin Nat
  BY <1>1, IdleType, Limits
<1>3. RowOK(a, r)
  <2>1. CASE a \in Editors
    <3>1. a \notin Recorders
      BY <2>1, RecorderAssumption
    <3> QED
      BY <1>1, <1>2, <2>1, <3>1 DEF RowOK, ClipSteps
  <2>2. CASE a \notin Editors
    <3>1. r.at = "dispose" /\ r.clip = run[a].clip /\ run[a].at # "idle"
      BY <1>1, <2>2 DEF ClipSteps
    <3> QED
      BY <1>1, <1>2, <3>1 DEF IInv, RunOK, RowOK
  <2> QED
    BY <2>1, <2>2
<1>4. RunOK(a)'
  <2>1. \A c \in Clips : manifest'[c] = manifest[c]
    OBVIOUS
  <2> QED
    BY <1>1, <1>2, <1>3 DEF RunOK, RowOK
<1>5. ManifestMoves(a) /\ manifest' \in [Clips -> Docs]
  BY DEF ManifestMoves, IInv, TypeOK
<1> QED
  BY <1>1, <1>2, <1>4, <1>5, WorkMoves

\* An execution that goes on to a place where it holds nothing new.
LEMMA GotoMoves ==
  ASSUME IInv, NEW a \in Actors, run[a].at \in ClipSteps, NEW pc \in {"capture", "look", "failed"},
         Goto(a, pc), Aside, UNCHANGED <<queue, sent, recorded, finished, media, manifest>>
  PROVE  Moves(a)
<1>1. pc \in Phases /\ pc \in ClipSteps
  BY DEF Phases, ClipSteps
<1>2. PICK r \in Locals :
        /\ run' = [run EXCEPT ![a] = r] /\ run'[a] = r
        /\ r.at = pc /\ r.doc = run[a].doc /\ r.clip = run[a].clip /\ r.msg = run[a].msg
  BY <1>1, GoesOn DEF IInv
<1> QED
  BY <1>1, <1>2, WorksOn

\* The recording: only a new one is taken up, under a number no execution has.
LEMMA CaptureMoves ==
  ASSUME IInv, NEW r \in Recorders, Capture(r)
  PROVE  Moves(r)
<1>1. r \in Actors /\ run[r].at = "capture" /\ run[r].at \in ClipSteps
  BY DEF Capture, Actors, At, ClipSteps
<1>2. Aside /\ UNCHANGED <<queue, sent, media, manifest, finished>>
  BY SameAside DEF Capture, clipVars, IInv
<1>3. MediaMoves(r) /\ media' \in [Clips -> SUBSET Media] /\ ManifestMoves(r)
  BY <1>2, SameMedia DEF ManifestMoves
<1>4. ASSUME recorded < MaxRecordings, recorded' = recorded + 1, NEW s \in Results,
             run' = [run EXCEPT ![r].at = "upload",
                                ![r].doc = [status |-> s, media |-> recorded + 1]]
      PROVE  Moves(r)
  <2> DEFINE doc == [status |-> s, media |-> recorded + 1]
             row == [run[r] EXCEPT !.at = "upload", !.doc = doc]
  <2>1. recorded \in Nat /\ recorded' \in 0..MaxRecordings
    BY <1>4, Limits DEF IInv, TypeOK
  <2>2. doc \in Docs /\ doc.status # "none" /\ doc.media = recorded + 1
    BY <2>1, RecorderAssumption DEF Docs, Media
  <2>3. run' = [run EXCEPT ![r] = row]
    BY <1>1, <1>4 DEF IInv, TypeOK
  <2>4. run[r] \in Locals
    BY <1>1, RowType DEF IInv
  <2> HIDE DEF doc
  <2>5. row \in Locals /\ row.at = "upload" /\ row.clip = run[r].clip /\ row.msg = run[r].msg
        /\ row.doc = doc
    BY <2>2, <2>4 DEF Locals, Phases, ClipSteps
  <2> HIDE DEF row
  <2>6. /\ run' \in [Actors -> Locals] /\ run'[r] = row
        /\ \A b \in Actors \ {r} : run'[b] = run[b]
    BY <1>1, <2>3, <2>5, SetRow DEF IInv
  <2>7. RunOK(r)'
    <3>1. row.msg \in 1..sent /\ row.clip = queue[row.msg].clip /\ row.clip \in Clips
      BY <1>1, <2>5 DEF IInv, RunOK, RowOK
    <3>2. row.doc.media <= recorded' /\ row.doc.status # "none" /\ row.at = "upload"
      BY <1>4, <2>1, <2>2, <2>5
    <3>3. run'[r] = row /\ sent' = sent /\ queue' = queue
      BY <1>2, <2>6
    <3> QED
      BY <3>1, <3>2, <3>3 DEF RunOK, RowOK
  <2>8. TypeOK' /\ CountsOK'
    BY <1>2, <2>1, <2>6 DEF IInv, TypeOK, Aside
  <2>9. QueueMoves
    <3>1. sent \in Nat
      BY Limits DEF IInv, TypeOK
    <3> QED
      BY <1>2, <3>1 DEF IInv, QueueOK, QueueMoves
  <2> QED
    BY <1>2, <1>3, <1>4, <2>1, <2>2, <2>5, <2>6, <2>7, <2>8, <2>9 DEF Moves
<1>5. CASE manifest[run[r].clip] # NoManifest /\ Onward(r) /\ UNCHANGED recorded
  BY <1>1, <1>2, <1>3, <1>5, OnwardMoves
<1>6. CASE Goto(r, "failed") /\ UNCHANGED recorded
  BY <1>1, <1>2, <1>6, GotoMoves
<1> QED
  BY <1>4, <1>5, <1>6 DEF Capture

\* Content that is added does not disturb anyone.
LEMMA AddedMedia ==
  ASSUME IInv, NEW a, NEW c \in Clips, NEW x \in Media, media' = [media EXCEPT ![c] = @ \cup {x}]
  PROVE  MediaMoves(a) /\ media' \in [Clips -> SUBSET Media] /\ x \in media'[c]
  BY DEF IInv, TypeOK, MediaMoves

\* The document an execution holds.
LEMMA DocType ==
  ASSUME IInv, NEW a \in Actors
  PROVE  run[a].doc \in Docs /\ run[a].doc.media \in Media
  BY RowType DEF IInv, Locals, Docs

\* The upload puts the content where the commit will look for it.
LEMMA UploadMoves ==
  ASSUME IInv, NEW a \in Actors, run[a].at \in {"upload", "draw"},
         NEW x \in Media, run[a].doc.media \in Nat => x = run[a].doc.media,
         media' = [media EXCEPT ![run[a].clip] = @ \cup {x}], Goto(a, "commit"),
         UNCHANGED <<stage, queue, sent, lives, adm, attempts, manifest, recorded, finished>>
  PROVE  Moves(a)
<1>1. run[a].at \in ClipSteps /\ "commit" \in Phases /\ "commit" \in ClipSteps
  BY DEF ClipSteps, Phases
<1>2. run[a].clip \in Clips
  BY <1>1, AtClip
<1>3. MediaMoves(a) /\ media' \in [Clips -> SUBSET Media] /\ x \in media'[run[a].clip]
  BY <1>2, AddedMedia
<1>4. PICK r \in Locals :
        /\ run' = [run EXCEPT ![a] = r] /\ run'[a] = r
        /\ r.at = "commit" /\ r.doc = run[a].doc /\ r.clip = run[a].clip /\ r.msg = run[a].msg
  BY <1>1, GoesOn DEF IInv
<1>5. RunOK(a)'
  BY <1>1, <1>2, <1>3, <1>4 DEF IInv, RunOK, RowOK, ClipSteps
<1>6. Aside /\ ManifestMoves(a) /\ manifest' \in [Clips -> Docs]
  BY SameAside DEF IInv, TypeOK, ManifestMoves
<1> QED
  BY <1>3, <1>4, <1>5, <1>6, WorkMoves

\* The failing recording leaves its file, or not.
LEMMA RecordingFailsMoves ==
  ASSUME IInv, NEW r \in Recorders, RecordingFails(r)
  PROVE  Moves(r)
<1>1. r \in Actors /\ run[r].at \in ClipSteps /\ Goto(r, "failed")
      /\ UNCHANGED <<stage, queue, sent, lives, adm, attempts, manifest, recorded, finished>>
  BY DEF RecordingFails, Actors, ClipSteps
<1>2. Aside
  BY <1>1, SameAside DEF IInv
<1>3. CASE UNCHANGED media
  BY <1>1, <1>2, <1>3, GotoMoves
<1>4. CASE media' = [media EXCEPT ![run[r].clip] = @ \cup {run[r].doc.media}]
  <2>1. MediaMoves(r) /\ media' \in [Clips -> SUBSET Media]
    BY <1>1, <1>4, AtClip, DocType, AddedMedia
  <2>2. PICK row \in Locals :
          /\ run' = [run EXCEPT ![r] = row] /\ run'[r] = row
          /\ row.at = "failed" /\ row.doc = run[r].doc /\ row.clip = run[r].clip
          /\ row.msg = run[r].msg
    BY <1>1, GoesOn DEF IInv, Phases, ClipSteps
  <2>3. RunOK(r)'
    BY <1>1, <2>2 DEF IInv, RunOK, RowOK, ClipSteps
  <2>4. ManifestMoves(r) /\ manifest' \in [Clips -> Docs]
    BY <1>1 DEF IInv, TypeOK, ManifestMoves
  <2> QED
    BY <1>1, <1>2, <2>1, <2>2, <2>3, <2>4, WorkMoves
<1> QED
  BY <1>3, <1>4 DEF RecordingFails

-----------------------------------------------------------------------------
(* The fallback and the commit.                                            *)

\* The first look takes up a document that is no recording.
LEMMA LookMoves ==
  ASSUME IInv, NEW a \in Actors, Look(a)
  PROVE  Moves(a)
<1>1. run[a].at = "look" /\ run[a].at \in ClipSteps
  BY DEF Look, At, ClipSteps
<1>2. Aside /\ UNCHANGED <<queue, sent, media, manifest, recorded, finished>>
  BY SameAside DEF Look, clipVars, IInv
<1>3. MediaMoves(a) /\ media' \in [Clips -> SUBSET Media]
  BY <1>2, SameMedia
<1>4. ASSUME NEW pc \in {"draw", "commit"}, NEW s \in {"fallback", "insufficient"},
             NEW x \in {Static, NoMedia},
             run' = [run EXCEPT ![a].at = pc, ![a].doc = [status |-> s, media |-> x]]
      PROVE  Moves(a)
  <2> DEFINE doc == [status |-> s, media |-> x]
             row == [run[a] EXCEPT !.at = pc, !.doc = doc]
  <2>1. doc \in Docs /\ doc.status # "none" /\ doc.media \notin Nat
    BY Limits DEF Docs, Media
  <2>2. run' = [run EXCEPT ![a] = row]
    BY <1>4 DEF IInv, TypeOK
  <2>3. run[a] \in Locals
    BY RowType DEF IInv
  <2> HIDE DEF doc
  <2>4. row \in Locals /\ row.at = pc /\ row.clip = run[a].clip /\ row.msg = run[a].msg
        /\ row.doc = doc
    BY <2>1, <2>3 DEF Locals, Phases, ClipSteps
  <2> HIDE DEF row
  <2>5. row.at \in ClipSteps /\ row.at \notin {"won", "lost", "dispose"}
    BY <2>4 DEF ClipSteps
  <2> QED
    BY <1>1, <1>2, <2>1, <2>2, <2>4, <2>5, WorksOn
<1>5. CASE manifest[run[a].clip] # NoManifest /\ Onward(a)
  BY <1>1, <1>2, <1>3, <1>5, OnwardMoves
<1> QED
  BY <1>4, <1>5 DEF Look

\* The card cannot be drawn: only cards are deleted.
LEMMA DrawFailsMoves ==
  ASSUME IInv, NEW a \in Actors, DrawFails(a)
  PROVE  Moves(a)
<1>1. run[a].at \in ClipSteps /\ Raise(a)
      /\ media' \in {media, [media EXCEPT ![run[a].clip] = @ \ {Static}]}
  BY DEF DrawFails, At, ClipSteps
<1>2. MediaMoves(a) /\ media' \in [Clips -> SUBSET Media]
  BY <1>1 DEF IInv, TypeOK, MediaMoves
<1> QED
  BY <1>1, <1>2, RaiseMoves

\* The callback of the conditional update reads, and changes nothing.
LEMMA CommitReadMoves ==
  ASSUME IInv, NEW a \in Actors, CommitRead(a)
  PROVE  Moves(a)
<1> DEFINE seen == manifest[run[a].clip]
           wrote == run[a].wrote \/ seen = NoManifest
           row == [run[a] EXCEPT !.at = "write", !.seen = seen, !.wrote = wrote]
<1>1. run[a].at = "commit" /\ run[a].at \in ClipSteps
  BY DEF CommitRead, At, ClipSteps
<1>2. Aside /\ UNCHANGED <<queue, sent, media, manifest, recorded, finished>>
  BY SameAside DEF CommitRead, clipVars, IInv
<1>3. run[a] \in Locals /\ seen \in Docs /\ wrote \in BOOLEAN
  BY <1>1, AtClip
<1>4. run' = [run EXCEPT ![a] = row]
  BY DEF CommitRead, IInv, TypeOK
<1> HIDE DEF seen, wrote
<1>5. row \in Locals /\ row.at = "write" /\ row.clip = run[a].clip /\ row.msg = run[a].msg
      /\ row.doc = run[a].doc
  BY <1>3 DEF Locals, Phases, ClipSteps
<1> HIDE DEF row
<1>6. row.at \in ClipSteps /\ row.at \notin {"won", "lost", "dispose"}
  BY <1>5 DEF ClipSteps
<1>7. /\ run[a].doc.status # "none"
      /\ run[a].doc.media \in Nat => finished \/ run[a].doc.media \in media[run[a].clip]
  BY <1>1 DEF IInv, RunOK, RowOK
<1> QED
  BY <1>1, <1>2, <1>4, <1>5, <1>6, <1>7, WorksOn

\* The card is a fallback, and its upload is as any.
LEMMA DrawMoves ==
  ASSUME IInv, NEW a \in Actors, Draw(a)
  PROVE  Moves(a)
<1>1. run[a].at = "draw" /\ run[a].doc.media \notin Nat
  BY DEF Draw, At, IInv, RunOK, RowOK
<1> QED
  BY <1>1, UploadMoves DEF Draw, Media

\* The manifest of the clip an execution works at is written only by a commit that found
\* none, and with a document that says how the clip ended.
LEMMA CommitsManifest ==
  ASSUME IInv, NEW a \in Actors, run[a].at \in ClipSteps,
         \/ manifest' = manifest
         \/ /\ At(a, "write") /\ manifest[run[a].clip] = NoManifest
            /\ manifest' = [manifest EXCEPT ![run[a].clip] = run[a].doc]
  PROVE  /\ ManifestMoves(a) /\ manifest' \in [Clips -> Docs]
         /\ \A c \in Clips : manifest[c] # NoManifest => manifest'[c] = manifest[c]
<1>1. run[a].clip \in Clips /\ run[a].doc \in Docs
  BY AtClip, DocType
<1> QED
  BY <1>1 DEF IInv, TypeOK, ManifestMoves

\* An execution that goes on after its commit.
LEMMA AfterCommit ==
  ASSUME IInv, NEW a \in Actors, run[a].at \in {"commit", "write", "lost"},
         NEW pc \in {"commit", "won", "lost", "failed"},
         run' = [run EXCEPT ![a].at = pc, ![a].seen = NoManifest],
         \/ manifest' = manifest
         \/ /\ At(a, "write") /\ manifest[run[a].clip] = NoManifest
            /\ manifest' = [manifest EXCEPT ![run[a].clip] = run[a].doc],
         pc \in {"won", "lost"} => manifest'[run[a].clip] # NoManifest,
         pc = "commit" => run[a].at \in {"commit", "write"},
         UNCHANGED <<stage, queue, sent, lives, adm, attempts, media, recorded, finished>>
  PROVE  Moves(a)
<1> DEFINE row == [run[a] EXCEPT !.at = pc, !.seen = NoManifest]
<1>1. run[a].at \in ClipSteps /\ run[a] \in Locals /\ NoManifest \in Docs
  BY RowType, IdleType DEF IInv, ClipSteps
<1>2. run' = [run EXCEPT ![a] = row]
  BY DEF IInv, TypeOK
<1>3. /\ row \in Locals /\ row.at = pc /\ row.clip = run[a].clip /\ row.msg = run[a].msg
      /\ row.doc = run[a].doc
  BY <1>1 DEF Locals, Phases, ClipSteps
<1> HIDE DEF row
<1>4. /\ ManifestMoves(a) /\ manifest' \in [Clips -> Docs] /\ MediaMoves(a)
      /\ media' \in [Clips -> SUBSET Media] /\ Aside
  BY <1>1, CommitsManifest, SameMedia, SameAside DEF IInv
<1>5. run'[a] = row
  BY <1>2, <1>3, SetRow DEF IInv
<1>6. RowOK(a, run[a])
  BY DEF IInv, RunOK
<1>7. RunOK(a)'
  BY <1>1, <1>3, <1>5, <1>6 DEF RunOK, RowOK, ClipSteps
<1> QED
  BY <1>2, <1>3, <1>4, <1>7, WorkMoves

\* The conditional write: after it the clip has a manifest, or the commit starts again.
LEMMA CommitWriteMoves ==
  ASSUME IInv, NEW a \in Actors, CommitWrite(a)
  PROVE  Moves(a)
<1> DEFINE c == run[a].clip
           pc == IF run[a].wrote THEN "won" ELSE "lost"
<1>1. run[a].at = "write" /\ run[a].at \in ClipSteps
      /\ UNCHANGED <<stage, queue, sent, lives, adm, attempts, media, recorded, finished>>
  BY DEF CommitWrite, At, ClipSteps
<1>2. c \in Clips /\ run[a].doc # NoManifest
  BY <1>1, AtClip, IdleType DEF IInv, RunOK, RowOK
<1>3. CASE /\ run' = [run EXCEPT ![a].at = "commit", ![a].seen = NoManifest]
           /\ UNCHANGED manifest
  BY <1>1, <1>3, AfterCommit
<1>4. CASE /\ manifest' = [manifest EXCEPT ![c] = IF @ = NoManifest THEN run[a].doc ELSE @]
           /\ run' = [run EXCEPT ![a].at = pc, ![a].seen = NoManifest]
  <2>1. \/ manifest' = manifest
        \/ At(a, "write") /\ manifest[c] = NoManifest
           /\ manifest' = [manifest EXCEPT ![c] = run[a].doc]
    <3>1. CASE manifest[c] = NoManifest
      BY <1>1, <1>4, <3>1 DEF At
    <3>2. CASE manifest[c] # NoManifest
      BY <1>2, <1>4, <3>2 DEF IInv, TypeOK
    <3> QED
      BY <3>1, <3>2
  <2>2. manifest'[c] # NoManifest
    BY <1>2, <1>4 DEF IInv, TypeOK
  <2>3. pc \in {"won", "lost"}
    OBVIOUS
  <2> QED
    BY <1>1, <1>4, <2>1, <2>2, <2>3, AfterCommit
<1> QED
  BY <1>3, <1>4 DEF CommitWrite

\* A commit that fails may have arrived.
LEMMA CommitFailsMoves ==
  ASSUME IInv, NEW a \in Actors, CommitFails(a)
  PROVE  Moves(a)
  BY AfterCommit DEF CommitFails

\* The loser deletes only content that the winner does not refer to.
LEMMA SettleMoves ==
  ASSUME IInv, NEW a \in Actors, Settle(a)
  PROVE  Moves(a)
<1>1. /\ run[a].at \in {"won", "lost"} /\ run[a].at \in ClipSteps /\ Onward(a)
      /\ UNCHANGED <<stage, queue, sent, lives, adm, attempts, manifest, recorded, finished>>
  BY DEF Settle, ClipSteps
<1>2. finished \/ manifest[run[a].clip] # NoManifest
  BY <1>1 DEF IInv, RunOK, RowOK
<1>3. media' \in [Clips -> SUBSET Media] /\ MediaMoves(a)
  BY DEF Settle, IInv, TypeOK, MediaMoves
<1> QED
  BY <1>1, <1>2, <1>3, SameAside, OnwardMoves DEF IInv

-----------------------------------------------------------------------------
(* The count of failed executions.                                         *)

\* An execution that failed is counted with its key, once.
LEMMA CountedAside ==
  ASSUME IInv, NEW r \in Recorders, run[r].at = "failed",
         attempts' = [attempts EXCEPT ![run[r].clip] = Counted(run[r].clip, Key(r))],
         UNCHANGED <<stage, lives, adm>>
  PROVE  Aside
<1> DEFINE c == run[r].clip
           k == Key(r)
           old == attempts[c]
           new == Counted(c, k)
<1>1. c \in Clips /\ run[r] \in Locals
  BY AtClip DEF Actors, ClipSteps
<1>2. k \in Nat \X Nat
  BY <1>1 DEF Key, Locals
<1>3. old \in Tallies /\ IsFiniteSet(old.failed) /\ old.count = Cardinality(old.failed)
  BY <1>1 DEF IInv, TypeOK, CountsOK, FailuresCountOnce
<1>4. /\ new.failed = old.failed \cup {k}
      /\ new.count = IF k \in old.failed THEN old.count ELSE old.count + 1
      /\ new = [failed |-> new.failed, count |-> new.count]
  BY DEF Counted
<1>5. /\ IsFiniteSet(old.failed \cup {k})
      /\ Cardinality(old.failed \cup {k}) =
           IF k \in old.failed THEN Cardinality(old.failed) ELSE Cardinality(old.failed) + 1
  BY <1>3, FS_AddElement
<1> HIDE DEF k, old, new
<1>6. IsFiniteSet(new.failed) /\ new.count = Cardinality(new.failed)
  BY <1>3, <1>4, <1>5
<1>7. new.count \in Nat
  BY <1>3, <1>4 DEF Tallies
<1>8. new.failed \in SUBSET (Nat \X Nat)
  BY <1>2, <1>3, <1>4 DEF Tallies
<1>9. new \in Tallies
  BY <1>4, <1>7, <1>8 DEF Tallies
<1>10. attempts' = [attempts EXCEPT ![c] = new]
  BY DEF new, k
<1>11. attempts' \in [Clips -> Tallies]
  BY <1>1, <1>9, <1>10 DEF IInv, TypeOK
<1>12. CountsOK'
  BY <1>1, <1>6, <1>10 DEF IInv, TypeOK, CountsOK, FailuresCountOnce
<1> QED
  BY <1>11, <1>12 DEF Aside, IInv, TypeOK

\* The failure is counted; the execution ends, or becomes a fallback.
LEMMA FinishFailedMoves ==
  ASSUME IInv, NEW r \in Recorders, FinishFailed(r)
  PROVE  Moves(r)
<1>1. r \in Actors /\ run[r].at = "failed" /\ run[r].at \in ClipSteps
  BY DEF FinishFailed, Actors, At, ClipSteps
<1>2. UNCHANGED <<stage, queue, sent, lives, adm, media, manifest, recorded, finished>>
      /\ attempts' = [attempts EXCEPT ![run[r].clip] = Counted(run[r].clip, Key(r))]
  BY DEF FinishFailed
<1>3. Aside
  BY <1>1, <1>2, CountedAside
<1>4. CASE run' = [run EXCEPT ![r].at = "look", ![r].doc = NoManifest, ![r].wrote = FALSE]
  <2> DEFINE row == [run[r] EXCEPT !.at = "look", !.doc = NoManifest, !.wrote = FALSE]
  <2>1. run[r] \in Locals /\ NoManifest \in Docs /\ NoManifest.media \notin Nat
    BY <1>1, AtClip, IdleType, Limits
  <2>2. run' = [run EXCEPT ![r] = row]
    BY <1>1, <1>4 DEF IInv, TypeOK
  <2>3. /\ row \in Locals /\ row.at = "look" /\ row.clip = run[r].clip /\ row.msg = run[r].msg
        /\ row.doc = NoManifest
    BY <2>1 DEF Locals, Phases, ClipSteps
  <2> HIDE DEF row
  <2>4. row.at \in ClipSteps
    BY <2>3 DEF ClipSteps
  <2> QED
    BY <1>1, <1>2, <1>3, <2>1, <2>2, <2>3, <2>4, WorksOn
<1>5. CASE Leave(r)
  BY <1>1, <1>2, <1>3, <1>5, SameMedia, LeaveMoves
<1> QED
  BY <1>4, <1>5 DEF FinishFailed

\* The update that counts the failure is repeated.
LEMMA FinishRepeatsMoves ==
  ASSUME IInv, NEW r \in Recorders, FinishRepeats(r)
  PROVE  Moves(r)
<1>1. r \in Actors /\ run[r].at = "failed" /\ run[r].at \in ClipSteps
  BY DEF FinishRepeats, Actors, At, ClipSteps
<1>2. UNCHANGED <<stage, queue, sent, lives, adm, media, manifest, recorded, finished, run>>
      /\ attempts' = [attempts EXCEPT ![run[r].clip] = Counted(run[r].clip, Key(r))]
  BY DEF FinishRepeats
<1>3. Aside
  BY <1>1, <1>2, CountedAside
<1>4. Goto(r, "failed")
  <2>1. run[r] = [run[r] EXCEPT !.at = "failed"]
    BY <1>1, AtClip DEF Locals
  <2>2. run = [run EXCEPT ![r] = [run[r] EXCEPT !.at = "failed"]]
    BY <1>1, <2>1 DEF IInv, TypeOK
  <2> QED
    BY <1>1, <1>2, <2>2 DEF Goto
<1> QED
  BY <1>1, <1>2, <1>3, <1>4, GotoMoves

\* The exception of a fallback leaves the process.
LEMMA FailedFallbackMoves ==
  ASSUME IInv, NEW a \in Actors, FailedFallback(a)
  PROVE  Moves(a)
  BY SameMedia, RaiseMoves DEF FailedFallback

-----------------------------------------------------------------------------
(* The messages.                                                           *)

\* A step at the queue.
LEMMA QueueStepMoves ==
  ASSUME IInv, NEW a \in Actors, UNCHANGED <<recorded, finished, media, manifest>>, Aside,
         queue' \in [1..MaxMessages -> ClipMessages], sent' \in 0..MaxMessages, QueueMoves,
         NEW r \in Locals, run' = [run EXCEPT ![a] = r], RunOK(a)',
         r.doc.media \in Nat => r.doc.media = run[a].doc.media
  PROVE  Moves(a)
<1>1. /\ run' \in [Actors -> Locals] /\ run'[a] = r
      /\ \A b \in Actors \ {a} : run'[b] = run[b]
  BY SetRow DEF IInv
<1>2. TypeOK'
  BY <1>1 DEF IInv, TypeOK, Aside
<1>3. recorded \in Nat
  BY Limits DEF IInv, TypeOK
<1>4. ManifestMoves(a) /\ MediaMoves(a)
  BY DEF ManifestMoves, MediaMoves
<1> QED
  BY <1>1, <1>2, <1>3, <1>4 DEF Moves, Aside

\* A message that is no longer unsent was sent.
LEMMA WasSent ==
  ASSUME IInv, NEW m \in 1..MaxMessages, queue[m].state # "unsent"
  PROVE  m \in 1..sent /\ queue[m].clip \in Clips
<1>1. sent \in Nat /\ m \in Nat
  BY Limits DEF IInv, TypeOK
<1>2. m <= sent
  BY <1>1 DEF IInv, QueueOK
<1> QED
  BY <1>1, <1>2 DEF IInv, QueueOK

\* One message is set to a state that does not give it up, or has its clip settled.
LEMMA SetMessage ==
  ASSUME IInv, NEW m \in 1..sent, NEW q \in ClipMessages, queue' = [queue EXCEPT ![m] = q],
         q.clip = queue[m].clip, UNCHANGED sent,
         q.state = "deleted" => finished \/ manifest[queue[m].clip] # NoManifest
  PROVE  queue' \in [1..MaxMessages -> ClipMessages] /\ QueueMoves
<1>1. sent \in Nat /\ sent <= MaxMessages /\ 1..sent \subseteq 1..MaxMessages
  BY Limits DEF IInv, TypeOK
<1>2. queue' \in [1..MaxMessages -> ClipMessages] /\ queue'[m] = q
      /\ \A n \in 1..MaxMessages : n # m => queue'[n] = queue[n]
  BY <1>1 DEF IInv, TypeOK
<1>3. \A n \in 1..sent : queue'[n].clip = queue[n].clip
  BY <1>1, <1>2
<1>4. \A n \in 1..MaxMessages : n > sent => queue'[n] = queue[n]
  BY <1>1, <1>2
<1>5. \A n \in 1..MaxMessages : queue'[n].state = "deleted" =>
        \/ queue[n].state = "deleted"
        \/ n \in 1..sent /\ (finished \/ manifest[queue[n].clip] # NoManifest)
  BY <1>2
<1> QED
  BY <1>1, <1>2, <1>3, <1>4, <1>5 DEF IInv, QueueOK, QueueMoves

\* A recorder takes a visible message, and works at its clip.
LEMMA ReceiveMoves ==
  ASSUME IInv, NEW r \in Recorders, NEW m \in 1..MaxMessages, Receive(r, m)
  PROVE  Moves(r)
<1> DEFINE row == [Idle EXCEPT !.at = "setup", !.msg = m, !.clip = queue[m].clip,
                               !.count = queue[m].count + 1]
           q == [queue[m] EXCEPT !.state = "held", !.by = r, !.count = queue[m].count + 1]
           n == queue[m].count + 1
<1>1. r \in Actors /\ queue[m] \in ClipMessages /\ queue[m].state = "visible" /\ m \in Nat
  BY Limits DEF Receive, Actors, IInv, TypeOK
<1>2. m \in 1..sent /\ queue[m].clip \in Clips
  BY <1>1, WasSent
<1>3. queue' = [queue EXCEPT ![m] = q]
  <2>1. queue' = [queue EXCEPT ![m].state = "held", ![m].by = r, ![m].count = @ + 1]
    BY DEF Receive
  <2>2. queue \in [1..MaxMessages -> ClipMessages]
    BY DEF IInv, TypeOK
  <2> DEFINE held == [queue[m] EXCEPT !.state = "held", !.by = r]
  <2>3. queue' = [[queue EXCEPT ![m] = held] EXCEPT ![m].count = @ + 1]
    BY <2>1, <2>2
  <2>4. held \in ClipMessages /\ held.count = queue[m].count
    BY <1>1 DEF ClipMessages
  <2>5. q = [held EXCEPT !.count = queue[m].count + 1]
    BY <1>1 DEF ClipMessages
  <2> HIDE DEF held, q
  <2>6. queue' = [queue EXCEPT ![m] = [held EXCEPT !.count = held.count + 1]]
    BY <2>2, <2>3
  <2> QED
    BY <2>4, <2>5, <2>6
<1>4. q \in ClipMessages /\ q.clip = queue[m].clip /\ q.state = "held"
  <2>1. n \in Nat
    BY <1>1 DEF ClipMessages
  <2>2. q = [queue[m] EXCEPT !.state = "held", !.by = r, !.count = n]
    OBVIOUS
  <2> HIDE DEF q, n
  <2> QED
    BY <1>1, <2>1, <2>2 DEF ClipMessages
<1>5. /\ UNCHANGED <<recorded, finished, media, manifest, sent, stage, lives, adm, attempts>>
      /\ run' = [run EXCEPT ![r] = row]
  BY DEF Receive, clipVars
<1>6. /\ row \in Locals /\ row.at = "setup" /\ row.msg = m /\ row.clip = queue[m].clip
      /\ row.doc = NoManifest
  <2>1. n \in Nat
    BY <1>1 DEF ClipMessages
  <2>2. row = [Idle EXCEPT !.at = "setup", !.msg = m, !.clip = queue[m].clip, !.count = n]
    OBVIOUS
  <2> HIDE DEF row, n
  <2> QED
    BY <1>1, <1>2, <2>1, <2>2, IdleType DEF Locals, Phases, ClipSteps
<1> HIDE DEF row, q
<1>7. queue' \in [1..MaxMessages -> ClipMessages] /\ QueueMoves
  BY <1>2, <1>3, <1>4, <1>5, SetMessage
<1>8. NoManifest.media \notin Nat
  BY IdleType, Limits
<1>9. run'[r] = row /\ queue'[m].clip = queue[m].clip
  BY <1>1, <1>2, <1>5, <1>6, <1>7, SetRow DEF IInv, QueueMoves
<1>10. RunOK(r)'
  BY <1>2, <1>5, <1>6, <1>8, <1>9 DEF RunOK, RowOK
<1>11. Aside /\ sent' \in 0..MaxMessages
  BY <1>5, SameAside DEF IInv, TypeOK
<1> QED
  BY <1>1, <1>5, <1>6, <1>7, <1>8, <1>10, <1>11, QueueStepMoves

\* A message is given up by an execution whose clip has a manifest.
LEMMA DisposeMoves ==
  ASSUME IInv, NEW r \in Recorders, Dispose(r)
  PROVE  Moves(r)
<1> DEFINE m == run[r].msg
           q == [queue[m] EXCEPT !.state = "deleted", !.by = Nobody]
<1>1. /\ r \in Actors /\ run[r].at = "dispose" /\ Leave(r)
      /\ UNCHANGED <<recorded, finished, media, manifest, sent, stage, lives, adm, attempts>>
  BY DEF Dispose, Actors, At, clipVars
<1>2. Aside
  BY <1>1, SameAside DEF IInv
<1>3. CASE queue' = queue
  BY <1>1, <1>2, <1>3, SameMedia, LeaveMoves
<1>4. CASE queue' = [queue EXCEPT ![m].state = "deleted", ![m].by = Nobody]
  <2>1. /\ m \in 1..sent /\ run[r].clip = queue[m].clip
        /\ finished \/ manifest[run[r].clip] # NoManifest
    BY <1>1 DEF IInv, RunOK, RowOK
  <2>2. 1..sent \subseteq 1..MaxMessages /\ sent \in 0..MaxMessages
    BY Limits DEF IInv, TypeOK
  <2>3. queue[m] \in ClipMessages /\ queue' = [queue EXCEPT ![m] = q]
    BY <1>4, <2>1, <2>2 DEF IInv, TypeOK
  <2>4. q \in ClipMessages /\ q.clip = queue[m].clip
    BY <2>3 DEF ClipMessages
  <2> HIDE DEF q
  <2>5. queue' \in [1..MaxMessages -> ClipMessages] /\ QueueMoves
    BY <1>1, <2>1, <2>3, <2>4, SetMessage
  <2>6. /\ Idle \in Locals /\ Idle.at = "idle" /\ Idle.doc = NoManifest
        /\ NoManifest.media \notin Nat
    BY IdleType, Limits
  <2>7. run' = [run EXCEPT ![r] = Idle] /\ run'[r] = Idle
    BY <1>1 DEF Leave, IInv, TypeOK
  <2>8. RunOK(r)'
    BY <2>6, <2>7 DEF RunOK, RowOK, ClipSteps
  <2> QED
    BY <1>1, <1>2, <2>2, <2>5, <2>6, <2>7, <2>8, QueueStepMoves
<1> QED
  BY <1>3, <1>4 DEF Dispose

-----------------------------------------------------------------------------
(* The editor.                                                             *)

\* An editor that works at no clip has only the clips to do.
LEMMA EditorRow ==
  ASSUME IInv, NEW e \in Editors, NEW r \in Locals, r.at \notin ClipSteps, r.at # "clean",
         r.doc = run[e].doc
  PROVE  RowOK(e, r)
<1>1. e \in Actors /\ e \notin Recorders
  BY RecorderAssumption DEF Actors
<1> QED
  BY <1>1 DEF IInv, RunOK, RowOK, ClipSteps

\* Such a step of an editor is local.
LEMMA EditorMoves ==
  ASSUME IInv, NEW e \in Editors, NEW pc \in Phases \ (ClipSteps \cup {"clean"}),
         NEW todo \in SUBSET Clips,
         \/ run' = [run EXCEPT ![e].at = pc]
         \/ run' = [run EXCEPT ![e].todo = todo, ![e].at = pc],
         UNCHANGED <<stage, queue, sent, clipVars, recorded, finished>>
  PROVE  Moves(e)
<1> DEFINE one == [run[e] EXCEPT !.at = pc]
           two == [run[e] EXCEPT !.todo = todo, !.at = pc]
<1>1. e \in Actors /\ run[e] \in Locals
  BY RowType DEF Actors, IInv
<1>2. Aside /\ UNCHANGED <<queue, sent, recorded, finished, media, manifest>>
  BY SameAside DEF IInv, clipVars
<1>3. one \in Locals /\ one.at = pc /\ one.doc = run[e].doc
  BY <1>1 DEF Locals
<1>4. two \in Locals /\ two.at = pc /\ two.doc = run[e].doc
  BY <1>1 DEF Locals
<1>5. run' = [run EXCEPT ![e] = one] \/ run' = [run EXCEPT ![e] = two]
  BY <1>1 DEF IInv, TypeOK
<1> HIDE DEF one, two
<1>6. RowOK(e, one) /\ RowOK(e, two)
  BY <1>3, <1>4, EditorRow
<1> QED
  BY <1>1, <1>2, <1>3, <1>4, <1>5, <1>6, LocalMoves

\* The editor starts.
LEMMA StartMoves ==
  ASSUME IInv, NEW e \in Editors, Start(e)
  PROVE  Moves(e)
<1>1. "plan" \in Phases \ (ClipSteps \cup {"clean"}) /\ {} \in SUBSET Clips
  BY DEF Phases, ClipSteps
<1> QED
  BY <1>1, EditorMoves DEF Start, Goto

\* The plan gives the editor its clips.
LEMMA PlanMoves ==
  ASSUME IInv, NEW e \in Editors, Plan(e)
  PROVE  Moves(e)
<1> DEFINE pc == IF Reached("fallback") THEN "wait" ELSE "fanout"
<1>1. {"resume", "wait", "fanout"} \subseteq Phases \ (ClipSteps \cup {"clean"})
      /\ Clips \in SUBSET Clips
  BY DEF Phases, ClipSteps
<1>2. pc \in {"wait", "fanout"}
  OBVIOUS
<1>3. CASE Goto(e, "resume")
  BY <1>1, <1>3, EditorMoves DEF Plan, Goto
<1>4. CASE run' = [run EXCEPT ![e].todo = Clips, ![e].at = pc]
  <2> HIDE DEF pc
  <2> QED
    BY <1>1, <1>2, <1>4, EditorMoves DEF Plan
<1> QED
  BY <1>3, <1>4 DEF Plan

\* The wait ends.
LEMMA WaitMoves ==
  ASSUME IInv, NEW e \in Editors, Wait(e)
  PROVE  Moves(e)
<1>1. "assemble" \in Phases \ (ClipSteps \cup {"clean"}) /\ {} \in SUBSET Clips
  BY DEF Phases, ClipSteps
<1> QED
  BY <1>1, EditorMoves DEF Wait, Goto

\* The cutoff leaves the missing clips to do.
LEMMA CutoffMoves ==
  ASSUME IInv, NEW e \in Editors, Cutoff(e)
  PROVE  Moves(e)
<1> DEFINE pc == IF Reached("render") THEN "assemble" ELSE "terminalize"
<1>1. {"assemble", "terminalize"} \subseteq Phases \ (ClipSteps \cup {"clean"})
      /\ Missing \in SUBSET Clips
  BY DEF Phases, ClipSteps, Missing
<1>2. pc \in {"assemble", "terminalize"}
  OBVIOUS
<1>3. run' = [run EXCEPT ![e].todo = Missing, ![e].at = pc]
  BY DEF Cutoff
<1> HIDE DEF pc
<1> QED
  BY <1>1, <1>2, <1>3, EditorMoves DEF Cutoff

\* The fallback of a missing clip begins with its first look.
LEMMA TerminalizeMoves ==
  ASSUME IInv, NEW e \in Editors, Terminalize(e)
  PROVE  Moves(e)
<1>1. e \in Actors /\ e \notin Recorders /\ run[e] \in Locals
  BY RecorderAssumption, RowType DEF Actors, IInv
<1>2. Aside /\ UNCHANGED <<queue, sent, recorded, finished, media, manifest>>
  BY SameAside DEF IInv, clipVars, Terminalize
<1>3. ASSUME NEW c \in run[e].todo,
             run' = [run EXCEPT ![e].at = "look", ![e].clip = c,
                                ![e].doc = NoManifest, ![e].wrote = FALSE]
      PROVE  Moves(e)
  <2> DEFINE row == [run[e] EXCEPT !.at = "look", !.clip = c, !.doc = NoManifest, !.wrote = FALSE]
  <2>1. c \in Clips /\ NoManifest \in Docs /\ NoManifest.media \notin Nat
    BY <1>1, IdleType, Limits DEF Locals
  <2>2. run' = [run EXCEPT ![e] = row]
    BY <1>1, <1>3 DEF IInv, TypeOK
  <2>3. row \in Locals /\ row.at = "look" /\ row.clip = c /\ row.doc = NoManifest
    BY <1>1, <2>1 DEF Locals, Phases, ClipSteps
  <2> HIDE DEF row
  <2>4. RowOK(e, row)
    BY <1>1, <2>1, <2>3 DEF RowOK
  <2> QED
    BY <1>1, <1>2, <2>1, <2>2, <2>3, <2>4, LocalMoves
<1>4. CASE Goto(e, "assemble")
  <2>1. "assemble" \in Phases \ (ClipSteps \cup {"clean"}) /\ {} \in SUBSET Clips
    BY DEF Phases, ClipSteps
  <2> QED
    BY <1>4, <2>1, EditorMoves DEF Terminalize, Goto
<1> QED
  BY <1>3, <1>4 DEF Terminalize

\* A recording that is complete is rendered; else the exception leaves the process.
LEMMA AssembleMoves ==
  ASSUME IInv, NEW e \in Editors, Assemble(e)
  PROVE  Moves(e)
<1>1. "render" \in Phases \ (ClipSteps \cup {"clean"}) /\ {} \in SUBSET Clips /\ e \in Actors
  BY DEF Phases, ClipSteps, Actors
<1>2. CASE Goto(e, "render") /\ UNCHANGED <<stage, plan, lease, queue, sent, clipVars, recorded, finished>>
  BY <1>1, <1>2, EditorMoves DEF Goto
<1>3. CASE Raise(e) /\ UNCHANGED media
  BY <1>1, <1>3, SameMedia, RaiseMoves
<1> QED
  BY <1>2, <1>3 DEF Assemble

\* The lease is renewed.
LEMMA RenewMoves ==
  ASSUME IInv, NEW e \in Editors, Renew(e)
  PROVE  Moves(e)
<1>1. "compose" \in Phases \ (ClipSteps \cup {"clean"}) /\ {} \in SUBSET Clips
  BY DEF Phases, ClipSteps
<1> QED
  BY <1>1, EditorMoves DEF Renew, Goto

\* A message is sent for a clip without a manifest.
LEMMA FanOutMoves ==
  ASSUME IInv, NEW e \in Editors, FanOut(e)
  PROVE  Moves(e)
<1>1. e \in Actors /\ run[e] \in Locals /\ run[e].at = "fanout"
  BY RowType DEF Actors, IInv, FanOut, At
<1>2. /\ UNCHANGED <<stage, lives, adm, attempts, media, manifest, recorded, finished>>
  BY DEF FanOut, clipVars
<1>3. Aside
  BY <1>2, SameAside DEF IInv
<1>4. CASE Goto(e, "wait") /\ UNCHANGED <<queue, sent>>
  <2>1. "wait" \in Phases \ (ClipSteps \cup {"clean"}) /\ {} \in SUBSET Clips
    BY DEF Phases, ClipSteps
  <2> QED
    BY <1>2, <1>4, <2>1, EditorMoves DEF Goto, clipVars
<1>5. ASSUME NEW c \in run[e].todo, run' = [run EXCEPT ![e].todo = @ \ {c}],
             \/ /\ sent < MaxMessages /\ sent' = sent + 1
                /\ queue' = [queue EXCEPT ![sent + 1].state = "visible", ![sent + 1].clip = c]
             \/ UNCHANGED <<queue, sent>>
      PROVE  Moves(e)
  <2> DEFINE row == [run[e] EXCEPT !.todo = run[e].todo \ {c}]
             m == sent + 1
             q == [queue[m] EXCEPT !.state = "visible", !.clip = c]
  <2>1. c \in Clips
    BY <1>1 DEF Locals
  <2>2. run' = [run EXCEPT ![e] = row]
    BY <1>1, <1>5 DEF IInv, TypeOK
  <2>3. row \in Locals /\ row.at = "fanout" /\ row.doc = run[e].doc
    BY <1>1 DEF Locals
  <2> HIDE DEF row
  <2>4. RowOK(e, row) /\ e \notin Recorders
    BY <2>3, EditorRow, RecorderAssumption DEF ClipSteps
  <2>5. run'[e] = row
    BY <1>1, <2>2, <2>3, SetRow DEF IInv
  <2>6. RunOK(e)'
    BY <1>2, <2>4, <2>5 DEF RunOK, RowOK
  <2>7. CASE UNCHANGED <<queue, sent>>
    BY <1>1, <1>2, <1>3, <2>2, <2>3, <2>4, <2>7, LocalMoves
  <2>8. CASE /\ sent < MaxMessages /\ sent' = sent + 1
             /\ queue' = [queue EXCEPT ![sent + 1].state = "visible", ![sent + 1].clip = c]
    <3>1. /\ sent \in Nat /\ m \in 1..MaxMessages /\ sent' = m /\ sent' \in 0..MaxMessages
          /\ sent <= m /\ m = sent + 1
      BY <2>8, Limits DEF IInv, TypeOK
    <3>2. /\ queue[m] \in ClipMessages /\ queue' = [queue EXCEPT ![m] = q]
          /\ queue \in [1..MaxMessages -> ClipMessages]
      BY <2>8, <3>1 DEF IInv, TypeOK
    <3>3. q \in ClipMessages /\ q.clip = c /\ q.state = "visible"
      BY <2>1, <3>2 DEF ClipMessages
    <3> HIDE DEF m, q
    <3>4. /\ queue' \in [1..MaxMessages -> ClipMessages] /\ queue'[m] = q
          /\ \A n \in 1..MaxMessages : n # m => queue'[n] = queue[n]
      BY <3>1, <3>2, <3>3
    <3>5. \A n \in 1..sent : n \in 1..MaxMessages /\ n # m
      BY <3>1, Limits
    <3>6. \A n \in 1..sent' : n = m \/ n \in 1..sent
      BY <3>1
    <3>7. \A n \in 1..MaxMessages : n > sent' => n # m /\ n > sent
      BY <3>1
    <3>8. \A n \in 1..sent' : queue'[n].clip \in Clips
      BY <2>1, <3>3, <3>4, <3>5, <3>6 DEF IInv, QueueOK
    <3>9. \A n \in 1..MaxMessages : n > sent' => queue'[n].state = "unsent"
      BY <3>4, <3>7 DEF IInv, QueueOK
    <3>10. \A n \in 1..MaxMessages : queue'[n].state = "deleted" => queue[n].state = "deleted"
      BY <3>3, <3>4
    <3>11. QueueMoves
      BY <3>1, <3>4, <3>5, <3>8, <3>9, <3>10 DEF QueueMoves
    <3> QED
      BY <1>1, <1>2, <1>3, <2>2, <2>3, <2>6, <3>1, <3>4, <3>11, QueueStepMoves
  <2> QED
    BY <1>5, <2>7, <2>8
<1> QED
  BY <1>2, <1>4, <1>5 DEF FanOut

\* The job is finished by an editor that then cleans up.
LEMMA CompleteMoves ==
  ASSUME IInv, NEW e \in Editors, Complete(e)
  PROVE  Moves(e)
<1>1. e \in Actors /\ e \notin Recorders /\ "clean" \in Phases /\ "clean" \notin ClipSteps
  BY RecorderAssumption DEF Actors, Phases, ClipSteps
<1>2. /\ UNCHANGED <<stage, lives, adm, attempts, queue, sent, media, manifest, recorded>>
      /\ finished' = TRUE /\ Goto(e, "clean")
  BY DEF Complete, clipVars
<1>3. PICK r \in Locals :
        /\ run' = [run EXCEPT ![e] = r] /\ run'[e] = r
        /\ r.at = "clean" /\ r.doc = run[e].doc /\ r.clip = run[e].clip /\ r.msg = run[e].msg
  BY <1>1, <1>2, GoesOn DEF IInv
<1>4. run' \in [Actors -> Locals] /\ \A b \in Actors \ {e} : run'[b] = run[b]
  BY <1>1, <1>3, SetRow DEF IInv
<1>5. Aside
  BY <1>2, SameAside DEF IInv
<1>6. TypeOK'
  BY <1>2, <1>4 DEF IInv, TypeOK
<1>7. RunOK(e)'
  <2>1. run[e].doc.media \in Nat => run[e].doc.media <= recorded
    BY <1>1 DEF IInv, RunOK, RowOK
  <2> QED
    BY <1>1, <1>2, <1>3, <2>1 DEF RunOK, RowOK
<1>8. sent \in Nat /\ recorded \in Nat
  BY Limits DEF IInv, TypeOK
<1>9. QueueMoves /\ ManifestMoves(e) /\ MediaMoves(e)
  BY <1>2, <1>8 DEF IInv, QueueOK, QueueMoves, ManifestMoves, MediaMoves
<1> QED
  BY <1>2, <1>3, <1>4, <1>5, <1>6, <1>7, <1>8, <1>9 DEF Moves, Aside

\* An exception elsewhere, a lost lease, a death.
LEMMA FailureMoves ==
  ASSUME IInv, NEW a \in Actors, Fails(a) \/ LeaseLost(a) \/ Dies(a)
  PROVE  Moves(a)
<1>1. CASE Fails(a) \/ LeaseLost(a)
  BY <1>1, SameMedia, RaiseMoves DEF Fails, LeaseLost
<1>2. CASE Dies(a)
  BY <1>2, SameAside, SameMedia, LeaveMoves DEF Dies, clipVars, IInv
<1> QED
  BY <1>1, <1>2

-----------------------------------------------------------------------------
(* The cleanup, and time.                                                  *)

\* The cleanup empties what only a finished job may lose.
LEMMA CleanupKeeps ==
  ASSUME IInv, NEW e \in Editors, Cleanup(e)
  PROVE  IInv'
<1>1. e \in Actors /\ finished = TRUE /\ finished' = finished
  BY DEF Actors, Cleanup, At, IInv, RunOK, RowOK, TypeOK
<1>2. /\ UNCHANGED <<stage, queue, sent, lives, recorded>>
      /\ run' = [run EXCEPT ![e] = Idle]
  BY DEF Cleanup, Leave
<1>3. /\ Idle \in Locals /\ Idle.at = "idle" /\ Idle.doc = NoManifest /\ NoManifest \in Docs
      /\ NoManifest.media \notin Nat
  BY IdleType, Limits
<1>4. /\ run' \in [Actors -> Locals] /\ run'[e] = Idle
      /\ \A b \in Actors \ {e} : run'[b] = run[b]
  BY <1>1, <1>2, <1>3, SetRow DEF IInv
<1>5. \/ /\ adm' = [c \in Clips |-> 0]
         /\ attempts' = [c \in Clips |-> [failed |-> {}, count |-> 0]]
         /\ media' = [c \in Clips |-> {}]
         /\ manifest' = [c \in Clips |-> NoManifest]
      \/ UNCHANGED <<adm, attempts, media, manifest>>
  BY DEF Cleanup
<1>6. adm' \in [Clips -> Nat] /\ media' \in [Clips -> SUBSET Media] /\ manifest' \in [Clips -> Docs]
  BY <1>3, <1>5 DEF IInv, TypeOK
<1>7. attempts' \in [Clips -> Tallies] /\ CountsOK'
  <2>1. CASE attempts' = [c \in Clips |-> [failed |-> {}, count |-> 0]]
    <3>1. IsFiniteSet({}) /\ Cardinality({}) = 0
      BY FS_EmptySet
    <3>2. [failed |-> {}, count |-> 0] \in Tallies
      BY DEF Tallies
    <3>3. \A c \in Clips : attempts'[c].failed = {} /\ attempts'[c].count = 0
      BY <2>1
    <3>4. CountsOK'
      BY <3>1, <3>3 DEF CountsOK, FailuresCountOnce
    <3> QED
      BY <2>1, <3>2, <3>4
  <2>2. CASE attempts' = attempts
    BY <2>2 DEF IInv, TypeOK, CountsOK, FailuresCountOnce
  <2> QED
    BY <1>5, <2>1, <2>2
<1>8. TypeOK'
  BY <1>1, <1>2, <1>4, <1>6, <1>7 DEF IInv, TypeOK
<1>9. QueueOK'
  BY <1>1, <1>2 DEF IInv, QueueOK, GivenUpIsTerminal
<1>10. RecordingsOK'
  BY <1>1, <1>3, <1>4 DEF IInv, RecordingsOK
<1>11. ASSUME NEW b \in Actors
       PROVE  RunOK(b)'
  <2>1. CASE b = e
    BY <1>1, <1>3, <1>4, <2>1 DEF RunOK, RowOK, ClipSteps
  <2>2. CASE b # e
    <3>1. run'[b] = run[b] /\ RunOK(b)
      BY <1>4, <2>2 DEF IInv
    <3> QED
      BY <1>1, <1>2, <3>1 DEF RunOK, RowOK
  <2> QED
    BY <2>1, <2>2
<1> QED
  BY <1>7, <1>8, <1>9, <1>10, <1>11 DEF IInv

\* Nothing that the passing of time changes is what an execution counts on: a message
\* keeps its clip, and is not given up.
LEMMA QuietKeeps ==
  ASSUME IInv, TypeOK', UNCHANGED <<sent, attempts, media, manifest, recorded, run, finished>>,
         \A m \in 1..MaxMessages :
           /\ queue'[m].clip = queue[m].clip
           /\ \/ queue'[m].state = queue[m].state
              \/ queue[m].state = "held" /\ queue'[m].state = "visible"
  PROVE  IInv'
<1>1. sent \in Nat /\ 1..sent \subseteq 1..MaxMessages
  BY Limits DEF IInv, TypeOK
<1>2. QueueOK'
  BY <1>1 DEF IInv, QueueOK, GivenUpIsTerminal
<1>3. RecordingsOK' /\ CountsOK'
  BY DEF IInv, RecordingsOK, CountsOK, FailuresCountOnce
<1>4. ASSUME NEW a \in Actors
      PROVE  RunOK(a)'
  <2>1. RowOK(a, run[a])
    BY DEF IInv, RunOK
  <2> QED
    BY <1>1, <2>1 DEF RunOK, RowOK
<1> QED
  BY <1>2, <1>3, <1>4 DEF IInv

\* A message comes back.
LEMMA ReappearKeeps ==
  ASSUME IInv, NEW m \in 1..MaxMessages, Reappear(m)
  PROVE  IInv'
<1> DEFINE q == [queue[m] EXCEPT !.state = "visible", !.by = Nobody]
<1>1. queue \in [1..MaxMessages -> ClipMessages] /\ queue[m] \in ClipMessages
  BY DEF IInv, TypeOK
<1>2. queue' = [queue EXCEPT ![m] = q]
  BY <1>1 DEF Reappear
<1>3. q \in ClipMessages /\ q.clip = queue[m].clip /\ q.state = "visible"
  BY <1>1 DEF ClipMessages
<1> HIDE DEF q
<1>4. /\ queue' \in [1..MaxMessages -> ClipMessages] /\ queue'[m] = q
      /\ \A n \in 1..MaxMessages : n # m => queue'[n] = queue[n]
  BY <1>1, <1>2, <1>3
<1>5. UNCHANGED <<stage, sent, lives, adm, attempts, media, manifest, recorded, run, finished>>
      /\ queue[m].state = "held"
  BY DEF Reappear, clipVars
<1>6. TypeOK'
  BY <1>4, <1>5 DEF IInv, TypeOK
<1>7. ASSUME NEW n \in 1..MaxMessages
      PROVE  /\ queue'[n].clip = queue[n].clip
             /\ \/ queue'[n].state = queue[n].state
                \/ queue[n].state = "held" /\ queue'[n].state = "visible"
  <2>1. CASE n = m
    BY <1>3, <1>4, <1>5, <2>1
  <2>2. CASE n # m
    BY <1>4, <2>2
  <2> QED
    BY <2>1, <2>2
<1> QED
  BY <1>5, <1>6, <1>7, QuietKeeps

\* A lease expires, the budget of the job or of an admission runs out.
LEMMA TimeKeeps ==
  ASSUME IInv, LeaseExpires \/ StagePasses \/ \E c \in Clips : LifePasses(c)
  PROVE  IInv'
<1>1. UNCHANGED <<queue, sent, adm, attempts, media, manifest, recorded, run, finished>>
  BY DEF LeaseExpires, StagePasses, LifePasses, clipVars
<1>2. stage' \in {"fanin", "fallback", "render", "over"} /\ lives' \in [Clips -> Seq(Lifetimes)]
  <2>1. CASE LeaseExpires
    BY <2>1 DEF LeaseExpires, clipVars, IInv, TypeOK
  <2>2. CASE StagePasses
    <3>1. PICK i \in 1..3 :
            /\ stage' = Stages[i + 1]
            /\ lives' = [c \in Clips |->
                           [n \in DOMAIN lives[c] |-> Capped(lives[c][n], Stages[i + 1])]]
      BY <2>2 DEF StagePasses
    <3>2. Stages[i + 1] \in {"fanin", "fallback", "render", "over"}
      BY DEF Stages
    <3>3. ASSUME NEW c \in Clips
          PROVE  [n \in DOMAIN lives[c] |-> Capped(lives[c][n], Stages[i + 1])] \in Seq(Lifetimes)
      <4>1. lives[c] \in Seq(Lifetimes)
        BY DEF IInv, TypeOK
      <4>2. Len(lives[c]) \in Nat /\ DOMAIN lives[c] = 1..Len(lives[c])
            /\ \A n \in 1..Len(lives[c]) : lives[c][n] \in Lifetimes
        BY <4>1, LenProperties, ElementOfSeq
      <4>3. \A n \in 1..Len(lives[c]) : Capped(lives[c][n], Stages[i + 1]) \in Lifetimes
        BY <4>2 DEF Capped, Lifetimes
      <4> DEFINE s == [n \in 1..Len(lives[c]) |-> Capped(lives[c][n], Stages[i + 1])]
      <4>4. s \in [1..Len(lives[c]) -> Lifetimes]
        BY <4>3
      <4>5. s \in Seq(Lifetimes)
        BY <4>2, <4>4, SeqDef
      <4> QED
        BY <4>2, <4>5
    <3> QED
      BY <3>1, <3>2, <3>3
  <2>3. ASSUME NEW c \in Clips, LifePasses(c)
        PROVE  lives' \in [Clips -> Seq(Lifetimes)] /\ stage' = stage
    <3>1. PICK i \in DOMAIN lives[c], p \in {<<"open", "final">>, <<"final", "over">>} :
            lives' = [lives EXCEPT ![c][i] = p[2]]
      BY <2>3 DEF LifePasses
    <3>2. lives[c] \in Seq(Lifetimes) /\ p[2] \in Lifetimes
      BY DEF IInv, TypeOK, Lifetimes
    <3>3. [lives[c] EXCEPT ![i] = p[2]] \in Seq(Lifetimes)
      BY <3>2, ExceptSeq
    <3> HIDE DEF Lifetimes
    <3>4. lives' = [lives EXCEPT ![c] = [lives[c] EXCEPT ![i] = p[2]]]
      BY <3>1
    <3> QED
      BY <2>3, <3>3, <3>4 DEF LifePasses, IInv, TypeOK
  <2> QED
    BY <2>1, <2>2, <2>3 DEF IInv, TypeOK
<1>3. TypeOK'
  BY <1>1, <1>2 DEF IInv, TypeOK
<1>4. \A m \in 1..MaxMessages : queue'[m] = queue[m]
  BY <1>1
<1> QED
  BY <1>1, <1>3, <1>4, QuietKeeps

-----------------------------------------------------------------------------
(* Init, Next, and the theorems.                                           *)

\* The start of a job, with or without the message an earlier release left.
LEMMA InitIInv ==
  ASSUME Init
  PROVE  IInv
<1>1. NoManifest \in Docs /\ NoManifest.media \notin Nat /\ Idle \in Locals
      /\ Idle.at = "idle" /\ Idle.doc = NoManifest
  BY IdleType, Limits
<1>2. IsFiniteSet({}) /\ Cardinality({}) = 0
  BY FS_EmptySet
<1>3. [failed |-> {}, count |-> 0] \in Tallies /\ <<>> \in Seq(Lifetimes)
  BY EmptySeq DEF Tallies
<1>4. MaxMessages \in Nat \ {0} /\ MaxRecordings \in Nat
  BY RecorderAssumption
<1>5. /\ queue \in [1..MaxMessages -> ClipMessages] /\ sent \in 0..MaxMessages
      /\ \A m \in 1..sent : queue[m].clip \in Clips
      /\ \A m \in 1..MaxMessages : m > sent => queue[m].state = "unsent"
      /\ \A m \in 1..MaxMessages : queue[m].state # "deleted"
  <2>1. PICK c \in Clips :
          \/ queue = [m \in 1..MaxMessages |->
                        [state |-> "unsent", clip |-> Nobody, by |-> Nobody, count |-> 0]]
             /\ sent = 0
          \/ sent = 1
             /\ queue = [m \in 1..MaxMessages |->
                           [state |-> IF m = 1 THEN "visible" ELSE "unsent",
                            clip |-> IF m = 1 THEN c ELSE Nobody, by |-> Nobody, count |-> 0]]
    BY DEF Init
  <2>2. CASE queue = [m \in 1..MaxMessages |->
                        [state |-> "unsent", clip |-> Nobody, by |-> Nobody, count |-> 0]]
             /\ sent = 0
    BY <1>4, <2>2 DEF ClipMessages
  <2>3. CASE sent = 1
             /\ queue = [m \in 1..MaxMessages |->
                           [state |-> IF m = 1 THEN "visible" ELSE "unsent",
                            clip |-> IF m = 1 THEN c ELSE Nobody, by |-> Nobody, count |-> 0]]
    <3>1. queue \in [1..MaxMessages -> ClipMessages]
      BY <2>3 DEF ClipMessages
    <3>2. queue[1].clip = c /\ 1..sent = {1}
      BY <1>4, <2>3
    <3>3. \A m \in 1..MaxMessages : m > 1 => queue[m].state = "unsent"
      BY <2>3
    <3>4. \A m \in 1..MaxMessages : queue[m].state # "deleted"
      BY <2>3
    <3> QED
      BY <1>4, <2>3, <3>1, <3>2, <3>3, <3>4
  <2> QED
    BY <2>1, <2>2, <2>3
<1>6. TypeOK
  <2>1. lives \in [Clips -> Seq(Lifetimes)]
    <3>1. lives = [c \in Clips |-> <<>>]
      BY DEF Init
    <3> QED
      BY <1>3, <3>1
  <2>2. attempts \in [Clips -> Tallies]
    <3>1. attempts = [c \in Clips |-> [failed |-> {}, count |-> 0]]
      BY DEF Init
    <3> QED
      BY <1>3, <3>1
  <2>3. /\ stage = "fanin" /\ adm = [c \in Clips |-> 0] /\ media = [c \in Clips |-> {}]
        /\ manifest = [c \in Clips |-> NoManifest] /\ recorded = 0
        /\ run = [a \in Actors |-> Idle] /\ finished = FALSE
    BY DEF Init
  <2>4. adm \in [Clips -> Nat] /\ media \in [Clips -> SUBSET Media]
    BY <2>3
  <2>5. manifest \in [Clips -> Docs] /\ run \in [Actors -> Locals] /\ recorded \in 0..MaxRecordings
    BY <1>1, <1>4, <2>3
  <2>6. queue \in [1..MaxMessages -> ClipMessages] /\ sent \in 0..MaxMessages
    BY <1>5
  <2> QED
    BY <2>1, <2>2, <2>3, <2>4, <2>5, <2>6 DEF TypeOK
<1>7. QueueOK
  BY <1>5 DEF QueueOK, GivenUpIsTerminal
<1>8. CountsOK
  BY <1>2 DEF Init, CountsOK, FailuresCountOnce
<1>9. RecordingsOK /\ \A a \in Actors : RunOK(a)
  BY <1>1 DEF Init, RecordingsOK, RunOK, RowOK, ClipSteps
<1> QED
  BY <1>6, <1>7, <1>8, <1>9 DEF IInv

\* The steps of one recorder, of one execution at a manifest, of one editor.
RecorderDoes(r) ==
  \/ \E m \in 1..MaxMessages : Receive(r, m)
  \/ BadSetup(r) \/ Setup(r) \/ Capture(r) \/ Upload(r) \/ FinishFailed(r) \/ Dispose(r)
  \/ RecordingFails(r) \/ FinishRepeats(r)

CommitDoes(a) ==
  \/ Look(a) \/ Draw(a) \/ CommitRead(a) \/ CommitWrite(a) \/ Settle(a) \/ FailedFallback(a)
  \/ DrawFails(a) \/ CommitFails(a) \/ Fails(a) \/ Dies(a)

EditorDoes(e) ==
  \/ Start(e) \/ Plan(e) \/ FanOut(e) \/ Wait(e) \/ LeaseLost(e) \/ Cutoff(e)
  \/ Terminalize(e) \/ Assemble(e) \/ Renew(e) \/ Complete(e)

\* A step of a recorder.
LEMMA RecorderDoesMoves ==
  ASSUME IInv, NEW r \in Recorders, RecorderDoes(r)
  PROVE  Moves(r)
<1>1. r \in Actors
  BY DEF Actors
<1>2. CASE Upload(r)
  <2>1. run[r].at = "upload" /\ run[r].doc.media \in Media
    BY <1>1, <1>2, DocType DEF Upload, At
  <2> QED
    BY <1>1, <1>2, <2>1, UploadMoves DEF Upload
<1> QED
  BY <1>2, ReceiveMoves, BadSetupMoves, SetupMoves, CaptureMoves, FinishFailedMoves, DisposeMoves,
     RecordingFailsMoves, FinishRepeatsMoves DEF RecorderDoes

\* A step at a manifest, or a failure.
LEMMA CommitDoesMoves ==
  ASSUME IInv, NEW a \in Actors, CommitDoes(a)
  PROVE  Moves(a)
  BY LookMoves, DrawMoves, CommitReadMoves, CommitWriteMoves, SettleMoves, FailedFallbackMoves,
     DrawFailsMoves, CommitFailsMoves, FailureMoves DEF CommitDoes

\* A step of an editor.
LEMMA EditorDoesMoves ==
  ASSUME IInv, NEW e \in Editors, EditorDoes(e)
  PROVE  Moves(e)
<1>1. e \in Actors
  BY DEF Actors
<1> QED
  BY <1>1, StartMoves, PlanMoves, FanOutMoves, WaitMoves, FailureMoves, CutoffMoves,
     TerminalizeMoves, AssembleMoves, RenewMoves, CompleteMoves DEF EditorDoes

\* What leaves the clips, the executions and the job alone.
Quiet == UNCHANGED <<media, manifest, run, finished>>

\* Every step is one of an execution, or quiet.
LEMMA WhoSteps ==
  ASSUME [Next]_vars
  PROVE  \/ \E r \in Recorders : RecorderDoes(r)
         \/ \E a \in Actors : CommitDoes(a)
         \/ \E e \in Editors : EditorDoes(e) \/ Cleanup(e)
         \/ (TimeNext \/ UNCHANGED vars) /\ Quiet
<1>1. TimeNext \/ UNCHANGED vars => Quiet
  BY DEF TimeNext, LeaseExpires, StagePasses, LifePasses, Reappear, clipVars, vars, Quiet
<1>2. RecorderNext => \E r \in Recorders : RecorderDoes(r)
  BY DEF RecorderNext, RecorderDoes
<1>3. ManifestNext => \E a \in Actors : CommitDoes(a)
  BY DEF ManifestNext, CommitDoes
<1>4. EditorNext => \E e \in Editors : EditorDoes(e) \/ Cleanup(e)
  BY DEF EditorNext, EditorDoes
<1>5. FaultNext => (\E r \in Recorders : RecorderDoes(r)) \/ (\E a \in Actors : CommitDoes(a))
  BY DEF FaultNext, RecorderDoes, CommitDoes
<1> QED
  BY <1>1, <1>2, <1>3, <1>4, <1>5 DEF Next

\* Every step is one that keeps what the others depend on, the cleanup, or quiet.
LEMMA StepKinds ==
  ASSUME IInv, [Next]_vars
  PROVE  \/ \E a \in Actors : Moves(a)
         \/ \E e \in Editors : Cleanup(e)
         \/ (TimeNext \/ UNCHANGED vars) /\ Quiet
<1>1. Recorders \subseteq Actors /\ Editors \subseteq Actors
  BY DEF Actors
<1> QED
  BY <1>1, WhoSteps, RecorderDoesMoves, CommitDoesMoves, EditorDoesMoves

\* A step that changes nothing.
LEMMA StutterKeeps ==
  ASSUME IInv, UNCHANGED vars
  PROVE  IInv'
<1>1. TypeOK'
  BY DEF IInv, TypeOK, vars
<1>2. UNCHANGED <<sent, attempts, media, manifest, recorded, run, finished>>
      /\ \A m \in 1..MaxMessages : queue'[m] = queue[m]
  BY DEF vars
<1> QED
  BY <1>1, <1>2, QuietKeeps

\* The invariant is inductive.
LEMMA IInvStep == IInv /\ [Next]_vars => IInv'
<1>1. IInv /\ TimeNext => IInv'
  BY ReappearKeeps, TimeKeeps DEF TimeNext
<1> QED
  BY <1>1, StepKinds, MovesKeep, CleanupKeeps, StutterKeeps

\* The strengthened invariant holds in every state the fan-out can reach, whatever fails.
THEOREM RecorderInductive == Spec => []IInv
  BY InitIInv, IInvStep, PTL DEF Spec

\* What a recorder recorded and a manifest refers to is there until the job is finished,
\* whatever duplicates, losers and failing executions delete.
THEOREM RecordingKept == Spec => []RecordingKeepsMedia
<1>1. IInv => RecordingKeepsMedia
  <2>1. \A n \in 1..MaxRecordings : n \in Nat
    BY Limits
  <2> QED
    BY <2>1 DEF IInv, RecordingsOK, RecordingKeepsMedia
<1> QED
  BY <1>1, RecorderInductive, PTL

\* A message is given up only when its clip has a manifest.
THEOREM GivenUpHasManifest == Spec => []GivenUpIsTerminal
<1>1. IInv => GivenUpIsTerminal
  BY DEF IInv, QueueOK
<1> QED
  BY <1>1, RecorderInductive, PTL

\* A failed execution counts once, however often the update that counts it is repeated.
THEOREM CountedOnce == Spec => []FailuresCountOnce
<1>1. IInv => FailuresCountOnce
  BY DEF IInv, CountsOK
<1> QED
  BY <1>1, RecorderInductive, PTL

\* Between the cleanups of a finished job, a manifest that is there is not touched: of all
\* steps only the commit writes one, and that into a clip without.
LEMMA ManifestStep ==
  ASSUME IInv, [Next]_vars, NEW c \in Clips, manifest[c] # NoManifest,
         \A e \in Editors : ~At(e, "clean")
  PROVE  manifest'[c] = manifest[c]
<1>1. \A e \in Editors : ~Cleanup(e)
  BY DEF Cleanup
<1> QED
  BY <1>1, StepKinds DEF Moves, ManifestMoves, Quiet

\* A terminal manifest is never replaced: two writers of a clip, a late recorder, an editor
\* that terminalizes and a repeated commit leave the first.
THEOREM ManifestStands == Spec => ManifestIsFinal
<1>1. ASSUME IInv, [Next]_vars, NEW c \in Clips, manifest[c] # NoManifest
      PROVE  manifest'[c] = manifest[c] \/ \E e \in Editors : At(e, "clean")
  BY <1>1, ManifestStep
<1>2. IInv /\ [Next]_vars =>
        [\A c \in Clips : manifest[c] # NoManifest =>
           \/ manifest'[c] = manifest[c]
           \/ \E e \in Editors : At(e, "clean")]_vars
  BY <1>1
<1> QED
  BY <1>2, RecorderInductive, PTL DEF Spec, ManifestIsFinal

-----------------------------------------------------------------------------
(* The fan-out implements Recording.                                       *)

\* What the clips and the verdict of the job are to Recording.
outcomes == [c \in Clips |-> Outcome(c)]

\* A clip that has a picture, and an editor that found one for every clip.
Ready(c) == manifest[c].status \in {"success", "fallback"}
Assembled == {"render", "compose"}
ReadyOK ==
  \A e \in Editors : run[e].at \in Assembled => finished \/ \A c \in Clips : Ready(c)

\* An editor gets there by way of the assembly only.
LEMMA EntersReady ==
  ASSUME IInv, [Next]_vars, NEW e \in Editors, run'[e].at \in Assembled,
         run[e].at \notin Assembled
  PROVE  manifest' = manifest /\ \A c \in Clips : Ready(c)
<1>0. /\ e \in Actors /\ e \notin Recorders /\ run \in [Actors -> Locals] /\ run[e] \in Locals
      /\ run'[e].at \in {"render", "compose"} /\ run[e].at \notin {"render", "compose"}
  BY RecorderAssumption DEF Actors, IInv, TypeOK, Assembled
<1>1. ASSUME NEW a \in Actors, Moves(a), a # e PROVE FALSE
  BY <1>0, <1>1 DEF Moves
<1>2. ~Leave(e) /\ ~Raise(e) /\ ~Onward(e)
  <2>1. ~Leave(e)
    BY <1>0, IdleType DEF Leave
  <2>2. ~Onward(e)
    BY <1>0, OnwardIs DEF IInv
  <2> QED
    BY <2>1, <2>2 DEF Raise
<1>3. ASSUME NEW pc, pc \notin {"render", "compose"}, Goto(e, pc) PROVE FALSE
  BY <1>0, <1>3 DEF Goto, Locals
<1>4. CASE \E r \in Recorders : RecorderDoes(r)
  BY <1>0, <1>1, <1>4, RecorderDoesMoves DEF Actors
<1>5. CASE \E a \in Actors : CommitDoes(a)
  <2>1. CommitDoes(e)
    BY <1>1, <1>5, CommitDoesMoves
  <2>2. ~Look(e)
    BY <1>0, <1>2 DEF Look, Locals
  <2>3. ~Draw(e)
    BY <1>3 DEF Draw
  <2>4. ~CommitRead(e)
    BY <1>0 DEF CommitRead, Locals
  <2>5. ~CommitWrite(e)
    BY <1>0 DEF CommitWrite, Locals
  <2>6. ~CommitFails(e)
    BY <1>0 DEF CommitFails, Locals
  <2> QED
    BY <1>2, <2>1, <2>2, <2>3, <2>4, <2>5, <2>6
       DEF CommitDoes, Settle, FailedFallback, DrawFails, Fails, Dies
<1>6. CASE \E d \in Editors : EditorDoes(d)
  <2>1. EditorDoes(e)
    BY <1>1, <1>6, EditorDoesMoves DEF Actors
  <2>2. ~Start(e) /\ ~Wait(e) /\ ~Complete(e)
    BY <1>3 DEF Start, Wait, Complete
  <2>3. ~Plan(e)
    BY <1>0, <1>3 DEF Plan, Locals
  <2>4. ~FanOut(e)
    <3>1. ASSUME NEW c, run' = [run EXCEPT ![e].todo = @ \ {c}]
          PROVE  FALSE
      BY <1>0, <3>1 DEF Locals
    <3>2. ~Goto(e, "wait")
      BY <1>0 DEF Goto, Locals
    <3> QED
      BY <3>1, <3>2 DEF FanOut
  <2>5. ~Cutoff(e)
    BY <1>0 DEF Cutoff, Locals
  <2>6. ~Terminalize(e)
    <3>1. ASSUME NEW c, run' = [run EXCEPT ![e].at = "look", ![e].clip = c,
                                           ![e].doc = NoManifest, ![e].wrote = FALSE]
          PROVE  FALSE
      BY <1>0, <3>1 DEF Locals
    <3> QED
      BY <1>3, <3>1 DEF Terminalize
  <2>7. ~Renew(e)
    BY <1>0 DEF Renew, At
  <2>8. Assemble(e)
    BY <1>2, <2>1, <2>2, <2>3, <2>4, <2>5, <2>6, <2>7 DEF EditorDoes, LeaseLost
  <2> QED
    BY <1>2, <2>8 DEF Assemble, Usable, Ready, clipVars
<1>7. CASE \E d \in Editors : Cleanup(d)
  <2>1. PICK d \in Editors : Leave(d)
    BY <1>7 DEF Cleanup
  <2> QED
    BY <1>0, <1>2, <2>1 DEF Leave
<1>8. CASE Quiet
  BY <1>0, <1>8 DEF Quiet
<1> QED
  BY <1>4, <1>5, <1>6, <1>7, <1>8, WhoSteps

\* A job that is finished stays so, and only an editor that has composed finishes it.
LEMMA FinishedStep ==
  ASSUME IInv, [Next]_vars
  PROVE  /\ finished => finished'
         /\ finished' # finished =>
              \E e \in Editors : At(e, "compose") /\ UNCHANGED <<media, manifest>>
<1>1. ASSUME NEW r \in Recorders, RecorderDoes(r) PROVE finished' = finished
  BY <1>1 DEF RecorderDoes, Receive, BadSetup, Setup, Capture, Upload, FinishFailed, Dispose,
     RecordingFails, FinishRepeats
<1>2. ASSUME NEW a \in Actors, CommitDoes(a) PROVE finished' = finished
  BY <1>2 DEF CommitDoes, Look, Draw, CommitRead, CommitWrite, Settle, FailedFallback, DrawFails,
     CommitFails, Fails, Dies, Raise
<1>3. ASSUME NEW e \in Editors, EditorDoes(e) \/ Cleanup(e), ~Complete(e)
      PROVE  finished' = finished
  BY <1>3 DEF EditorDoes, Start, Plan, FanOut, Wait, LeaseLost, Cutoff, Terminalize, Assemble, Renew,
     Cleanup, Raise
<1>4. ASSUME NEW e \in Editors, Complete(e)
      PROVE  finished' = TRUE /\ At(e, "compose") /\ UNCHANGED <<media, manifest>>
  BY <1>4 DEF Complete, clipVars
<1>5. finished \in BOOLEAN
  BY DEF IInv, TypeOK
<1> QED
  BY <1>1, <1>2, <1>3, <1>4, <1>5, WhoSteps DEF Quiet

\* A manifest stands while the job is not finished.
LEMMA Unfinished ==
  ASSUME IInv, [Next]_vars, ~finished, NEW c \in Clips, manifest[c] # NoManifest
  PROVE  manifest'[c] = manifest[c]
<1>1. \A e \in Editors : ~At(e, "clean")
  BY DEF IInv, RunOK, RowOK, At, Actors
<1> QED
  BY <1>1, ManifestStep

\* An editor renders and composes a job all of whose clips have a picture.
LEMMA ReadyStep ==
  ASSUME IInv, ReadyOK, [Next]_vars
  PROVE  ReadyOK'
<1> SUFFICES ASSUME NEW e \in Editors, run'[e].at \in Assembled, ~finished', NEW c \in Clips
             PROVE  Ready(c)'
  BY DEF ReadyOK
<1>1. ~finished
  BY FinishedStep
<1>2. CASE run[e].at \in Assembled
  <2>1. Ready(c)
    BY <1>1, <1>2 DEF ReadyOK
  <2>2. manifest[c] # NoManifest
    BY <2>1 DEF Ready, NoManifest
  <2> QED
    BY <1>1, <2>1, <2>2, Unfinished DEF Ready
<1>3. CASE run[e].at \notin Assembled
  BY <1>3, EntersReady DEF Ready
<1> QED
  BY <1>2, <1>3

\* What the manifest of a clip is worth while the job is not finished.
LEMMA OutcomeIs ==
  ASSUME IInv, ~finished, NEW c \in Clips
  PROVE  Outcome(c) = IF manifest[c] = NoManifest THEN "open"
                      ELSE IF manifest[c].media \in Nat THEN "recorded"
                      ELSE IF Ready(c) THEN "card" ELSE "bare"
  BY DEF Outcome, Ready, IInv, RecordingsOK

\* While the job is not finished, a step of an execution gives one clip its outcome, and
\* that for the first time, or none.
LEMMA OutcomeStep ==
  ASSUME IInv, IInv', ~finished, ~finished', NEW a \in Actors, Moves(a)
  PROVE  \/ outcomes' = outcomes
         \/ \E c \in Clips : /\ outcomes[c] = "open"
                             /\ \E o \in {"recorded", "card", "bare"} :
                                  outcomes' = [outcomes EXCEPT ![c] = o]
<1>1. ASSUME NEW c \in Clips, manifest'[c] = manifest[c]
      PROVE  Outcome(c)' = Outcome(c)
  <2>1. Outcome(c)' = IF manifest'[c] = NoManifest THEN "open"
                      ELSE IF manifest'[c].media \in Nat THEN "recorded"
                      ELSE IF manifest'[c].status \in {"success", "fallback"} THEN "card" ELSE "bare"
    BY DEF Outcome, IInv, RecordingsOK
  <2> QED
    BY <1>1, <2>1, OutcomeIs DEF Ready
<1>2. CASE \A c \in Clips : manifest'[c] = manifest[c]
  BY <1>1, <1>2 DEF outcomes
<1>3. ASSUME NEW c \in Clips, manifest'[c] # manifest[c]
      PROVE  /\ outcomes[c] = "open"
             /\ \E o \in {"recorded", "card", "bare"} : outcomes' = [outcomes EXCEPT ![c] = o]
  <2>1. /\ manifest[c] = NoManifest /\ manifest'[c] = run[a].doc
        /\ At(a, "write") /\ c = run[a].clip
    BY <1>3 DEF Moves, ManifestMoves
  <2>2. Outcome(c) = "open" /\ Outcome(c)' \in {"recorded", "card", "bare"}
    BY <1>3, <2>1 DEF Outcome
  <2>3. \A d \in Clips \ {c} : manifest'[d] = manifest[d]
    BY <2>1 DEF Moves, ManifestMoves
  <2>4. \A d \in Clips \ {c} : Outcome(d)' = Outcome(d)
    BY <1>1, <2>3
  <2>5. outcomes' = [outcomes EXCEPT ![c] = Outcome(c)']
    BY <2>4 DEF outcomes
  <2> QED
    BY <2>2, <2>5 DEF outcomes
<1> QED
  BY <1>2, <1>3

\* Every step of the fan-out is one of Recording, or changes none of it.
LEMMA RecordingStep ==
  ASSUME IInv, ReadyOK, [Next]_vars
  PROVE  [Recordings!Next]_(Recordings!vars)
<1>0. finished \in BOOLEAN /\ finished' \in BOOLEAN /\ IInv'
  BY IInvStep DEF IInv, TypeOK
<1>1. ASSUME outcomes' = outcomes, finished' = finished PROVE UNCHANGED Recordings!vars
  BY <1>1 DEF Recordings!vars, outcomes
<1>2. CASE finished
  <2>1. finished' = finished
    BY <1>0, <1>2, FinishedStep
  <2>2. \A c \in Clips : Outcome(c)' \in {"open", "recorded", "card", "bare"}
    BY DEF Outcome
  <2>3. Recordings!Discard
    BY <1>2, <2>1, <2>2 DEF Recordings!Discard, Recordings!Outcomes
  <2> QED
    BY <2>3 DEF Recordings!Next
<1>3. CASE ~finished /\ finished'
  <2>1. PICK e \in Editors : At(e, "compose") /\ UNCHANGED <<media, manifest>>
    BY <1>3, FinishedStep
  <2>2. \A c \in Clips : Ready(c)
    BY <1>3, <2>1 DEF ReadyOK, Assembled, At
  <2>3. \A c \in Clips : Outcome(c) \in {"recorded", "card"}
    BY <1>3, <2>2, OutcomeIs DEF Ready, NoManifest
  <2>4. outcomes' = outcomes
    BY <2>1 DEF outcomes, Outcome
  <2>5. Recordings!Complete
    BY <1>0, <1>3, <2>3, <2>4 DEF Recordings!Complete, outcomes
  <2> QED
    BY <2>5 DEF Recordings!Next
<1>4. CASE ~finished /\ ~finished'
  <2>1. finished' = finished
    BY <1>0, <1>4
  <2>2. \A e \in Editors : ~Cleanup(e)
    BY <1>4 DEF Cleanup, IInv, RunOK, RowOK, At, Actors
  <2>3. CASE outcomes' = outcomes
    BY <1>1, <2>1, <2>3
  <2>4. ASSUME NEW c \in Clips, outcomes[c] = "open",
               NEW o \in {"recorded", "card", "bare"}, outcomes' = [outcomes EXCEPT ![c] = o]
        PROVE  Recordings!Next
    <3>1. Recordings!Conclude(c)
      BY <2>1, <2>4 DEF Recordings!Conclude, Recordings!Outcomes, outcomes
    <3> QED
      BY <3>1 DEF Recordings!Next
  <2>5. CASE Quiet
    BY <2>3, <2>5 DEF Quiet, outcomes, Outcome
  <2>6. CASE \E a \in Actors : Moves(a)
    BY <1>0, <1>4, <2>3, <2>4, <2>6, OutcomeStep
  <2> QED
    BY <2>2, <2>5, <2>6, StepKinds
<1> QED
  BY <1>0, <1>2, <1>3, <1>4

\* The fan-out implements Recording, for any number of clips and executions: an outcome
\* stands until the job is finished, a recording with its media, and the job is finished
\* only when every clip has a recording or a card.
THEOREM RecordingImplements == Spec => RecordingImplemented
<1>1. Init => Recordings!Init
  <2>1. Init => finished = FALSE /\ \A c \in Clips : Outcome(c) = "open"
    BY DEF Init, Outcome
  <2> QED
    BY <2>1 DEF Recordings!Init
<1>2. Init => ReadyOK
  BY DEF Init, ReadyOK, Idle, Assembled, Actors
<1>3. IInv /\ ReadyOK /\ [Next]_vars => ReadyOK'
  BY ReadyStep
<1>4. IInv /\ ReadyOK /\ [Next]_vars => [Recordings!Next]_(Recordings!vars)
  BY RecordingStep
<1> QED
  BY <1>1, <1>2, <1>3, <1>4, RecorderInductive, PTL
     DEF Spec, RecordingImplemented, Recordings!Spec
=============================================================================
