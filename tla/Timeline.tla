------------------------------ MODULE Timeline ------------------------------
(***************************************************************************)
(* When the video shows what the hosts name: from the measured turns of    *)
(* speech to topics (podcaster/audio_metadata.py), from topics to the two  *)
(* plans of the picture - the edit decision list (video/edl.py), which     *)
(* only the tests call yet, and the segments that the video job records    *)
(* (video/sync_plan.py) - and from those to the lengths that fill the      *)
(* window between the bumpers (video/video_compose.py).                    *)
(*                                                                         *)
(* Time is counted in ticks.  The only length that is not a whole number   *)
(* of ticks is a fitted one, and it is a fraction with one denominator.    *)
(***************************************************************************)
EXTENDS Integers, Sequences, FiniteSets, SequencesExt

CONSTANTS
  Repos, NoRepo,
  Turns,        \* what one turn can be: mode, repo, other repos, length
  Libraries,    \* what was recorded: clips of repos and article, screenshots
  NoClip,
  Audios,       \* lengths the final audio is probed to have, all even
  Mentions,     \* first mentions in a legacy script, as parts of its length
  Bumpers,      \* lengths of intro, outro and section cards
  Offsets,      \* speech_offset_seconds
  Gap,          \* silence between turns
  ScanSpan, MinWindow,           \* MULTI_REPO_START_SCAN_MS, ..._MIN_WINDOW_MS
  MinVisual, EdgeMargin, MinSafe,
  DropBelow,    \* _MIN_SEGMENT_DURATION_SECONDS
  MinSegment, WeeklyMin, Lead, Transition, Headroom, MinContent,
  MaxTurns      \* bound

ASSUME TimelineAssumption ==
  /\ NoRepo \notin Repos
  /\ DropBelow < Gap /\ {MinWindow, Headroom, MinContent} \subseteq Nat \ {0}

VARIABLES
  phase,    \* what has been computed
  offset,   \* lead-in before the speech
  audio,    \* length of the final audio
  turns,    \* utterances, with their times
  topics,   \* of the realized metadata
  script,   \* without it, the first mentions of the repos in the script
  edl,      \* the edit decision list
  plan,     \* the segments to record, and the length they are planned for
  fit       \* target lengths of the composition, and its window

vars == <<phase, offset, audio, turns, topics, script, edl, plan, fit>>

Min2(a, b) == IF a < b THEN a ELSE b
Max2(a, b) == IF a > b THEN a ELSE b
Total(s) == FoldLeft(LAMBDA a, b : a + b, 0, s)
Before(s, k) == Total(SubSeq(s, 1, k - 1))
Len2(x) == x.end - x.start

---------------------------------------------------------------------------
\* Layer 2: topics of the measured audio.

Context(u) == <<u.mode, IF u.mode = "repo" THEN u.repo ELSE NoRepo>>

\* Consecutive turns under one visual context.
Runs(us) ==
  FoldLeft(LAMBDA rs, u :
             IF rs # <<>> /\ Context(Last(Last(rs))) = Context(u)
             THEN Append(Front(rs), Append(Last(rs), u))
             ELSE Append(rs, <<u>>),
           <<>>, us)

AppendNew(s, x) == IF x \in ToSet(s) THEN s ELSE Append(s, x)

\* The repos a run shows: its own, then those named near its start.
ReposOf(run) ==
  LET near == SelectSeq(run, LAMBDA u : u.start < run[1].start + ScanSpan)
  IN FoldLeft(AppendNew, <<run[1].repo>>,
              FlattenSeq([i \in DOMAIN near |-> near[i].more]))

TopicWindows(run) ==
  LET from == run[1].start
      span == Last(run).end - from
      count == Min2(Len(ReposOf(run)), span \div MinWindow)
      Window(repo, a, b) ==
        [mode |-> run[1].mode, repo |-> repo, start |-> a, end |-> b]
  IN IF run[1].mode # "repo" \/ count < 2
     THEN <<Window(run[1].repo, from, Last(run).end)>>
     ELSE [k \in 1..count |-> Window(ReposOf(run)[k], from + (span * (k - 1)) \div count,
                                     from + (span * k) \div count)]

BuildTopics(us) ==
  LET runs == Runs(us) IN FlattenSeq([i \in DOMAIN runs |-> TopicWindows(runs[i])])

---------------------------------------------------------------------------
\* Layer 3: the edit decision list.

Short(b) == b.mode # "intermission" /\ Len2(b) < MinVisual

\* A short topic lengthens the block before it; a short first one, which is
\* the only short block left, goes to the block after it.
MergeShort(ts) ==
  LET bs == FoldLeft(LAMBDA acc, t : IF Short(t) /\ acc # <<>>
                                     THEN [acc EXCEPT ![Len(acc)].end = t.end]
                                     ELSE Append(acc, t),
                     <<>>, ts)
  IN IF Len(bs) >= 2 /\ Short(bs[1])
     THEN Tail([bs EXCEPT ![2].start = bs[1].start])
     ELSE bs

FillGaps(bs, total) ==
  [i \in DOMAIN bs |->
     [bs[i] EXCEPT !.start = IF i = 1 THEN 0 ELSE @,
                   !.end = IF i = Len(bs) THEN total ELSE bs[i + 1].start]]

\* The interiors of the chapters are safe to cut and to repeat; a fallback
\* card, which has none, is one such range.
SafeRanges(clip) ==
  IF clip.fallback THEN {[start |-> 0, end |-> clip.length]}
  ELSE {r \in {[start |-> c.start + EdgeMargin, end |-> c.end - EdgeMargin] : c \in clip.chapters} :
          Len2(r) >= MinSafe}

LargestFirst(rs) ==
  SetToSortSeq(rs, LAMBDA a, b : Len2(a) > Len2(b) \/ (Len2(a) = Len2(b) /\ a.start < b.start))

Ticks(r) == r.start .. r.end - 1

\* What is cut to lose `excess' ticks: the tail of one safe range after the
\* other, and the tail of the clip for what they do not give.
Cut(clip, excess) ==
  LET safe == LargestFirst(SafeRanges(clip))
      Take(k) == Min2(Len2(safe[k]),
                      Max2(0, excess - Before([i \in DOMAIN safe |-> Len2(safe[i])], k)))
      rest == excess - Total([k \in DOMAIN safe |-> Take(k)])
  IN [safe |-> UNION {safe[k].end - Take(k) .. safe[k].end - 1 : k \in DOMAIN safe},
      tail |-> clip.length - rest .. clip.length - 1]

\* What `cut' leaves, as ranges in order.
Excise(clip, cut) ==
  LET kept == Ticks([start |-> 0, end |-> clip.length]) \ (cut.safe \cup cut.tail)
      Whole(r) == /\ Ticks(r) \subseteq kept /\ r.start - 1 \notin kept
                  /\ r.end \notin kept
  IN SetToSortSeq({r \in {[start |-> a, end |-> b + 1] : a \in kept, b \in kept} :
                     r.start < r.end /\ Whole(r)},
                  LAMBDA a, b : a.start < b.start)

\* The clip, then its loop sections in turn (or itself) until it is filled.
Loop(clip, target) ==
  LET whole == [start |-> 0, end |-> clip.length]
      loops == IF SafeRanges(clip) = {} THEN <<whole>> ELSE LargestFirst(SafeRanges(clip))
      Repeat(acc, i) ==
        LET section == loops[((i - 1) % Len(loops)) + 1]
        IN IF acc.left = 0 THEN acc
           ELSE [left |-> acc.left - Min2(acc.left, Len2(section)),
                 ranges |-> Append(acc.ranges,
                              [section EXCEPT !.end = section.start + Min2(acc.left, Len2(section))])]
      deficit == target - clip.length
  IN FoldLeft(Repeat, [left |-> deficit, ranges |-> <<whole>>], [i \in 1..deficit |-> i]).ranges

SourceRanges(clip, target) ==
  IF target >= clip.length THEN Loop(clip, target)
  ELSE Excise(clip, Cut(clip, clip.length - target))

\* A block shows the clip of its repo or of the article, a screenshot where
\* there is none, and else a card; an intermission stays one.
Segment(b, library) ==
  LET clip == CASE b.mode = "repo"    -> library.clips[b.repo]
                [] b.mode = "article" -> library.article
                [] OTHER              -> NoClip
      kind == IF b.mode = "intermission" THEN "intermission"
              ELSE IF clip # NoClip THEN "clip"
              ELSE IF b.repo \in library.shots THEN "screenshot" ELSE "card"
  IN [kind |-> kind, mode |-> b.mode, start |-> b.start, end |-> b.end, clip |-> clip,
      source |-> IF kind = "clip" THEN SourceRanges(clip, Len2(b)) ELSE <<>>]

---------------------------------------------------------------------------
\* The plan that the video job records.

Shot(repo, start, length) == [repo |-> repo, start |-> start, length |-> length]
Plan(total, segs, dropped) == [total |-> total, segs |-> segs, dropped |-> dropped]

GenericPlan == Plan(audio, <<Shot(NoRepo, 0, audio)>>, 0)

EqualPlan(repos) ==
  LET each == audio \div Len(repos)
  IN Plan(audio, [i \in DOMAIN repos |-> Shot(repos[i], (i - 1) * each, each)], 0)

\* From the realized topics: the page of the week leads when the first topic
\* is not the article, the last segment ends with the audio, and what is
\* next to nothing is dropped.
RealizedPlan(ts, weekly) ==
  LET lead == IF ts[1].mode # "article" /\ weekly THEN Min2(ts[1].start, audio) ELSE 0
      Starts == [i \in 1 .. Len(ts) + 1 |->
                   IF i > Len(ts) THEN audio
                   ELSE IF i = 1 /\ lead = 0 THEN 0 ELSE Min2(ts[i].start, audio)]
      all == (IF lead > 0 THEN <<Shot(NoRepo, 0, lead)>> ELSE <<>>)
             \o [i \in DOMAIN ts |-> Shot(IF ts[i].mode = "repo" THEN ts[i].repo ELSE NoRepo,
                                          Starts[i], Starts[i + 1] - Starts[i])]
      kept == SelectSeq(all, LAMBDA s : s.length > DropBelow)
  IN IF kept = <<>> THEN GenericPlan ELSE Plan(audio, kept, Len(all) - Len(kept))

\* Without metadata: every repo where the script first names it, in order,
\* and at least Least apart.
Least(n) == Min2(MinSegment, audio \div n)

MentionPlan(mentions) ==
  LET n == Len(mentions)
      Place(acc, i) ==
        LET start == Max2(0, Min2(mentions[i].at, audio - (n - i + 1) * Least(n)))
        IN Append(acc, IF acc = <<>> THEN start ELSE Max2(start, Last(acc) + Least(n)))
      starts == FoldLeft(Place, <<>>, [i \in 1..n |-> i])
      End(i) == IF i < n THEN starts[i + 1] ELSE audio
  IN Plan(audio, [i \in 1..n |-> Shot(mentions[i].repo, starts[i],
                                      Max2(End(i) - starts[i], Least(n)))], 0)

\* The page of the week before the first repo, for the whole bridge to it.
PrependWeekly(p) ==
  LET bridge == p.segs[1].start
      length == Max2(bridge, WeeklyMin)
      shift == Max2(0, length - bridge)
  IN IF \A i \in DOMAIN p.segs : p.segs[i].repo = NoRepo THEN p
     ELSE Plan(p.total + shift,
               <<Shot(NoRepo, 0, length)>>
               \o [i \in DOMAIN p.segs |-> [p.segs[i] EXCEPT !.start = @ + shift]], 0)

---------------------------------------------------------------------------
\* The composition: lengths for the window between the bumpers.

\* mutant: the first segment plays in full after the intro
TrimNothing(first, intro) == first

TrimForIntro(first, intro) ==
  IF intro = 0 THEN first ELSE Max2(first - intro, Min2(first, Lead))

Trimmed(p, bumpers) ==
  LET n == Len(p.segs)
      opened == [i \in 1..n |-> IF i = 1 THEN TrimForIntro(p.segs[1].length, bumpers.intro)
                                ELSE p.segs[i].length]
  IN [opened EXCEPT ![n] = IF bumpers.outro > 0 THEN Max2(@ - bumpers.outro, 0) ELSE @]

Shortest == Transition + Headroom

\* Scaled to fill the window and one transition per boundary, then raised to
\* the shortest length a transition allows, and what that adds taken from
\* the segments that are longer, as far as they can give it.
FitDurations(lengths, window) ==
  LET n == Len(lengths)
      target == window + Transition * (n - 1)
      sum == Total(lengths)
      den == IF sum = 0 THEN n ELSE sum
      raised == [i \in 1..n |-> Max2(IF sum = 0 THEN target ELSE lengths[i] * target,
                                     Shortest * den)]
      excess == Total(raised) - target * den
      room == [i \in 1..n |-> raised[i] - Shortest * den]
  IN IF excess > 0 /\ Total(room) >= excess
     THEN [num |-> [i \in 1..n |-> raised[i] * Total(room) - excess * room[i]],
           den |-> den * Total(room)]
     ELSE [num |-> raised, den |-> den]

---------------------------------------------------------------------------
NoPlan == Plan(0, <<>>, 0)
NoFit == [num |-> <<>>, den |-> 1, window |-> 0, bumpers |-> [intro |-> 0, outro |-> 0, cards |-> 0]]

Init ==
  /\ phase = "script"
  /\ offset \in Offsets /\ audio \in Audios
  /\ turns = <<>> /\ topics = <<>> /\ script = <<>> /\ edl = <<>>
  /\ plan = NoPlan /\ fit = NoFit

\* The next turn of the script, as long as its speech was measured to be.
Speak(t) ==
  /\ phase = "script" /\ Len(turns) < MaxTurns
  /\ LET start == IF turns = <<>> THEN offset ELSE Last(turns).end + Gap
     IN turns' = Append(turns, [mode |-> t.mode, repo |-> t.repo, more |-> t.more,
                                start |-> start, end |-> start + t.length])
  /\ UNCHANGED <<phase, offset, audio, topics, script, edl, plan, fit>>

Realize ==
  /\ phase = "script" /\ turns # <<>>
  /\ topics' = BuildTopics(turns)
  /\ phase' = "realized"
  /\ UNCHANGED <<offset, audio, turns, script, edl, plan, fit>>

PlanEdl(library) ==
  /\ phase = "realized"
  /\ LET blocks == FillGaps(MergeShort(topics), Last(turns).end)
     IN edl' = [i \in DOMAIN blocks |-> Segment(blocks[i], library)]
  /\ phase' = "edl"
  /\ UNCHANGED <<offset, audio, turns, topics, script, plan, fit>>

PlanRealized(weekly) ==
  /\ phase = "realized"
  /\ plan' = RealizedPlan(topics, weekly)
  /\ phase' = "plan"
  /\ UNCHANGED <<offset, audio, turns, topics, script, edl, fit>>

\* The repos a pinned article may name, and the mentions a script may have.
Articles == {<<r>> : r \in Repos} \cup {r \in Repos \X Repos : r[1] # r[2]}

Scripts ==
  LET Mention == [repo : Repos, at : {m \in Mentions : m <= audio}]
  IN {<<>>} \cup {<<m>> : m \in Mention}
     \cup {m \in Mention \X Mention : m[1].repo # m[2].repo /\ m[1].at <= m[2].at}

\* A job of before the metadata: repos by mention, or in equal parts where
\* only the pinned article names them, or none at all.
PlanLegacy(mentions, weekly) ==
  /\ phase = "script" /\ turns = <<>>
  /\ script' = mentions
  /\ \E p \in IF mentions # <<>> THEN {MentionPlan(mentions)}
              ELSE {GenericPlan} \cup {EqualPlan(repos) : repos \in Articles} :
       plan' = IF weekly THEN PrependWeekly(p) ELSE p
  /\ phase' = "plan"
  /\ UNCHANGED <<offset, audio, turns, topics, edl, fit>>

Compose(bumpers) ==
  /\ phase = "plan"
  /\ LET window == Max2(audio - bumpers.intro - bumpers.outro
                          - Max2(0, bumpers.cards - Transition), MinContent)
         fitted == FitDurations(Trimmed(plan, bumpers), window)
     IN fit' = [num |-> fitted.num, den |-> fitted.den, window |-> window, bumpers |-> bumpers]
  /\ phase' = "composed"
  /\ UNCHANGED <<offset, audio, turns, topics, script, edl, plan>>

Next ==
  \/ \E t \in Turns : Speak(t)
  \/ Realize
  \/ \E library \in Libraries : PlanEdl(library)
  \/ \E weekly \in BOOLEAN : PlanRealized(weekly)
  \/ \E weekly \in BOOLEAN, mentions \in Scripts : PlanLegacy(mentions, weekly)
  \/ \E bumpers \in Bumpers : Compose(bumpers)

Spec == Init /\ [][Next]_vars

---------------------------------------------------------------------------
\* Properties

Lengths(p) == [i \in DOMAIN p.segs |-> p.segs[i].length]

\* The edit decision list tiles the audio, and no segment but an intermission is
\* shorter than a viewer can follow, unless the whole episode is (plan_edl).
EdlTiles ==
  \A i \in DOMAIN edl :
    /\ edl[i].start = (IF i = 1 THEN 0 ELSE edl[i - 1].end)
    /\ edl[i].start < edl[i].end
    /\ i = Len(edl) => edl[i].end = Last(turns).end
    /\ Short(edl[i]) => Last(turns).end < MinVisual

\* A clip is shown exactly as long as its segment, and longer only by what its
\* safe ranges, once all of them are cut, share with the tail cut after them
\* (plan_source_ranges).
SourceFills ==
  \A i \in DOMAIN edl : edl[i].kind = "clip" =>
    LET safe == UNION {Ticks(r) : r \in SafeRanges(edl[i].clip)}
        twice == {t \in safe : t >= Len2(edl[i]) + Cardinality(safe)}
    IN Total([k \in DOMAIN edl[i].source |-> Len2(edl[i].source[k])])
         = Len2(edl[i]) + Cardinality(twice)

\* Without a page of the week, nothing is shown for the bridge before the first
\* repo of a legacy script.
Opening == IF topics = <<>> /\ plan.segs # <<>> THEN plan.segs[1].start ELSE 0
Dropped == plan.dropped * DropBelow

\* The segments are laid out one after the other: each is on screen when its
\* start says, up to the opening and what was dropped.
PlanTiles ==
  \A k \in DOMAIN plan.segs :
    /\ plan.segs[k].start - Before(Lengths(plan), k) \in Opening .. Opening + Dropped
    /\ k = Len(plan.segs) =>
         plan.total - Total(Lengths(plan)) \in Opening .. Opening + Dropped

\* Every repo the hosts name while there is audio has its segment, from the
\* moment they name it.  Of a legacy script it is moved only to make room: to an
\* earlier start for itself and the repos after it, to a later one for those
\* before it, and by what the page of the week adds to the bridge.
RepoIsShown ==
  phase = "plan" =>
    /\ \A i \in DOMAIN topics :
         LET end == IF i = Len(topics) THEN audio ELSE Min2(topics[i + 1].start, audio)
         IN (topics[i].mode = "repo" /\ end - topics[i].start > DropBelow) =>
              \E k \in DOMAIN plan.segs :
                 /\ plan.segs[k].repo = topics[i].repo
                 /\ plan.segs[k].start = topics[i].start \/ (i = 1 /\ plan.segs[k].start = 0)
    /\ \A i \in DOMAIN script :
         LET n == Len(script)
             earliest == Min2(script[i].at, audio - (n - i + 1) * Least(n))
             latest == script[i].at + (i - 1) * Least(n)
         IN \E k \in DOMAIN plan.segs :
              /\ plan.segs[k].repo = script[i].repo
              /\ plan.segs[k].start - (plan.total - audio) \in earliest .. latest
              /\ plan.segs[k].length >= Least(n)

\* The composed content, less one transition per boundary, is as long as its
\* window, and no segment is too short for a transition, whenever that is
\* possible.
ContentFits ==
  phase = "composed" =>
    LET n == Len(fit.num)
        target == fit.window + Transition * (n - 1)
    IN /\ \A k \in 1..n : fit.num[k] >= Shortest * fit.den
       /\ n * Shortest <= target => Total(fit.num) = target * fit.den

\* The video shows a segment when the plan says, give or take one transition per
\* boundary and what the lengths cannot follow: late by what the intro covers
\* beyond the first segment, early by the opening, by what the plan is longer than
\* the audio, by what the outro covers beyond the last segment and by the section
\* cards, and either way by what was dropped and by the lengths raised for a
\* transition (_trim_first_for_intro, _fit_target_durations, compose_video).
\* What is shown is counted without the cards that come before it.
OnCueInVideo ==
  phase = "composed" =>
    LET n == Len(plan.segs)
        Excess(a, b) == Max2(0, a - b)
        bumpers == fit.bumpers
        length == Total(Lengths(plan))
        cards == Excess(bumpers.cards, Transition)
        raised == Shortest * Cardinality({k \in 1..n : fit.num[k] = Shortest * fit.den})
        late == Excess(bumpers.intro, Excess(plan.segs[1].length, Lead)) + Dropped
        early == Opening + Dropped + Excess(length, audio)
                 + Excess(bumpers.outro, plan.segs[n].length) + cards
    IN \A k \in 2..n :
         LET due == plan.segs[k].start - bumpers.intro
             shown == Before(fit.num, k) - (k - 1) * Transition * fit.den
         IN shown - due * fit.den \in -(early + raised + (k - 1) * Transition) * fit.den
                                       .. (late + raised + (n - k) * Transition) * fit.den

\* What the planners and the composition promise together.
TimelineIsCovered ==
  EdlTiles /\ SourceFills /\ PlanTiles /\ RepoIsShown /\ ContentFits /\ OnCueInVideo
=============================================================================
