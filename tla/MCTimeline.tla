----------------------------- MODULE MCTimeline -----------------------------
\* Small instances of Timeline.  A tick stands for about two seconds; what is
\* dropped and the silence, far shorter, keep only their order.
EXTENDS Timeline

Turn(m, r, more, l) == [mode |-> m, repo |-> r, more |-> more, length |-> l]
MCTurns ==
  UNION {{Turn("repo", "r1", <<>>, l), Turn("repo", "r2", <<>>, l),
          Turn("article", NoRepo, <<>>, l), Turn("intermission", NoRepo, <<>>, l)} : l \in {3, 9}}
  \cup {Turn("repo", "r1", <<"r2", "r1">>, l) : l \in {3, 15}}

Clip(l, chapters, fallback) == [length |-> l, chapters |-> chapters, fallback |-> fallback]
Card == Clip(6, {}, TRUE)
Plain == Clip(12, {}, FALSE)
Chaptered == Clip(15, {[start |-> 0, end |-> 5], [start |-> 9, end |-> 15]}, FALSE)
Library(one, two, article, shots) ==
  [clips |-> [r \in Repos |-> IF r = "r1" THEN one ELSE two], article |-> article, shots |-> shots]
MCLibraries ==
  {Library(Plain, Chaptered, Card, {}), Library(Chaptered, Card, Plain, {}),
   Library(NoClip, Plain, Chaptered, {"r1"}), Library(Card, NoClip, NoClip, {"r1"})}

MCBumpers ==
  {[intro |-> i, outro |-> o, cards |-> c] : i \in {0, 4, 14}, o \in {0, 5}, c \in {0, 6}}
=============================================================================
