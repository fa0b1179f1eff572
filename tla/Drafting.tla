------------------------------ MODULE Drafting ------------------------------
(***************************************************************************)
(* How one generation call gets a script that may be staged: the draft     *)
(* with its section and length repairs (podcaster/script_gen.py), then the *)
(* audit with targeted and full repairs, or the deterministic gate that    *)
(* repairs and then downgrades in code (podcaster/jobs.py,                 *)
(* claim_extraction.py, grounding_gate.py).                                *)
(*                                                                         *)
(* A script is what these loops tell apart: its spoken words, whether its  *)
(* sections are valid, and the turns the gate finds ungrounded.  What the  *)
(* model answers is arbitrary.  Time is the budget it has used up.         *)
(***************************************************************************)
EXTENDS Naturals, FiniteSets

CONSTANTS
  Turns,              \* the spoken turns of a script
  MaxWords,           \* bound: spoken words of a script
  Low, High,          \* the requested range of spoken words
  Modes,              \* GROUNDING_MODE: "audit", "both", "construct"
  MaxSectionRepairs,  \* MAX_SECTION_REPAIRS
  MaxLengthRepairs,   \* MAX_LENGTH_REPAIRS
  MaxTargeted,        \* MAX_TARGETED_REPAIRS
  MaxFull,            \* MAX_GROUNDING_REPAIRS
  Unconditional,      \* GROUNDING_REPAIRS_UNCONDITIONAL
  MaxGate             \* MAX_GATE_REPAIRS

ASSUME DraftingAssumption ==
  /\ {MaxWords, Low, High, MaxSectionRepairs, MaxLengthRepairs, MaxTargeted, MaxFull,
      Unconditional, MaxGate} \subseteq Nat
  /\ Low <= High /\ High <= MaxWords
  /\ Modes \subseteq {"audit", "both", "construct"}

VARIABLES
  draft,  \* the script in work, and the counters of its repairs
  clock   \* the last of the deadlines that has passed

draftVars == <<draft, clock>>

\* No full draft is started after the second deadline, no repair after the third (when
\* the unconditional ones are used up), no gate repair after the last.
Deadlines == <<"none", "full", "repair", "gate">>
Past(d) == \E i, j \in 1..4 : i <= j /\ Deadlines[i] = d /\ Deadlines[j] = clock

NoDraft == [at |-> "off", mode |-> "audit", words |-> 0, sections |-> TRUE, tries |-> 0,
            flagged |-> {}, found |-> {}, target |-> FALSE, full |-> 0, targeted |-> 0,
            rounds |-> 0]

InRange(w) == Low <= w /\ w <= High
Drafted(at) == draft.at = at
Ended == {"done", "failed", "filter", "throttled", "broken"}
Drafts == draft.at \notin {"off"} \cup Ended

Fail == draft' = [draft EXCEPT !.at = "failed"]
OutOfTime(rounds) == rounds >= Unconditional /\ Past("repair")

-----------------------------------------------------------------------------
(* The draft (generate_script).                                            *)

\* The first draft, in one request or section by section, or a full repair.
Write ==
  /\ Drafted("write")
  /\ \E w \in 0..MaxWords, s \in BOOLEAN :
       draft' = [draft EXCEPT !.at = "sections", !.words = w, !.sections = s, !.tries = 0]
  /\ UNCHANGED clock

SectionsStand ==
  /\ Drafted("sections")
  /\ draft.sections
  /\ draft' = [draft EXCEPT !.at = "length", !.tries = 0]
  /\ UNCHANGED clock

\* An empty answer uses up a repair as well.
RepairSections ==
  /\ Drafted("sections")
  /\ ~draft.sections
  /\ IF draft.tries = MaxSectionRepairs
       THEN Fail
       ELSE \E w \in 0..MaxWords, s \in BOOLEAN :
              draft' \in {[draft EXCEPT !.tries = @ + 1],
                          [draft EXCEPT !.tries = @ + 1, !.words = w, !.sections = s]}
  /\ UNCHANGED clock

\* The canonical script is in range and its sections are valid.
LengthStands ==
  /\ Drafted("length")
  /\ InRange(draft.words) /\ draft.sections
  /\ \E f \in SUBSET Turns :
       draft' = [draft EXCEPT !.at = IF draft.mode = "construct" THEN "gate" ELSE "audit",
                              !.flagged = f, !.found = {}, !.tries = 0]
  /\ UNCHANGED clock

\* The second repair of a script that is still short inserts turns and replaces none;
\* any other is a rewrite, which is not taken when it shrinks a script that is short.
RepairLength ==
  /\ Drafted("length")
  /\ ~(InRange(draft.words) /\ draft.sections)
  /\ IF draft.tries = MaxLengthRepairs
       THEN Fail
       ELSE \/ draft' = [draft EXCEPT !.tries = @ + 1]
            \/ \E w \in 0..MaxWords, s \in BOOLEAN :
                 /\ draft.words < Low => w >= draft.words
                 /\ draft.tries = 1 /\ draft.words < Low /\ draft.sections => s
                 /\ draft' = [draft EXCEPT !.tries = @ + 1, !.words = w, !.sections = s]
  /\ UNCHANGED clock

-----------------------------------------------------------------------------
(* The audit loop of the modes "audit" and "both".                         *)

\* What the model finds, and in mode "both" what the gate finds when the model finds
\* nothing.  An answer that cannot be used names no turns to repair.
Audit ==
  /\ Drafted("audit")
  /\ \E v \in SUBSET Turns, usable \in BOOLEAN :
       LET found == IF v = {} /\ draft.mode = "both" THEN draft.flagged ELSE v
           target == usable /\ found # {}
           next == target /\ draft.targeted < MaxTargeted
       IN IF usable /\ found = {}
            THEN draft' = [draft EXCEPT !.at = "done", !.found = {}]
            ELSE IF (~next /\ draft.full >= MaxFull) \/ OutOfTime(draft.rounds)
              THEN Fail
              ELSE draft' = [draft EXCEPT !.at = "repair", !.target = target,
                                          !.found = IF target THEN found ELSE {}]
  /\ UNCHANGED clock

\* Mutant: the length of the patched script is not looked at.
MergesAnyway(w) == TRUE

\* merge_turn_replacements: the rewritten turns have another length, and the patch is
\* taken only if the whole script stays in its range.
Merges(w) == InRange(w)

\* One small request rewrites the turns that were found, and no others; a patch that
\* is not usable, or not merged, is asked for again.
RepairTurns ==
  LET again == [draft EXCEPT !.rounds = @ + 1, !.targeted = @ + 1]
  IN /\ Drafted("repair")
     /\ draft.target /\ draft.targeted < MaxTargeted
     /\ \/ \E f \in SUBSET draft.found, w \in 0..MaxWords :
             /\ Merges(w)
             /\ draft' = [again EXCEPT !.at = "audit", !.found = {}, !.target = FALSE, !.words = w,
                                       !.flagged = (@ \ draft.found) \cup f]
        \/ IF OutOfTime(draft.rounds + 1) THEN Fail ELSE draft' = again
     /\ UNCHANGED clock

\* A full repair re-opens the budget of targeted ones.
RepairAll ==
  /\ Drafted("repair")
  /\ ~(draft.target /\ draft.targeted < MaxTargeted)
  /\ IF draft.full >= MaxFull \/ Past("full")
       THEN Fail
       ELSE draft' = [NoDraft EXCEPT !.at = "write", !.mode = draft.mode, !.full = draft.full + 1,
                                     !.rounds = draft.rounds + 1]
  /\ UNCHANGED clock

-----------------------------------------------------------------------------
(* The deterministic gate of mode "construct" (enforce).                   *)

\* The same request.  A repaired script is dropped when a turn that passed was changed.
GateRepair ==
  /\ Drafted("gate")
  /\ draft.flagged # {} /\ draft.rounds < MaxGate /\ ~Past("gate")
  /\ \E changed, f \in SUBSET Turns, w \in 0..MaxWords :
       LET next == [draft EXCEPT !.rounds = @ + 1] IN
       /\ f \ changed = draft.flagged \ changed
       /\ draft' = IF changed \subseteq draft.flagged /\ Merges(w)
                     THEN [next EXCEPT !.flagged = f, !.words = w] ELSE next
  /\ UNCHANGED clock

\* Each turn that still fails becomes a quotation or a filler, and the disclosure is put
\* in its place, which may move the script out of its range.
Downgrade ==
  /\ Drafted("gate")
  /\ draft.flagged = {} \/ draft.rounds = MaxGate \/ Past("gate")
  /\ \E w \in 0..MaxWords :
       draft' = [draft EXCEPT !.at = "settle", !.words = w, !.flagged = {}]
  /\ UNCHANGED clock

\* Quotations are added or chat is dropped if that brings it back; else it is rejected.
Settle ==
  /\ Drafted("settle")
  /\ \/ \E w \in Low..High :
          /\ InRange(draft.words) => w = draft.words
          /\ draft' = [draft EXCEPT !.at = "done", !.words = w]
     \/ Fail
  /\ UNCHANGED clock

-----------------------------------------------------------------------------
\* The provider filters the answer, throttles, or fails otherwise.
Break ==
  /\ draft.at \in {"write", "sections", "length", "audit", "repair", "gate"}
  /\ \E why \in {"filter", "throttled", "broken"} : draft' = [NoDraft EXCEPT !.at = why]
  /\ UNCHANGED clock

Late ==
  /\ Drafts
  /\ \E i \in 1..3 : Deadlines[i] = clock /\ clock' = Deadlines[i + 1]
  /\ UNCHANGED draft

DraftStep ==
  \/ Write \/ SectionsStand \/ RepairSections \/ LengthStands \/ RepairLength
  \/ Audit \/ RepairTurns \/ RepairAll
  \/ GateRepair \/ Downgrade \/ Settle
  \/ Break \/ Late

-----------------------------------------------------------------------------
\* A script that is accepted has the requested length, and nothing that its mode looks
\* at was found wrong with it after the last change, however many repairs of either
\* kind it went through.
AcceptedIsSound ==
  Drafted("done") =>
    /\ InRange(draft.words)
    /\ draft.mode \in {"both", "construct"} => draft.flagged = {}

=============================================================================
