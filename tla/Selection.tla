------------------------------ MODULE Selection ------------------------------
(***************************************************************************)
(* What the recovery of a reviewed job promises (podcaster/video/          *)
(* recovery.py; docs/integration-contract.md), whatever attempts die, come *)
(* late or are repeated:                                                   *)
(*                                                                         *)
(*   - ordinary work and every epoch that is authorised later have one     *)
(*     turn, one after the other, and a turn that is closed stays closed;  *)
(*   - a candidate is staged and selected in the turn it was made for, or  *)
(*     never, and at most one is staged at a time;                         *)
(*   - one candidate of all turns is selected, for good, and the job is    *)
(*     complete with that step and not before.                             *)
(***************************************************************************)
EXTENDS Naturals

CONSTANTS
  Makers,   \* who makes candidates
  Nothing   \* no candidate

VARIABLES
  turn,      \* 0 is the ordinary work, n the epoch n
  open,      \* the turn is not closed
  staged,    \* the candidate that may be selected
  selected,  \* the candidate that was
  complete

vars == <<turn, open, staged, selected, complete>>

Made(x) == [by |-> x, epoch |-> turn]

Init ==
  /\ turn = 0 /\ open = TRUE
  /\ staged = Nothing /\ selected = Nothing /\ complete = FALSE

Stage(x) ==
  /\ open /\ staged = Nothing /\ selected = Nothing
  /\ staged' = Made(x)
  /\ UNCHANGED <<turn, open, selected, complete>>

Select(x) ==
  /\ open /\ staged = Made(x) /\ selected = Nothing
  /\ selected' = Made(x) /\ complete' = TRUE
  /\ staged' = Nothing /\ open' = FALSE
  /\ UNCHANGED turn

\* An epoch runs out.  Ordinary work is closed by the next turn only.
Close ==
  /\ turn # 0 /\ open
  /\ open' = FALSE
  /\ UNCHANGED <<turn, staged, selected, complete>>

PassOn ==
  /\ selected = Nothing
  /\ turn = 0 \/ ~open
  /\ turn' = turn + 1 /\ open' = TRUE /\ staged' = Nothing
  /\ UNCHANGED <<selected, complete>>

Next == (\E x \in Makers : Stage(x) \/ Select(x)) \/ Close \/ PassOn

Spec == Init /\ [][Next]_vars
=============================================================================
