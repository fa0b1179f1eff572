--------------------------- MODULE RecoveryProofs ---------------------------
(***************************************************************************)
(* Proofs about Recovery, for every number of attempts, epochs, messages   *)
(* and faults.                                                             *)
(***************************************************************************)
EXTENDS Recovery, SequenceTheorems, TLAPS

-----------------------------------------------------------------------------
(* The inductive invariant.                                                *)

AttemptSteps == {"new", "start", "admit", "skip", "render", "stage", "choose",
                 "readback", "record", "failed", "gone"}

Epochs == [status : Open \cup {"selected", "terminal"}, owner : Attempts \cup {Nobody},
           live : BOOLEAN, over : BOOLEAN, sent : BOOLEAN]

Selections == [by : Attempts \cup {Nobody}, epoch : Nat]

AttemptStates == [at : AttemptSteps, msg : Nat, epoch : Nat]

CallerStates == [at : {"idle", "observe", "send", "ack"}, epoch : Nat]

Messages == [epoch : Nat, at : {"visible", "held", "gone"}, by : Attempts \cup {Nobody},
             count : Nat]

\* An attempt is there once its candidate was selected only.
Won == {"readback", "record"}

\* Attempts, callers and messages name epochs that the ledger has.
AttemptsOK ==
  /\ attempt \in [Attempts -> AttemptStates]
  /\ \A x \in Attempts :
       /\ attempt[x].epoch \in 0..Len(epochs)
       /\ attempt[x].at \in Won => chosen # Nothing

CallersOK ==
  /\ caller \in [Callers -> CallerStates]
  /\ \A a \in Callers : caller[a].at # "idle" => caller[a].epoch \in 1..Len(epochs)

MessagesOK ==
  /\ message \in Seq(Messages)
  /\ \A m \in 1..Len(message) : message[m].epoch \in 0..Len(epochs)

\* The ledger, the selection and the recorded state of the runner belong together, and
\* an epoch has a successor only once it is terminal.
SelectionOK ==
  /\ \A e \in 1..(Len(epochs) - 1) : epochs[e].status = "terminal"
  /\ \A e \in 1..Len(epochs) :
       epochs[e].status = "selected" <=> chosen # Nothing /\ chosen.epoch = e
  /\ runner = "completed" <=> chosen # Nothing
  /\ chosen # Nothing =>
       /\ pending = Nothing
       /\ chosen.epoch = 0 => epochs = <<>>
       /\ chosen.epoch # 0 =>
            /\ chosen.epoch \in 1..Len(epochs)
            /\ epochs[chosen.epoch].owner = chosen.by

DocumentOK ==
  /\ epochs \in Seq(Epochs)
  /\ pending \in Selections /\ chosen \in Selections
  /\ runner \in {"none", "completed", "failed"}
  /\ SelectionOK

IInv == DocumentOK /\ AttemptsOK /\ CallersOK /\ MessagesOK

-----------------------------------------------------------------------------
(* Steps on the ledger.                                                    *)

\* An open epoch may go on or end; what is selected or terminal stays so.
Moves(old, new) == new = old \/ (old \in Open /\ new \in Open \cup {"terminal"})

\* What every step but a reservation and a choice does to the ledger: it keeps its
\* length, what is selected or ended, and the owners once anything is chosen.
EpochsKept ==
  /\ epochs' \in Seq(Epochs)
  /\ Len(epochs') = Len(epochs)
  /\ \A e \in 1..Len(epochs) :
       /\ Moves(epochs[e].status, epochs'[e].status)
       /\ chosen # Nothing => epochs'[e].owner = epochs[e].owner

\* An epoch of the ledger has the fields of one.
LEMMA EpochType ==
  ASSUME epochs \in Seq(Epochs), NEW e \in 1..Len(epochs)
  PROVE  epochs[e] \in Epochs
  BY ElementOfSeq

\* One epoch is amended.
LEMMA AmendEpoch ==
  ASSUME epochs \in Seq(Epochs), NEW e \in 1..Len(epochs), NEW r \in Epochs,
         epochs' = [epochs EXCEPT ![e] = r],
         Moves(epochs[e].status, r.status),
         chosen # Nothing => r.owner = epochs[e].owner
  PROVE  EpochsKept
<1>1. /\ epochs' \in Seq(Epochs)
      /\ Len(epochs') = Len(epochs)
      /\ \A j \in 1..Len(epochs) : epochs'[j] = IF j = e THEN r ELSE epochs[j]
  BY ExceptSeq
<1> QED
  BY <1>1 DEF EpochsKept, Moves

\* Nothing is done to the ledger.
LEMMA SameEpochs ==
  ASSUME epochs \in Seq(Epochs), epochs' = epochs
  PROVE  EpochsKept
  BY DEF EpochsKept, Moves

\* An epoch whose deadline has passed is made terminal while nothing is chosen.
LEMMA ExpireEpoch ==
  ASSUME epochs \in Seq(Epochs), NEW e \in 1..Len(epochs), epochs' = Expired(e)
  PROVE  EpochsKept
<1>1. CASE epochs' = epochs
  BY <1>1, SameEpochs
<1>2. CASE epochs' # epochs
  <2> DEFINE r == [epochs[e] EXCEPT !.status = "terminal"]
  <2>1. epochs' = [epochs EXCEPT ![e] = r] /\ epochs[e].status \in Open /\ chosen = Nothing
    BY <1>2 DEF Expired
  <2>2. r \in Epochs /\ r.status = "terminal"
    BY EpochType DEF Epochs
  <2>3. Moves(epochs[e].status, r.status)
    BY <2>1, <2>2 DEF Moves
  <2> HIDE DEF r
  <2> QED
    BY <2>1, <2>2, <2>3, AmendEpoch
<1> QED
  BY <1>1, <1>2

\* An open epoch is claimed while nothing is chosen.
LEMMA ClaimEpoch ==
  ASSUME epochs \in Seq(Epochs), NEW e \in 1..Len(epochs), NEW x \in Attempts,
         Claimable(x, e), epochs' = Claimed(x, e)
  PROVE  EpochsKept
<1> DEFINE r == [epochs[e] EXCEPT !.status = "running", !.owner = x, !.live = TRUE]
<1>1. epochs[e] \in Epochs
  BY EpochType
<1>2. epochs' = [epochs EXCEPT ![e] = r]
  BY DEF Claimed
<1>3. r \in Epochs /\ r.status = "running"
  BY <1>1 DEF Epochs, Open
<1>4. Moves(epochs[e].status, r.status) /\ chosen = Nothing
  BY <1>3 DEF Claimable, Open, Moves
<1> HIDE DEF r
<1> QED
  BY <1>2, <1>3, <1>4, AmendEpoch

\* The selection stands over every such step.
LEMMA DocumentKept ==
  ASSUME DocumentOK, EpochsKept, chosen' = chosen,
         pending' \in Selections, chosen # Nothing => pending' = pending,
         runner' \in {"none", "completed", "failed"},
         runner' = "completed" <=> runner = "completed"
  PROVE  DocumentOK'
<1> USE DEF DocumentOK, EpochsKept
<1>1. Len(epochs) \in Nat /\ (epochs = <<>> => Len(epochs) = 0)
      /\ (Len(epochs') = 0 => epochs' = <<>>)
  BY LenProperties, EmptySeq
<1>2. \A e \in 1..Len(epochs) :
        /\ epochs'[e].status = "selected" <=> epochs[e].status = "selected"
        /\ epochs[e].status = "terminal" => epochs'[e].status = "terminal"
  BY DEF Moves, Open
<1>3. \A e \in 1..(Len(epochs') - 1) : e \in 1..Len(epochs) /\ e \in 1..(Len(epochs) - 1)
  BY <1>1
<1>4. SelectionOK'
  BY <1>1, <1>2, <1>3 DEF SelectionOK
<1> QED
  BY <1>4

-----------------------------------------------------------------------------
(* Steps of attempts, callers and messages.                                *)

\* The ledger never shrinks, and a selection is not taken back.
Grows ==
  /\ Len(epochs) \in Nat /\ Len(epochs') \in Nat /\ Len(epochs') >= Len(epochs)
  /\ chosen # Nothing => chosen' # Nothing

\* A ledger that is kept has its length.
LEMMA KeptGrows ==
  ASSUME epochs \in Seq(Epochs), EpochsKept, chosen' = chosen
  PROVE  Grows
<1>1. Len(epochs) \in Nat
  BY LenProperties
<1> QED
  BY <1>1 DEF EpochsKept, Grows

\* An attempt takes a new state, with an epoch of the ledger.
LEMMA AttemptMoves ==
  ASSUME AttemptsOK, Grows, NEW x \in Attempts, NEW r \in AttemptStates,
         r.epoch \in 0..Len(epochs), r.at \in Won => chosen' # Nothing,
         attempt' = [attempt EXCEPT ![x] = r]
  PROVE  AttemptsOK'
<1>1. attempt' \in [Attempts -> AttemptStates]
  BY DEF AttemptsOK
<1>2. \A y \in Attempts : /\ attempt'[y].epoch \in 0..Len(epochs)
                           /\ attempt'[y].at \in Won => chosen' # Nothing
  BY DEF AttemptsOK, Grows
<1>3. 0..Len(epochs) \subseteq 0..Len(epochs')
  BY DEF Grows
<1> QED
  BY <1>1, <1>2, <1>3 DEF AttemptsOK

\* Nothing is done to the attempts.
LEMMA AttemptsStay ==
  ASSUME AttemptsOK, Grows, attempt' = attempt
  PROVE  AttemptsOK'
<1>1. 0..Len(epochs) \subseteq 0..Len(epochs')
  BY DEF Grows
<1> QED
  BY <1>1 DEF AttemptsOK, Grows

\* An attempt goes on.
LEMMA GotoMoves ==
  ASSUME AttemptsOK, Grows, NEW x \in Attempts, NEW pc \in AttemptSteps, Goto(x, pc),
         pc \in Won => chosen' # Nothing
  PROVE  AttemptsOK'
<1> DEFINE r == [attempt[x] EXCEPT !.at = pc]
<1>1. attempt' = [attempt EXCEPT ![x] = r]
  BY DEF Goto
<1>2. attempt[x] \in AttemptStates /\ attempt[x].epoch \in 0..Len(epochs)
  BY DEF AttemptsOK
<1>3. r \in AttemptStates /\ r.epoch = attempt[x].epoch /\ r.at = pc
  BY <1>2 DEF AttemptStates
<1> HIDE DEF r
<1> QED
  BY <1>1, <1>2, <1>3, AttemptMoves

\* An attempt ends.
LEMMA LeaveMoves ==
  ASSUME AttemptsOK, Grows, NEW x \in Attempts, Leave(x)
  PROVE  AttemptsOK'
<1> DEFINE r == [NewAttempt EXCEPT !.at = "gone"]
<1>1. attempt' = [attempt EXCEPT ![x] = r]
  BY DEF Leave
<1>2. r \in AttemptStates /\ r.epoch = 0 /\ r.at \notin Won
  BY DEF AttemptStates, AttemptSteps, NewAttempt, Won
<1>3. 0 \in 0..Len(epochs)
  BY DEF Grows
<1> HIDE DEF r
<1> QED
  BY <1>1, <1>2, <1>3, AttemptMoves

\* A caller takes a new state, with an epoch of the ledger unless it is idle.
LEMMA CallerMoves ==
  ASSUME CallersOK, Grows, NEW a \in Callers, NEW r \in CallerStates,
         r.at # "idle" => r.epoch \in 1..Len(epochs'),
         caller' = [caller EXCEPT ![a] = r]
  PROVE  CallersOK'
<1>1. caller' \in [Callers -> CallerStates]
  BY DEF CallersOK
<1>2. 1..Len(epochs) \subseteq 1..Len(epochs')
  BY DEF Grows
<1>3. \A b \in Callers : caller'[b].at # "idle" => caller'[b].epoch \in 1..Len(epochs')
  BY <1>2 DEF CallersOK
<1> QED
  BY <1>1, <1>3 DEF CallersOK

\* Nothing is done to the callers.
LEMMA CallersStay ==
  ASSUME CallersOK, Grows, caller' = caller
  PROVE  CallersOK'
<1>1. 1..Len(epochs) \subseteq 1..Len(epochs')
  BY DEF Grows
<1> QED
  BY <1>1 DEF CallersOK

\* A caller becomes idle.
LEMMA IdleMoves ==
  ASSUME CallersOK, Grows, NEW a \in Callers, caller' = [caller EXCEPT ![a] = Idle]
  PROVE  CallersOK'
<1>1. Idle \in CallerStates /\ Idle.at = "idle"
  BY DEF Idle, CallerStates
<1> HIDE DEF Idle
<1> QED
  BY <1>1, CallerMoves

\* One message is amended, or a new one sent.
LEMMA MessageMoves ==
  ASSUME MessagesOK, Grows, NEW m \in 1..Len(message), NEW r \in Messages,
         r.epoch \in 0..Len(epochs), message' = [message EXCEPT ![m] = r]
  PROVE  MessagesOK'
<1>1. /\ message' \in Seq(Messages)
      /\ Len(message') = Len(message)
      /\ \A j \in 1..Len(message) : message'[j] = IF j = m THEN r ELSE message[j]
  BY ExceptSeq DEF MessagesOK
<1>2. 0..Len(epochs) \subseteq 0..Len(epochs')
  BY DEF Grows
<1> QED
  BY <1>1, <1>2 DEF MessagesOK

\* Nothing is done to the messages.
LEMMA MessagesStay ==
  ASSUME MessagesOK, Grows, message' = message
  PROVE  MessagesOK'
<1>1. 0..Len(epochs) \subseteq 0..Len(epochs')
  BY DEF Grows
<1> QED
  BY <1>1 DEF MessagesOK

\* A message that is deleted names no epoch any more.
LEMMA GoneMoves ==
  ASSUME MessagesOK, Grows, NEW m \in 1..Len(message),
         message' = [message EXCEPT ![m] = Gone]
  PROVE  MessagesOK'
<1>1. Gone \in Messages /\ Gone.epoch = 0
  BY DEF Gone, Messages
<1>2. 0 \in 0..Len(epochs)
  BY DEF Grows
<1> HIDE DEF Gone
<1> QED
  BY <1>1, <1>2, MessageMoves

\* An attempt deletes its message, if the receipt is still its own.
LEMMA DeletedMoves ==
  ASSUME MessagesOK, Grows, NEW x \in Attempts, message' \in {message, Deleted(x)}
  PROVE  MessagesOK'
<1> DEFINE m == attempt[x].msg
<1>1. CASE message' = message
  BY <1>1, MessagesStay
<1>2. CASE message' = [message EXCEPT ![m] = Gone]
  <2>1. CASE m \in 1..Len(message)
    <3> HIDE DEF m
    <3> QED
      BY <1>2, <2>1, GoneMoves
  <2>2. CASE m \notin 1..Len(message)
    <3>1. message \in [1..Len(message) -> Messages]
      BY LenProperties DEF MessagesOK
    <3> HIDE DEF m
    <3>2. message' = message
      BY <1>2, <2>2, <3>1
    <3> QED
      BY <3>2, MessagesStay
  <2> QED
    BY <2>1, <2>2
<1> QED
  BY <1>1, <1>2 DEF Deleted

\* The end of an attempt, with its message or without.
LEMMA EndMoves ==
  ASSUME AttemptsOK, MessagesOK, Grows, NEW x \in Attempts, Finish(x) \/ Retry(x)
  PROVE  AttemptsOK' /\ MessagesOK'
<1>1. Leave(x) /\ message' \in {message, Deleted(x)}
  BY DEF Finish, Retry
<1> QED
  BY <1>1, LeaveMoves, DeletedMoves

-----------------------------------------------------------------------------
(* Every step.                                                             *)

\* What the ledger, the selection and the runner are to Selection.
opened == chosen = Nothing /\ LastOpen
completed == runner = "completed"

\* What every step must keep: the invariant, the choice, and what Selection promises.
Kept ==
  /\ IInv'
  /\ chosen # Nothing => chosen' = chosen
  /\ [Selecting!Next]_(Selecting!vars)

\* A step that selects nothing and stages nothing closes the last epoch, or is none of
\* Selection.
LEMMA KeptMaps ==
  ASSUME IInv, EpochsKept, UNCHANGED <<pending, chosen>>,
         runner' = "completed" <=> runner = "completed"
  PROVE  [Selecting!Next]_(Selecting!vars)
<1>1. /\ Len(epochs) \in Nat /\ Len(epochs') = Len(epochs)
      /\ epochs = <<>> <=> Len(epochs) = 0
      /\ epochs' = <<>> <=> Len(epochs') = 0
  BY LenProperties, EmptySeq DEF IInv, DocumentOK, EpochsKept
<1>2. completed' = completed
  BY DEF completed
<1>3. CASE opened' = opened
  <2>1. UNCHANGED Selecting!vars
    BY <1>1, <1>2, <1>3 DEF Selecting!vars, opened, completed
  <2> QED
    BY <2>1
<1>4. CASE opened' # opened
  <2>1. epochs # <<>>
    BY <1>1, <1>4 DEF opened, LastOpen
  <2>2. Moves(epochs[Len(epochs)].status, epochs'[Len(epochs')].status)
    BY <1>1, <2>1 DEF EpochsKept
  <2>3. opened = TRUE /\ opened' = FALSE
    BY <1>1, <1>4, <2>2 DEF opened, LastOpen, Moves
  <2>4. Selecting!Close
    BY <1>1, <1>2, <2>1, <2>3 DEF Selecting!Close, opened, completed
  <2> QED
    BY <2>4 DEF Selecting!Next
<1> QED
  BY <1>3, <1>4

\* Steps that leave the document alone.
LEMMA SameDocument ==
  ASSUME IInv, UNCHANGED docVars, AttemptsOK', CallersOK', MessagesOK'
  PROVE  Kept
<1>1. DocumentOK'
  BY DEF IInv, DocumentOK, SelectionOK, docVars
<1>2. [Selecting!Next]_(Selecting!vars)
  BY SameEpochs, KeptMaps DEF IInv, DocumentOK, docVars
<1> QED
  BY <1>1, <1>2 DEF Kept, IInv, docVars

\* The ledger does not shrink when it is left alone.
LEMMA SameGrows ==
  ASSUME DocumentOK, UNCHANGED <<epochs, chosen>>
  PROVE  Grows
  BY LenProperties DEF DocumentOK, Grows

\* Steps that keep the ledger, what is pending, the choice and the runner.
LEMMA SameChoice ==
  ASSUME IInv, EpochsKept, UNCHANGED <<pending, chosen, runner>>,
         AttemptsOK', CallersOK', MessagesOK'
  PROVE  Kept
<1>1. DocumentOK'
  BY DocumentKept DEF IInv, DocumentOK
<1> QED
  BY <1>1, KeptMaps DEF Kept, IInv

\* Steps of a caller.
LEMMA ReserveStep ==
  ASSUME IInv, NEW a \in Callers, Reserve(a)
  PROVE  Kept
<1> USE DEF IInv
<1>0. /\ chosen = Nothing /\ chosen' = Nothing /\ runner' = runner /\ pending' = Nothing
      /\ epochs' = Append(epochs, NewEpoch)
      /\ UNCHANGED <<message, attempt>>
  BY DEF Reserve
<1>1. NewEpoch \in Epochs /\ NewEpoch.status = "reserved"
  BY DEF NewEpoch, Epochs, Open
<1>2. /\ epochs' \in Seq(Epochs)
      /\ Len(epochs') = Len(epochs) + 1
      /\ Len(epochs) \in Nat
      /\ \A e \in 1..Len(epochs) : epochs'[e] = epochs[e]
      /\ epochs'[Len(epochs) + 1] = NewEpoch
  BY <1>0, <1>1, AppendProperties, LenProperties DEF DocumentOK
<1>3. Grows
  BY <1>0, <1>2 DEF Grows
<1>4. Nothing \in Selections
  BY DEF Nothing, Selections
<1>5. \A e \in 1..Len(epochs') : epochs'[e].status # "selected"
  <2>1. \A e \in 1..Len(epochs) : epochs'[e].status # "selected"
    BY <1>0, <1>2 DEF DocumentOK, SelectionOK
  <2>2. \A e \in 1..Len(epochs') : e \in 1..Len(epochs) \/ e = Len(epochs) + 1
    BY <1>2
  <2> QED
    BY <1>1, <1>2, <2>1, <2>2
<1>l. /\ epochs = <<>> <=> Len(epochs) = 0
      /\ epochs # <<>> => epochs[Len(epochs)].status = "terminal"
  BY EmptySeq DEF Reserve, DocumentOK
<1>t. \A e \in 1..(Len(epochs') - 1) : epochs'[e].status = "terminal"
  <2>1. \A e \in 1..(Len(epochs') - 1) : e \in 1..(Len(epochs) - 1) \/ e = Len(epochs)
    BY <1>2
  <2> QED
    BY <1>2, <1>l, <2>1 DEF DocumentOK, SelectionOK
<1>6. DocumentOK'
  BY <1>0, <1>2, <1>4, <1>5, <1>t DEF DocumentOK, SelectionOK
<1>7. CallersOK'
  <2> DEFINE r == [at |-> "observe", epoch |-> Len(epochs) + 1]
  <2>1. caller' = [caller EXCEPT ![a] = r]
    BY DEF Reserve
  <2>2. r \in CallerStates /\ r.epoch \in 1..Len(epochs')
    BY <1>2 DEF CallerStates
  <2> HIDE DEF r
  <2> QED
    BY <1>3, <2>1, <2>2, CallerMoves
<1>8. Selecting!PassOn
  <2>1. Len(epochs) = 0 \/ opened = FALSE
    BY <1>l DEF opened, LastOpen, Open
  <2>2. opened' = TRUE
    BY <1>0, <1>1, <1>2 DEF opened, LastOpen, Open
  <2> QED
    BY <1>0, <1>2, <2>1, <2>2 DEF Selecting!PassOn, opened
<1> QED
  BY <1>0, <1>3, <1>6, <1>7, <1>8, AttemptsStay, MessagesStay
     DEF Kept, Selecting!Next

\* A request or a sweep takes up the last epoch, or ends it.
LEMMA TakeUpStep ==
  ASSUME IInv, NEW a \in Callers, Rejoin(a) \/ Sweep(a)
  PROVE  Kept
<1> USE DEF IInv
<1>0. /\ UNCHANGED <<pending, chosen, runner, message, attempt>>
      /\ epochs # <<>> /\ epochs \in Seq(Epochs)
  BY DEF Rejoin, Sweep, docVars, DocumentOK
<1>1. Len(epochs) \in 1..Len(epochs)
  BY <1>0, EmptySeq
<1>2. EpochsKept
  <2>1. epochs' = epochs \/ epochs' = Expired(Len(epochs))
    BY DEF Rejoin, Sweep, docVars
  <2> QED
    BY <1>0, <1>1, <2>1, SameEpochs, ExpireEpoch
<1>3. Grows
  BY <1>0, <1>2, KeptGrows
<1>4. CallersOK'
  <2> DEFINE r == [at |-> "observe", epoch |-> Len(epochs)]
  <2>1. caller' = caller \/ caller' = [caller EXCEPT ![a] = r]
    BY DEF Rejoin, Sweep
  <2>2. r \in CallerStates /\ r.epoch \in 1..Len(epochs')
    BY <1>1, <1>2 DEF CallerStates, EpochsKept
  <2> HIDE DEF r
  <2> QED
    BY <1>3, <2>1, <2>2, CallerMoves, CallersStay
<1> QED
  BY <1>0, <1>2, <1>3, <1>4, AttemptsStay, MessagesStay, SameChoice

\* A caller at work names an epoch of the ledger.
LEMMA CallerEpoch ==
  ASSUME IInv, NEW a \in Callers, caller[a].at # "idle"
  PROVE  /\ caller[a].epoch \in 1..Len(epochs)
         /\ epochs \in Seq(Epochs)
         /\ caller[a] \in CallerStates
         /\ epochs[caller[a].epoch] \in Epochs
<1>1. caller[a].epoch \in 1..Len(epochs) /\ epochs \in Seq(Epochs)
  BY DEF IInv, CallersOK, DocumentOK
<1> QED
  BY <1>1, ElementOfSeq DEF IInv, CallersOK

\* The manifest is read before a message is sent.
LEMMA ObserveStep ==
  ASSUME IInv, NEW a \in Callers, Observe(a)
  PROVE  Kept
<1> USE DEF IInv
<1> DEFINE e == caller[a].epoch
<1>0. /\ UNCHANGED <<pending, chosen, runner, message, attempt>>
      /\ e \in 1..Len(epochs) /\ epochs \in Seq(Epochs) /\ caller[a] \in CallerStates
  BY CallerEpoch DEF Observe
<1>2. EpochsKept
  <2>1. epochs' = epochs \/ epochs' = Expired(e)
    BY DEF Observe
  <2> HIDE DEF e
  <2> QED
    BY <1>0, <2>1, SameEpochs, ExpireEpoch
<1>3. Grows
  BY <1>0, <1>2, KeptGrows
<1>4. CallersOK'
  <2>1. CASE caller' = [caller EXCEPT ![a] = Idle]
    BY <1>3, <2>1, IdleMoves
  <2>2. ASSUME NEW pc \in {"ack", "send"}, caller' = [caller EXCEPT ![a] = [caller[a] EXCEPT !.at = pc]]
        PROVE  CallersOK'
    <3> DEFINE r == [caller[a] EXCEPT !.at = pc]
    <3>1. r \in CallerStates /\ r.epoch = e
      BY <1>0 DEF CallerStates
    <3>2. e \in 1..Len(epochs')
      BY <1>0, <1>2 DEF EpochsKept
    <3>3. caller' = [caller EXCEPT ![a] = r]
      BY <2>2
    <3> HIDE DEF r, e
    <3> QED
      BY <1>3, <3>1, <3>2, <3>3, CallerMoves
  <2> QED
    BY <2>1, <2>2 DEF Observe
<1> QED
  BY <1>0, <1>2, <1>3, <1>4, AttemptsStay, MessagesStay, SameChoice

\* The message is sent, or the queue fails.
LEMMA SendStep ==
  ASSUME IInv, NEW a \in Callers, Send(a)
  PROVE  Kept
<1> USE DEF IInv
<1> DEFINE e == caller[a].epoch
<1>0. /\ UNCHANGED <<pending, chosen, runner, attempt>>
      /\ epochs' = Expired(e)
      /\ e \in 1..Len(epochs) /\ epochs \in Seq(Epochs) /\ caller[a] \in CallerStates
  BY CallerEpoch DEF Send
<1>2. EpochsKept
  <2> HIDE DEF e
  <2> QED
    BY <1>0, ExpireEpoch
<1>3. Grows
  BY <1>0, <1>2, KeptGrows
<1>4. CASE /\ message' = Append(message, NewMessage(e))
           /\ caller' = [caller EXCEPT ![a].at = "ack"]
  <2>1. CallersOK'
    <3> DEFINE r == [caller[a] EXCEPT !.at = "ack"]
    <3>1. r \in CallerStates /\ r.epoch = e
      BY <1>0 DEF CallerStates
    <3>2. e \in 1..Len(epochs')
      BY <1>0, <1>2 DEF EpochsKept
    <3>3. caller' = [caller EXCEPT ![a] = r]
      BY <1>4
    <3> HIDE DEF r, e
    <3> QED
      BY <1>3, <3>1, <3>2, <3>3, CallerMoves
  <2>2. MessagesOK'
    <3>1. NewMessage(e) \in Messages /\ NewMessage(e).epoch = e
      BY <1>0, <1>3 DEF NewMessage, Messages, Grows
    <3> HIDE DEF e
    <3>2. /\ message' \in Seq(Messages)
          /\ Len(message') = Len(message) + 1
          /\ Len(message) \in Nat
          /\ \A m \in 1..Len(message) : message'[m] = message[m]
          /\ message'[Len(message) + 1] = NewMessage(e)
      BY <1>4, <3>1, AppendProperties, LenProperties DEF MessagesOK
    <3>3. /\ 0..Len(epochs) \subseteq 0..Len(epochs')
          /\ e \in 0..Len(epochs')
      BY <1>0, <1>3 DEF Grows
    <3>4. \A m \in 1..Len(message') : m \in 1..Len(message) \/ m = Len(message) + 1
      BY <3>2
    <3> QED
      BY <3>1, <3>2, <3>3, <3>4 DEF MessagesOK
  <2> QED
    BY <1>0, <1>2, <1>3, <2>1, <2>2, AttemptsStay, SameChoice
<1>5. CASE caller' = [caller EXCEPT ![a] = Idle] /\ UNCHANGED message
  BY <1>0, <1>2, <1>3, <1>5, IdleMoves, AttemptsStay, MessagesStay, SameChoice
<1> QED
  BY <1>4, <1>5 DEF Send

\* The queue accepted: what is selected stays selected, what is over becomes terminal.
LEMMA AcknowledgeStep ==
  ASSUME IInv, NEW a \in Callers, Acknowledge(a)
  PROVE  Kept
<1> USE DEF IInv
<1> DEFINE e == caller[a].epoch
<1>0. /\ UNCHANGED <<pending, chosen, runner, message, attempt>>
      /\ caller' = [caller EXCEPT ![a] = Idle]
      /\ e \in 1..Len(epochs) /\ epochs \in Seq(Epochs) /\ epochs[e] \in Epochs
  BY CallerEpoch DEF Acknowledge
<1>2. EpochsKept
  <2> DEFINE sent == [epochs[e] EXCEPT !.sent = TRUE]
             over == [epochs[e] EXCEPT !.status = "terminal"]
             acc == [epochs[e] EXCEPT !.sent = TRUE,
                       !.status = IF epochs[e].status = "reserved" THEN "dispatched"
                                  ELSE epochs[e].status]
  <2>1. \/ epochs' = epochs
        \/ epochs[e].status = "selected" /\ epochs' = [epochs EXCEPT ![e] = sent]
        \/ epochs[e].status # "selected" /\ epochs' = [epochs EXCEPT ![e] = over]
        \/ epochs[e].status \in Open /\ epochs' = [epochs EXCEPT ![e] = acc]
    BY DEF Acknowledge
  <2>2. /\ sent \in Epochs /\ sent.status = epochs[e].status
        /\ sent.owner = epochs[e].owner
    BY <1>0 DEF Epochs
  <2>3. over \in Epochs /\ over.status = "terminal" /\ over.owner = epochs[e].owner
    BY <1>0 DEF Epochs
  <2>4. /\ acc \in Epochs /\ acc.owner = epochs[e].owner
        /\ epochs[e].status \in Open => acc.status \in Open
    BY <1>0 DEF Epochs, Open
  <2>5. /\ Moves(epochs[e].status, sent.status)
        /\ epochs[e].status # "selected" => Moves(epochs[e].status, over.status)
        /\ epochs[e].status \in Open => Moves(epochs[e].status, acc.status)
    BY <1>0, <2>2, <2>3, <2>4 DEF Moves, Epochs
  <2> HIDE DEF e, sent, over, acc
  <2> QED
    BY <1>0, <2>1, <2>2, <2>3, <2>4, <2>5, SameEpochs, AmendEpoch
<1>3. Grows
  BY <1>0, <1>2, KeptGrows
<1> QED
  BY <1>0, <1>2, <1>3, IdleMoves, AttemptsStay, MessagesStay, SameChoice

\* A delivered message has the fields of one.
LEMMA MessageType ==
  ASSUME IInv, NEW m \in 1..Len(message)
  PROVE  message[m] \in Messages /\ message[m].epoch \in 0..Len(epochs)
  BY ElementOfSeq DEF IInv, MessagesOK

\* An attempt takes its message, and claims the epoch that the message names.
LEMMA BeginStep ==
  ASSUME IInv, NEW x \in Attempts, NEW m \in 1..Len(message), Begin(x, m)
  PROVE  Kept
<1> USE DEF IInv
<1> DEFINE e == message[m].epoch
<1>0. /\ UNCHANGED <<pending, chosen, runner, caller>>
      /\ epochs \in Seq(Epochs) /\ message[m] \in Messages /\ e \in 0..Len(epochs)
      /\ Len(epochs) \in Nat /\ Len(message) \in Nat
  BY MessageType, LenProperties DEF Begin, DocumentOK, MessagesOK
<1>2. EpochsKept
  <2>1. CASE e = 0
    BY <1>0, <2>1, SameEpochs DEF Begin
  <2>2. CASE e # 0
    <3>1. Claimable(x, e) /\ epochs' = Claimed(x, e)
      BY <2>2 DEF Begin
    <3>2. e \in 1..Len(epochs)
      BY <1>0, <2>2
    <3> HIDE DEF e
    <3> QED
      BY <1>0, <3>1, <3>2, ClaimEpoch
  <2> QED
    BY <2>1, <2>2
<1>3. Grows
  BY <1>0, <1>2, KeptGrows
<1>4. AttemptsOK'
  <2> DEFINE r == [at |-> "start", msg |-> m, epoch |-> e]
  <2>1. attempt' = [attempt EXCEPT ![x] = r]
    BY DEF Begin
  <2>2. r \in AttemptStates /\ r.epoch = e /\ r.at \notin Won
    BY <1>0 DEF AttemptStates, AttemptSteps, Won
  <2> HIDE DEF r, e
  <2> QED
    BY <1>0, <1>3, <2>1, <2>2, AttemptMoves
<1>5. MessagesOK'
  <2> DEFINE n == message[m].count + 1
             r == [message[m] EXCEPT !.at = "held", !.by = x, !.count = n]
  <2>1. message' = [message EXCEPT ![m] = r]
    BY <1>0 DEF Begin, Messages
  <2>2. n \in Nat
    BY <1>0 DEF Messages
  <2> HIDE DEF n
  <2>3. r \in Messages /\ r.epoch = e
    BY <1>0, <2>2 DEF Messages
  <2> HIDE DEF r, e
  <2> QED
    BY <1>0, <1>3, <2>1, <2>3, MessageMoves
<1> QED
  BY <1>0, <1>2, <1>3, <1>4, <1>5, CallersStay, SameChoice

\* An attempt turns a message away.
LEMMA TurnAwayStep ==
  ASSUME IInv, NEW x \in Attempts, NEW m \in 1..Len(message), TurnAway(x, m)
  PROVE  Kept
<1> USE DEF IInv
<1> DEFINE e == message[m].epoch
<1>0. /\ UNCHANGED <<pending, chosen, runner, caller>> /\ Leave(x)
      /\ epochs \in Seq(Epochs) /\ message[m] \in Messages /\ e \in 0..Len(epochs)
      /\ Len(epochs) \in Nat
  BY MessageType, LenProperties DEF TurnAway, DocumentOK
<1>2. EpochsKept
  <2>1. CASE e = 0
    BY <1>0, <2>1, SameEpochs DEF TurnAway
  <2>2. CASE e # 0
    <3>1. epochs' = Expired(e)
      BY <2>2 DEF TurnAway
    <3>2. e \in 1..Len(epochs)
      BY <1>0, <2>2
    <3> HIDE DEF e
    <3> QED
      BY <1>0, <3>1, <3>2, ExpireEpoch
  <2> QED
    BY <2>1, <2>2
<1>3. Grows
  BY <1>0, <1>2, KeptGrows
<1>4. MessagesOK'
  <2> DEFINE r == [message[m] EXCEPT !.at = "held", !.by = x]
  <2>1. message' = [message EXCEPT ![m] = Gone] \/ message' = [message EXCEPT ![m] = r]
    BY <1>0 DEF TurnAway, Messages
  <2>2. r \in Messages /\ r.epoch = e
    BY <1>0 DEF Messages
  <2> HIDE DEF r, e
  <2> QED
    BY <1>0, <1>3, <2>1, <2>2, MessageMoves, GoneMoves
<1> QED
  BY <1>0, <1>2, <1>3, <1>4, LeaveMoves, CallersStay, SameChoice

\* Where an attempt may go on.
Ways == IF chosen # Nothing THEN AttemptSteps ELSE AttemptSteps \ Won

\* An attempt moves on, or ends, and only the records of its epoch and of the runner
\* may change.
LEMMA AttemptStep ==
  ASSUME IInv, NEW x \in Attempts, EpochsKept, UNCHANGED <<pending, chosen, caller>>,
         runner' \in {"none", "completed", "failed"},
         runner' = "completed" <=> runner = "completed",
         \/ UNCHANGED message /\ (\E pc \in Ways : Goto(x, pc))
         \/ UNCHANGED message /\ Leave(x)
         \/ Finish(x) \/ Retry(x)
  PROVE  Kept
<1> USE DEF IInv
<1>1. Grows
  BY KeptGrows DEF DocumentOK
<1>2. DocumentOK'
  BY DocumentKept DEF DocumentOK
<1>3. \A pc \in Ways : pc \in AttemptSteps /\ (pc \in Won => chosen' # Nothing)
  BY DEF Ways
<1>4. AttemptsOK' /\ MessagesOK'
  BY <1>1, <1>3, GotoMoves, LeaveMoves, EndMoves, MessagesStay
<1> QED
  BY <1>1, <1>2, <1>4, CallersStay, KeptMaps DEF Kept

\* An attempt at an epoch names one of the ledger.
LEMMA AttemptEpoch ==
  ASSUME IInv, NEW x \in Attempts
  PROVE  /\ epochs \in Seq(Epochs)
         /\ Len(epochs) \in Nat
         /\ runner \in {"none", "completed", "failed"}
         /\ attempt[x].epoch \in Nat
         /\ ~Ordinary(x) => attempt[x].epoch \in 1..Len(epochs)
<1>1. epochs \in Seq(Epochs) /\ runner \in {"none", "completed", "failed"}
  BY DEF IInv, DocumentOK
<1>2. Len(epochs) \in Nat
  BY <1>1, LenProperties
<1>3. attempt[x].epoch \in 0..Len(epochs)
  BY DEF IInv, AttemptsOK
<1> QED
  BY <1>1, <1>2, <1>3 DEF Ordinary

\* The manifest is read; the budget; the work; the read of the selection; the records
\* of success and failure.
LEMMA WorkStep ==
  ASSUME IInv, NEW x \in Attempts,
         Start(x) \/ Admit(x) \/ Render(x) \/ ReadBack(x) \/ Record(x) \/ Failed(x)
  PROVE  Kept
<1>0. /\ epochs \in Seq(Epochs) /\ runner \in {"none", "completed", "failed"}
      /\ epochs' = epochs => EpochsKept
  BY AttemptEpoch, SameEpochs
<1>s. /\ {"skip", "admit", "render", "stage", "failed"} \subseteq Ways
      /\ attempt[x].at \in Won => chosen # Nothing /\ "record" \in Ways
  BY DEF Ways, AttemptSteps, Won, IInv, AttemptsOK
<1>1. CASE Start(x)
  <2>1. UNCHANGED <<epochs, pending, chosen, runner, caller>>
    BY <1>1 DEF Start, docVars
  <2>2. \/ UNCHANGED message /\ (\E pc \in Ways : Goto(x, pc))
        \/ Finish(x)
    BY <1>1, <1>s DEF Start
  <2> QED
    BY <1>0, <2>1, <2>2, AttemptStep
<1>2. CASE Admit(x)
  <2>1. UNCHANGED <<pending, chosen, runner, caller>>
    BY <1>2 DEF Admit
  <2>2. \/ UNCHANGED message /\ (\E pc \in Ways : Goto(x, pc))
        \/ Finish(x) \/ Retry(x)
    BY <1>2, <1>s DEF Admit
  <2>3. EpochsKept
    <3>1. epochs' = epochs \/ (~Ordinary(x) /\ epochs' = Expired(attempt[x].epoch))
      BY <1>2 DEF Admit
    <3> QED
      BY <1>0, <3>1, AttemptEpoch, ExpireEpoch
  <2> QED
    BY <1>0, <2>1, <2>2, <2>3, AttemptStep
<1>3. CASE Render(x)
  <2>1. UNCHANGED <<epochs, pending, chosen, runner, message, caller>>
    BY <1>3 DEF Render, docVars
  <2>2. \E pc \in Ways : Goto(x, pc)
    BY <1>3, <1>s DEF Render
  <2> QED
    BY <1>0, <2>1, <2>2, AttemptStep
<1>4. CASE ReadBack(x)
  <2>1. UNCHANGED <<epochs, pending, chosen, runner, message, caller>>
    BY <1>4 DEF ReadBack, docVars
  <2>2. Leave(x) \/ \E pc \in Ways : Goto(x, pc)
    BY <1>4, <1>s DEF ReadBack, Won, At
  <2> QED
    BY <1>0, <2>1, <2>2, AttemptStep
<1>5. ASSUME NEW status \in {"completed", "failed"}, Write(x, status),
             chosen # Nothing \/ status = "failed"
      PROVE  /\ runner' \in {"none", "completed", "failed"}
             /\ runner' = "completed" <=> runner = "completed"
  BY <1>0, <1>5 DEF Write, IInv, DocumentOK, SelectionOK
<1>6. CASE Record(x)
  <2>1. UNCHANGED <<epochs, pending, chosen, caller>>
    BY <1>6 DEF Record
  <2>2. \/ UNCHANGED message /\ (\E pc \in Ways : Goto(x, pc))
        \/ Finish(x)
    BY <1>6, <1>s DEF Record
  <2>3. /\ runner' \in {"none", "completed", "failed"}
        /\ runner' = "completed" <=> runner = "completed"
    BY <1>0, <1>5, <1>6, <1>s DEF Record, Won, At
  <2> QED
    BY <1>0, <2>1, <2>2, <2>3, AttemptStep
<1>7. CASE Failed(x)
  <2>1. UNCHANGED <<epochs, pending, chosen, caller>> /\ Retry(x)
    BY <1>7 DEF Failed
  <2>3. /\ runner' \in {"none", "completed", "failed"}
        /\ runner' = "completed" <=> runner = "completed"
    BY <1>5, <1>7 DEF Failed
  <2> QED
    BY <1>0, <2>1, <2>3, AttemptStep
<1> QED
  BY <1>1, <1>2, <1>3, <1>4, <1>6, <1>7

\* An attempt that is current has the turn, and the turn is not closed.
LEMMA CurrentTurn ==
  ASSUME IInv, NEW x \in Attempts, Current(x)
  PROVE  LastOpen /\ attempt[x].epoch = Len(epochs)
<1>0. /\ Len(epochs) \in Nat /\ attempt[x].epoch \in Nat
      /\ epochs = <<>> <=> Len(epochs) = 0
      /\ ~Ordinary(x) => attempt[x].epoch \in 1..Len(epochs)
  BY AttemptEpoch, EmptySeq
<1>1. CASE Ordinary(x)
  BY <1>0, <1>1 DEF Current, LastOpen, Ordinary
<1>2. CASE ~Ordinary(x)
  <2>1. epochs[attempt[x].epoch].status = "running"
    BY <1>2 DEF Current, Own
  <2>2. attempt[x].epoch \notin 1..(Len(epochs) - 1)
    BY <2>1 DEF IInv, DocumentOK, SelectionOK
  <2>3. attempt[x].epoch = Len(epochs)
    BY <1>0, <1>2, <2>2
  <2> QED
    BY <2>1, <2>3 DEF LastOpen, Open
<1> QED
  BY <1>1, <1>2

\* The intent is stored while nothing is chosen.
LEMMA StageStep ==
  ASSUME IInv, NEW x \in Attempts, Stage(x)
  PROVE  Kept
<1> USE DEF IInv
<1>0. UNCHANGED <<epochs, chosen, runner, message, caller>> /\ EpochsKept
  BY AttemptEpoch, SameEpochs DEF Stage
<1>1. Grows
  BY <1>0, AttemptEpoch, KeptGrows
<1>2. Candidate(x) \in Selections
  BY AttemptEpoch DEF Candidate, Selections
<1>3. pending' \in Selections /\ (chosen # Nothing => pending' = pending)
  BY <1>2 DEF Stage, DocumentOK
<1>4. DocumentOK'
  BY <1>0, <1>3, DocumentKept DEF DocumentOK
<1>5. PICK pc \in {"choose", "failed"} : Goto(x, pc)
  BY DEF Stage
<1>6. pc \in AttemptSteps /\ pc \notin Won
  BY DEF AttemptSteps, Won
<1>7. CASE pending' = pending
  <2> HIDE DEF IInv
  <2> QED
    BY <1>0, <1>1, <1>4, <1>5, <1>6, <1>7, GotoMoves, CallersStay, MessagesStay, KeptMaps
       DEF Kept, IInv
<1>8. CASE pending' # pending
  <2>1. /\ Current(x) /\ chosen = Nothing /\ pending = Nothing
        /\ pending' = Candidate(x)
    BY <1>8 DEF Stage
  <2>2. opened = TRUE /\ attempt[x].epoch = Len(epochs)
    BY <2>1, CurrentTurn DEF opened
  <2>3. Selecting!Stage(x)
    BY <1>0, <2>1, <2>2 DEF Selecting!Stage, Selecting!Made, Candidate, opened, LastOpen
  <2> QED
    BY <1>0, <1>1, <1>4, <1>5, <1>6, <2>3, GotoMoves, CallersStay, MessagesStay
       DEF Kept, Selecting!Next
<1> QED
  BY <1>7, <1>8

\* One update chooses the candidate, completes the job, and selects its epoch.
LEMMA ChooseStep ==
  ASSUME IInv, NEW x \in Attempts, Choose(x)
  PROVE  Kept
<1> USE DEF IInv
<1> DEFINE e == attempt[x].epoch
<1>0. /\ UNCHANGED <<message, caller>>
      /\ epochs \in Seq(Epochs) /\ Len(epochs) \in Nat /\ e \in Nat
      /\ e # 0 => e \in 1..Len(epochs)
      /\ (epochs = <<>> => Len(epochs) = 0)
  BY AttemptEpoch, EmptySeq DEF Choose, Ordinary
<1>s. "readback" \in AttemptSteps /\ "failed" \in AttemptSteps /\ "failed" \in Ways
  BY DEF AttemptSteps, Ways, Won
<1>1. CASE /\ clean /\ Current(x)
           /\ \/ chosen = Candidate(x)
              \/ chosen = Nothing /\ pending = Candidate(x)
  <2>1. /\ chosen' = Candidate(x) /\ pending' = Nothing /\ runner' = "completed"
        /\ epochs' = IF e = 0 THEN epochs ELSE [epochs EXCEPT ![e].status = "selected"]
        /\ Goto(x, "readback")
    BY <1>1 DEF Choose, Ordinary
  <2>2. Candidate(x).by = x /\ Candidate(x).epoch = e /\ Candidate(x) # Nothing
    BY RecoveryAssumption DEF Candidate, Nothing
  <2>3. Candidate(x) \in Selections /\ Nothing \in Selections
    BY <1>0 DEF Candidate, Selections, Nothing
  <2>m. ASSUME Len(epochs') = Len(epochs)
        PROVE  [Selecting!Next]_(Selecting!vars)
    <3>1. opened' = FALSE
      BY <2>1, <2>2 DEF opened
    <3>2. CASE chosen = Candidate(x)
      <4>1. opened = FALSE /\ pending = Nothing /\ runner = "completed"
        BY <2>2, <3>2 DEF opened, DocumentOK, SelectionOK
      <4>2. UNCHANGED Selecting!vars
        BY <2>m, <2>1, <3>1, <3>2, <4>1 DEF Selecting!vars, opened
      <4> QED
        BY <4>2
    <3>3. CASE chosen = Nothing /\ pending = Candidate(x)
      <4>1. opened = TRUE /\ e = Len(epochs)
        BY <1>1, <3>3, CurrentTurn DEF opened
      <4>2. Selecting!Select(x)
        BY <2>m, <2>1, <3>1, <3>3, <4>1
           DEF Selecting!Select, Selecting!Made, Candidate, opened
      <4> QED
        BY <4>2 DEF Selecting!Next
    <3> QED
      BY <1>1, <3>2, <3>3
  <2>4. CASE e = 0
    <3>1. epochs = <<>> /\ epochs' = epochs
      BY <1>1, <2>1, <2>4 DEF Current, Ordinary
    <3>2. DocumentOK'
      BY <1>0, <2>1, <2>2, <2>3, <2>4, <3>1 DEF DocumentOK, SelectionOK
    <3>3. Grows
      BY <1>0, <2>1, <2>2, <3>1 DEF Grows
    <3>4. chosen # Nothing => chosen' = chosen
      BY <1>1, <2>1
    <3> QED
      BY <1>0, <1>s, <2>1, <2>2, <2>m, <3>1, <3>2, <3>3, <3>4, GotoMoves, CallersStay,
         MessagesStay DEF Kept
  <2>5. CASE e # 0
    <3> DEFINE r == [epochs[e] EXCEPT !.status = "selected"]
    <3>0. e \in 1..Len(epochs) /\ epochs[e] \in Epochs
      BY <1>0, <2>5, ElementOfSeq
    <3>1. /\ epochs[e].owner = x /\ epochs[e].status = "running"
          /\ epochs' = [epochs EXCEPT ![e] = r]
      BY <1>1, <2>1, <2>5 DEF Current, Ordinary, Authority, Own
    <3>2. r \in Epochs /\ r.status = "selected" /\ r.owner = x
      BY <3>0, <3>1 DEF Epochs
    <3>3. chosen = Nothing
      BY <1>1, <2>2, <3>0, <3>1 DEF DocumentOK, SelectionOK
    <3> HIDE DEF r
    <3>4. /\ epochs' \in Seq(Epochs)
          /\ Len(epochs') = Len(epochs)
          /\ \A j \in 1..Len(epochs) : epochs'[j] = IF j = e THEN r ELSE epochs[j]
      <4> HIDE DEF e
      <4> QED
        BY <1>0, <3>0, <3>1, <3>2, ExceptSeq
    <3>5. \A j \in 1..Len(epochs) : epochs[j].status # "selected"
      BY <3>3 DEF DocumentOK, SelectionOK
    <3>t. e = Len(epochs)
      BY <1>1, CurrentTurn
    <3>6. /\ \A j \in 1..(Len(epochs') - 1) : epochs'[j].status = "terminal"
          /\ \A j \in 1..Len(epochs') : epochs'[j].status = "selected" <=> j = e
      <4>1. \A j \in 1..(Len(epochs') - 1) :
              j \in 1..Len(epochs) /\ j # e /\ j \in 1..(Len(epochs) - 1)
        BY <1>0, <3>4, <3>t
      <4> QED
        BY <3>2, <3>4, <3>5, <4>1 DEF DocumentOK, SelectionOK
    <3>w. SelectionOK'
      <4>1. /\ chosen'.by = x /\ chosen'.epoch = e /\ chosen' # Nothing
            /\ pending' = Nothing /\ runner' = "completed"
        BY <2>1, <2>2
      <4>2. e \in 1..Len(epochs') /\ epochs'[e].owner = x
        BY <3>0, <3>2, <3>4
      <4>3. Nothing' = Nothing
        OBVIOUS
      <4> HIDE DEF e, Nothing
      <4> QED
        BY <2>5, <3>6, <4>1, <4>2, <4>3 DEF SelectionOK
    <3>7. DocumentOK'
      BY <2>1, <2>3, <3>4, <3>w DEF DocumentOK
    <3>8. Grows
      BY <1>0, <2>1, <2>2, <3>4 DEF Grows
    <3> QED
      BY <1>0, <1>s, <2>1, <2>2, <2>m, <3>3, <3>4, <3>7, <3>8, GotoMoves, CallersStay,
         MessagesStay DEF Kept
  <2> QED
    BY <2>4, <2>5
<1>2. CASE ~(/\ clean /\ Current(x)
             /\ \/ chosen = Candidate(x)
                \/ chosen = Nothing /\ pending = Candidate(x))
  <2>1. Goto(x, "failed") /\ UNCHANGED <<epochs, pending, chosen, runner>>
    BY <1>2 DEF Choose, docVars
  <2>2. EpochsKept /\ runner \in {"none", "completed", "failed"}
    BY <2>1, AttemptEpoch, SameEpochs
  <2> HIDE DEF IInv
  <2> QED
    BY <1>0, <1>s, <2>1, <2>2, AttemptStep
<1> QED
  BY <1>1, <1>2

\* A heartbeat claims the epoch of its attempt again.
LEMMA BeatStep ==
  ASSUME IInv, NEW x \in Attempts, Beat(x)
  PROVE  Kept
<1>1. EpochsKept /\ chosen' = chosen
  BY AttemptEpoch, ClaimEpoch DEF Beat
<1>2. Grows
  BY <1>1, AttemptEpoch, KeptGrows
<1> QED
  BY <1>1, <1>2, AttemptsStay, CallersStay, MessagesStay, SameChoice DEF Beat, IInv

\* The lease or the deadline of an epoch passes.
LEMMA TimeStep ==
  ASSUME IInv, NEW e \in 1..Len(epochs),
         \/ epochs' = [epochs EXCEPT ![e].live = FALSE]
         \/ epochs' = [epochs EXCEPT ![e].over = TRUE, ![e].live = FALSE],
         UNCHANGED <<pending, chosen, runner, message, attempt, caller>>
  PROVE  Kept
<1>0. epochs \in Seq(Epochs) /\ epochs[e] \in Epochs
  BY ElementOfSeq DEF IInv, DocumentOK
<1>1. EpochsKept
  <2> DEFINE r == [epochs[e] EXCEPT !.live = FALSE]
             s == [epochs[e] EXCEPT !.over = TRUE, !.live = FALSE]
  <2>1. epochs' = [epochs EXCEPT ![e] = r] \/ epochs' = [epochs EXCEPT ![e] = s]
    BY <1>0 DEF Epochs
  <2>2. r \in Epochs /\ r.status = epochs[e].status /\ r.owner = epochs[e].owner
    BY <1>0 DEF Epochs
  <2>3. s \in Epochs /\ s.status = epochs[e].status /\ s.owner = epochs[e].owner
    BY <1>0 DEF Epochs
  <2> HIDE DEF r, s
  <2> QED
    BY <1>0, <2>1, <2>2, <2>3, AmendEpoch DEF Moves
<1>2. Grows
  BY <1>0, <1>1, KeptGrows
<1> QED
  BY <1>1, <1>2, AttemptsStay, CallersStay, MessagesStay, SameChoice DEF IInv

\* A message is visible again.
LEMMA VisibleStep ==
  ASSUME IInv, NEW m \in 1..Len(message), Visible(m)
  PROVE  Kept
<1>1. UNCHANGED docVars /\ UNCHANGED <<epochs, chosen, attempt, caller>>
  BY DEF Visible, docVars
<1>2. Grows
  BY <1>1, SameGrows DEF IInv
<1>3. MessagesOK'
  <2> DEFINE r == [message[m] EXCEPT !.at = "visible"]
  <2>1. message' = [message EXCEPT ![m] = r]
    BY DEF Visible
  <2>2. r \in Messages /\ r.epoch = message[m].epoch
    BY MessageType DEF Messages
  <2>3. message[m].epoch \in 0..Len(epochs)
    BY MessageType
  <2> HIDE DEF r
  <2> QED
    BY <1>2, <2>1, <2>2, <2>3, MessageMoves DEF IInv
<1> QED
  BY <1>1, <1>2, <1>3, AttemptsStay, CallersStay, SameDocument DEF IInv

\* Whatever fails, dies, stalls or changes from outside.
LEMMA FaultStep ==
  ASSUME IInv, Fault
  PROVE  Kept
<1>g. UNCHANGED <<epochs, chosen>> => Grows
  BY SameGrows DEF IInv
<1>1. ASSUME NEW x \in Attempts, Goto(x, "failed") \/ Leave(x),
             UNCHANGED <<docVars, message, caller>>
      PROVE  Kept
  <2>1. Grows /\ "failed" \in AttemptSteps /\ "failed" \notin Won
    BY <1>1, <1>g DEF docVars, AttemptSteps, Won
  <2>2. AttemptsOK'
    BY <1>1, <2>1, GotoMoves, LeaveMoves DEF IInv
  <2> QED
    BY <1>1, <2>1, <2>2, CallersStay, MessagesStay, SameDocument DEF IInv
<1>2. ASSUME NEW a \in Callers, caller' = [caller EXCEPT ![a] = Idle],
             UNCHANGED <<docVars, message, attempt>>
      PROVE  Kept
  <2>1. Grows
    BY <1>2, <1>g DEF docVars
  <2> QED
    BY <1>2, <2>1, IdleMoves, AttemptsStay, MessagesStay, SameDocument DEF IInv
<1>3. ASSUME UNCHANGED <<docVars, message, attempt, caller>> PROVE Kept
  <2>1. Grows
    BY <1>3, <1>g DEF docVars
  <2> QED
    BY <1>3, <2>1, AttemptsStay, CallersStay, MessagesStay, SameDocument DEF IInv
<1>4. ASSUME NEW e \in 1..Len(epochs), Ends(e) PROVE Kept
  BY <1>4, TimeStep DEF Ends
<1>5. \A m \in 1..Len(message) : Visible(m) => Kept
  BY VisibleStep
<1> QED
  BY <1>1, <1>2, <1>3, <1>4, <1>5 DEF Fault

-----------------------------------------------------------------------------
(* The theorems.                                                           *)

\* The invariant holds at the start.
LEMMA IInvInit == Init => IInv
<1> SUFFICES ASSUME Init PROVE IInv
  OBVIOUS
<1> USE DEF Init
<1>1. epochs = <<>> /\ Len(epochs) = 0 /\ epochs \in Seq(Epochs)
  BY EmptySeq
<1>2. DocumentOK
  BY <1>1 DEF DocumentOK, SelectionOK, Selections, Nothing
<1>3. /\ NewAttempt \in AttemptStates /\ NewAttempt.epoch = 0 /\ 0 \in 0..0
      /\ NewAttempt.at \notin Won
  BY DEF NewAttempt, AttemptStates, AttemptSteps, Won
<1>4. AttemptsOK
  BY <1>1, <1>3 DEF AttemptsOK
<1>5. Idle \in CallerStates /\ Idle.at = "idle"
  BY DEF Idle, CallerStates
<1>6. CallersOK
  BY <1>5 DEF CallersOK
<1>7. NewMessage(0) \in Messages /\ NewMessage(0).epoch = 0
  BY DEF NewMessage, Messages
<1>8. MessagesOK
  <2> DEFINE r == NewMessage(0)
  <2>1. message = <<r>> /\ r \in Messages /\ r.epoch = 0
    BY <1>7
  <2> HIDE DEF r
  <2>2. message \in Seq(Messages) /\ Len(message) = 1 /\ message[1] = r
    BY <2>1
  <2> QED
    BY <1>1, <2>1, <2>2 DEF MessagesOK
<1> QED
  BY <1>2, <1>4, <1>6, <1>8 DEF IInv

\* Every step keeps the invariant, and what is chosen.
LEMMA IInvStep == IInv /\ [Next]_vars => Kept
<1> SUFFICES ASSUME IInv, [Next]_vars PROVE Kept
  OBVIOUS
<1>g. UNCHANGED <<epochs, chosen>> => Grows
  BY SameGrows DEF IInv
<1>1. ASSUME UNCHANGED docVars, UNCHANGED <<message, attempt, caller>> PROVE Kept
  <2>1. Grows
    BY <1>1, <1>g DEF docVars
  <2> QED
    BY <1>1, <2>1, AttemptsStay, CallersStay, MessagesStay, SameDocument DEF IInv
<1>2. CASE UNCHANGED vars
  BY <1>1, <1>2 DEF vars
<1>3. CASE BudgetEnds
  BY <1>1, <1>3 DEF BudgetEnds
<1>4. ASSUME epochs # <<>> PROVE Len(epochs) \in 1..Len(epochs)
  BY <1>4, EmptySeq DEF IInv, DocumentOK
<1>5. CASE DeadlinePasses
  BY <1>4, <1>5, TimeStep DEF DeadlinePasses
<1>6. CASE LeaseEnds
  <2>1. Len(epochs) \in 1..Len(epochs) /\ Ends(Len(epochs))
    BY <1>4, <1>6 DEF LeaseEnds
  <2> QED
    BY <2>1, TimeStep DEF Ends
<1>7. CASE \E m \in 1..Len(message) : Redeliver(m)
  BY <1>7, VisibleStep DEF Redeliver
<1>8. ASSUME NEW a \in Callers, Reserve(a) \/ Rejoin(a) \/ Sweep(a) \/ CallerStep(a)
      PROVE  Kept
  BY <1>8, ReserveStep, TakeUpStep, ObserveStep, SendStep, AcknowledgeStep
     DEF CallerStep
<1>9. ASSUME NEW x \in Attempts, Attempting(x) \/ Beat(x)
      PROVE  Kept
  BY <1>9, BeginStep, TurnAwayStep, WorkStep, StageStep, ChooseStep, BeatStep
     DEF Attempting
<1> QED
  BY <1>2, <1>3, <1>5, <1>6, <1>7, <1>8, <1>9, FaultStep DEF Next, Steps

\* However attempts, epochs, sweeps, requests and faults interleave, the ledger, the
\* pending intent, the selection and the state of the runner belong together.
THEOREM RecoveryInductive == Spec => []IInv
<1>1. IInv /\ [Next]_vars => IInv'
  BY IInvStep DEF Kept
<1> QED
  BY <1>1, IInvInit, PTL DEF Spec

\* What is selected was chosen under the authority that still stands in the ledger.
THEOREM AuthorizedSelection == Spec => []SelectionIsAuthorized
<1>1. IInv => SelectionIsAuthorized
  <2> SUFFICES ASSUME IInv, chosen # Nothing PROVE SelectionIsAuthorized
    BY DEF SelectionIsAuthorized
  <2> USE DEF IInv, DocumentOK, SelectionOK, SelectionIsAuthorized
  <2>1. CASE chosen.epoch = 0
    <3>1. epochs = <<>> /\ Len(epochs) = 0
      BY <2>1, EmptySeq
    <3> QED
      BY <2>1, <3>1
  <2>2. CASE chosen.epoch # 0
    BY <2>2
  <2> QED
    BY <2>1, <2>2
<1> QED
  BY <1>1, RecoveryInductive, PTL

\* The completion that the selection recorded stands, whatever a late, stale or
\* repeated attempt records afterwards, and so does the selection.
THEOREM CompletionKept == Spec => CompletionStands
<1>1. IInv /\ [Next]_vars
        => [chosen # Nothing => chosen' = chosen /\ runner' = "completed"]_vars
  BY IInvStep DEF Kept, IInv, DocumentOK, SelectionOK, Nothing
<1> QED
  BY <1>1, RecoveryInductive, PTL DEF Spec, CompletionStands

\* The manifest implements Selection, for any number of attempts and epochs: turns that
\* follow each other and stay closed, candidates that count in their turn only, and one
\* selection that is the completion of the job.
THEOREM SelectionImplements == Spec => SelectionImplemented
<1>1. Init => Selecting!Init
  <2>1. Init => LastOpen /\ Len(epochs) = 0
    BY DEF Init, LastOpen
  <2> QED
    BY <2>1 DEF Init, Selecting!Init
<1>2. IInv /\ [Next]_vars => [Selecting!Next]_(Selecting!vars)
  BY IInvStep DEF Kept
<1> QED
  BY <1>1, <1>2, RecoveryInductive, PTL DEF Spec, SelectionImplemented, Selecting!Spec

=============================================================================
