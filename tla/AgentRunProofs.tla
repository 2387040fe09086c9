--------------------------- MODULE AgentRunProofs ---------------------------
(***************************************************************************)
(* Proofs about AgentRun for every value of its constants: its types; that *)
(* what was started is saved; that the saved transcripts implement         *)
(* CallLedger; and what the loop does with its messages, budget, steps,    *)
(* ordered toolsets and requests.                                          *)
(***************************************************************************)
EXTENDS AgentRun, TLAPS, FiniteSetTheorems

-----------------------------------------------------------------------------
(* Transcripts *)

LEMMA MessageType ==
  /\ \A notes \in Seq(Nat) : User(notes) \in Message
  /\ \A uses \in Seq(Use) : Assistant(uses) \in Message
  /\ \A answers \in Seq(Block) : Results(answers) \in Message
BY DEF User, Assistant, Results, Message

\* Handing over text never touches a call or an answer, and leaves the
\* transcript with the user's turn last.
LEMMA AppendUserTextType ==
  ASSUME NEW t \in Transcript, NEW notes \in Seq(Nat)
  PROVE  LET new == AppendUserText(t, notes) IN
         /\ new \in Transcript
         /\ Len(t) <= Len(new) /\ Len(new) <= Len(t) + 1
         /\ new # <<>>
         /\ \A i \in 1..Len(t) : /\ new[i].calls = t[i].calls
                                 /\ new[i].results = t[i].results
                                 /\ new[i].role = t[i].role
         /\ Len(new) = Len(t) + 1 => new[Len(new)] = User(notes)
<1>1. CASE t # <<>> /\ LastOf(t).role = "user"
  <2>1. Len(t) \in 1..Len(t)
    BY <1>1 DEF Transcript
  <2>2. t[Len(t)] \in Message
    BY <2>1 DEF Transcript
  <2>3. t[Len(t)].notes \o notes \in Seq(Nat)
    BY <2>2 DEF Message
  <2>4. [t[Len(t)] EXCEPT !.notes = @ \o notes] \in Message
    BY <2>2, <2>3 DEF Message
  <2>5. AppendUserText(t, notes) = [t EXCEPT ![Len(t)] = [t[Len(t)] EXCEPT !.notes = @ \o notes]]
    BY <1>1, <2>1 DEF AppendUserText, Transcript
  <2>6. QED
    BY <2>1, <2>2, <2>4, <2>5, SMTT(30) DEF Transcript, Message
<1>2. CASE ~(t # <<>> /\ LastOf(t).role = "user")
  BY <1>2, MessageType DEF AppendUserText, Transcript
<1>3. QED
  BY <1>1, <1>2

\* Every count the loop keeps is of a finite set of places.
LEMMA Counts ==
  ASSUME NEW t \in Transcript, NEW uses \in Seq(Use), NEW i \in Nat
  PROVE  /\ IsFiniteSet(ToolsUpTo(uses, i)) /\ Cardinality(ToolsUpTo(uses, i)) \in Nat
         /\ IsFiniteSet(BadUpTo(uses, i)) /\ Cardinality(BadUpTo(uses, i)) \in Nat
         /\ PassCount(t) \in Nat
         /\ IsFiniteSet(ToolUses(t)) /\ ToolCount(t) \in Nat
<1>1. IsFiniteSet(DOMAIN uses) /\ IsFiniteSet(DOMAIN t) /\ IsFiniteSet(1..MaxCalls)
  BY FS_Interval, BoundsAreNaturals DEF Transcript
<1>2. IsFiniteSet((1..Len(t)) \X (1..MaxCalls))
  <2>1. IsFiniteSet(1..Len(t))
    BY <1>1 DEF Transcript
  <2>2. QED
    BY <1>1, <2>1, FS_Product
<1>3. /\ ToolsUpTo(uses, i) \subseteq DOMAIN uses
      /\ BadUpTo(uses, i) \subseteq DOMAIN uses
      /\ {j \in DOMAIN t : t[j].role = "assistant"} \subseteq DOMAIN t
      /\ ToolUses(t) \subseteq (1..Len(t)) \X (1..MaxCalls)
  BY DEF ToolsUpTo, BadUpTo, ToolUses
<1>4. QED
  BY <1>1, <1>2, <1>3, FS_Subset, FS_CardinalityType DEF PassCount, ToolCount

-----------------------------------------------------------------------------
(* Type correctness *)

\* A run that works has a transcript, and a batch has a slot for every call.
Shape ==
  /\ Alive \/ pc = "done" => messages # <<>>
  /\ pc = "batch" => DOMAIN slots = DOMAIN Batch

TypeInv == TypeOK /\ Shape

LEMMA LastMessage ==
  ASSUME NEW t \in Transcript, t # <<>>
  PROVE  /\ Len(t) \in 1..Len(t) /\ LastOf(t) = t[Len(t)] /\ LastOf(t) \in Message
         /\ LastOf(t).calls \in Seq(Use) /\ LastOf(t).results \in Seq(Block)
<1>1. Len(t) \in 1..Len(t) /\ LastOf(t) = t[Len(t)]
  BY DEF Transcript, LastOf
<1>2. LastOf(t) \in Message
  BY <1>1 DEF Transcript
<1>3. QED
  BY <1>1, <1>2 DEF Message

LEMMA UnrunResultsType ==
  ASSUME NEW uses \in Seq(Use), NEW why \in Status
  PROVE  UnrunResults(uses, why) \in Message
<1>1. \A i \in 1..Len(uses) : [id |-> uses[i].id, status |-> why] \in Block
  <2>1. \A i \in 1..Len(uses) : uses[i] \in Use
    OBVIOUS
  <2>2. QED
    BY <2>1 DEF Use, Block
<1>3. [i \in DOMAIN uses |-> [id |-> uses[i].id, status |-> why]] \in Seq(Block)
  BY <1>1
<1>2. QED
  BY <1>3, MessageType DEF UnrunResults

LEMMA CloseInterruptedType ==
  ASSUME NEW t \in Transcript, t # <<>>
  PROVE  CloseInterrupted(t) \in Transcript /\ CloseInterrupted(t) # <<>>
BY LastMessage, UnrunResultsType DEF CloseInterrupted, Transcript, Status

\* The empty sequence, at every type the run keeps one.
LEMMA Empty == <<>> \in Seq(Slot) /\ <<>> \in Seq(Nat) /\ <<>> \in Transcript
BY DEF Transcript

LEMMA TypeInit == Init => TypeInv
<1> SUFFICES ASSUME Init PROVE TypeInv
  OBVIOUS
<1>1. User(<<>>) \in Message
  BY Empty, MessageType
<1>2. messages \in Transcript /\ messages # <<>>
  BY <1>1 DEF Init, Transcript
<1>3. slots \in Seq(Slot) /\ inbox \in Seq(Nat) /\ saved \in Transcript
  BY Empty DEF Init
<1>4. steps \in SUBSET Step
  BY DEF Init
<1>5. TypeOK
  BY <1>2, <1>3, <1>4 DEF Init, TypeOK
<1>6. Shape
  BY <1>2 DEF Init, Shape, Alive
<1>7. QED
  BY <1>5, <1>6 DEF TypeInv

\* What every way a run ends leaves behind.
LEMMA FrameGoneType ==
  FrameGone =>
    /\ iter' \in Nat /\ passes' \in Nat /\ stepCounter' \in Nat /\ attempts' \in Nat
    /\ winding' \in BOOLEAN /\ slots' \in Seq(Slot)
<1>1. FrameGone => winding' \in BOOLEAN /\ slots' \in Seq(Slot)
  BY Empty, Zenon DEF FrameGone
<1>2. QED
  BY <1>1 DEF FrameGone

LEMMA SteeredType ==
  ASSUME TypeInv, NEW reached \in BOOLEAN, messages # <<>>
  PROVE  Steered(reached) \in Transcript /\ Steered(reached) # <<>>
<1> DEFINE heard == IF inbox = <<>> THEN messages ELSE AppendUserText(messages, inbox)
<1>1. heard \in Transcript /\ heard # <<>>
  BY AppendUserTextType DEF TypeInv, TypeOK
<1>2. AppendUserText(heard, <<>>) \in Transcript /\ AppendUserText(heard, <<>>) # <<>>
  BY <1>1, Empty, AppendUserTextType
<1>3. QED
  BY <1>1, <1>2 DEF Steered

\* A call's result lands in the batch.
LEMMA SettledWithType ==
  ASSUME TypeInv, NEW i \in DOMAIN slots, NEW result \in Settled
  PROVE  SettledWith(i, result) \in Seq(Slot) /\ DOMAIN SettledWith(i, result) = DOMAIN slots
<1>1. slots \in Seq(Slot)
  BY DEF TypeInv, TypeOK
<1>2. \A j \in 1..Len(slots) : slots[j] \in Slot
  BY <1>1
<1>3. result \in Slot /\ "refused" \in Slot
  BY DEF Slot, Settled
<1>4. DOMAIN slots = 1..Len(slots) /\ Len(slots) \in Nat
  BY <1>1
<1>5. \A j \in 1..Len(slots) : SettledWith(i, result)[j] \in Slot
  BY <1>2, <1>3, <1>4 DEF SettledWith
<1>6. SettledWith(i, result) = [j \in 1..Len(slots) |-> SettledWith(i, result)[j]]
  BY <1>4 DEF SettledWith
<1>7. QED
  BY <1>4, <1>5, <1>6

-----------------------------------------------------------------------------
(* Every step keeps the types *)

LEMMA TypeRaise ==
  ASSUME TypeInv, Raise, saved' \in {saved, messages}, inbox' \in {inbox, <<>>},
         UNCHANGED <<structured, cancelled, sent, sessions, lost, calls, started, starts, endCalls>>,
         steps' \in SUBSET Step
  PROVE  TypeInv'
<1>1. TypeOK'
  BY Empty, FrameGoneType DEF TypeInv, TypeOK, Raise
<1>2. Shape'
  BY DEF Raise, Shape, Alive
<1>3. QED
  BY <1>1, <1>2 DEF TypeInv

LEMMA TypeDone ==
  ASSUME TypeInv, NEW t \in Transcript, NEW why \in {"none", "budget", "cancelled"},
         t # <<>>, Done(t, why), saved' \in {saved, messages}, calls' \in Nat,
         UNCHANGED <<structured, controlVars, sessions, lost, started, starts, endCalls, steps>>
  PROVE  TypeInv'
<1>1. TypeOK'
  BY Empty, FrameGoneType DEF TypeInv, TypeOK, Done, controlVars
<1>2. Shape'
  BY DEF Done, Shape, Alive
<1>3. QED
  BY <1>1, <1>2 DEF TypeInv

LEMMA TypeBeginPass == TypeInv /\ BeginPass => TypeInv'
<1> SUFFICES ASSUME TypeInv, BeginPass PROVE TypeInv'
  OBVIOUS
<1>1. PICK clockOrCost \in BOOLEAN :
        /\ winding' = (winding \/ BudgetReached(clockOrCost))
        /\ messages' = Steered(BudgetReached(clockOrCost))
  BY DEF BeginPass
<1>2. BudgetReached(clockOrCost) \in BOOLEAN
  BY DEF BudgetReached
<1>3. messages # <<>>
  BY DEF TypeInv, Shape, Alive, BeginPass
<1>4. messages' \in Transcript /\ messages' # <<>>
  BY <1>1, <1>2, <1>3, SteeredType
<1>5. winding' \in BOOLEAN
  BY <1>1 DEF TypeInv, TypeOK
<1>6. TypeOK'
  BY <1>4, <1>5, Empty DEF TypeInv, TypeOK, BeginPass, traceVars
<1>7. Shape'
  BY <1>4 DEF BeginPass, Shape, Alive
<1>8. QED
  BY <1>6, <1>7 DEF TypeInv

\* A response's calls, numbered on from those made before.
LEMMA ResponseType ==
  ASSUME TypeInv, NEW kinds \in Responses
  PROVE  /\ kinds \in Seq(Kinds) /\ Len(kinds) <= MaxCalls
         /\ [i \in DOMAIN kinds |-> [id |-> calls + i, kind |-> kinds[i]]] \in Seq(Use)
<1>1. PICK n \in 0..MaxCalls :
        kinds \in [1..n -> {"plain"} \union Toolsets \union (IF structured THEN Output ELSE {})]
  BY DEF Responses
<1>2. {"plain"} \union Toolsets \union (IF structured THEN Output ELSE {}) \subseteq Kinds
  BY DEF Kinds
<1>3. kinds \in [1..n -> Kinds]
  BY <1>1, <1>2
<1>4. kinds \in Seq(Kinds) /\ Len(kinds) = n
  BY <1>1, <1>3, BoundsAreNaturals
<1>5. \A i \in 1..n : [id |-> calls + i, kind |-> kinds[i]] \in Use
  <2>1. \A i \in 1..n : kinds[i] \in Kinds /\ calls + i \in Nat
    BY <1>3, BoundsAreNaturals DEF TypeInv, TypeOK
  <2>2. QED
    BY <2>1 DEF Use
<1>6. QED
  BY <1>1, <1>3, <1>4, <1>5, BoundsAreNaturals

LEMMA TypeModelAnswers ==
  ASSUME TypeInv, NEW kinds \in Responses, ModelAnswers(kinds)
  PROVE  TypeInv'
<1> DEFINE uses == [i \in DOMAIN kinds |-> [id |-> calls + i, kind |-> kinds[i]]]
           answered == Append(messages, Assistant(uses))
           unrun == IF uses = <<>> THEN answered ELSE Append(answered, UnrunResults(uses, "unrun"))
           nudged == Append(answered, User(<<>>))
           goOn(where, transcript, tries) ==
             /\ pc' = where
             /\ messages' = transcript
             /\ attempts' = tries
             /\ passes' = passes + 1
             /\ UNCHANGED <<iter, stepCounter, winding, stopped, slots>>
<1>1. uses \in Seq(Use) /\ Len(kinds) \in Nat
  BY ResponseType
<1>2. messages \in Transcript
  BY DEF TypeInv, TypeOK
<1>3. Assistant(uses) \in Message /\ User(<<>>) \in Message
  BY <1>1, Empty, MessageType
<1>4. UnrunResults(uses, "unrun") \in Message
  BY <1>1, UnrunResultsType DEF Status
<1> HIDE DEF uses
<1>5. answered \in Transcript /\ answered # <<>>
  BY <1>2, <1>3 DEF Transcript
<1>6. unrun \in Transcript /\ unrun # <<>> /\ nudged \in Transcript /\ nudged # <<>>
  BY <1>3, <1>4, <1>5 DEF Transcript
<1> HIDE DEF answered, unrun, nudged
<1>7. /\ calls' \in Nat
      /\ UNCHANGED <<structured, controlVars, saved, sessions, lost, started, starts, endCalls, steps>>
  BY <1>1 DEF ModelAnswers, TypeInv, TypeOK
<1>8. \/ \E t \in {unrun, answered}, why \in {"budget", "cancelled", stopped} : Done(t, why)
      \/ \E where \in {"top", "saveCalls"}, t \in {answered, nudged}, tries \in {attempts, attempts + 1} :
           goOn(where, t, tries)
  BY DEF ModelAnswers, uses, answered, unrun, nudged
<1>9. CASE \E t \in {unrun, answered}, why \in {"budget", "cancelled", stopped} : Done(t, why)
  <2>1. PICK t \in {unrun, answered}, why \in {"budget", "cancelled", stopped} : Done(t, why)
    BY <1>9
  <2>2. why \in {"none", "budget", "cancelled"}
    BY DEF TypeInv, TypeOK
  <2>3. QED
    BY <2>1, <2>2, <1>5, <1>6, <1>7, TypeDone
<1>10. CASE \E where \in {"top", "saveCalls"}, t \in {answered, nudged}, tries \in {attempts, attempts + 1} :
              goOn(where, t, tries)
  <2>1. PICK where \in {"top", "saveCalls"}, t \in {answered, nudged}, tries \in {attempts, attempts + 1} :
          goOn(where, t, tries)
    BY <1>10
  <2>2. messages' \in Transcript /\ messages' # <<>>
    BY <2>1, <1>5, <1>6
  <2>3. attempts' \in Nat /\ passes' \in Nat
    BY <2>1 DEF TypeInv, TypeOK
  <2>4. pc' \in {"top", "saveCalls"} /\ UNCHANGED <<iter, stepCounter, winding, stopped, slots>>
    BY <2>1
  <2>5. TypeOK'
    BY <2>2, <2>3, <2>4, <1>7 DEF TypeInv, TypeOK, controlVars
  <2>6. Shape'
    BY <2>2, <2>4 DEF Shape
  <2>7. QED
    BY <2>5, <2>6 DEF TypeInv
<1>11. QED
  BY <1>8, <1>9, <1>10

LEMMA BatchType ==
  ASSUME TypeInv, messages # <<>>
  PROVE  /\ Batch \in Seq(Use) /\ Len(Batch) \in Nat /\ DOMAIN Batch = 1..Len(Batch)
         /\ \A i \in DOMAIN Batch : Batch[i] \in Use /\ Batch[i].id \in Nat
<1>1. Batch \in Seq(Use)
  BY LastMessage DEF TypeInv, TypeOK, Batch
<1>2. \A i \in DOMAIN Batch : Batch[i] \in Use
  BY <1>1
<1>3. QED
  BY <1>1, <1>2 DEF Use

LEMMA TypeStartBatch == TypeInv /\ StartBatch => TypeInv'
<1> SUFFICES ASSUME TypeInv, StartBatch PROVE TypeInv'
  OBVIOUS
<1>1. messages # <<>>
  BY DEF StartBatch, TypeInv, Shape, Alive
<1>2. /\ Batch \in Seq(Use) /\ Len(Batch) \in Nat /\ DOMAIN Batch = 1..Len(Batch)
      /\ \A i \in DOMAIN Batch : Batch[i].id \in Nat
  BY <1>1, BatchType
<1>3. \A i \in Nat : /\ Cardinality(ToolsUpTo(Batch, i)) \in Nat
                     /\ Cardinality(BadUpTo(Batch, i)) \in Nat
  BY <1>2, Counts DEF TypeInv, TypeOK
<1>4. steps' \in SUBSET Step
  <2>1. \A i \in DOMAIN Batch :
          [id |-> stepCounter + Cardinality(ToolsUpTo(Batch, i)), call |-> Batch[i].id,
           status |-> "running"] \in Step
    <3>1. ASSUME NEW i \in DOMAIN Batch
          PROVE  stepCounter + Cardinality(ToolsUpTo(Batch, i)) \in Nat /\ Batch[i].id \in Nat
      <4>1. i \in Nat /\ stepCounter \in Nat
        BY <1>2 DEF TypeInv, TypeOK
      <4>2. Cardinality(ToolsUpTo(Batch, i)) \in Nat
        BY <4>1, <1>3
      <4>3. QED
        BY <4>1, <4>2, <1>2
    <3>2. QED
      BY <3>1 DEF Step
  <2>2. Handled \subseteq DOMAIN Batch
    BY DEF Handled
  <2>3. BatchSteps(Handled) \subseteq Step
    BY <2>1, <2>2 DEF BatchSteps
  <2>4. QED
    BY <2>3 DEF StartBatch, TypeInv, TypeOK
<1>5. saved' = messages
  BY DEF StartBatch, Checkpoint
<1>6. CASE Raise
  BY <1>4, <1>5, <1>6, TypeRaise DEF StartBatch, controlVars
<1>7. CASE ~Raise
  <2>1. /\ pc' = "batch"
        /\ stepCounter' = stepCounter + Cardinality(ToolsUpTo(Batch, Len(Batch)))
        /\ attempts' = attempts + Cardinality(BadUpTo(Batch, Len(Batch)))
        /\ slots' = [i \in DOMAIN Batch |->
                       IF IsTool(Batch[i]) THEN "waiting"
                       ELSE IF Batch[i].kind = "good" THEN "recorded" ELSE "retry"]
        /\ UNCHANGED <<iter, messages, passes, winding, stopped>>
    BY <1>7 DEF StartBatch
  <2>2. stepCounter' \in Nat /\ attempts' \in Nat
    <3>1. /\ Cardinality(ToolsUpTo(Batch, Len(Batch))) \in Nat
          /\ Cardinality(BadUpTo(Batch, Len(Batch))) \in Nat
      BY <1>2, <1>3
    <3>2. stepCounter \in Nat /\ attempts \in Nat
      BY DEF TypeInv, TypeOK
    <3>3. QED
      BY <2>1, <3>1, <3>2
  <2>3. slots' \in Seq(Slot) /\ DOMAIN slots' = DOMAIN Batch
    BY <2>1, <1>2 DEF Slot, Settled
  <2>4. TypeOK'
    BY <1>4, <1>5, <2>1, <2>2, <2>3 DEF TypeInv, TypeOK, StartBatch, controlVars
  <2>5. Shape'
    BY <1>1, <2>1, <2>3 DEF Shape, Batch
  <2>6. QED
    BY <2>4, <2>5 DEF TypeInv
<1>8. QED
  BY <1>6, <1>7

\* A step of one call of the batch.
LEMMA TypeCallStep ==
  ASSUME TypeInv, pc = "batch", NEW new \in Seq(Slot), slots' = new, DOMAIN new = DOMAIN slots,
         started' \in SUBSET Nat, starts' \in Nat,
         UNCHANGED <<structured, pc, iter, messages, passes, stepCounter, attempts, winding, stopped,
                     controlVars, saved, sessions, lost, calls, endCalls, steps>>
  PROVE  TypeInv'
<1>1. TypeOK'
  BY DEF TypeInv, TypeOK, controlVars
<1>2. Shape'
  BY DEF TypeInv, Shape, Alive, Batch
<1>3. QED
  BY <1>1, <1>2 DEF TypeInv

LEMMA TypeCalls ==
  ASSUME TypeInv, NEW i \in DOMAIN slots, BeginCall(i) \/ RefuseCall(i) \/ FinishCall(i)
  PROVE  TypeInv'
<1>1. pc = "batch" /\ messages # <<>> /\ DOMAIN slots = DOMAIN Batch
  BY DEF BeginCall, RefuseCall, FinishCall, TypeInv, Shape, Alive
<1>2. CASE BeginCall(i)
  <2>1. slots \in Seq(Slot) /\ "running" \in Slot
    BY DEF TypeInv, TypeOK, Slot
  <2>2. [slots EXCEPT ![i] = "running"] \in Seq(Slot)
    BY <2>1
  <2>3. Batch[i].id \in Nat
    BY <1>1, BatchType
  <2>4. started' \in SUBSET Nat /\ starts' \in Nat
    BY <1>2, <2>3 DEF BeginCall, TypeInv, TypeOK
  <2>5. QED
    BY <1>1, <1>2, <2>2, <2>4, TypeCallStep DEF BeginCall
<1>3. CASE RefuseCall(i)
  <2>1. started' \in SUBSET Nat /\ starts' \in Nat /\ "refused" \in Settled
    BY <1>3 DEF RefuseCall, traceVars, TypeInv, TypeOK, Settled
  <2>2. QED
    BY <1>1, <1>3, <2>1, SettledWithType, TypeCallStep DEF RefuseCall, traceVars
<1>4. CASE FinishCall(i)
  <2>1. PICK result \in {"ok", "end", "error"} : slots' = SettledWith(i, result)
    BY <1>4 DEF FinishCall
  <2>2. started' \in SUBSET Nat /\ starts' \in Nat /\ result \in Settled
    BY <1>4 DEF FinishCall, traceVars, TypeInv, TypeOK, Settled
  <2>3. QED
    BY <1>1, <1>4, <2>1, <2>2, SettledWithType, TypeCallStep DEF FinishCall, traceVars
<1>5. QED
  BY <1>2, <1>3, <1>4

LEMMA TypeSettleBatch == TypeInv /\ SettleBatch => TypeInv'
<1> SUFFICES ASSUME TypeInv, SettleBatch PROVE TypeInv'
  OBVIOUS
<1> DEFINE answers == [i \in DOMAIN Batch |-> [id |-> Batch[i].id, status |-> BlockStatus(slots[i])]]
<1>1. messages # <<>> /\ DOMAIN slots = DOMAIN Batch
  BY DEF SettleBatch, TypeInv, Shape, Alive
<1>2. /\ Batch \in Seq(Use) /\ Len(Batch) \in Nat /\ DOMAIN Batch = 1..Len(Batch)
      /\ \A i \in DOMAIN Batch : Batch[i].id \in Nat
  BY <1>1, BatchType
<1>3. \A i \in DOMAIN Batch : BlockStatus(slots[i]) \in Status
  BY DEF SettleBatch, Settled, BlockStatus, Status
<1>4. \A i \in 1..Len(Batch) : answers[i] \in Block
  BY <1>2, <1>3 DEF Block
<1>5. answers \in Seq(Block)
  BY <1>2, <1>4
<1>6. Results(answers) \in Message
  BY <1>5, MessageType
<1>7. messages' \in Transcript /\ messages' # <<>>
  BY <1>6, SMTT(30) DEF SettleBatch, TypeInv, TypeOK, Transcript
<1>8. steps' \in SUBSET Step
  <2>1. \A s \in Step, r \in Settled : [s EXCEPT !.status = StepStatus(r)] \in Step
    BY DEF Step, StepStatus
  <2>2. ASSUME NEW s \in steps, \E i \in DOMAIN Batch : s.call = Batch[i].id
        PROVE  slots[CHOOSE i \in DOMAIN Batch : s.call = Batch[i].id] \in Settled
    BY <2>2 DEF SettleBatch
  <2>3. \A s \in steps :
          (IF \E i \in DOMAIN Batch : s.call = Batch[i].id
           THEN [s EXCEPT !.status =
                   StepStatus(slots[CHOOSE i \in DOMAIN Batch : s.call = Batch[i].id])]
           ELSE s) \in Step
    BY <2>1, <2>2 DEF TypeInv, TypeOK
  <2>4. QED
    BY <2>3 DEF SettleBatch
<1>9. endCalls' \in SUBSET Nat
  BY <1>2 DEF SettleBatch, TypeInv, TypeOK
<1>10. TypeOK'
  BY <1>7, <1>8, <1>9 DEF TypeInv, TypeOK, SettleBatch, controlVars
<1>11. Shape'
  BY <1>7 DEF SettleBatch, Shape
<1>12. QED
  BY <1>10, <1>11 DEF TypeInv

LEMMA TypeEndBatch == TypeInv /\ EndBatch => TypeInv'
<1> SUFFICES ASSUME TypeInv, EndBatch PROVE TypeInv'
  OBVIOUS
<1>1. messages # <<>> /\ messages \in Transcript /\ stopped \in {"none", "budget", "cancelled"}
  BY DEF EndBatch, TypeInv, TypeOK, Shape, Alive
<1>2. saved' = messages /\ calls' \in Nat
  BY DEF EndBatch, Checkpoint, traceVars, TypeInv, TypeOK
<1>3. CASE Done(messages, stopped)
  BY <1>1, <1>2, <1>3, TypeDone DEF EndBatch, traceVars
<1>4. CASE ~Done(messages, stopped)
  <2>1. pc' = "top" /\ slots' = <<>>
        /\ UNCHANGED <<iter, messages, passes, stepCounter, attempts, winding, stopped>>
    BY <1>4 DEF EndBatch
  <2>2. TypeOK'
    BY <1>1, <1>2, <2>1, Empty DEF TypeInv, TypeOK, EndBatch, controlVars, traceVars
  <2>3. Shape'
    BY <1>1, <2>1 DEF Shape
  <2>4. QED
    BY <2>2, <2>3 DEF TypeInv
<1>5. QED
  BY <1>3, <1>4

LEMMA TypeOutside == TypeInv /\ (Send \/ Cancel \/ Crash) => TypeInv'
<1> SUFFICES ASSUME TypeInv, Send \/ Cancel \/ Crash PROVE TypeInv'
  OBVIOUS
<1>1. CASE Send
  <2>1. sent' \in Nat /\ inbox' \in Seq(Nat)
    BY <1>1 DEF Send, TypeInv, TypeOK
  <2>2. TypeOK' /\ Shape'
    BY <1>1, <2>1 DEF Send, TypeInv, TypeOK, Shape, Alive, loopVars, traceVars, Batch
  <2>3. QED
    BY <2>2 DEF TypeInv
<1>2. CASE Cancel
  <2>1. TypeOK' /\ Shape'
    BY <1>2 DEF Cancel, TypeInv, TypeOK, Shape, Alive, loopVars, traceVars, Batch
  <2>2. QED
    BY <2>1 DEF TypeInv
<1>3. CASE Crash
  <2>1. saved' \in Transcript
    BY <1>3 DEF Crash, TypeInv, TypeOK
  <2>2. TypeOK'
    BY <1>3, <2>1, Empty, FrameGoneType DEF Crash, TypeInv, TypeOK, traceVars
  <2>3. Shape'
    BY <1>3 DEF Crash, Shape, Alive
  <2>4. QED
    BY <2>2, <2>3 DEF TypeInv
<1>4. QED
  BY <1>1, <1>2, <1>3

LEMMA TypeResume == TypeInv /\ Resume => TypeInv'
<1> SUFFICES ASSUME TypeInv, Resume PROVE TypeInv'
  OBVIOUS
<1> DEFINE base   == IF pc = "done" THEN messages ELSE saved
           closed == CloseInterrupted(base)
           over   == IF structured THEN RecordedOutput(closed) ELSE Ended(closed)
           nudged == IF structured /\ Ended(closed) THEN Append(closed, User(<<>>)) ELSE closed
<1>1. base \in Transcript /\ base # <<>>
  BY DEF Resume, TypeInv, TypeOK
<1>2. closed \in Transcript /\ closed # <<>>
  BY <1>1, CloseInterruptedType
<1>3. User(<<>>) \in Message
  BY Empty, MessageType
<1> HIDE DEF closed
<1>4. nudged \in Transcript /\ nudged # <<>>
  BY <1>2, <1>3 DEF Transcript
<1>5. PassCount(nudged) \in Nat /\ ToolCount(nudged) \in Nat
  <2>1. <<>> \in Seq(Use)
    OBVIOUS
  <2>2. QED
    BY <1>4, <2>1, Counts
<1> HIDE DEF base, nudged, over
<1>6. /\ \/ pc' = "done" /\ messages' = closed /\ UNCHANGED <<iter, passes, stepCounter, attempts, winding>>
         \/ /\ pc' = "top" /\ messages' = nudged /\ iter' = 0 /\ passes' = PassCount(nudged)
            /\ stepCounter' = ToolCount(nudged) /\ attempts' = 0 /\ winding' = FALSE
      /\ sessions' = sessions + 1 /\ cancelled' = FALSE /\ stopped' = "none"
      /\ UNCHANGED <<structured, slots, inbox, sent, saved, calls, started, starts, endCalls>>
  BY DEF Resume, base, closed, over, nudged
<1>7. lost' \in SUBSET Nat
  BY DEF Resume, TypeInv, TypeOK
<1>8. steps' \in SUBSET Step
  <2>1. \A s \in Step : [s EXCEPT !.status = "lost"] \in Step
    BY DEF Step
  <2>2. QED
    BY <2>1 DEF Resume, TypeInv, TypeOK
<1>9. messages' \in Transcript /\ messages' # <<>>
  BY <1>2, <1>4, <1>6
<1>10. TypeOK'
  <2>1. /\ iter \in Nat /\ passes \in Nat /\ stepCounter \in Nat /\ attempts \in Nat
        /\ winding \in BOOLEAN /\ sessions \in Nat
    BY DEF TypeInv, TypeOK
  <2>2. /\ iter' \in Nat /\ passes' \in Nat /\ stepCounter' \in Nat /\ attempts' \in Nat
        /\ sessions' \in Nat
    BY <1>5, <1>6, <2>1
  <2>3. winding' \in BOOLEAN /\ cancelled' \in BOOLEAN
    BY <1>6, <2>1
  <2>4. pc' \in {"done", "top"} /\ stopped' = "none"
    BY <1>6
  <2>5. /\ structured' \in BOOLEAN /\ slots' \in Seq(Slot) /\ inbox' \in Seq(Nat) /\ sent' \in Nat
        /\ saved' \in Transcript /\ calls' \in Nat /\ starts' \in Nat
        /\ started' \in SUBSET Nat /\ endCalls' \in SUBSET Nat
    BY <1>6 DEF TypeInv, TypeOK
  <2>6. QED
    BY <1>7, <1>8, <1>9, <2>2, <2>3, <2>4, <2>5 DEF TypeOK
<1>11. Shape'
  BY <1>6, <1>9 DEF Shape
<1>12. QED
  BY <1>10, <1>11 DEF TypeInv

LEMMA TypeStep == TypeInv /\ [Next]_vars => TypeInv'
<1> SUFFICES ASSUME TypeInv, [Next]_vars PROVE TypeInv'
  OBVIOUS
<1>1. CASE UNCHANGED vars
  <2>1. TypeOK' /\ Shape'
    BY <1>1 DEF TypeInv, TypeOK, Shape, Alive, Batch, vars, loopVars, controlVars, traceVars
  <2>2. QED
    BY <2>1 DEF TypeInv
<1>2. CASE BeginPassCancelled
  <2>1. messages \in Transcript /\ messages # <<>> /\ calls \in Nat
    BY <1>2 DEF BeginPassCancelled, TypeInv, TypeOK, Shape, Alive
  <2>2. QED
    BY <1>2, <2>1, TypeDone DEF BeginPassCancelled, traceVars
<1>3. CASE OutOfIterations \/ TimeOut \/ ModelFails \/ NoOutput \/ SaveFails
  <2>1. /\ Raise /\ saved' \in {saved, messages} /\ inbox' \in {inbox, <<>>}
        /\ UNCHANGED <<structured, cancelled, sent, sessions, traceVars>>
    BY <1>3 DEF OutOfIterations, TimeOut, ModelFails, NoOutput, SaveFails, controlVars
  <2>2. steps' \in SUBSET Step
    BY <2>1 DEF traceVars, TypeInv, TypeOK
  <2>3. QED
    BY <2>1, <2>2, TypeRaise DEF traceVars
<1>4. CASE BeginPass
  BY <1>4, TypeBeginPass
<1>5. CASE \E kinds \in Responses : ModelAnswers(kinds)
  BY <1>5, TypeModelAnswers
<1>6. CASE StartBatch
  BY <1>6, TypeStartBatch
<1>7. CASE \E i \in DOMAIN slots : BeginCall(i) \/ RefuseCall(i) \/ FinishCall(i)
  BY <1>7, TypeCalls
<1>8. CASE SettleBatch
  BY <1>8, TypeSettleBatch
<1>9. CASE EndBatch
  BY <1>9, TypeEndBatch
<1>10. CASE Send \/ Cancel \/ Crash
  BY <1>10, TypeOutside
<1>11. CASE Resume
  BY <1>11, TypeResume
<1>12. QED
  BY <1>1, <1>2, <1>3, <1>4, <1>5, <1>6, <1>7, <1>8, <1>9, <1>10, <1>11 DEF Next, Loop

\* Every reachable state is well typed, whatever the model, the tools and the
\* outside do, and however the run is bounded.
THEOREM TypeCorrect == Spec => []TypeOK
<1>1. TypeInv => TypeOK
  BY DEF TypeInv
<1>2. QED
  BY <1>1, TypeInit, TypeStep, PTL DEF Spec

-----------------------------------------------------------------------------
(* The calls and answers of a transcript *)

\* What one more message adds.
LEMMA AppendedIds ==
  ASSUME NEW t \in Transcript, NEW m \in Message
  PROVE  /\ CallIds(Append(t, m)) = CallIds(t) \union {m.calls[j].id : j \in DOMAIN m.calls}
         /\ Answers(Append(t, m)) = Answers(t) \union {m.results[j] : j \in DOMAIN m.results}
         /\ m.calls = <<>> => CallIds(Append(t, m)) = CallIds(t)
         /\ m.results = <<>> => Answers(Append(t, m)) = Answers(t)
         /\ LastOf(Append(t, m)) = m
<1> DEFINE u == Append(t, m)
<1>1. DOMAIN u = DOMAIN t \union {Len(t) + 1} /\ u[Len(t) + 1] = m
  BY DEF Transcript
<1>2. \A i \in DOMAIN t : u[i] = t[i]
  BY DEF Transcript
<1> HIDE DEF u
<1>3. CallIds(u) = CallIds(t) \union {m.calls[j].id : j \in DOMAIN m.calls}
  BY <1>1, <1>2 DEF CallIds
<1>4. Answers(u) = Answers(t) \union {m.results[j] : j \in DOMAIN m.results}
  BY <1>1, <1>2 DEF Answers
<1>5. m.calls = <<>> => {m.calls[j].id : j \in DOMAIN m.calls} = {}
  OBVIOUS
<1>6. m.results = <<>> => {m.results[j] : j \in DOMAIN m.results} = {}
  OBVIOUS
<1>7. LastOf(u) = m
  BY <1>1 DEF u, LastOf, Transcript
<1>8. QED
  BY <1>3, <1>4, <1>5, <1>6, <1>7 DEF u

\* Text added to a transcript changes neither.
LEMMA HeardIds ==
  ASSUME NEW t \in Transcript, NEW notes \in Seq(Nat)
  PROVE  LET new == AppendUserText(t, notes) IN
         /\ CallIds(new) = CallIds(t) /\ Answers(new) = Answers(t)
         /\ t # <<>> => LastOf(new).calls \in {<<>>, LastOf(t).calls}
<1> DEFINE new == AppendUserText(t, notes)
<1>1. CASE t # <<>> /\ LastOf(t).role = "user"
  <2>1. Len(t) \in 1..Len(t) /\ t[Len(t)] \in Message
    BY <1>1, LastMessage DEF LastOf
  <2>2. new = [t EXCEPT ![Len(t)] = [t[Len(t)] EXCEPT !.notes = @ \o notes]]
    BY <1>1, <2>1 DEF AppendUserText, Transcript
  <2>3. DOMAIN new = DOMAIN t /\ Len(new) = Len(t)
    BY <2>1, <2>2 DEF Transcript
  <2>4. \A i \in DOMAIN t : new[i].calls = t[i].calls /\ new[i].results = t[i].results
    BY <2>1, <2>2, SMTT(30) DEF Transcript, Message
  <2> HIDE DEF new
  <2>5. CallIds(new) = CallIds(t) /\ Answers(new) = Answers(t)
    BY <2>3, <2>4 DEF CallIds, Answers
  <2>6. LastOf(new).calls = LastOf(t).calls
    BY <2>1, <2>3, <2>4 DEF LastOf, Transcript
  <2>7. QED
    BY <2>5, <2>6 DEF new
<1>2. CASE ~(t # <<>> /\ LastOf(t).role = "user")
  <2>1. new = Append(t, User(notes)) /\ User(notes) \in Message
    BY <1>2, MessageType DEF AppendUserText
  <2>2. User(notes).calls = <<>> /\ User(notes).results = <<>>
    BY DEF User
  <2> HIDE DEF new
  <2>3. CallIds(new) = CallIds(t) /\ Answers(new) = Answers(t) /\ LastOf(new) = User(notes)
    BY <2>1, <2>2, AppendedIds
  <2>4. QED
    BY <2>2, <2>3 DEF new
<1>3. QED
  BY <1>1, <1>2

-----------------------------------------------------------------------------
(* The inductive invariant *)

IdsOf(uses) == {uses[j].id : j \in DOMAIN uses}
AnsweredIds(t) == {a.id : a \in Answers(t)}

\* The answers of a transcript are to calls it holds, one each, claim success
\* only of calls that ran, and leave the calls of its last turn open.
Fits(t, ran, made) ==
  /\ AnsweredIds(t) \subseteq CallIds(t)
  /\ \A a, b \in Answers(t) : a.id = b.id => a = b
  /\ \A a \in Answers(t) : a.status = "ok" => a.id \in ran
  /\ CallIds(t) \subseteq 1..made
  /\ t # <<>> => LET open == LastOf(t).calls IN
                 /\ IdsOf(open) \intersect AnsweredIds(t) = {}
                 /\ \A i, j \in DOMAIN open : open[i].id = open[j].id => i = j

Extends(new, old) == CallIds(old) \subseteq CallIds(new) /\ Answers(old) \subseteq Answers(new)

\* What the batch's slots say of its calls.
BatchFits ==
  /\ pc = "saveCalls" => IdsOf(Batch) \intersect started = {}
  /\ pc = "batch" =>
       /\ saved = messages
       /\ \A i \in DOMAIN slots : /\ slots[i] = "waiting" => Batch[i].id \notin started
                                  /\ slots[i] \in {"running", "ok", "end"} => Batch[i].id \in started

LedgerInv ==
  /\ TypeInv
  /\ Fits(saved, started, calls)
  /\ Alive \/ pc = "done" => Fits(messages, started, calls) /\ Extends(messages, saved)
  /\ started \subseteq CallIds(saved)
  /\ BatchFits

LEMMA FitsLater ==
  ASSUME NEW t, NEW ran, NEW ran2, ran \subseteq ran2, NEW made \in Nat, NEW made2 \in Nat,
         made <= made2, Fits(t, ran, made)
  PROVE  Fits(t, ran2, made2)
<1>1. 1..made \subseteq 1..made2
  OBVIOUS
<1>2. QED
  BY <1>1, Zenon DEF Fits

LEMMA FitsHeard ==
  ASSUME NEW t \in Transcript, t # <<>>, NEW notes \in Seq(Nat), NEW ran, NEW made, Fits(t, ran, made)
  PROVE  Fits(AppendUserText(t, notes), ran, made) /\ Extends(AppendUserText(t, notes), t)
<1> DEFINE new == AppendUserText(t, notes)
<1>1. /\ CallIds(new) = CallIds(t) /\ Answers(new) = Answers(t)
      /\ LastOf(new).calls \in {<<>>, LastOf(t).calls}
  BY HeardIds
<1> HIDE DEF new
<1>2. Fits(new, ran, made)
  <2>1. CASE LastOf(new).calls = <<>>
    BY <1>1, <2>1 DEF Fits, AnsweredIds, IdsOf
  <2>2. CASE LastOf(new).calls = LastOf(t).calls
    BY <1>1, <2>2 DEF Fits, AnsweredIds
  <2>3. QED
    BY <1>1, <2>1, <2>2
<1>3. QED
  BY <1>1, <1>2 DEF Extends, new

\* The model's calls, with ids nobody has used.
LEMMA FitsAnswered ==
  ASSUME NEW t \in Transcript, NEW uses \in Seq(Use), NEW ran, NEW made \in Nat, Fits(t, ran, made),
         \A i \in DOMAIN uses : uses[i].id = made + i
  PROVE  /\ Fits(Append(t, Assistant(uses)), ran, made + Len(uses))
         /\ Extends(Append(t, Assistant(uses)), t)
<1> DEFINE new == Append(t, Assistant(uses))
<1>1. Assistant(uses) \in Message /\ Assistant(uses).calls = uses /\ Assistant(uses).results = <<>>
  BY MessageType DEF Assistant
<1>2. CallIds(new) = CallIds(t) \union IdsOf(uses) /\ Answers(new) = Answers(t)
  <2>1. {Assistant(uses).calls[j].id : j \in DOMAIN Assistant(uses).calls} = IdsOf(uses)
    BY <1>1 DEF IdsOf
  <2>2. QED
    BY <1>1, <2>1, AppendedIds
<1>3. LastOf(new).calls = uses
  BY <1>1, AppendedIds
<1> HIDE DEF new
<1>4. IdsOf(uses) \subseteq (made + 1)..(made + Len(uses))
  BY DEF IdsOf
<1>5. IdsOf(uses) \intersect AnsweredIds(new) = {}
  BY <1>2, <1>4 DEF Fits, AnsweredIds
<1>6. \A i, j \in DOMAIN uses : uses[i].id = uses[j].id => i = j
  OBVIOUS
<1>7. CallIds(new) \subseteq 1..(made + Len(uses))
  BY <1>2, <1>4 DEF Fits
<1>8. Fits(new, ran, made + Len(uses))
  BY <1>2, <1>3, <1>5, <1>6, <1>7 DEF Fits, AnsweredIds
<1>9. QED
  BY <1>2, <1>8 DEF Extends, new

\* One answer for each call of the last turn.
LEMMA FitsSettled ==
  ASSUME NEW t \in Transcript, t # <<>>, NEW ran, NEW made, Fits(t, ran, made),
         NEW answers \in Seq(Block), DOMAIN answers = DOMAIN LastOf(t).calls,
         \A i \in DOMAIN answers : /\ answers[i].id = LastOf(t).calls[i].id
                                   /\ answers[i].status = "ok" => answers[i].id \in ran
  PROVE  /\ Fits(Append(t, Results(answers)), ran, made)
         /\ Extends(Append(t, Results(answers)), t)
<1> DEFINE new == Append(t, Results(answers))
           added == {answers[j] : j \in DOMAIN answers}
           open == LastOf(t).calls
<1>1. Results(answers) \in Message /\ Results(answers).calls = <<>> /\ Results(answers).results = answers
  BY MessageType DEF Results
<1>2. CallIds(new) = CallIds(t) /\ Answers(new) = Answers(t) \union added
  <2>1. {Results(answers).results[j] : j \in DOMAIN Results(answers).results} = added
    BY <1>1
  <2>2. QED
    BY <1>1, <2>1, AppendedIds
<1>3. LastOf(new).calls = <<>>
  BY <1>1, AppendedIds
<1>4. IdsOf(open) \subseteq CallIds(t)
  BY LastMessage DEF IdsOf, CallIds, Transcript
<1> HIDE DEF new, open
<1>5. \A a \in added : a.id \in IdsOf(open) /\ (a.status = "ok" => a.id \in ran)
  BY DEF IdsOf, open
<1>6. \A a, b \in added : a.id = b.id => a = b
  <2>1. \A i, j \in DOMAIN answers : answers[i].id = answers[j].id => i = j
    BY DEF Fits
  <2>2. QED
    BY <2>1
<1> HIDE DEF added
<1>7. \A a \in added, b \in Answers(t) : a.id # b.id
  BY <1>5 DEF Fits, AnsweredIds, open
<1>8. AnsweredIds(new) \subseteq CallIds(new)
  BY <1>2, <1>4, <1>5 DEF Fits, AnsweredIds
<1>9. \A a, b \in Answers(new) : a.id = b.id => a = b
  BY <1>2, <1>6, <1>7 DEF Fits
<1>10. \A a \in Answers(new) : a.status = "ok" => a.id \in ran
  BY <1>2, <1>5 DEF Fits
<1>11. Fits(new, ran, made)
  BY <1>2, <1>3, <1>8, <1>9, <1>10 DEF Fits, IdsOf
<1>12. QED
  BY <1>2, <1>11 DEF Extends, new

\* A turn of the user with nothing to read, after one of the model.
LEMMA NudgeIsText ==
  ASSUME NEW t \in Transcript, t # <<>>, LastOf(t).role = "assistant"
  PROVE  Append(t, User(<<>>)) = AppendUserText(t, <<>>)
BY DEF AppendUserText

\* The calls in flight are answered without success.
LEMMA FitsUnrun ==
  ASSUME NEW t \in Transcript, t # <<>>, NEW ran, NEW made, Fits(t, ran, made),
         NEW why \in Status \ {"ok"}
  PROVE  LET new == Append(t, UnrunResults(LastOf(t).calls, why)) IN
         Fits(new, ran, made) /\ Extends(new, t)
<1> DEFINE open == LastOf(t).calls
           answers == [i \in DOMAIN open |-> [id |-> open[i].id, status |-> why]]
<1>1. open \in Seq(Use)
  BY LastMessage
<1> HIDE DEF open
<1>2. \A i \in 1..Len(open) : answers[i] \in Block
  <2>1. \A i \in 1..Len(open) : open[i] \in Use
    BY <1>1
  <2>2. QED
    BY <1>1, <2>1 DEF Use, Block
<1>3. answers \in Seq(Block)
  <2>1. DOMAIN open = 1..Len(open) /\ Len(open) \in Nat
    BY <1>1
  <2>2. QED
    BY <1>2, <2>1
<1>4. DOMAIN answers = DOMAIN open /\ \A i \in DOMAIN answers : /\ answers[i].id = open[i].id
                                                               /\ answers[i].status # "ok"
  OBVIOUS
<1>5. UnrunResults(open, why) = Results(answers)
  BY DEF UnrunResults
<1> HIDE DEF answers
<1>6. QED
  BY <1>3, <1>4, <1>5, FitsSettled DEF open

-----------------------------------------------------------------------------
(* Every step keeps it *)

LEMMA LedgerInit == Init => LedgerInv
<1> SUFFICES ASSUME Init PROVE LedgerInv
  OBVIOUS
<1>1. TypeInv
  BY TypeInit
<1>2. CallIds(<<>>) = {} /\ Answers(<<>>) = {}
  BY DEF CallIds, Answers
<1>3. Fits(<<>>, {}, 0)
  BY <1>2 DEF Fits, AnsweredIds
<1>4. <<>> \in Transcript /\ User(<<>>) \in Message /\ User(<<>>).calls = <<>> /\ User(<<>>).results = <<>>
  BY Empty, MessageType DEF User
<1>5. Append(<<>>, User(<<>>)) = <<User(<<>>)>>
  OBVIOUS
<1> DEFINE first == <<User(<<>>)>>
<1>6. CallIds(first) = {} /\ Answers(first) = {} /\ LastOf(first) = User(<<>>)
  BY <1>2, <1>4, <1>5, AppendedIds, ZenonT(40)
<1> HIDE DEF first
<1>7. Fits(first, {}, 0)
  BY <1>4, <1>6 DEF Fits, AnsweredIds, IdsOf
<1>8. /\ saved = <<>> /\ started = {} /\ calls = 0 /\ messages = first /\ pc = "top"
  BY DEF Init, first
<1>9. QED
  BY <1>1, <1>2, <1>3, <1>6, <1>7, <1>8 DEF LedgerInv, BatchFits, Extends

\* The run broke off: what was saved is left.
LEMMA LedgerBreaks ==
  ASSUME LedgerInv, TypeInv', Alive, pc' \in {"error", "crashed"}, saved' \in {saved, messages},
         started' = started, calls' = calls
  PROVE  LedgerInv'
<1>1. Fits(saved', started', calls') /\ started' \subseteq CallIds(saved')
  BY DEF LedgerInv, Extends
<1>2. QED
  BY <1>1 DEF LedgerInv, BatchFits, Alive

\* The run goes on, or is done, with a transcript that extends the one it had.
LEMMA LedgerContinues ==
  ASSUME LedgerInv, TypeInv', Alive, saved' \in {saved, messages}, started' = started,
         calls' >= calls, Fits(messages', started', calls'), Extends(messages', messages), BatchFits'
  PROVE  LedgerInv'
<1>1. calls \in Nat /\ calls' \in Nat
  BY DEF LedgerInv, TypeInv, TypeOK
<1>2. Fits(saved, started, calls) /\ Fits(messages, started, calls)
  BY DEF LedgerInv
<1>3. Fits(saved', started', calls')
  BY <1>1, <1>2, FitsLater
<1>4. Extends(messages', saved') /\ started' \subseteq CallIds(saved')
  BY DEF LedgerInv, Extends
<1>5. QED
  BY <1>3, <1>4 DEF LedgerInv

LEMMA LedgerBeginPass == LedgerInv /\ TypeInv' /\ BeginPass => LedgerInv'
<1> SUFFICES ASSUME LedgerInv, TypeInv', BeginPass PROVE LedgerInv'
  OBVIOUS
<1>1. messages \in Transcript /\ messages # <<>> /\ inbox \in Seq(Nat) /\ Fits(messages, started, calls)
  BY DEF BeginPass, LedgerInv, TypeInv, TypeOK, Shape, Alive
<1> DEFINE heard == IF inbox = <<>> THEN messages ELSE AppendUserText(messages, inbox)
           noted == AppendUserText(heard, <<>>)
<1>2. heard \in Transcript /\ heard # <<>> /\ Fits(heard, started, calls) /\ Extends(heard, messages)
  BY <1>1, FitsHeard, AppendUserTextType DEF Extends
<1> HIDE DEF heard
<1>3. Fits(noted, started, calls) /\ Extends(noted, messages)
  BY <1>2, Empty, FitsHeard DEF Extends
<1>4. messages' \in {heard, noted}
  BY DEF BeginPass, Steered, heard, noted
<1>5. Fits(messages', started', calls') /\ Extends(messages', messages)
  BY <1>2, <1>3, <1>4 DEF BeginPass, traceVars
<1>6. BatchFits' /\ Alive
  BY DEF BeginPass, BatchFits, Alive
<1>7. calls' >= calls /\ saved' = saved /\ started' = started
  BY DEF BeginPass, traceVars, LedgerInv, TypeInv, TypeOK
<1>8. QED
  BY <1>5, <1>6, <1>7, LedgerContinues

LEMMA LedgerModelAnswers ==
  ASSUME LedgerInv, TypeInv', NEW kinds \in Responses, ModelAnswers(kinds)
  PROVE  LedgerInv'
<1> DEFINE uses == [i \in DOMAIN kinds |-> [id |-> calls + i, kind |-> kinds[i]]]
           answered == Append(messages, Assistant(uses))
           unrun == IF uses = <<>> THEN answered ELSE Append(answered, UnrunResults(uses, "unrun"))
           nudged == Append(answered, User(<<>>))
<1>1. uses \in Seq(Use) /\ Len(kinds) \in Nat /\ Len(uses) = Len(kinds)
  BY ResponseType DEF LedgerInv
<1>2. messages \in Transcript /\ Fits(messages, started, calls) /\ calls \in Nat
  BY DEF LedgerInv, TypeInv, TypeOK, ModelAnswers, Alive
<1>3. \A i \in DOMAIN uses : uses[i].id = calls + i
  OBVIOUS
<1>4. calls' = calls + Len(uses) /\ saved' = saved /\ started' = started
  BY <1>1 DEF ModelAnswers
<1>5. messages' \in {answered, unrun, nudged}
      /\ (pc' = "saveCalls" => messages' = answered) /\ pc' # "batch"
  BY DEF ModelAnswers, Done
<1> HIDE DEF uses
<1>6. answered \in Transcript /\ answered # <<>> /\ LastOf(answered) = Assistant(uses)
  BY <1>1, <1>2, MessageType DEF LastOf, Transcript
<1>7. Fits(answered, started, calls') /\ Extends(answered, messages)
  BY <1>1, <1>2, <1>3, <1>4, FitsAnswered
<1>8. Assistant(uses).calls = uses /\ Assistant(uses).role = "assistant"
  BY DEF Assistant
<1> HIDE DEF answered
<1>9. Fits(unrun, started, calls') /\ Extends(unrun, messages)
  BY <1>6, <1>7, <1>8, FitsUnrun DEF Extends, Status
<1>10. Fits(nudged, started, calls') /\ Extends(nudged, messages)
  BY <1>6, <1>7, <1>8, NudgeIsText, FitsHeard, Empty DEF Extends
<1>11. BatchFits'
  <2>1. ASSUME pc' = "saveCalls" PROVE IdsOf(Batch') \intersect started' = {}
    <3>1. Batch' = uses
      BY <2>1, <1>5, <1>6, <1>8 DEF Batch
    <3>2. started \subseteq 1..calls
      BY DEF LedgerInv, Fits
    <3>3. \A i \in DOMAIN uses : uses[i].id \notin 1..calls
      BY <1>1, <1>2, <1>3
    <3>4. QED
      BY <1>4, <3>1, <3>2, <3>3 DEF IdsOf
  <2>2. QED
    BY <2>1, <1>5 DEF BatchFits
<1>12. Alive /\ calls' >= calls
  BY <1>1, <1>2, <1>4 DEF ModelAnswers, Alive
<1>13. Fits(messages', started', calls') /\ Extends(messages', messages)
  BY <1>4, <1>5, <1>7, <1>9, <1>10
<1>14. QED
  BY <1>4, <1>11, <1>12, <1>13, LedgerContinues

LEMMA LedgerStartBatch == LedgerInv /\ TypeInv' /\ StartBatch => LedgerInv'
<1> SUFFICES ASSUME LedgerInv, TypeInv', StartBatch PROVE LedgerInv'
  OBVIOUS
<1>1. /\ pc = "saveCalls" /\ Alive /\ saved' = messages /\ started' = started /\ calls' = calls
  BY DEF StartBatch, Checkpoint, Alive
<1>2. CASE Raise
  BY <1>1, <1>2, LedgerBreaks DEF Raise
<1>3. CASE ~Raise
  <2>1. /\ pc' = "batch" /\ messages' = messages
        /\ slots' = [i \in DOMAIN Batch |->
                       IF IsTool(Batch[i]) THEN "waiting"
                       ELSE IF Batch[i].kind = "good" THEN "recorded" ELSE "retry"]
    BY <1>3 DEF StartBatch
  <2>2. IdsOf(Batch) \intersect started = {}
    BY <1>1 DEF LedgerInv, BatchFits
  <2>3. \A i \in DOMAIN slots' : /\ slots'[i] \notin {"running", "ok", "end"}
                                 /\ Batch[i].id \notin started
    BY <2>1, <2>2 DEF IdsOf
  <2>4. BatchFits'
    BY <1>1, <2>1, <2>3 DEF BatchFits, Batch
  <2>5. Fits(messages', started', calls') /\ Extends(messages', messages) /\ calls' >= calls
    BY <1>1, <2>1 DEF LedgerInv, Extends, TypeInv, TypeOK
  <2>6. QED
    BY <1>1, <2>4, <2>5, LedgerContinues
<1>4. QED
  BY <1>2, <1>3

LEMMA LedgerBeginCall ==
  ASSUME LedgerInv, TypeInv', NEW i \in DOMAIN slots, BeginCall(i)
  PROVE  LedgerInv'
<1>1. /\ pc = "batch" /\ pc' = "batch" /\ saved = messages /\ saved' = saved /\ messages' = messages
      /\ DOMAIN slots = DOMAIN Batch /\ calls' = calls /\ calls \in Nat
      /\ messages # <<>> /\ messages \in Transcript
  BY DEF BeginCall, LedgerInv, BatchFits, TypeInv, TypeOK, Shape, Alive
<1>2. started' = started \union {Batch[i].id} /\ slots' = [slots EXCEPT ![i] = "running"]
  BY DEF BeginCall
<1>3. Fits(messages, started', calls')
  BY <1>1, <1>2, FitsLater DEF LedgerInv
<1>4. \A j \in DOMAIN Batch : Batch[j].id = Batch[i].id => j = i
  BY <1>1 DEF LedgerInv, Fits, Batch, Alive
<1>5. Batch[i].id \in CallIds(messages)
  BY <1>1, LastMessage DEF Batch, CallIds, Transcript
<1>6. BatchFits'
  <2>1. ASSUME NEW j \in DOMAIN slots
        PROVE  /\ slots'[j] = "waiting" => Batch[j].id \notin started'
               /\ slots'[j] \in {"running", "ok", "end"} => Batch[j].id \in started'
    <3>1. CASE j = i
      BY <1>2, <3>1
    <3>2. CASE j # i
      BY <1>1, <1>2, <1>4, <3>2 DEF LedgerInv, BatchFits
    <3>3. QED
      BY <3>1, <3>2
  <2>2. QED
    BY <1>1, <1>2, <2>1 DEF BatchFits, Batch
<1>7. QED
  BY <1>1, <1>2, <1>3, <1>5, <1>6 DEF LedgerInv, Extends

LEMMA LedgerSettleCall ==
  ASSUME LedgerInv, TypeInv', NEW i \in DOMAIN slots, RefuseCall(i) \/ FinishCall(i)
  PROVE  LedgerInv'
<1>1. /\ pc = "batch" /\ pc' = "batch" /\ saved = messages /\ saved' = saved /\ messages' = messages
      /\ calls' = calls /\ started' = started /\ calls \in Nat
  BY DEF RefuseCall, FinishCall, LedgerInv, BatchFits, TypeInv, TypeOK, traceVars
<1>2. PICK result \in {"ok", "end", "error", "refused"} :
        /\ slots' = SettledWith(i, result)
        /\ result \in {"ok", "end"} => slots[i] = "running"
  BY DEF RefuseCall, FinishCall
<1>3. ASSUME NEW j \in DOMAIN slots'
      PROVE  /\ j \in DOMAIN slots
             /\ slots'[j] = "waiting" => slots[j] = "waiting"
             /\ slots'[j] \in {"running", "ok", "end"} => slots[j] \in {"running", "ok", "end"}
  BY <1>2 DEF SettledWith
<1>4. BatchFits'
  BY <1>1, <1>3 DEF LedgerInv, BatchFits, Batch
<1>5. Fits(messages', started', calls') /\ Extends(messages', messages) /\ calls' >= calls /\ Alive
  BY <1>1 DEF LedgerInv, Extends, Alive
<1>6. QED
  BY <1>1, <1>4, <1>5, LedgerContinues

LEMMA LedgerSettleBatch == LedgerInv /\ TypeInv' /\ SettleBatch => LedgerInv'
<1> SUFFICES ASSUME LedgerInv, TypeInv', SettleBatch PROVE LedgerInv'
  OBVIOUS
<1> DEFINE answers == [i \in DOMAIN Batch |-> [id |-> Batch[i].id, status |-> BlockStatus(slots[i])]]
<1>1. /\ pc = "batch" /\ Alive /\ saved' = saved /\ started' = started /\ calls' = calls
      /\ messages \in Transcript /\ messages # <<>> /\ DOMAIN slots = DOMAIN Batch
      /\ Fits(messages, started, calls) /\ calls \in Nat
  BY DEF SettleBatch, LedgerInv, TypeInv, TypeOK, Shape, Alive
<1>2. /\ Batch \in Seq(Use) /\ Len(Batch) \in Nat /\ DOMAIN Batch = 1..Len(Batch)
      /\ \A i \in DOMAIN Batch : Batch[i].id \in Nat
  BY <1>1, BatchType DEF LedgerInv
<1>3. \A i \in DOMAIN Batch : BlockStatus(slots[i]) \in Status
  BY DEF SettleBatch, Settled, BlockStatus, Status
<1>4. \A i \in 1..Len(Batch) : answers[i] \in Block
  BY <1>2, <1>3 DEF Block
<1>5. answers \in Seq(Block) /\ DOMAIN answers = DOMAIN LastOf(messages).calls
  <2>1. answers \in Seq(Block)
    BY <1>2, <1>4
  <2>2. QED
    BY <2>1 DEF Batch
<1>6. ASSUME NEW i \in DOMAIN answers
      PROVE  /\ answers[i].id = LastOf(messages).calls[i].id
             /\ answers[i].status = "ok" => answers[i].id \in started
  <2>1. answers[i].id = Batch[i].id /\ answers[i].status = BlockStatus(slots[i])
    OBVIOUS
  <2>2. answers[i].status = "ok" => slots[i] \in {"ok", "end"}
    BY <2>1 DEF BlockStatus
  <2>3. QED
    BY <1>1, <2>1, <2>2 DEF LedgerInv, BatchFits, Batch
<1>7. messages' = Append(messages, Results(answers)) /\ pc' = "saveResults"
  BY DEF SettleBatch
<1> HIDE DEF answers
<1>8. Fits(messages', started', calls') /\ Extends(messages', messages)
  BY <1>1, <1>5, <1>6, <1>7, FitsSettled
<1>9. BatchFits' /\ calls' >= calls
  BY <1>1, <1>7 DEF BatchFits
<1>10. QED
  BY <1>1, <1>8, <1>9, LedgerContinues

LEMMA LedgerResume == LedgerInv /\ TypeInv' /\ Resume => LedgerInv'
<1> SUFFICES ASSUME LedgerInv, TypeInv', Resume PROVE LedgerInv'
  OBVIOUS
<1> DEFINE base   == IF pc = "done" THEN messages ELSE saved
           closed == CloseInterrupted(base)
           nudged == IF structured /\ Ended(closed) THEN Append(closed, User(<<>>)) ELSE closed
<1>1. base \in Transcript /\ base # <<>> /\ Fits(base, started, calls) /\ Extends(base, saved)
  BY DEF Resume, LedgerInv, TypeInv, TypeOK, Extends
<1>2. /\ messages' \in {closed, nudged} /\ pc' \in {"done", "top"}
      /\ saved' = saved /\ started' = started /\ calls' = calls
  BY DEF Resume
<1> HIDE DEF base
<1>3. closed \in Transcript /\ closed # <<>>
  BY <1>1, CloseInterruptedType
<1>4. Fits(closed, started, calls) /\ Extends(closed, base)
  BY <1>1, FitsUnrun DEF CloseInterrupted, Extends, Status
<1> HIDE DEF closed
<1>5. Fits(nudged, started, calls) /\ Extends(nudged, closed)
  BY <1>3, <1>4, NudgeIsText, FitsHeard, Empty DEF Ended, Extends
<1>6. Fits(messages', started', calls') /\ Extends(messages', saved')
  BY <1>1, <1>2, <1>4, <1>5 DEF Extends
<1>7. BatchFits'
  BY <1>2 DEF BatchFits
<1>8. QED
  BY <1>2, <1>6, <1>7 DEF LedgerInv

LEMMA LedgerStep == LedgerInv /\ [Next]_vars => LedgerInv'
<1> SUFFICES ASSUME LedgerInv, [Next]_vars PROVE LedgerInv'
  OBVIOUS
<1>1. TypeInv'
  BY TypeStep DEF LedgerInv
<1>2. CASE UNCHANGED vars
  BY <1>1, <1>2 DEF LedgerInv, BatchFits, Alive, Batch, vars, loopVars, traceVars
<1>3. CASE OutOfIterations \/ TimeOut \/ ModelFails \/ NoOutput \/ SaveFails
  <2>1. /\ Alive /\ pc' = "error" /\ saved' \in {saved, messages}
        /\ started' = started /\ calls' = calls
    BY <1>3 DEF OutOfIterations, TimeOut, ModelFails, NoOutput, SaveFails, Raise, traceVars, Alive
  <2>2. QED
    BY <1>1, <2>1, LedgerBreaks
<1>4. CASE Crash
  <2>1. /\ Alive /\ pc' = "crashed" /\ saved' \in {saved, messages}
        /\ started' = started /\ calls' = calls
    BY <1>4 DEF Crash, traceVars
  <2>2. QED
    BY <1>1, <2>1, LedgerBreaks
<1>5. CASE BeginPassCancelled \/ EndBatch
  <2>1. /\ Alive /\ saved' \in {saved, messages} /\ started' = started /\ calls' = calls
        /\ messages' = messages /\ pc' \in {"done", "top"}
    BY <1>5 DEF BeginPassCancelled, EndBatch, Done, Checkpoint, traceVars, Alive
  <2>2. Fits(messages', started', calls') /\ Extends(messages', messages) /\ calls' >= calls
    BY <2>1 DEF LedgerInv, Extends, TypeInv, TypeOK
  <2>3. BatchFits'
    BY <2>1 DEF BatchFits
  <2>4. QED
    BY <1>1, <2>1, <2>2, <2>3, LedgerContinues
<1>6. CASE Send \/ Cancel
  <2>1. /\ UNCHANGED <<pc, messages, saved, started, calls, slots>>
    BY <1>6 DEF Send, Cancel, loopVars, traceVars
  <2>2. QED
    BY <1>1, <2>1 DEF LedgerInv, BatchFits, Alive, Batch
<1>7. CASE BeginPass
  BY <1>1, <1>7, LedgerBeginPass
<1>8. CASE \E kinds \in Responses : ModelAnswers(kinds)
  BY <1>1, <1>8, LedgerModelAnswers
<1>9. CASE StartBatch
  BY <1>1, <1>9, LedgerStartBatch
<1>10. CASE \E i \in DOMAIN slots : BeginCall(i) \/ RefuseCall(i) \/ FinishCall(i)
  BY <1>1, <1>10, LedgerBeginCall, LedgerSettleCall
<1>11. CASE SettleBatch
  BY <1>1, <1>11, LedgerSettleBatch
<1>12. CASE Resume
  BY <1>1, <1>12, LedgerResume
<1>13. QED
  BY <1>2, <1>3, <1>4, <1>5, <1>6, <1>7, <1>8, <1>9, <1>10, <1>11, <1>12 DEF Next, Loop

-----------------------------------------------------------------------------

\* No tool call ever begins before the transcript that shows it is saved, so
\* that whatever is left after a crash tells the model of every call that may
\* have had an effect.
THEOREM StartedIsSavedAlways == Spec => []StartedIsSaved
<1>1. LedgerInv => StartedIsSaved
  BY DEF LedgerInv, StartedIsSaved
<1>2. QED
  BY <1>1, LedgerInit, LedgerStep, PTL DEF Spec

\* Every answer a transcript holds is one the ledger may hold.
LEMMA AnswersType ==
  ASSUME NEW t \in Transcript
  PROVE  Answers(t) \subseteq Block /\ CallIds(t) \subseteq Nat
<1>1. \A i \in DOMAIN t : t[i].results \in Seq(Block) /\ t[i].calls \in Seq(Use)
  <2>1. \A i \in DOMAIN t : t[i] \in Message
    BY DEF Transcript
  <2>2. QED
    BY <2>1 DEF Message
<1>2. ASSUME NEW i \in DOMAIN t, NEW j \in DOMAIN t[i].results PROVE t[i].results[j] \in Block
  BY <1>1
<1>3. ASSUME NEW i \in DOMAIN t, NEW j \in DOMAIN t[i].calls PROVE t[i].calls[j].id \in Nat
  <2>1. t[i].calls[j] \in Use
    BY <1>1
  <2>2. QED
    BY <2>1 DEF Use
<1>4. QED
  BY <1>2, <1>3 DEF Answers, CallIds

\* What a step can do to the ledger: nothing, save the transcript, or begin a
\* call of the batch.
LEMMA LedgerSteps ==
  ASSUME LedgerInv, [Next]_vars
  PROVE  \/ saved' = saved /\ UNCHANGED <<started, starts>>
         \/ Alive /\ saved' = messages /\ UNCHANGED <<started, starts>>
         \/ saved' = saved /\ \E i \in DOMAIN slots : BeginCall(i)
<1>1. CASE UNCHANGED vars
  BY <1>1 DEF vars, traceVars
<1>2. CASE BeginPassCancelled \/ OutOfIterations \/ TimeOut \/ BeginPass \/ ModelFails \/ NoOutput
           \/ SettleBatch \/ Send \/ Cancel \/ Resume
  BY <1>2 DEF BeginPassCancelled, OutOfIterations, TimeOut, BeginPass, ModelFails, NoOutput,
              SettleBatch, Send, Cancel, Resume, traceVars
<1>3. CASE \E kinds \in Responses : ModelAnswers(kinds)
  BY <1>3 DEF ModelAnswers
<1>4. CASE \E i \in DOMAIN slots : RefuseCall(i) \/ FinishCall(i)
  BY <1>4 DEF RefuseCall, FinishCall, traceVars
<1>5. CASE SaveFails \/ StartBatch \/ EndBatch \/ Crash
  BY <1>5 DEF SaveFails, StartBatch, EndBatch, Crash, Checkpoint, Alive, traceVars
<1>6. CASE \E i \in DOMAIN slots : BeginCall(i)
  BY <1>6 DEF BeginCall
<1>7. QED
  BY <1>1, <1>2, <1>3, <1>4, <1>5, <1>6 DEF Next, Loop

LEMMA LedgerStarts == Init => Ledger!Init
BY DEF Init, Ledger!Init, CallIds, Answers

LEMMA LedgerNext == LedgerInv /\ [Next]_vars => [Ledger!Next]_(Ledger!vars)
<1> SUFFICES ASSUME LedgerInv, [Next]_vars PROVE [Ledger!Next]_(Ledger!vars)
  OBVIOUS
<1>1. CASE saved' = saved /\ UNCHANGED <<started, starts>>
  BY <1>1 DEF Ledger!vars
<1>2. CASE Alive /\ saved' = messages /\ UNCHANGED <<started, starts>>
  <2>1. messages \in Transcript /\ Fits(messages, started, calls) /\ Extends(messages, saved)
    BY <1>2 DEF LedgerInv, TypeInv, TypeOK
  <2>2. CallIds(messages) \subseteq Nat /\ Answers(messages) \subseteq [id : Nat, status : Status]
    BY <2>1, AnswersType DEF Block
  <2>3. \A a \in Answers(messages) : a.id \in CallIds(messages)
    BY <2>1 DEF Fits, AnsweredIds
  <2>4. Ledger!Save
    BY <1>2, <2>1, <2>2, <2>3 DEF Ledger!Save, Ledger!Answer, Fits, Extends
  <2>5. QED
    BY <2>4 DEF Ledger!Next
<1>3. CASE saved' = saved /\ \E i \in DOMAIN slots : BeginCall(i)
  <2>1. PICK i \in DOMAIN slots : BeginCall(i)
    BY <1>3
  <2> DEFINE c == Batch[i].id
  <2>2. /\ pc = "batch" /\ saved = messages /\ messages # <<>> /\ messages \in Transcript
        /\ slots[i] = "waiting" /\ started' = started \union {c} /\ i \in DOMAIN Batch
        /\ starts' = starts + 1
    BY <2>1 DEF BeginCall, Ready, LedgerInv, BatchFits, TypeInv, TypeOK, Shape, Alive
  <2>3. c \notin started
    BY <2>2 DEF LedgerInv, BatchFits
  <2>4. c \in CallIds(saved)
    BY <2>2, LastMessage DEF Batch, CallIds, Transcript
  <2>5. c \notin AnsweredIds(saved)
    BY <2>2 DEF LedgerInv, Fits, IdsOf, Batch
  <2>6. Ledger!Run(c)
    BY <1>3, <2>2, <2>5 DEF Ledger!Run, AnsweredIds
  <2>7. QED
    BY <2>3, <2>4, <2>6 DEF Ledger!Next
<1>4. QED
  BY <1>1, <1>2, <1>3, LedgerSteps

\* Through crashes and resumes, the saved transcripts are a ledger: the record
\* of calls and answers only grows, no call runs twice or unrecorded, and no
\* recorded call gets a second answer or a success it did not earn.
THEOREM LedgerImplemented == Spec => ImplementsLedger
<1>1. QED
  BY LedgerStarts, LedgerInit, LedgerStep, LedgerNext, PTL DEF Spec, ImplementsLedger, Ledger!Spec

-----------------------------------------------------------------------------
(* Messages, the budget, steps, ordered toolsets and requests: the inductive *)
(* invariants                                                               *)

\* What is queued comes after all that was heard, and nothing sent is in two
\* places; the same of what was saved, from where a resumed run goes on.
SentInv ==
  /\ lost \subseteq 1..sent /\ \A i \in DOMAIN inbox : inbox[i] \in 1..sent
  /\ Delivered(saved) \subseteq 1..sent
  /\ InOrder(saved) /\ QueuedAfter(saved)
  /\ MessagesConserved

\* A pass that is not winding down leaves room for one that is.
BudgetInv ==
  /\ Alive => passes = PassCount(messages)
  /\ winding => pc = "model"
  /\ Alive /\ iter = 0 => pc = "top"
  /\ Alive /\ iter > 0 => LET begun == passes + (IF pc = "model" THEN 1 ELSE 0) IN
                          /\ ~winding => begun < MaxPasses
                          /\ iter > 1 => begun <= MaxPasses

\* The steps are numbered by the tool calls of the transcript, in order.
StepsInv ==
  /\ \A s, t \in steps : s.id = t.id => s = t
  /\ \A s \in steps : s.id <= ToolCount(saved)
  /\ Alive => ToolCount(saved) <= stepCounter
  /\ pc \in {"top", "model", "batch", "saveResults"} => ToolCount(messages) = stepCounter
  /\ pc = "saveCalls" => ToolCount(messages) = stepCounter + Cardinality(ToolsUpTo(Batch, Len(Batch)))
  /\ pc = "done" => ToolCount(saved) <= ToolCount(messages)
  /\ pc = "batch" => \A s \in steps : s.status = "running" => s.call \in IdsOf(Batch)
  /\ pc \in {"top", "model", "saveCalls", "saveResults", "done"} =>
       \A s \in steps : s.status # "running"

\* A batch's slots are of these calls.
Uses == IF pc = "batch" THEN Batch ELSE messages[Len(messages) - 1].calls

Began == {"running", "ok", "end", "error"}
SameSet(uses, i, j) == uses[i].kind \in Toolsets /\ uses[j].kind = uses[i].kind

\* A failed call has stopped what comes after it in its toolset, and what began
\* comes after calls that went well.
Ordered(uses, marks, ran) ==
  /\ DOMAIN marks = DOMAIN uses
  /\ \A i \in DOMAIN marks : /\ uses[i].id \in ran => marks[i] \in Began
                             /\ marks[i] \in {"recorded", "retry"} => ~IsTool(uses[i])
  /\ \A i, j \in DOMAIN marks : i < j /\ SameSet(uses, i, j) =>
       /\ marks[i] \in Failed => marks[j] = "refused"
       /\ marks[j] \in Began => marks[i] \in {"ok", "end"}

OrderInv == pc \in {"batch", "saveResults"} => Ordered(Uses, slots, started)

Ids(blocks) == [j \in DOMAIN blocks |-> blocks[j].id]
Recorded(message) == \E j \in DOMAIN message.results : message.results[j].status = "recorded"

\* Calls are answered in the next turn, and a recorded result is the end.
WellPaired(t) ==
  \A i \in DOMAIN t :
    /\ t[i].calls # <<>> => t[i].role = "assistant"
    /\ t[i].results # <<>> => t[i].role = "user"
    /\ i < Len(t) => ~Recorded(t[i]) /\ (t[i].calls # <<>> => Ids(t[i].calls) = Ids(t[i + 1].results))

RequestInv ==
  /\ WellPaired(saved)
  /\ saved # <<>> /\ Recorded(LastOf(saved)) => structured
  /\ Alive \/ pc = "done" => WellPaired(messages) /\ (Recorded(LastOf(messages)) => structured)
  /\ Alive /\ pc # "saveResults" => ~Recorded(LastOf(messages))
  /\ pc = "top" => LastOf(messages).calls = <<>> /\ (LastOf(messages).role = "user" \/ inbox # <<>>)
  /\ pc = "model" => LastOf(messages).role = "user"
  /\ pc \in {"saveCalls", "batch"} => \A i \in DOMAIN Batch : ~IsTool(Batch[i]) => structured
  /\ pc = "batch" => \A i \in DOMAIN slots : slots[i] = "recorded" => ~IsTool(Batch[i])
  /\ pc = "saveResults" => /\ LastOf(messages).role = "user"
                           /\ Recorded(LastOf(messages)) => \E i \in DOMAIN slots : slots[i] = "recorded"

-----------------------------------------------------------------------------
(* What a step can do *)

\* The run broke off: only what was saved is left.
Breaks ==
  /\ Alive /\ pc' \in {"error", "crashed"} /\ FrameGone
  /\ saved' \in {saved, messages}
  /\ inbox' \in {inbox, <<>>}
  /\ UNCHANGED <<structured, sent, lost, calls, started>>
  /\ \/ steps' = steps
     \/ pc = "saveCalls" /\ saved' = messages /\ steps' = steps \union BatchSteps(Handled)

\* The transcript, and where the loop is, stay as they were.
Stays ==
  /\ UNCHANGED <<structured, pc, iter, messages, passes, stepCounter, winding, saved, lost, calls, steps>>
  /\ UNCHANGED <<inbox, sent>> \/ Send
  /\ UNCHANGED <<slots, started>> \/ \E i \in DOMAIN slots : BeginCall(i) \/ RefuseCall(i) \/ FinishCall(i)

\* Every call of the batch has a task.
BatchBegins ==
  /\ pc = "saveCalls" /\ pc' = "batch" /\ saved' = messages
  /\ stepCounter' = stepCounter + Cardinality(ToolsUpTo(Batch, Len(Batch)))
  /\ slots' = [i \in DOMAIN Batch |->
                 IF IsTool(Batch[i]) THEN "waiting"
                 ELSE IF Batch[i].kind = "good" THEN "recorded" ELSE "retry"]
  /\ steps' = steps \union BatchSteps(DOMAIN Batch)
  /\ UNCHANGED <<structured, iter, messages, passes, winding, inbox, sent, lost, calls, started>>

LEMMA StepCases ==
  ASSUME [Next]_vars
  PROVE  \/ Breaks \/ Stays \/ BeginPassCancelled \/ BeginPass
         \/ \E kinds \in Responses : ModelAnswers(kinds)
         \/ BatchBegins \/ SettleBatch \/ EndBatch \/ Resume
<1>1. CASE UNCHANGED vars
  BY <1>1 DEF Stays, vars, loopVars, controlVars, traceVars
<1>2. CASE OutOfIterations \/ TimeOut \/ ModelFails \/ NoOutput \/ SaveFails
  <2>1. /\ Alive /\ Raise /\ saved' \in {saved, messages} /\ inbox' \in {inbox, <<>>}
        /\ UNCHANGED <<structured, sent, lost, calls, started, steps>>
    BY <1>2 DEF OutOfIterations, TimeOut, ModelFails, NoOutput, SaveFails, Alive,
                controlVars, traceVars
  <2> QED
    BY <2>1, Zenon DEF Raise, Breaks
<1>3. CASE Crash
  <2>1. /\ Alive /\ pc' = "crashed" /\ FrameGone /\ saved' \in {saved, messages} /\ inbox' = <<>>
        /\ UNCHANGED <<structured, sent, lost, calls, started, steps>>
    BY <1>3 DEF Crash, traceVars
  <2> QED
    BY <2>1, Zenon DEF Breaks
<1>4. CASE StartBatch
  <2>1. CASE Raise
    BY <1>4, <2>1 DEF StartBatch, Raise, Checkpoint, Breaks, Alive, controlVars
  <2>2. CASE ~Raise
    <3>1. Handled = DOMAIN Batch
      BY <1>4, <2>2 DEF StartBatch
    <3>2. steps' = steps \union BatchSteps(DOMAIN Batch)
      BY <1>4, <3>1 DEF StartBatch
    <3> QED
      BY <1>4, <2>2, <3>2 DEF StartBatch, Checkpoint, BatchBegins, controlVars
  <2> QED
    BY <2>1, <2>2
<1>5. CASE \E i \in DOMAIN slots : BeginCall(i) \/ RefuseCall(i) \/ FinishCall(i)
  <2>1. /\ UNCHANGED <<structured, pc, iter, messages, passes, stepCounter, winding, saved, lost,
                       calls, steps>>
        /\ UNCHANGED <<inbox, sent>>
    BY <1>5 DEF BeginCall, RefuseCall, FinishCall, controlVars, traceVars
  <2> QED
    BY <1>5, <2>1 DEF Stays
<1>6. CASE Send \/ Cancel
  BY <1>6 DEF Send, Cancel, Stays, loopVars, traceVars
<1> QED
  BY <1>1, <1>2, <1>3, <1>4, <1>5, <1>6 DEF Next, Loop

\* What the model's answer makes of the transcript.
LEMMA ModelTurn ==
  ASSUME TypeInv, NEW kinds \in Responses, ModelAnswers(kinds)
  PROVE  /\ pc = "model" /\ messages # <<>> /\ UNCHANGED <<structured, inbox, sent, saved, lost, started, steps>>
         /\ \E uses \in Seq(Use) :
              /\ Len(uses) <= MaxCalls
              /\ \A i \in DOMAIN uses : IsTool(uses[i]) \/ structured
              /\ LET answered == Append(messages, Assistant(uses))
                     goesOn == ~winding /\ passes' = passes + 1 /\ UNCHANGED <<iter, stepCounter, winding>>
                 IN \/ pc' = "saveCalls" /\ uses # <<>> /\ messages' = answered /\ goesOn
                    \/ pc' = "top" /\ uses = <<>> /\ messages' = answered /\ inbox # <<>> /\ goesOn
                    \/ pc' = "top" /\ uses = <<>> /\ messages' = Append(answered, User(<<>>)) /\ goesOn
                    \/ pc' = "done" /\ uses = <<>> /\ messages' = answered /\ FrameGone
                    \/ /\ pc' = "done" /\ uses # <<>> /\ FrameGone
                       /\ messages' = Append(answered, UnrunResults(uses, "unrun"))
<1> DEFINE uses == [i \in DOMAIN kinds |-> [id |-> calls + i, kind |-> kinds[i]]]
           answered == Append(messages, Assistant(uses))
           goesOn == ~winding /\ passes' = passes + 1 /\ UNCHANGED <<iter, stepCounter, winding>>
<1>1. uses \in Seq(Use) /\ Len(kinds) <= MaxCalls /\ kinds \in Seq(Kinds)
  BY ResponseType
<1>2. Len(uses) <= MaxCalls
  <2>1. DOMAIN uses = 1..Len(kinds) /\ Len(kinds) \in Nat
    BY <1>1
  <2>2. DOMAIN uses = 1..Len(uses) /\ Len(uses) \in Nat
    BY <1>1
  <2>3. Len(uses) = Len(kinds)
    BY <2>1, <2>2
  <2> QED
    BY <1>1, <2>3
<1>3. \A i \in DOMAIN uses : IsTool(uses[i]) \/ structured
  <2>1. ASSUME NEW i \in DOMAIN kinds, ~structured PROVE kinds[i] \notin Output
    <3>1. PICK n \in 0..MaxCalls :
            kinds \in [1..n -> {"plain"} \union Toolsets \union (IF structured THEN Output ELSE {})]
      BY DEF Responses
    <3>2. kinds[i] \in {"plain"} \union Toolsets
      BY <2>1, <3>1
    <3> QED
      BY <3>2, ToolsetNames DEF Output
  <2> QED
    BY <2>1 DEF IsTool
<1>4. /\ pc = "model" /\ messages # <<>>
      /\ UNCHANGED <<structured, inbox, sent, saved, lost, started, steps>>
  BY DEF ModelAnswers, controlVars, TypeInv, Shape, Alive
<1>5. \/ pc' = "saveCalls" /\ uses # <<>> /\ messages' = answered /\ goesOn
      \/ pc' = "top" /\ uses = <<>> /\ messages' = answered /\ inbox # <<>> /\ goesOn
      \/ pc' = "top" /\ uses = <<>> /\ messages' = Append(answered, User(<<>>)) /\ goesOn
      \/ pc' = "done" /\ uses = <<>> /\ messages' = answered /\ FrameGone
      \/ /\ pc' = "done" /\ uses # <<>> /\ FrameGone
         /\ messages' = Append(answered, UnrunResults(uses, "unrun"))
  BY DEF ModelAnswers, Done
<1> HIDE DEF uses
<1> QED
  BY <1>1, <1>2, <1>3, <1>4, <1>5

\* Where a resumed run starts.
LEMMA ResumeTurn ==
  ASSUME TypeInv, Resume
  PROVE  /\ pc \in {"done", "error", "crashed"} /\ UNCHANGED <<structured, inbox, sent, saved, started, slots>>
         /\ steps' = {IF s.status = "running" THEN [s EXCEPT !.status = "lost"] ELSE s : s \in steps}
         /\ \E base \in Transcript, closed \in Transcript :
              /\ base # <<>> /\ closed # <<>> /\ closed = CloseInterrupted(base)
              /\ base = saved \/ (pc = "done" /\ base = messages)
              /\ pc = "done" => base = messages
              /\ lost' = (1..sent) \ (Delivered(base) \union {inbox[i] : i \in DOMAIN inbox})
              /\ \/ /\ pc' = "done" /\ messages' = closed
                    /\ UNCHANGED winding
                 \/ /\ pc' = "top" /\ iter' = 0 /\ winding' = FALSE
                    /\ passes' = PassCount(messages') /\ stepCounter' = ToolCount(messages')
                    /\ \/ structured /\ Ended(closed) /\ messages' = Append(closed, User(<<>>))
                       \/ ~Ended(closed) /\ messages' = closed
                    /\ structured => ~RecordedOutput(closed)
<1> DEFINE base   == IF pc = "done" THEN messages ELSE saved
           closed == CloseInterrupted(base)
           over   == IF structured THEN RecordedOutput(closed) ELSE Ended(closed)
           nudged == IF structured /\ Ended(closed) THEN Append(closed, User(<<>>)) ELSE closed
<1>1. base \in Transcript /\ base # <<>>
  BY DEF Resume, TypeInv, TypeOK
<1>2. closed \in Transcript /\ closed # <<>>
  BY <1>1, CloseInterruptedType
<1>3. /\ pc \in {"done", "error", "crashed"} /\ UNCHANGED <<structured, inbox, sent, saved, started, slots>>
      /\ lost' = (1..sent) \ (Delivered(base) \union {inbox[i] : i \in DOMAIN inbox})
  BY DEF Resume
<1> HIDE DEF base, closed
<1> DEFINE closeSteps == {IF s.status = "running" THEN [s EXCEPT !.status = "lost"] ELSE s : s \in steps}
<1>4. \/ pc' = "done" /\ messages' = closed /\ UNCHANGED winding
      \/ /\ pc' = "top" /\ iter' = 0 /\ winding' = FALSE /\ ~over /\ messages' = nudged
         /\ passes' = PassCount(nudged) /\ stepCounter' = ToolCount(nudged)
  BY DEF Resume, base, closed
<1>5. base = saved \/ (pc = "done" /\ base = messages)
  BY DEF base
<1>6. pc = "done" => base = messages
  BY DEF base
<1>7. closed = CloseInterrupted(base)
  BY DEF closed
<1> HIDE DEF closeSteps
<1>10. steps' = closeSteps
  BY DEF Resume, closeSteps
<1>8. ~over => /\ \/ structured /\ Ended(closed) /\ nudged = Append(closed, User(<<>>))
                  \/ ~Ended(closed) /\ nudged = closed
               /\ structured => ~RecordedOutput(closed)
  OBVIOUS
<1> HIDE DEF over, nudged
<1>9. \/ pc' = "done" /\ messages' = closed /\ UNCHANGED winding
      \/ /\ pc' = "top" /\ iter' = 0 /\ winding' = FALSE
         /\ passes' = PassCount(messages') /\ stepCounter' = ToolCount(messages')
         /\ \/ structured /\ Ended(closed) /\ messages' = Append(closed, User(<<>>))
            \/ ~Ended(closed) /\ messages' = closed
         /\ structured => ~RecordedOutput(closed)
  BY <1>4, <1>8
<1> QED
  BY <1>1, <1>2, <1>3, <1>5, <1>6, <1>7, <1>9, <1>10, Zenon DEF closeSteps

-----------------------------------------------------------------------------
(* The messages sent *)

LEMMA DeliveredIs ==
  ASSUME NEW t, NEW n
  PROVE  n \in Delivered(t) <=> \E i \in DOMAIN t : \E j \in DOMAIN t[i].notes : n = t[i].notes[j]
BY DEF Delivered

\* A turn that brings no messages.
LEMMA SilentTurn ==
  ASSUME NEW t \in Transcript, NEW m \in Message, m.notes = <<>>
  PROVE  /\ Delivered(Append(t, m)) = Delivered(t)
         /\ InOrder(t) => InOrder(Append(t, m))
<1> DEFINE u == Append(t, m)
<1>1. DOMAIN u = DOMAIN t \union {Len(t) + 1} /\ u[Len(t) + 1].notes = <<>>
      /\ \A i \in DOMAIN t : u[i] = t[i]
  BY DEF Transcript
<1>2. \A j \in DOMAIN u[Len(t) + 1].notes : FALSE
  BY <1>1
<1> HIDE DEF u
<1>3. Delivered(u) = Delivered(t)
  <2>1. ASSUME NEW n \in Delivered(u) PROVE n \in Delivered(t)
    BY <1>1, <1>2, DeliveredIs
  <2>2. ASSUME NEW n \in Delivered(t) PROVE n \in Delivered(u)
    <3>1. PICK i \in DOMAIN t : \E j \in DOMAIN t[i].notes : n = t[i].notes[j]
      BY DeliveredIs
    <3>2. i \in DOMAIN u /\ \E j \in DOMAIN u[i].notes : n = u[i].notes[j]
      BY <1>1, <3>1
    <3> QED
      BY <3>2, DeliveredIs
  <2> QED
    BY <2>1, <2>2
<1>4. InOrder(t) => InOrder(u)
  BY <1>1, <1>2 DEF InOrder
<1> QED
  BY <1>3, <1>4 DEF u

\* What the run hears goes behind what it has heard.
LEMMA HeardInOrder ==
  ASSUME NEW t \in Transcript, NEW notes \in Seq(Nat)
  PROVE  LET new == AppendUserText(t, notes) IN
         /\ Delivered(new) = Delivered(t) \union {notes[i] : i \in DOMAIN notes}
         /\ /\ InOrder(t)
            /\ \A i, j \in DOMAIN notes : i < j => notes[i] < notes[j]
            /\ \A n \in Delivered(t), i \in DOMAIN notes : n < notes[i]
            => InOrder(new)
<1> DEFINE new == AppendUserText(t, notes)
<1>0. DOMAIN t = 1..Len(t) /\ Len(t) \in Nat /\ DOMAIN notes = 1..Len(notes) /\ Len(notes) \in Nat
  BY DEF Transcript
<1>1. \A i \in DOMAIN t : t[i] \in Message /\ t[i].notes \in Seq(Nat)
  <2>1. \A i \in DOMAIN t : t[i] \in Message
    BY DEF Transcript
  <2> QED
    BY <2>1 DEF Message
<1>2. CASE t # <<>> /\ LastOf(t).role = "user"
  <2> DEFINE L == Len(t)
             old == t[L].notes
  <2>1. L \in 1..L /\ L \in DOMAIN t
    BY <1>2, LastMessage, <1>0
  <2> DEFINE turn == [t[L] EXCEPT !.notes = old \o notes]
  <2>2. old \in Seq(Nat) /\ t[L] \in Message
    BY <2>1, <1>1
  <2>3. new = [t EXCEPT ![L] = turn] /\ turn.notes = old \o notes
    <3>1. turn.notes = old \o notes
      BY <2>2 DEF Message
    <3>2. new = [t EXCEPT ![L] = turn]
      BY <1>2, <2>1 DEF AppendUserText, Transcript
    <3> QED
      BY <3>1, <3>2
  <2> HIDE DEF turn
  <2>7. DOMAIN new = DOMAIN t /\ new[L].notes = old \o notes
        /\ \A i \in DOMAIN t \ {L} : new[i] = t[i]
    BY <2>1, <2>3, <1>0
  <2> HIDE DEF new
  <2> DEFINE now == new[L].notes
  <2>4. now = old \o notes
    BY <2>7
  <2> HIDE DEF old, now
  <2>5. DOMAIN old = 1..Len(old) /\ Len(old) \in Nat
    BY <2>2
  <2>6. /\ \A j \in DOMAIN old : j \in DOMAIN now /\ now[j] = old[j]
        /\ \A k \in DOMAIN notes : Len(old) + k \in DOMAIN now /\ now[Len(old) + k] = notes[k]
        /\ \A j \in DOMAIN now : j \in DOMAIN old \/ \E k \in DOMAIN notes : j = Len(old) + k
    <3>1. /\ DOMAIN now = 1..(Len(old) + Len(notes))
          /\ \A j \in 1..(Len(old) + Len(notes)) :
               now[j] = IF j <= Len(old) THEN old[j] ELSE notes[j - Len(old)]
      BY <2>2, <2>4
    <3>2. ASSUME NEW j \in DOMAIN now, j \notin DOMAIN old
          PROVE  \E k \in DOMAIN notes : j = Len(old) + k
      <4>1. j - Len(old) \in DOMAIN notes /\ j = Len(old) + (j - Len(old))
        BY <3>1, <3>2, <2>5, <1>0
      <4> QED
        BY <4>1
    <3>3. ASSUME NEW k \in DOMAIN notes
          PROVE  Len(old) + k \in DOMAIN now /\ now[Len(old) + k] = notes[k]
      <4>1. /\ Len(old) + k \in 1..(Len(old) + Len(notes))
            /\ ~(Len(old) + k <= Len(old)) /\ (Len(old) + k) - Len(old) = k
        BY <2>5, <1>0
      <4> QED
        BY <3>1, <4>1
    <3> QED
      BY <3>1, <3>2, <3>3, <2>5, <1>0
  <2>8. \A j \in DOMAIN now : \/ j \in DOMAIN old /\ now[j] = old[j]
                              \/ \E k \in DOMAIN notes : j = Len(old) + k /\ now[j] = notes[k]
    BY <2>6
  <2> USE DEF now
  <2>9. Delivered(new) = Delivered(t) \union {notes[i] : i \in DOMAIN notes}
    <3>1. ASSUME NEW n \in Delivered(new) PROVE n \in Delivered(t) \union {notes[i] : i \in DOMAIN notes}
      <4>1. PICK i \in DOMAIN new : \E j \in DOMAIN new[i].notes : n = new[i].notes[j]
        BY DeliveredIs
      <4>2. CASE i = L
        <5>1. \A j \in DOMAIN old : old[j] \in Delivered(t)
          BY <2>1, DeliveredIs DEF old
        <5> QED
          BY <4>1, <4>2, <2>8, <5>1
      <4>3. CASE i # L
        BY <4>1, <4>3, <2>7, DeliveredIs
      <4> QED
        BY <4>2, <4>3
    <3>2. ASSUME NEW n \in Delivered(t) PROVE n \in Delivered(new)
      <4>1. PICK i \in DOMAIN t : \E j \in DOMAIN t[i].notes : n = t[i].notes[j]
        BY DeliveredIs
      <4>2. CASE i = L
        BY <4>1, <4>2, <2>1, <2>7, <2>6, DeliveredIs DEF old
      <4>3. CASE i # L
        BY <4>1, <4>3, <2>7, DeliveredIs
      <4> QED
        BY <4>2, <4>3
    <3>3. ASSUME NEW k \in DOMAIN notes PROVE notes[k] \in Delivered(new)
      BY <2>1, <2>7, <2>6, DeliveredIs
    <3> QED
      BY <3>1, <3>2, <3>3
  <2>10. ASSUME InOrder(t), \A i, j \in DOMAIN notes : i < j => notes[i] < notes[j],
                \A n \in Delivered(t), i \in DOMAIN notes : n < notes[i]
         PROVE  InOrder(new)
    <3> SUFFICES ASSUME NEW i \in DOMAIN t, NEW k \in DOMAIN t,
                        NEW j \in DOMAIN new[i].notes, NEW l \in DOMAIN new[k].notes,
                        i < k \/ (i = k /\ j < l)
                 PROVE  new[i].notes[j] < new[k].notes[l]
      BY <2>7 DEF InOrder
    <3>1. i # L \/ k = L
      BY <1>0, <2>1
    <3>2. \A q \in DOMAIN t : \A p \in DOMAIN t[q].notes : t[q].notes[p] \in Delivered(t)
      BY DeliveredIs
    <3>3. CASE k # L
      BY <3>1, <3>3, <2>7, <2>10 DEF InOrder
    <3>4. CASE k = L /\ l \in DOMAIN old /\ new[L].notes[l] = old[l]
      <4>1. CASE i = L
        <5>1. j \in DOMAIN old /\ new[L].notes[j] = old[j]
          BY <4>1, <3>4, <2>5, <2>8, <1>0
        <5> QED
          BY <4>1, <5>1, <3>4, <2>1, <2>10 DEF InOrder, old
      <4>2. CASE i # L
        BY <4>2, <3>4, <2>1, <2>7, <2>10 DEF InOrder, old
      <4> QED
        BY <4>1, <4>2
    <3>5. CASE k = L /\ \E q \in DOMAIN notes : l = Len(old) + q /\ new[L].notes[l] = notes[q]
      <4>1. PICK q \in DOMAIN notes : l = Len(old) + q /\ new[L].notes[l] = notes[q]
        BY <3>5
      <4>2. CASE i # L
        <5>1. new[i].notes[j] \in Delivered(t)
          BY <4>2, <3>2, <2>7
        <5> QED
          BY <5>1, <4>1, <3>5, <2>10
      <4>3. CASE i = L /\ j \in DOMAIN old /\ new[L].notes[j] = old[j]
        <5>1. new[i].notes[j] \in Delivered(t)
          BY <4>3, <3>2, <2>1 DEF old
        <5> QED
          BY <5>1, <4>1, <3>5, <2>10
      <4>4. CASE i = L /\ \E p \in DOMAIN notes : j = Len(old) + p /\ new[L].notes[j] = notes[p]
        <5>1. PICK p \in DOMAIN notes : j = Len(old) + p /\ new[L].notes[j] = notes[p]
          BY <4>4
        <5>2. p < q
          BY <5>1, <4>1, <4>4, <3>5, <1>0, <2>5
        <5> QED
          BY <5>1, <5>2, <4>1, <4>4, <3>5, <2>10
      <4> QED
        BY <4>2, <4>3, <4>4, <2>8
    <3> QED
      BY <3>3, <3>4, <3>5, <2>8
  <2> QED
    BY <2>9, <2>10 DEF new
<1>3. CASE ~(t # <<>> /\ LastOf(t).role = "user")
  <2> DEFINE L == Len(t) + 1
  <2>1. new = Append(t, User(notes)) /\ User(notes).notes = notes
    BY <1>3 DEF AppendUserText, User
  <2>2. DOMAIN new = DOMAIN t \union {L} /\ new[L].notes = notes /\ L \notin DOMAIN t
        /\ \A i \in DOMAIN t : new[i] = t[i] /\ i < L
    BY <2>1, <1>0
  <2> HIDE DEF new
  <2>3. Delivered(new) = Delivered(t) \union {notes[i] : i \in DOMAIN notes}
    <3>1. ASSUME NEW n \in Delivered(new) PROVE n \in Delivered(t) \union {notes[i] : i \in DOMAIN notes}
      BY <2>2, DeliveredIs
    <3>2. ASSUME NEW n \in Delivered(t) PROVE n \in Delivered(new)
      BY <2>2, DeliveredIs
    <3>3. ASSUME NEW k \in DOMAIN notes PROVE notes[k] \in Delivered(new)
      BY <2>2, DeliveredIs
    <3> QED
      BY <3>1, <3>2, <3>3
  <2>4. ASSUME InOrder(t), \A i, j \in DOMAIN notes : i < j => notes[i] < notes[j],
               \A n \in Delivered(t), i \in DOMAIN notes : n < notes[i]
        PROVE  InOrder(new)
    <3> SUFFICES ASSUME NEW i \in DOMAIN new, NEW k \in DOMAIN new,
                        NEW j \in DOMAIN new[i].notes, NEW l \in DOMAIN new[k].notes,
                        i < k \/ (i = k /\ j < l)
                 PROVE  new[i].notes[j] < new[k].notes[l]
      BY DEF InOrder
    <3>1. CASE k \in DOMAIN t
      <4>1. i \in DOMAIN t
        BY <3>1, <2>2, <1>0
      <4> QED
        BY <3>1, <4>1, <2>2, <2>4 DEF InOrder
    <3>2. CASE k = L /\ i \in DOMAIN t
      <4>1. new[i].notes[j] \in Delivered(t)
        BY <3>2, <2>2, DeliveredIs
      <4> QED
        BY <4>1, <3>2, <2>2, <2>4
    <3>3. CASE k = L /\ i = L
      BY <3>3, <2>2, <2>4, <1>0
    <3> QED
      BY <3>1, <3>2, <3>3, <2>2
  <2> QED
    BY <2>3, <2>4 DEF new
<1> QED
  BY <1>2, <1>3

Silent(new, old) == Delivered(new) = Delivered(old) /\ (InOrder(old) => InOrder(new))

LEMMA SentInit == Init => SentInv
<1> SUFFICES ASSUME Init PROVE SentInv
  OBVIOUS
<1>1. Delivered(<<>>) = {} /\ InOrder(<<>>)
  BY DEF Delivered, InOrder
<1>2. messages = <<User(<<>>)>> /\ DOMAIN messages = {1} /\ messages[1].notes = <<>>
  BY DEF Init, User
<1>3. Delivered(messages) = {} /\ InOrder(messages)
  <2>1. \A j \in DOMAIN messages[1].notes : FALSE
    BY <1>2
  <2>2. \A n : n \notin Delivered(messages)
    BY <1>2, <2>1, DeliveredIs
  <2>3. InOrder(messages)
    BY <1>2, <2>1 DEF InOrder
  <2> QED
    BY <2>2, <2>3
<1>4. inbox = <<>> /\ DOMAIN inbox = {} /\ saved = <<>> /\ sent = 0 /\ lost = {} /\ 1..sent = {}
  BY DEF Init
<1>5. QueuedAfter(saved) /\ QueuedAfter(messages)
  BY <1>4 DEF QueuedAfter
<1> QED
  BY <1>1, <1>3, <1>4, <1>5 DEF SentInv, MessagesConserved

\* The transcript hears nothing, and may be saved.
LEMMA SentGoesOn ==
  ASSUME SentInv, Alive, Silent(messages', messages), saved' \in {saved, messages},
         UNCHANGED <<inbox, sent, lost>>
  PROVE  SentInv'
<1>1. /\ InOrder(messages) /\ QueuedAfter(messages)
      /\ Delivered(messages) \union {inbox[i] : i \in DOMAIN inbox} = (1..sent) \ lost
  BY DEF SentInv, MessagesConserved, Alive
<1>2. InOrder(messages') /\ Delivered(messages') = Delivered(messages) /\ QueuedAfter(messages)'
  BY <1>1 DEF Silent, QueuedAfter
<1>3. MessagesConserved'
  BY <1>1, <1>2 DEF MessagesConserved, Silent, QueuedAfter
<1>4. InOrder(saved') /\ Delivered(saved') \subseteq 1..sent'
  BY <1>1 DEF SentInv
<1>5. QueuedAfter(saved)'
  BY <1>1 DEF SentInv, QueuedAfter
<1> QED
  BY <1>3, <1>4, <1>5 DEF SentInv

LEMMA SentBreaks == SentInv /\ Breaks => SentInv'
<1> SUFFICES ASSUME SentInv, Breaks PROVE SentInv'
  OBVIOUS
<1>1. /\ InOrder(messages) /\ QueuedAfter(messages)
      /\ Delivered(messages) \union {inbox[i] : i \in DOMAIN inbox} = (1..sent) \ lost
  BY DEF SentInv, MessagesConserved, Breaks, Alive
<1>2. saved' \in {saved, messages} /\ inbox' \in {inbox, <<>>} /\ UNCHANGED <<sent, lost>>
  BY DEF Breaks
<1>3. InOrder(saved') /\ Delivered(saved') \subseteq 1..sent'
  BY <1>1, <1>2 DEF SentInv
<1>4. QueuedAfter(saved)' /\ \A i \in DOMAIN inbox' : inbox'[i] \in 1..sent'
  <2>1. CASE inbox' = inbox
    BY <1>1, <1>2, <2>1 DEF SentInv, QueuedAfter
  <2>2. CASE inbox' = <<>>
    <3>1. DOMAIN inbox' = {}
      BY <2>2
    <3> QED
      BY <3>1 DEF QueuedAfter
  <2> QED
    BY <1>2, <2>1, <2>2
<1>5. MessagesConserved'
  BY DEF Breaks, MessagesConserved
<1> QED
  BY <1>2, <1>3, <1>4, <1>5 DEF SentInv

LEMMA SentSend == TypeInv /\ SentInv /\ Send => SentInv'
<1> SUFFICES ASSUME TypeInv, SentInv, Send PROVE SentInv'
  OBVIOUS
<1>1. /\ InOrder(messages) /\ QueuedAfter(messages)
      /\ Delivered(messages) \union {inbox[i] : i \in DOMAIN inbox} = (1..sent) \ lost
      /\ lost \subseteq 1..sent /\ \A i \in DOMAIN inbox : inbox[i] \in 1..sent
      /\ Delivered(saved) \subseteq 1..sent /\ InOrder(saved) /\ QueuedAfter(saved)
  BY DEF SentInv, MessagesConserved, Send, Alive
<1>2. /\ sent \in Nat /\ sent' = sent + 1 /\ inbox \in Seq(Nat) /\ inbox' = Append(inbox, sent + 1)
      /\ UNCHANGED <<messages, saved, lost>>
  BY DEF Send, TypeInv, TypeOK, loopVars, traceVars
<1> DEFINE L == Len(inbox) + 1
<1>3. /\ DOMAIN inbox' = DOMAIN inbox \union {L} /\ inbox'[L] = sent + 1
      /\ \A i \in DOMAIN inbox : inbox'[i] = inbox[i] /\ i < L
  BY <1>2
<1> HIDE DEF L
<1>4. 1..sent' = (1..sent) \union {sent + 1} /\ sent + 1 \notin 1..sent
      /\ \A n \in 1..sent : n < sent + 1
  BY <1>2
<1>5. \A i, j \in DOMAIN inbox' : i < j => inbox'[i] < inbox'[j]
  <2> SUFFICES ASSUME NEW i \in DOMAIN inbox', NEW j \in DOMAIN inbox', i < j PROVE inbox'[i] < inbox'[j]
    OBVIOUS
  <2>1. i \in DOMAIN inbox
    <3>1. i \in DOMAIN inbox' /\ DOMAIN inbox \subseteq Nat /\ L \in Nat
      BY <1>2 DEF L
    <3> QED
      BY <1>3, <3>1
  <2>2. CASE j \in DOMAIN inbox
    BY <1>1, <1>3, <2>1, <2>2 DEF QueuedAfter
  <2>3. CASE j = L
    BY <1>1, <1>3, <1>4, <2>1, <2>3
  <2> QED
    BY <1>3, <2>2, <2>3
<1>6. ASSUME NEW t, Delivered(t) \subseteq 1..sent, QueuedAfter(t)
      PROVE  \A n \in Delivered(t), i \in DOMAIN inbox' : n < inbox'[i]
  BY <1>3, <1>4, <1>6 DEF QueuedAfter
<1>7. QueuedAfter(saved)'
  BY <1>1, <1>2, <1>5, <1>6 DEF QueuedAfter
<1>8. QueuedAfter(messages)'
  <2>1. Delivered(messages) \subseteq 1..sent
    BY <1>1
  <2> QED
    BY <1>1, <1>2, <1>5, <1>6, <2>1 DEF QueuedAfter
<1>9. Delivered(messages) \union {inbox'[i] : i \in DOMAIN inbox'} = (1..sent') \ lost
  <2>1. {inbox'[i] : i \in DOMAIN inbox'} = {inbox[i] : i \in DOMAIN inbox} \union {sent + 1}
    BY <1>3
  <2>2. sent + 1 \notin lost
    BY <1>1, <1>4
  <2> HIDE DEF L
  <2> QED
    BY <1>1, <1>4, <2>1, <2>2
<1>10. MessagesConserved'
  BY <1>1, <1>2, <1>8, <1>9 DEF MessagesConserved
<1>11. lost' \subseteq 1..sent' /\ \A i \in DOMAIN inbox' : inbox'[i] \in 1..sent'
  BY <1>1, <1>2, <1>3, <1>4
<1>12. Delivered(saved') \subseteq 1..sent' /\ InOrder(saved')
  BY <1>1, <1>2, <1>4
<1> QED
  BY <1>7, <1>10, <1>11, <1>12 DEF SentInv

LEMMA SentBeginPass == TypeInv /\ SentInv /\ BeginPass => SentInv'
<1> SUFFICES ASSUME TypeInv, SentInv, BeginPass PROVE SentInv'
  OBVIOUS
<1>1. /\ InOrder(messages) /\ QueuedAfter(messages)
      /\ Delivered(messages) \union {inbox[i] : i \in DOMAIN inbox} = (1..sent) \ lost
  BY DEF SentInv, MessagesConserved, BeginPass
<1>2. messages \in Transcript /\ inbox \in Seq(Nat)
  BY DEF TypeInv, TypeOK
<1>3. inbox' = <<>> /\ UNCHANGED <<sent, lost, saved>>
  BY DEF BeginPass, traceVars
<1> DEFINE heard == IF inbox = <<>> THEN messages ELSE AppendUserText(messages, inbox)
           noted == AppendUserText(heard, <<>>)
<1>4. heard \in Transcript /\ Delivered(heard) = (1..sent) \ lost /\ InOrder(heard)
  <2>1. CASE inbox = <<>>
    <3>1. {inbox[i] : i \in DOMAIN inbox} = {}
      BY <2>1
    <3> QED
      BY <1>1, <1>2, <2>1, <3>1
  <2>2. CASE inbox # <<>>
    <3>1. heard = AppendUserText(messages, inbox)
      BY <2>2
    <3>2. heard \in Transcript
      BY <1>2, <3>1, AppendUserTextType
    <3>3. Delivered(heard) = Delivered(messages) \union {inbox[i] : i \in DOMAIN inbox}
      BY <1>2, <3>1, HeardInOrder
    <3>4. InOrder(heard)
      BY <1>1, <1>2, <3>1, HeardInOrder DEF QueuedAfter
    <3> QED
      BY <1>1, <3>2, <3>3, <3>4
  <2> QED
    BY <2>1, <2>2
<1> HIDE DEF heard
<1>5. Delivered(noted) = (1..sent) \ lost /\ InOrder(noted)
  <2>1. <<>> \in Seq(Nat) /\ DOMAIN <<>> = {}
    OBVIOUS
  <2> DEFINE none == <<>>
  <2>2. none \in Seq(Nat) /\ DOMAIN none = {} /\ noted = AppendUserText(heard, none)
    OBVIOUS
  <2> HIDE DEF none, noted
  <2>3. Delivered(noted) = Delivered(heard) \union {none[i] : i \in DOMAIN none}
    BY <1>4, <2>2, HeardInOrder
  <2>4. InOrder(noted)
    BY <1>4, <2>2, HeardInOrder
  <2>5. {none[i] : i \in DOMAIN none} = {}
    BY <2>2
  <2> QED
    BY <1>4, <2>3, <2>4, <2>5
<1>6. messages' \in {heard, noted}
  BY DEF BeginPass, Steered, heard, noted
<1> HIDE DEF noted
<1>7. Delivered(messages') = (1..sent) \ lost /\ InOrder(messages')
  BY <1>4, <1>5, <1>6
<1>8. DOMAIN inbox' = {}
  BY <1>3
<1>9. QueuedAfter(messages)' /\ QueuedAfter(saved)' /\ {inbox'[i] : i \in DOMAIN inbox'} = {}
  BY <1>8 DEF QueuedAfter
<1>10. MessagesConserved'
  BY <1>3, <1>7, <1>9 DEF MessagesConserved
<1> QED
  BY <1>3, <1>8, <1>9, <1>10 DEF SentInv

\* A turn of the model, of results or of the loop's own says nothing sent.
LEMMA SilentTurns ==
  ASSUME NEW t \in Transcript
  PROVE  /\ \A uses \in Seq(Use) : /\ Append(t, Assistant(uses)) \in Transcript
                                   /\ Silent(Append(t, Assistant(uses)), t)
         /\ \A uses \in Seq(Use), why \in Status : /\ Append(t, UnrunResults(uses, why)) \in Transcript
                                                   /\ Silent(Append(t, UnrunResults(uses, why)), t)
         /\ \A answers \in Seq(Block) : /\ Append(t, Results(answers)) \in Transcript
                                        /\ Silent(Append(t, Results(answers)), t)
         /\ Append(t, User(<<>>)) \in Transcript /\ Silent(Append(t, User(<<>>)), t)
<1>1. ASSUME NEW m \in Message, m.notes = <<>> PROVE Append(t, m) \in Transcript /\ Silent(Append(t, m), t)
  BY <1>1, SilentTurn DEF Silent, Transcript
<1>2. \A uses \in Seq(Use) : Assistant(uses) \in Message /\ Assistant(uses).notes = <<>>
  BY MessageType DEF Assistant
<1>3. \A uses \in Seq(Use), why \in Status : /\ UnrunResults(uses, why) \in Message
                                             /\ UnrunResults(uses, why).notes = <<>>
  BY UnrunResultsType DEF UnrunResults, Results
<1>4. \A answers \in Seq(Block) : Results(answers) \in Message /\ Results(answers).notes = <<>>
  BY MessageType DEF Results
<1>5. User(<<>>) \in Message /\ User(<<>>).notes = <<>>
  BY MessageType, Empty DEF User
<1> QED
  BY <1>1, <1>2, <1>3, <1>4, <1>5

LEMMA SilentAgain ==
  ASSUME NEW a, NEW b, NEW c, Silent(b, a), Silent(c, b)
  PROVE  Silent(c, a)
BY DEF Silent

LEMMA SentModelAnswers ==
  ASSUME TypeInv, SentInv, NEW kinds \in Responses, ModelAnswers(kinds)
  PROVE  SentInv'
<1>1. messages \in Transcript
  BY DEF TypeInv, TypeOK
<1>2. pc = "model" /\ Alive /\ UNCHANGED <<inbox, sent, saved, lost>>
  BY ModelTurn DEF Alive
<1>3. PICK uses \in Seq(Use) :
        messages' \in {Append(messages, Assistant(uses)),
                       Append(Append(messages, Assistant(uses)), User(<<>>)),
                       Append(Append(messages, Assistant(uses)), UnrunResults(uses, "unrun"))}
  BY ModelTurn
<1> DEFINE answered == Append(messages, Assistant(uses))
<1>4. answered \in Transcript /\ Silent(answered, messages)
  BY <1>1, SilentTurns
<1>5. Silent(Append(answered, User(<<>>)), messages)
  BY <1>4, SilentTurns, SilentAgain
<1>6. Silent(Append(answered, UnrunResults(uses, "unrun")), messages)
  BY <1>4, SilentTurns, SilentAgain DEF Status
<1>7. Silent(messages', messages)
  BY <1>3, <1>4, <1>5, <1>6
<1> QED
  BY <1>2, <1>7, SentGoesOn

LEMMA SettledTurn ==
  ASSUME TypeInv, SettleBatch
  PROVE  \E answers \in Seq(Block) :
           /\ messages' = Append(messages, Results(answers))
           /\ answers = [i \in DOMAIN Batch |-> [id |-> Batch[i].id, status |-> BlockStatus(slots[i])]]
<1> DEFINE answers == [i \in DOMAIN Batch |-> [id |-> Batch[i].id, status |-> BlockStatus(slots[i])]]
<1>1. messages # <<>>
  BY DEF SettleBatch, TypeInv, Shape, Alive
<1>2. /\ Batch \in Seq(Use) /\ Len(Batch) \in Nat /\ DOMAIN Batch = 1..Len(Batch)
      /\ \A i \in DOMAIN Batch : Batch[i].id \in Nat
  BY <1>1, BatchType
<1>3. \A i \in DOMAIN Batch : BlockStatus(slots[i]) \in Status
  BY DEF SettleBatch, Settled, BlockStatus, Status
<1>4. \A i \in 1..Len(Batch) : answers[i] \in Block
  BY <1>2, <1>3 DEF Block
<1>5. answers \in Seq(Block)
  BY <1>2, <1>4
<1>6. messages' = Append(messages, Results(answers))
  BY DEF SettleBatch
<1> HIDE DEF answers
<1> QED
  BY <1>5, <1>6 DEF answers

LEMMA SentResume == TypeInv /\ SentInv /\ Resume => SentInv'
<1> SUFFICES ASSUME TypeInv, SentInv, Resume PROVE SentInv'
  OBVIOUS
<1>1. UNCHANGED <<inbox, sent, saved>>
  BY ResumeTurn
<1>2. PICK base \in Transcript, closed \in Transcript :
        /\ base # <<>> /\ closed # <<>> /\ closed = CloseInterrupted(base)
        /\ base = saved \/ (pc = "done" /\ base = messages)
        /\ lost' = (1..sent) \ (Delivered(base) \union {inbox[i] : i \in DOMAIN inbox})
        /\ messages' \in {closed, Append(closed, User(<<>>))}
  BY ResumeTurn
<1>3. Silent(closed, base)
  <2>1. LastOf(base).calls \in Seq(Use)
    BY <1>2, LastMessage
  <2>2. Silent(Append(base, UnrunResults(LastOf(base).calls, "interrupted")), base)
    BY <2>1, SilentTurns DEF Status
  <2> QED
    BY <1>2, <2>2 DEF CloseInterrupted, Silent
<1>4. Silent(messages', base)
  <2>1. Silent(Append(closed, User(<<>>)), closed)
    BY SilentTurns
  <2>2. Silent(Append(closed, User(<<>>)), base)
    BY <1>3, <2>1, SilentAgain
  <2> QED
    BY <1>2, <1>3, <2>2
<1>5. InOrder(base) /\ QueuedAfter(base) /\ Delivered(base) \subseteq 1..sent
  <2>1. CASE base = saved
    BY <2>1 DEF SentInv
  <2>2. CASE pc = "done" /\ base = messages
    BY <2>2 DEF SentInv, MessagesConserved
  <2> QED
    BY <1>2, <2>1, <2>2
<1>6. {inbox[i] : i \in DOMAIN inbox} \subseteq 1..sent
  BY DEF SentInv
<1>7. Delivered(base) \union {inbox[i] : i \in DOMAIN inbox} = (1..sent) \ lost'
  BY <1>2, <1>5, <1>6
<1>8. MessagesConserved'
  BY <1>1, <1>4, <1>5, <1>7 DEF MessagesConserved, Silent, QueuedAfter
<1>9. QueuedAfter(saved)'
  BY <1>1 DEF SentInv, QueuedAfter
<1>10. lost' \subseteq 1..sent
  BY <1>2
<1> QED
  BY <1>1, <1>8, <1>9, <1>10 DEF SentInv

LEMMA SentStep == TypeInv /\ SentInv /\ [Next]_vars => SentInv'
<1> SUFFICES ASSUME TypeInv, SentInv, [Next]_vars PROVE SentInv'
  OBVIOUS
<1>1. CASE Breaks
  BY <1>1, SentBreaks
<1>2. CASE Stays
  <2>1. CASE Send
    BY <2>1, SentSend
  <2>2. CASE UNCHANGED <<inbox, sent>>
    BY <1>2, <2>2 DEF Stays, SentInv, MessagesConserved, QueuedAfter
  <2> QED
    BY <1>2, <2>1, <2>2 DEF Stays
<1>3. CASE BeginPassCancelled \/ EndBatch \/ BatchBegins
  <2>1. /\ Alive /\ messages' = messages /\ saved' \in {saved, messages}
        /\ UNCHANGED <<inbox, sent, lost>>
    BY <1>3 DEF BeginPassCancelled, EndBatch, BatchBegins, Done, Checkpoint, Alive, controlVars, traceVars
  <2>2. Silent(messages', messages)
    BY <2>1 DEF Silent
  <2> QED
    BY <2>1, <2>2, SentGoesOn
<1>4. CASE BeginPass
  BY <1>4, SentBeginPass
<1>5. CASE \E kinds \in Responses : ModelAnswers(kinds)
  BY <1>5, SentModelAnswers
<1>6. CASE SettleBatch
  <2>1. PICK answers \in Seq(Block) : messages' = Append(messages, Results(answers))
    BY <1>6, SettledTurn
  <2>2. Silent(messages', messages)
    BY <2>1, SilentTurns DEF TypeInv, TypeOK
  <2>3. Alive /\ saved' = saved /\ UNCHANGED <<inbox, sent, lost>>
    BY <1>6 DEF SettleBatch, Alive, controlVars
  <2> QED
    BY <2>2, <2>3, SentGoesOn
<1>7. CASE Resume
  BY <1>7, SentResume
<1> QED
  BY <1>1, <1>2, <1>3, <1>4, <1>5, <1>6, <1>7, StepCases

\* Whatever is sent while the run works, and however it breaks off and is
\* resumed, a message is heard or queued, once and in the order sent, or it
\* went down with a run that broke off.
THEOREM MessagesConservedAlways == Spec => []MessagesConserved
<1>1. SentInv => MessagesConserved
  BY DEF SentInv
<1> QED
  BY <1>1, TypeInit, TypeStep, SentInit, SentStep, PTL DEF Spec

-----------------------------------------------------------------------------
(* The budget *)

LEMMA PassGrows ==
  ASSUME NEW t \in Transcript, NEW m \in Message
  PROVE  PassCount(Append(t, m)) = PassCount(t) + (IF m.role = "assistant" THEN 1 ELSE 0)
<1> DEFINE u == Append(t, m)
           old == {i \in DOMAIN t : t[i].role = "assistant"}
           new == {i \in DOMAIN u : u[i].role = "assistant"}
<1>1. DOMAIN u = DOMAIN t \union {Len(t) + 1} /\ u[Len(t) + 1] = m /\ Len(t) + 1 \notin DOMAIN t
      /\ \A i \in DOMAIN t : u[i] = t[i]
  BY DEF Transcript
<1>2. IsFiniteSet(old) /\ Cardinality(old) \in Nat
  <2>1. IsFiniteSet(DOMAIN t)
    BY FS_Interval DEF Transcript
  <2> QED
    BY <2>1, FS_Subset, FS_CardinalityType
<1> HIDE DEF u
<1>3. new = IF m.role = "assistant" THEN old \union {Len(t) + 1} ELSE old
  BY <1>1
<1>4. Len(t) + 1 \notin old
  BY <1>1
<1> HIDE DEF old, new
<1>5. Cardinality(new) = Cardinality(old) + (IF m.role = "assistant" THEN 1 ELSE 0)
  <2>1. CASE m.role = "assistant"
    <3>1. Cardinality(old \union {Len(t) + 1}) = Cardinality(old) + 1
      BY <1>2, <1>4, FS_AddElement
    <3> QED
      BY <1>3, <2>1, <3>1
  <2>2. CASE m.role # "assistant"
    BY <1>2, <1>3, <2>2
  <2> QED
    BY <2>1, <2>2
<1> QED
  BY <1>5 DEF PassCount, u, old, new

LEMMA PassHeard ==
  ASSUME NEW t \in Transcript, NEW notes \in Seq(Nat)
  PROVE  PassCount(AppendUserText(t, notes)) = PassCount(t)
<1> DEFINE u == AppendUserText(t, notes)
<1>1. CASE t # <<>> /\ LastOf(t).role = "user"
  <2>1. DOMAIN u = DOMAIN t
    BY <1>1 DEF AppendUserText
  <2>2. \A i \in DOMAIN t : u[i].role = t[i].role
    <3>1. \A i \in 1..Len(t) : u[i].role = t[i].role
      BY AppendUserTextType
    <3> QED
      BY <3>1 DEF Transcript
  <2> HIDE DEF u
  <2>3. PassCount(u) = PassCount(t)
    BY <2>1, <2>2 DEF PassCount
  <2> QED
    BY <2>3 DEF u
<1>2. CASE ~(t # <<>> /\ LastOf(t).role = "user")
  <2>1. u = Append(t, User(notes)) /\ User(notes) \in Message /\ User(notes).role = "user"
    BY <1>2, MessageType DEF AppendUserText, User
  <2>2. PassCount(t) \in Nat
    <3>1. <<>> \in Seq(Use)
      OBVIOUS
    <3> QED
      BY <3>1, Counts
  <2> QED
    BY <2>1, <2>2, PassGrows
<1> QED
  BY <1>1, <1>2

LEMMA PassTurns ==
  ASSUME NEW t \in Transcript
  PROVE  /\ PassCount(t) \in Nat
         /\ \A uses \in Seq(Use) : PassCount(Append(t, Assistant(uses))) = PassCount(t) + 1
         /\ \A answers \in Seq(Block) : PassCount(Append(t, Results(answers))) = PassCount(t)
         /\ PassCount(Append(t, User(<<>>))) = PassCount(t)
<1>1. PassCount(t) \in Nat
  <2>1. <<>> \in Seq(Use)
    OBVIOUS
  <2> QED
    BY <2>1, Counts
<1>2. \A uses \in Seq(Use) : Assistant(uses) \in Message /\ Assistant(uses).role = "assistant"
  BY MessageType DEF Assistant
<1>3. \A answers \in Seq(Block) : Results(answers) \in Message /\ Results(answers).role = "user"
  BY MessageType DEF Results
<1>4. User(<<>>) \in Message /\ User(<<>>).role = "user"
  BY MessageType, Empty DEF User
<1> QED
  BY <1>1, <1>2, <1>3, <1>4, PassGrows

LEMMA BudgetInit == Init => BudgetInv
<1> SUFFICES ASSUME Init PROVE BudgetInv
  OBVIOUS
<1>1. <<>> \in Transcript /\ PassCount(<<>>) = 0
  <2>1. {i \in DOMAIN <<>> : <<>>[i].role = "assistant"} = {}
    OBVIOUS
  <2> QED
    BY <2>1, Empty, FS_EmptySet DEF PassCount
<1>2. Append(<<>>, User(<<>>)) = <<User(<<>>)>>
  OBVIOUS
<1>3. PassCount(messages) = 0
  BY <1>1, <1>2, PassTurns DEF Init
<1>4. pc = "top" /\ passes = 0 /\ iter = 0 /\ winding = FALSE
  BY DEF Init
<1> QED
  BY <1>3, <1>4 DEF BudgetInv

\* The run is over, or broke off.
LEMMA BudgetEnds ==
  ASSUME pc' \in {"done", "error", "crashed"}, winding' = FALSE
  PROVE  BudgetInv'
BY DEF BudgetInv, Alive

\* Between two passes nothing is counted.
LEMMA BudgetRests ==
  ASSUME BudgetInv, Alive, Alive', UNCHANGED <<iter, passes, winding>>,
         PassCount(messages') = PassCount(messages), pc = "model" <=> pc' = "model",
         pc' # "top" => pc # "top"
  PROVE  BudgetInv'
BY DEF BudgetInv

LEMMA BudgetStep == TypeInv /\ BudgetInv /\ [Next]_vars => BudgetInv'
<1> SUFFICES ASSUME TypeInv, BudgetInv, [Next]_vars PROVE BudgetInv'
  OBVIOUS
<1>0. messages \in Transcript /\ passes \in Nat /\ iter \in Nat /\ MaxPasses \in Nat \ {0} /\ inbox \in Seq(Nat)
      /\ winding \in BOOLEAN
  BY BoundsAreNaturals DEF TypeInv, TypeOK
<1>1. CASE Breaks
  BY <1>1, BudgetEnds DEF Breaks, FrameGone
<1>2. CASE Stays
  BY <1>2 DEF Stays, BudgetInv, Alive
<1>3. CASE BeginPassCancelled
  BY <1>3, BudgetEnds DEF BeginPassCancelled, Done, FrameGone
<1>4. CASE EndBatch
  <2>1. CASE pc' = "done"
    BY <1>4, <2>1, BudgetEnds DEF EndBatch, Done, FrameGone
  <2>2. CASE pc' # "done"
    BY <1>4, <2>2, BudgetRests DEF EndBatch, Done, Alive
  <2> QED
    BY <2>1, <2>2
<1>5. CASE BatchBegins
  BY <1>5, BudgetRests DEF BatchBegins, Alive
<1>6. CASE SettleBatch
  <2>1. PassCount(messages') = PassCount(messages)
    BY <1>0, <1>6, SettledTurn, PassTurns
  <2> QED
    BY <1>6, <2>1, BudgetRests DEF SettleBatch, Alive
<1>7. CASE BeginPass
  <2>1. PICK clockOrCost \in BOOLEAN :
          /\ winding' = (winding \/ BudgetReached(clockOrCost))
          /\ messages' = Steered(BudgetReached(clockOrCost))
    BY <1>7 DEF BeginPass
  <2>2. PassCount(messages') = PassCount(messages)
    <3> DEFINE heard == IF inbox = <<>> THEN messages ELSE AppendUserText(messages, inbox)
    <3>1. heard \in Transcript /\ PassCount(heard) = PassCount(messages)
      BY <1>0, AppendUserTextType, PassHeard
    <3> HIDE DEF heard
    <3>2. PassCount(AppendUserText(heard, <<>>)) = PassCount(heard)
      BY <3>1, Empty, PassHeard
    <3>3. messages' \in {heard, AppendUserText(heard, <<>>)}
      BY <2>1 DEF Steered, heard
    <3> QED
      BY <3>1, <3>2, <3>3
  <2>3. pc = "top" /\ pc' = "model" /\ iter' = iter + 1 /\ passes' = passes
    BY <1>7 DEF BeginPass
  <2>4. ~winding' => passes + 1 < MaxPasses
    <3>1. ~winding' => ~BudgetReached(clockOrCost)
      BY <2>1, Zenon
    <3> QED
      BY <1>0, <3>1 DEF BudgetReached
  <2>5. iter' > 1 => passes + 1 <= MaxPasses
    BY <1>0, <2>3 DEF BudgetInv, Alive
  <2>6. passes = PassCount(messages)
    BY <2>3 DEF BudgetInv, Alive
  <2>7. iter' # 0
    BY <1>0, <2>3
  <2> QED
    BY <2>2, <2>3, <2>4, <2>5, <2>6, <2>7 DEF BudgetInv
<1>8. CASE \E kinds \in Responses : ModelAnswers(kinds)
  <2>1. PICK kinds \in Responses : ModelAnswers(kinds)
    BY <1>8
  <2>2. pc = "model"
    BY <2>1, ModelTurn
  <2>3. PICK uses \in Seq(Use) :
          LET answered == Append(messages, Assistant(uses)) IN
          \/ pc' = "done" /\ FrameGone
          \/ /\ pc' \in {"top", "saveCalls"} /\ ~winding /\ passes' = passes + 1
             /\ UNCHANGED <<iter, winding>>
             /\ messages' \in {answered, Append(answered, User(<<>>))}
    BY <2>1, ModelTurn
  <2>4. CASE pc' = "done"
    BY <2>2, <2>3, <2>4, BudgetEnds DEF FrameGone
  <2>5. CASE pc' # "done"
    <3> DEFINE answered == Append(messages, Assistant(uses))
    <3>1. answered \in Transcript /\ PassCount(answered) = PassCount(messages) + 1
      BY <1>0, SilentTurns, PassTurns
    <3>2. PassCount(Append(answered, User(<<>>))) = PassCount(answered)
      BY <3>1, PassTurns
    <3>3. PassCount(messages') = PassCount(messages) + 1
      BY <2>3, <2>5, <3>1, <3>2
    <3>4. passes = PassCount(messages) /\ iter > 0 /\ Alive
      BY <1>0, <2>2 DEF BudgetInv, Alive
    <3> QED
      BY <1>0, <2>2, <2>3, <2>5, <3>3, <3>4 DEF BudgetInv
  <2> QED
    BY <2>4, <2>5
<1>9. CASE Resume
  <2>1. \/ pc' = "done" /\ UNCHANGED winding
        \/ pc' = "top" /\ iter' = 0 /\ winding' = FALSE /\ passes' = PassCount(messages')
    BY <1>9, ResumeTurn
  <2>2. pc # "model"
    BY <1>9 DEF Resume
  <2>3. CASE pc' = "done"
    <3>1. winding = FALSE
      BY <1>0, <2>2 DEF BudgetInv
    <3> QED
      BY <2>1, <2>2, <2>3, <3>1, BudgetEnds
  <2>4. CASE pc' = "top" /\ iter' = 0 /\ winding' = FALSE /\ passes' = PassCount(messages')
    BY <2>4 DEF BudgetInv
  <2> QED
    BY <2>1, <2>3, <2>4
<1> QED
  BY <1>1, <1>2, <1>3, <1>4, <1>5, <1>6, <1>7, <1>8, <1>9, StepCases

\* Whatever the model answers, the passes of a run stay within its budget, the
\* first after a resume apart, and a run that winds down starts no tool.
THEOREM BudgetKeptAlways == Spec => []BudgetKept
<1>1. TypeInv /\ BudgetInv => BudgetKept
  <2> SUFFICES ASSUME TypeInv, BudgetInv PROVE BudgetKept
    OBVIOUS
  <2>1. PassesIn(messages) = PassCount(messages)
    BY DEF PassesIn, PassCount
  <2>2. iter \in Nat
    BY DEF TypeInv, TypeOK
  <2> QED
    BY <2>1, <2>2 DEF BudgetInv, BudgetKept
<1> QED
  BY <1>1, TypeInit, TypeStep, BudgetInit, BudgetStep, PTL DEF Spec

-----------------------------------------------------------------------------
(* Ordered toolsets *)

\* A call begins when the calls before it in its toolset went well.
LEMMA OrderedBegin ==
  ASSUME LedgerInv, pc = "batch", Ordered(Batch, slots, started), NEW i \in DOMAIN slots, BeginCall(i)
  PROVE  Ordered(Batch, slots', started')
<1>1. /\ slots' = [slots EXCEPT ![i] = "running"] /\ started' = started \union {Batch[i].id}
      /\ slots[i] = "waiting"
      /\ \A j \in DOMAIN Batch : j < i /\ SameToolset(i, j) => slots[j] \in Settled
  BY DEF BeginCall, Ready
<1>2. \A j \in DOMAIN Batch : Batch[j].id = Batch[i].id => j = i
  <2>1. messages # <<>> /\ DOMAIN slots = DOMAIN Batch
    BY DEF LedgerInv, TypeInv, Shape, Alive
  <2> QED
    BY <2>1 DEF LedgerInv, Fits, Batch, Alive
<1>3. DOMAIN slots' = DOMAIN slots /\ slots'[i] = "running" /\ DOMAIN slots = DOMAIN Batch
      /\ \A j \in DOMAIN slots : j # i => slots'[j] = slots[j]
  BY <1>1 DEF Ordered
<1>4. DOMAIN slots \subseteq Nat
  BY DEF LedgerInv, TypeInv, TypeOK
<1>5. ASSUME NEW j \in DOMAIN slots'
      PROVE  /\ Batch[j].id \in started' => slots'[j] \in Began
             /\ slots'[j] \in {"recorded", "retry"} => ~IsTool(Batch[j])
  BY <1>1, <1>2, <1>3 DEF Ordered, Began
<1>6. ASSUME NEW a \in DOMAIN slots', NEW b \in DOMAIN slots', a < b, SameSet(Batch, a, b)
      PROVE  /\ slots'[a] \in Failed => slots'[b] = "refused"
             /\ slots'[b] \in Began => slots'[a] \in {"ok", "end"}
  <2>1. /\ slots[a] \in Failed => slots[b] = "refused"
        /\ slots[b] \in Began => slots[a] \in {"ok", "end"}
    BY <1>3, <1>6 DEF Ordered
  <2>2. CASE b = i
    <3>1. a # i /\ slots'[a] = slots[a] /\ slots'[b] = "running"
      BY <1>3, <1>4, <1>6, <2>2
    <3>2. SameToolset(i, a) /\ IsTool(Batch[a])
      BY <1>6, <2>2, ToolsetNames DEF SameSet, SameToolset, IsTool
    <3>3. slots[a] \in Settled /\ slots[a] \notin {"recorded", "retry"} /\ slots[a] \notin Failed
      BY <1>1, <1>3, <1>6, <2>1, <2>2, <3>2 DEF Ordered
    <3> QED
      BY <3>1, <3>3 DEF Settled, Failed
  <2>3. CASE a = i
    BY <1>1, <1>3, <1>4, <1>6, <2>1, <2>3 DEF Failed
  <2>4. CASE a # i /\ b # i
    BY <1>3, <2>1, <2>4
  <2> QED
    BY <2>2, <2>3, <2>4
<1> QED
  BY <1>3, <1>5, <1>6 DEF Ordered

\* A call that failed fills the rest of its toolset, where nothing has begun.
LEMMA OrderedSettle ==
  ASSUME TypeInv, pc = "batch", Ordered(Batch, slots, started), NEW i \in DOMAIN slots,
         RefuseCall(i) \/ FinishCall(i)
  PROVE  Ordered(Batch, slots', started')
<1>1. PICK result \in {"ok", "end", "error", "refused"} :
        /\ slots' = SettledWith(i, result)
        /\ slots[i] = (IF result = "refused" THEN "waiting" ELSE "running")
  BY DEF RefuseCall, FinishCall, Ready
<1>2. started' = started
  BY DEF RefuseCall, FinishCall, traceVars
<1>3. DOMAIN slots \subseteq Nat /\ DOMAIN slots = DOMAIN Batch
  BY DEF TypeInv, TypeOK, Ordered
<1> DEFINE After(j) == j > i /\ SameSet(Batch, i, j)
<1>4. DOMAIN slots' = DOMAIN slots /\ slots'[i] = result
  BY <1>1 DEF SettledWith
<1>5. \A j \in DOMAIN slots : j # i =>
        slots'[j] = IF result \in Failed /\ After(j) THEN "refused" ELSE slots[j]
  BY <1>1, <1>3 DEF SettledWith, SameToolset, SameSet
<1>6. \A j \in DOMAIN slots : After(j) => slots[j] \notin Began
  BY <1>1 DEF Ordered
<1>7. \A a, b \in DOMAIN slots : /\ SameSet(Batch, a, b) /\ a < b /\ After(a) => After(b)
                                 /\ SameSet(Batch, a, b) /\ a < b /\ a = i => After(b)
                                 /\ a < b /\ b = i => ~After(a) /\ a # i
  BY <1>3 DEF SameSet
<1> HIDE DEF After
<1>8. ASSUME NEW j \in DOMAIN slots'
      PROVE  /\ Batch[j].id \in started' => slots'[j] \in Began
             /\ slots'[j] \in {"recorded", "retry"} => ~IsTool(Batch[j])
  <2>1. /\ j \in DOMAIN slots
        /\ Batch[j].id \in started => slots[j] \in Began
        /\ slots[j] \in {"recorded", "retry"} => ~IsTool(Batch[j])
    BY <1>4 DEF Ordered
  <2>2. CASE j = i
    BY <1>1, <1>2, <1>4, <2>1, <2>2 DEF Began
  <2>3. CASE j # i
    BY <1>2, <1>5, <1>6, <2>1, <2>3 DEF Began
  <2> QED
    BY <2>2, <2>3
<1>9. ASSUME NEW a \in DOMAIN slots', NEW b \in DOMAIN slots', a < b, SameSet(Batch, a, b)
      PROVE  /\ slots'[a] \in Failed => slots'[b] = "refused"
             /\ slots'[b] \in Began => slots'[a] \in {"ok", "end"}
  <2>1. /\ slots[a] \in Failed => slots[b] = "refused"
        /\ slots[b] \in Began => slots[a] \in {"ok", "end"}
    BY <1>4, <1>9 DEF Ordered
  <2>2. a \in DOMAIN slots /\ b \in DOMAIN slots
    BY <1>4
  <2>3. CASE a = i
    <3>1. After(b) /\ b # i
      BY <1>3, <1>7, <1>9, <2>2, <2>3
    <3> QED
      BY <1>4, <1>5, <1>6, <2>2, <2>3, <3>1 DEF Failed, Began
  <2>4. CASE b = i
    <3>1. a # i /\ slots'[a] = slots[a]
      BY <1>5, <1>7, <1>9, <2>2, <2>4
    <3> QED
      BY <1>1, <1>4, <2>1, <2>4, <3>1 DEF Began, Failed
  <2>5. CASE a # i /\ b # i
    <3>1. CASE result \in Failed /\ After(a)
      BY <1>5, <1>7, <1>9, <2>2, <2>5, <3>1 DEF Began
    <3>2. CASE ~(result \in Failed /\ After(a))
      <4>1. slots'[a] = slots[a] /\ slots'[b] \in {slots[b], "refused"}
        BY <1>5, <2>2, <2>5, <3>2
      <4> QED
        BY <2>1, <4>1 DEF Began
    <3> QED
      BY <3>1, <3>2
  <2> QED
    BY <2>3, <2>4, <2>5
<1> QED
  BY <1>3, <1>4, <1>8, <1>9 DEF Ordered

LEMMA OrderInit == Init => OrderInv
BY DEF Init, OrderInv

LEMMA OrderStep == LedgerInv /\ OrderInv /\ [Next]_vars => OrderInv'
<1> SUFFICES ASSUME LedgerInv, OrderInv, [Next]_vars, pc' \in {"batch", "saveResults"}
             PROVE  Ordered(Uses, slots, started)'
  BY DEF OrderInv
<1>1. TypeInv
  BY DEF LedgerInv
<1>2. CASE Stays
  <2>1. pc \in {"batch", "saveResults"} /\ Ordered(Uses, slots, started) /\ Uses' = Uses /\ pc' = pc
    BY <1>2 DEF Stays, OrderInv, Uses, Batch
  <2>2. CASE UNCHANGED <<slots, started>>
    BY <2>1, <2>2
  <2>3. CASE \E i \in DOMAIN slots : BeginCall(i) \/ RefuseCall(i) \/ FinishCall(i)
    <3>1. PICK i \in DOMAIN slots : BeginCall(i) \/ RefuseCall(i) \/ FinishCall(i)
      BY <2>3
    <3>2. pc = "batch" /\ Uses = Batch
      BY <3>1 DEF BeginCall, RefuseCall, FinishCall, Uses
    <3>3. Ordered(Batch, slots', started')
      BY <1>1, <2>1, <3>1, <3>2, OrderedBegin, OrderedSettle
    <3> QED
      BY <2>1, <3>2, <3>3
  <2> QED
    BY <1>2, <2>2, <2>3 DEF Stays
<1>3. CASE BatchBegins
  <2>1. /\ pc = "saveCalls" /\ Uses' = Batch /\ started' = started
        /\ slots' = [i \in DOMAIN Batch |->
                       IF IsTool(Batch[i]) THEN "waiting"
                       ELSE IF Batch[i].kind = "good" THEN "recorded" ELSE "retry"]
    BY <1>3 DEF BatchBegins, Uses, Batch
  <2>2. IdsOf(Batch) \intersect started = {}
    BY <2>1 DEF LedgerInv, BatchFits
  <2>3. \A i \in DOMAIN Batch : Batch[i].id \notin started
    BY <2>2 DEF IdsOf
  <2>4. Ordered(Batch, slots', started)
    BY <2>1, <2>3 DEF Ordered, Failed, Began
  <2> QED
    BY <2>1, <2>4
<1>4. CASE SettleBatch
  <2>1. pc = "batch" /\ pc' = "saveResults" /\ UNCHANGED <<slots, started>>
    BY <1>4 DEF SettleBatch
  <2>2. messages # <<>> /\ messages \in Transcript
    BY <1>1, <2>1 DEF TypeInv, TypeOK, Shape, Alive
  <2>3. PICK answers \in Seq(Block) : messages' = Append(messages, Results(answers))
    BY <1>1, <1>4, SettledTurn
  <2>4. Uses' = Batch
    BY <2>1, <2>2, <2>3 DEF Uses, Batch, LastOf, Transcript
  <2>5. Ordered(Batch, slots, started)
    BY <2>1 DEF OrderInv, Uses
  <2> QED
    BY <2>1, <2>4, <2>5
<1>5. CASE Breaks \/ BeginPassCancelled \/ BeginPass \/ EndBatch \/ Resume
  BY <1>5 DEF Breaks, BeginPassCancelled, BeginPass, EndBatch, Resume, Done
<1>6. CASE \E kinds \in Responses : ModelAnswers(kinds)
  BY <1>6 DEF ModelAnswers, Done
<1> QED
  BY <1>2, <1>3, <1>4, <1>5, <1>6, StepCases

\* However the calls of a batch interleave, one of an ordered toolset has run
\* only if the toolset's earlier calls all went well.
THEOREM OrderedStopsAlways == Spec => []OrderedStops
<1>1. LedgerInv /\ OrderInv => OrderedStops
  <2> SUFFICES ASSUME OrderInv, pc \in {"batch", "saveResults"} PROVE OrderedStops
    BY DEF OrderedStops
  <2>1. Ordered(Uses, slots, started)
    BY DEF OrderInv
  <2>2. \A i, j \in DOMAIN Uses : /\ i < j
                                  /\ Uses[i].kind \in Toolsets
                                  /\ Uses[j].kind = Uses[i].kind
                                  /\ Uses[j].id \in started
                                  => slots[i] \in {"ok", "end"}
    BY <2>1 DEF Ordered, SameSet
  <2> QED
    BY <2>2 DEF OrderedStops, Uses
<1> QED
  BY <1>1, LedgerInit, LedgerStep, OrderInit, OrderStep, PTL DEF Spec

-----------------------------------------------------------------------------
(* The requests to the model *)

LEMMA SameIds ==
  ASSUME NEW a, NEW b, DOMAIN a = DOMAIN b, \A j \in DOMAIN a : a[j].id = b[j].id
  PROVE  Ids(a) = Ids(b)
BY DEF Ids

\* What the invariant asks of one turn.
LEMMA TurnShape ==
  ASSUME NEW t \in Transcript, t # <<>>, WellPaired(t)
  PROVE  LET last == LastOf(t) IN
         /\ last \in Message /\ last.role \in {"user", "assistant"}
         /\ last.role = "user" => last.calls = <<>>
         /\ last.calls # <<>> => ~Recorded(last)
<1>1. Len(t) \in DOMAIN t /\ LastOf(t) = t[Len(t)] /\ LastOf(t) \in Message
  BY LastMessage DEF Transcript
<1>2. /\ LastOf(t).calls # <<>> => LastOf(t).role = "assistant"
      /\ LastOf(t).results # <<>> => LastOf(t).role = "user"
  BY <1>1 DEF WellPaired
<1>3. LastOf(t).role \in {"user", "assistant"}
  BY <1>1 DEF Message
<1>4. LastOf(t).results = <<>> => ~Recorded(LastOf(t))
  BY DEF Recorded
<1> QED
  BY <1>1, <1>2, <1>3, <1>4

\* A turn that answers the calls of the one before it.
LEMMA PairedAppend ==
  ASSUME NEW t \in Transcript, t # <<>>, WellPaired(t), ~Recorded(LastOf(t)), NEW m \in Message,
         m.calls # <<>> => m.role = "assistant", m.results # <<>> => m.role = "user",
         LastOf(t).calls # <<>> => Ids(LastOf(t).calls) = Ids(m.results)
  PROVE  /\ Append(t, m) \in Transcript /\ Append(t, m) # <<>>
         /\ WellPaired(Append(t, m)) /\ LastOf(Append(t, m)) = m
<1> DEFINE u == Append(t, m)
<1>1. /\ Len(t) \in Nat /\ DOMAIN t = 1..Len(t) /\ Len(t) \in DOMAIN t
      /\ u \in Transcript /\ u # <<>> /\ Len(u) = Len(t) + 1 /\ DOMAIN u = 1..(Len(t) + 1)
      /\ u[Len(t) + 1] = m /\ \A i \in DOMAIN t : u[i] = t[i]
  BY DEF Transcript
<1>2. LastOf(u) = m /\ LastOf(t) = t[Len(t)]
  BY <1>1 DEF LastOf
<1> HIDE DEF u
<1>3. ASSUME NEW i \in DOMAIN u
      PROVE  /\ u[i].calls # <<>> => u[i].role = "assistant"
             /\ u[i].results # <<>> => u[i].role = "user"
             /\ i < Len(u) => ~Recorded(u[i]) /\ (u[i].calls # <<>> => Ids(u[i].calls) = Ids(u[i + 1].results))
  <2>1. CASE i = Len(t) + 1
    BY <1>1, <2>1
  <2>2. CASE i = Len(t)
    BY <1>1, <1>2, <2>2 DEF WellPaired
  <2>3. CASE i \in DOMAIN t /\ i < Len(t)
    <3>1. i + 1 \in DOMAIN t /\ u[i + 1] = t[i + 1] /\ u[i] = t[i]
      BY <1>1, <2>3
    <3> QED
      BY <2>3, <3>1 DEF WellPaired
  <2>4. i = Len(t) + 1 \/ i = Len(t) \/ (i \in DOMAIN t /\ i < Len(t))
    BY <1>1
  <2> QED
    BY <2>1, <2>2, <2>3, <2>4
<1> QED
  BY <1>1, <1>2, <1>3 DEF WellPaired, u

\* Text goes in where no call is open.
LEMMA PairedHeard ==
  ASSUME NEW t \in Transcript, t # <<>>, WellPaired(t), ~Recorded(LastOf(t)), LastOf(t).calls = <<>>,
         NEW notes \in Seq(Nat)
  PROVE  LET new == AppendUserText(t, notes) IN
         /\ new \in Transcript /\ new # <<>> /\ WellPaired(new)
         /\ ~Recorded(LastOf(new)) /\ LastOf(new).calls = <<>> /\ LastOf(new).role = "user"
<1> DEFINE u == AppendUserText(t, notes)
<1>1. CASE LastOf(t).role = "user"
  <2>1. DOMAIN u = DOMAIN t /\ DOMAIN t = 1..Len(t) /\ Len(t) \in DOMAIN t
    BY <1>1, LastMessage DEF AppendUserText, Transcript
  <2>2. u \in Transcript /\ u # <<>>
        /\ \A i \in 1..Len(t) : u[i].calls = t[i].calls /\ u[i].results = t[i].results /\ u[i].role = t[i].role
    BY AppendUserTextType
  <2>3. Len(u) = Len(t)
    BY <2>1, <2>2 DEF Transcript
  <2> HIDE DEF u
  <2>4. \A i \in DOMAIN t : Recorded(u[i]) <=> Recorded(t[i])
    BY <2>1, <2>2 DEF Recorded
  <2>5. \A i \in DOMAIN t : i < Len(t) => i + 1 \in DOMAIN t
    BY <2>1
  <2>6. WellPaired(u)
    BY <2>1, <2>2, <2>3, <2>4, <2>5 DEF WellPaired
  <2>7. ~Recorded(LastOf(u)) /\ LastOf(u).calls = <<>> /\ LastOf(u).role = "user"
    BY <1>1, <2>1, <2>2, <2>3, <2>4 DEF LastOf
  <2> QED
    BY <2>2, <2>6, <2>7 DEF u
<1>2. CASE LastOf(t).role # "user"
  <2>1. u = Append(t, User(notes))
    BY <1>2 DEF AppendUserText
  <2>2. /\ User(notes) \in Message /\ User(notes).calls = <<>> /\ User(notes).results = <<>>
        /\ User(notes).role = "user"
    BY MessageType DEF User
  <2>3. ~Recorded(User(notes))
    BY <2>2 DEF Recorded
  <2> QED
    BY <2>1, <2>2, <2>3, PairedAppend
<1> QED
  BY <1>1, <1>2

\* The calls in flight answered without success.
LEMMA PairedUnrun ==
  ASSUME NEW t \in Transcript, t # <<>>, WellPaired(t), NEW why \in Status \ {"recorded"},
         LastOf(t).calls # <<>>
  PROVE  LET new == Append(t, UnrunResults(LastOf(t).calls, why)) IN
         /\ new \in Transcript /\ new # <<>> /\ WellPaired(new)
         /\ ~Recorded(LastOf(new)) /\ LastOf(new).calls = <<>> /\ LastOf(new).role = "user"
<1> DEFINE open == LastOf(t).calls
           m == UnrunResults(open, why)
<1>1. open \in Seq(Use) /\ ~Recorded(LastOf(t))
  BY LastMessage, TurnShape
<1>2. /\ m \in Message /\ m.calls = <<>> /\ m.role = "user"
      /\ m.results = [i \in DOMAIN open |-> [id |-> open[i].id, status |-> why]]
  BY <1>1, UnrunResultsType DEF UnrunResults, Results
<1> DEFINE answers == m.results
<1> HIDE DEF open, m
<1>4. DOMAIN answers = DOMAIN open
      /\ \A i \in DOMAIN open : answers[i].id = open[i].id /\ answers[i].status = why
  BY <1>2
<1> HIDE DEF answers
<1>3. Ids(open) = Ids(answers) /\ ~Recorded(m)
  BY <1>4, SameIds DEF Recorded, answers
<1> USE DEF answers
<1> QED
  BY <1>1, <1>2, <1>3, PairedAppend DEF open, m

LEMMA RequestInit == Init => RequestInv
<1> SUFFICES ASSUME Init PROVE RequestInv
  OBVIOUS
<1>1. saved = <<>> /\ pc = "top" /\ messages = <<User(<<>>)>>
  BY DEF Init
<1>2. WellPaired(saved)
  BY <1>1 DEF WellPaired
<1>3. Len(messages) = 1 /\ DOMAIN messages = {1} /\ messages[1] = User(<<>>) /\ LastOf(messages) = User(<<>>)
  BY <1>1 DEF LastOf
<1>4. User(<<>>).calls = <<>> /\ User(<<>>).results = <<>> /\ User(<<>>).role = "user"
  BY DEF User
<1>5. WellPaired(messages) /\ ~Recorded(LastOf(messages))
  BY <1>3, <1>4 DEF WellPaired, Recorded
<1> QED
  BY <1>1, <1>2, <1>3, <1>4, <1>5 DEF RequestInv

LEMMA RequestBeginPass == TypeInv /\ RequestInv /\ BeginPass => RequestInv'
<1> SUFFICES ASSUME TypeInv, RequestInv, BeginPass PROVE RequestInv'
  OBVIOUS
<1> DEFINE heard == IF inbox = <<>> THEN messages ELSE AppendUserText(messages, inbox)
           noted == AppendUserText(heard, <<>>)
<1>1. /\ messages \in Transcript /\ messages # <<>> /\ WellPaired(messages) /\ ~Recorded(LastOf(messages))
      /\ LastOf(messages).calls = <<>> /\ inbox \in Seq(Nat)
      /\ LastOf(messages).role = "user" \/ inbox # <<>>
  BY DEF BeginPass, TypeInv, TypeOK, Shape, Alive, RequestInv
<1>2. /\ heard \in Transcript /\ heard # <<>> /\ WellPaired(heard)
      /\ ~Recorded(LastOf(heard)) /\ LastOf(heard).calls = <<>> /\ LastOf(heard).role = "user"
  BY <1>1, PairedHeard
<1> HIDE DEF heard
<1>3. WellPaired(noted) /\ ~Recorded(LastOf(noted)) /\ LastOf(noted).role = "user"
  BY <1>2, Empty, PairedHeard
<1>4. messages' \in {heard, noted} /\ pc' = "model" /\ saved' = saved /\ structured' = structured
  BY DEF BeginPass, Steered, heard, noted
<1> HIDE DEF noted
<1> QED
  BY <1>2, <1>3, <1>4 DEF RequestInv

LEMMA RequestModelAnswers ==
  ASSUME TypeInv, RequestInv, NEW kinds \in Responses, ModelAnswers(kinds)
  PROVE  RequestInv'
<1>1. pc = "model" /\ messages # <<>> /\ messages \in Transcript /\ UNCHANGED <<structured, inbox, saved>>
  BY ModelTurn DEF TypeInv, TypeOK
<1>2. /\ WellPaired(messages) /\ ~Recorded(LastOf(messages)) /\ LastOf(messages).role = "user"
      /\ WellPaired(saved) /\ (saved # <<>> /\ Recorded(LastOf(saved)) => structured)
  BY <1>1 DEF RequestInv, Alive
<1>3. LastOf(messages).calls = <<>>
  BY <1>1, <1>2, TurnShape
<1>4. PICK uses \in Seq(Use) :
        /\ \A i \in DOMAIN uses : IsTool(uses[i]) \/ structured
        /\ LET answered == Append(messages, Assistant(uses)) IN
           \/ pc' = "saveCalls" /\ messages' = answered
           \/ pc' = "top" /\ uses = <<>> /\ messages' = answered /\ inbox # <<>>
           \/ pc' = "top" /\ uses = <<>> /\ messages' = Append(answered, User(<<>>))
           \/ pc' = "done" /\ uses = <<>> /\ messages' = answered
           \/ pc' = "done" /\ uses # <<>> /\ messages' = Append(answered, UnrunResults(uses, "unrun"))
  BY <1>1, ModelTurn
<1> DEFINE answered == Append(messages, Assistant(uses))
<1>5. /\ Assistant(uses) \in Message /\ Assistant(uses).calls = uses /\ Assistant(uses).results = <<>>
      /\ Assistant(uses).role = "assistant"
  BY MessageType DEF Assistant
<1>6. ~Recorded(Assistant(uses))
  BY <1>5 DEF Recorded
<1>7. /\ answered \in Transcript /\ answered # <<>> /\ WellPaired(answered)
      /\ LastOf(answered) = Assistant(uses)
  BY <1>1, <1>2, <1>3, <1>5, PairedAppend
<1> HIDE DEF answered
<1>8. CASE pc' = "saveCalls" /\ messages' = answered
  BY <1>1, <1>2, <1>4, <1>5, <1>6, <1>7, <1>8 DEF RequestInv, Batch
<1>9. CASE pc' \in {"top", "done"} /\ uses = <<>> /\ messages' = answered /\ (pc' = "top" => inbox # <<>>)
  BY <1>1, <1>2, <1>5, <1>6, <1>7, <1>9 DEF RequestInv
<1>10. CASE pc' = "top" /\ uses = <<>> /\ messages' = Append(answered, User(<<>>))
  <2>1. /\ User(<<>>) \in Message /\ User(<<>>).calls = <<>> /\ User(<<>>).results = <<>>
        /\ User(<<>>).role = "user"
    BY MessageType, Empty DEF User
  <2>2. ~Recorded(User(<<>>))
    BY <2>1 DEF Recorded
  <2>3. WellPaired(messages') /\ LastOf(messages') = User(<<>>)
    BY <1>5, <1>6, <1>7, <1>10, <2>1, PairedAppend
  <2> QED
    BY <1>1, <1>2, <1>10, <2>1, <2>2, <2>3 DEF RequestInv
<1>11. CASE pc' = "done" /\ uses # <<>> /\ messages' = Append(answered, UnrunResults(uses, "unrun"))
  <2>1. WellPaired(messages') /\ ~Recorded(LastOf(messages'))
    BY <1>5, <1>7, <1>11, PairedUnrun DEF Status
  <2> QED
    BY <1>1, <1>2, <1>11, <2>1 DEF RequestInv, Alive
<1>12. \/ pc' = "saveCalls" /\ messages' = answered
       \/ pc' = "top" /\ uses = <<>> /\ messages' = answered /\ inbox # <<>>
       \/ pc' = "top" /\ uses = <<>> /\ messages' = Append(answered, User(<<>>))
       \/ pc' = "done" /\ uses = <<>> /\ messages' = answered
       \/ pc' = "done" /\ uses # <<>> /\ messages' = Append(answered, UnrunResults(uses, "unrun"))
  BY <1>4 DEF answered
<1> QED
  BY <1>8, <1>9, <1>10, <1>11, <1>12

LEMMA RequestCalls ==
  ASSUME RequestInv, NEW i \in DOMAIN slots, BeginCall(i) \/ RefuseCall(i) \/ FinishCall(i)
  PROVE  RequestInv'
<1>1. /\ pc = "batch" /\ pc' = "batch" /\ UNCHANGED <<structured, messages, saved, inbox>>
  BY DEF BeginCall, RefuseCall, FinishCall, controlVars
<1>2. \A j \in DOMAIN slots' : j \in DOMAIN slots /\ (slots'[j] = "recorded" => slots[j] = "recorded")
  BY DEF BeginCall, RefuseCall, FinishCall, SettledWith
<1> QED
  BY <1>1, <1>2 DEF RequestInv, Alive, Batch

LEMMA RequestSettleBatch == TypeInv /\ RequestInv /\ SettleBatch => RequestInv'
<1> SUFFICES ASSUME TypeInv, RequestInv, SettleBatch PROVE RequestInv'
  OBVIOUS
<1>1. /\ pc = "batch" /\ pc' = "saveResults" /\ UNCHANGED <<structured, saved, slots>>
      /\ messages \in Transcript /\ messages # <<>> /\ DOMAIN slots = DOMAIN Batch
  BY DEF SettleBatch, TypeInv, TypeOK, Shape, Alive
<1>2. /\ WellPaired(messages) /\ ~Recorded(LastOf(messages))
      /\ \A i \in DOMAIN Batch : ~IsTool(Batch[i]) => structured
      /\ \A i \in DOMAIN slots : slots[i] = "recorded" => ~IsTool(Batch[i])
      /\ WellPaired(saved) /\ (saved # <<>> /\ Recorded(LastOf(saved)) => structured)
  BY <1>1 DEF RequestInv, Alive
<1>3. PICK answers \in Seq(Block) :
        /\ messages' = Append(messages, Results(answers))
        /\ answers = [i \in DOMAIN Batch |-> [id |-> Batch[i].id, status |-> BlockStatus(slots[i])]]
  BY SettledTurn
<1>4. /\ Results(answers) \in Message /\ Results(answers).calls = <<>> /\ Results(answers).results = answers
      /\ Results(answers).role = "user"
  BY MessageType DEF Results
<1>5. Ids(LastOf(messages).calls) = Ids(Results(answers).results)
  <2>1. DOMAIN Batch = DOMAIN answers /\ \A i \in DOMAIN Batch : Batch[i].id = answers[i].id
    BY <1>3
  <2>2. Ids(Batch) = Ids(answers)
    BY <2>1, SameIds
  <2> QED
    BY <1>4, <2>2 DEF Batch
<1>6. WellPaired(messages') /\ LastOf(messages') = Results(answers)
  BY <1>1, <1>2, <1>3, <1>4, <1>5, PairedAppend
<1>7. Recorded(LastOf(messages')) => \E i \in DOMAIN slots : slots[i] = "recorded"
  <2>1. \A i \in DOMAIN answers : answers[i].status = "recorded" => i \in DOMAIN slots /\ slots[i] = "recorded"
    BY <1>1, <1>3 DEF BlockStatus
  <2> QED
    BY <1>4, <1>6, <2>1 DEF Recorded
<1>8. Recorded(LastOf(messages')) => structured
  BY <1>1, <1>2, <1>7
<1> QED
  BY <1>1, <1>2, <1>4, <1>6, <1>7, <1>8 DEF RequestInv, Alive

LEMMA RequestEndBatch == TypeInv /\ RequestInv /\ EndBatch => RequestInv'
<1> SUFFICES ASSUME TypeInv, RequestInv, EndBatch PROVE RequestInv'
  OBVIOUS
<1>1. /\ pc = "saveResults" /\ saved' = messages /\ messages' = messages /\ structured' = structured
      /\ messages \in Transcript /\ messages # <<>>
  BY DEF EndBatch, Checkpoint, Done, TypeInv, TypeOK, Shape, Alive
<1>2. /\ WellPaired(messages) /\ (Recorded(LastOf(messages)) => structured)
      /\ LastOf(messages).role = "user" /\ LastOf(messages).calls = <<>>
      /\ Recorded(LastOf(messages)) => \E i \in DOMAIN slots : slots[i] = "recorded"
  BY <1>1, TurnShape DEF RequestInv, Alive
<1>3. pc' = "done" \/ (pc' = "top" /\ ~Recorded(LastOf(messages)))
  BY <1>2 DEF EndBatch, Done
<1> QED
  BY <1>1, <1>2, <1>3 DEF RequestInv, Alive

LEMMA RequestResume == TypeInv /\ RequestInv /\ Resume => RequestInv'
<1> SUFFICES ASSUME TypeInv, RequestInv, Resume PROVE RequestInv'
  OBVIOUS
<1>1. UNCHANGED <<structured, saved>>
  BY ResumeTurn
<1>2. PICK base \in Transcript, closed \in Transcript :
        /\ base # <<>> /\ closed # <<>> /\ closed = CloseInterrupted(base)
        /\ base = saved \/ (pc = "done" /\ base = messages)
        /\ \/ pc' = "done" /\ messages' = closed
           \/ /\ pc' = "top"
              /\ \/ Ended(closed) /\ messages' = Append(closed, User(<<>>))
                 \/ ~Ended(closed) /\ messages' = closed
              /\ structured => ~RecordedOutput(closed)
  BY ResumeTurn
<1>3. WellPaired(base) /\ (Recorded(LastOf(base)) => structured)
  BY <1>2 DEF RequestInv
<1>4. /\ WellPaired(closed) /\ (Recorded(LastOf(closed)) => structured) /\ LastOf(closed).calls = <<>>
  <2>1. CASE LastOf(base).calls = <<>>
    BY <1>2, <1>3, <2>1 DEF CloseInterrupted
  <2>2. CASE LastOf(base).calls # <<>>
    <3>1. closed = Append(base, UnrunResults(LastOf(base).calls, "interrupted"))
      BY <1>2, <2>2 DEF CloseInterrupted
    <3> QED
      BY <1>2, <1>3, <2>2, <3>1, PairedUnrun DEF Status
  <2> QED
    BY <2>1, <2>2
<1>5. RecordedOutput(closed) <=> Recorded(LastOf(closed))
  BY DEF RecordedOutput, Recorded
<1>6. WellPaired(saved) /\ (saved # <<>> /\ Recorded(LastOf(saved)) => structured)
  BY DEF RequestInv
<1>7. CASE pc' = "done" /\ messages' = closed
  BY <1>1, <1>4, <1>6, <1>7 DEF RequestInv, Alive
<1>8. CASE pc' = "top" /\ ~Ended(closed) /\ messages' = closed /\ (structured => ~RecordedOutput(closed))
  <2>1. LastOf(closed).role = "user"
    BY <1>2, <1>4, <1>8, TurnShape DEF Ended
  <2> QED
    BY <1>1, <1>4, <1>5, <1>6, <1>8, <2>1 DEF RequestInv
<1>9. CASE /\ pc' = "top" /\ Ended(closed) /\ messages' = Append(closed, User(<<>>))
           /\ structured => ~RecordedOutput(closed)
  <2>1. /\ User(<<>>) \in Message /\ User(<<>>).calls = <<>> /\ User(<<>>).results = <<>>
        /\ User(<<>>).role = "user"
    BY MessageType, Empty DEF User
  <2>2. ~Recorded(User(<<>>)) /\ ~Recorded(LastOf(closed))
    BY <1>4, <1>5, <1>9, <2>1 DEF Recorded
  <2>3. WellPaired(messages') /\ LastOf(messages') = User(<<>>)
    BY <1>2, <1>4, <1>9, <2>1, <2>2, PairedAppend
  <2> QED
    BY <1>1, <1>6, <1>9, <2>1, <2>2, <2>3 DEF RequestInv
<1> QED
  BY <1>2, <1>7, <1>8, <1>9

LEMMA RequestStep == TypeInv /\ RequestInv /\ [Next]_vars => RequestInv'
<1> SUFFICES ASSUME TypeInv, RequestInv, [Next]_vars PROVE RequestInv'
  OBVIOUS
<1>1. CASE Breaks
  <2>1. WellPaired(saved') /\ (saved' # <<>> /\ Recorded(LastOf(saved')) => structured')
    BY <1>1 DEF Breaks, RequestInv
  <2> QED
    BY <1>1, <2>1 DEF Breaks, RequestInv, Alive
<1>2. CASE Stays
  <2>1. CASE \E i \in DOMAIN slots : BeginCall(i) \/ RefuseCall(i) \/ FinishCall(i)
    BY <2>1, RequestCalls
  <2>2. CASE UNCHANGED slots
    <3>1. inbox # <<>> => inbox' # <<>>
      BY <1>2 DEF Stays, Send, TypeInv, TypeOK
    <3>2. UNCHANGED <<structured, pc, messages, saved, slots>>
      BY <1>2, <2>2 DEF Stays
    <3> QED
      BY <3>1, <3>2 DEF RequestInv, Alive, Batch
  <2> QED
    BY <1>2, <2>1, <2>2 DEF Stays
<1>3. CASE BeginPassCancelled
  <2>1. Alive /\ pc' = "done" /\ UNCHANGED <<structured, messages, saved>>
    BY <1>3 DEF BeginPassCancelled, Done, Alive
  <2> QED
    BY <2>1 DEF RequestInv, Alive
<1>4. CASE BatchBegins
  <2>1. /\ Alive /\ pc = "saveCalls" /\ pc' = "batch" /\ saved' = messages /\ UNCHANGED <<structured, messages>>
        /\ messages # <<>>
    BY <1>4 DEF BatchBegins, Alive, TypeInv, Shape
  <2>2. \A i \in DOMAIN slots' : slots'[i] = "recorded" => ~IsTool(Batch[i])
    BY <1>4 DEF BatchBegins
  <2> QED
    BY <2>1, <2>2 DEF RequestInv, Alive, Batch
<1>5. CASE BeginPass
  BY <1>5, RequestBeginPass
<1>6. CASE \E kinds \in Responses : ModelAnswers(kinds)
  BY <1>6, RequestModelAnswers
<1>7. CASE SettleBatch
  BY <1>7, RequestSettleBatch
<1>8. CASE EndBatch
  BY <1>8, RequestEndBatch
<1>9. CASE Resume
  BY <1>9, RequestResume
<1> QED
  BY <1>1, <1>2, <1>3, <1>4, <1>5, <1>6, <1>7, <1>8, <1>9, StepCases

\* No request is one a provider rejects: every call has its answer in the next
\* turn, the user speaks last, and a run whose result is recorded asks no more,
\* after a crash, a cancel and a resume too.
THEOREM RequestWellFormedAlways == Spec => []RequestWellFormed
<1>1. TypeInv /\ RequestInv => RequestWellFormed
  <2> SUFFICES ASSUME TypeInv, RequestInv, pc = "model" PROVE RequestWellFormed
    BY DEF RequestWellFormed
  <2>1. /\ messages \in Transcript /\ messages # <<>> /\ WellPaired(messages)
        /\ ~Recorded(LastOf(messages)) /\ LastOf(messages).role = "user"
    BY DEF TypeInv, TypeOK, Shape, Alive, RequestInv
  <2>2. LastOf(messages).calls = <<>> /\ LastOf(messages) = messages[Len(messages)]
        /\ DOMAIN messages = 1..Len(messages) /\ Len(messages) \in Nat
    BY <2>1, TurnShape DEF LastOf, Transcript
  <2>3. \A i \in DOMAIN messages : i < Len(messages) \/ messages[i] = LastOf(messages)
    BY <2>2
  <2>4. \A i \in DOMAIN messages : ~Recorded(messages[i])
    BY <2>1, <2>3 DEF WellPaired
  <2>5. \A answer \in Answers(messages) : answer.status # "recorded"
    BY <2>4 DEF Answers, Recorded
  <2>6. ASSUME NEW i \in DOMAIN messages, messages[i].calls # <<>>
        PROVE  i < Len(messages) /\ Ids(messages[i].calls) = Ids(messages[i + 1].results)
    BY <2>1, <2>2, <2>3, <2>6 DEF WellPaired
  <2> QED
    BY <2>1, <2>5, <2>6 DEF RequestWellFormed, Ids
<1> QED
  BY <1>1, TypeInit, TypeStep, RequestInit, RequestStep, PTL DEF Spec

-----------------------------------------------------------------------------
(* The steps' numbers *)

Tools(uses) == Cardinality(ToolsUpTo(uses, Len(uses)))

\* A turn's tool calls are added to the transcript's.
LEMMA ToolGrows ==
  ASSUME NEW t \in Transcript, NEW m \in Message, Len(m.calls) <= MaxCalls
  PROVE  ToolCount(Append(t, m)) = ToolCount(t) + Tools(m.calls)
<1> DEFINE u == Append(t, m)
           L == Len(t) + 1
           mine == ToolsUpTo(m.calls, Len(m.calls))
           added == {L} \X mine
<1>1. /\ Len(t) \in Nat /\ L \in Nat /\ Len(u) = L /\ u[L] = m /\ L \notin 1..Len(t)
      /\ 1..Len(u) = (1..Len(t)) \union {L}
      /\ \A i \in 1..Len(t) : u[i] = t[i]
  BY DEF Transcript
<1>2. m.calls \in Seq(Use) /\ Len(m.calls) \in Nat /\ DOMAIN m.calls = 1..Len(m.calls)
  BY DEF Message
<1>3. mine = {j \in DOMAIN m.calls : IsTool(m.calls[j])} /\ mine \subseteq 1..MaxCalls
  <2>1. MaxCalls \in Nat
    BY BoundsAreNaturals
  <2> QED
    BY <1>2, <2>1 DEF ToolsUpTo
<1>4. IsFiniteSet(mine) /\ IsFiniteSet(ToolUses(t)) /\ Cardinality(mine) \in Nat /\ ToolCount(t) \in Nat
  BY <1>2, Counts
<1> HIDE DEF u, L, mine
<1>5. ToolUses(u) = ToolUses(t) \union added
  <2>1. ASSUME NEW p \in ToolUses(u) PROVE p \in ToolUses(t) \union added
    <3>1. /\ p \in (1..Len(u)) \X (1..MaxCalls) /\ p[2] \in DOMAIN u[p[1]].calls
          /\ u[p[1]].calls[p[2]].kind \notin Output
      BY DEF ToolUses
    <3>2. CASE p[1] = L
      <4>1. p[2] \in mine
        BY <1>1, <1>3, <3>1, <3>2 DEF IsTool
      <4> QED
        BY <3>1, <3>2, <4>1
    <3>3. CASE p[1] # L
      <4>1. p[1] \in 1..Len(t) /\ u[p[1]] = t[p[1]]
        BY <1>1, <3>1, <3>3
      <4> QED
        BY <3>1, <4>1 DEF ToolUses
    <3> QED
      BY <3>2, <3>3
  <2>2. ASSUME NEW p \in ToolUses(t) PROVE p \in ToolUses(u)
    <3>1. /\ p \in (1..Len(t)) \X (1..MaxCalls) /\ p[2] \in DOMAIN t[p[1]].calls
          /\ t[p[1]].calls[p[2]].kind \notin Output
      BY DEF ToolUses
    <3>2. p \in (1..Len(u)) \X (1..MaxCalls) /\ u[p[1]] = t[p[1]]
      BY <1>1, <3>1
    <3> QED
      BY <3>1, <3>2 DEF ToolUses
  <2>3. ASSUME NEW p \in added PROVE p \in ToolUses(u)
    <3>1. p[1] = L /\ p[2] \in mine /\ p = <<p[1], p[2]>>
      OBVIOUS
    <3>2. p \in (1..Len(u)) \X (1..MaxCalls)
      BY <1>1, <1>3, <3>1
    <3> QED
      BY <1>1, <1>3, <3>1, <3>2 DEF ToolUses, IsTool
  <2> QED
    BY <2>1, <2>2, <2>3
<1>6. ToolUses(t) \intersect added = {}
  BY <1>1 DEF ToolUses
<1>7. IsFiniteSet(added) /\ Cardinality(added) = Cardinality(mine)
  <2>1. IsFiniteSet({L}) /\ Cardinality({L}) = 1
    BY FS_Singleton
  <2>2. IsFiniteSet(added) /\ Cardinality(added) = 1 * Cardinality(mine)
    BY <1>4, <2>1, FS_Product
  <2> QED
    BY <1>4, <2>2
<1> HIDE DEF added
<1>8. Cardinality(ToolUses(t) \union added) = Cardinality(ToolUses(t)) + Cardinality(added) - Cardinality({})
  BY <1>4, <1>6, <1>7, FS_Union
<1>9. Cardinality(ToolUses(u)) = Cardinality(ToolUses(t)) + Cardinality(mine)
  BY <1>4, <1>5, <1>7, <1>8, FS_EmptySet DEF ToolCount
<1> QED
  BY <1>9 DEF ToolCount, Tools, u, mine

LEMMA ToolHeard ==
  ASSUME NEW t \in Transcript, NEW notes \in Seq(Nat)
  PROVE  ToolCount(AppendUserText(t, notes)) = ToolCount(t)
<1> DEFINE u == AppendUserText(t, notes)
<1>1. CASE t # <<>> /\ LastOf(t).role = "user"
  <2>1. DOMAIN u = DOMAIN t
    BY <1>1 DEF AppendUserText
  <2>2. u \in Transcript /\ \A i \in 1..Len(t) : u[i].calls = t[i].calls
    BY AppendUserTextType
  <2>3. Len(u) = Len(t)
    BY <2>1, <2>2 DEF Transcript
  <2> HIDE DEF u
  <2>4. ToolUses(u) = ToolUses(t)
    BY <2>2, <2>3 DEF ToolUses
  <2> QED
    BY <2>4 DEF ToolCount, u
<1>2. CASE ~(t # <<>> /\ LastOf(t).role = "user")
  <2>1. u = Append(t, User(notes)) /\ User(notes) \in Message /\ User(notes).calls = <<>>
    BY <1>2, MessageType DEF AppendUserText, User
  <2>2. ToolsUpTo(<<>>, Len(<<>>)) = {}
    BY DEF ToolsUpTo
  <2>3. Tools(<<>>) = 0
    BY <2>2, FS_EmptySet DEF Tools
  <2>4. ToolCount(t) \in Nat /\ Len(<<>>) <= MaxCalls
    <3>1. <<>> \in Seq(Use) /\ Len(<<>>) = 0
      OBVIOUS
    <3>2. ToolCount(t) \in Nat
      BY <3>1, Counts
    <3> QED
      BY <3>1, <3>2, BoundsAreNaturals
  <2>5. ToolCount(u) = ToolCount(t) + Tools(<<>>)
    BY <2>1, <2>4, ToolGrows
  <2> QED
    BY <2>3, <2>4, <2>5
<1> QED
  BY <1>1, <1>2

LEMMA ToolTurns ==
  ASSUME NEW t \in Transcript
  PROVE  /\ ToolCount(t) \in Nat /\ Tools(<<>>) = 0
         /\ \A uses \in Seq(Use) : /\ Tools(uses) \in Nat
                                   /\ Len(uses) <= MaxCalls =>
                                        ToolCount(Append(t, Assistant(uses))) = ToolCount(t) + Tools(uses)
         /\ \A answers \in Seq(Block) : ToolCount(Append(t, Results(answers))) = ToolCount(t)
         /\ \A uses \in Seq(Use), why \in Status :
              ToolCount(Append(t, UnrunResults(uses, why))) = ToolCount(t)
         /\ ToolCount(Append(t, User(<<>>))) = ToolCount(t)
<1>1. ToolCount(t) \in Nat /\ Len(<<>>) <= MaxCalls
  <2>1. <<>> \in Seq(Use) /\ Len(<<>>) = 0
    OBVIOUS
  <2>2. ToolCount(t) \in Nat
    BY <2>1, Counts
  <2> QED
    BY <2>1, <2>2, BoundsAreNaturals
<1>2. Tools(<<>>) = 0
  <2>1. ToolsUpTo(<<>>, Len(<<>>)) = {}
    BY DEF ToolsUpTo
  <2> QED
    BY <2>1, FS_EmptySet DEF Tools
<1>3. \A uses \in Seq(Use) : Assistant(uses) \in Message /\ Assistant(uses).calls = uses
  BY MessageType DEF Assistant
<1>4. \A uses \in Seq(Use) : Tools(uses) \in Nat
  <2> TAKE uses \in Seq(Use)
  <2>1. Len(uses) \in Nat
    OBVIOUS
  <2> QED
    BY <2>1, Counts DEF Tools
<1>5. ASSUME NEW m \in Message, m.calls = <<>> PROVE ToolCount(Append(t, m)) = ToolCount(t)
  BY <1>1, <1>2, <1>5, ToolGrows
<1>6. \A answers \in Seq(Block) : Results(answers) \in Message /\ Results(answers).calls = <<>>
  BY MessageType DEF Results
<1>7. \A uses \in Seq(Use), why \in Status : /\ UnrunResults(uses, why) \in Message
                                             /\ UnrunResults(uses, why).calls = <<>>
  BY UnrunResultsType DEF UnrunResults, Results
<1>8. User(<<>>) \in Message /\ User(<<>>).calls = <<>>
  BY MessageType, Empty DEF User
<1>9. \A uses \in Seq(Use) : Len(uses) <= MaxCalls =>
        ToolCount(Append(t, Assistant(uses))) = ToolCount(t) + Tools(uses)
  BY <1>3, ToolGrows
<1> QED
  BY <1>1, <1>2, <1>4, <1>5, <1>6, <1>7, <1>8, <1>9

\* The tools of a batch are counted one by one.
LEMMA Ranks ==
  ASSUME NEW uses \in Seq(Use)
  PROVE  /\ \A i \in DOMAIN uses : /\ Cardinality(ToolsUpTo(uses, i)) \in Nat
                                   /\ Cardinality(ToolsUpTo(uses, i)) <= Tools(uses)
                                   /\ IsTool(uses[i]) => Cardinality(ToolsUpTo(uses, i)) > 0
         /\ \A i, j \in DOMAIN uses : /\ IsTool(uses[i]) /\ IsTool(uses[j])
                                      /\ Cardinality(ToolsUpTo(uses, i)) = Cardinality(ToolsUpTo(uses, j))
                                      => i = j
<1>1. DOMAIN uses = 1..Len(uses) /\ Len(uses) \in Nat
  OBVIOUS
<1>2. \A i \in Nat : IsFiniteSet(ToolsUpTo(uses, i)) /\ Cardinality(ToolsUpTo(uses, i)) \in Nat
  <2> TAKE i \in Nat
  <2> QED
    BY Empty, Counts
<1>3. ASSUME NEW i \in DOMAIN uses
      PROVE  /\ Cardinality(ToolsUpTo(uses, i)) \in Nat
             /\ Cardinality(ToolsUpTo(uses, i)) <= Tools(uses)
             /\ IsTool(uses[i]) => Cardinality(ToolsUpTo(uses, i)) > 0
  <2>1. ToolsUpTo(uses, i) \subseteq ToolsUpTo(uses, Len(uses))
    BY <1>1 DEF ToolsUpTo
  <2>2. Cardinality(ToolsUpTo(uses, i)) \in Nat /\ Cardinality(ToolsUpTo(uses, i)) <= Tools(uses)
    BY <1>1, <1>2, <2>1, FS_Subset DEF Tools
  <2>3. IsTool(uses[i]) => i \in ToolsUpTo(uses, i)
    BY <1>1 DEF ToolsUpTo
  <2>4. ToolsUpTo(uses, i) # {} => Cardinality(ToolsUpTo(uses, i)) # 0
    BY <1>1, <1>2, FS_EmptySet
  <2> QED
    BY <2>2, <2>3, <2>4
<1>4. ASSUME NEW i \in DOMAIN uses, NEW j \in DOMAIN uses, IsTool(uses[i]), IsTool(uses[j]), i < j
      PROVE  Cardinality(ToolsUpTo(uses, i)) # Cardinality(ToolsUpTo(uses, j))
  <2>1. ToolsUpTo(uses, i) \subseteq ToolsUpTo(uses, j)
    BY <1>1, <1>4 DEF ToolsUpTo
  <2>2. j \in ToolsUpTo(uses, j) /\ j \notin ToolsUpTo(uses, i)
    BY <1>1, <1>4 DEF ToolsUpTo
  <2>3. IsFiniteSet(ToolsUpTo(uses, j))
    BY <1>1, <1>2
  <2>4. Cardinality(ToolsUpTo(uses, i)) = Cardinality(ToolsUpTo(uses, j)) =>
          ToolsUpTo(uses, i) = ToolsUpTo(uses, j)
    BY <2>1, <2>3, FS_Subset
  <2> QED
    BY <2>2, <2>4
<1>5. \A i, j \in DOMAIN uses : i < j \/ j < i \/ i = j
  BY <1>1
<1> QED
  BY <1>3, <1>4, <1>5

LEMMA StepsInit == Init => StepsInv
<1> SUFFICES ASSUME Init PROVE StepsInv
  OBVIOUS
<1>1. pc = "top" /\ steps = {} /\ saved = <<>> /\ stepCounter = 0 /\ messages = Append(<<>>, User(<<>>))
  BY DEF Init
<1>2. ToolUses(<<>>) = {}
  BY DEF ToolUses
<1>3. ToolCount(<<>>) = 0
  BY <1>2, FS_EmptySet DEF ToolCount
<1>4. ToolCount(messages) = 0
  BY <1>1, <1>3, Empty, ToolTurns
<1> QED
  BY <1>1, <1>3, <1>4 DEF StepsInv

\* What was saved never holds more calls than the transcript it is a part of.
LEMMA SavedCounts ==
  ASSUME TypeInv, StepsInv, Alive \/ pc = "done"
  PROVE  /\ ToolCount(saved) \in Nat /\ ToolCount(messages) \in Nat /\ stepCounter \in Nat
         /\ ToolCount(saved) <= ToolCount(messages)
<1>1. /\ ToolCount(saved) \in Nat /\ ToolCount(messages) \in Nat /\ stepCounter \in Nat
      /\ messages \in Transcript
  BY ToolTurns DEF TypeInv, TypeOK
<1>2. CASE pc = "saveCalls"
  <2>1. Batch \in Seq(Use)
    BY <1>2, BatchType DEF TypeInv, Shape, Alive
  <2>2. Tools(Batch) \in Nat
    BY <1>1, <2>1, ToolTurns
  <2>3. ToolCount(messages) = stepCounter + Tools(Batch)
    BY <1>2 DEF StepsInv, Tools
  <2> QED
    BY <1>1, <1>2, <2>2, <2>3 DEF StepsInv, Alive
<1>3. CASE pc # "saveCalls"
  BY <1>1, <1>3 DEF StepsInv, Alive
<1> QED
  BY <1>1, <1>2, <1>3

\* The steps announced follow those before them, and are as many as the tools.
LEMMA StepsAnnounced ==
  ASSUME TypeInv, StepsInv, pc = "saveCalls", NEW reached \in SUBSET DOMAIN Batch,
         NEW all, all = steps \union BatchSteps(reached)
  PROVE  /\ \A s, t \in all : s.id = t.id => s = t
         /\ \A s \in all : s.id <= ToolCount(messages)
         /\ \A s \in all : s.status = "running" => s.call \in IdsOf(Batch)
<1>1. Batch \in Seq(Use)
  BY BatchType DEF TypeInv, Shape, Alive
<1>2. /\ ToolCount(saved) \in Nat /\ ToolCount(messages) \in Nat /\ stepCounter \in Nat
      /\ ToolCount(saved) <= ToolCount(messages) /\ ToolCount(saved) <= stepCounter
  BY SavedCounts DEF StepsInv, Alive
<1>3. ToolCount(messages) = stepCounter + Tools(Batch) /\ Tools(Batch) \in Nat
  BY <1>1, Empty, ToolTurns DEF StepsInv, Tools
<1> DEFINE Rank(i) == Cardinality(ToolsUpTo(Batch, i))
           new == {i \in reached : IsTool(Batch[i])}
<1>4. /\ \A i \in new : Rank(i) \in Nat /\ Rank(i) <= Tools(Batch) /\ Rank(i) > 0
      /\ \A i, j \in new : Rank(i) = Rank(j) => i = j
  BY <1>1, Ranks
<1>5. \A s \in BatchSteps(reached) : \E i \in new :
        s = [id |-> stepCounter + Rank(i), call |-> Batch[i].id, status |-> "running"]
  BY DEF BatchSteps
<1> HIDE DEF Rank
<1>6. \A s \in BatchSteps(reached) : \E i \in new :
        /\ s = [id |-> stepCounter + Rank(i), call |-> Batch[i].id, status |-> "running"]
        /\ s.id = stepCounter + Rank(i) /\ s.call = Batch[i].id
  BY <1>5
<1>7. \A s \in BatchSteps(reached) : s.call \in IdsOf(Batch)
  BY <1>6 DEF IdsOf
<1>8. new \subseteq DOMAIN Batch
  OBVIOUS
<1> HIDE DEF new
<1>9. \A s \in BatchSteps(reached) : s.id \in Nat /\ stepCounter < s.id /\ s.id <= ToolCount(messages)
  <2> TAKE s \in BatchSteps(reached)
  <2>1. PICK i \in new : s.id = stepCounter + Rank(i)
    BY <1>6
  <2> QED
    BY <1>2, <1>3, <1>4, <2>1
<1>10. \A s, t \in BatchSteps(reached) : s.id = t.id => s = t
  <2> SUFFICES ASSUME NEW s \in BatchSteps(reached), NEW t \in BatchSteps(reached), s.id = t.id PROVE s = t
    OBVIOUS
  <2>1. PICK i \in new : /\ s = [id |-> stepCounter + Rank(i), call |-> Batch[i].id, status |-> "running"]
                         /\ s.id = stepCounter + Rank(i)
    BY <1>6
  <2>2. PICK j \in new : /\ t = [id |-> stepCounter + Rank(j), call |-> Batch[j].id, status |-> "running"]
                         /\ t.id = stepCounter + Rank(j)
    BY <1>6
  <2>3. i = j
    BY <1>2, <1>4, <2>1, <2>2
  <2> QED
    BY <2>1, <2>2, <2>3
<1>11. \A s \in steps : s.id \in Nat /\ s.id <= ToolCount(saved)
  <2>1. \A s \in Step : s.id \in Nat
    BY DEF Step
  <2> QED
    BY <2>1 DEF StepsInv, TypeInv, TypeOK
<1>12. \A s, t \in all : s.id = t.id => s = t
  <2> SUFFICES ASSUME NEW s \in all, NEW t \in all, s.id = t.id PROVE s = t
    OBVIOUS
  <2>1. ~(s \in steps /\ t \in BatchSteps(reached)) /\ ~(t \in steps /\ s \in BatchSteps(reached))
    BY <1>2, <1>9, <1>11
  <2>2. \A a, b \in steps : a.id = b.id => a = b
    BY DEF StepsInv
  <2> QED
    BY <1>10, <2>1, <2>2
<1>13. \A s \in all : s.id <= ToolCount(messages)
  BY <1>2, <1>9, <1>11
<1>14. \A s \in all : s.status = "running" => s.call \in IdsOf(Batch)
  BY <1>7 DEF StepsInv
<1> QED
  BY <1>12, <1>13, <1>14

LEMMA StepsBreaks == TypeInv /\ StepsInv /\ Breaks => StepsInv'
<1> SUFFICES ASSUME TypeInv, StepsInv, Breaks PROVE StepsInv'
  OBVIOUS
<1>1. Alive /\ pc' \in {"error", "crashed"} /\ saved' \in {saved, messages}
  BY DEF Breaks
<1>2. /\ ToolCount(saved) \in Nat /\ ToolCount(messages) \in Nat
      /\ ToolCount(saved) <= ToolCount(messages)
  BY <1>1, SavedCounts
<1>3. (\A s, t \in steps : s.id = t.id => s = t)' /\ (\A s \in steps : s.id <= ToolCount(saved))'
  <2>1. CASE steps' = steps
    <3>1. \A s \in Step : s.id \in Nat
      BY DEF Step
    <3>2. \A s \in steps : s.id \in Nat /\ s.id <= ToolCount(saved)
      BY <3>1 DEF StepsInv, TypeInv, TypeOK
    <3>3. \A s \in steps : s.id <= ToolCount(saved')
      BY <1>1, <1>2, <3>2
    <3> QED
      BY <2>1, <3>3 DEF StepsInv
  <2>2. CASE pc = "saveCalls" /\ saved' = messages /\ steps' = steps \union BatchSteps(Handled)
    <3>1. Handled \in SUBSET DOMAIN Batch
      BY DEF Handled
    <3> QED
      BY <2>2, <3>1, StepsAnnounced
  <2> QED
    BY <2>1, <2>2 DEF Breaks
<1> QED
  BY <1>1, <1>3 DEF StepsInv, Alive

\* The steps stay, and the transcript's tools are counted.
LEMMA StepsStay ==
  ASSUME TypeInv, StepsInv, UNCHANGED <<steps, saved>>, Alive, pc # "batch",
         \/ /\ pc' \in {"top", "model", "saveResults"} /\ stepCounter' = stepCounter
            /\ ToolCount(messages') = stepCounter'
         \/ /\ pc' = "saveCalls" /\ stepCounter' = stepCounter
            /\ ToolCount(messages') = stepCounter + Tools(Batch')
         \/ pc' = "done" /\ ToolCount(messages') >= ToolCount(saved)
  PROVE  StepsInv'
<1>1. \A s \in steps : s.status # "running"
  BY DEF StepsInv, Alive
<1> QED
  BY <1>1 DEF StepsInv, Tools, Alive

LEMMA StepsBeginPass == TypeInv /\ StepsInv /\ BeginPass => StepsInv'
<1> SUFFICES ASSUME TypeInv, StepsInv, BeginPass PROVE StepsInv'
  OBVIOUS
<1> DEFINE heard == IF inbox = <<>> THEN messages ELSE AppendUserText(messages, inbox)
           noted == AppendUserText(heard, <<>>)
<1>1. messages \in Transcript /\ inbox \in Seq(Nat)
  BY DEF TypeInv, TypeOK
<1>2. heard \in Transcript /\ ToolCount(heard) = ToolCount(messages)
  BY <1>1, AppendUserTextType, ToolHeard
<1> HIDE DEF heard
<1>3. ToolCount(noted) = ToolCount(messages)
  BY <1>2, Empty, ToolHeard
<1>4. messages' \in {heard, noted}
  BY DEF BeginPass, Steered, heard, noted
<1> HIDE DEF noted
<1>5. ToolCount(messages') = stepCounter
  BY <1>2, <1>3, <1>4 DEF BeginPass, StepsInv
<1> QED
  BY <1>5, StepsStay DEF BeginPass, traceVars, Alive

LEMMA StepsModelAnswers ==
  ASSUME TypeInv, StepsInv, NEW kinds \in Responses, ModelAnswers(kinds)
  PROVE  StepsInv'
<1>1. pc = "model" /\ messages # <<>> /\ messages \in Transcript /\ UNCHANGED <<saved, steps>> /\ Alive
  BY ModelTurn DEF TypeInv, TypeOK, Alive
<1>2. PICK uses \in Seq(Use) :
        /\ Len(uses) <= MaxCalls
        /\ LET answered == Append(messages, Assistant(uses)) IN
           \/ pc' = "saveCalls" /\ messages' = answered /\ stepCounter' = stepCounter
           \/ /\ pc' = "top" /\ uses = <<>> /\ stepCounter' = stepCounter
              /\ messages' \in {answered, Append(answered, User(<<>>))}
           \/ pc' = "done" /\ messages' \in {answered, Append(answered, UnrunResults(uses, "unrun"))}
  BY <1>1, ModelTurn
<1> DEFINE answered == Append(messages, Assistant(uses))
<1>3. /\ ToolCount(saved) <= ToolCount(messages) /\ ToolCount(messages) = stepCounter
      /\ ToolCount(saved) \in Nat /\ ToolCount(messages) \in Nat
  BY <1>1, SavedCounts DEF StepsInv
<1>4. Assistant(uses) \in Message /\ Assistant(uses).calls = uses
  BY MessageType DEF Assistant
<1>5. /\ answered \in Transcript /\ LastOf(answered).calls = uses
      /\ ToolCount(answered) = ToolCount(messages) + Tools(uses) /\ Tools(uses) \in Nat
  BY <1>1, <1>2, <1>4, SilentTurns, AppendedIds, ToolTurns
<1>6. "unrun" \in Status
  BY DEF Status
<1> HIDE DEF answered
<1>7. /\ ToolCount(Append(answered, User(<<>>))) = ToolCount(answered)
      /\ ToolCount(Append(answered, UnrunResults(uses, "unrun"))) = ToolCount(answered)
  BY <1>5, <1>6, ToolTurns
<1>8. CASE pc' = "saveCalls" /\ messages' = answered /\ stepCounter' = stepCounter
  <2>1. Batch' = uses
    BY <1>5, <1>8 DEF Batch
  <2> QED
    BY <1>1, <1>3, <1>5, <1>8, <2>1, StepsStay
<1>9. CASE /\ pc' = "top" /\ uses = <<>> /\ stepCounter' = stepCounter
           /\ messages' \in {answered, Append(answered, User(<<>>))}
  <2>1. Tools(uses) = 0
    BY <1>1, <1>9, ToolTurns
  <2>2. ToolCount(messages') = ToolCount(answered)
    <3>1. CASE messages' = answered
      BY <3>1
    <3>2. CASE messages' = Append(answered, User(<<>>))
      BY <1>7, <3>2
    <3> QED
      BY <1>9, <3>1, <3>2
  <2>3. ToolCount(messages') = stepCounter'
    BY <1>3, <1>5, <1>9, <2>1, <2>2
  <2> QED
    BY <1>1, <1>9, <2>3, StepsStay
<1>10. CASE pc' = "done" /\ messages' \in {answered, Append(answered, UnrunResults(uses, "unrun"))}
  <2>1. ToolCount(messages') = ToolCount(answered)
    <3>1. CASE messages' = answered
      BY <3>1
    <3>2. CASE messages' = Append(answered, UnrunResults(uses, "unrun"))
      BY <1>7, <3>2
    <3> QED
      BY <1>10, <3>1, <3>2
  <2>2. ToolCount(messages') >= ToolCount(saved)
    BY <1>3, <1>5, <2>1
  <2> QED
    BY <1>1, <1>10, <2>2, StepsStay
<1> QED
  BY <1>2, <1>8, <1>9, <1>10 DEF answered

LEMMA StepsBatchBegins == TypeInv /\ StepsInv /\ BatchBegins => StepsInv'
<1> SUFFICES ASSUME TypeInv, StepsInv, BatchBegins PROVE StepsInv'
  OBVIOUS
<1>1. /\ pc = "saveCalls" /\ pc' = "batch" /\ saved' = messages /\ messages' = messages
      /\ stepCounter' = stepCounter + Tools(Batch) /\ steps' = steps \union BatchSteps(DOMAIN Batch)
  BY DEF BatchBegins, Tools
<1>2. /\ \A s, t \in steps' : s.id = t.id => s = t
      /\ \A s \in steps' : s.id <= ToolCount(messages)
      /\ \A s \in steps' : s.status = "running" => s.call \in IdsOf(Batch)
  BY <1>1, StepsAnnounced
<1>3. ToolCount(messages) = stepCounter' /\ Batch' = Batch
  BY <1>1 DEF StepsInv, Tools, Batch
<1>4. ToolCount(messages) \in Nat
  BY <1>1, SavedCounts DEF Alive
<1> QED
  BY <1>1, <1>2, <1>3, <1>4 DEF StepsInv, Alive

LEMMA StepsSettleBatch == TypeInv /\ StepsInv /\ SettleBatch => StepsInv'
<1> SUFFICES ASSUME TypeInv, StepsInv, SettleBatch PROVE StepsInv'
  OBVIOUS
<1> DEFINE Closed(s) ==
             IF \E i \in DOMAIN Batch : s.call = Batch[i].id
             THEN [s EXCEPT !.status = StepStatus(slots[CHOOSE i \in DOMAIN Batch : s.call = Batch[i].id])]
             ELSE s
<1>1. /\ pc = "batch" /\ pc' = "saveResults" /\ saved' = saved /\ stepCounter' = stepCounter /\ Alive
      /\ messages \in Transcript /\ steps \subseteq Step
  BY DEF SettleBatch, Alive, TypeInv, TypeOK
<1>2. steps' = {Closed(s) : s \in steps}
  BY DEF SettleBatch
<1>3. \A s \in steps : s.status = "running" => \E i \in DOMAIN Batch : s.call = Batch[i].id
  BY <1>1 DEF StepsInv, IdsOf
<1>4. \A s \in Step, x \in Settled : /\ [s EXCEPT !.status = StepStatus(x)].id = s.id
                                     /\ [s EXCEPT !.status = StepStatus(x)].status # "running"
  BY DEF Step, StepStatus
<1>5. ASSUME NEW s \in steps PROVE Closed(s).id = s.id /\ Closed(s).status # "running"
  <2>1. CASE \E i \in DOMAIN Batch : s.call = Batch[i].id
    <3> DEFINE mark == slots[CHOOSE i \in DOMAIN Batch : s.call = Batch[i].id]
    <3>1. mark \in Settled
      BY <2>1 DEF SettleBatch
    <3>2. Closed(s) = [s EXCEPT !.status = StepStatus(mark)]
      BY <2>1, Zenon
    <3> HIDE DEF mark
    <3>3. s \in Step
      BY <1>1
    <3>4. /\ [s EXCEPT !.status = StepStatus(mark)].id = s.id
          /\ [s EXCEPT !.status = StepStatus(mark)].status # "running"
      BY <1>4, <3>1, <3>3
    <3> HIDE DEF Closed
    <3> QED
      BY <3>2, <3>4, Zenon
  <2>2. CASE ~ \E i \in DOMAIN Batch : s.call = Batch[i].id
    <3>1. Closed(s) = s /\ s.status # "running"
      BY <1>3, <2>2, Zenon
    <3> HIDE DEF Closed
    <3> QED
      BY <3>1
  <2> QED
    BY <2>1, <2>2
<1> HIDE DEF Closed
<1>6. \A u \in steps' : \E s \in steps : u = Closed(s) /\ u.id = s.id /\ u.status # "running"
  BY <1>2, <1>5
<1>7. \A s, t \in steps' : s.id = t.id => s = t
  BY <1>6 DEF StepsInv
<1>8. \A s \in steps' : s.id <= ToolCount(saved)
  BY <1>6 DEF StepsInv
<1>9. ToolCount(messages') = stepCounter
  <2>1. PICK answers \in Seq(Block) : messages' = Append(messages, Results(answers))
    BY SettledTurn
  <2> QED
    BY <1>1, <2>1, ToolTurns DEF StepsInv
<1> QED
  BY <1>1, <1>6, <1>7, <1>8, <1>9 DEF StepsInv, Alive

LEMMA StepsResume == TypeInv /\ StepsInv /\ Resume => StepsInv'
<1> SUFFICES ASSUME TypeInv, StepsInv, Resume PROVE StepsInv'
  OBVIOUS
<1> DEFINE Closed(s) == IF s.status = "running" THEN [s EXCEPT !.status = "lost"] ELSE s
<1>1. saved' = saved /\ steps \subseteq Step /\ saved \in Transcript
  BY ResumeTurn DEF TypeInv, TypeOK
<1>2. steps' = {Closed(s) : s \in steps}
  BY ResumeTurn
<1>3. \A s \in Step : /\ [s EXCEPT !.status = "lost"].id = s.id
                      /\ [s EXCEPT !.status = "lost"].status # "running"
  BY DEF Step
<1>4. ASSUME NEW s \in steps PROVE Closed(s).id = s.id /\ Closed(s).status # "running"
  <2>1. CASE s.status = "running"
    <3>1. Closed(s) = [s EXCEPT !.status = "lost"] /\ s \in Step
      BY <1>1, <2>1, Zenon
    <3>2. /\ [s EXCEPT !.status = "lost"].id = s.id
          /\ [s EXCEPT !.status = "lost"].status # "running"
      BY <1>3, <3>1
    <3> HIDE DEF Closed
    <3> QED
      BY <3>1, <3>2, Zenon
  <2>2. CASE s.status # "running"
    <3>1. Closed(s) = s
      BY <2>2, Zenon
    <3> HIDE DEF Closed
    <3> QED
      BY <2>2, <3>1
  <2> QED
    BY <2>1, <2>2
<1> HIDE DEF Closed
<1>5. \A u \in steps' : \E s \in steps : u = Closed(s) /\ u.id = s.id /\ u.status # "running"
  BY <1>2, <1>4
<1>6. \A s, t \in steps' : s.id = t.id => s = t
  BY <1>5 DEF StepsInv
<1>7. \A s \in steps' : s.id <= ToolCount(saved)
  BY <1>5 DEF StepsInv
<1>8. PICK base \in Transcript, closed \in Transcript :
        /\ base # <<>> /\ closed # <<>> /\ closed = CloseInterrupted(base)
        /\ base = saved \/ (pc = "done" /\ base = messages)
        /\ \/ pc' = "done" /\ messages' = closed
           \/ /\ pc' = "top" /\ stepCounter' = ToolCount(messages')
              /\ messages' \in {closed, Append(closed, User(<<>>))}
  BY ResumeTurn
<1>9. /\ ToolCount(saved) \in Nat /\ ToolCount(base) \in Nat /\ ToolCount(saved) <= ToolCount(base)
  <2>1. ToolCount(saved) \in Nat /\ ToolCount(base) \in Nat
    BY <1>1, ToolTurns
  <2>2. CASE base = saved
    BY <2>1, <2>2
  <2>3. CASE pc = "done" /\ base = messages
    BY <2>1, <2>3 DEF StepsInv
  <2> QED
    BY <1>8, <2>1, <2>2, <2>3
<1>10. ToolCount(closed) = ToolCount(base)
  <2>1. LastOf(base).calls \in Seq(Use) /\ "interrupted" \in Status
    BY <1>8, LastMessage DEF Status
  <2>2. ToolCount(Append(base, UnrunResults(LastOf(base).calls, "interrupted"))) = ToolCount(base)
    BY <2>1, ToolTurns
  <2> QED
    BY <1>8, <2>2 DEF CloseInterrupted
<1>11. ToolCount(Append(closed, User(<<>>))) = ToolCount(closed)
  BY ToolTurns
<1>12. ToolCount(messages') = ToolCount(base)
  BY <1>8, <1>10, <1>11
<1>13. pc' \in {"done", "top"} /\ (pc' = "top" => stepCounter' = ToolCount(messages'))
  BY <1>8
<1> QED
  BY <1>1, <1>5, <1>6, <1>7, <1>9, <1>12, <1>13 DEF StepsInv, Alive

LEMMA StepsStep == TypeInv /\ StepsInv /\ [Next]_vars => StepsInv'
<1> SUFFICES ASSUME TypeInv, StepsInv, [Next]_vars PROVE StepsInv'
  OBVIOUS
<1>1. CASE Breaks
  BY <1>1, StepsBreaks
<1>2. CASE Stays
  BY <1>2 DEF Stays, StepsInv, Alive, Batch
<1>3. CASE BeginPassCancelled
  <2>1. /\ pc = "top" /\ Alive /\ pc' = "done" /\ UNCHANGED <<messages, saved, steps>>
    BY <1>3 DEF BeginPassCancelled, Done, Alive, traceVars
  <2>2. ToolCount(messages) >= ToolCount(saved)
    BY <2>1, SavedCounts
  <2> QED
    BY <2>1, <2>2, StepsStay
<1>4. CASE BeginPass
  BY <1>4, StepsBeginPass
<1>5. CASE \E kinds \in Responses : ModelAnswers(kinds)
  BY <1>5, StepsModelAnswers
<1>6. CASE BatchBegins
  BY <1>6, StepsBatchBegins
<1>7. CASE SettleBatch
  BY <1>7, StepsSettleBatch
<1>8. CASE EndBatch
  <2>1. /\ pc = "saveResults" /\ Alive /\ saved' = messages /\ messages' = messages /\ steps' = steps
        /\ pc' = "done" \/ (pc' = "top" /\ stepCounter' = stepCounter)
    BY <1>8 DEF EndBatch, Checkpoint, Done, Alive, traceVars
  <2>2. /\ ToolCount(saved) \in Nat /\ ToolCount(messages) \in Nat
        /\ ToolCount(saved) <= ToolCount(messages) /\ ToolCount(messages) = stepCounter
    BY <2>1, SavedCounts DEF StepsInv
  <2>3. \A s \in steps : s.id <= ToolCount(messages)
    <3>1. \A s \in Step : s.id \in Nat
      BY DEF Step
    <3>2. \A s \in steps : s.id \in Nat /\ s.id <= ToolCount(saved)
      BY <3>1 DEF StepsInv, TypeInv, TypeOK
    <3> QED
      BY <2>2, <3>2
  <2> QED
    BY <2>1, <2>2, <2>3 DEF StepsInv, Alive
<1>9. CASE Resume
  BY <1>9, StepsResume
<1> QED
  BY <1>1, <1>2, <1>3, <1>4, <1>5, <1>6, <1>7, <1>8, <1>9, StepCases

\* No step id is given out twice, in a resumed run neither, and a run that ends
\* by itself leaves no step open.
THEOREM StepsAccountedAlways == Spec => []StepsAccounted
<1>1. StepsInv => StepsAccounted
  BY DEF StepsInv, StepsAccounted
<1> QED
  BY <1>1, TypeInit, TypeStep, StepsInit, StepsStep, PTL DEF Spec
=============================================================================
