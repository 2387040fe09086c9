-------------------------- MODULE NetworkWireProofs --------------------------
(***************************************************************************)
(* Network: for every set of steps, every max_steps and any number of      *)
(* calls, effects are accounted for and no checkpoint holds what a step    *)
(* that never completed wrote.  The inductive invariant adds what a        *)
(* running drive knows of the checkpoint it went on from.                  *)
(*                                                                         *)
(* Wire: for any number of events, whatever their line ends, the chunks    *)
(* they arrive in and the point where the connection breaks, the browser   *)
(* gets them in order and one terminal event, last.  The inductive         *)
(* invariant says where each message lies in the text, and which part of   *)
(* the next one the parser has taken.  Read by the standard, the text that *)
(* arrived completes exactly the messages that were delivered.             *)
(***************************************************************************)
EXTENDS Network, Wire, Sums, SequenceTheorems

CheckpointType ==
  [status : {"missing", "running", "interrupted", "done"},
   state : SUBSET Nat, steps : Seq(Steps), inFlight : Steps \union {None}]

\* A drive past the router has an iteration left and a step to run.
MidStep ==
  pc \in {"step", "working", "save"} => loops < MaxSteps /\ decision \in Steps

TypeInv == TypeOK /\ MidStep

\* Up to BeginStep the drive has run what the checkpoint records and nothing
\* else began; then its step's effect is the last that did.  Only a running
\* thread has a step in flight.
DriveEffects ==
  /\ pc \in {"route", "step"} => begun = stepsRun /\ thread.steps = stepsRun
  /\ pc = "working" => begun = Append(stepsRun, decision) /\ thread.steps = stepsRun
  /\ pc = "save" => begun = stepsRun /\ stepsRun = Append(thread.steps, decision)
  /\ pc \in {"step", "working", "save"} => thread.inFlight = decision
  /\ thread.status # "running" => thread.inFlight = None

\* The working state has the updates of the steps run and, while a step works,
\* what it does in place.
DriveUpdates ==
  state \subseteq 0..(Len(stepsRun) + IF pc = "working" THEN 1 ELSE 0)

-----------------------------------------------------------------------------
(* Types *)

LEMMA CheckpointTyped ==
  ASSUME TypeOK, NEW status \in {"running", "interrupted", "done"},
         NEW inFlight \in Steps \union {None}
  PROVE  Checkpoint(status, inFlight) \in CheckpointType
BY DEF TypeOK, Checkpoint, CheckpointType

LEMMA ReturnTyped == Return => TypeInv' <=> thread' \in CheckpointType
                                            /\ begun' \in Seq(Steps) /\ drives' \in 0..MaxDrives
BY NetworkBounds DEF Return, TypeInv, TypeOK, MidStep, CheckpointType

LEMMA TypeInvStep == TypeInv /\ [Next]_vars => TypeInv'
<1> SUFFICES ASSUME TypeInv, [Next]_vars PROVE TypeInv'
  OBVIOUS
<1> USE NetworkBounds
<1>0. TypeOK /\ thread \in CheckpointType
  BY DEF TypeInv, TypeOK, CheckpointType
<1>1. CASE Run
  BY <1>1, <1>0 DEF Run, Drive, TypeInv, TypeOK, MidStep
<1>2. CASE Resume
  BY <1>2, <1>0 DEF Resume, Drive, RunBefore, TypeInv, TypeOK, MidStep
<1>3. CASE Recover
  BY <1>3, <1>0 DEF Recover, Drive, RunBefore, TypeInv, TypeOK, MidStep
<1>4. CASE RouteOut
  <2>1. PICK status \in {"done", "interrupted"} : Save(Checkpoint(status, None), Return)
    BY <1>4 DEF RouteOut
  <2>2. thread' \in CheckpointType /\ Return
    BY <2>1, <1>0, CheckpointTyped DEF Save
  <2> QED
    BY <2>2, <1>4, <1>0, ReturnTyped DEF RouteOut, TypeOK
<1>5. ASSUME NEW step \in Steps, RouteTo(step) PROVE TypeInv'
  <2>1. Checkpoint("running", step) \in CheckpointType
    BY <1>0, CheckpointTyped
  <2>2. CASE thread' \in {thread, Checkpoint("running", step)} /\ Return
    BY <2>1, <2>2, <1>5, <1>0, ReturnTyped DEF RouteTo, TypeOK
  <2>3. CASE thread' = Checkpoint("running", step) /\ pc' = "step" /\ decision' = step
             /\ UNCHANGED <<state, stepsRun, loops>>
    BY <2>1, <2>3, <1>5 DEF RouteTo, IterationsLeft, TypeInv, TypeOK, MidStep, CheckpointType
  <2> QED
    BY <2>2, <2>3, <1>5 DEF RouteTo, Save
<1>6. CASE BeginStep
  BY <1>6 DEF BeginStep, Snapshot, TypeInv, TypeOK, MidStep
<1>7. CASE FinishStep
  <2>1. decision \in Steps /\ loops < MaxSteps /\ stepsRun \in Seq(Steps)
    BY <1>7 DEF FinishStep, TypeInv, TypeOK, MidStep
  <2>2. stepsRun' \in Seq(Steps)
    BY <2>1, <1>7 DEF FinishStep
  <2>3. state' \in SUBSET Nat
    BY <1>7, <1>0, <2>1 DEF FinishStep, TypeOK
  <2> QED
    BY <2>1, <2>2, <2>3, <1>7 DEF FinishStep, TypeInv, TypeOK, MidStep
<1>8. CASE SaveStep
  <2>1. Checkpoint("running", None) \in CheckpointType
    BY <1>0, CheckpointTyped
  <2>2. CASE thread' \in {thread, Checkpoint("running", None)} /\ Return
    BY <2>1, <2>2, <1>8, <1>0, ReturnTyped DEF SaveStep, TypeOK
  <2>3. CASE thread' = Checkpoint("running", None) /\ pc' = "route" /\ decision' = None
             /\ loops' = loops + 1 /\ UNCHANGED <<state, stepsRun>>
    BY <2>1, <2>3, <1>8 DEF SaveStep, TypeInv, TypeOK, MidStep, CheckpointType
  <2> QED
    BY <2>2, <2>3, <1>8 DEF SaveStep, Save
<1>9. CASE RaiseOutOfSteps \/ BreakOff
  BY <1>9, <1>0, ReturnTyped DEF RaiseOutOfSteps, BreakOff, TypeOK
<1>10. CASE UNCHANGED vars
  BY <1>10 DEF vars, TypeInv, TypeOK, MidStep
<1> QED
  BY <1>1, <1>2, <1>3, <1>4, <1>5, <1>6, <1>7, <1>8, <1>9, <1>10 DEF Next, Work

\* The variables keep their types through every run, resumption and recovery.
THEOREM NetworkTypeCorrect == Spec => []TypeOK
<1>1. Init => TypeInv
  BY NetworkBounds DEF Init, TypeInv, TypeOK, MidStep, Missing
<1>2. TypeInv => TypeOK
  BY DEF TypeInv
<1> QED
  BY <1>1, <1>2, TypeInvStep, PTL DEF Spec

-----------------------------------------------------------------------------
(* Effects *)

EffectsInv == EffectsAccounted /\ DriveEffects

LEMMA EffectsInvStep == TypeInv /\ EffectsInv /\ [Next]_vars => EffectsInv'
<1> SUFFICES ASSUME TypeInv, EffectsInv, [Next]_vars PROVE EffectsInv'
  OBVIOUS
<1> USE NoneIsNoStep
<1>1. CASE Run
  BY <1>1 DEF Run, Drive, Missing, EffectsInv, EffectsAccounted, DriveEffects
<1>2. CASE Resume
  BY <1>2 DEF Resume, Drive, RunBefore, EffectsInv, EffectsAccounted, DriveEffects
<1>3. CASE Recover
  BY <1>3 DEF Recover, MayRecover, Drive, RunBefore, EffectsInv, EffectsAccounted, DriveEffects
<1>4. CASE RouteOut
  BY <1>4 DEF RouteOut, Save, Checkpoint, Return, EffectsInv, EffectsAccounted, DriveEffects
<1>5. ASSUME NEW step \in Steps, RouteTo(step) PROVE EffectsInv'
  BY <1>5 DEF RouteTo, Save, Checkpoint, Return, EffectsInv, EffectsAccounted, DriveEffects
<1>6. CASE BeginStep
  BY <1>6 DEF BeginStep, Snapshot, EffectsInv, EffectsAccounted, DriveEffects, TypeInv, TypeOK, MidStep
<1>7. CASE FinishStep
  BY <1>7 DEF FinishStep, EffectsInv, EffectsAccounted, DriveEffects, TypeInv, MidStep
<1>8. CASE SaveStep
  BY <1>8 DEF SaveStep, Save, Checkpoint, Return, EffectsInv, EffectsAccounted, DriveEffects
<1>9. CASE RaiseOutOfSteps \/ BreakOff
  BY <1>9 DEF RaiseOutOfSteps, BreakOff, Return, EffectsInv, EffectsAccounted, DriveEffects
<1>10. CASE UNCHANGED vars
  BY <1>10 DEF vars, EffectsInv, EffectsAccounted, DriveEffects
<1> QED
  BY <1>1, <1>2, <1>3, <1>4, <1>5, <1>6, <1>7, <1>8, <1>9, <1>10 DEF Next, Work

\* The effects that began are those of the recorded steps, in order, and at most
\* of the one the marker names: no step runs twice unless the caller allows it.
THEOREM EffectsAccountedAlways == Spec => []EffectsAccounted
<1>1. Init => TypeInv /\ EffectsInv
  BY NetworkBounds DEF Init, TypeInv, TypeOK, MidStep, Missing,
    EffectsInv, EffectsAccounted, DriveEffects
<1>2. EffectsInv => EffectsAccounted
  BY DEF EffectsInv
<1> QED
  BY <1>1, <1>2, TypeInvStep, EffectsInvStep, PTL DEF Spec

-----------------------------------------------------------------------------
(* Updates *)

UpdatesInv == NoPartialUpdates /\ DriveUpdates

LEMMA UpdatesInvStep ==
  TypeInv /\ UpdatesInv /\ [Next]_vars => UpdatesInv'
<1> SUFFICES ASSUME TypeInv, UpdatesInv, [Next]_vars PROVE UpdatesInv'
  OBVIOUS
<1>0. thread.steps \in Seq(Steps) /\ stepsRun \in Seq(Steps)
  BY DEF TypeInv, TypeOK
<1>1. Len(stepsRun) \in Nat /\ Len(thread.steps) \in Nat /\ Len(<<>>) = 0
  BY <1>0
<1>2. Return => DriveUpdates'
  BY DEF Return, DriveUpdates
<1>3. CASE Run
  BY <1>3, <1>1 DEF Run, Drive, Missing, UpdatesInv, NoPartialUpdates, DriveUpdates
<1>4. CASE Resume \/ Recover
  BY <1>4, <1>1 DEF Resume, Recover, Drive, RunBefore, UpdatesInv, NoPartialUpdates, DriveUpdates
<1>5. ASSUME pc \in {"route", "save"}, NEW status, NEW inFlight
      PROVE  Checkpoint(status, inFlight).state \subseteq 0..Len(Checkpoint(status, inFlight).steps)
  BY <1>1, <1>5 DEF Checkpoint, UpdatesInv, DriveUpdates
<1>6. CASE RouteOut
  BY <1>6, <1>2, <1>5 DEF RouteOut, Save, UpdatesInv, NoPartialUpdates
<1>7. ASSUME NEW step \in Steps, RouteTo(step) PROVE UpdatesInv'
  BY <1>7, <1>2, <1>5 DEF RouteTo, Save, UpdatesInv, NoPartialUpdates, DriveUpdates
<1>8. CASE BeginStep
  BY <1>8, <1>1 DEF BeginStep, Snapshot, UpdatesInv, NoPartialUpdates, DriveUpdates,
    TypeInv, TypeOK
<1>9. CASE FinishStep
  <2>1. Len(stepsRun') = Len(stepsRun) + 1
    BY <1>9, <1>0 DEF FinishStep, TypeInv, MidStep
  <2> QED
    BY <2>1, <1>9, <1>1 DEF FinishStep, UpdatesInv, NoPartialUpdates, DriveUpdates
<1>10. CASE SaveStep
  BY <1>10, <1>2, <1>5 DEF SaveStep, Save, UpdatesInv, NoPartialUpdates, DriveUpdates
<1>11. CASE RaiseOutOfSteps \/ BreakOff
  BY <1>11, <1>2 DEF RaiseOutOfSteps, BreakOff, UpdatesInv, NoPartialUpdates
<1>12. CASE UNCHANGED vars
  BY <1>12 DEF vars, UpdatesInv, NoPartialUpdates, DriveUpdates
<1> QED
  BY <1>3, <1>4, <1>6, <1>7, <1>8, <1>9, <1>10, <1>11, <1>12 DEF Next, Work

\* No checkpoint holds what a step that never completed wrote to the live state.
THEOREM NoPartialUpdatesAlways == Spec => []NoPartialUpdates
<1>1. Init => TypeInv /\ UpdatesInv
  BY NetworkBounds DEF Init, TypeInv, TypeOK, MidStep, Missing,
    UpdatesInv, NoPartialUpdates, DriveUpdates
<1>2. UpdatesInv => NoPartialUpdates
  BY DEF UpdatesInv
<1> QED
  BY <1>1, <1>2, TypeInvStep, UpdatesInvStep, PTL DEF Spec

-----------------------------------------------------------------------------
(* Forward *)

\* The drive has all the updates of the checkpoint it will replace.
DriveForward == pc # "idle" => thread.state \subseteq state

ForwardStep ==
  /\ thread.state \subseteq thread'.state
  /\ Len(thread.steps) <= Len(thread'.steps)
  /\ SubSeq(thread'.steps, 1, Len(thread.steps)) = thread.steps

LEMMA ForwardStepHolds ==
  TypeInv /\ EffectsInv /\ DriveForward /\ [Next]_vars => DriveForward' /\ ForwardStep
<1> SUFFICES ASSUME TypeInv, EffectsInv, DriveForward, [Next]_vars
             PROVE  DriveForward' /\ ForwardStep
  OBVIOUS
<1>0. /\ thread.steps \in Seq(Steps) /\ stepsRun \in Seq(Steps)
      /\ Len(thread.steps) \in Nat
  BY DEF TypeInv, TypeOK
<1>1. ASSUME thread'.state = thread.state, thread'.steps = thread.steps PROVE ForwardStep
  BY <1>0, <1>1 DEF ForwardStep
<1>2. ASSUME pc \in {"route", "save"}, NEW status, NEW inFlight,
             thread' \in {thread, Checkpoint(status, inFlight)}
      PROVE  ForwardStep
  <2>1. CASE pc = "route" /\ thread' = Checkpoint(status, inFlight)
    BY <2>1, <1>0 DEF Checkpoint, EffectsInv, DriveEffects, DriveForward, ForwardStep
  <2>2. CASE pc = "save" /\ thread' = Checkpoint(status, inFlight)
    <3>1. decision \in Steps /\ stepsRun = Append(thread.steps, decision)
      BY <2>2 DEF TypeInv, MidStep, EffectsInv, DriveEffects
    <3>2. /\ Len(stepsRun) = Len(thread.steps) + 1
          /\ SubSeq(stepsRun, 1, Len(thread.steps)) = thread.steps
      BY <3>1, <1>0
    <3> QED
      BY <3>2, <2>2, <1>0 DEF Checkpoint, DriveForward, ForwardStep
  <2> QED
    BY <1>1, <1>2, <2>1, <2>2
<1>3. Return => DriveForward'
  BY DEF Return, DriveForward
<1>4. CASE Run \/ Resume \/ Recover
  BY <1>4, <1>1 DEF Run, Resume, Recover, Drive, Missing, DriveForward
<1>5. CASE RouteOut
  BY <1>5, <1>2, <1>3 DEF RouteOut, Save
<1>6. ASSUME NEW step \in Steps, RouteTo(step) PROVE DriveForward' /\ ForwardStep
  BY <1>6, <1>2, <1>3 DEF RouteTo, Save, Checkpoint, DriveForward
<1>7. CASE BeginStep
  <2>1. thread'.state = thread.state /\ thread'.steps = thread.steps
    BY <1>7 DEF BeginStep, Snapshot, TypeInv, TypeOK
  <2> QED
    BY <2>1, <1>1, <1>7 DEF BeginStep, DriveForward
<1>8. CASE FinishStep
  BY <1>8, <1>1 DEF FinishStep, DriveForward
<1>9. CASE SaveStep
  BY <1>9, <1>2, <1>3 DEF SaveStep, Save, Checkpoint, DriveForward
<1>10. CASE RaiseOutOfSteps \/ BreakOff
  BY <1>10, <1>1, <1>3 DEF RaiseOutOfSteps, BreakOff
<1>11. CASE UNCHANGED vars
  BY <1>11, <1>1 DEF vars, DriveForward
<1> QED
  BY <1>4, <1>5, <1>6, <1>7, <1>8, <1>9, <1>10, <1>11 DEF Next, Work

\* No save drops a step or an update that an earlier checkpoint has.
THEOREM ThreadMovesForwardAlways == Spec => ThreadMovesForward
<1>1. Init => TypeInv /\ EffectsInv /\ DriveForward
  BY NetworkBounds DEF Init, TypeInv, TypeOK, MidStep, Missing,
    EffectsInv, EffectsAccounted, DriveEffects, DriveForward
<1>2. TypeInv /\ EffectsInv /\ DriveForward /\ [Next]_vars => [ForwardStep]_vars
  BY ForwardStepHolds
<1>3. ThreadMovesForward <=> [][ForwardStep]_vars
  BY DEF ThreadMovesForward, ForwardStep
<1> QED
  BY <1>1, <1>2, <1>3, TypeInvStep, EffectsInvStep, ForwardStepHolds, PTL DEF Spec

-----------------------------------------------------------------------------
(* Wire: what is written, and where the parser stands in it *)

EventField == <<"event">>
DataField == <<"data">>

\* The positions i to j of t are one line end.
LineEndAt(t, i, j) ==
  \/ j = i /\ t[i] = LF
  \/ j = i /\ t[i] = CR /\ (i < Len(t) => t[i + 1] # LF)
  \/ j = i + 1 /\ t[i] = CR /\ t[j] = LF

\* Event e's message is in t after position a and up to position b; its first
\* line ends at position i and its second at j.
MessageAt(t, e, a, i, j, b) ==
  /\ 0 <= a /\ a + 2 <= i /\ i + 4 <= j /\ j + 1 <= b /\ b <= Len(t)
  /\ t[a + 1] = EventField /\ LineEndAt(t, a + 2, i)
  /\ t[i + 1] = DataField /\ t[i + 2] = Half(e, 1) /\ t[i + 3] = Half(e, 2)
  /\ LineEndAt(t, i + 4, j) /\ LineEndAt(t, j + 1, b)

\* The text is the messages of the events that were sent.
Layout(s, u, v) ==
  /\ s \in [1..(Len(sent) + 1) -> Nat] /\ u \in [1..Len(sent) -> Nat] /\ v \in [1..Len(sent) -> Nat]
  /\ s[1] = 0 /\ s[Len(sent) + 1] = Len(text)
  /\ \A e \in 1..Len(sent) : MessageAt(text, e, s[e], u[e], v[e], s[e + 1])

\* The parser has taken the text up to Past, and the LF of a CRLF that was
\* split is none of what it has still to take.
Past == arrived - Len(buffer)
Target == IF pendingLF /\ Past < Len(text) /\ text[Past + 1] = LF THEN Past + 1 ELSE Past

Pieces == {CR, LF, EventField, DataField} \union {Half(e, n) : e \in Nat, n \in {1, 2}}

BufferInv ==
  /\ arrived \in Nat /\ arrived <= Len(text) /\ buffer \in Seq(Pieces) /\ Len(buffer) <= arrived
  /\ \A i \in 1..Len(buffer) : buffer[i] = text[Past + i]
  /\ pendingLF \in BOOLEAN

\* Where the parser stands in the message of the next event: before it, past its
\* first line, or past its data.
Standing(s, u, v) ==
  LET k == Len(delivered) + 1 IN
  /\ BufferInv
  /\ k \in 1..(Len(sent) + 1)
  /\ \/ dataLines = <<>> /\ Target = s[k]
     \/ k <= Len(sent) /\ dataLines = <<>> /\ Target = u[k]
     \/ k <= Len(sent) /\ dataLines = << <<Half(k, 1), Half(k, 2)>> >> /\ Target = v[k]

-----------------------------------------------------------------------------
(* Pieces, and what a message is made of *)

LEMMA PiecesDiffer ==
  /\ CR # LF /\ EventField \notin {CR, LF, DataField} /\ DataField \notin {CR, LF}
  /\ \A e, n : Half(e, n) \notin {CR, LF, EventField, DataField}
  /\ \A e, f, n, m : Half(e, n) = Half(f, m) => e = f /\ n = m
<1>1. CR[1] = "CR" /\ LF[1] = "LF" /\ EventField[1] = "event" /\ DataField[1] = "data"
  BY DEF CR, LF, EventField, DataField
<1>2. \A e, n : Half(e, n)[1] = "json" /\ Half(e, n)[2] = e /\ Half(e, n)[3] = n
  BY DEF Half
<1>3. \A e, f, n, m : Half(e, n) = Half(f, m) => e = f /\ n = m
  BY <1>2
<1>4. \A e, n : Half(e, n) \notin {CR, LF, EventField, DataField}
  BY <1>1, <1>2
<1> QED
  BY <1>1, <1>3, <1>4

\* What FlattenSeq says of one sequence.
LEMMA FlattenOne == \A x : FlattenSeq(<<x>>) = x
<1> TAKE x
<1> DEFINE Flattens(f) == f = [i \in 1..1 |-> IF i = 1 THEN <<x>>[i] ELSE f[i - 1] \o <<x>>[i]]
           g == [i \in 1..1 |-> x]
<1>1. Flattens(g)
  OBVIOUS
<1>2. \A f : Flattens(f) => f[1] = x
  OBVIOUS
<1>3. (CHOOSE f : Flattens(f))[1] = x
  BY <1>1, <1>2
<1>4. Len(<<x>>) = 1
  OBVIOUS
<1> QED
  BY <1>3, <1>4 DEF FlattenSeq

\* The event of one data line.
LEMMA EventOfLine ==
  /\ \A e \in 1..(MaxEvents + 2) : EventIn(<< <<Half(e, 1), Half(e, 2)>> >>) = e
  /\ \A line : Len(line) # 2 => EventIn(<<line>>) = 0
<1>1. ASSUME NEW e \in 1..(MaxEvents + 2)
      PROVE  EventIn(<< <<Half(e, 1), Half(e, 2)>> >>) = e
  <2> DEFINE payload == <<Half(e, 1), Half(e, 2)>>
             whole == {f \in 1..(MaxEvents + 2) : payload = <<Half(f, 1), Half(f, 2)>>}
  <2>1. whole = {e}
    <3>1. \A f : payload = <<Half(f, 1), Half(f, 2)>> => Half(e, 1) = Half(f, 1)
      OBVIOUS
    <3> QED
      BY <3>1, PiecesDiffer
  <2>2. whole # {} /\ (CHOOSE f \in whole : TRUE) = e
    BY <2>1
  <2> QED
    BY <2>2, FlattenOne DEF EventIn
<1>2. ASSUME NEW line, Len(line) # 2 PROVE EventIn(<<line>>) = 0
  <2>1. \A f : Len(<<Half(f, 1), Half(f, 2)>>) = 2
    OBVIOUS
  <2>2. {f \in 1..(MaxEvents + 2) : line = <<Half(f, 1), Half(f, 2)>>} = {}
    BY <1>2, <2>1
  <2> QED
    BY <2>2, FlattenOne DEF EventIn
<1> QED
  BY <1>1, <1>2

\* The parts of a formatted message, whatever its line ends.
LEMMA Joins ==
  \A p, q \in Seq(Pieces) :
         /\ p \o q \in Seq(Pieces) /\ Len(p \o q) = Len(p) + Len(q)
         /\ \A i \in 1..Len(p) : (p \o q)[i] = p[i]
         /\ \A i \in 1..Len(q) : (p \o q)[Len(p) + i] = q[i]
OBVIOUS

LEMMA FormattedParts ==
  ASSUME NEW e \in Nat, NEW ends \in Ends
  PROVE  LET F == Formatted(e, ends)
             x == Len(ends[1])
             y == Len(ends[2]) IN
         /\ F \in Seq(Pieces) /\ x \in {1, 2} /\ y \in {1, 2} /\ Len(F) = 4 + 2 * x + y
         /\ MessageAt(F, e, 0, 1 + x, 4 + 2 * x, 4 + 2 * x + y)
<1> DEFINE F == Formatted(e, ends)
           first == ends[1]
           last == ends[2]
           x == Len(first)
           y == Len(last)
           LineEnd1 == {<<LF>>, <<CR>>, <<CR, LF>>}
           data == <<DataField, Half(e, 1), Half(e, 2)>>
<1>1. first \in LineEnd1 /\ last \in LineEnd1 /\ ~(Last(first) = CR /\ Head(last) = LF)
  BY WireBounds DEF Ends
<1>2. F = <<EventField>> \o first \o data \o first \o last
  BY DEF Formatted, EventField, DataField
<1>3. /\ <<EventField>> \in Seq(Pieces) /\ data \in Seq(Pieces)
      /\ \A ls \in LineEnd1 : ls \in Seq(Pieces) /\ Len(ls) \in {1, 2}
  BY DEF Pieces
<1>4. \A ls \in LineEnd1 :
        \/ Len(ls) = 1 /\ ls[1] = LF /\ Head(ls) = LF /\ Last(ls) = LF
        \/ Len(ls) = 1 /\ ls[1] = CR /\ Head(ls) = CR /\ Last(ls) = CR
        \/ Len(ls) = 2 /\ ls[1] = CR /\ ls[2] = LF /\ Head(ls) = CR /\ Last(ls) = LF
  <2> TAKE ls \in LineEnd1
  <2>1. CASE ls = <<LF>>
    BY <2>1 DEF Last
  <2>2. CASE ls = <<CR>>
    BY <2>2 DEF Last
  <2>3. CASE ls = <<CR, LF>>
    BY <2>3 DEF Last
  <2> QED
    BY <2>1, <2>2, <2>3
<1>5. Len(data) = 3 /\ data[1] = DataField /\ data[2] = Half(e, 1) /\ data[3] = Half(e, 2)
  OBVIOUS
<1>6. Len(<<EventField>>) = 1 /\ <<EventField>>[1] = EventField
  OBVIOUS
<1> HIDE DEF first, last, F, LineEnd1, data
<1> DEFINE a == <<EventField>> \o first
           b == a \o data
           c == b \o first
<1>7. x \in {1, 2} /\ y \in {1, 2} /\ first \in Seq(Pieces) /\ last \in Seq(Pieces)
  BY <1>1, <1>3
<1>8. /\ F \in Seq(Pieces) /\ Len(F) = 4 + 2 * x + y
      /\ F[1] = EventField /\ F[2 + x] = DataField /\ F[3 + x] = Half(e, 1) /\ F[4 + x] = Half(e, 2)
      /\ \A i \in 1..x : F[1 + i] = first[i] /\ F[4 + x + i] = first[i]
      /\ \A i \in 1..y : F[4 + 2 * x + i] = last[i]
  <2>1. a \in Seq(Pieces) /\ Len(a) = 1 + x /\ a[1] = EventField /\ \A i \in 1..x : a[1 + i] = first[i]
    BY <1>3, <1>6, <1>7, Joins
  <2>2. F = c \o last
    BY <1>2
  <2> HIDE DEF a
  <2>9. data \in Seq(Pieces)
    BY <1>3
  <2>3. b \in Seq(Pieces) /\ Len(b) = 4 + x /\ (\A i \in 1..(1 + x) : b[i] = a[i])
        /\ \A i \in 1..3 : b[1 + x + i] = data[i]
    <3>1. /\ b \in Seq(Pieces) /\ Len(b) = Len(a) + Len(data) /\ (\A i \in 1..Len(a) : b[i] = a[i])
          /\ \A i \in 1..Len(data) : b[Len(a) + i] = data[i]
      BY <2>1, <2>9, Joins
    <3> QED
      BY <1>5, <1>7, <2>1, <3>1
  <2> HIDE DEF b
  <2>4. c \in Seq(Pieces) /\ Len(c) = 4 + 2 * x /\ (\A i \in 1..(4 + x) : c[i] = b[i])
        /\ \A i \in 1..x : c[4 + x + i] = first[i]
    <3>1. /\ c \in Seq(Pieces) /\ Len(c) = Len(b) + x /\ (\A i \in 1..Len(b) : c[i] = b[i])
          /\ \A i \in 1..x : c[Len(b) + i] = first[i]
      BY <1>7, <2>3, Joins
    <3> QED
      BY <1>7, <2>3, <3>1
  <2> HIDE DEF c
  <2>5. /\ F \in Seq(Pieces) /\ Len(F) = 4 + 2 * x + y /\ (\A i \in 1..(4 + 2 * x) : F[i] = c[i])
        /\ \A i \in 1..y : F[4 + 2 * x + i] = last[i]
    <3>1. /\ F \in Seq(Pieces) /\ Len(F) = Len(c) + y /\ (\A i \in 1..Len(c) : F[i] = c[i])
          /\ \A i \in 1..y : F[Len(c) + i] = last[i]
      BY <1>7, <2>2, <2>4, Joins, ZenonT(40)
    <3> QED
      BY <1>7, <2>4, <3>1
  <2> HIDE DEF x, y
  <2> QED
    BY <1>5, <1>7, <2>1, <2>3, <2>4, <2>5, SMTT(30)
<1> HIDE DEF a, b, c
<1> HIDE DEF x, y
<1>9. /\ F[2] = first[1] /\ F[5 + x] = first[1] /\ F[5 + 2 * x] = last[1]
      /\ x = 2 => F[3] = first[2] /\ F[8] = first[2]
      /\ y = 2 => F[6 + 2 * x] = last[2]
  <2>1. \A n \in {1, 2} : 1 \in 1..n /\ (n = 2 => 2 \in 1..n)
    OBVIOUS
  <2> QED
    BY <1>7, <1>8, <2>1
<1>10. LineEndAt(F, 2, 1 + x) /\ LineEndAt(F, 5 + x, 4 + 2 * x)
  <2>1. CASE x = 1
    <3>1. first[1] \in {CR, LF}
      BY <1>1, <1>4 DEF x
    <3>2. F[3] = DataField /\ (first[1] = CR => F[7] # LF)
      BY <1>1, <1>4, <1>7, <1>8, <1>9, <2>1, PiecesDiffer DEF x, y
    <3> QED
      BY <1>8, <1>9, <2>1, <3>1, <3>2, PiecesDiffer DEF LineEndAt
  <2>2. CASE x = 2
    <3>1. first[1] = CR /\ first[2] = LF
      BY <1>1, <1>4, <2>2 DEF x
    <3> QED
      BY <1>8, <1>9, <2>2, <3>1 DEF LineEndAt
  <2> QED
    BY <1>7, <2>1, <2>2 DEF x
<1>11. LineEndAt(F, 5 + 2 * x, 4 + 2 * x + y)
  <2>1. x \in {1, 2} /\ y \in {1, 2} /\ (y = 1 => last[1] \in {CR, LF})
        /\ (y = 2 => last[1] = CR /\ last[2] = LF)
    BY <1>1, <1>4, <1>7 DEF x, y
  <2> QED
    BY <1>8, <1>9, <2>1, PiecesDiffer DEF LineEndAt
<1>12. MessageAt(F, e, 0, 1 + x, 4 + 2 * x, 4 + 2 * x + y)
  <2>1. 0 + 1 = 1 /\ 0 + 2 = 2 /\ (1 + x) + 1 = 2 + x /\ (1 + x) + 2 = 3 + x /\ (1 + x) + 3 = 4 + x
        /\ (1 + x) + 4 = 5 + x /\ (4 + 2 * x) + 1 = 5 + 2 * x
    BY <1>7
  <2>2. 2 <= 1 + x /\ (1 + x) + 4 <= 4 + 2 * x /\ (4 + 2 * x) + 1 <= 4 + 2 * x + y
        /\ 4 + 2 * x + y <= Len(F)
    BY <1>7, <1>8
  <2> QED
    BY <1>8, <1>10, <1>11, <2>1, <2>2 DEF MessageAt
<1> QED
  BY <1>7, <1>8, <1>12 DEF F, first, last, x, y

-----------------------------------------------------------------------------
(* The server writes *)

LEMMA LineEndMoves ==
  ASSUME NEW t \in Seq(Pieces), NEW F \in Seq(Pieces), NEW i \in Nat \ {0}, NEW j \in Nat,
         i <= j, j <= Len(F), LineEndAt(F, i, j)
  PROVE  LineEndAt(t \o F, Len(t) + i, Len(t) + j)
<1>1. /\ Len(t \o F) = Len(t) + Len(F)
      /\ \A n \in 1..Len(F) : (t \o F)[Len(t) + n] = F[n]
  BY Joins
<1>2. i \in 1..Len(F) /\ j \in 1..Len(F) /\ Len(t) \in Nat /\ Len(F) \in Nat
  OBVIOUS
<1>3. (t \o F)[Len(t) + i] = F[i] /\ (t \o F)[Len(t) + j] = F[j]
  BY <1>1, <1>2
<1>4. Len(t) + i < Len(t \o F) => (t \o F)[Len(t) + i + 1] = F[i + 1] /\ i < Len(F)
  <2>1. i < Len(F) => i + 1 \in 1..Len(F) /\ Len(t) + (i + 1) = Len(t) + i + 1
    BY <1>2
  <2> QED
    BY <1>1, <1>2, <2>1
<1>5. (i < Len(F) => F[i + 1] # LF) => (Len(t) + i < Len(t \o F) => (t \o F)[Len(t) + i + 1] # LF)
  BY <1>4
<1>6. j = i \/ j = i + 1 => Len(t) + j = Len(t) + i \/ Len(t) + j = Len(t) + i + 1
  BY <1>2
<1> QED
  BY <1>2, <1>3, <1>5, <1>6 DEF LineEndAt

LEMMA LineEndStays ==
  ASSUME NEW t \in Seq(Pieces), NEW F \in Seq(Pieces), F # <<>> => F[1] # LF,
         NEW i \in Nat \ {0}, NEW j \in Nat, i <= j, j <= Len(t), LineEndAt(t, i, j)
  PROVE  LineEndAt(t \o F, i, j)
<1>1. /\ Len(t \o F) = Len(t) + Len(F) /\ \A n \in 1..Len(t) : (t \o F)[n] = t[n]
      /\ \A n \in 1..Len(F) : (t \o F)[Len(t) + n] = F[n]
  BY Joins
<1>2. i \in 1..Len(t) /\ j \in 1..Len(t) /\ Len(t) \in Nat /\ Len(F) \in Nat
  OBVIOUS
<1>3. ASSUME i < Len(t \o F), i >= Len(t) PROVE (t \o F)[i + 1] # LF
  <2>1. i = Len(t) /\ 1 \in 1..Len(F) /\ F # <<>>
    BY <1>1, <1>2, <1>3
  <2> QED
    BY <1>1, <2>1
<1>4. i < Len(t) => (t \o F)[i + 1] = t[i + 1]
  <2>1. i < Len(t) => i + 1 \in 1..Len(t)
    BY <1>2
  <2> QED
    BY <1>1, <2>1
<1>5. (t \o F)[i] = t[i] /\ (t \o F)[j] = t[j]
  BY <1>1, <1>2
<1>6. (i < Len(t) => t[i + 1] # LF) => (i < Len(t \o F) => (t \o F)[i + 1] # LF)
  BY <1>1, <1>2, <1>3, <1>4
<1> QED
  BY <1>5, <1>6 DEF LineEndAt

LEMMA MessageMoves ==
  ASSUME NEW t \in Seq(Pieces), NEW F \in Seq(Pieces), NEW e \in Nat,
         NEW i \in Nat, NEW j \in Nat, MessageAt(F, e, 0, i, j, Len(F))
  PROVE  MessageAt(t \o F, e, Len(t), Len(t) + i, Len(t) + j, Len(t) + Len(F))
<1>1. /\ Len(t \o F) = Len(t) + Len(F)
      /\ \A n \in 1..Len(F) : (t \o F)[Len(t) + n] = F[n]
  BY Joins
<1>2. /\ 2 <= i /\ i + 4 <= j /\ j + 1 <= Len(F) /\ Len(t) \in Nat /\ Len(F) \in Nat
      /\ F[1] = EventField /\ F[i + 1] = DataField /\ F[i + 2] = Half(e, 1) /\ F[i + 3] = Half(e, 2)
      /\ LineEndAt(F, 2, i) /\ LineEndAt(F, i + 4, j) /\ LineEndAt(F, j + 1, Len(F))
  BY DEF MessageAt
<1>3. {1, i + 1, i + 2, i + 3} \subseteq 1..Len(F)
  BY <1>2
<1>4. /\ (t \o F)[Len(t) + 1] = EventField /\ (t \o F)[Len(t) + (i + 1)] = DataField
      /\ (t \o F)[Len(t) + (i + 2)] = Half(e, 1) /\ (t \o F)[Len(t) + (i + 3)] = Half(e, 2)
  BY <1>1, <1>2, <1>3
<1>5. /\ LineEndAt(t \o F, Len(t) + 2, Len(t) + i)
      /\ LineEndAt(t \o F, Len(t) + (i + 4), Len(t) + j)
      /\ LineEndAt(t \o F, Len(t) + (j + 1), Len(t) + Len(F))
  <2>1. 2 \in Nat \ {0} /\ i + 4 \in Nat \ {0} /\ j + 1 \in Nat \ {0} /\ i <= Len(F) /\ j <= Len(F)
    BY <1>2
  <2> QED
    BY <1>2, <2>1, LineEndMoves
<1>6. /\ Len(t) + i + 1 = Len(t) + (i + 1) /\ Len(t) + i + 2 = Len(t) + (i + 2)
      /\ Len(t) + i + 3 = Len(t) + (i + 3) /\ Len(t) + i + 4 = Len(t) + (i + 4)
      /\ Len(t) + j + 1 = Len(t) + (j + 1)
  BY <1>2
<1>7. /\ 0 <= Len(t) /\ Len(t) + 2 <= Len(t) + i /\ Len(t) + i + 4 <= Len(t) + j
      /\ Len(t) + j + 1 <= Len(t) + Len(F) /\ Len(t) + Len(F) <= Len(t \o F)
  BY <1>1, <1>2
<1> QED
  BY <1>4, <1>5, <1>6, <1>7 DEF MessageAt

LEMMA MessageStays ==
  ASSUME NEW t \in Seq(Pieces), NEW F \in Seq(Pieces), F # <<>> => F[1] # LF, NEW e \in Nat,
         NEW a \in Nat, NEW i \in Nat, NEW j \in Nat, NEW b \in Nat, MessageAt(t, e, a, i, j, b)
  PROVE  MessageAt(t \o F, e, a, i, j, b)
<1>1. /\ Len(t \o F) = Len(t) + Len(F) /\ \A n \in 1..Len(t) : (t \o F)[n] = t[n]
  BY Joins
<1>2. /\ a + 2 <= i /\ i + 4 <= j /\ j + 1 <= b /\ b <= Len(t)
      /\ t[a + 1] = EventField /\ LineEndAt(t, a + 2, i)
      /\ t[i + 1] = DataField /\ t[i + 2] = Half(e, 1) /\ t[i + 3] = Half(e, 2)
      /\ LineEndAt(t, i + 4, j) /\ LineEndAt(t, j + 1, b)
  BY DEF MessageAt
<1>3. Len(t) \in Nat /\ Len(F) \in Nat
  OBVIOUS
<1>5. a + 1 \in 1..Len(t) /\ i + 1 \in 1..Len(t) /\ i + 2 \in 1..Len(t) /\ i + 3 \in 1..Len(t)
  BY <1>2, <1>3, SMTT(30)
<1>4. LineEndAt(t \o F, a + 2, i) /\ LineEndAt(t \o F, i + 4, j) /\ LineEndAt(t \o F, j + 1, b)
  <2>1. a + 2 \in Nat \ {0} /\ i + 4 \in Nat \ {0} /\ j + 1 \in Nat \ {0} /\ i <= Len(t) /\ j <= Len(t)
    BY <1>2, <1>3, SMTT(30)
  <2> QED
    BY <1>2, <2>1, LineEndStays
<1>6. b <= Len(t \o F)
  BY <1>1, <1>2, <1>3
<1> QED
  BY <1>1, <1>2, <1>4, <1>5, <1>6 DEF MessageAt

LEMMA TextGrows ==
  ASSUME text \in Seq(Pieces), Len(sent) \in Nat, NEW s, NEW u, NEW v, Layout(s, u, v),
         Standing(s, u, v), NEW type, NEW ends \in Ends, Write(type, ends), Len(sent') = Len(sent) + 1,
         UNCHANGED <<arrived, buffer, pendingLF, dataLines, delivered>>
  PROVE  /\ text' \in Seq(Pieces)
         /\ \E s2, u2, v2 : Layout(s2, u2, v2)' /\ Standing(s2, u2, v2)'
<1> DEFINE n == Len(sent)
           F == Formatted(n + 1, ends)
           x == Len(ends[1])
           S == [e \in 1..(n + 2) |-> IF e = n + 2 THEN Len(text) + Len(F) ELSE s[e]]
           U == [e \in 1..(n + 1) |-> IF e = n + 1 THEN Len(text) + (1 + x) ELSE u[e]]
           V == [e \in 1..(n + 1) |-> IF e = n + 1 THEN Len(text) + (4 + 2 * x) ELSE v[e]]
<1>1. /\ F \in Seq(Pieces) /\ x \in {1, 2} /\ Len(F) \in Nat /\ Len(F) > 0
      /\ MessageAt(F, n + 1, 0, 1 + x, 4 + 2 * x, Len(F))
  <2>1. n + 1 \in Nat
    OBVIOUS
  <2>2. /\ F \in Seq(Pieces) /\ x \in {1, 2} /\ Len(ends[2]) \in {1, 2}
        /\ Len(F) = 4 + 2 * x + Len(ends[2])
        /\ MessageAt(F, n + 1, 0, 1 + x, 4 + 2 * x, 4 + 2 * x + Len(ends[2]))
    BY <2>1, FormattedParts
  <2> DEFINE y == Len(ends[2])
  <2> HIDE DEF F, x, y
  <2>3. F \in Seq(Pieces) /\ x \in {1, 2} /\ y \in {1, 2} /\ Len(F) = 4 + 2 * x + y
    BY <2>2 DEF y
  <2>4. MessageAt(F, n + 1, 0, 1 + x, 4 + 2 * x, Len(F))
    BY <2>2, Zenon
  <2> QED
    BY <2>3, <2>4
<1>2. F # <<>> /\ F[1] = EventField /\ F[1] # LF
  BY <1>1, PiecesDiffer DEF MessageAt
<1>3. text' = text \o F /\ Len(sent') = n + 1
  BY DEF Write
<1> HIDE DEF F, x
<1>4. /\ text' \in Seq(Pieces) /\ Len(text') = Len(text) + Len(F) /\ Len(text) \in Nat
      /\ (\A i \in 1..Len(text) : text'[i] = text[i])
      /\ \A i \in 1..Len(F) : text'[Len(text) + i] = F[i]
  BY <1>1, <1>3, Joins
<1>5. /\ s \in [1..(n + 1) -> Nat] /\ u \in [1..n -> Nat] /\ v \in [1..n -> Nat]
      /\ s[1] = 0 /\ s[n + 1] = Len(text)
      /\ \A e \in 1..n : MessageAt(text, e, s[e], u[e], v[e], s[e + 1])
  BY DEF Layout
<1>s. PICK s2 : s2 = S
  OBVIOUS
<1>u. PICK u2 : u2 = U
  OBVIOUS
<1>v. PICK v2 : v2 = V
  OBVIOUS
<1>6. /\ s2 \in [1..(n + 2) -> Nat] /\ u2 \in [1..(n + 1) -> Nat] /\ v2 \in [1..(n + 1) -> Nat]
      /\ s2[1] = 0 /\ s2[n + 1] = Len(text) /\ s2[n + 2] = Len(text') /\ \A e \in 1..(n + 1) : s2[e] = s[e]
      /\ \A e \in 1..n : u2[e] = u[e] /\ v2[e] = v[e]
      /\ u2[n + 1] = Len(text) + (1 + x) /\ v2[n + 1] = Len(text) + (4 + 2 * x)
  BY <1>1, <1>4, <1>5, <1>s, <1>u, <1>v, SMTT(30)
<1>7. ASSUME NEW e \in 1..(n + 1) PROVE MessageAt(text', e, s2[e], u2[e], v2[e], s2[e + 1])
  <2>1. CASE e = n + 1
    <3>1. MessageAt(text \o F, n + 1, Len(text), Len(text) + (1 + x), Len(text) + (4 + 2 * x), Len(text) + Len(F))
      BY <1>1, MessageMoves
    <3> QED
      BY <1>3, <1>4, <1>6, <2>1, <3>1
  <2>2. CASE e # n + 1
    <3>1. e \in 1..n /\ e + 1 \in 1..(n + 1) /\ e \in 1..(n + 1)
      BY <2>2
    <3>2. s[e] \in Nat /\ u[e] \in Nat /\ v[e] \in Nat /\ s[e + 1] \in Nat /\ e \in Nat
      BY <1>5, <3>1, SMTT(30)
    <3>3. MessageAt(text \o F, e, s[e], u[e], v[e], s[e + 1])
      BY <1>1, <1>2, <1>5, <3>1, <3>2, MessageStays
    <3> QED
      BY <1>3, <1>6, <3>1, <3>3
  <2> QED
    BY <2>1, <2>2
<1>8. Layout(s2, u2, v2)'
  <2>1. Len(sent') = n + 1 /\ Len(sent') + 1 = n + 2
    BY <1>3
  <2>2. /\ s2 \in [1..(Len(sent') + 1) -> Nat] /\ u2 \in [1..Len(sent') -> Nat]
        /\ v2 \in [1..Len(sent') -> Nat] /\ s2[1] = 0 /\ s2[Len(sent') + 1] = Len(text')
    BY <1>6, <2>1
  <2>3. \A e \in 1..Len(sent') : MessageAt(text', e, s2[e], u2[e], v2[e], s2[e + 1])
    BY <1>7, <2>1
  <2> QED
    BY <2>2, <2>3 DEF Layout
<1>9. Target' = Target /\ BufferInv'
  <2>1. BufferInv
    BY DEF Standing
  <2>2. Past' = Past /\ Past \in Nat /\ Past <= Len(text)
    BY <2>1 DEF Past, BufferInv
  <2>3. Past < Len(text) => text'[Past + 1] = text[Past + 1]
    BY <1>4, <2>2
  <2>4. Past = Len(text) => text'[Past + 1] # LF
    <3>1. 1 \in 1..Len(F)
      BY <1>1
    <3> QED
      BY <1>2, <1>4, <3>1
  <2>5. Target' = Target
    BY <1>1, <1>4, <2>2, <2>3, <2>4 DEF Target
  <2>6. \A i \in 1..Len(buffer) : Past + i \in 1..Len(text) /\ text'[Past + i] = text[Past + i]
    <3>1. Past + Len(buffer) <= Len(text) /\ Len(buffer) \in Nat
      BY <1>4, <2>1 DEF BufferInv, Past
    <3>2. \A i \in 1..Len(buffer) : Past + i \in 1..Len(text)
      BY <1>4, <2>2, <3>1
    <3> QED
      BY <1>4, <3>2
  <2> QED
    BY <1>1, <1>4, <2>1, <2>2, <2>5, <2>6 DEF BufferInv
<1>10. Standing(s2, u2, v2)'
  <2> DEFINE k == Len(delivered) + 1
  <2>1. k \in 1..(n + 1) /\ k' = k /\ dataLines' = dataLines /\ Target' = Target
    BY <1>9 DEF Standing
  <2>2. k \in 1..(Len(sent') + 1) /\ (k <= n => k <= Len(sent'))
    BY <1>3, <2>1
  <2>3. s2[k] = s[k] /\ (k <= n => u2[k] = u[k] /\ v2[k] = v[k])
    <3>1. k <= n => k \in 1..n
      BY <2>1
    <3> QED
      BY <1>6, <2>1, <3>1
  <2>4. \/ dataLines = <<>> /\ Target = s[k]
        \/ k <= n /\ dataLines = <<>> /\ Target = u[k]
        \/ k <= n /\ dataLines = << <<Half(k, 1), Half(k, 2)>> >> /\ Target = v[k]
    BY DEF Standing
  <2> QED
    BY <1>9, <2>1, <2>2, <2>3, <2>4 DEF Standing
<1> QED
  BY <1>4, <1>8, <1>10

-----------------------------------------------------------------------------
(* The parser takes a line *)

LEMMA FirstEnd ==
  ASSUME NEW chars \in Seq(Pieces), NEW m \in 1..Len(chars), chars[m] \in {CR, LF},
         \A i \in 1..(m - 1) : chars[i] \notin {CR, LF}
  PROVE  EndsIn(chars) # {} /\ Min(EndsIn(chars)) = m
<1>1. m \in EndsIn(chars) /\ EndsIn(chars) \subseteq 1..Len(chars)
  BY DEF EndsIn
<1>2. ASSUME NEW i \in EndsIn(chars) PROVE m <= i
  <2>1. i \in 1..Len(chars) /\ chars[i] \in {CR, LF}
    BY DEF EndsIn
  <2> QED
    BY <2>1
<1>3. \A j \in EndsIn(chars) : (\A i \in EndsIn(chars) : j <= i) => j = m
  BY <1>1, <1>2
<1> QED
  BY <1>1, <1>2, <1>3 DEF Min

LEMMA Unread ==
  ASSUME text \in Seq(Pieces), BufferInv, buffer # <<>>
  PROVE  LET chars == Rest(buffer) IN
         /\ chars \in Seq(Pieces) /\ Target \in Nat /\ Len(chars) = arrived - Target
         /\ \A i \in 1..Len(chars) : chars[i] = text[Target + i]
<1> DEFINE chars == Rest(buffer)
<1>1. /\ arrived \in Nat /\ Len(text) \in Nat /\ Len(buffer) \in Nat /\ Len(buffer) > 0
      /\ Past \in Nat /\ Past < Len(text) /\ arrived = Past + Len(buffer) /\ buffer \in Seq(Pieces)
      /\ \A i \in 1..Len(buffer) : buffer[i] = text[Past + i]
  BY DEF BufferInv, Past
<1>2. Head(buffer) = text[Past + 1] /\ Tail(buffer) \in Seq(Pieces) /\ Len(Tail(buffer)) = Len(buffer) - 1
  BY <1>1
<1>3. \A i \in 1..Len(Tail(buffer)) : Tail(buffer)[i] = buffer[i + 1]
  BY <1>1
<1>4. CASE pendingLF /\ text[Past + 1] = LF
  <2>1. Target = Past + 1 /\ chars = Tail(buffer)
    BY <1>1, <1>2, <1>4 DEF Target, Rest
  <2>2. ASSUME NEW i \in 1..Len(chars) PROVE chars[i] = text[Target + i]
    <3>1. i + 1 \in 1..Len(buffer) /\ Past + (i + 1) = Target + i
      BY <1>1, <1>2, <2>1
    <3> QED
      BY <1>1, <1>3, <2>1, <3>1
  <2> QED
    BY <1>1, <1>2, <2>1, <2>2
<1>5. CASE ~(pendingLF /\ text[Past + 1] = LF)
  <2>1. Target = Past /\ chars = buffer
    BY <1>1, <1>2, <1>5 DEF Target, Rest
  <2> QED
    BY <1>1, <2>1
<1> QED
  BY <1>4, <1>5

LEMMA Dropped ==
  \A t \in Seq(Pieces) : \A m \in 1..(Len(t) + 1) :
    LET rest == SubSeq(t, m, Len(t)) IN
    /\ rest \in Seq(Pieces) /\ Len(rest) = Len(t) - m + 1
    /\ \A i \in 1..Len(rest) : rest[i] = t[m - 1 + i]
<1> TAKE t \in Seq(Pieces)
<1> TAKE m \in 1..(Len(t) + 1)
<1>1. \A i \in m..Len(t) : i \in 1..Len(t)
  OBVIOUS
<1> QED
  BY <1>1

LEMMA Within ==
  \A l, q \in Nat : \A m \in Nat \ {0} : \A i \in 1..(l - m + 1) :
    m - 1 + i \in 1..l /\ q + (m - 1 + i) = q + m - 1 + i
OBVIOUS

LEMMA EndTaken ==
  ASSUME text \in Seq(Pieces), arrived \in Nat, arrived <= Len(text), NEW q \in Nat,
         NEW chars \in Seq(Pieces), Len(chars) = arrived - q,
         \A i \in 1..Len(chars) : chars[i] = text[q + i],
         NEW end \in 1..Len(chars), NEW z \in Nat, z <= Len(text), LineEndAt(text, q + end, z),
         buffer' = SubSeq(chars, end + EndLength(chars, end), Len(chars)),
         pendingLF' = (chars[end] = CR /\ end = Len(chars)), text' = text, arrived' = arrived
  PROVE  BufferInv' /\ Target' = z
<1>1. Len(chars) \in Nat /\ Len(text) \in Nat /\ q + end <= arrived /\ chars[end] = text[q + end]
  OBVIOUS
<1>2. end < Len(chars) => chars[end + 1] = text[q + end + 1] /\ q + end < Len(text)
  <2>1. end < Len(chars) => end + 1 \in 1..Len(chars) /\ q + (end + 1) = q + end + 1
    BY <1>1
  <2> QED
    BY <1>1, <2>1
<1>3. PICK taken \in {1, 2} :
      /\ taken = EndLength(chars, end)
      /\ (taken = 2) <=> (chars[end] = CR /\ end < Len(chars) /\ chars[end + 1] = LF)
  BY DEF EndLength
<1> DEFINE next == end + taken
<1>4. next \in 1..(Len(chars) + 1) /\ next = end + taken
  <2>1. end \in Nat /\ end >= 1 /\ end <= Len(chars) /\ (taken = 2 => end < Len(chars))
    BY <1>1, <1>3
  <2>2. taken = 1 \/ taken = 2
    OBVIOUS
  <2> QED
    BY <1>1, <2>1, <2>2
<1> HIDE DEF next
<1>5. /\ buffer' \in Seq(Pieces) /\ Len(buffer') = Len(chars) - next + 1
      /\ \A i \in 1..Len(buffer') : buffer'[i] = chars[next - 1 + i]
  <2>1. buffer' = SubSeq(chars, next, Len(chars))
    BY <1>3, <1>4
  <2>2. next \in 1..(Len(chars) + 1)
    BY <1>4
  <2>3. /\ SubSeq(chars, next, Len(chars)) \in Seq(Pieces)
        /\ Len(SubSeq(chars, next, Len(chars))) = Len(chars) - next + 1
        /\ \A i \in 1..Len(SubSeq(chars, next, Len(chars))) :
              SubSeq(chars, next, Len(chars))[i] = chars[next - 1 + i]
    BY <2>2, Dropped, Zenon
  <2> QED
    BY <2>1, <2>3, Zenon
<1>6. Past' = q + next - 1 /\ Past' \in Nat
  <2>1. Past' = arrived - (Len(chars) - next + 1)
    BY <1>5 DEF Past
  <2>2. Len(chars) = arrived - q /\ next \in Nat /\ next >= 1
    BY <1>1, <1>4
  <2> QED
    BY <1>1, <2>1, <2>2
<1>7. BufferInv'
  <2>1. Len(buffer') <= arrived'
    BY <1>1, <1>4, <1>5, SMTT(30)
  <2>2. ASSUME NEW i \in 1..Len(buffer') PROVE buffer'[i] = text'[Past' + i]
    <3>1. next - 1 + i \in 1..Len(chars) /\ q + (next - 1 + i) = Past' + i
      <4>1. i \in 1..(Len(chars) - next + 1)
        BY <1>5, Zenon
      <4>2. Len(chars) \in Nat /\ next \in Nat \ {0}
        BY <1>1, <1>4
      <4>3. next - 1 + i \in 1..Len(chars) /\ q + (next - 1 + i) = q + next - 1 + i
        BY <4>1, <4>2, Within
      <4> QED
        BY <1>6, <4>3, Zenon
    <3> QED
      BY <1>5, <3>1
  <2> QED
    BY <1>1, <1>5, <2>1, <2>2 DEF BufferInv
<1>8. Target' = z
  <2>1. CASE z = q + end /\ text[q + end] = LF
    <3>1. taken = 1 /\ pendingLF' = FALSE
      BY <1>1, <1>3, <2>1, PiecesDiffer
    <3> QED
      BY <1>1, <1>4, <1>6, <2>1, <3>1 DEF Target
  <2>2. CASE z = q + end /\ text[q + end] = CR /\ (q + end < Len(text) => text[q + end + 1] # LF)
    <3>1. taken = 1
      BY <1>2, <1>3, <2>2
    <3>2. Past' = z
      BY <1>1, <1>4, <1>6, <2>2, <3>1
    <3> QED
      BY <1>1, <2>2, <3>2 DEF Target
  <2>3. CASE z = q + end + 1 /\ text[q + end] = CR /\ text[z] = LF
    <3>1. CASE end < Len(chars)
      <4>0. end # Len(chars)
        BY <1>1, <3>1
      <4>1. taken = 2 /\ pendingLF' = FALSE
        BY <1>1, <1>2, <1>3, <2>3, <3>1, <4>0, Zenon
      <4> QED
        BY <1>1, <1>4, <1>6, <2>3, <4>1 DEF Target
    <3>2. CASE end = Len(chars)
      <4>0. ~(end < Len(chars)) /\ chars[end] = CR
        BY <1>1, <2>3, <3>2
      <4>1. taken = 1 /\ pendingLF' = TRUE
        BY <1>3, <3>2, <4>0, Zenon
      <4>2. Past' = q + end
        BY <1>1, <1>4, <1>6, <4>1
      <4> QED
        BY <1>1, <2>3, <4>1, <4>2 DEF Target
    <3> QED
      BY <1>1, <3>1, <3>2
  <2> QED
    BY <2>1, <2>2, <2>3 DEF LineEndAt
<1> QED
  BY <1>7, <1>8

\* What the parser keeps when it asks for a chunk.
Exhausted == EndsIn(buffer) = {} /\ (pendingLF => buffer = <<>>)

LEMMA Starts ==
  \A t \in Seq(Pieces) :
    /\ 1 \in 1..Len(t) => SubSeq(t, 1, 2 - 1) = <<t[1]>>
    /\ 3 \in 1..Len(t) => SubSeq(t, 1, 4 - 1) = <<t[1], t[2], t[3]>>
<1> TAKE t \in Seq(Pieces)
<1>1. ASSUME 1 \in 1..Len(t) PROVE SubSeq(t, 1, 1) = <<t[1]>>
  <2>1. SubSeq(t, 1, 1) \in Seq(Pieces) /\ <<t[1]>> \in Seq(Pieces)
    BY <1>1
  <2>2. Len(SubSeq(t, 1, 1)) = 1 /\ Len(<<t[1]>>) = 1 /\ SubSeq(t, 1, 1)[1] = t[1] /\ <<t[1]>>[1] = t[1]
    BY <1>1
  <2>3. \A i \in 1..1 : i = 1
    OBVIOUS
  <2> QED
    BY <2>1, <2>2, <2>3, SeqEqual
<1>2. ASSUME 3 \in 1..Len(t) PROVE SubSeq(t, 1, 3) = <<t[1], t[2], t[3]>>
  <2> DEFINE a == SubSeq(t, 1, 3)
             b == <<t[1], t[2], t[3]>>
  <2>0. {1, 2, 3} \subseteq 1..Len(t)
    BY <1>2
  <2>1. a \in Seq(Pieces) /\ Len(a) = 3 /\ a[1] = t[1] /\ a[2] = t[2] /\ a[3] = t[3]
    BY <1>2
  <2>2. b \in Seq(Pieces) /\ Len(b) = 3 /\ b[1] = t[1] /\ b[2] = t[2] /\ b[3] = t[3]
    BY <2>0
  <2>3. \A i \in 1..3 : i = 1 \/ i = 2 \/ i = 3
    OBVIOUS
  <2> HIDE DEF a, b
  <2>4. \A i \in 1..3 : a[i] = b[i]
    BY <2>1, <2>2, <2>3
  <2>5. a = b
    BY <2>1, <2>2, <2>4, SeqEqual
  <2> QED
    BY <2>5 DEF a, b
<1> QED
  BY <1>1, <1>2

\* The data of the lines there are, whole or cut off.
LEMMA DataOfEach ==
  /\ DataOf(<<>>) = <<>> /\ DataOf(<<EventField>>) = <<>> /\ <<EventField>> # <<>>
  /\ DataOf(<<DataField>>) = << <<>> >>
  /\ \A x : DataOf(<<DataField, x>>) = << <<x>> >>
  /\ \A x, y : DataOf(<<DataField, x, y>>) = << <<x, y>> >> /\ <<DataField, x, y>> # <<>>
<1>1. EventField # <<"data">> /\ DataField = <<"data">>
  BY PiecesDiffer DEF DataField
<1>2. Head(<<EventField>>) = EventField /\ <<EventField>> # <<>>
  OBVIOUS
<1>3. Head(<<DataField>>) = DataField /\ <<DataField>> # <<>> /\ Tail(<<DataField>>) = <<>>
  OBVIOUS
<1>4. \A x : Head(<<DataField, x>>) = DataField /\ <<DataField, x>> # <<>> /\ Tail(<<DataField, x>>) = <<x>>
  OBVIOUS
<1>5. \A x, y : /\ Head(<<DataField, x, y>>) = DataField /\ <<DataField, x, y>> # <<>>
               /\ Tail(<<DataField, x, y>>) = <<x, y>>
  OBVIOUS
<1> QED
  BY <1>1, <1>2, <1>3, <1>4, <1>5 DEF DataOf

LEMMA NoLine ==
  ASSUME text \in Seq(Pieces), NEW s, NEW u, NEW v, Layout(s, u, v), Standing(s, u, v),
         TakeLine, EndsIn(Rest(buffer)) = {}
  PROVE  stage' = "read" /\ delivered' = delivered /\ Layout(s, u, v)' /\ Standing(s, u, v)' /\ Exhausted'
<1> DEFINE chars == Rest(buffer)
<1>1. /\ buffer' = chars /\ pendingLF' = (pendingLF /\ buffer = <<>>) /\ stage' = "read"
      /\ UNCHANGED <<dataLines, delivered, text, sent, arrived>>
  BY DEF TakeLine, server
<1>2. BufferInv
  BY DEF Standing
<1>3. BufferInv' /\ Target' = Target /\ Exhausted'
  <2>1. CASE buffer = <<>>
    <3>1. chars = <<>>
      BY <2>1 DEF Rest
    <3>2. buffer' = buffer /\ pendingLF' = pendingLF
      <4>1. pendingLF \in BOOLEAN
        BY <1>2 DEF BufferInv
      <4> QED
        BY <1>1, <2>1, <3>1, <4>1
    <3>3. EndsIn(buffer') = {}
      BY <1>1
    <3> QED
      BY <1>1, <1>2, <2>1, <3>2, <3>3 DEF BufferInv, Target, Past, Exhausted, EndsIn
  <2>2. CASE buffer # <<>>
    <3>1. /\ chars \in Seq(Pieces) /\ Target \in Nat /\ Len(chars) = arrived - Target
          /\ \A i \in 1..Len(chars) : chars[i] = text[Target + i]
      BY <1>2, <2>2, Unread
    <3>2. pendingLF' = FALSE /\ buffer' = chars
      BY <1>1, <2>2
    <3> HIDE DEF chars
    <3>3. Past' = Target /\ Len(buffer') <= arrived'
      BY <1>1, <1>2, <3>1, <3>2 DEF Past, BufferInv
    <3>4. Target' = Target
      BY <3>2, <3>3 DEF Target
    <3>5. BufferInv'
      BY <1>1, <1>2, <3>1, <3>2, <3>3 DEF BufferInv
    <3>6. Exhausted'
      BY <3>2 DEF Exhausted, EndsIn, chars
    <3> QED
      BY <3>4, <3>5, <3>6
  <2> QED
    BY <2>1, <2>2
<1>4. Layout(s, u, v)'
  BY <1>1 DEF Layout
<1>5. Standing(s, u, v)'
  BY <1>1, <1>3 DEF Standing
<1> QED
  BY <1>1, <1>3, <1>4, <1>5

LEMMA LineTaken ==
  ASSUME text \in Seq(Pieces), Len(sent) \in Nat, Len(sent) <= MaxEvents + 2, delivered \in Seq(Nat),
         NEW s, NEW u, NEW v, Layout(s, u, v), Standing(s, u, v),
         TakeLine, EndsIn(Rest(buffer)) # {}
  PROVE  /\ Layout(s, u, v)' /\ Standing(s, u, v)'
         /\ \/ stage' = "lines" /\ delivered' = delivered
            \/ stage' = "yielded" /\ delivered' = Append(delivered, Len(delivered) + 1)
<1> DEFINE chars == Rest(buffer)
           n == Len(sent)
           k == Len(delivered) + 1
           end == Min(EndsIn(chars))
           line == SubSeq(chars, 1, end - 1)
<1>1. /\ buffer' = SubSeq(chars, end + EndLength(chars, end), Len(chars))
      /\ pendingLF' = (chars[end] = CR /\ end = Len(chars))
      /\ UNCHANGED <<text, sent, arrived>>
  BY DEF TakeLine, server
<1>3. BufferInv /\ buffer # <<>>
  BY DEF Standing, Rest, EndsIn
<1>4. /\ chars \in Seq(Pieces) /\ Target \in Nat /\ Len(chars) = arrived - Target
      /\ \A i \in 1..Len(chars) : chars[i] = text[Target + i]
  BY <1>3, Unread
<1>5. PICK m \in 1..Len(chars) : chars[m] \in {CR, LF}
  BY DEF EndsIn
<1> HIDE DEF chars
<1>6. arrived \in Nat /\ arrived <= Len(text) /\ Len(text) \in Nat /\ Len(chars) \in Nat
  BY <1>3, <1>4 DEF BufferInv
<1>7. k \in 1..(n + 1) /\ k \in Nat
  BY DEF Standing
<1>8. ASSUME k <= n
      PROVE  /\ s[k] \in Nat /\ u[k] \in Nat /\ v[k] \in Nat /\ s[k + 1] \in Nat
             /\ MessageAt(text, k, s[k], u[k], v[k], s[k + 1])
             /\ text[s[k] + 1] = EventField /\ LineEndAt(text, s[k] + 2, u[k]) /\ u[k] <= Len(text)
             /\ text[u[k] + 1] = DataField /\ text[u[k] + 2] = Half(k, 1)
             /\ text[u[k] + 3] = Half(k, 2) /\ LineEndAt(text, u[k] + 4, v[k]) /\ v[k] <= Len(text)
  <2>1. /\ s[k] \in Nat /\ u[k] \in Nat /\ v[k] \in Nat /\ s[k + 1] \in Nat
        /\ MessageAt(text, k, s[k], u[k], v[k], s[k + 1])
    BY <1>7, <1>8 DEF Layout
  <2>2. PICK e \in Nat, a \in Nat, i \in Nat, j \in Nat, b \in Nat :
          e = k /\ a = s[k] /\ i = u[k] /\ j = v[k] /\ b = s[k + 1]
    BY <1>7, <2>1
  <2>3. MessageAt(text, e, a, i, j, b)
    BY <2>1, <2>2
  <2>4. /\ text[a + 1] = EventField /\ LineEndAt(text, a + 2, i) /\ i <= Len(text)
        /\ text[i + 1] = DataField /\ text[i + 2] = Half(e, 1) /\ text[i + 3] = Half(e, 2)
        /\ LineEndAt(text, i + 4, j) /\ j <= Len(text)
    <3>1. /\ text[a + 1] = EventField /\ LineEndAt(text, a + 2, i)
          /\ text[i + 1] = DataField /\ text[i + 2] = Half(e, 1) /\ text[i + 3] = Half(e, 2)
          /\ LineEndAt(text, i + 4, j) /\ i + 4 <= j /\ j + 1 <= b /\ b <= Len(text)
      BY <2>3, Zenon DEF MessageAt
    <3>2. Len(text) \in Nat
      OBVIOUS
    <3>3. i <= Len(text) /\ j <= Len(text)
      BY <3>1, <3>2, SMTT(30)
    <3> QED
      BY <3>1, <3>3, Zenon
  <2> QED
    BY <2>1, <2>2, <2>4
<1>9. Layout(s, u, v)'
  BY <1>1 DEF Layout
<1>10. CASE dataLines = <<>> /\ Target = s[k]
  <2>1. k <= n
    <3>1. k = n + 1 => Target = Len(text)
      BY <1>10 DEF Layout
    <3> QED
      BY <1>4, <1>5, <1>6, <1>7, <3>1
  <2>2. /\ text[Target + 1] = EventField /\ LineEndAt(text, Target + 2, u[k])
        /\ u[k] <= Len(text) /\ u[k] \in Nat
    <3>1. /\ text[s[k] + 1] = EventField /\ LineEndAt(text, s[k] + 2, u[k])
          /\ u[k] <= Len(text) /\ u[k] \in Nat
      BY <1>8, <2>1
    <3> QED
      BY <1>10, <3>1
  <2>3. 1 \in 1..Len(chars) /\ chars[1] = EventField
    BY <1>4, <1>5, <1>6, <2>2
  <2>4. m # 1
    BY <1>5, <2>3, PiecesDiffer
  <2>5. 2 \in 1..Len(chars) /\ chars[2] = text[Target + 2]
    BY <1>4, <1>5, <1>6, <2>4
  <2>6. end = 2
    <3>1. chars[2] \in {CR, LF} /\ \A i \in 1..(2 - 1) : chars[i] \notin {CR, LF}
      BY <2>2, <2>3, <2>5, PiecesDiffer DEF LineEndAt
    <3> QED
      BY <1>4, <2>5, <3>1, FirstEnd
  <2>7. BufferInv' /\ Target' = u[k]
    BY <1>1, <1>4, <1>6, <2>2, <2>5, <2>6, EndTaken
  <2>8. line = <<EventField>>
    BY <1>4, <2>3, <2>6, Starts
  <2>9. DataOf(line) = <<>> /\ line # <<>>
    BY <2>8, DataOfEach
  <2>10. dataLines' = <<>> /\ stage' = "lines" /\ delivered' = delivered
    BY <1>10, <2>9 DEF TakeLine, chars
  <2>11. Standing(s, u, v)'
    BY <1>1, <1>7, <2>1, <2>7, <2>10 DEF Standing
  <2> QED
    BY <1>9, <2>10, <2>11
<1>11. CASE k <= n /\ dataLines = <<>> /\ Target = u[k]
  <2>2. /\ text[Target + 1] = DataField /\ text[Target + 2] = Half(k, 1) /\ text[Target + 3] = Half(k, 2)
        /\ LineEndAt(text, Target + 4, v[k]) /\ v[k] <= Len(text) /\ v[k] \in Nat
    <3>1. /\ text[u[k] + 1] = DataField /\ text[u[k] + 2] = Half(k, 1) /\ text[u[k] + 3] = Half(k, 2)
          /\ LineEndAt(text, u[k] + 4, v[k]) /\ v[k] <= Len(text) /\ v[k] \in Nat
      BY <1>8, <1>11
    <3> QED
      BY <1>11, <3>1
  <2>3. /\ 1 <= Len(chars) => chars[1] = DataField
        /\ 2 <= Len(chars) => chars[2] = Half(k, 1)
        /\ 3 <= Len(chars) => chars[3] = Half(k, 2)
    BY <1>4, <1>6, <2>2, SMTT(30)
  <2>4. m >= 4
    BY <1>5, <1>6, <2>3, PiecesDiffer, SMTT(30)
  <2>5. {1, 2, 3, 4} \subseteq 1..Len(chars) /\ 4 \in 1..Len(chars) /\ chars[4] = text[Target + 4]
    BY <1>4, <1>5, <1>6, <2>4, SMTT(30)
  <2>6. end = 4
    <3>1. chars[4] \in {CR, LF}
      BY <2>2, <2>5 DEF LineEndAt
    <3>2. \A i \in 1..(4 - 1) : i = 1 \/ i = 2 \/ i = 3
      OBVIOUS
    <3>3. \A i \in 1..(4 - 1) : chars[i] \notin {CR, LF}
      BY <1>6, <2>3, <2>5, <3>2, PiecesDiffer, SMTT(30)
    <3> QED
      BY <1>4, <2>5, <3>1, <3>3, FirstEnd
  <2>7. BufferInv' /\ Target' = v[k]
    BY <1>1, <1>4, <1>6, <2>2, <2>5, <2>6, EndTaken, ZenonT(40)
  <2>8. line = <<DataField, Half(k, 1), Half(k, 2)>>
    <3>1. 3 \in 1..Len(chars) /\ chars[1] = DataField /\ chars[2] = Half(k, 1) /\ chars[3] = Half(k, 2)
      BY <1>6, <2>3, <2>5
    <3> QED
      BY <1>4, <2>6, <3>1, Starts
  <2>9. DataOf(line) = << <<Half(k, 1), Half(k, 2)>> >> /\ line # <<>>
    BY <2>8, DataOfEach
  <2>10. dataLines' = << <<Half(k, 1), Half(k, 2)>> >> /\ stage' = "lines" /\ delivered' = delivered
    <3>1. dataLines' = dataLines \o DataOf(line) /\ stage' = "lines" /\ delivered' = delivered
      BY <2>9 DEF TakeLine, chars
    <3> QED
      BY <1>11, <2>9, <3>1
  <2>11. Standing(s, u, v)'
    BY <1>1, <1>7, <1>11, <2>7, <2>10 DEF Standing
  <2> QED
    BY <1>9, <2>10, <2>11
<1>12. CASE k <= n /\ dataLines = << <<Half(k, 1), Half(k, 2)>> >> /\ Target = v[k]
  <2>2. LineEndAt(text, Target + 1, s[k + 1]) /\ s[k + 1] <= Len(text) /\ s[k + 1] \in Nat
    BY <1>6, <1>8, <1>12 DEF MessageAt
  <2>3. 1 \in 1..Len(chars) /\ chars[1] = text[Target + 1]
    BY <1>4, <1>5, <1>6
  <2>4. end = 1
    <3>1. chars[1] \in {CR, LF} /\ \A i \in 1..(1 - 1) : chars[i] \notin {CR, LF}
      BY <2>2, <2>3 DEF LineEndAt
    <3> QED
      BY <1>4, <2>3, <3>1, FirstEnd
  <2>5. BufferInv' /\ Target' = s[k + 1]
    BY <1>1, <1>4, <1>6, <2>2, <2>3, <2>4, EndTaken, ZenonT(40)
  <2>6. line = <<>> /\ dataLines # <<>>
    BY <1>4, <1>12, <2>4
  <2>7. k \in 1..(MaxEvents + 2) /\ EventIn(dataLines) = k /\ EventIn(dataLines) # 0
    BY <1>7, <1>12, WireBounds, EventOfLine
  <2>8. dataLines' = <<>> /\ stage' = "yielded" /\ delivered' = Append(delivered, k)
    BY <2>6, <2>7 DEF TakeLine, chars
  <2>9. Len(delivered') + 1 = k + 1 /\ k + 1 \in 1..(Len(sent') + 1)
    BY <1>1, <1>7, <1>12, <2>8
  <2>10. Standing(s, u, v)'
    BY <2>5, <2>8, <2>9 DEF Standing
  <2> QED
    BY <1>9, <2>8, <2>10
<1> QED
  BY <1>10, <1>11, <1>12 DEF Standing

-----------------------------------------------------------------------------
(* The parser reads on, or meets the end of the stream *)

\* The n pieces that follow place a, place by place.
LEMMA SliceOf ==
  ASSUME NEW S, NEW t \in Seq(S), NEW a \in Nat, NEW n \in Nat \ {0}, a + n <= Len(t)
  PROVE  /\ SubSeq(t, a + 1, a + n) \in Seq(S) /\ Len(SubSeq(t, a + 1, a + n)) = n
         /\ \A i \in 1..n : SubSeq(t, a + 1, a + n)[i] = t[a + i]
<1> DEFINE first == a + 1
           last == a + n
<1>1. first \in Int /\ last \in Int /\ first <= last /\ last - first + 1 = n
      /\ \A i \in 1..n : first + i - 1 = a + i
  OBVIOUS
<1>2. \A i \in first..last : t[i] \in S
  OBVIOUS
<1> HIDE DEF first, last
<1>3. /\ SubSeq(t, first, last) \in Seq(S)
      /\ Len(SubSeq(t, first, last)) = IF first <= last THEN last - first + 1 ELSE 0
      /\ \A i \in 1..(last - first + 1) : SubSeq(t, first, last)[i] = t[first + i - 1]
  BY <1>1, <1>2, SubSeqProperties
<1> QED
  BY <1>1, <1>3 DEF first, last

\* A chunk read appends to the buffer the next pieces of the text.
LEMMA ChunkRead ==
  ASSUME text \in Seq(Pieces), NEW s, NEW u, NEW v, Layout(s, u, v), Standing(s, u, v),
         NEW n \in 1..MaxChunk, Read(n)
  PROVE  Layout(s, u, v)' /\ Standing(s, u, v)'
<1> DEFINE chunk == SubSeq(text, arrived + 1, arrived + n)
<1>1. /\ arrived' = arrived + n /\ arrived + n <= Len(text) /\ buffer' = buffer \o chunk
      /\ UNCHANGED <<text, sent, pendingLF, dataLines, delivered>>
  BY DEF Read, server
<1>2. BufferInv
  BY DEF Standing
<1>3. n \in Nat /\ arrived \in Nat /\ Len(text) \in Nat /\ Len(buffer) \in Nat /\ Len(buffer) <= arrived
      /\ buffer \in Seq(Pieces) /\ Past \in Nat /\ arrived = Past + Len(buffer)
  BY <1>2, WireBounds DEF BufferInv, Past
<1>4. chunk \in Seq(Pieces) /\ Len(chunk) = n /\ \A i \in 1..n : chunk[i] = text[arrived + i]
  <2>1. n \in Nat \ {0} /\ arrived \in Nat /\ arrived + n <= Len(text)
    BY <1>1, <1>3, WireBounds
  <2> QED
    BY <2>1, SliceOf
<1> HIDE DEF chunk
<1>5. /\ buffer' \in Seq(Pieces) /\ Len(buffer') = Len(buffer) + n
      /\ (\A i \in 1..Len(buffer) : buffer'[i] = buffer[i])
      /\ \A i \in 1..n : buffer'[Len(buffer) + i] = chunk[i]
  BY <1>1, <1>3, <1>4, Joins
<1>6. Past' = Past
  BY <1>1, <1>3, <1>5 DEF Past
<1>7. ASSUME NEW i \in 1..Len(buffer') PROVE buffer'[i] = text[Past + i]
  <2>1. CASE i <= Len(buffer)
    BY <1>2, <1>3, <1>5, <2>1 DEF BufferInv
  <2>2. CASE i > Len(buffer)
    <3>1. PICK j \in 1..n : i = Len(buffer) + j
      <4>1. i - Len(buffer) \in 1..n /\ i = Len(buffer) + (i - Len(buffer))
        BY <1>3, <1>5, <2>2
      <4> QED
        BY <4>1
    <3>2. Past + i = arrived + j
      BY <1>3, <3>1
    <3> QED
      BY <1>4, <1>5, <3>1, <3>2
  <2> QED
    BY <1>3, <1>5, <2>1, <2>2
<1>8. BufferInv' /\ Target' = Target
  <2>1. arrived' \in Nat /\ arrived' <= Len(text') /\ Len(buffer') <= arrived'
    BY <1>1, <1>3, <1>5
  <2> QED
    BY <1>1, <1>2, <1>5, <1>6, <1>7, <2>1 DEF BufferInv, Target
<1> QED
  BY <1>1, <1>8 DEF Layout, Standing

\* A stream that ends behind the last message leaves nothing over, and one that
\* was cut off never gives an event it did not have.
LEMMA StreamOver ==
  ASSUME text \in Seq(Pieces), Len(sent) \in Nat, Len(sent) <= MaxEvents + 2, delivered \in Seq(Nat),
         NEW s, NEW u, NEW v, Layout(s, u, v), Standing(s, u, v), Exhausted, EndOfStream
  PROVE  \/ /\ stage' = "finished" /\ delivered' = delivered
            /\ arrived = Len(text) => Len(delivered) = Len(sent)
         \/ stage' = "thrown" /\ delivered' = delivered
         \/ stage' = "tail" /\ arrived < Len(text) /\ delivered' = Append(delivered, Len(delivered) + 1)
<1> DEFINE n == Len(sent)
           k == Len(delivered) + 1
           lines == dataLines \o DataOf(buffer)
<1>1. /\ lines = <<>> => stage' = "finished" /\ delivered' = delivered
      /\ lines # <<>> /\ EventIn(lines) = 0 => stage' = "thrown" /\ delivered' = delivered
      /\ lines # <<>> /\ EventIn(lines) # 0
           => stage' = "tail" /\ delivered' = Append(delivered, EventIn(lines))
  <2>1. Rest(buffer) = buffer
    BY DEF Exhausted, Rest
  <2> QED
    BY <2>1 DEF EndOfStream
<1>2. /\ BufferInv /\ arrived \in Nat /\ arrived <= Len(text) /\ Len(text) \in Nat
      /\ buffer \in Seq(Pieces) /\ Len(buffer) \in Nat /\ Past \in Nat /\ arrived = Past + Len(buffer)
      /\ \A i \in 1..Len(buffer) : buffer[i] = text[Past + i]
  BY DEF Standing, BufferInv, Past
<1>3. k \in 1..(n + 1) /\ k \in Nat
  BY DEF Standing
<1>4. ASSUME k <= n
      PROVE  /\ s[k] \in Nat /\ u[k] \in Nat /\ v[k] \in Nat
             /\ s[k] + 2 <= Len(text) /\ u[k] + 4 < Len(text) /\ v[k] + 1 <= Len(text)
             /\ text[s[k] + 1] = EventField /\ text[s[k] + 2] \in {CR, LF}
             /\ text[u[k] + 1] = DataField /\ text[u[k] + 2] = Half(k, 1) /\ text[u[k] + 3] = Half(k, 2)
             /\ text[u[k] + 4] \in {CR, LF} /\ text[v[k] + 1] \in {CR, LF}
  <2>1. /\ s[k] \in Nat /\ u[k] \in Nat /\ v[k] \in Nat /\ s[k + 1] \in Nat
        /\ MessageAt(text, k, s[k], u[k], v[k], s[k + 1])
    BY <1>3, <1>4 DEF Layout
  <2>2. PICK a \in Nat, i \in Nat, j \in Nat, b \in Nat :
          a = s[k] /\ i = u[k] /\ j = v[k] /\ b = s[k + 1]
    BY <2>1
  <2>3. /\ a + 2 <= i /\ i + 4 <= j /\ j + 1 <= b /\ b <= Len(text)
        /\ text[a + 1] = EventField /\ LineEndAt(text, a + 2, i)
        /\ text[i + 1] = DataField /\ text[i + 2] = Half(k, 1) /\ text[i + 3] = Half(k, 2)
        /\ LineEndAt(text, i + 4, j) /\ LineEndAt(text, j + 1, b)
    BY <2>1, <2>2, Zenon DEF MessageAt
  <2>4. \A p, q : LineEndAt(text, p, q) => text[p] \in {CR, LF}
    BY DEF LineEndAt
  <2>5. a + 2 <= Len(text) /\ i + 4 < Len(text) /\ j + 1 <= Len(text)
    <3>1. a + 2 <= i /\ i + 4 <= j /\ j + 1 <= b /\ b <= Len(text)
      BY <2>3, Zenon
    <3>2. Len(text) \in Nat
      BY <1>2, Zenon
    <3> QED
      BY <3>1, <3>2
  <2> QED
    BY <2>2, <2>3, <2>4, <2>5, Zenon
<1>5. k = n + 1 => s[k] = Len(text) /\ Len(delivered) = n
  BY DEF Layout
<1>6. \A i \in 1..Len(buffer) : text[Past + i] \notin {CR, LF}
  BY <1>2, SMTT(30) DEF Exhausted, EndsIn
<1>7. CASE buffer = <<>>
  <2>1. Target = arrived \/ (Target = arrived + 1 /\ arrived < Len(text))
    BY <1>2, <1>7 DEF Target
  <2>2. lines = dataLines
    <3>1. DataOf(buffer) = <<>>
      BY <1>7, DataOfEach
    <3> QED
      BY <3>1 DEF Standing
  <2>3. CASE dataLines = <<>>
    <3>1. Target = s[k] \/ (k <= n /\ Target = u[k])
      BY <2>3 DEF Standing
    <3>2. k <= n => Target # Len(text) /\ Target # Len(text) + 1
      BY <1>2, <1>4, <3>1, SMTT(30)
    <3>3. arrived = Len(text) => ~(k <= n)
      BY <1>2, <2>1, <3>2
    <3>4. ~(k <= n) => k = n + 1
      BY <1>3
    <3>5. arrived = Len(text) => Len(delivered) = n
      BY <1>5, <3>3, <3>4
    <3> QED
      BY <1>1, <2>2, <2>3, <3>5
  <2>4. CASE dataLines # <<>>
    <3>1. k <= n /\ dataLines = << <<Half(k, 1), Half(k, 2)>> >> /\ Target = v[k]
      BY <2>4 DEF Standing
    <3>2. EventIn(lines) = k /\ EventIn(lines) # 0
      BY <1>3, <2>2, <3>1, WireBounds, EventOfLine
    <3>3. arrived < Len(text)
      BY <1>2, <1>4, <2>1, <3>1
    <3> QED
      BY <1>1, <2>2, <2>4, <3>2, <3>3
  <2> QED
    BY <2>3, <2>4
<1>8. CASE buffer # <<>>
  <2>1. Len(buffer) >= 1 /\ Target = Past /\ Past < Len(text) /\ 1 \in 1..Len(buffer)
    BY <1>2, <1>8 DEF Target, Exhausted
  <2>2. buffer[1] = text[Target + 1] /\ text[Target + 1] \notin {CR, LF}
    BY <1>2, <1>6, <2>1
  <2>3. \/ dataLines = <<>> /\ Target = s[k]
        \/ k <= n /\ dataLines = <<>> /\ Target = u[k]
        \/ k <= n /\ Target = v[k]
    BY DEF Standing
  <2>4. k <= n
    BY <1>2, <1>3, <1>5, <2>1, <2>3
  <2>5. CASE dataLines = <<>> /\ Target = s[k]
    <3>1. Head(buffer) = EventField
      <4>1. text[Target + 1] = EventField
        BY <1>4, <2>4, <2>5, Zenon
      <4>2. Head(buffer) = buffer[1]
        BY <1>2, <1>8
      <4> QED
        BY <2>2, <4>1, <4>2, Zenon
    <3>2. DataOf(buffer) = <<>>
      BY <3>1, PiecesDiffer DEF DataOf, DataField
    <3>3. lines = <<>>
      BY <2>5, <3>2
    <3>4. arrived # Len(text)
      <4>1. arrived = Len(text) => 2 \in 1..Len(buffer)
        <5>1. Past + 2 <= Len(text)
          BY <1>4, <2>1, <2>4, <2>5
        <5> QED
          BY <1>2, <5>1
      <4> QED
        BY <1>4, <1>6, <2>1, <2>4, <2>5, <4>1
    <3> QED
      BY <1>1, <3>3, <3>4
  <2>6. CASE dataLines = <<>> /\ Target = u[k]
    <3>1. /\ buffer[1] = DataField
          /\ 2 <= Len(buffer) => buffer[2] = Half(k, 1)
          /\ 3 <= Len(buffer) => buffer[3] = Half(k, 2)
          /\ ~(4 <= Len(buffer))
      <4>1. /\ 2 <= Len(buffer) => 2 \in 1..Len(buffer)
            /\ 3 <= Len(buffer) => 3 \in 1..Len(buffer)
            /\ 4 <= Len(buffer) => 4 \in 1..Len(buffer)
        BY <1>2
      <4> QED
        BY <1>2, <1>4, <1>6, <2>1, <2>2, <2>4, <2>6, <4>1, ZenonT(40)
    <3>2. DataOf(buffer) = <<Tail(buffer)>>
      BY <1>2, <1>8, <3>1, SMTT(30) DEF DataOf, DataField
    <3>3. lines = <<Tail(buffer)>> /\ lines # <<>>
      BY <2>6, <3>2
    <3>4. CASE Len(buffer) = 3
      <4>1. buffer = <<DataField, Half(k, 1), Half(k, 2)>>
        <5>1. 3 \in 1..Len(buffer) /\ SubSeq(buffer, 1, 4 - 1) = buffer
          BY <1>2, <3>4
        <5> QED
          BY <1>2, <3>1, <3>4, <5>1, Starts
      <4>2. Tail(buffer) = <<Half(k, 1), Half(k, 2)>>
        BY <4>1
      <4>3. EventIn(lines) = k /\ EventIn(lines) # 0
        <5>1. k \in 1..(MaxEvents + 2) /\ k # 0
          BY <1>3, <2>4, WireBounds
        <5>2. lines = << <<Half(k, 1), Half(k, 2)>> >>
          BY <3>3, <4>2, Zenon
        <5> QED
          BY <5>1, <5>2, EventOfLine, Zenon
      <4>4. arrived < Len(text)
        <5>1. Past + 4 < Len(text)
          BY <1>4, <2>1, <2>4, <2>6
        <5> QED
          BY <1>2, <3>4, <5>1
      <4> QED
        BY <1>1, <3>3, <4>3, <4>4
    <3>5. CASE Len(buffer) # 3
      <4>1. Len(Tail(buffer)) # 2
        BY <1>2, <1>8, <3>5
      <4>2. EventIn(lines) = 0
        BY <3>3, <4>1, EventOfLine
      <4> QED
        BY <1>1, <3>3, <4>2
    <3> QED
      BY <3>4, <3>5
  <2>7. CASE Target = v[k]
    BY <1>4, <2>2, <2>4, <2>7
  <2> QED
    BY <2>3, <2>5, <2>6, <2>7
<1> QED
  BY <1>7, <1>8

-----------------------------------------------------------------------------
(* One terminal event *)

Types == {"step", "done", "error"}
GoesOn == Len(sent) <= MaxEvents /\ \A e \in 1..Len(sent) : ~Terminal(e)
HasEnded == sent # <<>> /\ Terminal(Len(sent))
HasDone == /\ sent # <<>> /\ sent[Len(sent)] = "done" /\ Len(sent) <= MaxEvents + 1
           /\ \A e \in 1..Len(sent) : Terminal(e) => e = Len(sent)

\* What the errored flag stands for: while it is not set no terminal event was
\* sent, or a done event was, after which only wrapping code raises; once it is
\* set, and in a response that was ended, the last event is terminal.
ServerInv ==
  /\ sent \in Seq(Types) /\ text \in Seq(Pieces) /\ Len(sent) <= MaxEvents + 2
  /\ \A e \in 1..Len(sent) : Terminal(e) => e = Len(sent) \/ RaisedAfter(e)
  /\ source = "running" => ~errored /\ GoesOn
  /\ source = "raising" => (errored /\ HasEnded) \/ (~errored /\ (GoesOn \/ (wrapped /\ HasDone)))
  /\ source = "ended" => (errored /\ HasEnded) \/ (~errored /\ HasDone)
  /\ source = "failed" => response = "torn" \/ HasEnded
  /\ response = "ended" => source \in {"ended", "failed"}

\* What the consumer has, and where the parser stands.
ParserInv ==
  /\ delivered \in Seq(Nat) /\ \A e \in 1..Len(delivered) : delivered[e] = e
  /\ stage \in {"read", "lines", "yielded"} => \E s, u, v : Layout(s, u, v) /\ Standing(s, u, v)
  /\ stage = "read" => Exhausted
  /\ stage = "tail" => response \notin {"open", "ended"}
  /\ stage = "finished" => response # "open" /\ (response = "ended" => Len(delivered) = Len(sent))

LEMMA Written ==
  ASSUME ServerInv, GoesOn, NEW type \in Types, NEW ends \in Ends, Write(type, ends)
  PROVE  /\ sent' \in Seq(Types) /\ text' \in Seq(Pieces) /\ Len(sent') = Len(sent) + 1
         /\ Len(sent') <= MaxEvents + 1
         /\ \A e \in 1..Len(sent') : Terminal(e)' => e = Len(sent')
         /\ type = "step" /\ Len(sent) < MaxEvents => GoesOn'
         /\ type # "step" => HasEnded'
         /\ type = "done" => HasDone'
<1>1. /\ sent \in Seq(Types) /\ text \in Seq(Pieces) /\ Len(sent) \in Nat
      /\ MaxEvents \in Nat /\ Len(sent) <= MaxEvents /\ \A e \in 1..Len(sent) : ~Terminal(e)
  BY WireBounds DEF ServerInv, GoesOn
<1>2. /\ sent' \in Seq(Types) /\ Len(sent') = Len(sent) + 1 /\ sent'[Len(sent) + 1] = type
      /\ \A e \in 1..Len(sent) : sent'[e] = sent[e]
  BY <1>1 DEF Write
<1>3. text' \in Seq(Pieces)
  <2>1. Formatted(Len(sent) + 1, ends) \in Seq(Pieces)
    <3>1. Len(sent) + 1 \in Nat
      BY <1>1
    <3> QED
      BY <3>1, FormattedParts
  <2> HIDE DEF Formatted
  <2>2. text' = text \o Formatted(Len(sent) + 1, ends)
    BY DEF Write
  <2> QED
    BY <1>1, <2>1, <2>2, Joins
<1>4. \A e \in 1..Len(sent') : e \in 1..Len(sent) \/ e = Len(sent')
  BY <1>1, <1>2
<1>5. \A e \in 1..Len(sent) : ~Terminal(e)'
  BY <1>1, <1>2 DEF Terminal
<1>6. Terminal(Len(sent))' <=> type # "step"
  <2>1. sent'[Len(sent')] = type
    BY <1>2
  <2> QED
    BY <2>1 DEF Terminal, Types
<1>7. type = "step" /\ Len(sent) < MaxEvents => GoesOn'
  <2>1. Len(sent) < MaxEvents => Len(sent') <= MaxEvents
    BY <1>1, <1>2
  <2>2. type = "step" => \A e \in 1..Len(sent') : ~Terminal(e)'
    <3>1. type = "step" => \A e : e = Len(sent') => ~Terminal(e)'
      BY <1>6 DEF Terminal
    <3> QED
      BY <1>4, <1>5, <3>1
  <2> QED
    BY <2>1, <2>2 DEF GoesOn
<1>8. type # "step" => HasEnded'
  BY <1>1, <1>2, <1>6 DEF HasEnded
<1>9. Len(sent') <= MaxEvents + 1
  BY <1>1, <1>2
<1>10. \A e \in 1..Len(sent') : Terminal(e)' => e = Len(sent')
  BY <1>4, <1>5
<1>11. type = "done" => HasDone'
  BY <1>1, <1>2, <1>9, <1>10 DEF HasDone
<1> QED
  BY <1>2, <1>3, <1>7, <1>8, <1>9, <1>10, <1>11

\* The error that follows a done event.
LEMMA WrittenAfter ==
  ASSUME ServerInv, HasDone, wrapped, wrapped' = wrapped, NEW ends \in Ends, Write("error", ends)
  PROVE  /\ sent' \in Seq(Types) /\ text' \in Seq(Pieces) /\ Len(sent') <= MaxEvents + 2
         /\ \A e \in 1..Len(sent') : Terminal(e)' => e = Len(sent') \/ RaisedAfter(e)'
         /\ HasEnded'
<1>1. /\ sent \in Seq(Types) /\ text \in Seq(Pieces) /\ Len(sent) \in Nat /\ Len(sent) # 0
      /\ MaxEvents \in Nat /\ Len(sent) <= MaxEvents + 1 /\ sent[Len(sent)] = "done"
      /\ \A e \in 1..Len(sent) : Terminal(e) => e = Len(sent)
  BY WireBounds DEF ServerInv, HasDone
<1>2. /\ sent' \in Seq(Types) /\ Len(sent') = Len(sent) + 1 /\ sent'[Len(sent) + 1] = "error"
      /\ \A e \in 1..Len(sent) : sent'[e] = sent[e]
  BY <1>1 DEF Write, Types
<1>3. text' \in Seq(Pieces)
  <2>1. Formatted(Len(sent) + 1, ends) \in Seq(Pieces)
    <3>1. Len(sent) + 1 \in Nat
      BY <1>1
    <3> QED
      BY <3>1, FormattedParts
  <2> HIDE DEF Formatted
  <2>2. text' = text \o Formatted(Len(sent) + 1, ends)
    BY DEF Write
  <2> QED
    BY <1>1, <2>1, <2>2, Joins
<1>4. ASSUME NEW e \in 1..Len(sent'), Terminal(e)' PROVE e = Len(sent') \/ RaisedAfter(e)'
  <2>1. e \in 1..Len(sent) \/ e = Len(sent')
    BY <1>1, <1>2
  <2>2. CASE e \in 1..Len(sent)
    <3>1. e = Len(sent)
      BY <1>1, <1>2, <1>4, <2>2 DEF Terminal
    <3> QED
      BY <1>1, <1>2, <3>1 DEF RaisedAfter
  <2> QED
    BY <2>1, <2>2
<1>5. HasEnded'
  BY <1>1, <1>2 DEF HasEnded, Terminal
<1> QED
  BY <1>1, <1>2, <1>3, <1>4, <1>5

LEMMA ServerStarts == WireInit => ServerInv
<1> SUFFICES ASSUME WireInit PROVE ServerInv
  OBVIOUS
<1>1. Len(sent) = 0 /\ sent \in Seq(Types) /\ text \in Seq(Pieces) /\ 1..Len(sent) = {}
  BY DEF WireInit
<1> QED
  BY <1>1, WireBounds DEF WireInit, ServerInv, GoesOn

LEMMA ServerSteps == ServerInv /\ [WireNext]_wireVars => ServerInv'
<1> SUFFICES ASSUME ServerInv, [WireNext]_wireVars PROVE ServerInv'
  OBVIOUS
<1>1. ASSUME UNCHANGED <<wrapped, sent, text>>
      PROVE  /\ sent' \in Seq(Types) /\ text' \in Seq(Pieces) /\ Len(sent') <= MaxEvents + 2
             /\ \A e \in 1..Len(sent') : Terminal(e)' => e = Len(sent') \/ RaisedAfter(e)'
             /\ GoesOn' <=> GoesOn
             /\ HasEnded' <=> HasEnded
             /\ HasDone' <=> HasDone
  BY <1>1 DEF ServerInv, Terminal, RaisedAfter, GoesOn, HasEnded, HasDone
<1>0. MaxEvents \in Nat /\ \A k \in Nat : k <= MaxEvents + 1 => k <= MaxEvents + 2
  BY WireBounds
<1>2. ASSUME NEW type \in {"step", "done"}, NEW ends \in Ends, Emit(type, ends) PROVE ServerInv'
  <2>1. /\ source = "running" /\ response = "open" /\ Write(type, ends) /\ errored' = FALSE
        /\ source' = (IF type = "done" THEN "ended" ELSE source) /\ response' = response
        /\ type = "step" => Len(sent) < MaxEvents
    BY <1>2 DEF Emit
  <2>2. GoesOn /\ type \in Types
    BY <2>1 DEF ServerInv, Types
  <2>3. /\ sent' \in Seq(Types) /\ text' \in Seq(Pieces) /\ Len(sent') \in Nat /\ Len(sent') <= MaxEvents + 2
        /\ \A e \in 1..Len(sent') : Terminal(e)' => e = Len(sent')
        /\ type = "step" => GoesOn'
        /\ type = "done" => HasDone'
    BY <1>0, <2>1, <2>2, Written
  <2> QED
    BY <2>1, <2>3 DEF ServerInv
<1>3. ASSUME NEW expected \in BOOLEAN, NEW ends \in Ends, FailRun(expected, ends) PROVE ServerInv'
  <2>1. /\ source = "running" /\ response = "open" /\ Write("error", ends) /\ errored' = TRUE
        /\ source' \in {"ended", "raising"} /\ response' = response
    BY <1>3 DEF FailRun
  <2>2. GoesOn /\ "error" \in Types
    BY <2>1 DEF ServerInv, Types
  <2>3. /\ sent' \in Seq(Types) /\ text' \in Seq(Pieces) /\ Len(sent') \in Nat /\ Len(sent') <= MaxEvents + 2
        /\ \A e \in 1..Len(sent') : Terminal(e)' => e = Len(sent')
        /\ HasEnded'
    BY <1>0, <2>1, <2>2, Written
  <2> QED
    BY <2>1, <2>3 DEF ServerInv
<1>4. CASE Break
  <2>1. /\ wrapped /\ source \in {"running", "ended"} /\ response = "open" /\ source' = "raising"
        /\ UNCHANGED <<wrapped, errored, sent, text, response>>
    BY <1>4 DEF Break
  <2> QED
    BY <1>1, <2>1 DEF ServerInv
<1>5. ASSUME NEW ends \in Ends, HandleError(ends) PROVE ServerInv'
  <2>1. source = "raising" /\ response = "open" /\ source' = "failed" /\ UNCHANGED <<wrapped, errored, response>>
    BY <1>5 DEF HandleError
  <2>2. CASE errored
    <3>1. HasEnded /\ UNCHANGED <<sent, text>>
      BY <1>5, <2>1, <2>2 DEF HandleError, ServerInv
    <3> QED
      BY <1>1, <2>1, <3>1 DEF ServerInv
  <2>3. CASE ~errored
    <3>1. Write("error", ends) /\ "error" \in Types /\ (GoesOn \/ (wrapped /\ HasDone))
      BY <1>5, <2>1, <2>3 DEF HandleError, ServerInv, Types
    <3>2. /\ sent' \in Seq(Types) /\ text' \in Seq(Pieces) /\ Len(sent') <= MaxEvents + 2
          /\ \A e \in 1..Len(sent') : Terminal(e)' => e = Len(sent') \/ RaisedAfter(e)'
          /\ HasEnded'
      <4>1. CASE GoesOn
        <5>1. /\ sent' \in Seq(Types) /\ text' \in Seq(Pieces)
              /\ Len(sent') \in Nat /\ Len(sent') <= MaxEvents + 1
              /\ \A e \in 1..Len(sent') : Terminal(e)' => e = Len(sent')
              /\ HasEnded'
          BY <3>1, <4>1, Written
        <5> QED
          BY <1>0, <5>1
      <4>2. CASE wrapped /\ HasDone
        BY <2>1, <3>1, <4>2, WrittenAfter
      <4> QED
        BY <3>1, <4>1, <4>2
    <3> QED
      BY <2>1, <3>2 DEF ServerInv
  <2> QED
    BY <2>2, <2>3
<1>6. CASE Propagate \/ Disconnect
  <2>1. /\ response = "open" /\ response' = "torn" /\ source' \in {"failed", "closed"}
        /\ UNCHANGED <<wrapped, errored, sent, text>>
    BY <1>6 DEF Propagate, Disconnect
  <2> QED
    BY <1>1, <2>1 DEF ServerInv
<1>7. CASE EndResponse
  <2>1. /\ source \in {"ended", "failed"} /\ response = "open" /\ response' = "ended"
        /\ UNCHANGED <<wrapped, source, errored, sent, text>>
    BY <1>7 DEF EndResponse
  <2> QED
    BY <1>1, <2>1 DEF ServerInv
<1>8. CASE Parse \/ Leave \/ UNCHANGED wireVars
  <2>1. UNCHANGED <<wrapped, source, errored, sent, text, response>>
    BY <1>8 DEF Parse, Read, TakeLine, Continue, EndOfStream, ReadFails, Leave, server, wireVars
  <2> QED
    BY <1>1, <2>1 DEF ServerInv
<1> QED
  BY <1>2, <1>3, <1>4, <1>5, <1>6, <1>7, <1>8 DEF WireNext, Server, Finish

LEMMA ParserStarts == WireInit => ParserInv
<1> SUFFICES ASSUME WireInit PROVE ParserInv
  OBVIOUS
<1> DEFINE none == [e \in 1..0 |-> 0]
           first == [e \in 1..1 |-> 0]
<1>1. /\ sent = <<>> /\ text = <<>> /\ arrived = 0 /\ stage = "read" /\ buffer = <<>>
      /\ pendingLF = FALSE /\ dataLines = <<>> /\ delivered = <<>>
  BY DEF WireInit
<1>2. Len(sent) = 0 /\ Len(text) = 0 /\ Len(buffer) = 0 /\ Len(delivered) = 0
  BY <1>1
<1>3. Layout(first, none, none)
  <2>1. first \in [1..1 -> Nat] /\ none \in [1..0 -> Nat] /\ first[1] = 0 /\ first[0 + 1] = 0
    OBVIOUS
  <2>2. 1..0 = {}
    OBVIOUS
  <2> HIDE DEF first, none
  <2> QED
    BY <1>2, <2>1, <2>2 DEF Layout
<1>4. Standing(first, none, none)
  <2>1. buffer \in Seq(Pieces) /\ 1..Len(buffer) = {}
    BY <1>1, <1>2
  <2>2. BufferInv
    <3>0. pendingLF \in BOOLEAN
      BY <1>1, Zenon
    <3>1. 0 \in Nat /\ 0 <= 0 /\ pendingLF \in BOOLEAN
      BY <3>0
    <3>2. arrived \in Nat /\ arrived <= Len(text) /\ Len(buffer) <= arrived
      BY <1>1, <1>2, <3>1, Zenon
    <3> QED
      BY <2>1, <3>1, <3>2, Zenon DEF BufferInv
  <2>3. Target = 0
    <3>1. ~pendingLF
      BY <1>1
    <3>2. 0 - 0 = 0
      OBVIOUS
    <3> QED
      BY <1>1, <1>2, <3>1, <3>2, Zenon DEF Target, Past
  <2>4. first[1] = 0
    OBVIOUS
  <2> HIDE DEF first, none
  <2> QED
    BY <1>1, <1>2, <2>2, <2>3, <2>4 DEF Standing
<1> HIDE DEF first, none
<1>5. Exhausted
  BY <1>1 DEF Exhausted, EndsIn
<1>6. delivered \in Seq(Nat) /\ 1..Len(delivered) = {}
  BY <1>1, <1>2
<1> QED
  BY <1>1, <1>3, <1>4, <1>5, <1>6 DEF ParserInv

\* The server's steps leave the parser alone, and write while the response is open.
LEMMA ServerWrites ==
  Server \/ Disconnect =>
    /\ UNCHANGED <<arrived, stage, buffer, pendingLF, dataLines, delivered>>
    /\ response = "open" \/ UNCHANGED <<response, sent, text>>
    /\ \/ UNCHANGED <<sent, text>>
       \/ \E type \in Types, ends \in Ends : Write(type, ends)
<1>1. ASSUME NEW type \in {"step", "done"}, NEW ends \in Ends, Emit(type, ends)
      PROVE  /\ UNCHANGED <<arrived, stage, buffer, pendingLF, dataLines, delivered>>
             /\ response = "open" /\ type \in Types /\ Write(type, ends)
  BY <1>1 DEF Emit, parser, Types
<1>2. ASSUME NEW expected \in BOOLEAN, NEW ends \in Ends, FailRun(expected, ends)
      PROVE  /\ UNCHANGED <<arrived, stage, buffer, pendingLF, dataLines, delivered>>
             /\ response = "open" /\ "error" \in Types /\ Write("error", ends)
  BY <1>2 DEF FailRun, parser, Types
<1>3. ASSUME NEW ends \in Ends, HandleError(ends)
      PROVE  /\ UNCHANGED <<arrived, stage, buffer, pendingLF, dataLines, delivered>>
             /\ response = "open" /\ "error" \in Types
             /\ UNCHANGED <<sent, text>> \/ Write("error", ends)
  BY <1>3 DEF HandleError, parser, Types
<1>4. ASSUME Break \/ Propagate \/ EndResponse \/ Disconnect
      PROVE  /\ UNCHANGED <<arrived, stage, buffer, pendingLF, dataLines, delivered>>
             /\ response = "open" /\ UNCHANGED <<sent, text>>
  BY <1>4 DEF Break, Propagate, EndResponse, Disconnect, parser
<1> QED
  BY <1>1, <1>2, <1>3, <1>4 DEF Server, Finish

LEMMA ParserSteps == ServerInv /\ ParserInv /\ [WireNext]_wireVars => ParserInv'
<1> SUFFICES ASSUME ServerInv, ParserInv, [WireNext]_wireVars PROVE ParserInv'
  OBVIOUS
<1>1. /\ text \in Seq(Pieces) /\ sent \in Seq(Types) /\ Len(sent) \in Nat /\ Len(sent) <= MaxEvents + 2
      /\ delivered \in Seq(Nat) /\ Len(delivered) \in Nat
      /\ \A e \in 1..Len(delivered) : delivered[e] = e
  BY DEF ServerInv, ParserInv
<1>2. ASSUME delivered' = Append(delivered, Len(delivered) + 1)
      PROVE  delivered' \in Seq(Nat) /\ \A e \in 1..Len(delivered') : delivered'[e] = e
  <2>1. /\ delivered' \in Seq(Nat) /\ Len(delivered') = Len(delivered) + 1
        /\ delivered'[Len(delivered) + 1] = Len(delivered) + 1
        /\ \A e \in 1..Len(delivered) : delivered'[e] = delivered[e]
    BY <1>1, <1>2
  <2>2. \A e \in 1..Len(delivered') : e \in 1..Len(delivered) \/ e = Len(delivered) + 1
    BY <1>1, <2>1
  <2> QED
    BY <1>1, <2>1, <2>2
<1>3. CASE Server \/ Disconnect
  <2>1. /\ UNCHANGED <<arrived, stage, buffer, pendingLF, dataLines, delivered>>
        /\ response = "open" \/ UNCHANGED <<response, sent, text>>
    BY <1>3, ServerWrites
  <2>2. ASSUME NEW s, NEW u, NEW v, Layout(s, u, v), Standing(s, u, v)
        PROVE  \E s2, u2, v2 : Layout(s2, u2, v2)' /\ Standing(s2, u2, v2)'
    <3>1. CASE UNCHANGED <<sent, text>>
      <4>1. Layout(s, u, v)' /\ Standing(s, u, v)'
        BY <2>1, <2>2, <3>1 DEF Layout, Standing, BufferInv, Target, Past
      <4> QED
        BY <4>1
    <3>2. ASSUME NEW type \in Types, NEW ends \in Ends, Write(type, ends)
          PROVE  \E s2, u2, v2 : Layout(s2, u2, v2)' /\ Standing(s2, u2, v2)'
      <4>1. Len(sent') = Len(sent) + 1
        BY <1>1, <3>2 DEF Write
      <4> QED
        BY <1>1, <2>1, <2>2, <3>2, <4>1, TextGrows
    <3> QED
      BY <1>3, <3>1, <3>2, ServerWrites
  <2>3. stage \in {"read", "lines", "yielded"} =>
          \E s, u, v : Layout(s, u, v)' /\ Standing(s, u, v)'
    BY <2>2 DEF ParserInv
  <2>4. stage = "read" => Exhausted'
    BY <2>1 DEF ParserInv, Exhausted
  <2>5. /\ stage = "tail" => response' \notin {"open", "ended"}
        /\ stage = "finished" => response' # "open" /\ (response' = "ended" => Len(delivered') = Len(sent'))
    BY <2>1 DEF ParserInv
  <2> QED
    BY <1>1, <2>1, <2>3, <2>4, <2>5 DEF ParserInv
<1>4. ASSUME NEW n \in 1..MaxChunk, Read(n) PROVE ParserInv'
  <2>1. stage = "read" /\ stage' = "lines" /\ delivered' = delivered
    BY <1>4 DEF Read
  <2>2. PICK s, u, v : Layout(s, u, v) /\ Standing(s, u, v)
    BY <2>1 DEF ParserInv
  <2>3. Layout(s, u, v)' /\ Standing(s, u, v)'
    BY <1>1, <1>4, <2>2, ChunkRead
  <2> QED
    BY <1>1, <2>1, <2>3 DEF ParserInv
<1>5. CASE TakeLine
  <2>1. stage = "lines"
    BY <1>5 DEF TakeLine
  <2>2. PICK s, u, v : Layout(s, u, v) /\ Standing(s, u, v)
    BY <2>1 DEF ParserInv
  <2>3. CASE EndsIn(Rest(buffer)) = {}
    <3>1. stage' = "read" /\ delivered' = delivered /\ Layout(s, u, v)' /\ Standing(s, u, v)' /\ Exhausted'
      BY <1>1, <1>5, <2>2, <2>3, NoLine
    <3> QED
      BY <1>1, <3>1 DEF ParserInv
  <2>4. CASE EndsIn(Rest(buffer)) # {}
    <3>1. /\ Layout(s, u, v)' /\ Standing(s, u, v)'
          /\ \/ stage' = "lines" /\ delivered' = delivered
             \/ stage' = "yielded" /\ delivered' = Append(delivered, Len(delivered) + 1)
      BY <1>1, <1>5, <2>2, <2>4, LineTaken
    <3> QED
      BY <1>1, <1>2, <3>1 DEF ParserInv
  <2> QED
    BY <2>3, <2>4
<1>6. CASE Continue
  <2>1. /\ stage \in {"yielded", "tail"} /\ stage' = (IF stage = "tail" THEN "finished" ELSE "lines")
        /\ UNCHANGED <<sent, text, response, arrived, buffer, pendingLF, dataLines, delivered>>
    BY <1>6 DEF Continue, server
  <2>2. CASE stage = "yielded"
    <3>1. PICK s, u, v : Layout(s, u, v) /\ Standing(s, u, v)
      BY <2>2 DEF ParserInv
    <3>2. Layout(s, u, v)' /\ Standing(s, u, v)'
      BY <2>1, <3>1 DEF Layout, Standing, BufferInv, Target, Past
    <3> QED
      BY <1>1, <2>1, <2>2, <3>2 DEF ParserInv
  <2>3. CASE stage = "tail"
    BY <1>1, <2>1, <2>3 DEF ParserInv
  <2> QED
    BY <2>1, <2>2, <2>3
<1>7. CASE Leave
  <2>1. stage' = "left" /\ delivered' = delivered
    BY <1>7 DEF Leave
  <2> QED
    BY <1>1, <2>1 DEF ParserInv
<1>8. CASE EndOfStream
  <2>1. /\ stage = "read" /\ response # "open" /\ (response = "ended" => arrived = Len(text))
        /\ UNCHANGED <<sent, response>>
    BY <1>8 DEF EndOfStream, server
  <2>2. PICK s, u, v : Layout(s, u, v) /\ Standing(s, u, v)
    BY <2>1 DEF ParserInv
  <2>3. Exhausted
    BY <2>1 DEF ParserInv
  <2>4. \/ /\ stage' = "finished" /\ delivered' = delivered
           /\ arrived = Len(text) => Len(delivered) = Len(sent)
        \/ stage' = "thrown" /\ delivered' = delivered
        \/ stage' = "tail" /\ arrived < Len(text) /\ delivered' = Append(delivered, Len(delivered) + 1)
    BY <1>1, <1>8, <2>2, <2>3, StreamOver
  <2>5. arrived < Len(text) => arrived # Len(text)
    BY <1>1, <2>2 DEF Standing, BufferInv
  <2> QED
    BY <1>1, <1>2, <2>1, <2>4, <2>5 DEF ParserInv
<1>10. CASE ReadFails
  <2>1. stage' = "thrown" /\ delivered' = delivered
    BY <1>10 DEF ReadFails
  <2> QED
    BY <1>1, <2>1 DEF ParserInv
<1>9. CASE UNCHANGED wireVars
  <2>1. UNCHANGED <<sent, text, response, arrived, stage, buffer, pendingLF, dataLines, delivered>>
    BY <1>9 DEF wireVars, server, parser
  <2>2. ASSUME NEW s, NEW u, NEW v, Layout(s, u, v), Standing(s, u, v)
        PROVE  Layout(s, u, v)' /\ Standing(s, u, v)'
    BY <2>1, <2>2 DEF Layout, Standing, BufferInv, Target, Past
  <2>3. Exhausted' <=> Exhausted
    BY <2>1 DEF Exhausted
  <2> QED
    BY <1>1, <2>1, <2>2, <2>3 DEF ParserInv
<1> QED
  BY <1>3, <1>4, <1>5, <1>6, <1>7, <1>8, <1>9, <1>10 DEF WireNext, Parse

\* What the two invariants say of what the consumer gets.
LEMMA TerminalEventComes == ServerInv /\ ParserInv => OneTerminalEvent
<1> SUFFICES ASSUME ServerInv, ParserInv PROVE OneTerminalEvent
  OBVIOUS
<1>1. /\ delivered \in Seq(Nat) /\ Len(delivered) \in Nat /\ DOMAIN delivered = 1..Len(delivered)
      /\ \A e \in DOMAIN delivered : delivered[e] = e
  BY DEF ParserInv
<1>2. delivered = [e \in DOMAIN delivered |-> e]
  BY <1>1
<1>3. /\ DOMAIN sent = 1..Len(sent)
      /\ \A e \in DOMAIN sent : Terminal(e) => e = Len(sent) \/ RaisedAfter(e)
  BY DEF ServerInv
<1>4. ASSUME stage = "finished", response = "ended" PROVE Collected(delivered) # 0
  <2> DEFINE last == Len(sent)
             terminal == {n \in DOMAIN delivered : Terminal(delivered[n])}
  <2>1. Len(delivered) = last /\ HasEnded
    <3>1. Len(delivered) = last
      BY <1>4 DEF ParserInv
    <3>2. source = "ended" => HasEnded
      BY DEF ServerInv, HasDone, HasEnded, Terminal
    <3>3. source = "failed" => HasEnded
      BY <1>4 DEF ServerInv
    <3> QED
      BY <1>4, <3>1, <3>2, <3>3 DEF ServerInv
  <2>2. last \in DOMAIN delivered /\ last \in DOMAIN sent /\ last # 0
    <3>1. last \in Nat /\ last # 0
      BY <2>1 DEF HasEnded, ServerInv
    <3>2. last \in 1..last
      BY <3>1
    <3> QED
      BY <1>1, <1>3, <2>1, <3>1, <3>2
  <2>3. \A n \in DOMAIN delivered : n \in DOMAIN sent
    BY <1>1, <1>3, <2>1
  <2>4. last \in terminal /\ \A n \in terminal : n \in Nat /\ n # 0 /\ (n = last \/ n = last - 1)
    BY <1>1, <1>3, <2>1, <2>2, <2>3 DEF HasEnded, RaisedAfter
  <2>5. \E n \in terminal : \A m \in terminal : n <= m
    <3>1. CASE last - 1 \in terminal
      BY <1>1, <2>1, <2>4, <3>1
    <3>2. CASE last - 1 \notin terminal
      BY <1>1, <2>1, <2>4, <3>2
    <3> QED
      BY <3>1, <3>2
  <2>6. Min(terminal) \in terminal
    <3> HIDE DEF terminal
    <3> QED
      BY <2>5 DEF Min
  <2>7. Collected(delivered) = delivered[Min(terminal)]
    BY <2>4 DEF Collected
  <2> QED
    BY <1>1, <2>4, <2>6, <2>7
<1> QED
  BY <1>2, <1>3, <1>4 DEF OneTerminalEvent

\* However the text is split into chunks and its lines end, and wherever the
\* connection breaks: the consumer gets the events in order, an error event comes
\* last, nothing follows a done event but the error of wrapping code that raised
\* after it, and a stream read to the end of a response that was not torn has a
\* terminal event.
THEOREM OneTerminalEventAlways == WireSpec => []OneTerminalEvent
<1>1. WireSpec => [](ServerInv /\ ParserInv)
  <2>1. WireInit => ServerInv /\ ParserInv
    BY ServerStarts, ParserStarts
  <2>2. ServerInv /\ ParserInv /\ [WireNext]_wireVars => (ServerInv /\ ParserInv)'
    BY ServerSteps, ParserSteps
  <2> QED
    BY <2>1, <2>2, PTL DEF WireSpec
<1> QED
  BY <1>1, TerminalEventComes, PTL

-----------------------------------------------------------------------------
(* Numbers in order *)

\* P is in increasing order.
Increasing(K, P) == \A i, j \in 1..K : i < j => P[i] < P[j]

\* A list of numbers, each more than the one before it, has them in order.
LEMMA StepsUp ==
  ASSUME NEW K \in Nat, NEW P \in [1..K -> Nat], \A k \in 1..K : k < K => P[k] < P[k + 1]
  PROVE  Increasing(K, P)
<1> SUFFICES ASSUME NEW i \in 1..K PROVE \A j \in 1..K : i < j => P[i] < P[j]
  BY DEF Increasing
<1> DEFINE Bad == {j \in 1..K : i < j /\ ~(P[i] < P[j])}
<1>1. ASSUME Bad # {} PROVE FALSE
  <2>1. Bad \subseteq Nat
    OBVIOUS
  <2>2. PICK j \in Bad : \A y \in Bad : j <= y
    BY <1>1, <2>1, NatMin
  <2>3. /\ j \in Nat /\ i \in Nat /\ i < j /\ j <= K /\ ~(P[i] < P[j])
        /\ j - 1 \in 1..K /\ j - 1 < K /\ (j - 1) + 1 = j
    OBVIOUS
  <2>4. P[j - 1] < P[j] /\ P[i] \in Nat /\ P[j] \in Nat /\ P[j - 1] \in Nat
    BY <2>3
  <2>5. j - 1 \notin Bad
    BY <2>2, <2>3
  <2>6. j - 1 = i \/ P[i] < P[j - 1]
    BY <2>3, <2>5
  <2> QED
    BY <2>3, <2>4, <2>6
<1> QED
  BY <1>1

\* How many of a set of numbers are up to i.
RankIn(S, i) == Cardinality({j \in S : j <= i})

\* P lists the members of S, and the k-th of them is the k-th of S.
ListsInOrder(S, K, P) ==
  /\ Cardinality(S) = K
  /\ \A k \in 1..K : \A i \in S : RankIn(S, i) = k <=> i = P[k]

\* A list in increasing order does.
LEMMA Ranked ==
  ASSUME NEW K \in Nat, NEW P \in [1..K -> Nat], Increasing(K, P),
         NEW S, \A x : x \in S <=> \E k \in 1..K : x = P[k]
  PROVE  ListsInOrder(S, K, P)
<1>0. S = {P[k] : k \in 1..K}
  OBVIOUS
<1>1. ASSUME NEW n \in 0..K
      PROVE  IsFiniteSet({P[k] : k \in 1..n}) /\ Cardinality({P[k] : k \in 1..n}) = n
  <2> DEFINE T == {P[k] : k \in 1..n}
             f == [k \in 1..n |-> P[k]]
  <2>1. \A i, j \in 1..n : P[i] = P[j] => i = j
    <3> SUFFICES ASSUME NEW i \in 1..n, NEW j \in 1..n, i # j PROVE P[i] # P[j]
      OBVIOUS
    <3>1. i < j \/ j < i
      OBVIOUS
    <3>2. i \in 1..K /\ j \in 1..K /\ P[i] \in Nat /\ P[j] \in Nat
      OBVIOUS
    <3> QED
      BY <3>1, <3>2 DEF Increasing
  <2>2. f \in Bijection(1..n, T)
    BY <2>1 DEF Bijection, Injection, Surjection, IsInjective
  <2>3. ExistsBijection(1..n, T)
    BY <2>2 DEF ExistsBijection
  <2>4. IsFiniteSet(1..n) /\ Cardinality(1..n) = n
    BY FS_Interval
  <2> QED
    BY <2>3, <2>4, FS_Bijection
<1>2. ASSUME NEW k \in 1..K PROVE RankIn(S, P[k]) = k
  <2>1. {j \in S : j <= P[k]} = {P[i] : i \in 1..k}
    <3>1. \A i \in 1..K : P[i] <= P[k] <=> i <= k
      <4> TAKE i \in 1..K
      <4>1. i < k \/ i = k \/ k < i
        OBVIOUS
      <4>2. P[i] \in Nat /\ P[k] \in Nat
        OBVIOUS
      <4> QED
        BY <4>1, <4>2 DEF Increasing
    <3>2. \A i \in 1..K : i <= k <=> i \in 1..k
      OBVIOUS
    <3>3. 1..k \subseteq 1..K
      OBVIOUS
    <3> QED
      BY <1>0, <3>1, <3>2, <3>3
  <2>2. k \in 0..K
    OBVIOUS
  <2>3. Cardinality({P[i] : i \in 1..k}) = k
    BY <1>1, <2>2
  <2> QED
    BY <2>1, <2>3 DEF RankIn
<1>3. ASSUME NEW k \in 1..K, NEW i \in S PROVE RankIn(S, i) = k <=> i = P[k]
  <2>1. PICK m \in 1..K : i = P[m]
    BY <1>0
  <2> QED
    BY <1>2, <2>1
<1>4. K \in 0..K
  OBVIOUS
<1> QED
  BY <1>0, <1>1, <1>3, <1>4 DEF ListsInOrder

-----------------------------------------------------------------------------
(* The lines of the text *)

\* Of the k-th line of the text, where its end begins, and where that is over.
LineStop(s, u, v) ==
  [k \in 1..(3 * Len(sent)) |-> IF k % 3 = 1 THEN s[(k + 2) \div 3] + 2
                                ELSE IF k % 3 = 2 THEN u[(k + 1) \div 3] + 4 ELSE v[k \div 3] + 1]
LineOver(s, u, v) ==
  [k \in 0..(3 * Len(sent)) |-> IF k % 3 = 0 THEN s[k \div 3 + 1]
                                ELSE IF k % 3 = 1 THEN u[(k + 2) \div 3] ELSE v[(k + 1) \div 3]]

\* Each message has three lines.
LEMMA Thirds ==
  /\ \A e \in Nat \ {0} :
       /\ (3 * e - 2) % 3 = 1 /\ (3 * e - 2 + 2) \div 3 = e
       /\ (3 * e - 1) % 3 = 2 /\ (3 * e - 1 + 1) \div 3 = e
       /\ (3 * e) % 3 = 0 /\ (3 * e) \div 3 = e
  /\ \A k \in Nat \ {0} : \E e \in Nat \ {0} : k = 3 * e - 2 \/ k = 3 * e - 1 \/ k = 3 * e
<1>1. \A e \in Nat \ {0} :
       /\ (3 * e - 2) % 3 = 1 /\ (3 * e - 2 + 2) \div 3 = e
       /\ (3 * e - 1) % 3 = 2 /\ (3 * e - 1 + 1) \div 3 = e
       /\ (3 * e) % 3 = 0 /\ (3 * e) \div 3 = e
  OBVIOUS
<1>2. ASSUME NEW k \in Nat \ {0}
      PROVE  \E e \in Nat \ {0} : k = 3 * e - 2 \/ k = 3 * e - 1 \/ k = 3 * e
  <2> DEFINE e == (k + 2) \div 3
  <2>1. e \in Nat \ {0} /\ k + 2 = 3 * e + ((k + 2) % 3) /\ ((k + 2) % 3) \in {0, 1, 2}
    OBVIOUS
  <2> QED
    BY <2>1
<1> QED
  BY <1>1, <1>2

\* The lines of the messages, one behind the other.
LEMMA LinesLaid ==
  ASSUME Len(sent) \in Nat, NEW s, NEW u, NEW v, Layout(s, u, v)
  PROVE  LET N == Len(sent)
             P == LineStop(s, u, v)
             Q == LineOver(s, u, v) IN
         /\ P \in [1..(3 * N) -> Nat] /\ Q \in [0..(3 * N) -> Nat] /\ Q[0] = 0 /\ Q[3 * N] = Len(text)
         /\ \A e \in 1..N :
              /\ {3 * e - 2, 3 * e - 1, 3 * e} \subseteq 1..(3 * N)
              /\ Q[3 * e - 3] = s[e] /\ P[3 * e - 2] = s[e] + 2 /\ Q[3 * e - 2] = u[e]
              /\ P[3 * e - 1] = u[e] + 4 /\ Q[3 * e - 1] = v[e]
              /\ P[3 * e] = v[e] + 1 /\ Q[3 * e] = s[e + 1]
         /\ \A k \in 1..(3 * N) : \E e \in 1..N : k = 3 * e - 2 \/ k = 3 * e - 1 \/ k = 3 * e
<1> DEFINE N == Len(sent)
           P == LineStop(s, u, v)
           Q == LineOver(s, u, v)
<1>1. \A k \in 1..(3 * N) : \E e \in 1..N : k = 3 * e - 2 \/ k = 3 * e - 1 \/ k = 3 * e
  <2> TAKE k \in 1..(3 * N)
  <2>0. k \in Nat \ {0}
    OBVIOUS
  <2>1. PICK e \in Nat \ {0} : k = 3 * e - 2 \/ k = 3 * e - 1 \/ k = 3 * e
    BY <2>0, Thirds
  <2>2. e \in 1..N
    BY <2>1
  <2> QED
    BY <2>1, <2>2
<1>2. s \in [1..(N + 1) -> Nat] /\ u \in [1..N -> Nat] /\ v \in [1..N -> Nat] /\ s[1] = 0 /\ s[N + 1] = Len(text)
  BY DEF Layout
<1>3. ASSUME NEW e \in 1..N
      PROVE  /\ {3 * e - 2, 3 * e - 1, 3 * e} \subseteq 1..(3 * N)
             /\ P[3 * e - 2] = s[e] + 2 /\ P[3 * e - 1] = u[e] + 4 /\ P[3 * e] = v[e] + 1
             /\ Q[3 * e - 2] = u[e] /\ Q[3 * e - 1] = v[e] /\ Q[3 * e] = s[e + 1]
  <2>1. /\ (3 * e - 2) % 3 = 1 /\ (3 * e - 2 + 2) \div 3 = e
        /\ (3 * e - 1) % 3 = 2 /\ (3 * e - 1 + 1) \div 3 = e
        /\ (3 * e) % 3 = 0 /\ (3 * e) \div 3 = e
    BY Thirds
  <2>2. {3 * e - 2, 3 * e - 1, 3 * e} \subseteq 1..(3 * N) /\ 1..(3 * N) \subseteq 0..(3 * N)
    OBVIOUS
  <2>3. P[3 * e - 2] = s[e] + 2 /\ P[3 * e - 1] = u[e] + 4 /\ P[3 * e] = v[e] + 1
    BY <2>1, <2>2 DEF LineStop
  <2>4. Q[3 * e - 2] = u[e]
    BY <2>1, <2>2 DEF LineOver
  <2>5. Q[3 * e - 1] = v[e]
    BY <2>1, <2>2 DEF LineOver
  <2>6. Q[3 * e] = s[e + 1]
    BY <2>1, <2>2 DEF LineOver
  <2> QED
    BY <2>2, <2>3, <2>4, <2>5, <2>6
<1>4. Q[0] = 0 /\ DOMAIN P = 1..(3 * N) /\ DOMAIN Q = 0..(3 * N)
  <2>1. 0 % 3 = 0 /\ 0 \div 3 = 0 /\ 0 \in 0..(3 * N)
    OBVIOUS
  <2> QED
    BY <1>2, <2>1 DEF LineOver, LineStop
<1>5. Q[3 * N] = Len(text)
  <2>1. CASE N = 0
    BY <1>2, <1>4, <2>1
  <2>2. CASE N # 0
    <3>1. N \in 1..N
      BY <2>2
    <3> QED
      BY <1>2, <1>3, <3>1
  <2> QED
    BY <2>1, <2>2
<1>6. \A e \in 1..N : Q[3 * e - 3] = s[e]
  <2> TAKE e \in 1..N
  <2>1. CASE e = 1
    BY <1>2, <1>4, <2>1
  <2>2. CASE e # 1
    <3>1. e - 1 \in 1..N /\ 3 * (e - 1) = 3 * e - 3 /\ (e - 1) + 1 = e
      BY <2>2
    <3> HIDE DEF Q
    <3>2. Q[3 * (e - 1)] = s[(e - 1) + 1]
      BY <1>3, <3>1
    <3> QED
      BY <3>1, <3>2
  <2> QED
    BY <2>1, <2>2
<1> HIDE DEF P, Q
<1>nat. N \in Nat
  OBVIOUS
<1> HIDE DEF N
<1>more. \A x \in Nat : x + 1 \in Nat /\ x + 2 \in Nat /\ x + 4 \in Nat
  OBVIOUS
<1>7. \A k \in 1..(3 * N) : P[k] \in Nat /\ Q[k] \in Nat
  <2> TAKE k \in 1..(3 * N)
  <2>1. PICK e \in 1..N : k = 3 * e - 2 \/ k = 3 * e - 1 \/ k = 3 * e
    BY <1>1
  <2>2. e \in 1..(N + 1) /\ e + 1 \in 1..(N + 1)
    BY <1>nat
  <2>3. s[e] \in Nat /\ u[e] \in Nat /\ v[e] \in Nat /\ s[e + 1] \in Nat
    BY <1>2, <2>2
  <2>4. s[e] + 2 \in Nat /\ u[e] + 4 \in Nat /\ v[e] + 1 \in Nat
    BY <2>3, <1>more
  <2> QED
    BY <1>3, <2>1, <2>3, <2>4, ZenonT(40)
<1>8. P \in [1..(3 * N) -> Nat] /\ Q \in [0..(3 * N) -> Nat]
  <2>1. P = [k \in 1..(3 * N) |-> P[k]] /\ Q = [k \in 0..(3 * N) |-> Q[k]]
    BY DEF N, P, Q, LineStop, LineOver
  <2>2. \A k \in 0..(3 * N) : k = 0 \/ k \in 1..(3 * N)
    BY <1>nat
  <2>3. \A k \in 0..(3 * N) : Q[k] \in Nat
    BY <1>4, <1>7, <2>2
  <2> QED
    BY <1>7, <2>1, <2>3
<1> QED
  BY <1>1, <1>3, <1>4, <1>5, <1>6, <1>8 DEF N, P, Q

\* A line of the text after position q, whose end begins at p and is over at r.
LineAt(q, p, r) ==
  /\ q \in Nat /\ p \in Nat /\ r \in Nat /\ q < p /\ 1 < p /\ p <= r /\ r <= Len(text)
  /\ text[p] \in {CR, LF} /\ (text[p] = LF => text[p - 1] # CR)
  /\ r = p \/ (r = p + 1 /\ text[p] = CR /\ text[r] = LF)
  /\ r = p /\ p < Len(text) => ~(text[p] = CR /\ text[p + 1] = LF)
  /\ \A i \in (q + 1)..(p - 1) : text[i] \notin {CR, LF}

\* An end of a line that nothing before it takes part in.
LEMMA EndOfLine ==
  ASSUME text \in Seq(Pieces), NEW q \in Nat, NEW p \in Nat, NEW r \in Nat, q < p, 1 < p, p <= r, r <= Len(text),
         LineEndAt(text, p, r), text[p] = LF => text[p - 1] # CR,
         \A i \in (q + 1)..(p - 1) : text[i] \notin {CR, LF}
  PROVE  LineAt(q, p, r)
<1>1. Len(text) \in Nat /\ CR # LF
  BY PiecesDiffer
<1> QED
  BY <1>1 DEF LineAt, LineEndAt

\* A message is three lines.
LEMMA MessageLines ==
  ASSUME text \in Seq(Pieces), NEW e, NEW a \in Nat, NEW i \in Nat, NEW j \in Nat, NEW b \in Nat,
         MessageAt(text, e, a, i, j, b)
  PROVE  LineAt(a, a + 2, i) /\ LineAt(i, i + 4, j) /\ LineAt(j, j + 1, b)
<1>1. /\ a + 2 <= i /\ i + 4 <= j /\ j + 1 <= b /\ b <= Len(text) /\ Len(text) \in Nat
      /\ text[a + 1] = EventField /\ LineEndAt(text, a + 2, i)
      /\ text[i + 1] = DataField /\ text[i + 2] = Half(e, 1) /\ text[i + 3] = Half(e, 2)
      /\ LineEndAt(text, i + 4, j) /\ LineEndAt(text, j + 1, b)
  BY DEF MessageAt
<1>2. /\ text[a + 1] \notin {CR, LF} /\ text[i + 1] \notin {CR, LF}
      /\ text[i + 2] \notin {CR, LF} /\ text[i + 3] \notin {CR, LF} /\ CR # LF
  BY <1>1, PiecesDiffer
<1>3. LineAt(a, a + 2, i)
  <2>1. \A k \in (a + 1)..(a + 2 - 1) : k = a + 1
    OBVIOUS
  <2>2. \A k \in (a + 1)..(a + 2 - 1) : text[k] \notin {CR, LF}
    BY <1>2, <2>1
  <2>3. a + 2 - 1 = a + 1 /\ a + 2 \in Nat /\ a < a + 2 /\ 1 < a + 2 /\ i <= Len(text)
    BY <1>1
  <2>4. text[a + 2] = LF => text[a + 2 - 1] # CR
    BY <1>2, <2>3
  <2> QED
    BY <1>1, <2>2, <2>3, <2>4, EndOfLine
<1>4. LineAt(i, i + 4, j)
  <2>1. \A k \in (i + 1)..(i + 4 - 1) : k = i + 1 \/ k = i + 2 \/ k = i + 3
    OBVIOUS
  <2>2. \A k \in (i + 1)..(i + 4 - 1) : text[k] \notin {CR, LF}
    BY <1>2, <2>1
  <2>3. i + 4 - 1 = i + 3 /\ i + 4 \in Nat /\ i < i + 4 /\ 1 < i + 4 /\ j <= Len(text)
    BY <1>1
  <2>4. text[i + 4] = LF => text[i + 4 - 1] # CR
    BY <1>2, <2>3
  <2> QED
    BY <1>1, <2>2, <2>3, <2>4, EndOfLine
<1>5. LineAt(j, j + 1, b)
  <2>1. \A k \in (j + 1)..(j + 1 - 1) : text[k] \notin {CR, LF}
    OBVIOUS
  <2>2. j + 1 - 1 = j /\ j + 1 \in Nat /\ j < j + 1 /\ 1 < j + 1 /\ j < Len(text)
    BY <1>1
  <2>3. text[j + 1] = LF => text[j] # CR
    BY <1>1, <1>2, <2>2 DEF LineEndAt
  <2>4. text[j + 1] = LF => text[j + 1 - 1] # CR
    BY <2>2, <2>3
  <2> QED
    BY <1>1, <2>1, <2>2, <2>4, EndOfLine
<1> QED
  BY <1>3, <1>4, <1>5

\* The lines of the messages are lines of the text.
LEMMA LinesStand ==
  ASSUME text \in Seq(Pieces), Len(sent) \in Nat, NEW s, NEW u, NEW v, Layout(s, u, v)
  PROVE  \A k \in 1..(3 * Len(sent)) : LineAt(LineOver(s, u, v)[k - 1], LineStop(s, u, v)[k], LineOver(s, u, v)[k])
<1> DEFINE N == Len(sent)
           P == LineStop(s, u, v)
           Q == LineOver(s, u, v)
<1> SUFFICES ASSUME NEW k \in 1..(3 * N) PROVE LineAt(Q[k - 1], P[k], Q[k])
  OBVIOUS
<1>1. PICK e \in 1..N : k = 3 * e - 2 \/ k = 3 * e - 1 \/ k = 3 * e
  BY LinesLaid
<1>2. /\ Q[3 * e - 3] = s[e] /\ P[3 * e - 2] = s[e] + 2 /\ Q[3 * e - 2] = u[e]
      /\ P[3 * e - 1] = u[e] + 4 /\ Q[3 * e - 1] = v[e]
      /\ P[3 * e] = v[e] + 1 /\ Q[3 * e] = s[e + 1]
  BY LinesLaid
<1>3. /\ s[e] \in Nat /\ u[e] \in Nat /\ v[e] \in Nat /\ s[e + 1] \in Nat
      /\ MessageAt(text, e, s[e], u[e], v[e], s[e + 1])
  <2>1. e \in 1..(N + 1) /\ e + 1 \in 1..(N + 1)
    OBVIOUS
  <2> QED
    BY <2>1 DEF Layout
<1>4. LineAt(s[e], s[e] + 2, u[e]) /\ LineAt(u[e], u[e] + 4, v[e]) /\ LineAt(v[e], v[e] + 1, s[e + 1])
  BY <1>3, MessageLines
<1>5. 3 * e - 2 - 1 = 3 * e - 3 /\ 3 * e - 1 - 1 = 3 * e - 2
  OBVIOUS
<1> HIDE DEF P, Q, N
<1> QED
  BY <1>1, <1>2, <1>4, <1>5

\* The ends of lines, as the standard has them, are those of the messages.
LEMMA EndsOfText ==
  ASSUME text \in Seq(Pieces), Len(sent) \in Nat, NEW s, NEW u, NEW v, Layout(s, u, v), NEW i \in 1..Len(text)
  PROVE  LineEnd(text, i) <=> \E k \in 1..(3 * Len(sent)) : i = LineStop(s, u, v)[k]
<1> DEFINE N == Len(sent)
           P == LineStop(s, u, v)
           Q == LineOver(s, u, v)
           After == {k \in 0..(3 * N) : i <= Q[k]}
<1>1. Q \in [0..(3 * N) -> Nat] /\ Q[0] = 0 /\ Q[3 * N] = Len(text)
  BY LinesLaid
<1>2. \A k \in 1..(3 * N) : LineAt(Q[k - 1], P[k], Q[k])
  BY LinesStand
<1> HIDE DEF P, Q, N
<1>3. ASSUME NEW k \in 1..(3 * N), i = P[k] PROVE LineEnd(text, i)
  BY <1>2, <1>3 DEF LineAt, LineEnd
<1>4. ASSUME LineEnd(text, i) PROVE \E k \in 1..(3 * N) : i = P[k]
  <2>0. N \in Nat /\ Len(text) \in Nat
    BY DEF N
  <2>1. 3 * N \in After
    BY <1>1, <2>0
  <2>2. After \subseteq Nat /\ After # {}
    BY <2>1
  <2>3. PICK k \in After : \A y \in After : k <= y
    BY <2>2, NatMin
  <2>4. k \in 0..(3 * N) /\ i <= Q[k] /\ k # 0
    BY <1>1
  <2>5. k \in 1..(3 * N) /\ k - 1 \in 0..(3 * N) /\ k - 1 < k
    BY <2>0, <2>4
  <2>6. k - 1 \notin After
    BY <2>3, <2>5
  <2>7. Q[k - 1] \in Nat /\ Q[k - 1] < i
    BY <1>1, <2>5, <2>6
  <2>8. LineAt(Q[k - 1], P[k], Q[k])
    BY <1>2, <2>5
  <2>9. i < P[k] => i \in (Q[k - 1] + 1)..(P[k] - 1)
    BY <2>7, <2>8 DEF LineAt
  <2>10. ~(i < P[k])
    BY <1>4, <2>8, <2>9 DEF LineAt, LineEnd
  <2>11. i = P[k] \/ (i = P[k] + 1 /\ text[P[k]] = CR /\ text[i] = LF /\ i # 1)
    <3>1. /\ P[k] \in Nat /\ Q[k] \in Nat /\ 1 < P[k] /\ P[k] <= Q[k]
          /\ Q[k] = P[k] \/ (Q[k] = P[k] + 1 /\ text[P[k]] = CR /\ text[Q[k]] = LF)
      BY <2>8 DEF LineAt
    <3>2. i \in Nat /\ P[k] <= i /\ i <= Q[k]
      BY <2>4, <2>10, <3>1
    <3>3. i = P[k] \/ (i = P[k] + 1 /\ i = Q[k])
      BY <3>1, <3>2
    <3> QED
      BY <3>1, <3>3
  <2>12. i = P[k] + 1 => i - 1 = P[k]
    BY <2>8 DEF LineAt
  <2>13. CR # LF
    BY PiecesDiffer
  <2> QED
    BY <1>4, <2>5, <2>11, <2>12, <2>13 DEF LineEnd
<1> QED
  BY <1>3, <1>4 DEF P, N

-----------------------------------------------------------------------------
(* The standard's reading of the text *)

\* What SubSeq says of a sequence.
LEMMA PieceOf ==
  ASSUME NEW t \in Seq(Pieces), NEW n \in Nat, n <= Len(t), NEW from \in Nat, NEW to \in Nat, 1 <= from, to <= n
  PROVE  /\ SubSeq(t, from, to) \in Seq(Pieces)
         /\ Len(SubSeq(t, from, to)) = IF from <= to THEN to - from + 1 ELSE 0
         /\ \A i \in 1..Len(SubSeq(t, from, to)) : SubSeq(t, from, to)[i] = t[from + i - 1]
OBVIOUS

\* The start of the text, up to any piece, has the lines whose ends have begun.
LEMMA LinesArrived ==
  ASSUME text \in Seq(Pieces), Len(sent) \in Nat, NEW s, NEW u, NEW v, Layout(s, u, v),
         NEW n \in 0..Len(text), NEW K \in 0..(3 * Len(sent)),
         \A k \in 1..(3 * Len(sent)) : LineStop(s, u, v)[k] <= n <=> k <= K
  PROVE  /\ DOMAIN Lines(SubSeq(text, 1, n)) = 1..K
         /\ \A k \in 1..K : Lines(SubSeq(text, 1, n))[k] =
                              SubSeq(text, LineOver(s, u, v)[k - 1] + 1, LineStop(s, u, v)[k] - 1)
<1> DEFINE N == Len(sent)
           P == LineStop(s, u, v)
           Q == LineOver(s, u, v)
           R == [k \in 1..K |-> P[k]]
           p == SubSeq(text, 1, n)
           ends == {i \in DOMAIN p : LineEnd(p, i)}
           Nth(k) == CHOOSE i \in ends : Cardinality({j \in ends : j <= i}) = k
           From(k) == IF k = 1 THEN 1
                      ELSE Nth(k - 1) + (IF p[Nth(k - 1)] = CR /\ p[Nth(k - 1) + 1] = LF THEN 2 ELSE 1)
<1>0. \A k \in 1..(3 * N) : LineAt(Q[k - 1], P[k], Q[k])
  BY LinesStand
<1>a. \A i \in 1..Len(text) : LineEnd(text, i) <=> \E k \in 1..(3 * N) : i = P[k]
  BY EndsOfText
<1>b. \A k \in 1..(3 * N) : P[k] <= n <=> k <= K
  OBVIOUS
<1>1. N \in Nat /\ P \in [1..(3 * N) -> Nat] /\ Q \in [0..(3 * N) -> Nat] /\ Q[0] = 0
  BY LinesLaid
<1>2. Lines(p) = [k \in 1..Cardinality(ends) |-> SubSeq(p, From(k), Nth(k) - 1)]
  BY DEF Lines
<1>3. p \in Seq(Pieces) /\ Len(p) = n /\ DOMAIN p = 1..n /\ \A i \in 1..n : p[i] = text[i]
  OBVIOUS
<1> HIDE DEF P, Q, N, p
<1>4. K \in Nat /\ n \in Nat /\ n <= Len(text) /\ Len(text) \in Nat /\ 1..K \subseteq 1..(3 * N)
  BY <1>1 DEF N
<1>5. R \in [1..K -> Nat] /\ \A k \in 1..K : R[k] = P[k]
  BY <1>1, <1>4
<1>6. \A k \in 1..K : k < K => R[k] < R[k + 1]
  <2> SUFFICES ASSUME NEW k \in 1..K, k < K PROVE P[k] < P[k + 1]
    BY <1>4, <1>5
  <2>1. k \in 1..(3 * N) /\ k + 1 \in 1..(3 * N) /\ (k + 1) - 1 = k
    BY <1>4
  <2>2. LineAt(Q[k - 1], P[k], Q[k]) /\ LineAt(Q[k], P[k + 1], Q[k + 1])
    BY <1>0, <2>1
  <2> QED
    BY <2>2 DEF LineAt
<1>7. ends = {R[k] : k \in 1..K}
  <2>1. \A i \in 1..n : LineEnd(p, i) <=> LineEnd(text, i)
    <3> TAKE i \in 1..n
    <3>1. i # 1 => i - 1 \in 1..n
      BY <1>4
    <3> QED
      BY <1>3, <3>1 DEF LineEnd
  <2>2. ASSUME NEW i \in ends PROVE \E k \in 1..K : i = R[k]
    <3>1. i \in 1..n /\ LineEnd(text, i) /\ i \in 1..Len(text)
      BY <1>3, <1>4, <2>1
    <3>2. PICK k \in 1..(3 * N) : i = P[k]
      BY <1>a, <3>1
    <3>3. k \in 1..K
      BY <1>b, <1>4, <3>1, <3>2
    <3> QED
      BY <1>5, <3>2, <3>3
  <2>3. ASSUME NEW k \in 1..K PROVE R[k] \in ends
    <3>1. k \in 1..(3 * N) /\ P[k] <= n /\ R[k] = P[k] /\ LineAt(Q[k - 1], P[k], Q[k])
      BY <1>0, <1>b, <1>4, <1>5
    <3>2. P[k] \in 1..n /\ P[k] \in 1..Len(text)
      BY <1>4, <3>1 DEF LineAt
    <3>3. LineEnd(text, P[k])
      BY <1>a, <3>1, <3>2
    <3> QED
      BY <1>3, <2>1, <3>1, <3>2, <3>3
  <2> HIDE DEF ends, R
  <2> QED
    BY <2>2, <2>3
<1> HIDE DEF ends, R
<1>8. Increasing(K, R)
  BY <1>4, <1>5, <1>6, StepsUp
<1>9. /\ Cardinality(ends) = K
      /\ \A k \in 1..K : \A i \in ends : RankIn(ends, i) = k <=> i = R[k]
  <2>1. K \in Nat /\ R \in [1..K -> Nat] /\ \A x : x \in ends <=> \E k \in 1..K : x = R[k]
    BY <1>4, <1>5, <1>7
  <2>2. ListsInOrder(ends, K, R)
    BY <1>8, <2>1, Ranked
  <2> QED
    BY <2>2 DEF ListsInOrder
<1>10. ASSUME NEW k \in 1..K PROVE Nth(k) = P[k]
  <2>1. R[k] \in ends /\ R[k] = P[k]
    BY <1>5, <1>7
  <2>2. \A i \in ends : RankIn(ends, i) = k <=> i = P[k]
    BY <1>9, <2>1
  <2>3. Nth(k) = CHOOSE i \in ends : RankIn(ends, i) = k
    BY DEF RankIn
  <2> QED
    BY <2>1, <2>2, <2>3
<1> HIDE DEF Nth
<1>11. ASSUME NEW k \in 1..K
       PROVE  SubSeq(p, From(k), Nth(k) - 1) = SubSeq(text, Q[k - 1] + 1, P[k] - 1)
  <2>1. k \in 1..(3 * N) /\ Nth(k) = P[k] /\ P[k] <= n /\ LineAt(Q[k - 1], P[k], Q[k])
    BY <1>0, <1>b, <1>4, <1>10
  <2>2. From(k) = Q[k - 1] + 1
    <3>1. CASE k = 1
      BY <1>1, <3>1
    <3>2. CASE k # 1
      <4>1. k - 1 \in 1..K /\ k - 1 \in 1..(3 * N) /\ k - 1 \in Nat
        BY <1>4, <3>2
      <4>2. Nth(k - 1) = P[k - 1] /\ LineAt(Q[(k - 1) - 1], P[k - 1], Q[k - 1])
        BY <1>0, <1>10, <4>1
      <4>3. P[k - 1] \in 1..n /\ P[k - 1] + 1 \in 1..n
        <5>1. P[k - 1] \in Nat /\ 1 < P[k - 1] /\ P[k - 1] <= Q[k - 1] /\ Q[k - 1] \in Nat
          BY <4>2 DEF LineAt
        <5>2. P[k] \in Nat /\ Q[k - 1] < P[k] /\ P[k] <= n
          BY <2>1 DEF LineAt
        <5> QED
          BY <1>4, <5>1, <5>2, SMTT(30)
      <4>4. p[P[k - 1]] = text[P[k - 1]] /\ p[P[k - 1] + 1] = text[P[k - 1] + 1]
        BY <1>3, <4>3
      <4>5. P[k - 1] < Len(text)
        BY <1>4, <4>3
      <4>6. Q[k - 1] + 1 = P[k - 1] + (IF text[P[k - 1]] = CR /\ text[P[k - 1] + 1] = LF THEN 2 ELSE 1)
        BY <4>2, <4>5, SMTT(30) DEF LineAt
      <4> QED
        BY <3>2, <4>2, <4>4, <4>6
    <3> QED
      BY <3>1, <3>2
  <2>3. SubSeq(p, Q[k - 1] + 1, P[k] - 1) = SubSeq(text, Q[k - 1] + 1, P[k] - 1)
    <3> DEFINE from == Q[k - 1] + 1
               to == P[k] - 1
    <3>1. Q[k - 1] \in Nat /\ P[k] \in Nat /\ Q[k - 1] < P[k]
      BY <2>1 DEF LineAt
    <3>2. from \in Nat /\ to \in Nat /\ 1 <= from /\ to <= n
      BY <1>4, <2>1, <3>1, SMTT(30)
    <3> HIDE DEF from, to
    <3>3. ASSUME NEW t \in Seq(Pieces), n <= Len(t)
          PROVE  /\ SubSeq(t, from, to) \in Seq(Pieces)
                 /\ Len(SubSeq(t, from, to)) = IF from <= to THEN to - from + 1 ELSE 0
                 /\ \A i \in 1..Len(SubSeq(t, from, to)) : SubSeq(t, from, to)[i] = t[from + i - 1]
      BY <1>4, <3>2, <3>3, PieceOf, SMTT(30)
    <3>4. \A i \in 1..(to - from + 1) : from + i - 1 \in 1..n
      BY <1>4, <3>2
    <3>5. SubSeq(p, from, to) = SubSeq(text, from, to)
      <4>1. p \in Seq(Pieces) /\ n <= Len(p) /\ n <= Len(text)
        BY <1>3, <1>4
      <4>2. SubSeq(p, from, to) \in Seq(Pieces) /\ SubSeq(text, from, to) \in Seq(Pieces)
        BY <3>3, <4>1
      <4>3. /\ Len(SubSeq(p, from, to)) = Len(SubSeq(text, from, to))
            /\ \A i \in 1..Len(SubSeq(p, from, to)) : i \in 1..(to - from + 1)
        BY <3>2, <3>3, <4>1
      <4>4. \A i \in 1..Len(SubSeq(p, from, to)) : SubSeq(p, from, to)[i] = SubSeq(text, from, to)[i]
        <5> TAKE i \in 1..Len(SubSeq(p, from, to))
        <5>1. i \in 1..(to - from + 1) /\ from + i - 1 \in 1..n
          BY <3>4, <4>3
        <5>2. SubSeq(p, from, to)[i] = p[from + i - 1]
          BY <3>3, <4>1
        <5>3. SubSeq(text, from, to)[i] = text[from + i - 1]
          BY <3>3, <4>1, <4>3
        <5> QED
          BY <1>3, <5>1, <5>2, <5>3
      <4> QED
        BY <4>2, <4>3, <4>4, SeqEqual
    <3> QED
      BY <3>5 DEF from, to
  <2> QED
    BY <2>1, <2>2, <2>3
<1> QED
  BY <1>2, <1>9, <1>11 DEF p, P, Q

\* Short pieces of a text.
LEMMA Shorts ==
  ASSUME NEW t \in Seq(Pieces), NEW a \in Nat
  PROVE  /\ SubSeq(t, a + 1, a) = <<>>
         /\ a + 1 <= Len(t) => SubSeq(t, a + 1, a + 1) = <<t[a + 1]>>
         /\ a + 3 <= Len(t) => SubSeq(t, a + 1, a + 3) = <<t[a + 1], t[a + 2], t[a + 3]>>
<1>1. SubSeq(t, a + 1, a) = <<>>
  OBVIOUS
<1>2. ASSUME a + 1 <= Len(t) PROVE SubSeq(t, a + 1, a + 1) = <<t[a + 1]>>
  <2> DEFINE c == SubSeq(t, a + 1, a + 1)
  <2>1. t[a + 1] \in Pieces
    BY <1>2
  <2>2. c \in Seq(Pieces) /\ Len(c) = 1 /\ c[1] = t[a + 1]
    BY <1>2
  <2>3. <<t[a + 1]>> \in Seq(Pieces) /\ Len(<<t[a + 1]>>) = 1 /\ <<t[a + 1]>>[1] = t[a + 1]
    BY <2>1
  <2>4. \A i \in 1..1 : i = 1
    OBVIOUS
  <2> HIDE DEF c
  <2> QED
    BY <2>2, <2>3, <2>4, SeqEqual DEF c
<1>3. ASSUME a + 3 <= Len(t) PROVE SubSeq(t, a + 1, a + 3) = <<t[a + 1], t[a + 2], t[a + 3]>>
  <2> DEFINE c == SubSeq(t, a + 1, a + 3)
             x == t[a + 1]
             y == t[a + 2]
             z == t[a + 3]
  <2>1. x \in Pieces /\ y \in Pieces /\ z \in Pieces
    BY <1>3
  <2>2. c \in Seq(Pieces) /\ Len(c) = 3
    BY <1>3
  <2>3. c[1] = x /\ c[2] = y /\ c[3] = z
    BY <1>3
  <2> HIDE DEF c, x, y, z
  <2>4. <<x, y, z>> \in Seq(Pieces) /\ Len(<<x, y, z>>) = 3
    BY <2>1
  <2>5. \A i \in 1..3 : i = 1 \/ i = 2 \/ i = 3
    OBVIOUS
  <2>6. \A i \in 1..3 : c[i] = <<x, y, z>>[i]
    BY <2>3, <2>5
  <2>7. c = <<x, y, z>>
    BY <2>2, <2>4, <2>6, SeqEqual
  <2> QED
    BY <2>7 DEF c, x, y, z
<1> QED
  BY <1>1, <1>2, <1>3

\* What FlattenSeq says of two sequences.
LEMMA FlattenTwo == ASSUME NEW q, Len(q) = 2 PROVE FlattenSeq(q) = q[1] \o q[2]
<1> DEFINE Flattens(f) == f = [i \in 1..2 |-> IF i = 1 THEN q[i] ELSE f[i - 1] \o q[i]]
           g == [i \in 1..2 |-> IF i = 1 THEN q[1] ELSE q[1] \o q[2]]
<1>1. Flattens(g)
  <2>1. \A i \in 1..2 : i = 1 \/ i = 2
    OBVIOUS
  <2>2. g[1] = q[1] /\ g[2 - 1] = q[1]
    OBVIOUS
  <2>3. \A i \in 1..2 : (IF i = 1 THEN q[i] ELSE g[i - 1] \o q[i]) = (IF i = 1 THEN q[1] ELSE q[1] \o q[2])
    BY <2>1, <2>2
  <2> QED
    BY <2>3
<1>2. \A f : Flattens(f) => f[2] = q[1] \o q[2]
  <2> TAKE f
  <2> HAVE Flattens(f)
  <2>1. f[1] = q[1] /\ f[2] = f[2 - 1] \o q[2]
    OBVIOUS
  <2> QED
    BY <2>1
<1>3. (CHOOSE f : Flattens(f))[2] = q[1] \o q[2]
  <2> HIDE DEF Flattens, g
  <2> QED
    BY <1>1, <1>2
<1>4. FlattenSeq(q) = (CHOOSE f : Flattens(f))[2]
  BY DEF FlattenSeq
<1> QED
  BY <1>3, <1>4

\* The text of the lines of each message.
LEMMA LinesOfMessage ==
  ASSUME text \in Seq(Pieces), Len(sent) \in Nat, NEW s, NEW u, NEW v, Layout(s, u, v), NEW e \in 1..Len(sent)
  PROVE  LET Q == LineOver(s, u, v)
             P == LineStop(s, u, v) IN
         /\ SubSeq(text, Q[3 * e - 2 - 1] + 1, P[3 * e - 2] - 1) = <<EventField>>
         /\ SubSeq(text, Q[3 * e - 1 - 1] + 1, P[3 * e - 1] - 1) = <<DataField, Half(e, 1), Half(e, 2)>>
         /\ SubSeq(text, Q[3 * e - 1] + 1, P[3 * e] - 1) = <<>>
<1> DEFINE Q == LineOver(s, u, v)
           P == LineStop(s, u, v)
           a == s[e]
           i == u[e]
           j == v[e]
<1>1. /\ Q[3 * e - 3] = a /\ P[3 * e - 2] = a + 2 /\ Q[3 * e - 2] = i
      /\ P[3 * e - 1] = i + 4 /\ Q[3 * e - 1] = j /\ P[3 * e] = j + 1
  BY LinesLaid
<1>2. a \in Nat /\ i \in Nat /\ j \in Nat /\ MessageAt(text, e, a, i, j, s[e + 1]) /\ s[e + 1] \in Nat
  <2>1. e \in 1..(Len(sent) + 1) /\ e + 1 \in 1..(Len(sent) + 1)
    OBVIOUS
  <2> QED
    BY <2>1 DEF Layout
<1>3. /\ a + 1 <= Len(text) /\ i + 3 <= Len(text)
      /\ text[a + 1] = EventField /\ text[i + 1] = DataField /\ text[i + 2] = Half(e, 1) /\ text[i + 3] = Half(e, 2)
  <2> DEFINE b == s[e + 1]
  <2> HIDE DEF a, i, j, b
  <2>1. /\ a + 2 <= i /\ i + 4 <= j /\ j + 1 <= b /\ b <= Len(text)
        /\ text[a + 1] = EventField /\ text[i + 1] = DataField /\ text[i + 2] = Half(e, 1) /\ text[i + 3] = Half(e, 2)
    BY <1>2 DEF MessageAt, b
  <2>2. b \in Nat /\ Len(text) \in Nat
    BY <1>2 DEF b
  <2> QED
    BY <1>2, <2>1, <2>2
<1> HIDE DEF P, Q, a, i, j
<1>4. /\ 3 * e - 2 - 1 = 3 * e - 3 /\ 3 * e - 1 - 1 = 3 * e - 2
      /\ a + 2 - 1 = a + 1 /\ i + 4 - 1 = i + 3 /\ j + 1 - 1 = j
  BY <1>2
<1>5. SubSeq(text, a + 1, a + 1) = <<EventField>>
  BY <1>2, <1>3, Shorts
<1>6. SubSeq(text, i + 1, i + 3) = <<DataField, Half(e, 1), Half(e, 2)>>
  BY <1>2, <1>3, Shorts
<1>7. SubSeq(text, j + 1, j) = <<>>
  BY <1>2, Shorts
<1>8. /\ SubSeq(text, Q[3 * e - 2 - 1] + 1, P[3 * e - 2] - 1) = <<EventField>>
      /\ SubSeq(text, Q[3 * e - 1 - 1] + 1, P[3 * e - 1] - 1) = <<DataField, Half(e, 1), Half(e, 2)>>
      /\ SubSeq(text, Q[3 * e - 1] + 1, P[3 * e] - 1) = <<>>
  <2>0. Q[3 * e - 2 - 1] = a /\ Q[3 * e - 1 - 1] = i
    BY <1>1, <1>4
  <2>1. Q[3 * e - 2 - 1] + 1 = a + 1 /\ P[3 * e - 2] - 1 = a + 1
    BY <1>1, <1>2, <2>0
  <2>2. Q[3 * e - 1 - 1] + 1 = i + 1 /\ P[3 * e - 1] - 1 = i + 3
    BY <1>1, <1>2, <2>0
  <2>3. Q[3 * e - 1] + 1 = j + 1 /\ P[3 * e] - 1 = j
    BY <1>1, <1>2
  <2> QED
    BY <2>1, <2>2, <2>3, <1>5, <1>6, <1>7
<1> QED
  BY <1>8 DEF P, Q

\* The messages completed by the start of the text up to any piece are those of
\* the events whose blank lines have begun in it.
LEMMA MessagesArrived ==
  ASSUME text \in Seq(Pieces), Len(sent) \in Nat, NEW s, NEW u, NEW v, Layout(s, u, v),
         NEW n \in 0..Len(text), NEW K \in 0..(3 * Len(sent)),
         \A k \in 1..(3 * Len(sent)) : LineStop(s, u, v)[k] <= n <=> k <= K,
         NEW d \in Nat, K = 3 * d \/ K = 3 * d + 1 \/ K = 3 * d + 2
  PROVE  Messages(SubSeq(text, 1, n)) = [m \in 1..d |-> << <<Half(m, 1), Half(m, 2)>> >>]
<1> DEFINE N == Len(sent)
           p == SubSeq(text, 1, n)
           lines == Lines(p)
           blank == {k \in DOMAIN lines : lines[k] = <<>>}
           From(k) == Max({0} \cup {b \in blank : b < k}) + 1
           Data(k) == FlattenSeq([j \in 1..(k - From(k)) |-> DataOf(lines[From(k) + j - 1])])
           full == {k \in blank : Data(k) # <<>>}
           T == [e \in 1..d |-> 3 * e]
           Said(e) == << <<Half(e, 1), Half(e, 2)>> >>
<1>1. Messages(p) = [m \in 1..Cardinality(full) |-> Data(CHOOSE k \in full : Cardinality({j \in full : j <= k}) = m)]
  BY DEF Messages
<1>2. DOMAIN lines = 1..K /\ N \in Nat /\ K \in Nat /\ d <= N /\ K <= 3 * N /\ 3 * d <= K /\ K < 3 * d + 3
  BY LinesArrived
<1>3. ASSUME NEW e \in 1..N
      PROVE  /\ 3 * e - 2 <= K => lines[3 * e - 2] = <<EventField>>
             /\ 3 * e - 1 <= K => lines[3 * e - 1] = <<DataField, Half(e, 1), Half(e, 2)>>
             /\ 3 * e <= K => lines[3 * e] = <<>>
  <2> DEFINE P == LineStop(s, u, v)
             Q == LineOver(s, u, v)
  <2>1. \A k \in 1..K : lines[k] = SubSeq(text, Q[k - 1] + 1, P[k] - 1)
    BY LinesArrived
  <2>2. /\ SubSeq(text, Q[3 * e - 2 - 1] + 1, P[3 * e - 2] - 1) = <<EventField>>
        /\ SubSeq(text, Q[3 * e - 1 - 1] + 1, P[3 * e - 1] - 1) = <<DataField, Half(e, 1), Half(e, 2)>>
        /\ SubSeq(text, Q[3 * e - 1] + 1, P[3 * e] - 1) = <<>>
    BY LinesOfMessage
  <2>3. /\ 3 * e - 2 <= K => 3 * e - 2 \in 1..K
        /\ 3 * e - 1 <= K => 3 * e - 1 \in 1..K
        /\ 3 * e <= K => 3 * e \in 1..K
    BY <1>2
  <2> HIDE DEF P, Q, lines
  <2> QED
    BY <2>1, <2>2, <2>3
<1> HIDE DEF lines
<1>4. \A k \in 1..K : \E e \in 1..N : k = 3 * e - 2 \/ k = 3 * e - 1 \/ k = 3 * e
  <2> TAKE k \in 1..K
  <2>1. k \in 1..(3 * N)
    BY <1>2
  <2> QED
    BY <2>1, LinesLaid
<1>5. \A k : k \in blank <=> \E e \in 1..d : k = 3 * e
  <2>1. ASSUME NEW k \in blank PROVE \E e \in 1..d : k = 3 * e
    <3>1. k \in 1..K /\ lines[k] = <<>>
      BY <1>2
    <3>2. PICK e \in 1..N : k = 3 * e - 2 \/ k = 3 * e - 1 \/ k = 3 * e
      BY <1>4, <3>1
    <3>a. k <= K
      BY <3>1
    <3>b. k = 3 * e - 2 => lines[k] = <<EventField>>
      BY <1>3, <3>a
    <3>c. k = 3 * e - 1 => lines[k] = <<DataField, Half(e, 1), Half(e, 2)>>
      BY <1>3, <3>a
    <3>3. lines[k] # <<>> \/ k = 3 * e
      BY <3>2, <3>b, <3>c, DataOfEach
    <3>4. e \in 1..d
      BY <1>2, <3>1, <3>3
    <3> QED
      BY <3>1, <3>3, <3>4
  <2>2. ASSUME NEW e \in 1..d PROVE 3 * e \in blank
    <3>1. e \in 1..N /\ 3 * e \in 1..K /\ 3 * e <= K
      BY <1>2
    <3> QED
      BY <1>2, <1>3, <3>1
  <2> QED
    BY <2>1, <2>2
<1> HIDE DEF blank
<1>6. ASSUME NEW e \in 1..d PROVE From(3 * e) = 3 * e - 2
  <2> DEFINE before == {0} \cup {b \in blank : b < 3 * e}
  <2>1. 3 * e - 3 \in before
    <3>1. CASE e = 1
      BY <3>1
    <3>2. CASE e # 1
      <4>1. e - 1 \in 1..d /\ 3 * e - 3 = 3 * (e - 1) /\ 3 * e - 3 < 3 * e
        BY <3>2
      <4> QED
        BY <1>5, <4>1
    <3> QED
      BY <3>1, <3>2
  <2>2. \A y \in before : y <= 3 * e - 3 /\ y \in Nat
    <3> TAKE y \in before
    <3>1. CASE y = 0
      BY <3>1
    <3>2. CASE y # 0
      <4>1. y \in blank /\ y < 3 * e
        BY <3>2
      <4>2. PICK f \in 1..d : y = 3 * f
        BY <1>5, <4>1
      <4> QED
        BY <4>1, <4>2
    <3> QED
      BY <3>1, <3>2
  <2> HIDE DEF before
  <2>3. Max(before) = 3 * e - 3
    <3>1. \A x \in before : (\A y \in before : x >= y) => x = 3 * e - 3
      BY <2>1, <2>2
    <3>2. \A y \in before : 3 * e - 3 >= y
      BY <2>2
    <3> QED
      BY <2>1, <3>1, <3>2 DEF Max
  <2> QED
    BY <2>3 DEF before
<1>7. ASSUME NEW e \in 1..d PROVE Data(3 * e) = Said(e)
  <2> DEFINE q == [j \in 1..(3 * e - From(3 * e)) |-> DataOf(lines[From(3 * e) + j - 1])]
  <2>1. 3 * e - From(3 * e) = 2
    BY <1>6
  <2>2. e \in 1..N /\ 3 * e - 2 <= K /\ 3 * e - 1 <= K
    BY <1>2
  <2>3. lines[3 * e - 2] = <<EventField>> /\ lines[3 * e - 1] = <<DataField, Half(e, 1), Half(e, 2)>>
    BY <1>3, <2>2
  <2>4. q = [j \in 1..2 |-> DataOf(lines[3 * e - 2 + j - 1])]
    BY <1>6, <2>1
  <2>5. 3 * e - 2 + 1 - 1 = 3 * e - 2 /\ 3 * e - 2 + 2 - 1 = 3 * e - 1
    OBVIOUS
  <2> HIDE DEF q
  <2>a. DataOf(<<EventField>>) = <<>> /\ DataOf(<<DataField, Half(e, 1), Half(e, 2)>>) = Said(e)
    BY DataOfEach
  <2>b. q[1] = DataOf(lines[3 * e - 2]) /\ q[2] = DataOf(lines[3 * e - 1])
    BY <2>4, <2>5
  <2>6. q[1] = <<>> /\ q[2] = Said(e)
    BY <2>3, <2>a, <2>b
  <2>7. Len(q) = 2
    BY <2>4
  <2>8. FlattenSeq(q) = q[1] \o q[2]
    BY <2>7, FlattenTwo
  <2>9. <<>> \o Said(e) = Said(e)
    OBVIOUS
  <2>10. FlattenSeq(q) = Said(e)
    BY <2>6, <2>8, <2>9
  <2> QED
    BY <2>10 DEF q
<1> HIDE DEF Data
<1>8. \A e : Said(e) # <<>>
  OBVIOUS
<1>9. \A k : k \in full <=> \E e \in 1..d : k = T[e]
  <2>1. \A e \in 1..d : T[e] = 3 * e
    OBVIOUS
  <2> HIDE DEF T, Said
  <2>2. ASSUME NEW k \in full PROVE \E e \in 1..d : k = T[e]
    BY <1>5, <2>1
  <2>3. ASSUME NEW e \in 1..d PROVE T[e] \in full
    BY <1>5, <1>7, <1>8, <2>1
  <2> QED
    BY <2>2, <2>3
<1>10. T \in [1..d -> Nat] /\ \A e \in 1..d : T[e] = 3 * e
  OBVIOUS
<1> HIDE DEF T, full, Said
<1>11. Increasing(d, T)
  BY <1>10 DEF Increasing
<1>12. ListsInOrder(full, d, T)
  BY <1>9, <1>10, <1>11, Ranked
<1>13. ASSUME NEW m \in 1..d
       PROVE  (CHOOSE k \in full : Cardinality({j \in full : j <= k}) = m) = 3 * m
  <2>1. T[m] \in full /\ T[m] = 3 * m
    BY <1>9, <1>10
  <2>2. \A k \in full : RankIn(full, k) = m <=> k = T[m]
    BY <1>12 DEF ListsInOrder
  <2>3. (CHOOSE k \in full : RankIn(full, k) = m) = T[m]
    BY <2>1, <2>2
  <2> QED
    BY <2>1, <2>3 DEF RankIn
<1>14. Cardinality(full) = d
  BY <1>12 DEF ListsInOrder
<1>15. Messages(p) = [m \in 1..d |-> Said(m)]
  BY <1>1, <1>7, <1>13, <1>14
<1> QED
  BY <1>15 DEF p, Said

-----------------------------------------------------------------------------
(* What is delivered when a chunk is asked for *)

\* While an LF may still belong to the end the parser took last, that is a CR.
SplitInv ==
  stage \in {"read", "lines", "yielded"} /\ pendingLF => 0 < Past /\ text[Past] = CR

\* No text, no LF to come.
LEMMA SplitStarts == WireInit => SplitInv
BY DEF WireInit, SplitInv

\* Only a CR that the buffer ends with leaves an LF to come.
LEMMA SplitSteps == ServerInv /\ ParserInv /\ SplitInv /\ [WireNext]_wireVars => SplitInv'
<1> SUFFICES ASSUME ServerInv, ParserInv, SplitInv, [WireNext]_wireVars,
                    stage' \in {"read", "lines", "yielded"}, pendingLF'
             PROVE  0 < Past' /\ text'[Past'] = CR
  BY DEF SplitInv
<1>1. text \in Seq(Pieces) /\ Len(text) \in Nat
  BY DEF ServerInv
<1>2. ASSUME stage \in {"read", "lines", "yielded"} PROVE BufferInv
  BY <1>2 DEF ParserInv, Standing
<1>3. CASE Server \/ Disconnect
  <2>1. UNCHANGED <<arrived, stage, buffer, pendingLF>>
    BY <1>3, ServerWrites
  <2>2. stage \in {"read", "lines", "yielded"} /\ Past' = Past /\ 0 < Past /\ text[Past] = CR
    BY <2>1 DEF SplitInv, Past
  <2>3. Past \in 1..Len(text)
    BY <1>1, <1>2, <2>2 DEF BufferInv, Past
  <2>4. CASE UNCHANGED text
    BY <2>2, <2>4
  <2>5. CASE \E type \in Types, ends \in Ends : Write(type, ends)
    <3>1. PICK e \in Nat, ends \in Ends : text' = text \o Formatted(e, ends)
      BY <2>5, SMTT(30) DEF Write, ServerInv
    <3>2. Formatted(e, ends) \in Seq(Pieces)
      BY <3>1, FormattedParts
    <3> QED
      BY <1>1, <2>2, <2>3, <3>1, <3>2, Joins
  <2> QED
    BY <1>3, <2>4, <2>5, ServerWrites
<1>4. CASE \E n \in 1..MaxChunk : Read(n)
  <2>1. PICK n \in 1..MaxChunk : Read(n)
    BY <1>4
  <2>2. /\ arrived' = arrived + n /\ buffer' = buffer \o SubSeq(text, arrived + 1, arrived + n)
        /\ arrived + n <= Len(text) /\ UNCHANGED <<text, pendingLF>> /\ stage = "read"
    BY <2>1 DEF Read, server
  <2>3. n \in Nat /\ arrived \in Nat /\ buffer \in Seq(Pieces)
    BY <1>2, <2>2, WireBounds DEF BufferInv
  <2>4. SubSeq(text, arrived + 1, arrived + n) \in Seq(Pieces) /\ Len(SubSeq(text, arrived + 1, arrived + n)) = n
    BY <1>1, <2>2, <2>3
  <2>5. Len(buffer') = Len(buffer) + n /\ Len(buffer) \in Nat
    BY <2>2, <2>3, <2>4
  <2>6. Past' = Past
    BY <2>2, <2>3, <2>5 DEF Past
  <2> QED
    BY <2>2, <2>6 DEF SplitInv
<1>5. CASE TakeLine
  <2> DEFINE chars == Rest(buffer)
  <2>1. UNCHANGED <<text, arrived>> /\ stage = "lines" /\ BufferInv
    BY <1>2, <1>5 DEF TakeLine, server
  <2>2. CASE EndsIn(chars) = {}
    <3>1. pendingLF /\ buffer = <<>> /\ buffer' = chars
      BY <1>5, <2>2 DEF TakeLine
    <3>2. buffer' = <<>>
      BY <3>1 DEF Rest
    <3>3. Past' = Past
      BY <2>1, <3>1, <3>2 DEF Past
    <3> QED
      BY <2>1, <3>1, <3>3 DEF SplitInv
  <2>3. CASE EndsIn(chars) # {}
    <3> DEFINE end == Min(EndsIn(chars))
    <3>1. /\ buffer' = SubSeq(chars, end + EndLength(chars, end), Len(chars))
          /\ chars[end] = CR /\ end = Len(chars)
      BY <1>5, <2>3 DEF TakeLine
    <3>2. buffer # <<>>
      BY <2>3 DEF Rest, EndsIn
    <3>3. /\ chars \in Seq(Pieces) /\ Target \in Nat /\ Len(chars) = arrived - Target
          /\ \A i \in 1..Len(chars) : chars[i] = text[Target + i]
      BY <1>1, <2>1, <3>2, Unread
    <3>4. Len(chars) \in Nat /\ Len(chars) > 0
      BY <2>3, <3>3 DEF EndsIn
    <3> HIDE DEF chars, end
    <3>5. EndLength(chars, end) = 1
      BY <3>1, <3>4 DEF EndLength
    <3>6. buffer' = <<>>
      BY <3>1, <3>3, <3>4, <3>5
    <3>7. arrived \in Nat /\ Past' = arrived
      BY <2>1, <3>6 DEF Past, BufferInv
    <3>8. Len(chars) \in 1..Len(chars) /\ Target + Len(chars) = arrived /\ 0 < arrived
      BY <3>3, <3>4, <3>7
    <3>9. text[arrived] = CR
      BY <3>1, <3>3, <3>8
    <3> QED
      BY <2>1, <3>7, <3>8, <3>9
  <2> QED
    BY <2>2, <2>3
<1>6. CASE Continue \/ Leave \/ UNCHANGED wireVars
  <2>1. /\ stage \in {"read", "lines", "yielded"}
        /\ UNCHANGED <<text, arrived, buffer, pendingLF>>
    BY <1>6 DEF Continue, Leave, wireVars, server, parser
  <2> QED
    BY <2>1 DEF SplitInv, Past
<1>7. CASE EndOfStream \/ ReadFails
  BY <1>7 DEF EndOfStream, ReadFails
<1> QED
  BY <1>3, <1>4, <1>5, <1>6, <1>7 DEF WireNext, Parse

\* The lines that the parser has taken, and the next event's that it has data of.
LEMMA LinesTaken ==
  ASSUME text \in Seq(Pieces), Len(sent) \in Nat, Len(delivered) \in Nat,
         NEW s, NEW u, NEW v, Layout(s, u, v), Standing(s, u, v)
  PROVE  \E K \in 0..(3 * Len(sent)) :
           /\ Target = LineOver(s, u, v)[K]
           /\ K = 3 * Len(delivered) \/ K = 3 * Len(delivered) + 1 \/ K = 3 * Len(delivered) + 2
<1> DEFINE N == Len(sent)
           d == Len(delivered)
           Q == LineOver(s, u, v)
<1>1. /\ Q[3 * N] = Len(text)
      /\ \A e \in 1..N : /\ Q[3 * e - 3] = s[e] /\ Q[3 * e - 2] = u[e] /\ Q[3 * e - 1] = v[e]
  BY LinesLaid
<1>2. d \in Nat /\ N \in Nat /\ d + 1 \in 1..(N + 1) /\ s[N + 1] = Len(text)
  BY DEF Standing, Layout
<1>3. /\ 3 * (d + 1) - 3 = 3 * d /\ 3 * (d + 1) - 2 = 3 * d + 1 /\ 3 * (d + 1) - 1 = 3 * d + 2
      /\ 3 * d \in 0..(3 * N)
      /\ d + 1 <= N => d + 1 \in 1..N /\ 3 * d + 1 \in 0..(3 * N) /\ 3 * d + 2 \in 0..(3 * N)
      /\ ~(d + 1 <= N) => d = N
  BY <1>2
<1>4. Target = s[d + 1] \/ (d + 1 <= N /\ Target = u[d + 1]) \/ (d + 1 <= N /\ Target = v[d + 1])
  BY DEF Standing
<1> HIDE DEF Q, N, d
<1>5. Q[3 * d] = s[d + 1]
  <2>1. CASE d + 1 <= N
    BY <1>1, <1>3, <2>1
  <2>2. CASE d = N
    BY <1>1, <1>2, <2>2
  <2> QED
    BY <1>3, <2>1, <2>2
<1>6. d + 1 <= N => Q[3 * d + 1] = u[d + 1] /\ Q[3 * d + 2] = v[d + 1]
  BY <1>1, <1>3
<1>7. \E K \in 0..(3 * N) : Target = Q[K] /\ (K = 3 * d \/ K = 3 * d + 1 \/ K = 3 * d + 2)
  BY <1>3, <1>4, <1>5, <1>6
<1> QED
  BY <1>7 DEF Q, N, d

\* While the parser waits for a chunk, the ends of the lines it has taken have
\* begun in what arrived, and those of the others have not.
LEMMA EndsArrived ==
  ASSUME text \in Seq(Pieces), Len(sent) \in Nat, NEW s, NEW u, NEW v, Layout(s, u, v),
         BufferInv, Exhausted, pendingLF => 0 < Past /\ text[Past] = CR,
         NEW K \in 0..(3 * Len(sent)), Target = LineOver(s, u, v)[K]
  PROVE  \A k \in 1..(3 * Len(sent)) : LineStop(s, u, v)[k] <= arrived <=> k <= K
<1> DEFINE M == 3 * Len(sent)
           P == LineStop(s, u, v)
           Q == LineOver(s, u, v)
<1>1. M \in Nat /\ K \in Nat /\ K <= M /\ P \in [1..M -> Nat] /\ Q \in [0..M -> Nat]
  BY LinesLaid
<1>2. \A k \in 1..M : LineAt(Q[k - 1], P[k], Q[k])
  BY LinesStand
<1>3. arrived \in Nat /\ Len(buffer) \in Nat /\ Past \in Nat /\ Past <= arrived /\ Len(text) \in Nat
  BY DEF BufferInv, Past
<1>4. Target = Past \/ (pendingLF /\ Target = Past + 1 /\ text[Past + 1] = LF)
  BY DEF Target
<1>5. Target = Q[K]
  OBVIOUS
<1>6. CR # LF
  BY PiecesDiffer
<1> HIDE DEF M, P, Q
<1>7. Increasing(M, P)
  <2>1. ASSUME NEW k \in 1..M, k < M PROVE P[k] < P[k + 1]
    <3>1. k + 1 \in 1..M /\ (k + 1) - 1 = k
      BY <1>1, <2>1
    <3>2. LineAt(Q[k - 1], P[k], Q[k]) /\ LineAt(Q[k], P[k + 1], Q[k + 1])
      BY <1>2, <3>1
    <3> QED
      BY <3>2 DEF LineAt
  <2> QED
    BY <1>1, <2>1, StepsUp
<1>8. ASSUME 1 <= K PROVE P[K] <= arrived
  <2>1. LineAt(Q[K - 1], P[K], Q[K])
    BY <1>1, <1>2, <1>8
  <2>2. /\ P[K] \in Nat /\ 1 < P[K] /\ P[K] <= Q[K] /\ (Q[K] = P[K] \/ Q[K] = P[K] + 1)
        /\ text[P[K]] = LF => text[P[K] - 1] # CR
    BY <2>1 DEF LineAt
  <2>3. CASE Target <= arrived
    BY <1>3, <1>5, <2>2, <2>3
  <2>4. CASE ~(Target <= arrived)
    <3>1. pendingLF /\ Past = arrived /\ Q[K] = arrived + 1 /\ text[arrived + 1] = LF /\ text[arrived] = CR
      BY <1>3, <1>4, <1>5, <2>4
    <3>2. CASE Q[K] = P[K]
      <4>1. P[K] = arrived + 1 /\ P[K] - 1 = arrived
        BY <1>3, <3>1, <3>2
      <4> QED
        BY <2>2, <3>1, <4>1
    <3>3. CASE Q[K] = P[K] + 1
      BY <1>3, <2>2, <3>1, <3>3
    <3> QED
      BY <2>2, <3>2, <3>3
  <2> QED
    BY <2>3, <2>4
<1>9. ASSUME K + 1 <= M PROVE arrived < P[K + 1]
  <2>1. K + 1 \in 1..M /\ (K + 1) - 1 = K
    BY <1>1, <1>9
  <2>2. LineAt(Q[K], P[K + 1], Q[K + 1])
    BY <1>2, <2>1
  <2>3. P[K + 1] \in Nat /\ Q[K] < P[K + 1] /\ text[P[K + 1]] \in {CR, LF} /\ Q[K] \in Nat
    BY <2>2 DEF LineAt
  <2>4. SUFFICES ASSUME P[K + 1] <= arrived PROVE FALSE
    BY <1>3, <2>3
  <2> DEFINE i == P[K + 1] - Past
  <2>5. i \in 1..Len(buffer) /\ Past + i = P[K + 1]
    <3>1. Past < P[K + 1]
      BY <1>3, <1>4, <1>5, <2>3
    <3>2. Past + Len(buffer) = arrived
      BY <1>3 DEF Past
    <3> QED
      BY <1>3, <2>3, <2>4, <3>1, <3>2, SMTT(30)
  <2> HIDE DEF i
  <2>6. buffer[i] \in {CR, LF} /\ i \in DOMAIN buffer
    BY <2>3, <2>5 DEF BufferInv
  <2> QED
    BY <2>6 DEF Exhausted, EndsIn
<1>10. ASSUME NEW k \in 1..M PROVE P[k] <= arrived <=> k <= K
  <2>1. \A i, j \in 1..M : i < j => P[i] < P[j]
    BY <1>7 DEF Increasing
  <2>2. CASE k <= K
    <3>1. K \in 1..M /\ 1 <= K /\ (k = K \/ k < K)
      BY <1>1, <2>2
    <3>2. P[k] <= P[K] /\ P[k] \in Nat /\ P[K] \in Nat
      BY <1>1, <2>1, <3>1
    <3>3. P[K] <= arrived
      BY <1>8, <3>1
    <3> QED
      BY <1>3, <2>2, <3>2, <3>3
  <2>3. CASE ~(k <= K)
    <3>1. K + 1 \in 1..M /\ K + 1 <= M /\ (k = K + 1 \/ K + 1 < k)
      BY <1>1, <2>3
    <3>2. P[K + 1] <= P[k] /\ P[k] \in Nat /\ P[K + 1] \in Nat
      BY <1>1, <2>1, <3>1, SMTT(30)
    <3>3. arrived < P[K + 1]
      BY <1>9, <3>1
    <3> QED
      BY <1>3, <2>3, <3>2, <3>3
  <2> QED
    BY <2>2, <2>3
<1> QED
  BY <1>10 DEF M, P, Q

\* What is delivered is what is complete.
LEMMA ChunksDeliver == ServerInv /\ ParserInv /\ SplitInv => ChunksDoNotMatter
<1> SUFFICES ASSUME ServerInv, ParserInv, SplitInv, stage = "read"
             PROVE  LET complete == Messages(SubSeq(text, 1, arrived)) IN
                    delivered = [n \in DOMAIN complete |-> EventIn(complete[n])]
  BY DEF ChunksDoNotMatter
<1> DEFINE d == Len(delivered)
           complete == Messages(SubSeq(text, 1, arrived))
<1>1. /\ text \in Seq(Pieces) /\ Len(sent) \in Nat /\ Len(sent) <= MaxEvents + 2
      /\ delivered \in Seq(Nat) /\ d \in Nat /\ \A e \in 1..d : delivered[e] = e
      /\ Exhausted
  BY DEF ServerInv, ParserInv
<1>2. PICK s, u, v : Layout(s, u, v) /\ Standing(s, u, v)
  BY DEF ParserInv
<1>3. BufferInv /\ d + 1 \in 1..(Len(sent) + 1)
  BY <1>2 DEF Standing
<1>4. PICK K \in 0..(3 * Len(sent)) : Target = LineOver(s, u, v)[K] /\ (K = 3 * d \/ K = 3 * d + 1 \/ K = 3 * d + 2)
  BY <1>1, <1>2, LinesTaken
<1>5. pendingLF => 0 < Past /\ text[Past] = CR
  BY DEF SplitInv
<1>6. \A k \in 1..(3 * Len(sent)) : LineStop(s, u, v)[k] <= arrived <=> k <= K
  BY <1>1, <1>2, <1>3, <1>4, <1>5, EndsArrived
<1>7. arrived \in 0..Len(text)
  BY <1>1, <1>3 DEF BufferInv
<1>8. complete = [m \in 1..d |-> << <<Half(m, 1), Half(m, 2)>> >>]
  <2>1. d \in Nat /\ text \in Seq(Pieces) /\ Len(sent) \in Nat /\ Layout(s, u, v)
    BY <1>1, <1>2
  <2> HIDE DEF d
  <2>2. Messages(SubSeq(text, 1, arrived)) = [m \in 1..d |-> << <<Half(m, 1), Half(m, 2)>> >>]
    BY <2>1, <1>4, <1>6, <1>7, MessagesArrived
  <2> QED
    BY <2>2 DEF d
<1> HIDE DEF complete
<1>9. \A m \in 1..d : m \in 1..(MaxEvents + 2)
  BY <1>1, <1>3, WireBounds
<1>10. \A m \in 1..d : EventIn(complete[m]) = m
  BY <1>8, <1>9, EventOfLine
<1>11. DOMAIN complete = 1..d /\ DOMAIN delivered = 1..d
  BY <1>1, <1>8
<1>12. delivered = [n \in 1..d |-> EventIn(complete[n])]
  BY <1>1, <1>10, <1>11
<1> QED
  BY <1>11, <1>12 DEF complete

\* Wherever the text is split into chunks, however its lines end and wherever
\* the connection breaks: whenever the parser asks for a chunk it has delivered
\* exactly the events whose messages are complete, by the standard's reading, in
\* what arrived, no later and none twice.
THEOREM ChunksDoNotMatterAlways == WireSpec => []ChunksDoNotMatter
<1>1. WireSpec => [](ServerInv /\ ParserInv /\ SplitInv)
  <2>1. WireInit => ServerInv /\ ParserInv /\ SplitInv
    BY ServerStarts, ParserStarts, SplitStarts
  <2>2. ServerInv /\ ParserInv /\ SplitInv /\ [WireNext]_wireVars => (ServerInv /\ ParserInv /\ SplitInv)'
    BY ServerSteps, ParserSteps, SplitSteps
  <2> QED
    BY <2>1, <2>2, PTL DEF WireSpec
<1> QED
  BY <1>1, ChunksDeliver, PTL
=============================================================================
