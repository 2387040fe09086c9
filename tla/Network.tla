------------------------------- MODULE Network -------------------------------
(***************************************************************************)
(* One durable thread of a router-driven network (experimental/graph.py    *)
(* Network) over a checkpointer (durability/): run, resume after a human's *)
(* answer, recover after a crash or a failed step.                         *)
(*                                                                         *)
(* The router's answers are free: what is shown here holds whatever it     *)
(* decides.  Of the shared state the model keeps who wrote to it.  One     *)
(* driver works on the thread at a time, and a thread is run once.         *)
(***************************************************************************)
EXTENDS Naturals, Sequences

CONSTANTS
  Steps,     \* the names of the network's steps
  MaxSteps,  \* Network(max_steps=)
  None,      \* no step
  MaxDrives  \* bound: calls of run, resume and recover

ASSUME NetworkBounds == MaxSteps \in Nat /\ MaxDrives \in Nat
ASSUME NoneIsNoStep == None \notin Steps

VARIABLES
  pc,        \* where the drive is: idle, route, step, working, save
  state,     \* the working state: the ordinals of the steps that wrote to it,
             \* and 0 for a human's answer
  stepsRun,  \* the steps the thread has completed, in order
  loops,     \* iterations of the drive's loop
  decision,  \* the step the router picked
  thread,    \* the thread's checkpoint in the store
  begun,     \* the steps whose effects began, one that is retried counted once
  drives     \* calls of run, resume and recover so far

vars == <<pc, state, stepsRun, loops, decision, thread, begun, drives>>
driveVars == <<pc, state, stepsRun, loops, decision>>

Checkpoint(status, inFlight) ==
  [status |-> status, state |-> state, steps |-> stepsRun, inFlight |-> inFlight]

Missing == [status |-> "missing", state |-> {}, steps |-> <<>>, inFlight |-> None]

-----------------------------------------------------------------------------
(* The drive *)

\* A call returns or raises; its working state is gone.
Return ==
  /\ pc' = "idle"
  /\ state' = {}
  /\ stepsRun' = <<>>
  /\ loops' = 0
  /\ decision' = None

Drive(from, steps) ==
  /\ drives < MaxDrives
  /\ drives' = drives + 1
  /\ pc = "idle"
  /\ pc' = "route"
  /\ state' = from
  /\ stepsRun' = steps
  /\ UNCHANGED <<loops, decision>>

Run ==
  /\ thread = Missing
  /\ Drive({}, <<>>)
  /\ UNCHANGED <<thread, begun>>

\* Mutant: the resumed call starts counting its steps afresh.
RunBefore_Forgotten == <<>>

RunBefore == thread.steps

\* The human's answer goes into the state.
Resume ==
  /\ thread.status = "interrupted"
  /\ Drive(thread.state \union {0}, RunBefore)
  /\ UNCHANGED <<thread, begun>>

\* Mutant: a step in flight is run again unasked.
MayRecover_AnyRunning(retryInFlight) == thread.status = "running"

MayRecover(retryInFlight) ==
  thread.status = "running" /\ (thread.inFlight = None \/ retryInFlight)

\* By retry_in_flight the caller asserts that the step in flight is idempotent.
Recover ==
  \E retryInFlight \in BOOLEAN :
    /\ MayRecover(retryInFlight)
    /\ Drive(thread.state, RunBefore)
    /\ begun' = IF retryInFlight THEN thread.steps ELSE begun
    /\ UNCHANGED thread

\* A save stores and the drive goes on; or it raises, is cancelled or dies with
\* the process, with the checkpoint stored or not.
Save(checkpoint, goOn) ==
  \/ thread' = checkpoint /\ goOn
  \/ thread' \in {thread, checkpoint} /\ Return

IterationsLeft == loops < MaxSteps

\* Mutant: the last iteration ends and nothing is raised.
OutOfSteps_OffByOne == loops > MaxSteps

OutOfSteps == loops = MaxSteps

\* The router says stop, or that a human is to answer.
RouteOut ==
  /\ pc = "route" /\ IterationsLeft
  /\ \E status \in {"done", "interrupted"} : Save(Checkpoint(status, None), Return)
  /\ UNCHANGED <<begun, drives>>

\* The router picks a step.  The write-ahead marker is saved before it runs.
RouteTo(step) ==
  /\ pc = "route" /\ IterationsLeft
  /\ Save(Checkpoint("running", step),
       pc' = "step" /\ decision' = step /\ UNCHANGED <<state, stepsRun, loops>>)
  /\ UNCHANGED <<begun, drives>>

\* Mutant: the store keeps the live state, which a step may change.
Snapshot_Aliased(live) == live

\* The store keeps a snapshot of the state it was given.
Snapshot(live) == thread.state

\* The step starts; it may change the state it was given in place.
BeginStep ==
  /\ pc = "step"
  /\ pc' = "working"
  /\ begun' = Append(begun, decision)
  /\ state' \in {state, state \union {Len(stepsRun) + 1}}
  /\ thread' = [thread EXCEPT !.state = Snapshot(state')]
  /\ UNCHANGED <<stepsRun, loops, decision, drives>>

\* The step returns an update or None, and the completed step is saved.
FinishStep ==
  /\ pc = "working"
  /\ pc' = "save"
  /\ state' \in {state, state \union {Len(stepsRun) + 1}}
  /\ stepsRun' = Append(stepsRun, decision)
  /\ UNCHANGED <<loops, decision, thread, begun, drives>>

SaveStep ==
  /\ pc = "save"
  /\ Save(Checkpoint("running", None),
       /\ pc' = "route" /\ decision' = None /\ loops' = loops + 1
       /\ UNCHANGED <<state, stepsRun>>)
  /\ UNCHANGED <<begun, drives>>

RaiseOutOfSteps ==
  /\ pc = "route" /\ OutOfSteps
  /\ Return
  /\ UNCHANGED <<thread, begun, drives>>

\* The router raises or names no step, the step raises or returns something
\* that is no update, the caller cancels, or the process dies.
BreakOff ==
  /\ pc # "idle"
  /\ Return
  /\ UNCHANGED <<thread, begun, drives>>

-----------------------------------------------------------------------------

Init ==
  /\ pc = "idle"
  /\ state = {}
  /\ stepsRun = <<>>
  /\ loops = 0
  /\ decision = None
  /\ thread = Missing
  /\ begun = <<>>
  /\ drives = 0

Work ==
  \/ RouteOut
  \/ \E step \in Steps : RouteTo(step)
  \/ BeginStep
  \/ FinishStep
  \/ SaveStep
  \/ RaiseOutOfSteps

Next == Run \/ Resume \/ Recover \/ Work \/ BreakOff

\* Routers, steps and saves come to an end.  Nobody need call the network again.
Spec == Init /\ [][Next]_vars /\ WF_vars(Work)

-----------------------------------------------------------------------------
(* Properties *)

TypeOK ==
  /\ pc \in {"idle", "route", "step", "working", "save"}
  /\ state \in SUBSET Nat
  /\ stepsRun \in Seq(Steps)
  /\ loops \in 0..MaxSteps
  /\ decision \in Steps \union {None}
  /\ thread \in [status : {"missing", "running", "interrupted", "done"},
                 state : SUBSET Nat, steps : Seq(Steps), inFlight : Steps \union {None}]
  /\ begun \in Seq(Steps)
  /\ drives \in 0..MaxDrives

\* However the thread breaks off, is resumed and recovered, its effects are those
\* of the steps it has recorded, each once and in order, and at most of the step
\* its marker names besides.  So none happens twice unless the caller says it may
\* (_drive's write-ahead marker, recover's refusal).
EffectsAccounted ==
  begun \in {thread.steps} \union
    {Append(thread.steps, step) : step \in {thread.inFlight} \ {None}}

\* What a step that never completed did to the live state is in no checkpoint: a
\* checkpoint has answers and updates of the steps it records, no others.
NoPartialUpdates == thread.state \subseteq 0..Len(thread.steps)

\* A thread moves forward: no save drops a recorded step or an update (_drive
\* carries the loaded steps_run and state into every later checkpoint).
ThreadMovesForward ==
  [][/\ thread.state \subseteq thread'.state
     /\ Len(thread.steps) <= Len(thread'.steps)
     /\ SubSeq(thread'.steps, 1, Len(thread.steps)) = thread.steps]_vars

\* Every call of run, resume and recover returns or raises, whatever the router
\* decides: max_steps bounds its cycles.
EveryCallReturns == pc # "idle" ~> pc = "idle"
=============================================================================
