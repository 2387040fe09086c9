-------------------------------- MODULE Spawn --------------------------------
(***************************************************************************)
(* A run and the runs its tool calls start: clones (tools/clones.py, on    *)
(* the InlineCloneHost) and delegated sub-agents (tools/delegate.py,       *)
(* _subagent.py), to any depth, each clone under a RunControl whose parent *)
(* is its spawner's.                                                       *)
(*                                                                         *)
(* Each run is the loop of AgentRun seen from its parent: passes, batches  *)
(* of calls that run concurrently, an outcome.  A step is the code of one  *)
(* task between two awaits.                                                *)
(***************************************************************************)
EXTENDS Naturals, Sequences, FiniteSetsExt, Functions

CONSTANTS
  MaxDepth, MaxPerBatch, MaxPerRun,  \* CloneToolSource's limits
  MaxPasses,                         \* a clone's Budget(max_passes=)
  Refused,                           \* the tools a clone may not call
  Roster, Tasks,                     \* the delegates and what they may be asked
  MaxCallsPerDelegate,               \* DelegateToolSource's budget
  MaxIterations,                     \* Agent(max_iterations=)
  MaxCalls,                          \* bound: calls in one response
  MaxChildren,                       \* bound: children asked for altogether
  MaxCancels                         \* bound: controls cancelled altogether

ASSUME Limits ==
  /\ MaxDepth \in Nat \ {0} /\ MaxPerBatch \in Nat \ {0} /\ MaxPerRun \in Nat
  /\ MaxPasses \in Nat \ {0} /\ MaxCallsPerDelegate \in Nat \ {0}
  /\ MaxIterations \in Nat /\ MaxCalls \in Nat /\ MaxChildren \in Nat
  /\ MaxCancels \in Nat
ASSUME RefusedTools == Refused \subseteq {"spawn", "delegate"}

Root == 0
Runs == 0..MaxChildren

VARIABLES
  phase,      \* where each run's task is
  outcome,    \* how it ended
  home,       \* the call that started it: [run, call]
  depth,      \* RunControl.depth; 0 of a run without a control
  count,      \* clones its calls were let start: the count in its run_state
  passes,     \* its own model passes, each one request of usage
  winding,    \* RunState.winding_down
  calls,      \* the calls its model made: [what, parts, task, pass, state]
  usage,      \* RunState.usage
  parent,     \* RunControl._parent of each run's control: none or one run
  cancelled,  \* RunControl._cancelled of each run's control
  asked       \* children the models asked for

vars == <<phase, outcome, home, depth, count, passes, winding, calls, usage, parent, cancelled, asked>>
bornVars == <<home, depth, count>>
loopVars == <<passes, winding, usage>>
controlVars == <<parent, cancelled>>

-----------------------------------------------------------------------------
(* Who is whose *)

None == [run |-> Root, call |-> 0]

CallOf(r) == calls[home[r].run][home[r].call]

IsChild(r) == home[r] # None
IsClone(r) == IsChild(r) /\ CallOf(r).what = "spawn"
IsAgent(r) == IsChild(r) /\ CallOf(r).what = "delegate"

Children(r, i) == {x \in Runs : home[x] = [run |-> r, call |-> i]}

Calls(r, what, states) ==
  {i \in DOMAIN calls[r] : calls[r][i].what = what /\ calls[r][i].state \in states}

\* The tasks a run has handed out: tasks, and by delegate counts, in run_state.
Given(r) == {calls[r][i].task : i \in Calls(r, "delegate", {"running", "ok"})}

\* RunControl.cancelled asks a control, then its parent, and so on up.
Chain(r) ==
  {x \in Runs : \A set \in SUBSET Runs :
     r \in set /\ (\A y \in set : parent[y] \subseteq set) => x \in set}

Cancelled(r) == \E x \in Chain(r) : cancelled[x]

\* The task a run's call runs in is being cancelled, and the run's with it.
Doomed(r) ==
  IsChild(r) /\ outcome[home[r].run] = "lost" /\ CallOf(r).state = "running"

-----------------------------------------------------------------------------
(* How a run ends *)

EndRun(r, how) ==
  /\ phase' = [phase EXCEPT ![r] = "over"]
  /\ outcome' = [outcome EXCEPT ![r] = how]

-----------------------------------------------------------------------------
(* Model passes *)

MayIterate(r) == passes[r] < MaxIterations

StopAtBoundary(r) ==
  /\ phase[r] = "boundary" /\ MayIterate(r) /\ Cancelled(r)
  /\ EndRun(r, "stopped")
  /\ UNCHANGED <<bornVars, loopVars, calls, controlVars, asked>>

\* Out of iterations or of time, or the model call fails.
Fail(r) ==
  /\ phase[r] = "boundary" => ~MayIterate(r) \/ ~Cancelled(r)
  /\ phase[r] \in {"boundary", "model"}
  /\ EndRun(r, "failed")
  /\ UNCHANGED <<bornVars, loopVars, calls, controlVars, asked>>

\* A clone's budget leaves room for its report; clock and cost may come first.
BeginPass(r) ==
  /\ phase[r] = "boundary" /\ MayIterate(r) /\ ~Cancelled(r)
  /\ phase' = [phase EXCEPT ![r] = "model"]
  /\ \E clockOrCost \in BOOLEAN :
       winding' = [winding EXCEPT
         ![r] = @ \/ (IsClone(r) /\ (passes[r] + 1 >= MaxPasses \/ clockOrCost))]
  /\ UNCHANGED <<outcome, bornVars, passes, usage, calls, controlVars, asked>>

Asks ==
  [what : {"spawn"}, parts : 1..(MaxPerBatch + 1), task : {<<>>}]
    \union [what : {"delegate"}, parts : {1}, task : Roster \X Tasks]

Parts(asks) == MapThenSumSet(LAMBDA i : asks[i].parts, DOMAIN asks)

\* Calls of a response run at once, so their order is one: the larger spawn first,
\* delegates last.
InOrder(asks) ==
  \A i, j \in DOMAIN asks : i < j =>
    /\ asks[i].what = "delegate" => asks[j].what = "delegate"
    /\ asks[i].what = asks[j].what => asks[i].parts >= asks[j].parts

\* What a model may ask for; sub-agents have no children of their own here.
Responses(r) ==
  {asks \in UNION {[1..n -> Asks] : n \in 0..(IF IsAgent(r) THEN 0 ELSE MaxCalls)} :
     InOrder(asks) /\ asked + Parts(asks) <= MaxChildren}

ModelAnswers(r, asks) ==
  /\ passes' = [passes EXCEPT ![r] = @ + 1]
  /\ usage' = [usage EXCEPT ![r] = @ + 1]
  /\ asked' = asked + Parts(asks)
  /\ \/ winding[r] /\ EndRun(r, "partial") /\ UNCHANGED calls
     \/ ~winding[r] /\ asks = <<>> /\ EndRun(r, "done") /\ UNCHANGED calls
     \/ ~winding[r] /\ asks # <<>> /\ Cancelled(r) /\ EndRun(r, "stopped") /\ UNCHANGED calls
     \/ /\ ~winding[r] /\ asks # <<>> /\ ~Cancelled(r)
        /\ phase' = [phase EXCEPT ![r] = "tools"]
        /\ calls' = [calls EXCEPT ![r] = @ \o [i \in DOMAIN asks |->
             [what |-> asks[i].what, parts |-> asks[i].parts, task |-> asks[i].task,
              pass |-> passes'[r], state |-> "asked"]]]
        /\ UNCHANGED outcome
  /\ UNCHANGED <<bornVars, winding, controlVars>>

-----------------------------------------------------------------------------
(* Calls *)

\* execute, up to its first await: limits are looked at and counts raised.  A
\* malformed list is turned down like one that is too long.
SpawnRefused(r, parts) ==
  \/ depth[r] >= MaxDepth
  \/ parts > MaxPerBatch
  \/ count[r] + parts > MaxPerRun

DelegateRefused(r, task) ==
  \/ task \in Given(r)
  \/ Cardinality({given \in Given(r) : given[1] = task[1]}) >= MaxCallsPerDelegate

CallRefused(r, call) ==
  \/ IsClone(r) /\ call.what \in Refused
  \/ call.what = "spawn" /\ SpawnRefused(r, call.parts)
  \/ call.what = "delegate" /\ DelegateRefused(r, call.task)

RefuseCall(r, i) ==
  /\ phase[r] = "tools" /\ calls[r][i].state = "asked"
  /\ CallRefused(r, calls[r][i])
  /\ calls' = [calls EXCEPT ![r][i].state = "refused"]
  /\ UNCHANGED <<phase, outcome, bornVars, loopVars, controlVars, asked>>

\* Mutant: a call is counted, not its clones.
Counted_Calls(r, call) ==
  count' = [count EXCEPT ![r] = @ + (IF call.what = "spawn" THEN 1 ELSE 0)]

Counted(r, call) ==
  count' = [count EXCEPT ![r] = @ + (IF call.what = "spawn" THEN call.parts ELSE 0)]

\* CloneToolSource.prompt raises for a clone: they are counted, and none starts.
PromptRaises(r, i) ==
  /\ phase[r] = "tools" /\ calls[r][i].state = "asked"
  /\ calls[r][i].what = "spawn" /\ ~CallRefused(r, calls[r][i])
  /\ Counted(r, calls[r][i])
  /\ calls' = [calls EXCEPT ![r][i].state = "error"]
  /\ UNCHANGED <<phase, outcome, home, depth, loopVars, controlVars, asked>>

\* Children get ids in the order they are made; a sub-agent's run begins at once,
\* a clone's as the gather's task for it does.
BeginCall(r, i) ==
  LET call == calls[r][i]
      born == Cardinality({x \in Runs : phase[x] # "none"})
      new == born..(born + call.parts - 1)
      isSpawn == call.what = "spawn"
  IN
  /\ phase[r] = "tools" /\ call.state = "asked"
  /\ ~CallRefused(r, call)
  /\ Counted(r, call)
  /\ calls' = [calls EXCEPT ![r][i].state = "running"]
  /\ phase' = [x \in Runs |->
       IF x \notin new THEN phase[x] ELSE IF isSpawn THEN "start" ELSE "boundary"]
  /\ home' = [x \in Runs |-> IF x \in new THEN [run |-> r, call |-> i] ELSE home[x]]
  /\ depth' = [x \in Runs |-> IF x \in new /\ isSpawn THEN depth[r] + 1 ELSE depth[x]]
  /\ UNCHANGED <<outcome, loopVars, controlVars, asked>>

\* Mutant: a clone's control has no parent.
ControlFor_Alone(r) == UNCHANGED parent

\* CloneBatch.control_for: a clone's control hangs on its spawner's.
ControlFor(r) == parent' = [parent EXCEPT ![r] = {home[r].run}]

\* CloneBatch.run: the clone gets its control, and its run begins.
BeginClone(r) ==
  /\ phase[r] = "start"
  /\ phase' = [phase EXCEPT ![r] = "boundary"]
  /\ ControlFor(r)
  /\ UNCHANGED <<outcome, bornVars, loopVars, calls, cancelled, asked>>

\* configure, child_context or budget raises: not a failure of the clone's run.
HookRaises(r) ==
  /\ phase[r] = "start"
  /\ phase' = [phase EXCEPT ![r] = "over"]
  /\ outcome' = [outcome EXCEPT ![r] = "raised"]
  /\ UNCHANGED <<bornVars, loopVars, calls, controlVars, asked>>

\* The outcomes that come with a report.
Reporting == {"done", "partial", "stopped"}

\* Mutant: the gather's results are those of the clones that report.
Gathered_Reports(r, i) == \A x \in Children(r, i) : outcome[x] \in Reporting

\* The gather has every outcome.
Gathered(r, i) == \A x \in Children(r, i) : outcome[x] \in Reporting \union {"failed"}

\* A gather raises what its first task raised, and the call comes back an error;
\* the gather's other tasks go on.  A sub-agent's failure is a result like others.
ReturnCall(r, i) ==
  /\ phase[r] = "tools" /\ calls[r][i].state = "running"
  /\ \/ /\ Gathered(r, i)
        /\ calls' = [calls EXCEPT ![r][i].state = "ok"]
     \/ /\ \E x \in Children(r, i) : outcome[x] = "raised"
        /\ calls' = [calls EXCEPT ![r][i].state = "error"]
  /\ UNCHANGED <<phase, outcome, bornVars, loopVars, controlVars, asked>>

\* Mutant: a result has the usage of the children that finished.
Spend_Finished(r, i) ==
  SumFunctionOnSet(usage, {x \in Children(r, i) : outcome[x] = "done"})

\* The usage a result carries: its children's, of which a failed one has none.
Spend(r, i) ==
  SumFunctionOnSet(usage, {x \in Children(r, i) : outcome[x] \in Reporting})

\* Every call of the batch is through; the results' usage is the run's too.
EndBatch(r) ==
  /\ phase[r] = "tools"
  /\ \A i \in DOMAIN calls[r] : calls[r][i].state \in {"ok", "error", "refused"}
  /\ phase' = [phase EXCEPT ![r] = "boundary"]
  /\ usage' = [usage EXCEPT ![r] = @ + SumFunctionOnSet([i \in DOMAIN calls[r] |-> Spend(r, i)],
       {i \in DOMAIN calls[r] : calls[r][i].pass = passes[r] /\ calls[r][i].state = "ok"})]
  /\ UNCHANGED <<outcome, bornVars, passes, winding, calls, controlVars, asked>>

-----------------------------------------------------------------------------
(* From outside *)

\* RunControl.cancel, by the application that holds a run's control or by a tool
\* of the run, which is handed it (ToolCallContext.control).  A sub-agent has none.
Cancel(r) ==
  /\ phase[r] \in {"boundary", "model", "tools"} /\ ~IsAgent(r)
  /\ ~cancelled[r] /\ Cardinality({x \in Runs : cancelled[x]}) < MaxCancels
  /\ cancelled' = [cancelled EXCEPT ![r] = TRUE]
  /\ UNCHANGED <<phase, outcome, bornVars, loopVars, calls, parent, asked>>

\* The consumer closes the root's stream, or the root's task is cancelled.
Close ==
  /\ phase[Root] # "over"
  /\ phase' = [phase EXCEPT ![Root] = "over"]
  /\ outcome' = [outcome EXCEPT ![Root] = "lost"]
  /\ UNCHANGED <<bornVars, loopVars, calls, controlVars, asked>>

\* A run's task ends with the call it ran in; nothing is said of it.
Abandon(r) ==
  /\ Doomed(r) /\ phase[r] # "over"
  /\ phase' = [phase EXCEPT ![r] = "over"]
  /\ outcome' = [outcome EXCEPT ![r] = "lost"]
  /\ UNCHANGED <<bornVars, loopVars, calls, controlVars, asked>>

-----------------------------------------------------------------------------

Init ==
  /\ phase = [r \in Runs |-> IF r = Root THEN "boundary" ELSE "none"]
  /\ outcome = [r \in Runs |-> "none"]
  /\ home = [r \in Runs |-> None]
  /\ depth = [r \in Runs |-> 0]
  /\ count = [r \in Runs |-> 0]
  /\ passes = [r \in Runs |-> 0]
  /\ winding = [r \in Runs |-> FALSE]
  /\ calls = [r \in Runs |-> <<>>]
  /\ usage = [r \in Runs |-> 0]
  /\ parent = [r \in Runs |-> {}]
  /\ cancelled = [r \in Runs |-> FALSE]
  /\ asked = 0

CallStep(r) ==
  \E i \in DOMAIN calls[r] :
    \/ RefuseCall(r, i)
    \/ PromptRaises(r, i)
    \/ BeginCall(r, i)
    \/ ReturnCall(r, i)

LoopStep(r) ==
  \/ StopAtBoundary(r)
  \/ Fail(r)
  \/ BeginPass(r)
  \/ phase[r] = "model" /\ \E asks \in Responses(r) : ModelAnswers(r, asks)
  \/ CallStep(r)
  \/ EndBatch(r)
  \/ BeginClone(r)
  \/ HookRaises(r)

RunStep(r) == (~Doomed(r) /\ LoopStep(r)) \/ Abandon(r)

Next == Close \/ \E r \in Runs : Cancel(r) \/ RunStep(r)

Spec == Init /\ [][Next]_vars /\ \A r \in Runs : WF_vars(RunStep(r))

-----------------------------------------------------------------------------
(* Properties *)

TypeOK ==
  /\ phase \in [Runs -> {"none", "start", "boundary", "model", "tools", "over"}]
  /\ outcome \in [Runs -> {"none", "done", "partial", "failed", "stopped", "raised", "lost"}]
  /\ home \in [Runs -> [run : Runs, call : Nat]]
  /\ depth \in [Runs -> Nat]
  /\ count \in [Runs -> Nat]
  /\ passes \in [Runs -> 0..MaxIterations]
  /\ winding \in [Runs -> BOOLEAN]
  /\ \A r \in Runs : \A i \in DOMAIN calls[r] :
       /\ calls[r][i].what \in {"spawn", "delegate"} /\ calls[r][i].pass \in 1..passes[r]
       /\ calls[r][i].state \in {"asked", "running", "ok", "error", "refused"}
  /\ usage \in [Runs -> Nat]
  /\ parent \in [Runs -> SUBSET Runs]
  /\ cancelled \in [Runs -> BOOLEAN]
  /\ asked \in 0..MaxChildren

\* A run with its spawners and theirs, the root left out.
Lineage(r) ==
  {x \in Runs : IsChild(x) /\ \A set \in SUBSET Runs :
     r \in set /\ (\A y \in set : IsChild(y) => home[y].run \in set) => x \in set}

\* Calls that run at once never start more clones than their run may, and however
\* clones nest none is deeper than max_depth (execute reads and raises the count
\* with no await between; the depth comes through the control); and no task is
\* handed to a delegate twice by one run, nor does one run it past its budget.
LimitsHold ==
  \A r \in Runs :
    /\ Cardinality({x \in Runs : IsClone(x) /\ home[x].run = r}) <= MaxPerRun
    /\ Cardinality({x \in Lineage(r) : IsClone(x)}) <= MaxDepth
    /\ \A d \in Roster :
         LET runs == {x \in Runs : IsAgent(x) /\ home[x].run = r /\ CallOf(x).task[1] = d}
         IN /\ Cardinality(runs) <= MaxCallsPerDelegate
            /\ \A x, y \in runs : CallOf(x).task = CallOf(y).task => x = y

\* A run and the runs it works for: through spawn calls up to the root or to a
\* sub-agent, which runs under nobody's control.
WorksFor(r) ==
  {x \in Runs : \A set \in SUBSET Runs :
     r \in set /\ (\A y \in set : IsClone(y) => home[y].run \in set) => x \in set}

\* Once a run is cancelled none that works for it begins a model pass, however
\* deep, whether the spawn call above it still waits or broke off, and whenever
\* its own control was made: the controls' parents follow the spawn calls.
CancelReachesAll ==
  [][\A r \in Runs : phase'[r] = "model" /\ phase[r] # "model" =>
       \A x \in WorksFor(r) : ~cancelled[x]]_vars

\* What a run says it used are its passes and those of every run under it that
\* reported through calls that came back, each once.
SpendAccounted ==
  \A r \in Runs : outcome[r] \in Reporting =>
    usage[r] = SumFunctionOnSet(passes,
      {x \in Runs :
         /\ x = r \/ (IsChild(x) /\ (r = Root \/ r \in Lineage(x)))
         /\ \A y \in Lineage(x) \ Lineage(r) : outcome[y] \in Reporting /\ CallOf(y).state = "ok"})

\* The root and all that runs under it end, orphans of a gather included.
AllEnd == <>[](\A r \in Runs : phase[r] \in {"none", "over"})
=============================================================================
