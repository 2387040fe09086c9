# Specifications of shankit

TLA+ modules that model the parts of shankit (the `throukit` agent library) where
order, failure and concurrency decide whether it is right; TLC configurations
that check them on small instances; and theorems that TLAPS proves for every
value of the constants. `src/` below is the repository; most paths are relative
to `packages/throukit/src/throukit/`.

    tlc -workers 2 -config AgentRun.cfg AgentRun.tla     # one run
    tlapm NetworkWireProofs.tla                          # one module's proofs

## The system

| Part | State it keeps | Operations | What is hard | Module |
| --- | --- | --- | --- | --- |
| Agent run (`agent.py`, `_run_state.py`) | transcript, pass and step counters, the batch of tool calls, the last checkpoint | `run`/`stream`, `resume`, one model pass, one batch of tools in parallel, `final_result`, `end_run` | crashes between the save of the calls and of their results, ordered toolsets inside a parallel batch, retries, budgets | `AgentRun`, `CallLedger` |
| Run control (`control.py`) | inbox, cancel flag, budget, checkpoint hook | `send`, `cancel`, `drain` from any thread | messages and cancels that come between any two steps | `AgentRun`, `Spawn` |
| Context (`_context.py`) | none (functions on a transcript) | append a user turn, close interrupted calls, cap, spill and clear results | a request providers accept after every crash and every edit | `Transcripts`, `Context`, `AgentRun` |
| Clones and delegates (`tools/clones.py`, `tools/delegate.py`, `_subagent.py`) | counts and depth per run, child controls | spawn, gather, delegate | limits read before an await, a gather that breaks off, the cancel cascade | `Spawn` |
| Network (`experimental/graph.py`) | working state, steps run | `run`, `resume`, `recover` | effects of a step that broke off, half-done updates | `Network` |
| Checkpointers (`durability/`) | one checkpoint per thread | `save`, `load`, `delete` | a save that breaks off; snapshots | `Network` |
| Session cap (`evals/session.py`) | `cap.json`, `ledger.jsonl`, a lock | `set`, `start`, `spent`, `end` | appends outside the lock, deaths, reused process ids | `SessionCap` |
| Meter (`evals/budget.py`) | spend, tripped, stopped, cases in flight | `guard`, `charge_*`, `stop` | calls in flight when the budget is reached, a pricer that fails | `SessionCap`, `EvalRun`, `ModelClients` |
| Eval runner (`evals/runner.py`) | results, estimates held, slots | admit a case, finish it, Ctrl-C, report | cases in flight, threads that outlive their task | `EvalRun` |
| Model clients (`models/anthropic.py`, `openai.py`) | none | build a request, read a response or a stream of deltas | shapes each vendor refuses, cache breakpoints | `AnthropicRequest`, `OpenAIRequest` |
| Registry and observer (`models/registry.py`, `observed.py`) | factories, client cache per loop | resolve, register, meter, one call | stale clients, streams that are left | `ModelClients` |
| Tool sources (`tools/`) | routes, MCP session | list, execute, close | racing first uses, connects that fail | `ToolSources` |
| Workspace (`workspace/`) | files, processes | exec, read, write | timeouts against children that hold a pipe, threads that outlive their call | `Workspaces` |
| Event stream (`sse.py`, `client-ts/src/sse.ts`) | a parse buffer | encode, parse | every split into chunks, sources that fail, consumers that leave | `Wire` |
| Composio connector | a tool cache; accounts at the vendor | list, execute, initiate, adopt, check_status | slow fetches, statuses nobody knows | `ToolSources` |
| Files, reports, scorers, CLI, scripted models | none across calls | | I/O, arithmetic and formatting | not modelled |

The parts interact by calls in one event loop (agent, tools, runner), by shared
memory behind a lock (control, meter), and by files that outlive the process
(checkpoints, the session's ledger). `PROJECT.json` lists each part, its status,
and every hazard at its line with the property that covers it or the reason why
none does.

## Modules

**`AgentRun`** is one run of `Agent._loop` under a `RunControl`. A step is the
code between two awaits of the loop's task, with all it calls: `pc` is the await
it stands at. `BeginPass` drains the inbox into the transcript, checks the budget
and sends the request; `ModelAnswers` (any list of calls: the loop never relies on
`tool_choice` being obeyed) appends the pass; `StartBatch` saves the transcript
and announces the calls; `BeginCall`, `RefuseCall` and `FinishCall` are the tools,
concurrent but for the members of an ordered toolset (`run_ordered`);
`SettleBatch` and `EndBatch` write and save the answers. `Send` and `Cancel`
interleave with every step, `Crash` ends a run anywhere, and `Resume` is
`Agent.resume` on the last checkpoint. `steps`, `started`, `starts`, `calls`, `sent`, `lost`
and `endCalls` record what happened and steer nothing. Each definition has its lines in
`PROJECT.json`'s map. What is left out: texts, usage, streaming of deltas, forced
tool choice, the trimming of the context (`Context`), a step describer that hides a step,
and runs without a checkpoint hook. An `end_run` result is taken to be no error.

**`CallLedger`** is what a checkpointed run promises, in four variables: the
durable record of calls only grows, an execution begins only for a recorded call
that never began and has no answer, and no answer is replaced or claims success
of a call that did not run. It counts the executions, so that beginning a call a
second time, which leaves the set of the calls that ran as it is, is a step the
ledger does not have. `AgentRun` implements it (`ImplementsLedger`): recorded and
answers are read off the saved transcript, and `starts` counts every execution.

**`Network`** is one durable thread. Its router is free, so that what holds does
not rest on routing. The shared state keeps who wrote to it: `0` is a human's
answer, `n` the n-th step. `RouteTo` is the write-ahead save, `BeginStep` the
effects and writes in place, `FinishStep` the returned update, `SaveStep` the save
of the completed step. A save may break off with or without having stored;
`BreakOff` is a crash, a cancel, or a step or router that raises. A thread is run
once and driven by one process at a time: the code has no claim on a thread, and
what two drivers do is listed as an uncovered hazard.

**`SessionCap`** is the ledger on disk with a meter per run. The ledger is kept as
each run's lines in order, which is all that `_read`'s fold depends on. `Start` is
under the lock; `Charge` and `Report` are apart, as the total is taken under the
meter's lock and appended after it. `Die` loses what was not appended; `ReusePid`
gives a dead run's id to another process. A run ends with no call under way, as
the runner's pool closes before the grant does.

**`EvalRun`** is `run_suite`. Cases are all coroutines or all functions on the
pool (`sync`); `code` is what still executes, which after Ctrl-C may outlive its
task. A case tries at most `MaxCalls` calls; each is refused, charged, fails (cost
0) or cannot be priced. `FinishCase` includes the result's own reported cost and
an `on_result` that raises (`unheard`). The run has a budget, as the command line
demands. Calls are made within their case: bare threads, which carry no context,
are left out.

**`Spawn`** is a root run and the runs under it, to any depth: clones on the inline
host, and sub-agents of a `DelegateToolSource`. Each run is `AgentRun`'s loop seen from
its parent (`phase`: between passes, in a model call, in a batch of tools), so that a
tree of them can be checked; retries, checkpoints and messages are `AgentRun`'s. A
call's `execute` up to its first await is one step (`RefuseCall`, `BeginCall`): it reads
its limits and raises its counts there, and what it then waits for is the
gather of its children (`ReturnCall`). `count` is `run_state`'s, raised as a call is let
start (`Counted`). `HookRaises` is `configure`, `child_context` or a budget
function that raises: `gather` hands that to the call at once, and its other tasks go on.
`BeginClone` makes the clone's `RunControl`, whose `parent` is its spawner's
(`CloneBatch.control_for`); a control is cancelled if it or any above it is (`Chain`, the
recursion of `control.py:156`), and `Cancel` is of any run's control, a sub-agent's left
out, which has none. `_trim_context` lies between the loop's question whether it is
cancelled and its request, with an await: a pass begins where it asks, so a
request may still go out after a cancel that comes in that await.
`Close` cancels what runs in the root's calls (`Abandon`); tasks whose call is already back
are out of its reach. A root given a `RunControl` is assumed; `as_tool` is a delegate
without a budget; hosts of an application's own, which may leave clones in the
background, are left out. A run's `Lineage` is read off its spawners. A failed clone comes back without usage
(`clones.py:251`), so its spend is in no total: `SpendAccounted` counts the runs that
report.

**`Transcripts`** is messages and blocks, and what `_context.py` does to them, as
functions: clearing old results, capping one, dropping reasoning, answering calls that
never ran. A text is a sequence of marks that say which part of which call's output it
shows, and which file holds the rest; that is all its properties need of it.
**`AnthropicRequest`** and **`OpenAIRequest`** are the two clients: which blocks are
sent, what thinking, effort and tool choice each model takes, native toolsets, cache
breakpoints; tool messages and the images that follow them, and a response put together
from deltas of parallel calls. **`Context`** composes them: an agent's passes over one
conversation, with results of any size that are spilled (or whose save fails) and
capped, and cleared before a pass (`over`, whether the last prompt was past the threshold,
is free). Before a pass the model may hear queued messages and that its budget is
reached (`Heard`); the last pass of a budget has its own tool choice (`ToolChoice`) and
its calls are not run, nor are those of an answer that a cancel meets (`halted`); a message
that comes during an answer, or a nudge for the structured result, goes on with another
pass. `Stop`, `Resume` and `NewTurn` end a run, take up its transcript, and follow it with
another. `RequestAccepted` states each vendor's rules; they are external, taken
from what the clients' comments say of the APIs. The one rule the code breaks, that a
result echoes the toolset of its call, is stated for the calls that ran; of those that
did not, `claim_toolsets` shows it broken. Each transcript is also
translated for OpenAI's models, as one conversation may move between clients.
**`ContextClaims`** has the one sentence of the documentation that the code does not keep.

**`ModelClients`** is one provider's entry in the registry: the factory in force and the
clients cached per event loop, what `use_model` and `metered` blocks register (nested), `shutdown`, and calls through chains of observed clients, streamed or not,
whose stream fails, is left, or is left to the garbage collector. `resolve_model` is one
step: loops that run at once on threads of their own could interleave inside it
(`registry.py:118` to `127`), and cache a client of a factory that was just replaced.

**`ToolSources`** is a `CompositeToolSource` of an MCP server, a Composio toolkit and a
workspace only some contexts have. Runs share it; a step is the code between two awaits.
`Connect` to `Closed` is the lazily opened session under `_connect_lock`,
`ListCatalog` to `FetchReturns` the catalog with its time stamp, `EndListing` and `Call`
the routes, `Initiate` to `CheckedStatus` the connection of an account, which the
vendor settles (`Settles`).

**`Workspaces`** is a batch of calls in one local workspace. Each blocking read and write
is a thread of its own, which a cancelled call leaves running. A command has a shell,
children in its process group, and children that left it; the pipe is open while
any of them holds it, and none of them need ever end. A file is a sequence of `Lines`, or one of the contents that are no
text; an edit whose old text is its new one is refused.

**`Wire`** is an event stream from `Agent.stream` through `sse_stream`, a connection that
splits the text anywhere or ends early, and `parseSSEStream`, to a consumer that may stop
early. The stream may come through a generator of the application's own (`wrapped`), which
may raise while the run goes on or after its last event (`Break`); `Agent.stream` itself
raises only after an error event. A connection that broke is for the reader an end of
the text (`EndOfStream`) or a `read()` that rejects (`ReadFails`). `TakeLine` is one turn of the parser's loop, `nextLine` with `handleLine` and
`takeEvent`: its `pendingLF` is set by a carriage return at the end of a chunk. `Lines` and
`Messages` are the standard's reading of the whole text, against which it is checked.

**`AgentRunProofs`, `NetworkWireProofs`, `SessionCapProofs`, `EvalRunProofs`, `SpawnProofs`,
`ToolsContextProofs`, `WorkspacesProofs`** hold the theorems, each of the modules it is named
for. `AgentRunProofs` has the refinement of `CallLedger` too, and `EvalRunProofs` the
theorems of `ModelClients`, whose metered blocks feed the budget. **`Sums`** has lemmas
about numbers, finite sets and sums over them, which six of the others use.

## Runs

| Run | Question | Bounds | States |
| --- | --- | --- | --- |
| `agent_run` | Does every interleaving keep a transcript providers accept, steps that are unique and end, ordered toolsets, and the ledger of calls? | 2 iterations per run, 2 calls per response and 3 in all, 1 message, 1 resume, 1 retry | 1.3 million |
| `agent_control` | Are messages conserved and in order, is the budget kept, does the run end? | as above with 2 messages and 2 calls | 0.5 million |
| `network` | Are effects accounted for and updates whole through crashes, resumes and recoveries? | 2 steps, `max_steps` 2, 3 drives | 51 thousand |
| `session_cap` | Do grants fit what is left whatever is under way, and does the ledger catch up? | 2 runs, 2 calls each, costs 1 and 2, caps 1 and 3 | 1.4 million |
| `eval_run` | Do starts fit the budget, is overspend said, is the reported spend final, does the run end? | 3 cases, 2 at a time, budget 3, estimates 1 and 2 | 0.9 million |
| `spawn` | Do limits and delegate budgets hold, does a cancel of any control reach every clone under it, is spend counted once, does everything end? | 2 levels of clones, 3 children, 2 calls per response, 2 iterations, 1 delegate with 2 tasks, 1 cancel | 0.4 million |
| `context` | Does every vendor accept every request, is reasoning never stale, is every output still reachable, does the cached prefix survive a pass? | 3 agents, 2 calls per response and 2 in all, 3 passes, 2 turns, 1 resume, results of 3 kinds; messages, a cancel and the budget after the first pass | 0.2 million |
| `wire` | Does the split of the text matter, is there one end, whatever fails, does a stream nobody reads stop? | 3 line ends, 1 event before the terminal one, chunks of up to 4 pieces | 0.4 million |
| `tools` | Are sessions accounted for, do routes stay, is the catalog fresh, does everybody get an answer? | 2 runs, 2 pages, 2 catalogs, 2 connects, a lifetime of 1 | 0.4 million |
| `workspace` | Are results final, do edits compose, do pages cover a file, does every command return that nothing left behind holds? | 2 calls of 5 kinds on files of up to 4 lines, page limits 1 and 3 | 0.1 million |
| `models` | Is a run's client always of the registry in force, is every call charged once? | 2 loops and none, 2 calls, 2 blocks | 0.4 million |
| `claim_toolsets` | Is the quoted sentence kept? | as `context` | violated |

The bounds are small and still hold the cases that matter. Two calls in a response are
the least that can run in parallel or in order; with three in all, a batch follows
an earlier one or a resumed run makes new calls, so step ids can collide. One
resume is enough for a crash at every point of a first run and a whole second
one; a second resume starts from a transcript of the same shape. Three drives of
a network give a run, a resumption or recovery, and one on top of that. In
`session_cap` a grant of 1 or 2 against costs of 1 and 2 is reached exactly, passed by
one call, and passed by two in flight; `r2` starts with `r1` in any phase. In
`eval_run` the budget of 3 is passed by a call of 2 after another, and the third
case waits for a slot of the other two. In `spawn` three children are a batch of two and a
clone of one of them, a chain as deep as `max_depth` allows, or clones in two parallel calls
and then one more than `max_per_run`; one delegate with a budget of one is asked twice in a
response, and again with the same or another task. One cancel is of the root, of a clone or
of a clone's clone (`MaxCancels`): flags are only ever set, so what one reaches another
does not take back.

In `context` a result is short, long enough to spill, or a screenshot; with one result kept,
the second call's result pushes the first out, and the agents differ in what the two clients
branch on (model family, reasoning, native toolset, structured output, workspace, cap, ttl).
The caps are above, at and below the length of a spilled preview. A message, a cancel and
the budget come after one pass (`ControlPasses`): before it there are no calls to leave
unrun and no results to clear, after it the resume, the new turn and a further pass follow.
In `wire` a chunk ends before, inside and after every line end, and the
text ends anywhere. In `tools` two runs are the least that race for the lock, and a second
connect follows a failed or closed one; the names of the catalogs collide with the
server's in one. In `workspace` the files have a line past the cap of a line, a
page that ends by lines and by characters, a text that occurs twice, and none. In
`models` two blocks nest either way round, and a client is resolved before, inside and
after each.

Deadlock is not checked: a run that ended with no resume left, a thread nobody
drives, a plan that is finished really stop.

One sentence of the documentation is shown untrue: the toolset of a call is not echoed
on the answer it gets when it never ran (`claim_toolsets`; `_context.py:250`), so a
conversation that was cut by a budget, a cancel or a crash goes on with a request
Anthropic refuses.

### Known disagreements and limits

Met while modelling. The models do what the code does, and no property denies it:

* A run cancelled while the tools of its last permitted iteration run raises
  `MaxIterationsError` (`agent.py:823`); `docs/concepts.md:361` has it end as cancelled.
* `end_run` is not in the transcript, so a run that broke off after its batch was
  saved is resumed with another pass (`agent.py:816`).
* When `final_result` gives up, the steps announced before it in its response never end
  (`agent.py:879`, against `events.py:76`); `StepsAccounted` speaks of runs that end with a
  `DoneEvent`.
* A message that arrives while the batch that records the result runs stays in the inbox
  (`agent.py:813`).
* A resume of a run that was given a history starts from the checkpoint alone.
* A hook that raises for one clone ends the spawn call while its batch runs on
  (`clones.py:220`); a cancel still reaches them (`CancelReachesAll`).
* A session started over while a run goes on counts all that run spent
  (`session.py:186`, against `cli.py:332`); an estimate that raises loses the report
  (`runner.py:271`, against `runner.py:362`).
* A save that was cancelled may still land later, from its thread (`stores.py:80`).
* `metered` and `use_model` blocks that overlap without nesting leave an ended meter
  installed or lose one (`budget.py:277`); a run that resolved its client before a block
  is not metered by it. `register_provider` drops cached clients without closing them.
* A stream its consumer dropped reports to its observers only when the loop finalizes it.
* A call of `exec` waits for the end of its pipe with no timeout once its shell has exited
  (`local.py:124`): a server left in the background holds the call for ever, though
  `base.py:79` has a command past its timeout killed and reported. `ExecReturns` says that
  nothing but such a process does, and after the timeout only one that left the group. A cancel after the shell's exit leaves the rest of its group.
* Edits that overlap lose updates; an edit of a file with invalid UTF-8 rewrites the
  invalid bytes (`tools.py:271`, `368`); the thread of a cancelled write still writes.
* `aclose` while a connect is under way does nothing, and the session stays.
* An older catalog fetch that returns late replaces a newer one, within its own lifetime.
* With no ids from the vendor, OpenAI calls are named `call_{index}` in every pass;
  ids are assumed sent.
* A cap shorter than a spilled preview, which `agent.py:295` allows, cuts the path of the
  file out of it: the output is in a file the model is not told of, until the result is
  cleared. `OutputsReachable` leaves out the results that the cap cut.
* An event stream whose wrapping code raises after its `done` event gets an `error` sent
  behind it, as `sse.py:47` remembers only whether the last event was an error;
  `docs/concepts.md:598` has exactly one terminal event. `OneTerminalEvent` allows just that.
  `collectRun` never sees it, as it leaves at the `done`.
* Loops on several threads share the registry without a lock (see `ModelClients`).
* What failed clones spent, and what those of a spawn call that broke off spend, is in no
  total (`clones.py:251`).
* With a client's own `default_reasoning` and none on the agent, edited history
  keeps thinking on.

## Fairness

`AgentRun` has weak fairness of `Loop`, the task's own steps: the event loop runs a
task whose await came back, and models and tools are taken to answer or fail.
Nothing is assumed of `Send`, `Cancel`, `Crash` and `Resume`. `Network` has weak
fairness of `Work`: routers, steps and saves come back; nobody need resume or
recover. `EvalRun` has weak fairness of the runner and of each case: the pool's
threads are scheduled and each case comes to an end; nobody need press Ctrl-C.
`Spawn` has weak fairness of each run's steps, as `AgentRun` of its one: the tasks of a
gather are scheduled whether or not it broke off. `Wire` assumes that a generator that was
closed finishes, that a cancelled connection is torn down, and that the browser reads
on; a run need not end, a connection need not break, a consumer need not leave.
`ToolSources` assumes that tasks are scheduled, that the server and the vendor answer or
fail, and that an account settles; nobody need close the source. `Workspaces` has weak
fairness of each call's task and thread, and of the timeout (`_clamp_timeout` bounds it, whatever
the model passes); neither a command nor what it leaves in the background need end. `SessionCap`, `Context` and `ModelClients` have safety
properties only and no fairness.

## What is proved

TLAPS checks these with the constants free, from the named assumptions on them
alone: bounds and amounts are natural numbers; toolset names are not names of other
kinds, `None` is no step and `NoOne` no run; the runs of a session are finite in number
(`FiniteRuns`); a server answers a listing with at least one page; files and what calls write
to them are made of lines (`TextsAssumption`), and a page has room for the longest line
(`PagesAssumption`); lines of an event stream end as the standard says (`WireBounds`);
prompts are text and images, tools return texts, screens or failures, and an agent's
options have the types of `ModelRequest` (`PromptsAssumption`, `ContentsAssumption`,
`ConfigsAssumption`). Crashes, resumes and calls are unbounded in the sense that their
bounds are any natural numbers. TLC evaluates the assumptions in every run, and has
checked each inductive invariant below on the instance of its module's run.

* **`AgentRunProofs`**. `TypeCorrect` is `Spec => []TypeOK`; the type invariant is not
  inductive alone, as `SettleBatch` indexes the last message's calls by the slots, so
  `Shape` adds what each `pc` knows of the transcript's end and the length of the batch.
  `StartedIsSavedAlways` and `LedgerImplemented` need that the transcript only extends the
  saved one, with fresh call ids (`Extends`), that what it answers agrees with what ran
  (`Fits`), and that the slots agree with the calls that started (`BatchFits`); each
  action is then a `Save`, a `Run` of one call, or a stutter. `MessagesConservedAlways`:
  what was heard, in the transcript and in the saved one, and what is queued are parts of
  what was sent, in order and disjoint (`SentInv`). `BudgetKeptAlways`: a pass that does not
  wind down leaves room for one that does (`BudgetInv`). `OrderedStopsAlways`: a call that
  failed has filled the rest of its toolset, and what began comes after calls that went well.
  `RequestWellFormedAlways`: every batch of calls is answered in the next turn, and a
  transcript ready to be sent ends with the user (`RequestInv`). `StepsAccountedAlways`: the
  steps are numbered by the transcript's tool calls, in order, and the open ones are those
  of the batch (`StepsInv`).
* **`NetworkWireProofs`**, of `Network`. `NetworkTypeCorrect`, `EffectsAccountedAlways`,
  `NoPartialUpdatesAlways`, `ThreadMovesForwardAlways`: the invariant adds what a
  running drive knows of its checkpoint: up to `BeginStep` it has run exactly what is
  recorded and nothing else began; then the step in the marker is the last effect; its
  working state has updates of the steps run, and of one more while a step works. Every
  save therefore extends what it overwrites.
* **`NetworkWireProofs`**, of `Wire`. `OneTerminalEventAlways`. The server's side: while `errored`
  is not set no terminal event was sent, or a done event was and only wrapping code can still
  raise; once it is set, and when the response was ended, the last event is terminal
  (`ServerInv`). The parser's: the
  text is the messages of the events sent, one behind the other (`Layout`), and the parser
  stands before the next event's message, past its first line or past its data, with what
  is left of the text in its buffer (`Standing`); the LF of a CRLF that was split counts as
  taken (`Target`). So a write keeps where it stands (`TextGrows`), a line it takes is the
  message's next (`LineTaken`), and an end of the text behind the last message leaves
  nothing over (`StreamOver`). A message cut off behind its data is still an event.
  `ChunksDoNotMatterAlways` compares the parser with the standard's reading of the whole text,
  which counts line ends from its start. A message is three lines, so `Layout` gives where the
  end of each line begins and is over (`LinesLaid`, `LinesStand`); these are all the line ends
  there are, in order (`EndsOfText`, `Ranked`), and the lines of what arrived are those whose
  ends have begun in it (`LinesArrived`, `MessagesArrived`). It needs one thing more of the
  parser: while an LF may still belong to the end it took last, that is a CR (`SplitInv`), so
  a line whose CRLF is cut in two counts as complete, and its LF is no second one.
* **`SessionCapProofs`**. `ReportsCatchUpAlways`: of each run, no total in the ledger or
  about to be appended is more than it spent, and its spend is one of them
  (`SpentInv`). With nothing left to append the largest in the ledger is the spend.
  A session started over empties the ledger, and a run is then no longer of it.
  `GrantsFitTheCapAlways`: the start line of a run that is in the ledger has its grant, its
  process exists while it is going, and an ended one has reported (`GrantInv`). So what
  `_read` holds for a run covers what the run may take in truth, run by run
  (`ClaimsCovered`), and so do the sums; a start takes no more than what remains.
* **`EvalRunProofs`**, of `EvalRun`. `CutIsNotMeasuredAlways`, `OverspendIsSaidAlways`,
  `SpendIsFinalAlways`: code executes only for started items (`CodeInv`); a result comes
  as the item's code ends, after all of its calls (`ResultInv`); and while the report does
  not say stop, overspend implies that a case still executes which will say so, and no code
  outlives the report (`StopInv`). `StartsFitTheBudgetAlways`: what is held is the
  sum of the estimates of the cases in flight, and the free slots are the concurrency less
  their number (`HeldInv`).
* **`EvalRunProofs`**, of `ModelClients`. `ClientsAreCurrentAlways`: each open block would
  put back what the blocks before it make of the provider (`NestInv`), and a cached client is
  one loop's only, so that a shutdown of another loop does not close it (`CacheInv`).
  `OneMoreBlock` says what entering a block does to the factory in force.
  `CallsAccountedAlways`: what each observer was told is determined by where its call is and
  whether its response came (`CallOf`, `Told`).
* **`SpawnProofs`**. `LimitsHoldAlways`: a child's spawner was there before it and its call
  was let start (`BirthInv`); the count of a run covers its clones (`CountInv`); the tasks
  handed to a delegate are distinct and within its budget (`DelegateInv`); the clones among
  a run's spawners are as many as its depth (`DepthInv`). `CancelReachesAllAlways`:
  the parent of a clone's control is its spawner's from the time the clone begins
  (`ControlInv`, `ChainReaches`), so the runs it works for are in the chain its control asks; the one step
  that begins a pass asks first (`PassesBegin`). `SpendAccountedAlways`: a run's own usage is its
  passes and what the children of settled batches used (`UsageInv`, with `OrderInv`,
  `EndedInv` and `PassInv`). Of the runs counted for a run, each but the first is
  settled in exactly one that is counted too; summing usage over all of them on both sides
  leaves what the first one has (`TreeSum`).
* **`ToolsContextProofs`**, of `ToolSources`. `SessionsAccountedAlways`: one run connects at a time, under the
  lock and while no session is held (`SessionInv`). `CatalogIsFreshAlways`: what is cached
  was offered between the start of its fetch and now (`CatalogInv`). `RoutesStayAlways`: a
  listing is of offered names (`ListingInv`) and routes are those of complete listings
  without collisions (`RouteInv`). It has one hypothesis, `OwnershipIsStable`, which
  `aggregate.py:45` states as the reason why routes may be merged; where a toolkit offers a
  name that only some contexts' workspaces have, TLC finds `RoutesStay` violated.
* **`ToolsContextProofs`**, of `Context`. `ContextAlways` is its inductive invariant: a
  transcript is of messages and blocks (`ContextTypes`); the calls of a batch that runs are
  numbered on from those that returned, and each result is of one that did (`BatchInv`); a
  request in flight says the transcript, with reasoning off after an edit (`RequestInv`); and
  each reasoning block follows what the request it answered said, as stored (`Fresh`).
  The last is why `_drop_reasoning` must drop all of it: `Fresh` survives an edit only where
  no reasoning is left behind what was edited (`FreshWithout`), and it survives a resume and a
  next turn because storing a transcript twice is storing it once and a start of what is
  stored is what is stored of the start (`StoredTwice`, `StoredStart`).
  `ReasoningIsFreshAlways` adds what the Anthropic client makes of a reasoning that is off
  (`ThinkingOff`). `OutputsReachableAlways` adds that each result leads to its output and
  each spilled file holds it (`ReachInv`); a text leads to what the files it names lead to
  (`ReachOpens`), and to no less as files are added (`ReachExtends`), so a stub that names the
  file of what it replaces leads to all that it did. Filters of sequences are `Picked` by the
  ranks of the places they keep (`AscendingLists`, `PickedLists`), since an induction over the
  sequence is not available here; the deltas of a stream come out numbered in the
  order their calls began, whatever order they interleave in (`StreamedInOrder`).
* **`WorkspacesProofs`**. `ResultIsFinalAlways`: a shell lives only while it is waited for
  (`CommandInv`). `EditsComposeAlways`: a thread writes what its call was given or has
  edited (`ThreadInv`), each entry of the log is of its call and kind (`EntryInv`), and the
  file is empty or as it was last written (`FileInv`); what an allowed edit changes is the
  lemma `EditedExactly`. `PagesCoverFileAlways`: a call that pages through an unchanged
  file has shown exactly the lines before its offset (`PageInv`).
* **`Sums`**. The library's sums are folds, and its induction theorems take operators as
  parameters, which the provers cannot instantiate. So the lemmas here argue by least
  counterexamples over the well-founded order of the naturals: `SumChosen` is the
  recursion a sum satisfies, and `SumSplit`, `SumLeq`, `SumPlus`, `SumFibres` and
  `SumUnion` follow by `SubsetInduction`.

Only model-checked: liveness (`Terminates`, `EveryCallReturns`, `RunEnds`, `AllEnd`,
`StreamEnds`, `RunsEnd`, `ExecReturns`), which the prover does not reach; and
`RequestAccepted` and `CacheSurvives` of `Context`, which speak of a request after both
clients have translated it, flattened it and placed its breakpoints: the library's
flattening is recursive, and what it yields for every input is an induction over data.

## Plan

1. Done: `AgentRun` with its ledger and proofs, `Network` with its proofs,
   `SessionCap` and `EvalRun` with proofs of what speaks of one run or case at a time.
2. Done: `Spawn`; `Wire`; `Context` with the two clients' requests; `ToolSources`;
   `Workspaces`; `ModelClients`.
3. Left of the models: hosts that return `background` outcomes and children of
   sub-agents under `Spawn`; a checkpointer whose writes land late under `Network`; a torn
   ledger line under `SessionCap`. The last two need the code to change before a
   property about them can hold.
4. Done: theorems of every safety property of `AgentRun`, `Network`, `SessionCap`,
   `EvalRun`, `ModelClients`, `Spawn`, `ToolSources`, `Workspaces` and `Wire`, and of
   `ReasoningIsFresh` and `OutputsReachable` of `Context`.
5. Theorems left: `RequestAccepted` and `CacheSurvives` of `Context`, for which `Fresh`,
   `BatchInv` and the lemmas about `Picked` are a start.

## Not modelled

* Files, reports, scorers, bars, suites and the command line: reading, arithmetic and
  formatting, with no state beyond one call.
* Scripted models and recorded calls, which are for users' own tests; exceptions and JSON
  helpers; tracing.
* Inside modelled parts: prices and usage; images' bytes; the checks of a workspace's paths,
  Glob and Grep; the schemas `tools/local.py` derives from functions; the wording of
  prompts, stubs and errors; retries inside the vendors' own packages.
* Durable effects outside the process: two drivers of one thread (`graph.py:138`), for
  which the code has no claim on a thread.
