------------------------------ MODULE AgentRun ------------------------------
(***************************************************************************)
(* One run of the agent loop (agent.py Agent._loop, _run_state.py          *)
(* RunState) under a RunControl (control.py): model passes, batches of     *)
(* tool calls that run concurrently, messages and a cancel from outside, a *)
(* soft budget, checkpoints, and a crash followed by Agent.resume.         *)
(*                                                                         *)
(* A step of the module is the code between two awaits of the loop's task. *)
(* send and cancel may come from any thread, so they interleave with every *)
(* step.  The model's answers are unconstrained: the loop never relies on  *)
(* tool_choice being obeyed.                                               *)
(***************************************************************************)
EXTENDS Naturals, Sequences, FiniteSets

CONSTANTS
  MaxIterations,  \* Agent(max_iterations=)
  OutputRetries,  \* Agent(output_retries=)
  MaxPasses,      \* Budget(max_passes=)
  Toolsets,       \* the ordered toolsets (Toolset.ordered) tools belong to
  MaxCalls,       \* bound: tool calls in one model response
  MaxTotalCalls,  \* bound: tool calls the model makes altogether
  MaxSends,       \* bound: messages the outside sends
  MaxResumes      \* bound: how often the run is resumed

ASSUME BoundsAreNaturals ==
  /\ MaxIterations \in Nat
  /\ OutputRetries \in Nat
  /\ MaxPasses \in Nat \ {0}
  /\ MaxCalls \in Nat /\ MaxTotalCalls \in Nat
  /\ MaxSends \in Nat
  /\ MaxResumes \in Nat

\* A call is to a plain tool, to a member of an ordered toolset, or to
\* final_result with a valid ("good") or an invalid ("bad") argument.
Output == {"good", "bad"}
ASSUME ToolsetNames == Toolsets \intersect (Output \union {"plain"}) = {}

VARIABLES
  structured,   \* whether the run owes a schema-validated output
  pc,           \* where the loop's task is
  iter,         \* iterations of the loop begun
  messages,     \* RunState.messages: the run's transcript
  passes,       \* RunState.passes
  stepCounter,  \* RunState.step_counter
  attempts,     \* RunState.output_attempts
  winding,      \* RunState.winding_down
  stopped,      \* RunState.stopped
  slots,        \* the batch: what each call of the last pass has come to
  inbox,        \* RunControl._inbox
  cancelled,    \* RunControl._cancelled
  saved,        \* the transcript RunControl.checkpoint was last given
  sessions,     \* times the run was resumed
  sent,         \* messages sent so far; the n-th message is the number n
  lost,         \* messages that went down with a run that broke off
  calls,        \* tool calls the model made so far; the n-th has id n
  started,      \* the calls whose execution began
  starts,       \* executions begun, one that begins a call again included
  endCalls,     \* the calls that returned end_run
  steps         \* the step events emitted: [id, call, status]

loopVars    == <<iter, messages, passes, stepCounter, attempts, winding, stopped, slots>>
controlVars == <<inbox, cancelled, sent>>
traceVars   == <<lost, calls, started, starts, endCalls, steps>>
vars == <<structured, pc, loopVars, controlVars, saved, sessions, traceVars>>

Alive == pc \in {"top", "model", "saveCalls", "batch", "saveResults"}

-----------------------------------------------------------------------------
(* Messages *)

User(notes)      == [role |-> "user", calls |-> <<>>, results |-> <<>>, notes |-> notes]
Assistant(uses)  == [role |-> "assistant", calls |-> uses, results |-> <<>>, notes |-> <<>>]
Results(answers) == [role |-> "user", calls |-> <<>>, results |-> answers, notes |-> <<>>]

LastOf(s) == s[Len(s)]

\* Mutant: the text replaces what was added to the turn before it.
AppendUserText_Overwrites(transcript, notes) ==
  IF transcript # <<>> /\ LastOf(transcript).role = "user"
  THEN [transcript EXCEPT ![Len(transcript)].notes = notes]
  ELSE Append(transcript, User(notes))

AppendUserText(transcript, notes) ==
  IF transcript # <<>> /\ LastOf(transcript).role = "user"
  THEN [transcript EXCEPT ![Len(transcript)].notes = @ \o notes]
  ELSE Append(transcript, User(notes))

UnrunResults(uses, why) == Results([i \in DOMAIN uses |-> [id |-> uses[i].id, status |-> why]])

\* Mutant: the calls in flight stay unanswered.
CloseInterrupted_LeavesThem(transcript) == transcript

CloseInterrupted(transcript) ==
  IF transcript # <<>> /\ LastOf(transcript).calls # <<>>
  THEN Append(transcript, UnrunResults(LastOf(transcript).calls, "interrupted"))
  ELSE transcript

\* The pass recorded a structured result: its call was answered without error.
RecordedOutput(transcript) ==
  \E answer \in {LastOf(transcript).results[i] : i \in DOMAIN LastOf(transcript).results} :
    answer.status = "recorded"

\* The model's own final answer: a pass of prose alone.
Ended(transcript) == LastOf(transcript).role = "assistant" /\ LastOf(transcript).calls = <<>>

\* Mutant: a resumed run counts its own passes only.
PassCount_Fresh(transcript) == 0

PassCount(transcript) == Cardinality({i \in DOMAIN transcript : transcript[i].role = "assistant"})

\* The places of a transcript's tool calls, final_result left out.
ToolUses(transcript) ==
  {p \in (1..Len(transcript)) \X (1..MaxCalls) :
     /\ p[2] \in DOMAIN transcript[p[1]].calls
     /\ transcript[p[1]].calls[p[2]].kind \notin Output}

\* Mutant: a resumed run numbers its steps from one again.
ToolCount_Fresh(transcript) == 0

ToolCount(transcript) == Cardinality(ToolUses(transcript))

-----------------------------------------------------------------------------
(* The batch of tool calls the last pass asked for *)

Batch == LastOf(messages).calls

IsTool(use) == use.kind \notin Output

\* Tool calls among the first i of uses, and failed final_results among them.
ToolsUpTo(uses, i) == {j \in DOMAIN uses : j <= i /\ IsTool(uses[j])}
BadUpTo(uses, i)   == {j \in DOMAIN uses : j <= i /\ uses[j].kind = "bad"}

\* _take_output raises on a failed final_result once the retries are used up.
OutOfRetries(uses, i) ==
  uses[i].kind = "bad" /\ attempts + Cardinality(BadUpTo(uses, i)) > OutputRetries

Settled == {"ok", "end", "error", "refused", "recorded", "retry"}
Failed  == {"error", "refused"}

SameToolset(i, j) == Batch[i].kind \in Toolsets /\ Batch[j].kind = Batch[i].kind

\* Mutant: a call that ended the run holds up the rest of its toolset.
Ready_AfterPlainSuccess(i) ==
  /\ slots[i] = "waiting"
  /\ \A j \in DOMAIN Batch : j < i /\ SameToolset(i, j) => slots[j] = "ok"

\* run_ordered starts a call when the toolset's earlier calls are through.
Ready(i) ==
  /\ slots[i] = "waiting"
  /\ \A j \in DOMAIN Batch : j < i /\ SameToolset(i, j) => slots[j] \in Settled

\* Mutant: an ordered toolset carries on after a failure.
SettledWith_CarriesOn(i, result) == [slots EXCEPT ![i] = result]

\* A call's result lands; a failure fills the rest of its ordered toolset.
SettledWith(i, result) ==
  [j \in DOMAIN slots |->
     IF j = i THEN result
     ELSE IF result \in Failed /\ j > i /\ SameToolset(i, j) THEN "refused"
     ELSE slots[j]]

StepStatus(result) == IF result \in Failed THEN "error" ELSE "done"

\* end_run is a field of the result, not of the block the transcript keeps.
BlockStatus(result) == IF result = "end" THEN "ok" ELSE result

-----------------------------------------------------------------------------
(* How a run ends: its frame, and the RunState in it, are gone *)

FrameGone ==
  /\ iter' = 0
  /\ passes' = 0
  /\ stepCounter' = 0
  /\ attempts' = 0
  /\ winding' = FALSE
  /\ slots' = <<>>

\* A DoneEvent: what is left is its transcript and why the run stopped.
Done(transcript, why) ==
  /\ pc' = "done"
  /\ messages' = transcript
  /\ stopped' = why
  /\ FrameGone

\* An exception leaves the loop: the transcript goes with the frame.
Raise ==
  /\ pc' = "error"
  /\ messages' = <<>>
  /\ stopped' = "none"
  /\ FrameGone

-----------------------------------------------------------------------------
(* The loop *)

\* The loop's head runs again after an iteration that didn't end the run.
\* A cancel is looked at first; a run past its iterations raises.
BeginPassCancelled ==
  /\ pc = "top"
  /\ iter < MaxIterations
  /\ cancelled
  /\ Done(messages, "cancelled")
  /\ UNCHANGED <<structured, controlVars, saved, sessions, traceVars>>

OutOfIterations ==
  /\ pc = "top"
  /\ iter = MaxIterations
  /\ Raise
  /\ UNCHANGED <<structured, controlVars, saved, sessions, traceVars>>

\* _steer drains the inbox before the deadline is looked at.
TimeOut ==
  /\ pc = "top"
  /\ iter < MaxIterations
  /\ ~cancelled
  /\ Raise
  /\ inbox' = <<>>
  /\ UNCHANGED <<structured, cancelled, sent, saved, sessions, traceVars>>

\* What Budget.reached finds before a pass: its own pass is counted in, so
\* the limit leaves room for the wind-down pass.  The clock and the cost are
\* reached whenever the environment says so.
BudgetReached(clockOrCost) == passes + 1 >= MaxPasses \/ clockOrCost

\* _steer hands over the queued messages, then the budget's notice.
Steered(reached) ==
  LET heard == IF inbox = <<>> THEN messages ELSE AppendUserText(messages, inbox)
  IN IF reached THEN AppendUserText(heard, <<>>) ELSE heard

\* The request goes out.
BeginPass ==
  /\ pc = "top"
  /\ iter < MaxIterations
  /\ ~cancelled
  /\ pc' = "model"
  /\ iter' = iter + 1
  /\ inbox' = <<>>
  /\ \E clockOrCost \in BOOLEAN :
       /\ winding' = (winding \/ BudgetReached(clockOrCost))
       /\ messages' = Steered(BudgetReached(clockOrCost))
  /\ UNCHANGED <<structured, passes, stepCounter, attempts, stopped, slots, cancelled, sent,
                 saved, sessions, traceVars>>

ModelFails ==
  /\ pc = "model"
  /\ Raise
  /\ UNCHANGED <<structured, controlVars, saved, sessions, traceVars>>

\* The calls a response may hold; final_result exists only in a structured run.
Responses ==
  LET kinds == {"plain"} \union Toolsets \union (IF structured THEN Output ELSE {})
  IN UNION {[1..n -> kinds] : n \in {k \in 0..MaxCalls : calls + k <= MaxTotalCalls}}

\* The answer arrives and is acted on, up to the checkpoint before its tools.
ModelAnswers(kinds) ==
  LET uses == [i \in DOMAIN kinds |-> [id |-> calls + i, kind |-> kinds[i]]]
      answered == Append(messages, Assistant(uses))
      unrun == IF uses = <<>> THEN answered ELSE Append(answered, UnrunResults(uses, "unrun"))
      goOn(where, transcript, tries) ==
        /\ pc' = where
        /\ messages' = transcript
        /\ attempts' = tries
        /\ passes' = passes + 1
        /\ UNCHANGED <<iter, stepCounter, winding, stopped, slots>>
  IN
  /\ pc = "model"
  /\ calls' = calls + Len(kinds)
  /\ \/ winding /\ Done(unrun, "budget")
     \/ ~winding /\ uses = <<>> /\ inbox # <<>> /\ goOn("top", answered, attempts)
     \/ /\ ~winding /\ uses = <<>> /\ inbox = <<>> /\ structured /\ attempts < OutputRetries
        /\ goOn("top", Append(answered, User(<<>>)), attempts + 1)
     \/ ~winding /\ uses = <<>> /\ inbox = <<>> /\ ~structured /\ Done(answered, stopped)
     \/ ~winding /\ uses # <<>> /\ cancelled /\ Done(unrun, "cancelled")
     \/ ~winding /\ uses # <<>> /\ ~cancelled /\ goOn("saveCalls", answered, attempts)
  /\ UNCHANGED <<structured, controlVars, saved, sessions, lost, started, starts, endCalls, steps>>

\* Prose where the result was due, with no retries left.
NoOutput ==
  /\ pc = "model"
  /\ ~winding /\ inbox = <<>> /\ structured /\ attempts >= OutputRetries
  /\ Raise
  /\ UNCHANGED <<structured, controlVars, saved, sessions, traceVars>>

\* The checkpoint hook raises, before or after it stored the transcript.
SaveFails ==
  /\ pc \in {"saveCalls", "saveResults"}
  /\ Raise
  /\ saved' \in {saved, messages}
  /\ UNCHANGED <<structured, controlVars, sessions, traceVars>>

-----------------------------------------------------------------------------
(* The tool batch *)

\* Mutant: the hook is given the transcript as of the pass before.
Checkpoint_Behind == saved' = SubSeq(messages, 1, Len(messages) - 1)

\* RunState.checkpoint: the hook stores the whole transcript.
Checkpoint == saved' = messages

\* The step events of the calls up to the first final_result that raises.
BatchSteps(reached) ==
  {[id |-> stepCounter + Cardinality(ToolsUpTo(Batch, i)), call |-> Batch[i].id,
    status |-> "running"] : i \in {j \in reached : IsTool(Batch[j])}}

Handled == {i \in DOMAIN Batch : \A j \in 1..i : ~OutOfRetries(Batch, j)}

\* The calls are saved; then steps are numbered and announced, final_result
\* is answered in place, and every other call's task is created.
StartBatch ==
  /\ pc = "saveCalls"
  /\ Checkpoint
  /\ steps' = steps \union BatchSteps(Handled)
  /\ \/ /\ Handled = DOMAIN Batch
        /\ pc' = "batch"
        /\ stepCounter' = stepCounter + Cardinality(ToolsUpTo(Batch, Len(Batch)))
        /\ attempts' = attempts + Cardinality(BadUpTo(Batch, Len(Batch)))
        /\ slots' = [i \in DOMAIN Batch |->
                       IF IsTool(Batch[i]) THEN "waiting"
                       ELSE IF Batch[i].kind = "good" THEN "recorded" ELSE "retry"]
        /\ UNCHANGED <<iter, messages, passes, winding, stopped>>
     \/ /\ Handled # DOMAIN Batch
        /\ Raise
  /\ UNCHANGED <<structured, controlVars, sessions, lost, calls, started, starts, endCalls>>

\* The tool source starts executing the call.
BeginCall(i) ==
  /\ pc = "batch"
  /\ Ready(i)
  /\ slots' = [slots EXCEPT ![i] = "running"]
  /\ started' = started \union {Batch[i].id}
  /\ starts' = starts + 1
  /\ UNCHANGED <<structured, pc, iter, messages, passes, stepCounter, attempts, winding, stopped,
                 controlVars, saved, sessions, lost, calls, endCalls, steps>>

\* An unknown tool or a veto (RunControl.refuse): an error, and nothing runs.
RefuseCall(i) ==
  /\ pc = "batch"
  /\ Ready(i)
  /\ slots' = SettledWith(i, "refused")
  /\ UNCHANGED <<structured, pc, iter, messages, passes, stepCounter, attempts, winding, stopped,
                 controlVars, saved, sessions, traceVars>>

\* The tool returns, ends the run, or fails (an exception becomes a result).
FinishCall(i) ==
  /\ pc = "batch"
  /\ slots[i] = "running"
  /\ \E result \in {"ok", "end", "error"} : slots' = SettledWith(i, result)
  /\ UNCHANGED <<structured, pc, iter, messages, passes, stepCounter, attempts, winding, stopped,
                 controlVars, saved, sessions, traceVars>>

\* Every task is done: results are taken in the order of the calls.
SettleBatch ==
  /\ pc = "batch"
  /\ \A i \in DOMAIN Batch : slots[i] \in Settled
  /\ pc' = "saveResults"
  /\ messages' = Append(messages, Results(
       [i \in DOMAIN Batch |-> [id |-> Batch[i].id, status |-> BlockStatus(slots[i])]]))
  /\ steps' = {IF \E i \in DOMAIN Batch : s.call = Batch[i].id
               THEN [s EXCEPT !.status =
                       StepStatus(slots[CHOOSE i \in DOMAIN Batch : s.call = Batch[i].id])]
               ELSE s : s \in steps}
  /\ endCalls' = endCalls \union {Batch[i].id : i \in {j \in DOMAIN Batch : slots[j] = "end"}}
  /\ UNCHANGED <<structured, iter, passes, stepCounter, attempts, winding, stopped, slots,
                 controlVars, saved, sessions, lost, calls, started, starts>>

\* The results are saved; a recorded output or end_run ends the run.
EndBatch ==
  /\ pc = "saveResults"
  /\ Checkpoint
  /\ IF \E i \in DOMAIN slots : slots[i] \in {"recorded", "end"}
     THEN Done(messages, stopped)
     ELSE /\ pc' = "top"
          /\ slots' = <<>>
          /\ UNCHANGED <<iter, messages, passes, stepCounter, attempts, winding, stopped>>
  /\ UNCHANGED <<structured, controlVars, sessions, traceVars>>

-----------------------------------------------------------------------------
(* The outside: messages, a cancel, a crash, a resume *)

Send ==
  /\ Alive
  /\ sent < MaxSends
  /\ sent' = sent + 1
  /\ inbox' = Append(inbox, sent')
  /\ UNCHANGED <<structured, pc, loopVars, cancelled, saved, sessions, traceVars>>

Cancel ==
  /\ Alive
  /\ ~cancelled
  /\ cancelled' = TRUE
  /\ UNCHANGED <<structured, pc, loopVars, inbox, sent, saved, sessions, traceVars>>

\* The process dies, or the task is cancelled and takes its tools with it:
\* only what was saved is left (a save under way may have come through), and
\* the steps that were open stay so.
Crash ==
  /\ Alive
  /\ \/ UNCHANGED saved
     \/ pc \in {"saveCalls", "saveResults"} /\ saved' = messages
  /\ pc' = "crashed"
  /\ messages' = <<>>
  /\ stopped' = "none"
  /\ FrameGone
  /\ inbox' = <<>>
  /\ cancelled' = FALSE
  /\ UNCHANGED <<structured, sent, sessions, traceVars>>

Delivered(transcript) ==
  UNION {{transcript[i].notes[j] : j \in DOMAIN transcript[i].notes} : i \in DOMAIN transcript}

\* Mutant: a resume starts the calls in flight again instead of closing them.
Resume_RunsThemAgain ==
  /\ pc \in {"error", "crashed"}
  /\ saved # <<>>
  /\ LastOf(saved).calls # <<>>
  /\ sessions < MaxResumes
  /\ sessions' = sessions + 1
  /\ pc' = "saveCalls"
  /\ messages' = saved
  /\ passes' = PassCount(saved)
  /\ stepCounter' = ToolCount(saved)
  /\ UNCHANGED <<structured, iter, attempts, winding, stopped, slots, controlVars, saved, traceVars>>

\* Agent.resume of the last checkpoint after a failure, or of the messages
\* of a finished run; messages still queued are sent on to the new control.
\* The event stream of the earlier run is over: its open steps are lost.
Resume ==
  LET base   == IF pc = "done" THEN messages ELSE saved
      closed == CloseInterrupted(base)
      over   == IF structured THEN RecordedOutput(closed) ELSE Ended(closed)
      nudged == IF structured /\ Ended(closed) THEN Append(closed, User(<<>>)) ELSE closed
  IN
  /\ pc \in {"done", "error", "crashed"}
  /\ base # <<>>
  /\ sessions < MaxResumes
  /\ sessions' = sessions + 1
  /\ cancelled' = FALSE
  /\ stopped' = "none"
  /\ lost' = (1..sent) \ (Delivered(base) \union {inbox[i] : i \in DOMAIN inbox})
  /\ IF over
     THEN /\ pc' = "done"
          /\ messages' = closed
          /\ UNCHANGED <<iter, passes, stepCounter, attempts, winding>>
     ELSE /\ pc' = "top"
          /\ messages' = nudged
          /\ iter' = 0
          /\ passes' = PassCount(nudged)
          /\ stepCounter' = ToolCount(nudged)
          /\ attempts' = 0
          /\ winding' = FALSE
  /\ steps' = {IF s.status = "running" THEN [s EXCEPT !.status = "lost"] ELSE s : s \in steps}
  /\ UNCHANGED <<structured, slots, inbox, sent, saved, calls, started, starts, endCalls>>

-----------------------------------------------------------------------------

\* RunState.start of a new run: the prompt alone.
Init ==
  /\ structured \in BOOLEAN
  /\ pc = "top"
  /\ iter = 0
  /\ messages = <<User(<<>>)>>
  /\ passes = 0
  /\ stepCounter = 0
  /\ attempts = 0
  /\ winding = FALSE
  /\ stopped = "none"
  /\ slots = <<>>
  /\ inbox = <<>>
  /\ cancelled = FALSE
  /\ saved = <<>>
  /\ sessions = 0
  /\ sent = 0
  /\ lost = {}
  /\ calls = 0
  /\ started = {}
  /\ starts = 0
  /\ endCalls = {}
  /\ steps = {}

\* The steps of the loop's own task, and of its tools.
Loop ==
  \/ BeginPassCancelled
  \/ OutOfIterations
  \/ TimeOut
  \/ BeginPass
  \/ ModelFails
  \/ \E kinds \in Responses : ModelAnswers(kinds)
  \/ NoOutput
  \/ SaveFails
  \/ StartBatch
  \/ \E i \in DOMAIN slots : BeginCall(i)
  \/ \E i \in DOMAIN slots : RefuseCall(i)
  \/ \E i \in DOMAIN slots : FinishCall(i)
  \/ SettleBatch
  \/ EndBatch

Next ==
  \/ Loop
  \/ Send
  \/ Cancel
  \/ Crash
  \/ Resume

\* The event loop runs every ready task, model calls and tools return, and
\* checkpoint hooks return or raise.  Nobody need send, cancel, crash or resume.
Fairness == WF_vars(Loop)

Spec == Init /\ [][Next]_vars /\ Fairness

-----------------------------------------------------------------------------
(* Properties *)

Kinds == {"plain"} \union Toolsets \union Output
Use == [id : Nat, kind : Kinds]
Status == {"ok", "error", "refused", "recorded", "retry", "interrupted", "unrun"}
Block == [id : Nat, status : Status]
Message == [role : {"user", "assistant"}, calls : Seq(Use), results : Seq(Block), notes : Seq(Nat)]
Transcript == Seq(Message)
Slot == {"waiting", "running"} \union Settled
Step == [id : Nat, call : Nat, status : {"running", "done", "error", "lost"}]

TypeOK ==
  /\ structured \in BOOLEAN
  /\ pc \in {"top", "model", "saveCalls", "batch", "saveResults", "done", "error", "crashed"}
  /\ iter \in Nat /\ passes \in Nat /\ stepCounter \in Nat /\ attempts \in Nat
  /\ messages \in Transcript /\ saved \in Transcript
  /\ winding \in BOOLEAN /\ cancelled \in BOOLEAN
  /\ stopped \in {"none", "budget", "cancelled"}
  /\ slots \in Seq(Slot)
  /\ inbox \in Seq(Nat)
  /\ sessions \in Nat /\ sent \in Nat /\ calls \in Nat /\ starts \in Nat
  /\ lost \in SUBSET Nat /\ started \in SUBSET Nat /\ endCalls \in SUBSET Nat
  /\ steps \in SUBSET Step

CallIds(transcript) ==
  UNION {{transcript[i].calls[j].id : j \in DOMAIN transcript[i].calls} : i \in DOMAIN transcript}

Answers(transcript) ==
  UNION {{transcript[i].results[j] : j \in DOMAIN transcript[i].results} : i \in DOMAIN transcript}

\* Two tool calls never get the same step id, even when a run is resumed from
\* a checkpoint and numbers its steps from the calls it finds there
\* (RunState.start, next_step_id); and a run that ends with a DoneEvent left no
\* step without its end.
StepsAccounted ==
  /\ \A s, t \in steps : s.id = t.id => s = t
  /\ pc = "done" => \A s \in steps : s.status # "running"

\* A call that began to execute is in the last saved transcript, so a resume
\* can tell the model about it (the checkpoint before the tools run).
StartedIsSaved == started \subseteq CallIds(saved)

\* Every request to the model ends with a user turn, and every pass that
\* called tools is followed at once by one answer per call, in the order of
\* the calls: providers reject anything else. And a transcript that holds a
\* recorded result is never sent again, after a resume neither.
RequestWellFormed ==
  pc = "model" =>
    /\ \A answer \in Answers(messages) : answer.status # "recorded"
    /\ LastOf(messages).role = "user"
    /\ \A i \in DOMAIN messages :
         LET uses == messages[i].calls IN
         uses # <<>> =>
           /\ i < Len(messages)
           /\ [j \in DOMAIN uses |-> uses[j].id]
                = [j \in DOMAIN messages[i + 1].results |-> messages[i + 1].results[j].id]

\* A call of an ordered toolset has run only if every earlier call of the
\* batch to that toolset returned without error (run_ordered).
OrderedStops ==
  pc \in {"batch", "saveResults"} =>
    LET uses == IF pc = "batch" THEN Batch ELSE messages[Len(messages) - 1].calls IN
    \A i, j \in DOMAIN uses :
      /\ i < j
      /\ uses[i].kind \in Toolsets
      /\ uses[j].kind = uses[i].kind
      /\ uses[j].id \in started
      => slots[i] \in {"ok", "end"}

\* The messages of a transcript, and those queued, are in the order sent.
InOrder(transcript) ==
  \A i, k \in DOMAIN transcript :
    \A j \in DOMAIN transcript[i].notes, l \in DOMAIN transcript[k].notes :
      i < k \/ (i = k /\ j < l) => transcript[i].notes[j] < transcript[k].notes[l]

QueuedAfter(transcript) ==
  /\ \A i, j \in DOMAIN inbox : i < j => inbox[i] < inbox[j]
  /\ \A n \in Delivered(transcript), i \in DOMAIN inbox : n < inbox[i]

\* A message sent to the run is in the transcript or still queued, once and
\* in the order sent; only a run that broke off loses any.
MessagesConserved ==
  pc \in {"top", "model", "saveCalls", "batch", "saveResults", "done"} =>
    /\ InOrder(messages) /\ QueuedAfter(messages)
    /\ Delivered(messages) \union {inbox[i] : i \in DOMAIN inbox} = (1..sent) \ lost

PassesIn(transcript) ==
  LET assistant == {i \in DOMAIN transcript : transcript[i].role = "assistant"}
  IN Cardinality(assistant)

\* The budget ends the run within its passes: only the first pass of a
\* resumed run may go over, and the tools of a wind-down pass never run.
BudgetKept ==
  /\ Alive /\ iter > 1 => PassesIn(messages) + (IF pc = "model" THEN 1 ELSE 0) <= MaxPasses
  /\ winding => pc \notin {"saveCalls", "batch", "saveResults"}

\* Through crashes and resumes the saved transcripts behave as a ledger of
\* tool calls (CallLedger.tla): an execution begins a recorded call that was
\* neither begun nor answered before, so no call is executed twice, and no
\* answer is replaced or claims a success of a call that never ran.
Ledger == INSTANCE CallLedger WITH
  Calls <- Nat, Statuses <- Status,
  recorded <- CallIds(saved), ran <- started, executions <- starts, answers <- Answers(saved)
ImplementsLedger == Ledger!Spec

\* A run that is working ends, whatever the model and the tools answer.
Terminates == Alive ~> ~Alive
=============================================================================
