------------------------------- MODULE Context -------------------------------
(***************************************************************************)
(* What a model is sent over the passes of an agent: tool results that are *)
(* spilled, capped and cleared (Agent._execute_tool, _trim_context), words *)
(* that come in between, the last pass of a budget, a cancel, a resume,    *)
(* turns that follow one another, and the requests built from all that for *)
(* Anthropic and for OpenAI.                                               *)
(***************************************************************************)
EXTENDS AnthropicRequest, OpenAIRequest

CONSTANTS
  Configs,         \* an agent and its client: system, tools, model, reasoning,
                   \* clientDefault, structured, workspace, cap, ttl
  Contents,        \* what a tool may return: see Whole
  Prompts,         \* prompts of a new turn: sequences of blocks
  OpenAIModels,    \* models the transcripts may be sent to instead
  SpillThreshold,  \* longest text that is not saved to a file
  KeepResults,     \* context_keep_recent_results
  KeepImages,      \* keep_recent_images, 0: off
  MaxBatch,        \* calls in a response
  ControlPasses,   \* after how many passes a message, a cancel or the budget may come
  MaxCalls, MaxPasses, MaxTurns, MaxResumes   \* bounds of the instance

NoRequest == [messages |-> <<>>]
NotRun == [what |-> "unrun", size |-> 0]

ASSUME BoundsAssumption == MaxBatch \in Nat /\ SpillThreshold \in Nat

\* A prompt is what a user may say: text and images.
ASSUME PromptsAssumption ==
  \A prompt \in Prompts : prompt \in Seq([type : {"text", "image"}, id : STRING, volatile : BOOLEAN])

ASSUME ContentsAssumption == Contents \subseteq [what : {"text", "screen", "failed"}, size : Nat]

ASSUME ConfigsAssumption ==
  \A c \in Configs :
    /\ c.reasoning \in {"none", "off", "on", "budget"} /\ c.cap \in Nat
    /\ c.tools \in Seq([name : STRING, native : STRING])

VARIABLES
  config,       \* the agent and its model client
  phase,        \* "pass", "model", "tools", "ended": what the run does next
  messages,     \* RunState.messages
  runStart,     \* RunState.run_start: how many of them are the history
  over,         \* the last prompt was longer than context_clear_threshold_tokens
  force,        \* RunState.force_output
  winding,      \* RunState.winding_down
  cleared,      \* RunState.cleared
  spilled,      \* RunState.spilled
  request,      \* the last request, as the client got it
  files,        \* what was saved, by path
  born,         \* history: the conversation each reasoning block came from
  returned,     \* history: what each call returned, NotRun if it never ran
  unsaved,      \* history: calls whose output could not be saved, or that the cap cut
  passes, turns, resumes

contextVars == <<config, phase, messages, runStart, over, force, winding, cleared, spilled, request,
                 files, born, returned, unsaved, passes, turns, resumes>>

ContextInit ==
  /\ config \in Configs
  /\ phase = "pass"
  /\ \E prompt \in Prompts : messages = <<Message("user", prompt)>>
  /\ runStart = 0 /\ over = FALSE /\ force = FALSE /\ winding = FALSE
  /\ cleared = {} /\ spilled = <<>>
  /\ request = NoRequest
  /\ files = <<>> /\ born = <<>> /\ returned = <<>> /\ unsaved = {}
  /\ passes = 0 /\ turns = 1 /\ resumes = 0
-----------------------------------------------------------------------------
\* The files the outputs of some calls are saved to, one after the other.
SavedAs(calls) == [c \in calls |-> Len(files) + Cardinality({d \in calls : d <= c})]

TextOf(transcript, c) ==
  LET p == CHOOSE q \in ResultPositions(transcript) : transcript[q[1]].content[q[2]].id = c
  IN ContentText(transcript[p[1]].content[p[2]].content)

\* What the model hears before a pass: the messages that were queued, then
\* that the budget is reached.
Heard(steered, reached) ==
  LET noted == IF steered THEN AppendUserText(messages, Text("steer", FALSE)) ELSE messages
  IN IF reached THEN AppendUserText(noted, Text("budget", FALSE)) ELSE noted

\* The last pass of a budget may call nothing but final_result. A structured
\* agent with no other tool is always made to call it.
ToolChoice(reached) ==
  IF reached THEN IF config.structured THEN "tool" ELSE "none"
  ELSE IF force \/ (config.structured /\ Len(config.tools) = 1) THEN "tool" ELSE "auto"

\* Before a pass: what the model hears, then the clearing, then the request. A
\* run goes on after an answer only for a message. A workspace that does not
\* work refuses what it is given.
BeginPass(steered, reached, works) ==
  LET heard == Heard(steered, reached)
      ids == IF over THEN ToClear(heard, KeepResults, cleared) ELSE {}
      saved == IF config.workspace /\ works THEN ids \ DOMAIN spilled ELSE {}
      paths == [c \in ids |-> IF c \in DOMAIN spilled THEN spilled[c]
                              ELSE IF c \in saved THEN SavedAs(saved)[c] ELSE 0]
      stubbed == IF ids = {} THEN heard ELSE ClearedResults(heard, ids, paths)
      shown == IF ImagesDue(stubbed, KeepImages) THEN ClearImages(stubbed, KeepImages) ELSE stubbed
      edited == ids # {} \/ ImagesDue(stubbed, KeepImages)
  IN /\ phase = "pass" /\ passes < MaxPasses
     /\ Last(messages).role = "assistant" => steered
     /\ passes' = passes + 1
     /\ messages' = shown
     /\ cleared' = cleared \cup ids
     /\ files' = files \o [i \in 1..Cardinality(saved) |-> TextOf(heard, Ascending(saved)[i])]
     /\ unsaved' = unsaved \cup {c \in ids : paths[c] = 0}
     /\ request' = [ messages |-> shown, edited |-> edited, start |-> runStart,
                     system |-> config.system, tools |-> config.tools, model |-> config.model,
                     choice |-> ToolChoice(reached),
                     reasoning |-> IF edited /\ config.reasoning # "none"
                                   THEN "off" ELSE config.reasoning ]
     /\ over' = FALSE /\ force' = FALSE /\ winding' = reached
     /\ phase' = "model"
     /\ UNCHANGED <<config, runStart, spilled, born, returned, turns, resumes>>

Sending == AnthropicKwargs(request, config.clientDefault, config.ttl)
\* Left out, thinking is the model's own default.
MayThink == Asked(request, config.clientDefault).thinking \notin {"disabled", "between_tools"}

\* What the client makes of an answer: reasoning with what it was signed over,
\* text, and calls that keep the name of their native toolset.
ParseMessage(thought, said, uses) ==
  Message("assistant",
          (IF thought THEN <<Reasoning(Len(born) + 1, Provider)>> ELSE <<>>) \o said \o uses)

\* The model's answer: some reasoning, some text, some calls. From Anthropic it
\* comes in one piece, a call with its toolset's name; from OpenAI as a stream,
\* in which parallel calls take turns, and the first delta of each has its id.
\* Out of budget, or cancelled meanwhile, the run ends and no call is run. An
\* answer is not the last word if a message came meanwhile.
ModelAnswers(thought, said, toolsets, order, tooLong, signal) ==
  LET first == Len(returned)
      Delta(k) == [index |-> order[k],
                   id |-> IF \E j \in 1..(k - 1) : order[j] = order[k] THEN 0 ELSE first + order[k]]
      uses == IF order # <<>> THEN StreamedUses([k \in DOMAIN order |-> Delta(k)])
              ELSE [i \in DOMAIN toolsets |-> ToolUse(first + i, toolsets[i])]
      answer == ParseMessage(thought, said, uses)
      halted == uses # <<>> /\ (winding \/ signal = "cancel")
      heeds == uses = <<>> /\ ~winding /\ signal = "message"
      nudged == uses = <<>> /\ ~winding /\ ~heeds /\ config.structured
  IN /\ phase = "model"
     /\ thought => MayThink
     /\ first + Len(toolsets) <= MaxCalls
     /\ messages' = IF halted THEN messages \o <<answer, UnrunResults(uses)>>
                    ELSE IF nudged THEN messages \o <<answer, Message("user", <<Text("nudge", FALSE)>>)>>
                    ELSE Append(messages, answer)
     /\ returned' = IF halted THEN returned \o [i \in DOMAIN uses |-> NotRun] ELSE returned
     /\ born' = IF thought THEN Append(born, request.messages) ELSE born
     /\ phase' = IF uses # <<>> /\ ~halted THEN "tools" ELSE IF heeds \/ nudged THEN "pass" ELSE "ended"
     /\ over' = (tooLong /\ phase' # "ended") /\ force' = nudged /\ winding' = FALSE
     /\ UNCHANGED <<config, runStart, cleared, spilled, request, files, unsaved, passes, turns, resumes>>

\* What a call returns: a text, a screenshot with a caption, or an exception
\* that is no ToolError.
Whole(c, kind) ==
  CASE kind.what = "text" -> Plain(Output(c, kind.size))
    [] kind.what = "screen" -> Items(<<TextItem(Output(c, kind.size)), ImageItem>>)
    [] kind.what = "failed" -> Plain(<<Note>>)

\* An output too long is spilled to file p, unless p is 0, and then capped;
\* what _execute_tool says of an exception is neither.
Uncut(c, kind, p) == IF p = 0 THEN Whole(c, kind) ELSE Plain(Preview(Whole(c, kind).text, p))
Shown(c, kind, p) ==
  IF kind.what = "failed" THEN Whole(c, kind) ELSE CapContent(Uncut(c, kind, p), config.cap)

\* The batch returns; its calls ran in parallel, and each may have saved its
\* output before.
ToolsReturn(kinds, works) ==
  LET uses == Uses(Last(messages))
      Kind(c) == kinds[c - Len(returned)]
      calls == {uses[i].id : i \in DOMAIN uses}
      large == {c \in calls : Kind(c).what # "failed" /\ Spills(Whole(c, Kind(c)), SpillThreshold)}
      saved == IF config.workspace /\ works THEN large ELSE {}
      At(c) == IF c \in saved THEN SavedAs(saved)[c] ELSE 0
      Result(use) == ToolResult(use.id, Shown(use.id, Kind(use.id), At(use.id)),
                                Kind(use.id).what = "failed", use.toolset)
  IN /\ phase = "tools"
     /\ Len(kinds) = Len(uses)
     /\ messages' = Append(messages, Message("user", [i \in DOMAIN uses |-> Result(uses[i])]))
     /\ files' = files \o [i \in 1..Cardinality(saved) |->
                             LET c == Ascending(saved)[i] IN Whole(c, Kind(c)).text]
     /\ spilled' = [c \in saved \cup DOMAIN spilled |->
                      IF c \in saved THEN SavedAs(saved)[c] ELSE spilled[c]]
     /\ returned' = returned \o kinds
     /\ unsaved' = unsaved \cup {c \in calls : Shown(c, Kind(c), At(c)) # Uncut(c, Kind(c), At(c))}
     /\ phase' = "pass"
     /\ UNCHANGED <<config, runStart, over, force, winding, cleared, request, born, passes, turns, resumes>>

\* A batch that ends the run, or a cancel between passes.
Stop ==
  /\ phase = "pass" /\ passes \in ControlPasses
  /\ phase' = "ended"
  /\ UNCHANGED <<config, messages, runStart, over, force, winding, cleared, spilled, request,
                 files, born, returned, unsaved, passes, turns, resumes>>
-----------------------------------------------------------------------------
\* What a transcript stored and read again has: no block is volatile.
Stored(transcript) ==
  [mi \in DOMAIN transcript |-> [transcript[mi] EXCEPT !.content =
     [bi \in DOMAIN @ |-> IF IsVolatile(@[bi]) THEN [@[bi] EXCEPT !.volatile = FALSE] ELSE @[bi]]]]

\* The process dies in a batch or after one and another one resumes the run, or
\* a run that was stopped is resumed from its messages; what the run kept beside
\* them is gone. A run that followed other turns is resumed without them, which
\* is left out.
Resume ==
  /\ \/ phase = "tools"
     \/ phase = "pass" /\ ~force /\ Last(messages).role = "user"
     \/ phase = "ended" /\ Last(messages).role = "user"
  /\ passes > 0 /\ turns = 1 /\ resumes < MaxResumes
  /\ resumes' = resumes + 1
  /\ messages' = CloseInterrupted(Stored(messages))
  /\ returned' = IF phase = "tools" THEN returned \o [i \in DOMAIN Uses(Last(messages)) |-> NotRun]
                 ELSE returned
  /\ cleared' = {} /\ spilled' = <<>> /\ over' = FALSE /\ force' = FALSE /\ winding' = FALSE
  /\ phase' = "pass"
  /\ UNCHANGED <<config, runStart, request, files, born, unsaved, passes, turns>>

\* strip_reasoning: for a transcript that another run continues.
StripReasoning(transcript) ==
  Filtered(DropReasoning(transcript), LAMBDA message : message.content # <<>>)

WithoutVolatile(transcript) ==
  [mi \in DOMAIN transcript |->
     [transcript[mi] EXCEPT !.content = Filtered(@, LAMBDA block : ~IsVolatile(block))]]

\* A new turn with the conversation so far as its history, less what was
\* volatile in it.
NewTurn(prompt) ==
  /\ phase = "ended" /\ turns < MaxTurns
  /\ turns' = turns + 1
  /\ LET history == StripReasoning(WithoutVolatile(messages)) IN
       /\ messages' = Append(history, Message("user", prompt))
       /\ runStart' = Len(history)
  /\ cleared' = {} /\ spilled' = <<>> /\ over' = FALSE /\ force' = FALSE /\ winding' = FALSE
  /\ phase' = "pass"
  /\ UNCHANGED <<config, request, files, born, returned, unsaved, passes, resumes>>

SequencesUpTo(S, n) == UNION {[1..k -> S] : k \in 0..n}
\* The orders in which the deltas of n calls may come, two of each; an answer with
\* reasoning or a toolset is not OpenAI's.
Orders == [n \in 0..MaxBatch |->
  {order \in [1..(2 * n) -> 1..n] : \A i \in 1..n : Cardinality({k \in DOMAIN order : order[k] = i}) = 2}]
StreamOrders(thought, toolsets) ==
  IF thought \/ ToSet(toolsets) # {"none"} THEN {} ELSE Orders[Len(toolsets)]
ToolsetsOffered == {"none"} \cup {config.tools[i].native : i \in DOMAIN config.tools}

\* What a control may say while the model answers.
Signals(toolsets) ==
  {"none"} \cup (IF passes \notin ControlPasses THEN {} ELSE IF toolsets = <<>> THEN {"message"} ELSE {"cancel"})

ContextNext ==
  \/ \E steered, reached \in {FALSE} \cup {passes \in ControlPasses},
        works \in {TRUE, ~config.workspace} : BeginPass(steered, reached, works)
  \/ \E thought, tooLong \in BOOLEAN, toolsets \in SequencesUpTo(ToolsetsOffered, MaxBatch) :
       \E said \in IF toolsets = <<>> THEN {<<>>, <<Text("answer", FALSE)>>} ELSE {<<>>},
          order \in {<<>>} \cup StreamOrders(thought, toolsets), signal \in Signals(toolsets) :
         ModelAnswers(thought, said, toolsets, order, tooLong, signal)
  \/ \E kinds \in SequencesUpTo(Contents, MaxBatch), works \in {TRUE, ~config.workspace} :
       ToolsReturn(kinds, works)
  \/ Stop
  \/ Resume
  \/ \E prompt \in Prompts : NewTurn(prompt)

ContextSpec == ContextInit /\ [][ContextNext]_contextVars
-----------------------------------------------------------------------------
\* The ids of the calls of a message.
CallIds(message) == [i \in DOMAIN Uses(message) |-> Uses(message)[i].id]

\* The calls of every message are answered by the next one, in their order, and
\* no two calls have one id.
Answered(transcript) ==
  /\ IsInjective(FlattenSeq([i \in DOMAIN transcript |-> CallIds(transcript[i])]))
  /\ \A i \in DOMAIN transcript :
       Uses(transcript[i]) # <<>> =>
         /\ i < Len(transcript)
         /\ LET answers == Filtered(transcript[i + 1].content, IsResult) IN
            CallIds(transcript[i]) = [j \in DOMAIN answers |-> answers[j].id]

\* Every request is one that Anthropic's API takes: each call answered in the
\* next message, a result with the toolset of its call if the call was run,
\* nothing empty or blank, no forced tool beside thinking, each native toolset
\* once, a model's shapes by its most specific rule, and at most four
\* breakpoints, none on thinking or after a volatile block.
AnthropicAccepts ==
  LET sent == Sending IN
  /\ Answered(sent.messages)
  /\ \A i \in DOMAIN sent.messages : \A use \in ToSet(Uses(sent.messages[i])) :
       returned[use.id] # NotRun =>
         \A answer \in ToSet(Results(sent.messages[i + 1])) :
           answer.id = use.id => answer.toolset = use.toolset
  /\ \A i \in DOMAIN sent.messages :
       LET content == sent.messages[i].content IN
       content # <<>> /\ \A j \in DOMAIN content : content[j].type = "text" => content[j].id # "blank"
  /\ \A i \in DOMAIN sent.system : sent.system[i] # "blank"
  /\ sent.choice = "tool" => sent.thinking \notin {"enabled", "adaptive"}
  /\ \A i, j \in DOMAIN sent.tools : sent.tools[i] = sent.tools[j] => i = j
  /\ \A rule, taken \in {r \in ToSet(ModelRules) : IsPrefix(r[1], request.model)} :
       RulesFor(request.model) = taken[2] => Len(rule[1]) <= Len(taken[1]) \/ rule[2] = taken[2]
  /\ Cardinality(sent.marks) <= 4
  /\ \A mark \in sent.marks : mark.part = "messages" =>
       LET message == sent.messages[mark.at[1]] IN
       /\ mark.at[2] \in 1..message.stable
       /\ ~IsReasoning(message.content[mark.at[2]])

\* Every transcript becomes messages that OpenAI's API takes: the tool messages
\* of a batch follow its calls at once and in order, content is null only
\* beside calls, a forced tool is among the tools, and no effort goes out beside
\* tools to a model that refuses it.
OpenAIAccepts ==
  LET sent == OpenAIMessages(request.system, request.messages) IN
  /\ \A model \in OpenAIModels :
       LET kwargs == OpenAIKwargs(request, model) IN
       /\ kwargs.effort /\ kwargs.tools # <<>> => ~EffortRefusedWithTools(model)
       /\ kwargs.choice \in {"absent", "required", "none"} \cup ToSet(kwargs.tools)
  /\ \A i \in DOMAIN sent :
       /\ sent[i].role = "assistant" =>
            /\ sent[i].content = "null" => sent[i].calls # <<>>
            /\ i + Len(sent[i].calls) <= Len(sent)
            /\ \A j \in DOMAIN sent[i].calls :
                 sent[i + j].role = "tool" /\ sent[i + j].id = sent[i].calls[j]
       /\ sent[i].role = "tool" => \E k \in 1..(i - 1) :
            sent[k].role = "assistant" /\ i - k \in DOMAIN sent[k].calls

\* A request that a provider would refuse is never built, whatever was cleared,
\* capped, resumed or added in between (clear_results, close_interrupted,
\* build_kwargs, to_openai_messages), with one exception: what stands in for a
\* call that never ran does not name its native toolset (unrun_results).
RequestAccepted == phase = "model" => AnthropicAccepts /\ OpenAIAccepts

\* A reasoning block goes out only in the conversation that produced it, and
\* the pass after an edit runs with reasoning off if the agent sets reasoning
\* (_drop_reasoning, reasoning_off_once).
ReasoningIsFresh ==
  phase = "model" =>
    /\ \A mi \in DOMAIN messages : \A bi \in DOMAIN messages[mi].content :
         LET block == messages[mi].content[bi] IN
         IsReasoning(block) => Stored(SubSeq(messages, 1, mi - 1)) = Stored(born[block.id])
    /\ request.edited /\ config.reasoning # "none" => Sending.thinking \notin {"enabled", "adaptive"}

\* What can be found from a text by opening the files it and they name.
Found(text) ==
  LET within[n \in 0..Len(files)] ==
        IF n = 0 THEN ToSet(text)
        ELSE within[n - 1] \cup
             UNION {ToSet(files[p]) : p \in {q \in DOMAIN files : Path(q) \in within[n - 1]}}
  IN within[Len(files)]

\* The model can still get at all that a tool returned, after any spill, clear
\* and resume, unless the workspace refused it or the cap cut what was shown of
\* it: an output, or a preview and with it the path of the file.
OutputsReachable ==
  \A p \in ResultPositions(messages) :
    LET block == messages[p[1]].content[p[2]]
        kind == returned[block.id] IN
    kind.what = "text" /\ block.id \notin unsaved =>
      ToSet(Output(block.id, kind.size)) \subseteq Found(ContentText(block.content))

\* The blocks of a request's messages in order, and how many there are up to
\* a breakpoint.
Sequence(params) ==
  FlattenSeq([i \in DOMAIN params |-> Stored(<<params[i]>>)[1].content])
UpTo(params, mark) ==
  SubSeq(Sequence(params), 1,
         Len(Sequence(SubSeq(params, 1, mark.at[1] - 1))) + mark.at[2])

\* What a request left in the prompt cache the next one reads: all of it in
\* the same turn, and in the next turn at least up to where this one started,
\* unless the transcript was edited (_mark_cache, append_user_text).
CacheSurvives ==
  [][ passes' # passes /\ request # NoRequest /\ ~request'.edited =>
        LET sent == Sending
            reached == IF request'.start = request.start THEN Len(sent.messages)
                       ELSE Len(MessageParams(SubSeq(request.messages, 1, request.start + 1))) IN
        \A mark \in sent.marks :
          mark.part = "messages" /\ mark.at[1] <= reached =>
            IsPrefix(UpTo(sent.messages, mark), Sequence(MessageParams(request'.messages))) ]_contextVars
=============================================================================
