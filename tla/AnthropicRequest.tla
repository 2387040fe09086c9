--------------------------- MODULE AnthropicRequest ---------------------------
(***************************************************************************)
(* How a neutral request becomes one for Anthropic's API                   *)
(* (models/anthropic.py): the blocks that are sent, the shapes each model  *)
(* takes, and where the prompt-cache breakpoints go.                       *)
(***************************************************************************)
EXTENDS Transcripts

Provider == "anthropic"

\* What one model accepts. thinkingOff is the thinking type that turns it off.
Rules(thinkingOff, offEffort, forcing, budget) ==
  [thinkingOff |-> thinkingOff, offEffort |-> offEffort, forcing |-> forcing, budget |-> budget]
DefaultRules == Rules("disabled", "none", TRUE, TRUE)
AlwaysThinks == Rules("none", "low", TRUE, FALSE)
AlwaysThinksNoForcing == Rules("none", "low", FALSE, FALSE)
AdaptiveOnly == Rules("disabled", "none", TRUE, FALSE)

\* A model's name is the sequence of its parts; the table is read in order.
ModelRules == <<
  <<<<"fable", 5, 1>>, AlwaysThinksNoForcing>>,
  <<<<"mythos", 5, 1>>, AlwaysThinksNoForcing>>,
  <<<<"opus", 5, 5>>, AlwaysThinksNoForcing>>,
  <<<<"sonnet", 5, 5>>, Rules("between_tools", "none", FALSE, FALSE)>>,
  <<<<"fable", 5>>, AlwaysThinks>>,
  <<<<"mythos", 5>>, AlwaysThinks>>,
  <<<<"opus", 5>>, AdaptiveOnly>>,
  <<<<"sonnet", 5>>, AdaptiveOnly>>,
  <<<<"haiku", 5, 5>>, AdaptiveOnly>>,
  <<<<"opus", 4, 8>>, AdaptiveOnly>>,
  <<<<"opus", 4, 7>>, AdaptiveOnly>> >>

RulesFor(model) ==
  LET listed == {i \in DOMAIN ModelRules : IsPrefix(ModelRules[i][1], model)}
  IN IF listed = {} THEN DefaultRules ELSE ModelRules[Min(listed)][2]
-----------------------------------------------------------------------------
\* Reasoning goes back to the provider it came from, and no blank text is sent.
Sent(block) ==
  CASE IsReasoning(block) -> block.provider = Provider
    [] block.type = "text" -> block.id # "blank"
    [] OTHER -> TRUE

MessageContent(message) == Filtered(message.content, Sent)

\* Mutant: volatile blocks count as stable.
StableBlocks_All(message) == Len(MessageContent(message))

\* How many of the sent blocks come before the first volatile one.
StableBlocks(message) ==
  LET volatile == {i \in DOMAIN message.content : IsVolatile(message.content[i])}
  IN IF volatile = {} THEN Len(MessageContent(message))
     ELSE Len(Filtered(SubSeq(message.content, 1, Min(volatile) - 1), Sent))

\* Mutant: a message left with no content is sent.
MessageParams_Empty(messages) ==
  [i \in DOMAIN messages |-> [ role |-> messages[i].role, content |-> MessageContent(messages[i]),
                               stable |-> StableBlocks(messages[i]) ]]

\* The messages that are sent; one left with no content is not.
MessageParams(messages) ==
  LET kept == Filtered(messages, LAMBDA message : MessageContent(message) # <<>>)
  IN [i \in DOMAIN kept |->
        [role |-> kept[i].role, content |-> MessageContent(kept[i]), stable |-> StableBlocks(kept[i])]]

\* Each native toolset goes out once, where its first member stood.
ToolParams(tools) ==
  LET First(i) == \A j \in 1..(i - 1) : tools[j].native = "none" \/ tools[j].native # tools[i].native
      Param(i) == IF tools[i].native = "none" THEN <<[native |-> FALSE, name |-> tools[i].name]>>
                  ELSE IF First(i) THEN <<[native |-> TRUE, name |-> tools[i].native]>>
                  ELSE <<>>
  IN FlattenSeq([i \in DOMAIN tools |-> Param(i)])

\* A user turn, as opposed to a message with tool results alone.
IsPrompt(param) ==
  param.role = "user" /\ \E i \in DOMAIN param.content : ~IsResult(param.content[i])

Breakpoint(part, i, j, ttl) == [part |-> part, at |-> <<i, j>>, ttl |-> ttl]

\* _mark_cache: the last system part and the newest two prompts; with a slot
\* left what stays the same across conversations; and the request's last
\* block, for five minutes.
Breakpoints(system, tools, params, ttl) ==
  LET prompts == {i \in DOMAIN params : IsPrompt(params[i])}
      newest == {i \in prompts : Cardinality({k \in prompts : k > i}) < 2}
      onSystem == IF system = <<>> THEN {} ELSE {Breakpoint("system", Len(system), 1, ttl)}
      onPrompts == {Breakpoint("messages", i, params[i].stable, ttl) :
                      i \in {k \in newest : params[k].stable > 0}}
      onShared ==
        IF Cardinality(onSystem) + Cardinality(onPrompts) >= 3 THEN {}
        ELSE IF Len(system) > 1 THEN {Breakpoint("system", 1, 1, ttl)}
        ELSE IF tools # <<>> /\ ~Last(tools).native THEN {Breakpoint("tools", Len(tools), 1, ttl)}
        ELSE {}
      onLast ==
        IF params = <<>> THEN {}
        ELSE LET last == Last(params)
                 at == <<Len(params), Len(last.content)>> IN
             IF /\ last.stable = Len(last.content)
                /\ ~IsReasoning(Last(last.content))
                /\ \A mark \in onPrompts : mark.at # at
             THEN {Breakpoint("messages", at[1], at[2], "5m")} ELSE {}
  IN onSystem \cup onPrompts \cup onShared \cup onLast

\* A request is the neutral one: system, messages, tools, model, choice
\* ("auto", "tool", "any", "none"), reasoning ("none", "off", "on", "budget").
Forced(request) == RulesFor(request.model).forcing /\ request.choice \in {"tool", "any"}

\* The thinking and the effort that go out with it.
Asked(request, defaultReasoning) ==
  LET rules == RulesFor(request.model)
      reasoning == IF request.reasoning = "none" THEN defaultReasoning ELSE request.reasoning
      on == reasoning \in {"on", "budget"} /\ ~(Forced(request) /\ request.tools # <<>>)
  IN [ thinking |-> CASE reasoning = "none" -> "absent"
                      [] on /\ reasoning = "budget" /\ rules.budget -> "enabled"
                      [] on /\ ~(reasoning = "budget" /\ rules.budget) -> "adaptive"
                      [] OTHER -> IF rules.thinkingOff = "none" THEN "absent" ELSE rules.thinkingOff,
       effort |-> IF reasoning # "none" /\ ~on THEN rules.offEffort ELSE "none" ]

\* build_kwargs.
AnthropicKwargs(request, defaultReasoning, ttl) ==
  LET asked == Asked(request, defaultReasoning)
      tools == ToolParams(request.tools)
      params == MessageParams(request.messages)
      system == Filtered(request.system, LAMBDA part : part # "blank")
  IN [ messages |-> params,
       system |-> system,
       tools |-> tools,
       thinking |-> asked.thinking,
       effort |-> asked.effort,
       choice |-> IF tools = <<>> THEN "absent"
                  ELSE IF Forced(request) THEN request.choice
                  ELSE IF request.choice = "none" THEN "none" ELSE "absent",
       marks |-> IF ttl = "none" THEN {} ELSE Breakpoints(system, tools, params, ttl) ]
=============================================================================
