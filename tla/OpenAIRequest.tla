----------------------------- MODULE OpenAIRequest -----------------------------
(***************************************************************************)
(* How a request becomes one for Chat Completions (models/openai.py): tool *)
(* messages carry text alone, so the images a tool returned follow all     *)
(* tool messages of their batch as a user message; and how the deltas of a *)
(* stream become the calls of a response.                                  *)
(***************************************************************************)
EXTENDS Transcripts

\* The images of a content, as sent.
ResultImages(content) ==
  IF content.form = "text" THEN <<>>
  ELSE Filtered(content.items, LAMBDA item : item.type = "image")

ToolMessage(block) == [role |-> "tool", id |-> block.id, content |-> ContentText(block.content)]

\* The user's own blocks keep their order when there are images among them;
\* texts alone are joined.
UserEntries(message) ==
  LET own == Filtered(message.content, LAMBDA block : block.type \in {"text", "image"})
      results == Results(message)
      toolImages == FlattenSeq([i \in DOMAIN results |-> ResultImages(results[i].content)])
      texts == Filtered(own, LAMBDA block : block.type = "text")
      User(parts) == <<[role |-> "user", parts |-> parts]>>
  IN [i \in DOMAIN results |-> ToolMessage(results[i])] \o
     (IF Len(texts) < Len(own)
      THEN User(own \o (IF toolImages = <<>> THEN <<>> ELSE <<TextItem(<<Note>>)>>) \o toolImages)
      ELSE IF toolImages # <<>> THEN User(<<[type |-> "joined", texts |-> texts]>> \o toolImages)
      ELSE IF texts # <<>> THEN User(<<[type |-> "joined", texts |-> texts]>>)
      ELSE <<>>)

AssistantEntry(message) ==
  LET texts == Filtered(message.content, LAMBDA block : block.type = "text")
      calls == [i \in DOMAIN Uses(message) |-> Uses(message)[i].id]
  IN [ role |-> "assistant", calls |-> calls,
       content |-> IF texts # <<>> THEN "text" ELSE IF calls = <<>> THEN "empty" ELSE "null" ]

OpenAIMessages(system, messages) ==
  (IF system = <<>> THEN <<>> ELSE <<[role |-> "system", parts |-> system]>>) \o
  FlattenSeq([i \in DOMAIN messages |->
    IF messages[i].role = "user" THEN UserEntries(messages[i])
    ELSE <<AssistantEntry(messages[i])>>])
-----------------------------------------------------------------------------
\* The calls of a stream: the deltas of one index make one call, which keeps the
\* id a delta gave it; names and arguments gather likewise.
StreamedUses(deltas) ==
  LET indices == Ascending({deltas[k].index : k \in DOMAIN deltas})
      Given(i) == {k \in DOMAIN deltas : deltas[k].index = i /\ deltas[k].id # 0}
  IN [i \in DOMAIN indices |-> ToolUse(deltas[Max(Given(indices[i]))].id, "none")]

\* Models that refuse an effort beside tools, by prefixes of their names (less
\* what comes before gpt).
NoEffortWithTools == {<<"gpt", 5, 4>>, <<"gpt", 5, 5>>}
EffortRefusedWithTools(model) == \E prefix \in NoEffortWithTools : IsPrefix(prefix, model)

\* build_kwargs, for one of OpenAI's models, beside the messages. Reasoning that
\* is "on" has an effort; a thinking budget has no equivalent, nor does turning
\* reasoning off.
OpenAIKwargs(request, model) ==
  [ model |-> model,
    effort |-> request.reasoning = "on" /\ ~(request.tools # <<>> /\ EffortRefusedWithTools(model)),
    tools |-> [i \in DOMAIN request.tools |-> request.tools[i].name],
    choice |-> CASE request.tools = <<>> \/ request.choice = "auto" -> "absent"
                 [] request.tools # <<>> /\ request.choice = "tool" -> "final_result"
                 [] request.tools # <<>> /\ request.choice = "any" -> "required"
                 [] request.tools # <<>> /\ request.choice = "none" -> "none" ]
=============================================================================
