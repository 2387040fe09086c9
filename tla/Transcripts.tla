----------------------------- MODULE Transcripts -----------------------------
(***************************************************************************)
(* Messages and their blocks (messages.py) and what the agent loop does to *)
(* them to stay inside the context window (_context.py), as functions.     *)
(* A text is a sequence of marks: <<"out", c, i>> is the i-th piece of     *)
(* what call c returned, <<"path", p>> names the p-th file saved, and      *)
(* <<"note">> stands for words the library adds.                           *)
(***************************************************************************)
EXTENDS Naturals, Sequences, FiniteSets, FiniteSetsExt, SequencesExt

CONSTANTS
  SpillHead, SpillTail,  \* how much of a saved output stays inline
  ClearKeep, ClearMin    \* what clearing leaves, and what it does not touch

ASSUME SizesAssumption ==
  /\ {SpillHead, SpillTail, ClearKeep, ClearMin} \subseteq Nat
  /\ ClearKeep + 2 < ClearMin

Note == <<"note">>
Path(p) == <<"path", p>>
Output(c, length) == [i \in 1..length |-> <<"out", c, i>>]

Message(role, content) == [role |-> role, content |-> content]
Text(id, volatile) == [type |-> "text", id |-> id, volatile |-> volatile]
Image(id, volatile) == [type |-> "image", id |-> id, volatile |-> volatile]
ToolUse(c, toolset) == [type |-> "tool_use", id |-> c, toolset |-> toolset]
Reasoning(id, provider) == [type |-> "reasoning", id |-> id, provider |-> provider]
ToolResult(c, content, isError, toolset) ==
  [type |-> "tool_result", id |-> c, content |-> content, error |-> isError, toolset |-> toolset]

\* A result's content: one text, or a list of text and image items.
Plain(text) == [form |-> "text", text |-> text]
Items(items) == [form |-> "list", items |-> items]
TextItem(text) == [type |-> "text", text |-> text]
ImageItem == [type |-> "image", text |-> <<Note>>]

\* The members of a set of numbers, the smallest first.
Ascending(S) ==
  [i \in 1..Cardinality(S) |-> CHOOSE x \in S : Cardinality({y \in S : y <= x}) = i]

\* What stands at some places of a sequence, in its order.
Picked(s, places) == LET order == Ascending(places) IN [k \in DOMAIN order |-> s[order[k]]]

\* What of a sequence passes a test.
Filtered(s, Test(_)) == Picked(s, {i \in DOMAIN s : Test(s[i])})

IsResult(block) == block.type = "tool_result"
IsUse(block) == block.type = "tool_use"
IsReasoning(block) == block.type = "reasoning"
IsVolatile(block) == block.type \in {"text", "image"} /\ block.volatile

Uses(message) == Filtered(message.content, IsUse)
Results(message) == Filtered(message.content, IsResult)

ContentText(content) ==
  IF content.form = "text" THEN content.text
  ELSE FlattenSeq([i \in DOMAIN content.items |-> content.items[i].text])

Cut(text, length) == SubSeq(text, 1, IF length < Len(text) THEN length ELSE Len(text))
Ending(text, length) ==
  SubSeq(text, IF length < Len(text) THEN Len(text) - length + 1 ELSE 1, Len(text))
-----------------------------------------------------------------------------
\* What spill puts in place of an output it saved as file p.
Preview(text, p) ==
  Cut(text, SpillHead) \o <<Note>> \o Ending(text, SpillTail) \o <<Note, Path(p)>>

Spills(content, threshold) == content.form = "text" /\ Len(content.text) > threshold

\* cap_result: one text is cut; in a list the cap is spent on the text items
\* in order, and those it does not reach are dropped.
CapItems(items, cap) ==
  LET size == [i \in DOMAIN items |-> IF items[i].type = "text" THEN Len(items[i].text) ELSE 0]
      Before(i) == SumFunctionOnSet(size, 1..(i - 1))   \* text before item i
      Capped(i) ==
        IF items[i].type # "text" THEN <<items[i]>>
        ELSE IF Before(i) >= cap THEN <<>>
        ELSE IF Before(i) + size[i] <= cap THEN <<items[i]>>
        ELSE <<TextItem(Cut(items[i].text, cap - Before(i)) \o <<Note>>)>>
  IN FlattenSeq([i \in DOMAIN items |-> Capped(i)])

CapContent(content, cap) ==
  IF cap = 0 \/ Len(ContentText(content)) <= cap THEN content
  ELSE IF content.form = "text" THEN Plain(Cut(content.text, cap) \o <<Note>>)
  ELSE Items(CapItems(content.items, cap))
-----------------------------------------------------------------------------
\* Positions of a transcript compare by message, then block, then item.
Later(p, q) ==
  \E k \in DOMAIN p : p[k] > q[k] /\ \A j \in 1..(k - 1) : p[j] = q[j]

\* The positions that are not among the newest keep.
Older(positions, keep) ==
  {p \in positions : Cardinality({q \in positions : Later(q, p)}) >= keep}

\* Mutant: the last pass keeps its reasoning.
DropReasoning_ButLast(messages) ==
  [mi \in DOMAIN messages |->
     IF mi >= Len(messages) - 1 THEN messages[mi]
     ELSE [messages[mi] EXCEPT !.content = Filtered(@, LAMBDA block : ~IsReasoning(block))]]

\* Edited history makes the reasoning in it invalid: all of it goes.
DropReasoning(messages) ==
  [mi \in DOMAIN messages |->
     [messages[mi] EXCEPT !.content = Filtered(@, LAMBDA block : ~IsReasoning(block))]]

ResultPositions(messages) ==
  UNION {{<<mi, bi>> : bi \in {b \in DOMAIN messages[mi].content : IsResult(messages[mi].content[b])}}
           : mi \in DOMAIN messages}

\* The calls whose results clear_results stubs.
ToClear(messages, keep, cleared) ==
  LET old == {messages[p[1]].content[p[2]] : p \in Older(ResultPositions(messages), keep)}
  IN {block.id : block \in {b \in old : b.id \notin cleared /\ Len(ContentText(b.content)) >= ClearMin}}

\* Mutant: a cleared result does not say where it was saved.
Stub_NoPath(text, p) == Cut(text, ClearKeep) \o <<Note>>

\* What a cleared result keeps: its start, and the file it was saved to (0: none).
Stub(text, p) ==
  Cut(text, ClearKeep) \o <<Note>> \o (IF p = 0 THEN <<>> ELSE <<Path(p)>>)

ClearedResults(messages, ids, paths) ==
  LET Clear(block) ==
        IF IsResult(block) /\ block.id \in ids
        THEN [block EXCEPT !.content = Plain(Stub(ContentText(@), paths[block.id]))]
        ELSE block
  IN DropReasoning([mi \in DOMAIN messages |->
       [messages[mi] EXCEPT !.content = [bi \in DOMAIN @ |-> Clear(@[bi])]]])

ImageSpots(messages) ==
  UNION {LET content == messages[p[1]].content[p[2]].content IN
         IF content.form = "text" THEN {}
         ELSE {<<p[1], p[2], ci>> : ci \in {i \in DOMAIN content.items : content.items[i].type = "image"}}
           : p \in ResultPositions(messages)}

ImagesDue(messages, keep) == keep > 0 /\ Cardinality(ImageSpots(messages)) >= 2 * keep

ClearImages(messages, keep) ==
  LET gone == Older(ImageSpots(messages), keep)
      Item(mi, bi, ci, item) == IF <<mi, bi, ci>> \in gone THEN TextItem(<<Note>>) ELSE item
      Block(mi, bi, block) ==
        IF ~IsResult(block) \/ block.content.form = "text" THEN block
        ELSE [block EXCEPT !.content.items = [ci \in DOMAIN @ |-> Item(mi, bi, ci, @[ci])]]
  IN DropReasoning([mi \in DOMAIN messages |->
       [messages[mi] EXCEPT !.content = [bi \in DOMAIN @ |-> Block(mi, bi, @[bi])]]])
-----------------------------------------------------------------------------
\* Words for the model after the last message: into it when it is the user's.
AppendUserText(messages, text) ==
  IF messages # <<>> /\ Last(messages).role = "user"
  THEN [messages EXCEPT ![Len(messages)].content = Append(@, text)]
  ELSE Append(messages, Message("user", <<text>>))

UnrunResults(uses) ==
  Message("user", [i \in DOMAIN uses |-> ToolResult(uses[i].id, Plain(<<Note>>), TRUE, "none")])

\* A transcript that breaks off in a batch gets an error result per call.
CloseInterrupted(messages) ==
  IF messages = <<>> \/ Last(messages).role # "assistant" \/ Uses(Last(messages)) = <<>>
  THEN messages
  ELSE Append(messages, UnrunResults(Uses(Last(messages))))
=============================================================================
