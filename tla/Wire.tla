--------------------------------- MODULE Wire ---------------------------------
(***************************************************************************)
(* An agent's event stream on its way to a browser: Agent.stream with its  *)
(* terminal event, sse_stream (sse.py), a connection that splits the text  *)
(* anywhere or ends early, and parseSSEStream (client-ts/src/sse.ts).      *)
(* A text is a sequence of pieces: CR and LF, the field names "event" and  *)
(* "data", and the halves <<"json", e, 1>> and <<"json", e, 2>> of event   *)
(* e's JSON. The browser's consumer may be collectRun (index.ts), which    *)
(* leaves at the first terminal event. The stream may be wrapped in code   *)
(* of the application's own, which may raise at any time, even after the   *)
(* stream it wraps has ended.                                              *)
(***************************************************************************)
EXTENDS Naturals, Sequences, FiniteSets, FiniteSetsExt, SequencesExt

CR == <<"CR">>
LF == <<"LF">>
Half(e, n) == <<"json", e, n>>

CONSTANTS
  LineEnds,   \* how lines may end: sequences of CR and LF
  MaxEvents,  \* events before the terminal one
  MaxChunk    \* pieces that arrive at once

\* The line ends that the standard has.
ASSUME WireBounds ==
  /\ LineEnds \subseteq {<<LF>>, <<CR>>, <<CR, LF>>}
  /\ MaxEvents \in Nat /\ MaxChunk \in Nat

VARIABLES
  wrapped,    \* the events come through a generator of the application's own
  source,     \* that generator, or the agent's: "running", "raising", "ended",
              \* "failed" (it raised), "closed"
  errored,    \* sse_stream: the last event was an error
  sent,       \* the types of the events that were sent
  text,       \* what was written to the response
  response,   \* "open", "ended", "torn": cut off in the middle
  arrived,    \* how much of the text the browser has read
  stage,      \* the parser: "read", "lines", "yielded", "tail", "finished", "thrown", "left"
  buffer, pendingLF, dataLines,
  delivered,  \* the events the consumer got
  cancelled   \* reader.cancel() was called

server == <<wrapped, source, errored, sent, text, response>>
parser == <<stage, buffer, pendingLF, dataLines, delivered, cancelled>>
wireVars == <<server, arrived, parser>>

WireInit ==
  /\ wrapped \in BOOLEAN /\ source = "running" /\ errored = FALSE /\ sent = <<>> /\ text = <<>> /\ response = "open"
  /\ arrived = 0 /\ stage = "read" /\ buffer = <<>> /\ pendingLF = FALSE /\ dataLines = <<>>
  /\ delivered = <<>> /\ cancelled = FALSE
-----------------------------------------------------------------------------
\* format_sse, with the ends its lines and its blank line have when they
\* arrive.
Formatted(e, ends) ==
  <<<<"event">>>> \o ends[1] \o <<<<"data">>, Half(e, 1), Half(e, 2)>> \o ends[1] \o ends[2]

Write(type, ends) ==
  /\ sent' = Append(sent, type)
  /\ text' = text \o Formatted(Len(sent) + 1, ends)

\* The run goes on, or ends in a done event.
Emit(type, ends) ==
  /\ source = "running" /\ response = "open"
  /\ type = "step" => Len(sent) < MaxEvents
  /\ Write(type, ends)
  /\ errored' = FALSE
  /\ source' = IF type = "done" THEN "ended" ELSE source
  /\ UNCHANGED <<wrapped, response, arrived, parser>>

\* A run fails: Agent.stream yields an error event, and raises what it did
\* not expect after it.
FailRun(expected, ends) ==
  /\ source = "running" /\ response = "open"
  /\ Write("error", ends)
  /\ errored' = TRUE
  /\ source' = IF expected THEN "ended" ELSE "raising"
  /\ UNCHANGED <<wrapped, response, arrived, parser>>

\* The code around the agent's stream raises, while the run goes on or after
\* its last event. Agent.stream itself raises nothing after a done event.
Break ==
  /\ wrapped /\ source \in {"running", "ended"} /\ response = "open"
  /\ source' = "raising"
  /\ UNCHANGED <<wrapped, errored, sent, text, response, arrived, parser>>

\* Mutant: an error event, whether there was one or not.
HandleError_Again(ends) ==
  /\ source = "raising" /\ response = "open"
  /\ source' = "failed" /\ Write("error", ends)
  /\ UNCHANGED <<wrapped, errored, response, arrived, parser>>

\* sse_stream meets the exception: an error event, unless the last event was
\* one. A done event before it is not asked for.
HandleError(ends) ==
  /\ source = "raising" /\ response = "open"
  /\ source' = "failed"
  /\ IF errored THEN UNCHANGED <<sent, text>> ELSE Write("error", ends)
  /\ UNCHANGED <<wrapped, errored, response, arrived, parser>>

\* With errors="raise" it propagates, and the response is torn.
Propagate ==
  /\ source = "raising" /\ response = "open"
  /\ source' = "failed" /\ response' = "torn"
  /\ UNCHANGED <<wrapped, errored, sent, text, arrived, parser>>

EndResponse ==
  /\ source \in {"ended", "failed"} /\ response = "open"
  /\ response' = "ended"
  /\ UNCHANGED <<wrapped, source, errored, sent, text, arrived, parser>>

\* The connection goes away, or the reader was cancelled: the server's
\* generators are closed.
Disconnect ==
  /\ response = "open"
  /\ response' = "torn" /\ source' = "closed"
  /\ UNCHANGED <<wrapped, errored, sent, text, arrived, parser>>
-----------------------------------------------------------------------------
Read(n) ==
  /\ stage = "read" /\ arrived + n <= Len(text)
  /\ arrived' = arrived + n
  /\ buffer' = buffer \o SubSeq(text, arrived + 1, arrived + n)
  /\ stage' = "lines"
  /\ UNCHANGED <<server, pendingLF, dataLines, delivered, cancelled>>

\* Mutant: the LF of a CRLF that was split is a line end of its own.
Rest_KeepsLF(chars) == chars

\* What is left of the buffer after the LF of a CRLF that was split.
Rest(chars) == IF pendingLF /\ chars # <<>> /\ Head(chars) = LF THEN Tail(chars) ELSE chars

EndsIn(chars) == {i \in DOMAIN chars : chars[i] \in {CR, LF}}

\* How many pieces the line end at i takes.
EndLength(chars, i) ==
  IF chars[i] = CR /\ i < Len(chars) /\ chars[i + 1] = LF THEN 2 ELSE 1

\* handleLine: what the line adds to the event's data.
DataOf(line) == IF line # <<>> /\ Head(line) = <<"data">> THEN <<Tail(line)>> ELSE <<>>

\* takeEvent: the event a payload stands for, 0 if it is no JSON. After the
\* MaxEvents come a terminal event and the error of code that raises after it.
EventIn(lines) ==
  LET payload == FlattenSeq(lines)
      whole == {e \in 1..(MaxEvents + 2) : payload = <<Half(e, 1), Half(e, 2)>>}
  IN IF whole = {} THEN 0 ELSE CHOOSE e \in whole : TRUE

\* One turn of the parser's inner loop: no line, a line of a message, or the
\* blank line that dispatches it.
TakeLine ==
  LET chars == Rest(buffer) IN
  /\ stage = "lines"
  /\ IF EndsIn(chars) = {}
     THEN /\ buffer' = chars
          /\ pendingLF' = (pendingLF /\ buffer = <<>>)
          /\ stage' = "read"
          /\ UNCHANGED <<dataLines, delivered, cancelled>>
     ELSE LET end == Min(EndsIn(chars))
              line == SubSeq(chars, 1, end - 1) IN
          /\ buffer' = SubSeq(chars, end + EndLength(chars, end), Len(chars))
          /\ pendingLF' = (chars[end] = CR /\ end = Len(chars))
          /\ IF line # <<>> \/ dataLines = <<>>
             THEN /\ dataLines' = dataLines \o DataOf(line)
                  /\ UNCHANGED <<stage, delivered, cancelled>>
             ELSE /\ dataLines' = <<>>
                  /\ IF EventIn(dataLines) = 0
                     THEN stage' = "thrown" /\ cancelled' = TRUE /\ UNCHANGED delivered
                     ELSE /\ delivered' = Append(delivered, EventIn(dataLines))
                          /\ stage' = "yielded" /\ UNCHANGED cancelled
  /\ UNCHANGED <<server, arrived>>

\* The consumer asks for more.
Continue ==
  /\ stage \in {"yielded", "tail"}
  /\ stage' = IF stage = "tail" THEN "finished" ELSE "lines"
  /\ UNCHANGED <<server, arrived, buffer, pendingLF, dataLines, delivered, cancelled>>

\* Mutant: the source is not cancelled.
Leave_Quietly ==
  /\ stage \in {"yielded", "tail"}
  /\ stage' = "left"
  /\ UNCHANGED <<server, arrived, buffer, pendingLF, dataLines, delivered, cancelled>>

\* The consumer leaves (break, return, throw): the finally cancels the source.
Leave ==
  /\ stage \in {"yielded", "tail"}
  /\ stage' = "left" /\ cancelled' = TRUE
  /\ UNCHANGED <<server, arrived, buffer, pendingLF, dataLines, delivered>>

\* The end of the stream, one cut short among them: the rest is a last line,
\* and a message left open is dispatched.
EndOfStream ==
  LET lines == dataLines \o DataOf(Rest(buffer)) IN
  /\ stage = "read" /\ response # "open"
  /\ response = "ended" => arrived = Len(text)
  /\ buffer' = <<>> /\ dataLines' = <<>>
  /\ IF lines = <<>> THEN stage' = "finished" /\ UNCHANGED <<delivered, cancelled>>
     ELSE IF EventIn(lines) = 0 THEN stage' = "thrown" /\ cancelled' = TRUE /\ UNCHANGED delivered
     ELSE stage' = "tail" /\ delivered' = Append(delivered, EventIn(lines)) /\ UNCHANGED cancelled
  /\ UNCHANGED <<server, arrived, pendingLF>>

\* reader.read() rejects: the connection broke. The finally cancels the source.
ReadFails ==
  /\ stage = "read" /\ response = "torn"
  /\ stage' = "thrown" /\ cancelled' = TRUE
  /\ UNCHANGED <<server, arrived, buffer, pendingLF, dataLines, delivered>>

\* isDone and isError; and the event collectRun ends at, 0 if it throws that
\* the stream ended without one.
Terminal(e) == sent[e] \in {"done", "error"}
Collected(events) ==
  IF \E n \in DOMAIN events : Terminal(events[n])
  THEN events[Min({n \in DOMAIN events : Terminal(events[n])})] ELSE 0

\* A CR before an LF would be one line end.
Ends == {ends \in LineEnds \X LineEnds : ~(Last(ends[1]) = CR /\ Head(ends[2]) = LF)}

\* What the server does once the run no longer goes on.
Finish == (\E ends \in Ends : HandleError(ends)) \/ Propagate \/ EndResponse

Server ==
  \/ \E type \in {"step", "done"}, ends \in Ends : Emit(type, ends)
  \/ \E expected \in BOOLEAN, ends \in Ends : FailRun(expected, ends)
  \/ Break
  \/ Finish

Parse == (\E n \in 1..MaxChunk : Read(n)) \/ TakeLine \/ Continue \/ EndOfStream \/ ReadFails

WireNext == Server \/ Disconnect \/ Parse \/ Leave

\* A response whose run is over is ended, a reader that was cancelled closes
\* the connection, and a browser reads on; a run need not end by itself, a
\* connection need not break and a consumer need not leave.
WireSpec == WireInit /\ [][WireNext]_wireVars
            /\ WF_wireVars(Finish) /\ WF_wireVars(cancelled /\ Disconnect) /\ WF_wireVars(Parse)
-----------------------------------------------------------------------------
\* The standard's reading of a text: a line ends at each LF and at each CR,
\* but an LF after a CR belongs to it.
LineEnd(chars, i) == chars[i] = CR \/ (chars[i] = LF /\ (i = 1 \/ chars[i - 1] # CR))
Lines(chars) ==
  LET ends == {i \in DOMAIN chars : LineEnd(chars, i)}
      Nth(k) == CHOOSE i \in ends : Cardinality({j \in ends : j <= i}) = k
      From(k) == IF k = 1 THEN 1
                 ELSE Nth(k - 1) + (IF chars[Nth(k - 1)] = CR /\ chars[Nth(k - 1) + 1] = LF THEN 2 ELSE 1)
  IN [k \in 1..Cardinality(ends) |-> SubSeq(chars, From(k), Nth(k) - 1)]

\* The data of the messages a text completes: each run of lines up to a blank
\* one, less those without data.
Messages(chars) ==
  LET lines == Lines(chars)
      blank == {k \in DOMAIN lines : lines[k] = <<>>}
      From(k) == Max({0} \cup {b \in blank : b < k}) + 1
      Data(k) == FlattenSeq([j \in 1..(k - From(k)) |-> DataOf(lines[From(k) + j - 1])])
      full == {k \in blank : Data(k) # <<>>}
  IN [n \in 1..Cardinality(full) |-> Data(CHOOSE k \in full : Cardinality({j \in full : j <= k}) = n)]

\* Wherever the text is split into chunks, and however its lines end, the
\* parser has delivered exactly the events whose messages are complete in what
\* arrived, no later and none twice (nextLine's pendingLF).
ChunksDoNotMatter ==
  stage = "read" =>
    LET complete == Messages(SubSeq(text, 1, arrived)) IN
    delivered = [n \in DOMAIN complete |-> EventIn(complete[n])]

\* What raised after the done event e, and was reported.
RaisedAfter(e) == wrapped /\ sent[e] = "done" /\ Len(sent) = e + 1 /\ sent[e + 1] = "error"

\* The consumer gets the events in order, none invented; an error event comes
\* last; nothing follows a done event but the one error of wrapping code that
\* raised after it, so that an agent's own stream has at most one terminal
\* event; and a stream read to the end of a response that was not torn has a
\* terminal event (sse_stream's errored flag).
OneTerminalEvent ==
  /\ delivered = [e \in DOMAIN delivered |-> e]
  /\ \A e \in DOMAIN sent : Terminal(e) => e = Len(sent) \/ RaisedAfter(e)
  /\ stage = "finished" /\ response = "ended" => Collected(delivered) # 0

\* A consumer that leaves, or that malformed data throws out, stops the run:
\* nothing is generated for nobody (the finally of parseSSEStream); and when
\* the response is over, so is the stream, for whoever reads it.
StreamEnds ==
  /\ stage \in {"left", "thrown"} ~> response # "open"
  /\ response # "open" ~> stage \in {"finished", "thrown", "left"}
=============================================================================
