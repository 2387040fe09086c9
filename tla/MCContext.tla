------------------------------ MODULE MCContext ------------------------------
(* Agents, tools and prompts small enough for TLC. *)
EXTENDS Context

Tool(name, native) == [name |-> name, native |-> native]

MCConfigs == {
  [ system |-> <<"base">>, tools |-> <<Tool("search", "none")>>, model |-> <<"opus", 4, 7>>,
    reasoning |-> "on", clientDefault |-> "none", structured |-> FALSE,
    workspace |-> TRUE, cap |-> 6, ttl |-> "5m" ],
  [ system |-> <<"base", "today">>,
    tools |-> <<Tool("click", "browser"), Tool("search", "none"), Tool("type", "browser")>>,
    model |-> <<"sonnet", 5, 5>>, reasoning |-> "budget", clientDefault |-> "none",
    structured |-> FALSE, workspace |-> TRUE, cap |-> 4, ttl |-> "1h" ],
  [ system |-> <<"blank">>, tools |-> <<Tool("final_result", "none")>>, model |-> <<"opus", 4, 5>>,
    reasoning |-> "none", clientDefault |-> "on", structured |-> TRUE,
    workspace |-> FALSE, cap |-> 6, ttl |-> "5m" ] }

MCContents == { [what |-> "text", size |-> 4], [what |-> "text", size |-> 7],
                [what |-> "screen", size |-> 1] }

MCPrompts == { <<Image("photo", FALSE), Text("question", FALSE), Text("blank", FALSE), Text("today", TRUE)>> }

MCOpenAIModels == { <<"gpt", 5, 2>>, <<"gpt", 5, 4, "mini">> }
=============================================================================
