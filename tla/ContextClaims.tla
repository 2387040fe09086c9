---------------------------- MODULE ContextClaims ----------------------------
EXTENDS MCContext

\* models/anthropic.py:98 and docs/concepts.md:203: a native toolset's name is
\* "echoed on the call and its result - the API rejects a result that drops
\* it". The answers given to calls that never ran (unrun_results) drop it.
ToolsetsEchoed ==
  phase = "model" =>
    \A i \in DOMAIN messages : \A use \in ToSet(Uses(messages[i])) :
      \A answer \in ToSet(Results(messages[i + 1])) :
        answer.id = use.id => answer.toolset = use.toolset
=============================================================================
