----------------------------- MODULE CallLedger -----------------------------
(***************************************************************************)
(* What a checkpointed agent run promises about the tool calls a model     *)
(* makes, whatever the loop does inside and however often the run is       *)
(* crashed and resumed: the durable record of a run only grows, a call is  *)
(* executed at most once and only after it was recorded, and the answer a  *)
(* recorded call got is never replaced.  Executions are counted, so that   *)
(* one that begins a call again is a step the ledger does not allow.       *)
(*                                                                         *)
(* The abstract specification AgentRun.tla is shown to implement.          *)
(***************************************************************************)
EXTENDS Naturals

CONSTANTS
  Calls,    \* the ids of all the calls models may ever make
  Statuses  \* what a call may be answered with

VARIABLES
  recorded,   \* the calls the saved transcript shows
  ran,        \* the calls whose execution began
  executions, \* executions begun
  answers     \* the answers the saved transcript shows: [id, status] records

vars == <<recorded, ran, executions, answers>>

Answer == [id : Calls, status : Statuses]

Init ==
  /\ recorded = {}
  /\ ran = {}
  /\ executions = 0
  /\ answers = {}

\* A checkpoint is saved: it shows at least what the last one did, answers
\* only calls it shows, gives no second answer, and claims success only of
\* calls that ran.
Save ==
  /\ recorded' \in SUBSET Calls
  /\ recorded \subseteq recorded'
  /\ answers \subseteq answers'
  /\ \A a \in answers' : a \in Answer /\ a.id \in recorded'
  /\ \A a, b \in answers' : a.id = b.id => a = b
  /\ \A a \in answers' : a.status = "ok" => a.id \in ran
  /\ UNCHANGED <<ran, executions>>

\* A recorded call that never ran and was never answered begins.
Run(c) ==
  /\ \A a \in answers : a.id # c
  /\ ran' = ran \union {c}
  /\ executions' = executions + 1
  /\ UNCHANGED <<recorded, answers>>

Next == Save \/ \E c \in recorded \ ran : Run(c)

Spec == Init /\ [][Next]_vars
=============================================================================
