------------------------------- MODULE EvalRun -------------------------------
(***************************************************************************)
(* One eval run under a budget (evals/runner.py run_suite, _run_cases,     *)
(* _run_one) with its meter (evals/budget.py Meter): cases admitted by     *)
(* their estimates, paid calls guarded before and charged after, the hard  *)
(* stop, Ctrl-C, and the report.                                           *)
(*                                                                         *)
(* Cases are coroutines, or all of them functions on the thread pool.      *)
(* Their code runs between the event loop's steps; what one of the loop's  *)
(* tasks does between two awaits is one step.                              *)
(***************************************************************************)
EXTENDS Integers, FiniteSets, Functions

CONSTANTS
  Work,         \* how many cases (times trials) the plan has: 1..Work, in order
  Concurrency,  \* Suite.concurrency
  Budget,       \* the meter's budget
  Estimates,    \* what a suite may estimate a case at
  Costs,        \* what a call, or what a case reports of its own, may cost
  MaxCalls      \* bound: the paid calls a case tries

ASSUME EvalBounds ==
  /\ Work \in Nat /\ Concurrency \in Nat \ {0} /\ MaxCalls \in Nat /\ Budget \in Nat
  /\ Estimates \subseteq Nat /\ Costs \subseteq Nat \ {0}

VARIABLES
  sync,      \* run_case is a plain function
  pc,        \* the run: admit, wait, gather, summarize, finished, raised
  next,      \* the next item of the plan
  task,      \* each item's task: none, running, over
  code,      \* the items whose case is executing
  estimate,  \* what each started item was estimated at
  held,      \* the estimates of the cases in flight
  slots,     \* free slots of the semaphore
  calls,     \* paid calls a case may still try
  paying,    \* the items with a call under way
  spent,     \* Meter.spent_usd
  tripped,   \* Meter.tripped: the cap refused a call
  unpriced,  \* Meter._unpriced_call: a call was paid for and not counted
  halted,    \* Meter._stopped
  refused,   \* the items of which the cap refused a call
  result,    \* each item's status in results, or none
  unheard,   \* the items whose on_result raised
  stopped    \* EvalReport.stopped

caseVars == <<calls, paying, refused>>
meterVars == <<spent, tripped, unpriced, halted>>
planVars == <<sync, next, estimate, unheard>>
vars == <<pc, task, code, held, slots, result, stopped, caseVars, meterVars, planVars>>

Items == 1..Work
InFlight == {i \in Items : task[i] = "running"}

-----------------------------------------------------------------------------
(* The plan: for index, (case, trial) in enumerate(work) *)

MayStart == stopped = "no"

\* The loop is left: without tasks in flight there is nothing to wait for.
LeaveLoop == pc' = IF InFlight = {} THEN "summarize" ELSE "wait"

\* The plan is through, or the report says stop when a slot was waited for.
EndPlan ==
  /\ pc = "admit"
  /\ next > Work \/ (slots > 0 /\ ~MayStart)
  /\ LeaveLoop
  /\ UNCHANGED <<task, code, held, slots, result, stopped, caseVars, meterVars, planVars>>

\* Mutant: only what was spent counts, not what the cases in flight may spend.
Fits_SpentOnly(cost) == spent + cost <= Budget

Fits(cost) == spent + held + cost <= Budget

\* The case is estimated past the budget: it does not start, and none after it.
Decline(cost) ==
  /\ pc = "admit" /\ next <= Work /\ slots > 0 /\ MayStart
  /\ ~Fits(cost)
  /\ stopped' = "estimate"
  /\ LeaveLoop
  /\ UNCHANGED <<task, code, held, slots, result, caseVars, meterVars, planVars>>

Admit(cost) ==
  /\ pc = "admit" /\ next <= Work /\ slots > 0 /\ MayStart
  /\ Fits(cost)
  /\ task' = [task EXCEPT ![next] = "running"]
  /\ code' = code \union {next}
  /\ estimate' = [estimate EXCEPT ![next] = cost]
  /\ held' = held + cost
  /\ slots' = slots - 1
  /\ next' = next + 1
  /\ UNCHANGED <<pc, result, stopped, caseVars, meterVars, sync, unheard>>

\* The code of a cancelled coroutine ends with it; a function goes on in its thread.
CodeWithout(cancelled) == IF sync THEN code ELSE code \ cancelled

PayingWithout(cancelled) == IF sync THEN paying ELSE paying \ cancelled

\* suite.estimate raises: the exception leaves run_suite, and asyncio.run
\* cancels the tasks it leaves behind.
EstimateRaises ==
  /\ pc = "admit" /\ next <= Work /\ slots > 0 /\ MayStart
  /\ pc' = "raised"
  /\ task' = [i \in Items |-> IF i \in InFlight THEN "over" ELSE task[i]]
  /\ code' = CodeWithout(InFlight)
  /\ paying' = PayingWithout(InFlight)
  /\ UNCHANGED <<held, slots, result, stopped, calls, refused, meterVars, planVars>>

-----------------------------------------------------------------------------
(* A case's paid calls *)

OverCap == unpriced \/ spent >= Budget

\* The guard, under the meter's lock: a stopped run is refused without a mark,
\* a call over the cap marks the meter and the case.
BeginCall(i) ==
  /\ i \in code \ paying /\ calls[i] > 0
  /\ calls' = [calls EXCEPT ![i] = @ - 1]
  /\ paying' = IF halted \/ OverCap THEN paying ELSE paying \union {i}
  /\ tripped' = (tripped \/ (~halted /\ OverCap))
  /\ refused' = IF ~halted /\ OverCap THEN refused \union {i} ELSE refused
  /\ UNCHANGED <<pc, task, code, held, slots, result, stopped, spent, unpriced, halted, planVars>>

\* The call is charged, or fails and is not, or the pricer fails on it.
EndCall(i) ==
  /\ i \in paying
  /\ paying' = paying \ {i}
  /\ \/ \E cost \in Costs \union {0} : spent' = spent + cost /\ UNCHANGED unpriced
     \/ unpriced' = TRUE /\ UNCHANGED spent
  /\ UNCHANGED <<pc, task, code, held, slots, result, stopped, calls, refused,
                 tripped, halted, planVars>>

-----------------------------------------------------------------------------
(* The end of a case *)

\* Mutant: the case's own word for its status stands.
Status_OwnWord(i, said) == said

\* The cap refused one of its calls: the case was cut, whatever it says.
Status(i, said) == IF i \in refused THEN "budget" ELSE said

\* Mutant: the slot of a case that failed is not given back.
Released_AfterSuccess(i) == IF result'[i] = "ok" THEN slots + 1 ELSE slots

Released(i) == slots + 1

TaskOver(i) ==
  /\ task' = [task EXCEPT ![i] = "over"]
  /\ held' = held - estimate[i]
  /\ slots' = Released(i)

\* Mutant: only the case's own status stops the run.
Over_Spend(status) == status = "budget"

Over(status) == status = "budget" \/ spent' > Budget \/ tripped \/ unpriced

\* The case returns, raises, or ends on BudgetExceeded; what it reports of its
\* own spend is charged.  Its result stops the run if the cap was reached, unless
\* on_result raised first.
FinishCase(i) ==
  /\ task[i] = "running" /\ i \in code \ paying
  /\ \E said \in {"ok", "error"} \union (IF halted THEN {"budget"} ELSE {}),
        own \in Costs \union {0}, heard \in BOOLEAN :
       /\ own > 0 => said = "ok"
       /\ spent' = spent + own
       /\ result' = [result EXCEPT ![i] = Status(i, said)]
       /\ stopped' = IF heard /\ stopped = "no" /\ Over(result'[i]) THEN "hard" ELSE stopped
       /\ unheard' = IF heard THEN unheard ELSE unheard \union {i}
  /\ code' = code \ {i}
  /\ TaskOver(i)
  /\ UNCHANGED <<pc, caseVars, tripped, unpriced, halted, sync, next, estimate>>

-----------------------------------------------------------------------------
(* Ctrl-C and the report *)

\* CancelledError at the loop's await: no paid call passes from here on, and the
\* tasks in flight are cancelled.
Interrupt ==
  /\ pc \in {"admit", "wait"}
  /\ pc' = "gather"
  /\ stopped' = "interrupted"
  /\ halted' = TRUE
  /\ UNCHANGED <<task, code, held, slots, result, caseVars, spent, tripped, unpriced, planVars>>

\* A cancelled task ends without a result.
CancelledCase(i) ==
  /\ pc = "gather" /\ task[i] = "running"
  /\ UNCHANGED result
  /\ TaskOver(i)
  /\ code' = CodeWithout({i})
  /\ paying' = PayingWithout({i})
  /\ UNCHANGED <<pc, stopped, calls, refused, meterVars, planVars>>

\* A function whose task is gone returns, to nobody.
OrphanEnds(i) ==
  /\ i \in code \ paying /\ task[i] = "over"
  /\ code' = code \ {i}
  /\ UNCHANGED <<pc, task, held, slots, result, stopped, caseVars, meterVars, planVars>>

Gathered ==
  /\ pc \in {"wait", "gather"} /\ InFlight = {}
  /\ pc' = "summarize"
  /\ UNCHANGED <<task, code, held, slots, result, stopped, caseVars, meterVars, planVars>>

\* Mutant: the spend is read before the pool has closed.
PoolClosed_NotAwaited == TRUE

PoolClosed == code = {}

\* The pool closes before the meter and the session do; then the spend is read.
Finish ==
  /\ pc = "summarize" /\ PoolClosed
  /\ pc' = "finished"
  /\ UNCHANGED <<task, code, held, slots, result, stopped, caseVars, meterVars, planVars>>

\* The results that aggregates and bars are computed from: of the cases that
\* came to an end, those that were not cut.
Measured == {i \in Items : result[i] \notin {"none", "budget"}}

-----------------------------------------------------------------------------

Init ==
  /\ sync \in BOOLEAN
  /\ pc = "admit"
  /\ next = 1
  /\ task = [i \in Items |-> "none"]
  /\ code = {}
  /\ estimate = [i \in Items |-> 0]
  /\ held = 0
  /\ slots = Concurrency
  /\ calls = [i \in Items |-> MaxCalls]
  /\ paying = {}
  /\ spent = 0
  /\ tripped = FALSE
  /\ unpriced = FALSE
  /\ halted = FALSE
  /\ refused = {}
  /\ result = [i \in Items |-> "none"]
  /\ unheard = {}
  /\ stopped = "no"

Runner ==
  \/ EndPlan
  \/ \E cost \in Estimates : Decline(cost) \/ Admit(cost)
  \/ EstimateRaises
  \/ Gathered
  \/ Finish

CaseStep(i) ==
  BeginCall(i) \/ EndCall(i) \/ FinishCase(i) \/ CancelledCase(i) \/ OrphanEnds(i)

Next == Runner \/ Interrupt \/ \E i \in Items : CaseStep(i)

\* The event loop and the pool's threads are scheduled and every call and every
\* case comes to an end.  Nobody need press Ctrl-C.
Spec ==
  /\ Init /\ [][Next]_vars
  /\ WF_vars(Runner)
  /\ \A i \in Items : WF_vars(CaseStep(i))

-----------------------------------------------------------------------------
(* Properties *)

TypeOK ==
  /\ sync \in BOOLEAN
  /\ pc \in {"admit", "wait", "gather", "summarize", "finished", "raised"}
  /\ next \in 1..(Work + 1)
  /\ task \in [Items -> {"none", "running", "over"}]
  /\ code \subseteq Items
  /\ estimate \in [Items -> Nat]
  /\ held \in Nat
  /\ slots \in 0..Concurrency
  /\ calls \in [Items -> 0..MaxCalls]
  /\ paying \subseteq code
  /\ spent \in Nat
  /\ {tripped, unpriced, halted} \subseteq BOOLEAN
  /\ refused \subseteq Items /\ unheard \subseteq Items
  /\ result \in [Items -> {"none", "ok", "error", "budget"}]
  /\ stopped \in {"no", "hard", "estimate", "interrupted"}

\* However many cases are in flight, one starts only while the report says go and
\* what was spent, with the estimates of all of them, fits the budget.
StartsFitTheBudget ==
  [][\A i \in Items : task[i] = "none" /\ task'[i] = "running" =>
       /\ stopped = "no"
       /\ spent + SumFunctionOnSet(estimate', InFlight') <= Budget]_vars

\* A case of which the cap refused a call is never measured, whatever its code
\* made of the refusal.
CutIsNotMeasured == refused \cap Measured = {}

\* A run that went over its budget, or had a call refused or unpriced, says it was
\* stopped, unless a callback raised: then its exit code cannot be a success.
OverspendIsSaid ==
  pc = "finished" /\ unheard = {} /\ (spent > Budget \/ tripped \/ unpriced) => stopped # "no"

\* The report's spend is final: once it is read nothing is charged, though a case
\* goes on in its thread after Ctrl-C.
SpendIsFinal == [][pc = "finished" => UNCHANGED spent]_vars

\* Every run ends, with its report or an exception: no slot is lost.
RunEnds == <>(pc \in {"finished", "raised"})
=============================================================================
