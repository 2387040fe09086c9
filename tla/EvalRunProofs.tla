---------------------------- MODULE EvalRunProofs ----------------------------
(***************************************************************************)
(* The eval budget. EvalRun: for every plan, concurrency, budget and cost, *)
(* a case of which the cap refused a call is never measured, a run that    *)
(* overspent says so, the spend it reports is final, and a case starts     *)
(* only if it fits the budget with the estimates of all the cases in       *)
(* flight. ModelClients: the meter of a block is told of each call that    *)
(* starts in it, and of no other, and of each once.                        *)
(***************************************************************************)
EXTENDS EvalRun, ModelClients, Sums, SequencesExt, SequenceTheorems

\* Code executes for started items only, and an item starts once, in order.
CodeInv ==
  /\ code \subseteq Items /\ paying \subseteq code
  /\ task \in [Items -> {"none", "running", "over"}]
  /\ result \in [Items -> {"none", "ok", "error", "budget"}]
  /\ next \in Nat \ {0}
  /\ \A i \in code : task[i] # "none"
  /\ \A i \in Items : i >= next => task[i] = "none"

\* A result is given as the item's code ends, after all of its calls.
ResultInv ==
  /\ \A i \in Items : task[i] = "none" => i \notin refused /\ result[i] = "none"
  /\ \A i \in code : result[i] = "none"
  /\ \A i \in refused : result[i] \in {"none", "budget"}

Overspent == spent > Budget \/ tripped \/ unpriced

\* Unless the report says stop, code executes only under its task; and if spend
\* then is over the cap some case is left to say so as it ends.
StopInv ==
  /\ pc = "finished" => code = {}
  /\ pc = "gather" => stopped # "no"
  /\ pc # "raised" /\ stopped = "no" => \A i \in code : task[i] = "running"
  /\ pc # "raised" /\ stopped = "no" /\ unheard = {} /\ Overspent => code # {}

-----------------------------------------------------------------------------
(* The code that executes *)

LEMMA CodeInvInit == Init => CodeInv
BY DEF Init, CodeInv

LEMMA CodeInvStep == CodeInv /\ [Next]_vars => CodeInv'
<1> SUFFICES ASSUME CodeInv, [Next]_vars PROVE CodeInv'
  OBVIOUS
<1> USE EvalBounds
<1>1. CASE EndPlan \/ Gathered \/ Finish \/ Interrupt
  BY <1>1 DEF EndPlan, Gathered, Finish, Interrupt, CodeInv, caseVars, planVars, meterVars
<1>2. ASSUME NEW cost \in Estimates, Decline(cost) PROVE CodeInv'
  BY <1>2 DEF Decline, CodeInv, caseVars, planVars
<1>3. ASSUME NEW cost \in Estimates, Admit(cost) PROVE CodeInv'
  <2>1. next \in Items /\ task[next] = "none"
    BY <1>3 DEF Admit, CodeInv, Items
  <2> QED
    BY <2>1, <1>3 DEF Admit, CodeInv, Items, caseVars
<1>4. CASE EstimateRaises
  BY <1>4 DEF EstimateRaises, CodeWithout, PayingWithout, InFlight, CodeInv, planVars
<1>5. ASSUME NEW i \in Items, BeginCall(i) PROVE CodeInv'
  BY <1>5 DEF BeginCall, CodeInv, planVars
<1>6. ASSUME NEW i \in Items, EndCall(i) PROVE CodeInv'
  BY <1>6 DEF EndCall, CodeInv, planVars
<1>7. ASSUME NEW i \in Items, FinishCase(i) PROVE CodeInv'
  <2>1. result' \in [Items -> {"none", "ok", "error", "budget"}]
    BY <1>7 DEF FinishCase, Status, CodeInv
  <2>2. task' = [task EXCEPT ![i] = "over"] /\ task[i] = "running" /\ code' = code \ {i}
        /\ i \notin paying /\ UNCHANGED <<paying, next>>
    BY <1>7 DEF FinishCase, TaskOver, caseVars
  <2> QED
    BY <2>1, <2>2 DEF CodeInv
<1>8. ASSUME NEW i \in Items, CancelledCase(i) PROVE CodeInv'
  BY <1>8 DEF CancelledCase, TaskOver, CodeWithout, PayingWithout, CodeInv, planVars
<1>9. ASSUME NEW i \in Items, OrphanEnds(i) PROVE CodeInv'
  BY <1>9 DEF OrphanEnds, CodeInv, caseVars, planVars
<1>10. CASE UNCHANGED vars
  BY <1>10 DEF vars, CodeInv, caseVars, planVars
<1> QED
  BY <1>1, <1>2, <1>3, <1>4, <1>5, <1>6, <1>7, <1>8, <1>9, <1>10 DEF Next, Runner, CaseStep

-----------------------------------------------------------------------------
(* Cut cases *)

LEMMA ResultInvStep == CodeInv /\ ResultInv /\ [Next]_vars => ResultInv'
<1> SUFFICES ASSUME CodeInv, ResultInv, [Next]_vars PROVE ResultInv'
  OBVIOUS
<1>1. CASE EndPlan \/ Gathered \/ Finish \/ Interrupt
  BY <1>1 DEF EndPlan, Gathered, Finish, Interrupt, ResultInv, caseVars
<1>2. ASSUME NEW cost \in Estimates, Decline(cost) PROVE ResultInv'
  BY <1>2 DEF Decline, ResultInv, caseVars
<1>3. ASSUME NEW cost \in Estimates, Admit(cost) PROVE ResultInv'
  <2>1. next \in Items /\ task[next] = "none"
    BY <1>3, EvalBounds DEF Admit, CodeInv, Items
  <2> QED
    BY <2>1, <1>3 DEF Admit, CodeInv, ResultInv, caseVars
<1>4. CASE EstimateRaises
  BY <1>4 DEF EstimateRaises, CodeWithout, InFlight, CodeInv, ResultInv
<1>5. ASSUME NEW i \in Items, BeginCall(i) PROVE ResultInv'
  BY <1>5 DEF BeginCall, CodeInv, ResultInv
<1>6. ASSUME NEW i \in Items, EndCall(i) PROVE ResultInv'
  BY <1>6 DEF EndCall, ResultInv
<1>7. ASSUME NEW i \in Items, FinishCase(i) PROVE ResultInv'
  <2>1. PICK said \in {"ok", "error", "budget"} :
          result' = [result EXCEPT ![i] = Status(i, said)]
    BY <1>7 DEF FinishCase
  <2>2. task' = [task EXCEPT ![i] = "over"] /\ task[i] = "running" /\ code' = code \ {i}
        /\ UNCHANGED refused
    BY <1>7 DEF FinishCase, TaskOver, caseVars
  <2> QED
    BY <2>1, <2>2 DEF Status, CodeInv, ResultInv
<1>8. ASSUME NEW i \in Items, CancelledCase(i) PROVE ResultInv'
  BY <1>8 DEF CancelledCase, TaskOver, CodeWithout, CodeInv, ResultInv
<1>9. ASSUME NEW i \in Items, OrphanEnds(i) PROVE ResultInv'
  BY <1>9 DEF OrphanEnds, ResultInv, caseVars
<1>10. CASE UNCHANGED vars
  BY <1>10 DEF vars, ResultInv, caseVars
<1> QED
  BY <1>1, <1>2, <1>3, <1>4, <1>5, <1>6, <1>7, <1>8, <1>9, <1>10 DEF Next, Runner, CaseStep

\* A case of which the cap refused a call is listed as cut, or not at all.
THEOREM CutIsNotMeasuredAlways == Spec => []CutIsNotMeasured
<1>1. Init => CodeInv /\ ResultInv
  BY CodeInvInit DEF Init, ResultInv
<1>2. ResultInv => CutIsNotMeasured
  BY DEF ResultInv, CutIsNotMeasured, Measured
<1> QED
  BY <1>1, <1>2, CodeInvStep, ResultInvStep, PTL DEF Spec

-----------------------------------------------------------------------------
(* Overspend *)

LEMMA StopInvStep == CodeInv /\ StopInv /\ [Next]_vars => StopInv'
<1> SUFFICES ASSUME CodeInv, StopInv, [Next]_vars PROVE StopInv'
  OBVIOUS
<1> USE DEF StopInv, Overspent, meterVars, planVars
<1>1. CASE EndPlan \/ Gathered \/ Finish
  BY <1>1 DEF EndPlan, LeaveLoop, Gathered, Finish, PoolClosed
<1>2. CASE Interrupt
  BY <1>2 DEF Interrupt
<1>3. ASSUME NEW cost \in Estimates, Decline(cost) PROVE StopInv'
  BY <1>3 DEF Decline, LeaveLoop
<1>4. ASSUME NEW cost \in Estimates, Admit(cost) PROVE StopInv'
  <2>1. next \in Items
    BY <1>4, EvalBounds DEF Admit, CodeInv, Items
  <2> QED
    BY <2>1, <1>4 DEF Admit, CodeInv
<1>5. CASE EstimateRaises
  BY <1>5 DEF EstimateRaises
<1>6. ASSUME NEW i \in Items, BeginCall(i) PROVE StopInv'
  BY <1>6 DEF BeginCall
<1>7. ASSUME NEW i \in Items, EndCall(i) PROVE StopInv'
  BY <1>7 DEF EndCall, CodeInv
<1>8. ASSUME NEW i \in Items, FinishCase(i) PROVE StopInv'
  <2>1. /\ i \in code /\ code' = code \ {i} /\ task' = [task EXCEPT ![i] = "over"]
        /\ UNCHANGED <<pc, tripped, unpriced>>
    BY <1>8 DEF FinishCase, TaskOver
  <2>2. PICK heard \in BOOLEAN :
          /\ stopped' = IF heard /\ stopped = "no" /\ Over(result'[i]) THEN "hard" ELSE stopped
          /\ unheard' = IF heard THEN unheard ELSE unheard \union {i}
    BY <1>8 DEF FinishCase
  <2>3. stopped' = "no" /\ unheard' = {} => ~Overspent'
    BY <2>1, <2>2 DEF Over
  <2>4. stopped' = "no" => stopped = "no"
    BY <2>2
  <2>5. \A j \in code' : task'[j] = task[j]
    BY <2>1 DEF CodeInv
  <2> QED
    BY <2>1, <2>3, <2>4, <2>5
<1>9. ASSUME NEW i \in Items, CancelledCase(i) PROVE StopInv'
  BY <1>9 DEF CancelledCase
<1>10. ASSUME NEW i \in Items, OrphanEnds(i) PROVE StopInv'
  BY <1>10 DEF OrphanEnds
<1>11. CASE UNCHANGED vars
  BY <1>11 DEF vars
<1> QED
  BY <1>1, <1>2, <1>3, <1>4, <1>5, <1>6, <1>7, <1>8, <1>9, <1>10, <1>11
  DEF Next, Runner, CaseStep

LEMMA StopInvInit == Init => StopInv
BY EvalBounds DEF Init, StopInv, Overspent

\* A run that is over its budget, or had a call refused or unpriced, says it was
\* stopped by the time it reports.
THEOREM OverspendIsSaidAlways == Spec => []OverspendIsSaid
<1>1. StopInv => OverspendIsSaid
  BY DEF StopInv, Overspent, OverspendIsSaid
<1> QED
  BY <1>1, CodeInvInit, StopInvInit, CodeInvStep, StopInvStep, PTL DEF Spec

\* Once the spend is read for the report nothing is charged any more.
THEOREM SpendIsFinalAlways == Spec => SpendIsFinal
<1>1. CodeInv /\ StopInv /\ [Next]_vars => [pc = "finished" => UNCHANGED spent]_vars
  <2> SUFFICES ASSUME CodeInv, StopInv, Next, pc = "finished" PROVE UNCHANGED spent
    BY DEF vars
  <2>1. code = {} /\ paying = {}
    BY DEF CodeInv, StopInv
  <2> QED
    BY <2>1 DEF Next, Runner, CaseStep, EndPlan, Decline, Admit, EstimateRaises, Gathered, Finish,
      Interrupt, BeginCall, EndCall, FinishCase, CancelledCase, OrphanEnds, meterVars
<1> QED
  BY <1>1, CodeInvInit, StopInvInit, CodeInvStep, StopInvStep, PTL DEF Spec, SpendIsFinal


-----------------------------------------------------------------------------
(* The cases in flight *)

\* Until an estimate raises, held is the sum of the estimates of the cases in
\* flight and the slots taken are as many; then none is in flight any more.
HeldInv ==
  /\ spent \in Nat /\ held \in Nat /\ slots \in 0..Concurrency /\ estimate \in [Items -> Nat]
  /\ pc # "raised" => /\ held = SumFunctionOnSet(estimate, InFlight)
                      /\ slots = Concurrency - Cardinality(InFlight)
  /\ pc = "raised" => InFlight = {}

LEMMA InFlightFinite ==
  /\ IsFiniteSet(InFlight) /\ IsFiniteSet(InFlight')
  /\ Cardinality(InFlight) \in Nat /\ Cardinality(InFlight') \in Nat
<1>1. IsFiniteSet(Items)
  BY EvalBounds, FS_Interval DEF Items
<1>2. InFlight \subseteq Items /\ InFlight' \subseteq Items
  BY DEF InFlight, Items
<1> QED
  BY <1>1, <1>2, FS_Subset, FS_CardinalityType

LEMMA HeldInvInit == Init => HeldInv
<1> SUFFICES ASSUME Init PROVE HeldInv
  OBVIOUS
<1>1. InFlight = {}
  BY DEF Init, InFlight
<1>2. held = 0 /\ slots = Concurrency /\ spent = 0 /\ pc = "admit" /\ estimate = [i \in Items |-> 0]
  BY DEF Init
<1>3. SumFunctionOnSet(estimate, {}) = 0 /\ Cardinality({}) = 0
  BY SumEmpty, FS_EmptySet
<1> QED
  BY EvalBounds, <1>1, <1>2, <1>3 DEF HeldInv

\* Steps that start and end no case change nothing of this.
LEMMA HeldKept ==
  ASSUME HeldInv, UNCHANGED <<task, held, slots, estimate>>, spent' \in Nat,
         pc' = "raised" <=> pc = "raised"
  PROVE  HeldInv'
<1>1. InFlight' = InFlight
  BY DEF InFlight, Items
<1> QED
  BY <1>1 DEF HeldInv

\* A case gives back its estimate and its slot.
LEMMA HeldReleased ==
  ASSUME CodeInv, HeldInv, NEW i \in Items, task[i] = "running", TaskOver(i),
         UNCHANGED <<pc, estimate>>, spent' \in Nat
  PROVE  HeldInv'
<1>1. i \in InFlight /\ pc # "raised"
  BY DEF InFlight, HeldInv
<1>2. InFlight' = InFlight \ {i}
  BY DEF CodeInv, TaskOver, InFlight, Items
<1>3. /\ SumFunctionOnSet(estimate, InFlight) =
           estimate[i] + SumFunctionOnSet(estimate, InFlight \ {i})
      /\ SumFunctionOnSet(estimate, InFlight \ {i}) \in Nat
  <2>1. /\ \A j \in InFlight : estimate[j] \in Nat
        /\ \A j \in InFlight \ {i} : estimate[j] \in Nat
    BY DEF HeldInv, InFlight
  <2>2. IsFiniteSet(InFlight \ {i})
    BY InFlightFinite, FS_Subset
  <2> QED
    BY <1>1, <2>1, <2>2, InFlightFinite, SumSplit, SumType
<1>4. Cardinality(InFlight \ {i}) = Cardinality(InFlight) - 1
  BY <1>1, InFlightFinite, FS_RemoveElement
<1>5. /\ held' = held - estimate[i] /\ slots' = slots + 1 /\ estimate' = estimate /\ pc' = pc
      /\ estimate[i] \in Nat
  BY DEF TaskOver, Released, HeldInv
<1>6. held' = SumFunctionOnSet(estimate, InFlight \ {i})
  BY <1>1, <1>3, <1>5 DEF HeldInv
<1>7. slots' = Concurrency - Cardinality(InFlight') /\ slots' \in 0..Concurrency
  <2>1. Cardinality(InFlight') \in Nat /\ Cardinality(InFlight) \in Nat
    BY InFlightFinite
  <2>2. slots = Concurrency - Cardinality(InFlight) /\ Concurrency \in Nat
    BY <1>1, EvalBounds DEF HeldInv
  <2>3. Cardinality(InFlight') = Cardinality(InFlight) - 1
    BY <1>2, <1>4
  <2>4. slots' = slots + 1
    BY <1>5
  <2>5. \A c \in Nat, d \in Nat : d = c - 1 =>
          /\ (Concurrency - c) + 1 = Concurrency - d
          /\ Concurrency - d <= Concurrency
    BY <2>2
  <2>6. slots \in 0..Concurrency
    BY DEF HeldInv
  <2> QED
    BY <2>1, <2>2, <2>3, <2>4, <2>5, <2>6
<1> QED
  BY <1>1, <1>2, <1>3, <1>5, <1>6, <1>7 DEF HeldInv

\* A case takes its slot and holds its estimate; with it the estimates of all the
\* cases in flight are what the budget was checked against.
LEMMA HeldTaken ==
  ASSUME CodeInv, HeldInv, NEW cost \in Estimates, Admit(cost)
  PROVE  /\ HeldInv'
         /\ spent + SumFunctionOnSet(estimate', InFlight') <= Budget
<1>1. next \in Items /\ task[next] = "none" /\ cost \in Nat
  BY EvalBounds DEF Admit, CodeInv, Items
<1>2. InFlight' = InFlight \union {next} /\ next \notin InFlight
  <2>1. task' = [task EXCEPT ![next] = "running"]
    BY DEF Admit
  <2> QED
    BY <1>1, <2>1 DEF CodeInv, InFlight, Items
<1>3. /\ estimate' = [estimate EXCEPT ![next] = cost] /\ estimate' \in [Items -> Nat]
      /\ estimate'[next] = cost /\ \A j \in Items \ {next} : estimate'[j] = estimate[j]
  BY <1>1 DEF Admit, HeldInv
<1>4. SumFunctionOnSet(estimate', InFlight) = SumFunctionOnSet(estimate, InFlight)
  <2>1. \A j \in InFlight : estimate[j] \in Nat /\ estimate'[j] = estimate[j]
    BY <1>2, <1>3 DEF HeldInv, InFlight
  <2> QED
    BY <2>1, InFlightFinite, SumSame
<1>5. SumFunctionOnSet(estimate', InFlight') = cost + SumFunctionOnSet(estimate', InFlight)
  <2>1. \A j \in InFlight \union {next} : estimate'[j] \in Nat
    BY <1>1, <1>3 DEF InFlight
  <2>2. SumFunctionOnSet(estimate', InFlight \union {next}) =
          estimate'[next] + SumFunctionOnSet(estimate', InFlight)
    BY <1>2, <2>1, InFlightFinite, SumAdd
  <2> QED
    BY <1>2, <1>3, <2>2
<1>6. /\ pc = "admit" /\ pc' = pc /\ slots > 0 /\ slots' = slots - 1 /\ held' = held + cost
      /\ spent' = spent /\ spent + held + cost <= Budget
  BY DEF Admit, Fits, meterVars, caseVars
<1>7. held = SumFunctionOnSet(estimate, InFlight) /\ held \in Nat /\ spent \in Nat
  BY <1>6 DEF HeldInv
<1>8. held' = SumFunctionOnSet(estimate', InFlight')
  BY <1>1, <1>4, <1>5, <1>6, <1>7
<1>9. slots' = Concurrency - Cardinality(InFlight') /\ slots' \in 0..Concurrency
  <2>1. Cardinality(InFlight') = Cardinality(InFlight) + 1 /\ Cardinality(InFlight) \in Nat
    BY <1>2, InFlightFinite, FS_AddElement
  <2>2. slots = Concurrency - Cardinality(InFlight) /\ Concurrency \in Nat /\ slots \in 0..Concurrency
    BY <1>6, EvalBounds DEF HeldInv
  <2> QED
    BY <1>6, <2>1, <2>2
<1>10. HeldInv'
  BY <1>1, <1>3, <1>6, <1>7, <1>8, <1>9 DEF HeldInv
<1>11. spent + SumFunctionOnSet(estimate', InFlight') <= Budget
  BY <1>1, <1>6, <1>7, <1>8, EvalBounds
<1> QED
  BY <1>10, <1>11

LEMMA HeldInvStep == CodeInv /\ HeldInv /\ [Next]_vars => HeldInv'
<1> SUFFICES ASSUME CodeInv, HeldInv, [Next]_vars PROVE HeldInv'
  OBVIOUS
<1> USE EvalBounds
<1>0. spent \in Nat
  BY DEF HeldInv
<1>1. CASE EndPlan \/ Gathered \/ Finish \/ Interrupt
  BY <1>0, <1>1, HeldKept
  DEF EndPlan, LeaveLoop, Gathered, Finish, Interrupt, caseVars, planVars, meterVars
<1>2. ASSUME NEW cost \in Estimates, Decline(cost) PROVE HeldInv'
  BY <1>0, <1>2, HeldKept DEF Decline, LeaveLoop, caseVars, planVars, meterVars
<1>3. ASSUME NEW cost \in Estimates, Admit(cost) PROVE HeldInv'
  BY <1>3, HeldTaken
<1>4. CASE EstimateRaises
  <2>1. InFlight' = {}
    BY <1>4 DEF EstimateRaises, InFlight, Items
  <2> QED
    BY <1>4, <2>1 DEF EstimateRaises, HeldInv, planVars, meterVars
<1>5. ASSUME NEW i \in Items, BeginCall(i) PROVE HeldInv'
  BY <1>0, <1>5, HeldKept DEF BeginCall, planVars
<1>6. ASSUME NEW i \in Items, EndCall(i) PROVE HeldInv'
  <2>1. spent' \in Nat
    BY <1>0, <1>6 DEF EndCall
  <2> QED
    BY <1>6, <2>1, HeldKept DEF EndCall, planVars
<1>7. ASSUME NEW i \in Items, FinishCase(i) PROVE HeldInv'
  <2>1. spent' \in Nat
    BY <1>0, <1>7 DEF FinishCase
  <2> QED
    BY <1>7, <2>1, HeldReleased DEF FinishCase
<1>8. ASSUME NEW i \in Items, CancelledCase(i) PROVE HeldInv'
  BY <1>0, <1>8, HeldReleased DEF CancelledCase, meterVars, planVars
<1>9. ASSUME NEW i \in Items, OrphanEnds(i) PROVE HeldInv'
  BY <1>0, <1>9, HeldKept DEF OrphanEnds, caseVars, planVars, meterVars
<1>10. CASE UNCHANGED vars
  BY <1>0, <1>10, HeldKept DEF vars, caseVars, planVars, meterVars
<1> QED
  BY <1>1, <1>2, <1>3, <1>4, <1>5, <1>6, <1>7, <1>8, <1>9, <1>10 DEF Next, Runner, CaseStep

\* One step's part of StartsFitTheBudget.
StartFits ==
  \A i \in Items : task[i] = "none" /\ task'[i] = "running" =>
    /\ stopped = "no"
    /\ spent + SumFunctionOnSet(estimate', InFlight') <= Budget

\* Only Admit starts a case.
LEMMA OnlyAdmitStarts ==
  ASSUME CodeInv, [Next]_vars, NEW i \in Items, task[i] = "none", task'[i] = "running"
  PROVE  \E cost \in Estimates : Admit(cost)
<1> SUFFICES ASSUME \A cost \in Estimates : ~Admit(cost) PROVE FALSE
  OBVIOUS
<1>1. CASE task' = task
  BY <1>1
<1>2. CASE EstimateRaises
  BY <1>2 DEF EstimateRaises, InFlight
<1>3. ASSUME NEW j \in Items, TaskOver(j) PROVE FALSE
  BY <1>3 DEF TaskOver, CodeInv
<1> QED
  BY <1>1, <1>2, <1>3 DEF Next, vars, Runner, CaseStep, EndPlan, Decline, Gathered, Finish,
    Interrupt, BeginCall, EndCall, FinishCase, CancelledCase, OrphanEnds

\* However many cases are in flight, one starts only while the report says go and
\* the spend, with the estimates of all of them, fits the budget.
THEOREM StartsFitTheBudgetAlways == Spec => StartsFitTheBudget
<1>1. CodeInv /\ HeldInv /\ [Next]_vars => [StartFits]_vars
  <2> SUFFICES ASSUME CodeInv, HeldInv, [Next]_vars, NEW i \in Items,
                      task[i] = "none", task'[i] = "running"
               PROVE  /\ stopped = "no"
                      /\ spent + SumFunctionOnSet(estimate', InFlight') <= Budget
    BY DEF StartFits
  <2>1. PICK cost \in Estimates : Admit(cost)
    BY OnlyAdmitStarts
  <2>2. stopped = "no"
    BY <2>1 DEF Admit, MayStart
  <2> QED
    BY <2>1, <2>2, HeldTaken
<1>2. [][StartFits]_vars <=> StartsFitTheBudget
  BY PTL DEF StartsFitTheBudget, StartFits
<1> QED
  BY <1>1, <1>2, CodeInvInit, HeldInvInit, CodeInvStep, HeldInvStep, PTL DEF Spec

-----------------------------------------------------------------------------
Factories == [base : Contexts \cup {Real}, meters : Seq(Contexts)]
Kinds == {"metered", "use_model"}
Entries == [block : Contexts, kind : Kinds]

\* A cached client is that of one loop, open, and of the factory in force.
CacheInv ==
  /\ cache \in [Loops -> 0..Len(clients)]
  /\ \A k, l \in Loops : cache[k] = cache[l] /\ cache[l] # 0 => k = l
  /\ \A l \in Loops : cache[l] # 0 => clients[cache[l]] = [made |-> factory, state |-> "open"]

\* What the blocks of es, entered one after the other, make of the provider.
InForceOf(es) ==
  LET models == {0} \cup {i \in DOMAIN es : es[i].kind = "use_model"}
      base == CHOOSE i \in models : \A j \in models : j <= i
      within == SubSeq(es, base + 1, Len(es))
  IN Factory(IF base = 0 THEN Real ELSE es[base].block,
             Reverse([i \in DOMAIN within |-> within[i].block]))

\* Each open block would put back what the blocks before it make.
NestInv ==
  ~crossed =>
    /\ factory = InForceOf(opened)
    /\ \A i \in DOMAIN opened : saved[opened[i].block] = InForceOf(SubSeq(opened, 1, i - 1))

ClientType ==
  /\ factory \in Factories /\ saved \in [Contexts -> Factories]
  /\ opened \in Seq(Entries) /\ crossed \in BOOLEAN
  /\ clients \in Seq([made : Factories, state : {"open", "closed"}])

\* What an observer was told, by where its call is.
Told(call, i) ==
  /\ call.at \in {"complete", "stream"} => call.reports[i] = <<>>
  /\ call.at \in {"abandoned", "over"} =>
       IF i <= call.passed
       THEN \/ call.at = "abandoned" /\ call.reports[i] = <<>>
            \/ /\ Len(call.reports[i]) = 1
               /\ call.reports[i][1] = "ok" <=> call.got
       ELSE call.reports[i] = <<>>

Outcomes == {"ok", "no response", "failed", "cancelled"}
CallPlaces == {"idle", "resolved", "complete", "stream", "abandoned", "over"}

CallOf(call, n) ==
  /\ call.client \in 0..n /\ (call.at # "idle" => call.client # 0)
  /\ call.passed \in Nat /\ call.got \in BOOLEAN /\ call.reports \in Seq(Seq(Outcomes))
  /\ call.at \in {"idle", "resolved", "complete"} => ~call.got
  /\ call.at \in {"idle", "resolved"} => call.reports = <<>>
  /\ call.at \in {"complete", "stream", "abandoned"} => call.passed = Len(call.reports)
  /\ \A i \in DOMAIN call.reports : Told(call, i)

CallRecords ==
  [at : CallPlaces, client : Nat, passed : Nat, got : BOOLEAN, reports : Seq(Seq(Outcomes))]

CallsInv ==
  /\ modelCalls \in [Calls -> CallRecords]
  /\ \A c \in Calls : CallOf(modelCalls[c], Len(clients))

ClientInv == ClientType /\ CacheInv /\ NestInv


-----------------------------------------------------------------------------
(* The blocks *)


LEMMA InForceReads == InForce = InForceOf(opened)
BY DEF InForce, InForceOf

\* Where the newest use_model block of es is, 0 if there is none.
Models(es) == {0} \cup {i \in DOMAIN es : es[i].kind = "use_model"}
Newest(es) == CHOOSE i \in Models(es) : \A j \in Models(es) : j <= i
Meters_(es, base) == Reverse([i \in DOMAIN SubSeq(es, base + 1, Len(es)) |->
                                SubSeq(es, base + 1, Len(es))[i].block])

LEMMA InForceParts ==
  \A es : InForceOf(es) = Factory(IF Newest(es) = 0 THEN Real ELSE es[Newest(es)].block,
                                  Meters_(es, Newest(es)))
BY DEF InForceOf, Newest, Models, Meters_

LEMMA NewestIs ==
  ASSUME NEW es \in Seq(Entries)
  PROVE  /\ Newest(es) \in Models(es) /\ Newest(es) \in 0..Len(es)
         /\ \A j \in Models(es) : j <= Newest(es)
         /\ \A i \in Models(es) : (\A j \in Models(es) : j <= i) => Newest(es) = i
<1>1. Models(es) \subseteq Nat /\ Models(es) # {} /\ \A j \in Models(es) : j <= Len(es)
  BY DEF Models
<1>2. \E i \in Models(es) : \A j \in Models(es) : j <= i
  <2>1. \E i \in Models(es) : \A j \in Models(es) : i >= j
    BY <1>1, NatMax, LenProperties
  <2> QED
    BY <1>1, <2>1
<1>3. Newest(es) \in Models(es) /\ \A j \in Models(es) : j <= Newest(es)
  BY <1>2 DEF Newest
<1> QED
  BY <1>1, <1>3

LEMMA MetersIs ==
  ASSUME NEW es \in Seq(Entries), NEW base \in 0..Len(es)
  PROVE  /\ Meters_(es, base) \in Seq(Contexts) /\ Len(Meters_(es, base)) = Len(es) - base
         /\ \A i \in 1..(Len(es) - base) : Meters_(es, base)[i] = es[Len(es) + 1 - i].block
<1> DEFINE n == Len(es) - base
           within == SubSeq(es, base + 1, Len(es))
           blocks == [i \in DOMAIN within |-> within[i].block]
<1>1. n \in Nat /\ Len(within) = n /\ DOMAIN within = 1..n
      /\ \A i \in 1..n : within[i] = es[base + i]
  <2>1. Len(es) \in Nat
    BY LenProperties
  <2>2. within \in Seq(Entries) /\ Len(within) = (IF base + 1 <= Len(es) THEN Len(es) - (base + 1) + 1 ELSE 0)
        /\ \A i \in 1..Len(within) : within[i] = es[base + 1 + i - 1]
    BY <2>1, SubSeqProperties
  <2>3. DOMAIN within = 1..Len(within)
    BY <2>2, LenProperties
  <2> QED
    BY <2>1, <2>2, <2>3
<1>2. DOMAIN blocks = 1..n /\ \A i \in 1..n : blocks[i] = es[base + i].block /\ es[base + i].block \in Contexts
  <2>1. \A i \in 1..n : base + i \in 1..Len(es)
    BY <1>1, LenProperties
  <2>2. \A i \in 1..n : es[base + i] \in Entries
    BY <2>1, ElementOfSeq
  <2> QED
    BY <1>1, <2>2 DEF Entries
<1> HIDE DEF within, blocks
<1>3. blocks \in Seq(Contexts) /\ Len(blocks) = n
  <2>1. blocks \in [1..n -> Contexts]
    BY <1>2 DEF blocks
  <2> HIDE DEF n
  <2> QED
    BY <1>1, <2>1, IsASeq, LenProperties
<1>4. Meters_(es, base) = [i \in 1..n |-> blocks[n - i + 1]]
  BY <1>3 DEF Meters_, Reverse, blocks, within
<1>5. \A i \in 1..n : n - i + 1 \in 1..n /\ base + (n - i + 1) = Len(es) + 1 - i
  BY <1>1, LenProperties
<1>6. Meters_(es, base) \in [1..n -> Contexts]
  BY <1>2, <1>4, <1>5
<1>7. \A i \in 1..n : Meters_(es, base)[i] = es[Len(es) + 1 - i].block
  BY <1>2, <1>4, <1>5, SMTT(30)
<1>8. Meters_(es, base) \in Seq(Contexts) /\ Len(Meters_(es, base)) = n
  <2> HIDE DEF n
  <2> QED
    BY <1>1, <1>6, IsASeq, LenProperties
<1> QED
  BY <1>7, <1>8

\* A block more is the newest model, or one more meter around what was in force.
LEMMA OneMoreBlock ==
  ASSUME NEW es \in Seq(Entries), NEW e \in Entries
  PROVE  InForceOf(Append(es, e)) =
           IF e.kind = "metered"
           THEN Factory(InForceOf(es).base, <<e.block>> \o InForceOf(es).meters)
           ELSE Factory(e.block, <<>>)
<1> DEFINE n == Len(es)
           es2 == Append(es, e)
<1>1. /\ n \in Nat /\ es2 \in Seq(Entries) /\ Len(es2) = n + 1 /\ es2[n + 1] = e
      /\ \A i \in 1..n : es2[i] = es[i] /\ es[i] \in Entries
      /\ DOMAIN es = 1..n /\ DOMAIN es2 = 1..(n + 1)
  BY AppendProperties, LenProperties, ElementOfSeq
<1> HIDE DEF es2
<1>2. CASE e.kind = "metered"
  <2>1. Models(es2) = Models(es)
    BY <1>1, <1>2 DEF Models
  <2>2. Newest(es2) = Newest(es) /\ Newest(es) \in 0..n
    BY <1>1, <2>1, NewestIs DEF Newest
  <2> DEFINE base == Newest(es)
             m == Meters_(es, base)
             m2 == Meters_(es2, base)
  <2> HIDE DEF base, m, m2
  <2>3. /\ m \in Seq(Contexts) /\ Len(m) = n - base
        /\ \A i \in 1..(n - base) : m[i] = es[n + 1 - i].block
    BY <2>2, MetersIs DEF m, base
  <2>4. /\ m2 \in Seq(Contexts) /\ Len(m2) = n + 1 - base
        /\ \A i \in 1..(n + 1 - base) : m2[i] = es2[n + 2 - i].block
    <3>1. base \in 0..Len(es2)
      BY <1>1, <2>2 DEF base
    <3>2. /\ m2 \in Seq(Contexts) /\ Len(m2) = Len(es2) - base
          /\ \A i \in 1..(Len(es2) - base) : m2[i] = es2[Len(es2) + 1 - i].block
      BY <1>1, <3>1, MetersIs DEF m2
    <3>3. base \in Nat /\ Len(es2) - base = n + 1 - base
      BY <1>1, <2>2 DEF base
    <3>4. \A i \in 1..(n + 1 - base) : Len(es2) + 1 - i = n + 2 - i
      BY <1>1, <3>3
    <3> QED
      BY <3>2, <3>3, <3>4
  <2>5. m2 = <<e.block>> \o m
    <3>1. e.block \in Contexts
      BY DEF Entries
    <3>2. <<e.block>> \in Seq(Contexts) /\ Len(<<e.block>>) = 1
      BY <3>1
    <3>3. /\ <<e.block>> \o m \in Seq(Contexts) /\ Len(<<e.block>> \o m) = n + 1 - base
          /\ (<<e.block>> \o m)[1] = e.block
          /\ \A i \in 1..(n + 1 - base) : i # 1 => (<<e.block>> \o m)[i] = m[i - 1]
      BY <1>1, <2>2, <2>3, <3>2, ConcatProperties DEF base
    <3>4. n + 1 - base \in Nat /\ n + 1 - base >= 1
      BY <1>1, <2>2 DEF base
    <3>5. m2[1] = e.block
      BY <1>1, <2>4, <3>4
    <3>6. \A i \in 1..(n + 1 - base) : i # 1 => m2[i] = m[i - 1]
      <4> TAKE i \in 1..(n + 1 - base)
      <4> HAVE i # 1
      <4>1. i - 1 \in 1..(n - base) /\ n + 2 - i = n + 1 - (i - 1) /\ n + 2 - i \in 1..n
        BY <1>1, <2>2, <3>4 DEF base
      <4> QED
        BY <1>1, <2>3, <2>4, <4>1, ZenonT(40)
    <3>7. \A i \in 1..Len(m2) : m2[i] = (<<e.block>> \o m)[i]
      BY <2>4, <3>3, <3>5, <3>6
    <3> QED
      BY <2>4, <3>3, <3>7, SeqEqual
  <2>6. base # 0 => es2[base] = es[base]
    BY <1>1, <2>2 DEF base
  <2>7. InForceOf(es) = Factory(IF base = 0 THEN Real ELSE es[base].block, m)
    BY InForceParts DEF base, m
  <2>8. InForceOf(es2) = Factory(IF base = 0 THEN Real ELSE es2[base].block, m2)
    BY <2>2, InForceParts DEF base, m2
  <2>9. InForceOf(es2) = Factory(InForceOf(es).base, <<e.block>> \o InForceOf(es).meters)
    <3>1. (IF base = 0 THEN Real ELSE es2[base].block) = (IF base = 0 THEN Real ELSE es[base].block)
      BY <2>6
    <3>2. InForceOf(es).base = (IF base = 0 THEN Real ELSE es[base].block) /\ InForceOf(es).meters = m
      BY <2>7 DEF Factory
    <3> QED
      BY <2>5, <2>8, <3>1, <3>2
  <2> QED
    BY <1>2, <2>9 DEF es2
<1>3. CASE e.kind # "metered"
  <2>1. e.kind = "use_model"
    BY <1>3 DEF Entries, Kinds
  <2>2. n + 1 \in Models(es2) /\ \A j \in Models(es2) : j <= n + 1
    BY <1>1, <2>1 DEF Models
  <2>3. Newest(es2) = n + 1
    BY <1>1, <2>2, NewestIs
  <2>4. Meters_(es2, n + 1) = <<>>
    <3>1. n + 1 \in 0..Len(es2)
      BY <1>1
    <3>2. Meters_(es2, n + 1) \in Seq(Contexts) /\ Len(Meters_(es2, n + 1)) = Len(es2) - (n + 1)
      BY <1>1, <3>1, MetersIs
    <3> QED
      BY <1>1, <3>2, EmptySeq
  <2>5. InForceOf(es2) = Factory(e.block, <<>>)
    BY <1>1, <2>3, <2>4, InForceParts
  <2> QED
    BY <1>3, <2>5 DEF es2
<1> QED
  BY <1>2, <1>3

LEMMA NoBlocks == InForceOf(<<>>) = Factory(Real, <<>>)
<1>1. <<>> \in Seq(Entries) /\ Len(<<>>) = 0
  BY EmptySeq
<1>2. Newest(<<>>) = 0
  <2>1. Newest(<<>>) \in 0..Len(<<>>)
    BY <1>1, NewestIs
  <2> QED
    BY <1>1, <2>1
<1>3. Meters_(<<>>, 0) = <<>>
  <2>1. 0 \in 0..Len(<<>>)
    BY <1>1
  <2>2. Meters_(<<>>, 0) \in Seq(Contexts) /\ Len(Meters_(<<>>, 0)) = Len(<<>>) - 0
    BY <1>1, <2>1, MetersIs
  <2> QED
    BY <1>1, <2>2, EmptySeq
<1> QED
  BY <1>2, <1>3, InForceParts


-----------------------------------------------------------------------------
(* The factory in force and the clients of it *)

LEMMA WrappedType ==
  ASSUME ClientType, NEW c \in Contexts, NEW kind \in Kinds
  PROVE  Wrapped(c, kind) \in Factories
<1>1. factory.base \in Contexts \cup {Real} /\ factory.meters \in Seq(Contexts)
  BY DEF ClientType, Factories
<1>2. <<c>> \o factory.meters \in Seq(Contexts) /\ <<>> \in Seq(Contexts)
  BY <1>1, ConcatProperties
<1> QED
  BY <1>1, <1>2 DEF Wrapped, Factory, Factories

LEMMA RemovedBlock ==
  ASSUME NEW es \in Seq(Entries), NEW i \in DOMAIN es
  PROVE  /\ RemoveAt(es, i) \in Seq(Entries)
         /\ i = Len(es) => RemoveAt(es, i) = SubSeq(es, 1, Len(es) - 1)
<1>1. Len(es) \in Nat /\ i \in 1..Len(es)
  BY LenProperties
<1>2. SubSeq(es, 1, i - 1) \in Seq(Entries) /\ SubSeq(es, i + 1, Len(es)) \in Seq(Entries)
  <2>1. \A m, n \in Int : (\A j \in m..n : j \in 1..Len(es)) => SubSeq(es, m, n) \in Seq(Entries)
    BY <1>1
  <2> QED
    BY <1>1, <2>1
<1>3. RemoveAt(es, i) \in Seq(Entries)
  BY <1>2, ConcatProperties DEF RemoveAt
<1>4. ASSUME i = Len(es) PROVE RemoveAt(es, i) = SubSeq(es, 1, Len(es) - 1)
  <2>1. SubSeq(es, i + 1, Len(es)) = <<>>
    BY <1>1, <1>4
  <2> QED
    BY <1>2, <1>4, <2>1, ConcatEmptySeq DEF RemoveAt
<1> QED
  BY <1>3, <1>4

LEMMA ClientInit == ClientsInit => ClientInv
<1> SUFFICES ASSUME ClientsInit PROVE ClientInv
  OBVIOUS
<1>1. <<>> \in Seq(Contexts) /\ Len(<<>>) = 0 /\ Factory(Real, <<>>) \in Factories
  BY EmptySeq DEF Factory, Factories
<1>2. ClientType
  BY <1>1, EmptySeq DEF ClientsInit, ClientType
<1>3. CacheInv
  BY <1>1 DEF ClientsInit, CacheInv
<1>4. NestInv
  BY NoBlocks DEF ClientsInit, NestInv
<1> QED
  BY <1>2, <1>3, <1>4 DEF ClientInv

LEMMA EnterStep ==
  ASSUME ClientInv, NEW c \in Contexts, NEW kind \in Kinds, Enter(c, kind)
  PROVE  ClientInv'
<1> DEFINE e == [block |-> c, kind |-> kind]
<1>1. ClientType /\ CacheInv /\ NestInv
  BY DEF ClientInv
<1>2. /\ c \notin Blocks(opened)
      /\ saved' = [saved EXCEPT ![c] = factory] /\ factory' = Wrapped(c, kind)
      /\ cache' = [l \in Loops |-> 0]
      /\ opened' = Append(opened, e) /\ UNCHANGED <<crossed, clients>>
  BY DEF Enter, Register, Forgotten
<1>3. opened \in Seq(Entries) /\ e \in Entries
  BY <1>1 DEF ClientType, Entries
<1> HIDE DEF e
<1>4. ClientType'
  <2>1. opened' \in Seq(Entries)
    BY <1>2, <1>3, AppendProperties
  <2> QED
    BY <1>1, <1>2, <2>1, WrappedType DEF ClientType
<1>5. CacheInv'
  <2>1. Len(clients) \in Nat
    BY <1>1, LenProperties DEF ClientType
  <2> QED
    BY <1>2, <2>1 DEF CacheInv
<1>6. NestInv'
  <2> SUFFICES ASSUME ~crossed
               PROVE  /\ factory' = InForceOf(opened')
                      /\ \A i \in DOMAIN opened' :
                           saved'[opened'[i].block] = InForceOf(SubSeq(opened', 1, i - 1))
    BY <1>2 DEF NestInv
  <2>1. /\ factory = InForceOf(opened)
        /\ \A i \in DOMAIN opened : saved[opened[i].block] = InForceOf(SubSeq(opened, 1, i - 1))
    BY <1>1 DEF NestInv
  <2>2. factory' = InForceOf(opened')
    <3>1. e.kind = kind /\ e.block = c
      BY DEF e
    <3>2. factory' = IF kind = "metered" THEN Factory(factory.base, <<c>> \o factory.meters)
                     ELSE Factory(c, <<>>)
      BY <1>2 DEF Wrapped
    <3> QED
      BY <1>2, <1>3, <2>1, <3>1, <3>2, OneMoreBlock
  <2> DEFINE n == Len(opened)
  <2>3. /\ n \in Nat /\ DOMAIN opened = 1..n /\ DOMAIN opened' = 1..(n + 1)
        /\ opened'[n + 1] = e /\ \A i \in 1..n : opened'[i] = opened[i] /\ opened[i] \in Entries
    BY <1>2, <1>3, AppendProperties, LenProperties, ElementOfSeq
  <2>4. ASSUME NEW i \in 1..n
        PROVE  saved'[opened'[i].block] = InForceOf(SubSeq(opened', 1, i - 1))
    <3>1. opened[i].block # c
      BY <1>2, <2>3 DEF Blocks
    <3>2. opened[i].block \in Contexts
      BY <2>3 DEF Entries
    <3>3. SubSeq(opened', 1, i - 1) = SubSeq(opened, 1, i - 1)
      BY <1>2, <1>3, <2>3
    <3> QED
      BY <1>1, <1>2, <2>1, <2>3, <3>1, <3>2, <3>3 DEF ClientType
  <2>5. saved'[opened'[n + 1].block] = InForceOf(SubSeq(opened', 1, (n + 1) - 1))
    <3>1. SubSeq(opened', 1, (n + 1) - 1) = opened
      BY <1>2, <1>3, <2>3
    <3>2. saved'[c] = factory
      BY <1>1, <1>2 DEF ClientType
    <3>3. opened'[n + 1].block = c
      BY <2>3 DEF e
    <3> QED
      BY <2>1, <3>1, <3>2, <3>3
  <2> HIDE DEF n
  <2>6. \A i \in 1..(n + 1) : i \in 1..n \/ i = n + 1
    BY <2>3
  <2> QED
    BY <2>2, <2>3, <2>4, <2>5, <2>6
<1> QED
  BY <1>4, <1>5, <1>6 DEF ClientInv

LEMMA LeaveStep ==
  ASSUME ClientInv, NEW c \in Contexts, Leave(c)
  PROVE  ClientInv'
<1>1. ClientType /\ CacheInv /\ NestInv
  BY DEF ClientInv
<1>2. PICK i \in DOMAIN opened :
        /\ opened[i].block = c /\ opened' = RemoveAt(opened, i)
        /\ crossed' = (crossed \/ i # Len(opened))
  BY DEF Leave
<1>3. factory' = saved[c] /\ cache' = [l \in Loops |-> 0] /\ UNCHANGED <<saved, clients>>
  BY DEF Leave, Register, Restored, Forgotten
<1>4. opened \in Seq(Entries) /\ Len(opened) \in Nat /\ DOMAIN opened = 1..Len(opened)
  BY <1>1, LenProperties DEF ClientType
<1>5. ClientType'
  <2>1. opened' \in Seq(Entries)
    BY <1>2, <1>4, RemovedBlock
  <2>2. crossed' \in BOOLEAN
    BY <1>1, <1>2 DEF ClientType
  <2> QED
    BY <1>1, <1>3, <2>1, <2>2 DEF ClientType
<1>6. CacheInv'
  <2>1. Len(clients) \in Nat
    BY <1>1, LenProperties DEF ClientType
  <2> QED
    BY <1>3, <2>1 DEF CacheInv
<1>7. NestInv'
  <2> SUFFICES ASSUME ~crossed'
               PROVE  /\ factory' = InForceOf(opened')
                      /\ \A k \in DOMAIN opened' :
                           saved'[opened'[k].block] = InForceOf(SubSeq(opened', 1, k - 1))
    BY DEF NestInv
  <2>1. ~crossed /\ i = Len(opened)
    BY <1>2
  <2>2. opened' = SubSeq(opened, 1, i - 1)
    BY <1>2, <1>4, <2>1, RemovedBlock
  <2>3. \A k \in DOMAIN opened : saved[opened[k].block] = InForceOf(SubSeq(opened, 1, k - 1))
    BY <1>1, <2>1 DEF NestInv
  <2>4. factory' = InForceOf(opened')
    BY <1>2, <1>3, <2>2, <2>3
  <2>5. /\ DOMAIN opened' = 1..(i - 1) /\ \A k \in 1..(i - 1) : opened'[k] = opened[k]
        /\ \A k \in 1..(i - 1) : SubSeq(opened', 1, k - 1) = SubSeq(opened, 1, k - 1)
    BY <1>2, <1>4, <2>2
  <2>6. \A k \in 1..(i - 1) : k \in DOMAIN opened
    BY <1>2, <1>4
  <2> QED
    BY <1>3, <2>3, <2>4, <2>5, <2>6
<1> QED
  BY <1>5, <1>6, <1>7 DEF ClientInv


LEMMA ResolveStep ==
  ASSUME ClientInv, NEW c \in Calls, NEW l \in Loops, Resolve(c, l)
  PROVE  ClientInv'
<1>1. ClientType /\ CacheInv /\ NestInv
  BY DEF ClientInv
<1>2. UNCHANGED <<factory, saved, opened, left, crossed>>
  BY DEF Resolve, registryVars
<1>3. NestInv'
  BY <1>1, <1>2 DEF NestInv
<1>4. CASE cache[l] # 0
  <2>1. UNCHANGED <<clients, cache>>
    BY <1>4 DEF Resolve
  <2> QED
    BY <1>1, <1>2, <1>3, <2>1 DEF ClientInv, ClientType, CacheInv
<1>5. CASE cache[l] = 0
  <2> DEFINE new == [made |-> factory, state |-> "open"]
             n == Len(clients)
  <2>1. clients' = Append(clients, new) /\ cache' = [cache EXCEPT ![l] = n + 1]
    BY <1>5 DEF Resolve
  <2>2. new \in [made : Factories, state : {"open", "closed"}]
    BY <1>1 DEF ClientType
  <2> HIDE DEF new
  <2>3. /\ clients' \in Seq([made : Factories, state : {"open", "closed"}])
        /\ n \in Nat /\ Len(clients') = n + 1 /\ clients'[n + 1] = new
        /\ \A i \in 1..n : clients'[i] = clients[i]
    BY <1>1, <2>1, <2>2, AppendProperties, LenProperties DEF ClientType
  <2>4. ClientType'
    BY <1>1, <1>2, <2>3 DEF ClientType
  <2>5. cache \in [Loops -> 0..n]
    BY <1>1 DEF CacheInv
  <2> HIDE DEF n
  <2>6. cache' \in [Loops -> 0..(n + 1)]
    BY <2>1, <2>3, <2>5
  <2>7. ASSUME NEW j \in Loops, NEW k \in Loops, cache'[j] = cache'[k], cache'[j] # 0 PROVE j = k
    BY <1>1, <2>1, <2>3, <2>5, <2>7 DEF CacheInv
  <2>8. ASSUME NEW k \in Loops, cache'[k] # 0
        PROVE  clients'[cache'[k]] = [made |-> factory', state |-> "open"]
    <3>1. CASE k = l
      BY <1>2, <2>1, <2>3, <2>5, <3>1 DEF new
    <3>2. CASE k # l
      <4>1. cache'[k] = cache[k] /\ cache[k] \in 1..n
        BY <2>1, <2>3, <2>5, <2>8, <3>2
      <4>2. clients[cache[k]] = [made |-> factory, state |-> "open"]
        BY <1>1, <4>1, <2>8 DEF CacheInv
      <4> QED
        BY <1>2, <2>3, <4>1, <4>2
    <3> QED
      BY <3>1, <3>2
  <2>9. CacheInv'
    BY <2>3, <2>6, <2>7, <2>8 DEF CacheInv
  <2> QED
    BY <1>3, <2>4, <2>9 DEF ClientInv
<1> QED
  BY <1>1, <1>4, <1>5 DEF CacheInv

LEMMA ShutdownStep ==
  ASSUME ClientInv, NEW l \in Loops, Shutdown(l)
  PROVE  ClientInv' /\ Len(clients') = Len(clients)
<1> DEFINE ls == {l, NoLoop}
           closing == {cache[k] : k \in ls} \ {0}
           n == Len(clients)
           Records == [made : Factories, state : {"open", "closed"}]
<1>1. ClientType /\ CacheInv /\ NestInv
  BY DEF ClientInv
<1>2. /\ clients' = [i \in DOMAIN clients |->
           IF i \in closing /\ Closable(i) THEN [clients[i] EXCEPT !.state = "closed"]
           ELSE clients[i]]
      /\ cache' = [k \in Loops |-> IF k \in ls THEN 0 ELSE cache[k]]
      /\ UNCHANGED <<factory, saved, opened, left, crossed>>
  BY DEF Shutdown, Emptied, registryVars
<1>3. clients \in Seq(Records) /\ n \in Nat /\ DOMAIN clients = 1..n
  BY <1>1, LenProperties DEF ClientType
<1>4. ls \subseteq Loops
  BY LoopsAssumption
<1> HIDE DEF closing, ls
<1>5. \A i \in 1..n : clients[i] \in Records /\ [clients[i] EXCEPT !.state = "closed"] \in Records
  <2>1. \A i \in 1..n : clients[i] \in Records
    BY <1>3, ElementOfSeq
  <2> QED
    BY <2>1
<1> HIDE DEF Records, n
<1>6. clients' \in [1..n -> Records]
  BY <1>2, <1>3, <1>5
<1>7. clients' \in Seq(Records) /\ Len(clients') = n
  BY <1>3, <1>6, IsASeq, LenProperties
<1>8. ClientType'
  BY <1>1, <1>2, <1>7 DEF ClientType, Records
<1>9. CacheInv'
  <2>1. cache \in [Loops -> 0..n]
    BY <1>1 DEF CacheInv, n
  <2>2. cache' \in [Loops -> 0..n] /\ \A k \in Loops : cache'[k] # 0 => k \notin ls /\ cache'[k] = cache[k]
    BY <1>2, <1>3, <2>1
  <2>3. ASSUME NEW k \in Loops, cache'[k] # 0
        PROVE  clients'[cache'[k]] = [made |-> factory', state |-> "open"]
    <3>1. k \notin ls /\ cache'[k] = cache[k] /\ cache[k] \in 1..n
      BY <1>3, <2>1, <2>2, <2>3
    <3>2. cache[k] \notin closing
      BY <1>1, <1>4, <2>3, <3>1 DEF closing, CacheInv
    <3>3. clients[cache[k]] = [made |-> factory, state |-> "open"]
      BY <1>1, <2>3, <3>1 DEF CacheInv
    <3> QED
      BY <1>2, <1>3, <3>1, <3>2, <3>3
  <2>4. \A j, k \in Loops : cache'[j] = cache'[k] /\ cache'[j] # 0 => j = k
    BY <1>1, <2>2 DEF CacheInv
  <2> QED
    BY <1>7, <2>2, <2>3, <2>4 DEF CacheInv
<1>10. NestInv'
  BY <1>1, <1>2 DEF NestInv
<1> QED
  BY <1>7, <1>8, <1>9, <1>10 DEF ClientInv, n

\* What a call does leaves the registry alone.
LEMMA ClientFrame ==
  ClientInv /\ UNCHANGED <<registryVars, clients, cache>> => ClientInv'
BY DEF ClientInv, ClientType, CacheInv, NestInv, registryVars

LEMMA ClientStep == ClientInv /\ [ClientsNext]_clientsVars => ClientInv'
<1> SUFFICES ASSUME ClientInv, [ClientsNext]_clientsVars PROVE ClientInv'
  OBVIOUS
<1>1. CASE ClientsNext
  <2>1. ASSUME NEW c \in Contexts, NEW kind \in {"metered", "use_model"}, Enter(c, kind) PROVE ClientInv'
    BY <2>1, EnterStep DEF Kinds
  <2>2. ASSUME NEW c \in Contexts, Leave(c) PROVE ClientInv'
    BY <2>2, LeaveStep
  <2>3. ASSUME NEW l \in Loops, Shutdown(l) PROVE ClientInv'
    BY <2>3, ShutdownStep
  <2>4. ASSUME NEW c \in Calls, NEW l \in Loops, Resolve(c, l) PROVE ClientInv'
    BY <2>4, ResolveStep
  <2>5. ASSUME NEW c \in Calls,
               \/ \E how \in {"complete", "stream"} : Begin(c, how)
               \/ Complete(c) \/ Respond(c) \/ EndModelCall(c) \/ Abandon(c) \/ Finalize(c)
        PROVE  ClientInv'
    <3>1. UNCHANGED <<registryVars, clients, cache>>
      BY <2>5 DEF Begin, Complete, Respond, EndModelCall, Abandon, Finalize
    <3> QED
      BY <3>1, ClientFrame
  <2> QED
    BY <1>1, <2>1, <2>2, <2>3, <2>4, <2>5 DEF ClientsNext
<1>2. CASE UNCHANGED clientsVars
  BY <1>2, ClientFrame DEF clientsVars
<1> QED
  BY <1>1, <1>2

\* As long as blocks end newest first, the factory and every client a run can
\* still be given, on every loop, go through just the blocks that are open, and
\* none of these clients is closed, for any number of blocks and loops
\* (evals/budget.py metered, models/registry.py _forget_clients and shutdown).
THEOREM ClientsAreCurrentAlways == ClientsSpec => []ClientsAreCurrent
<1>1. ClientInv => ClientsAreCurrent
  BY InForceReads DEF ClientInv, CacheInv, NestInv, ClientsAreCurrent
<1> QED
  BY <1>1, ClientInit, ClientStep, PTL DEF ClientsSpec


-----------------------------------------------------------------------------
(* What the observers of a call are told *)

\* A step of call c alone.
LEMMA OneCall ==
  ASSUME CallsInv, NEW c \in Calls, NEW call, modelCalls' = [modelCalls EXCEPT ![c] = call],
         Len(clients') >= Len(clients), Len(clients) \in Nat, Len(clients') \in Nat,
         call \in CallRecords, CallOf(call, Len(clients'))
  PROVE  CallsInv'
<1>1. modelCalls \in [Calls -> CallRecords] /\ \A d \in Calls : CallOf(modelCalls[d], Len(clients))
  BY DEF CallsInv
<1>2. modelCalls' \in [Calls -> CallRecords]
  BY <1>1
<1>3. ASSUME NEW d \in Calls PROVE CallOf(modelCalls'[d], Len(clients'))
  <2>1. CASE d = c
    BY <1>1, <2>1
  <2>2. CASE d # c
    <3>1. modelCalls'[d] = modelCalls[d] /\ CallOf(modelCalls[d], Len(clients))
      BY <1>1, <2>2
    <3>2. modelCalls[d].client \in 0..Len(clients')
      BY <3>1 DEF CallOf
    <3> QED
      BY <3>1, <3>2 DEF CallOf
  <2> QED
    BY <2>1, <2>2
<1> QED
  BY <1>2, <1>3 DEF CallsInv

\* What the observers in is are told is one line more.
ToldMore(reports, is, outcome) ==
  [i \in DOMAIN reports |-> IF i \in is THEN Append(reports[i], outcome) ELSE reports[i]]

LEMMA ToldMoreType ==
  ASSUME NEW reports \in Seq(Seq(Outcomes)), NEW is, NEW outcome \in Outcomes
  PROVE  /\ ToldMore(reports, is, outcome) \in Seq(Seq(Outcomes))
         /\ Len(ToldMore(reports, is, outcome)) = Len(reports)
         /\ DOMAIN ToldMore(reports, is, outcome) = DOMAIN reports
         /\ \A i \in DOMAIN reports :
              ToldMore(reports, is, outcome)[i] =
                IF i \in is THEN Append(reports[i], outcome) ELSE reports[i]
<1> DEFINE told == ToldMore(reports, is, outcome)
           n == Len(reports)
<1>1. n \in Nat /\ DOMAIN reports = 1..n
  BY LenProperties
<1>2. \A i \in 1..n : reports[i] \in Seq(Outcomes) /\ Append(reports[i], outcome) \in Seq(Outcomes)
  BY <1>1, ElementOfSeq, AppendProperties
<1> HIDE DEF n
<1>3. told \in [1..n -> Seq(Outcomes)]
  BY <1>1, <1>2 DEF ToldMore
<1>4. DOMAIN told = DOMAIN reports
      /\ \A i \in DOMAIN told :
           told[i] = IF i \in is THEN Append(reports[i], outcome) ELSE reports[i]
  BY DEF ToldMore
<1> HIDE DEF told
<1>5. told \in Seq(Seq(Outcomes)) /\ Len(told) = n
  BY <1>1, <1>3, IsASeq, LenProperties
<1> QED
  BY <1>4, <1>5 DEF told, n

LEMMA OneTold ==
  \A outcome \in Outcomes : Append(<<>>, outcome) = <<outcome>> /\ Len(<<outcome>>) = 1 /\ <<outcome>>[1] = outcome
OBVIOUS

\* A report to those of c's observers that were told nothing yet, of a call that
\* then is over, or abandoned until each was told.
LEMMA ReportStep ==
  ASSUME ClientType, CallsInv, NEW c \in Calls, NEW is \in SUBSET Waiting(c), NEW outcome \in Outcomes,
         NEW at \in {"over", "abandoned"}, at = "over" => is = Waiting(c),
         modelCalls[c].at \in {"complete", "stream", "abandoned"},
         outcome = "ok" <=> modelCalls[c].got,
         Report(c, is, outcome, at), UNCHANGED clients
  PROVE  CallsInv'
<1> DEFINE call == modelCalls[c]
           told == ToldMore(call.reports, is, outcome)
           new == [call EXCEPT !.at = at, !.reports = told]
<1>1. call \in CallRecords /\ CallOf(call, Len(clients)) /\ modelCalls \in [Calls -> CallRecords]
  BY DEF CallsInv
<1>2. modelCalls' = [modelCalls EXCEPT ![c] = new]
  BY <1>1 DEF Report, CallRecords, ToldMore
<1>3. call.reports \in Seq(Seq(Outcomes)) /\ call.passed = Len(call.reports)
  BY <1>1 DEF CallOf
<1>4. /\ told \in Seq(Seq(Outcomes)) /\ Len(told) = Len(call.reports) /\ DOMAIN told = DOMAIN call.reports
      /\ \A i \in DOMAIN told :
           told[i] = IF i \in is THEN Append(call.reports[i], outcome) ELSE call.reports[i]
  BY <1>3, ToldMoreType
<1>5. DOMAIN told = 1..call.passed /\ call.passed \in Nat
  BY <1>3, <1>4, LenProperties
<1> HIDE DEF told
<1> HIDE DEF call
<1>6. new \in CallRecords
  <2>1. at \in CallPlaces
    BY DEF CallPlaces
  <2> QED
    BY <1>1, <1>4, <2>1 DEF CallRecords
<1>7. /\ new.at = at /\ new.reports = told /\ new.passed = call.passed /\ new.got = call.got
      /\ new.client = call.client
  BY <1>1 DEF CallRecords
<1>8. ASSUME NEW i \in DOMAIN told PROVE Told(new, i)
  <2>1. i \in 1..call.passed /\ i \in DOMAIN call.reports
    BY <1>4, <1>5, <1>8
  <2>2. CASE i \in is
    <3>1. call.reports[i] = <<>>
      BY <2>2 DEF Waiting, call
    <3>2. told[i] = <<outcome>> /\ Len(told[i]) = 1 /\ told[i][1] = outcome
      <4>1. told[i] = Append(<<>>, outcome)
        BY <1>4, <2>1, <2>2, <3>1
      <4> QED
        BY <4>1, OneTold
    <3> QED
      BY <1>7, <2>1, <3>2 DEF Told, call
  <2>3. CASE i \notin is
    <3>1. told[i] = call.reports[i] /\ Told(call, i)
      BY <1>1, <1>4, <2>1, <2>3 DEF CallOf
    <3>2. CASE at = "over"
      <4>1. call.reports[i] # <<>>
        BY <2>1, <2>3, <3>2 DEF Waiting, call
      <4>2. Len(told[i]) = 1 /\ (told[i][1] = "ok" <=> call.got)
        BY <2>1, <3>1, <4>1 DEF Told, call
      <4> QED
        BY <1>7, <2>1, <3>2, <4>2 DEF Told
    <3>3. CASE at = "abandoned"
      BY <1>7, <2>1, <3>1, <3>3 DEF Told, call
    <3> QED
      BY <3>2, <3>3
  <2> QED
    BY <2>2, <2>3
<1>9. CallOf(new, Len(clients))
  <2> HIDE DEF new
  <2>1. /\ call.client \in 0..Len(clients) /\ call.client # 0 /\ call.passed \in Nat /\ call.got \in BOOLEAN
    BY <1>1 DEF CallOf, call
  <2> QED
    BY <1>3, <1>4, <1>7, <1>8, <2>1 DEF CallOf
<1>10. Len(clients) \in Nat /\ Len(clients') = Len(clients)
  BY LenProperties DEF ClientType
<1> HIDE DEF new
<1>11. Len(clients') \in Nat /\ Len(clients') >= Len(clients) /\ CallOf(new, Len(clients'))
  BY <1>9, <1>10
<1> QED
  BY <1>2, <1>6, <1>10, <1>11, OneCall


LEMMA MetersType ==
  ASSUME ClientType, CallsInv, NEW c \in Calls, modelCalls[c].at # "idle"
  PROVE  Len(Meters(c)) \in Nat
<1>1. modelCalls[c].client \in 1..Len(clients)
  BY LenProperties DEF CallsInv, CallOf, ClientType
<1>2. clients[modelCalls[c].client] \in [made : Factories, state : {"open", "closed"}]
  BY <1>1, ElementOfSeq DEF ClientType
<1>3. Meters(c) \in Seq(Contexts)
  BY <1>2 DEF Meters, Factories
<1> QED
  BY <1>3, LenProperties

LEMMA BeginStep ==
  ASSUME ClientType, CallsInv, NEW c \in Calls, NEW how \in {"complete", "stream"}, Begin(c, how)
  PROVE  CallsInv'
<1> DEFINE call == modelCalls[c]
           n == Len(Meters(c))
<1>1. /\ call \in CallRecords /\ CallOf(call, Len(clients)) /\ modelCalls \in [Calls -> CallRecords]
      /\ call.at = "resolved" /\ UNCHANGED clients
  BY DEF CallsInv, Begin
<1>2. n \in Nat
  BY <1>1, MetersType
<1>3. PICK passed \in 0..n :
        modelCalls' = [modelCalls EXCEPT ![c] =
          [call EXCEPT !.passed = passed, !.at = IF passed = n THEN how ELSE "over",
             !.reports = [i \in 1..n |-> IF passed < n /\ i <= passed THEN <<"failed">> ELSE <<>>]]]
  BY DEF Begin
<1> DEFINE at == IF passed = n THEN how ELSE "over"
           told == [i \in 1..n |-> IF passed < n /\ i <= passed THEN <<"failed">> ELSE <<>>]
           new == [call EXCEPT !.passed = passed, !.at = at, !.reports = told]
<1> HIDE DEF n, call
<1>4. told \in Seq(Seq(Outcomes)) /\ Len(told) = n /\ DOMAIN told = 1..n
  <2>1. told \in [1..n -> Seq(Outcomes)]
    <3>1. <<"failed">> \in Seq(Outcomes) /\ <<>> \in Seq(Outcomes)
      BY DEF Outcomes
    <3> QED
      BY <3>1
  <2> HIDE DEF told
  <2> QED
    BY <1>2, <2>1, IsASeq, LenProperties
<1>5. \A i \in 1..n : told[i] = IF passed < n /\ i <= passed THEN <<"failed">> ELSE <<>>
  OBVIOUS
<1>6. modelCalls' = [modelCalls EXCEPT ![c] = new]
  BY <1>3
<1> HIDE DEF told
<1>7. at \in CallPlaces /\ passed \in Nat
  BY <1>2 DEF CallPlaces
<1>8. at \in {"complete", "stream", "over"} /\ (at # "over" => passed = n) /\ (at = "over" => passed < n)
  BY <1>2
<1> HIDE DEF at
<1>9. /\ new \in CallRecords /\ new.at = at /\ new.reports = told /\ new.passed = passed
      /\ new.got = call.got /\ new.client = call.client
  BY <1>1, <1>4, <1>7 DEF CallRecords
<1>10. ~call.got
  BY <1>1 DEF CallOf
<1> HIDE DEF new
<1>11. ASSUME NEW i \in DOMAIN new.reports PROVE Told(new, i)
  <2>1. i \in 1..n
    BY <1>4, <1>9
  <2>2. CASE at = "over" /\ i <= passed
    <3>1. told[i] = <<"failed">>
      BY <1>5, <1>8, <2>1, <2>2
    <3>2. Len(told[i]) = 1 /\ told[i][1] # "ok"
      BY <3>1
    <3> QED
      BY <1>9, <1>10, <2>2, <3>2 DEF Told
  <2>3. CASE ~(at = "over" /\ i <= passed)
    <3>1. told[i] = <<>>
      BY <1>5, <1>7, <1>8, <2>1, <2>3
    <3> QED
      BY <1>8, <1>9, <2>3, <3>1 DEF Told
  <2> QED
    BY <2>2, <2>3
<1>12. call.client \in 0..Len(clients) /\ call.client # 0 /\ call.got \in BOOLEAN
  BY <1>1 DEF CallOf
<1>13. CallOf(new, Len(clients))
  BY <1>4, <1>7, <1>8, <1>9, <1>10, <1>11, <1>12 DEF CallOf
<1>14. Len(clients) \in Nat /\ Len(clients') = Len(clients)
  BY <1>1, LenProperties DEF ClientType
<1>15. Len(clients') \in Nat /\ Len(clients') >= Len(clients) /\ CallOf(new, Len(clients'))
  BY <1>13, <1>14
<1> QED
  BY <1>6, <1>9, <1>14, <1>15, OneCall

LEMMA CompleteStep ==
  ASSUME ClientType, CallsInv, NEW c \in Calls, Complete(c)
  PROVE  CallsInv'
<1> DEFINE call == modelCalls[c]
           told == ToldMore(call.reports, DOMAIN call.reports, "ok")
           new == [call EXCEPT !.at = "over", !.got = TRUE, !.reports = told]
<1>1. /\ call \in CallRecords /\ CallOf(call, Len(clients)) /\ modelCalls \in [Calls -> CallRecords]
      /\ call.at = "complete" /\ UNCHANGED clients
  BY DEF CallsInv, Complete
<1>2. modelCalls' = [modelCalls EXCEPT ![c] = new]
  <2>1. told = [i \in DOMAIN call.reports |-> Append(call.reports[i], "ok")]
    BY DEF ToldMore
  <2> HIDE DEF told
  <2>2. modelCalls' = [modelCalls EXCEPT ![c] =
           [call EXCEPT !.at = "over", !.got = TRUE,
                        !.reports = [i \in DOMAIN call.reports |-> Append(call.reports[i], "ok")]]]
    BY <1>1 DEF Complete, CallRecords
  <2> QED
    BY <2>1, <2>2
<1> HIDE DEF call
<1>3. call.reports \in Seq(Seq(Outcomes)) /\ call.passed = Len(call.reports)
  BY <1>1 DEF CallOf
<1>4. /\ told \in Seq(Seq(Outcomes)) /\ Len(told) = Len(call.reports) /\ DOMAIN told = DOMAIN call.reports
      /\ \A i \in DOMAIN call.reports : told[i] = Append(call.reports[i], "ok")
  <2>1. "ok" \in Outcomes
    BY DEF Outcomes
  <2> DEFINE all == DOMAIN call.reports
  <2> HIDE DEF all
  <2>2. /\ ToldMore(call.reports, all, "ok") \in Seq(Seq(Outcomes))
        /\ Len(ToldMore(call.reports, all, "ok")) = Len(call.reports)
        /\ DOMAIN ToldMore(call.reports, all, "ok") = DOMAIN call.reports
        /\ \A i \in DOMAIN call.reports :
             ToldMore(call.reports, all, "ok")[i] =
               IF i \in all THEN Append(call.reports[i], "ok") ELSE call.reports[i]
    BY <1>3, <2>1, ToldMoreType
  <2> QED
    BY <2>2 DEF all
<1> HIDE DEF told
<1>5. /\ new \in CallRecords /\ new.at = "over" /\ new.reports = told /\ new.passed = call.passed
      /\ new.got = TRUE /\ new.client = call.client
  <2>1. "over" \in CallPlaces
    BY DEF CallPlaces
  <2> QED
    BY <1>1, <1>4, <2>1 DEF CallRecords
<1> HIDE DEF new
<1>6. ASSUME NEW i \in DOMAIN new.reports PROVE Told(new, i)
  <2>1. i \in DOMAIN call.reports /\ i <= call.passed
    BY <1>3, <1>4, <1>5, LenProperties
  <2>2. call.reports[i] = <<>>
    BY <1>1, <2>1 DEF CallOf, Told
  <2>3. told[i] = <<"ok">>
    BY <1>4, <2>1, <2>2, OneTold
  <2>4. Len(told[i]) = 1 /\ told[i][1] = "ok"
    BY <2>3
  <2> QED
    BY <1>5, <2>1, <2>4 DEF Told
<1>7. call.client \in 0..Len(clients) /\ call.client # 0 /\ call.passed \in Nat
  BY <1>1 DEF CallOf
<1>8. CallOf(new, Len(clients))
  BY <1>4, <1>5, <1>6, <1>7 DEF CallOf
<1>9. Len(clients) \in Nat /\ Len(clients') = Len(clients)
  BY <1>1, LenProperties DEF ClientType
<1>10. Len(clients') \in Nat /\ Len(clients') >= Len(clients) /\ CallOf(new, Len(clients'))
  BY <1>8, <1>9
<1> QED
  BY <1>2, <1>5, <1>9, <1>10, OneCall


LEMMA RespondStep ==
  ASSUME ClientType, CallsInv, NEW c \in Calls,
         Respond(c) \/ Abandon(c) \/ (Finalize(c) /\ Waiting(c) = {})
  PROVE  CallsInv'
<1> DEFINE call == modelCalls[c]
<1>1. /\ call \in CallRecords /\ CallOf(call, Len(clients)) /\ modelCalls \in [Calls -> CallRecords]
      /\ UNCHANGED clients
  BY DEF CallsInv, Respond, Abandon, Finalize
<1>2. Len(clients) \in Nat /\ Len(clients') = Len(clients)
  BY <1>1, LenProperties DEF ClientType
<1>3. call.passed = Len(call.reports) /\ DOMAIN call.reports = 1..call.passed /\ call.client # 0
  <2>1. call.at \in {"stream", "abandoned"}
    BY DEF Respond, Abandon, Finalize
  <2> QED
    BY <1>1, <2>1, LenProperties DEF CallOf
<1> HIDE DEF call
<1>4. ASSUME NEW at \in {"stream", "abandoned", "over"}, NEW got \in BOOLEAN,
             modelCalls' = [modelCalls EXCEPT ![c] = [call EXCEPT !.at = at, !.got = got]],
             \A i \in 1..call.passed :
               /\ at = "stream" => call.reports[i] = <<>>
               /\ at = "abandoned" => \/ call.reports[i] = <<>>
                                      \/ Len(call.reports[i]) = 1 /\ (call.reports[i][1] = "ok" <=> got)
               /\ at = "over" => Len(call.reports[i]) = 1 /\ (call.reports[i][1] = "ok" <=> got)
      PROVE  CallsInv'
  <2> DEFINE new == [call EXCEPT !.at = at, !.got = got]
  <2>1. /\ new \in CallRecords /\ new.at = at /\ new.got = got /\ new.reports = call.reports
        /\ new.passed = call.passed /\ new.client = call.client
    BY <1>1 DEF CallRecords, CallPlaces
  <2> HIDE DEF new
  <2>2. ASSUME NEW i \in DOMAIN new.reports PROVE Told(new, i)
    BY <1>3, <1>4, <2>1, <2>2 DEF Told
  <2>3. call.client # 0
    BY <1>3
  <2>4. CallOf(new, Len(clients))
    BY <1>1, <1>3, <2>1, <2>2, <2>3 DEF CallOf
  <2>5. Len(clients') \in Nat /\ Len(clients') >= Len(clients) /\ CallOf(new, Len(clients'))
    BY <1>2, <2>4
  <2>6. modelCalls' = [modelCalls EXCEPT ![c] = new]
    BY <1>4 DEF new
  <2> QED
    BY <1>2, <2>1, <2>5, <2>6, OneCall
<1>5. CASE Respond(c)
  <2>1. call.at = "stream" /\ modelCalls' = [modelCalls EXCEPT ![c].got = TRUE]
    BY <1>5 DEF Respond, call
  <2>2. modelCalls' = [modelCalls EXCEPT ![c] = [call EXCEPT !.at = "stream", !.got = TRUE]]
    <3>1. [call EXCEPT !.at = "stream", !.got = TRUE] = [call EXCEPT !.got = TRUE]
      BY <1>1, <2>1 DEF CallRecords
    <3> QED
      BY <2>1, <3>1 DEF call
  <2>3. \A i \in 1..call.passed : call.reports[i] = <<>>
    BY <1>1, <1>3, <2>1 DEF CallOf, Told
  <2> QED
    BY <1>4, <2>2, <2>3
<1>6. CASE Abandon(c)
  <2>1. call.at = "stream" /\ modelCalls' = [modelCalls EXCEPT ![c].at = "abandoned"]
    BY <1>6 DEF Abandon, call
  <2>2. modelCalls' = [modelCalls EXCEPT ![c] = [call EXCEPT !.at = "abandoned", !.got = call.got]] /\ call.got \in BOOLEAN
    <3>1. [call EXCEPT !.at = "abandoned", !.got = call.got] = [call EXCEPT !.at = "abandoned"]
          /\ call.got \in BOOLEAN
      BY <1>1, <2>1 DEF CallRecords
    <3> QED
      BY <2>1, <3>1 DEF call
  <2>3. \A i \in 1..call.passed : call.reports[i] = <<>>
    BY <1>1, <1>3, <2>1 DEF CallOf, Told
  <2> QED
    BY <1>4, <2>2, <2>3
<1>7. CASE Finalize(c) /\ Waiting(c) = {}
  <2>1. call.at = "abandoned" /\ modelCalls' = [modelCalls EXCEPT ![c].at = "over"]
    BY <1>7 DEF Finalize, call
  <2>2. modelCalls' = [modelCalls EXCEPT ![c] = [call EXCEPT !.at = "over", !.got = call.got]] /\ call.got \in BOOLEAN
    <3>1. [call EXCEPT !.at = "over", !.got = call.got] = [call EXCEPT !.at = "over"]
          /\ call.got \in BOOLEAN
      BY <1>1, <2>1 DEF CallRecords
    <3> QED
      BY <2>1, <3>1 DEF call
  <2>3. ASSUME NEW i \in 1..call.passed
        PROVE  Len(call.reports[i]) = 1 /\ (call.reports[i][1] = "ok" <=> call.got)
    <3>1. call.reports[i] # <<>>
      BY <1>7 DEF Waiting, call
    <3> QED
      BY <1>1, <1>3, <2>1, <3>1 DEF CallOf, Told
  <2> QED
    BY <1>4, <2>2, <2>3
<1> QED
  BY <1>5, <1>6, <1>7

LEMMA CallsInit == ClientsInit => CallsInv
<1> SUFFICES ASSUME ClientsInit PROVE CallsInv
  OBVIOUS
<1>1. <<>> \in Seq(Seq(Outcomes)) /\ Len(<<>>) = 0 /\ DOMAIN <<>> = {}
  OBVIOUS
<1>2. NoCall \in CallRecords /\ CallOf(NoCall, Len(clients))
  BY <1>1 DEF ClientsInit, NoCall, CallRecords, CallPlaces, CallOf
<1> QED
  BY <1>2 DEF ClientsInit, CallsInv

LEMMA CallsStep == ClientInv /\ CallsInv /\ [ClientsNext]_clientsVars => CallsInv'
<1> SUFFICES ASSUME ClientInv, CallsInv, [ClientsNext]_clientsVars PROVE CallsInv'
  OBVIOUS
<1>0. ClientType /\ Len(clients) \in Nat
  BY LenProperties DEF ClientInv, ClientType
<1>1. ASSUME UNCHANGED modelCalls, Len(clients') = Len(clients) PROVE CallsInv'
  BY <1>1 DEF CallsInv
<1>2. ASSUME NEW c \in Contexts, Leave(c) \/ \E kind \in {"metered", "use_model"} : Enter(c, kind)
      PROVE  CallsInv'
  BY <1>1, <1>2 DEF Leave, Enter
<1>3. ASSUME NEW l \in Loops, Shutdown(l) PROVE CallsInv'
  <2>1. UNCHANGED modelCalls
    BY <1>3 DEF Shutdown
  <2> QED
    BY <1>1, <1>3, <2>1, ShutdownStep
<1>4. ASSUME NEW c \in Calls, NEW l \in Loops, Resolve(c, l) PROVE CallsInv'
  <2> DEFINE i == IF cache[l] # 0 THEN cache[l] ELSE Len(clients) + 1
             new == [modelCalls[c] EXCEPT !.at = "resolved", !.client = i]
  <2>1. /\ modelCalls[c] \in CallRecords /\ CallOf(modelCalls[c], Len(clients)) /\ modelCalls \in [Calls -> CallRecords]
        /\ modelCalls[c].at = "idle"
    BY <1>4 DEF CallsInv, Resolve
  <2>2. /\ modelCalls' = [modelCalls EXCEPT ![c].at = "resolved", ![c].client = i]
        /\ IF cache[l] # 0 THEN clients' = clients
           ELSE clients' = Append(clients, [made |-> factory, state |-> "open"])
    BY <1>4 DEF Resolve
  <2>3. cache[l] \in 0..Len(clients)
    BY DEF ClientInv, CacheInv
  <2>4. i \in 1..Len(clients') /\ Len(clients') \in Nat /\ Len(clients') >= Len(clients)
    <3>1. CASE cache[l] # 0
      BY <1>0, <2>2, <2>3, <3>1
    <3>2. CASE cache[l] = 0
      <4>1. Len(clients') = Len(clients) + 1
        <5>1. [made |-> factory, state |-> "open"] \in [made : Factories, state : {"open", "closed"}]
          BY <1>0 DEF ClientType
        <5> QED
          BY <1>0, <2>2, <3>2, <5>1, AppendProperties DEF ClientType
      <4> QED
        BY <1>0, <3>2, <4>1
    <3> QED
      BY <3>1, <3>2
  <2> HIDE DEF i
  <2>5. modelCalls' = [modelCalls EXCEPT ![c] = new]
    BY <2>1, <2>2 DEF CallRecords
  <2>6. /\ new \in CallRecords /\ new.at = "resolved" /\ new.client = i /\ new.got = modelCalls[c].got
        /\ new.reports = modelCalls[c].reports /\ new.passed = modelCalls[c].passed
    <3>1. i \in Nat /\ "resolved" \in CallPlaces
      BY <2>4 DEF CallPlaces
    <3> QED
      BY <2>1, <3>1 DEF CallRecords
  <2> HIDE DEF new
  <2>7. ~modelCalls[c].got /\ modelCalls[c].reports = <<>> /\ DOMAIN <<>> = {} /\ modelCalls[c].passed \in Nat
    BY <2>1 DEF CallOf
  <2>8. CallOf(new, Len(clients'))
    BY <2>1, <2>4, <2>6, <2>7 DEF CallOf
  <2> QED
    BY <1>0, <2>4, <2>5, <2>6, <2>8, OneCall
<1>5. ASSUME NEW c \in Calls, EndModelCall(c) PROVE CallsInv'
  <2>1. PICK error \in {"no response", "failed", "cancelled"} :
          Report(c, Waiting(c), Outcome(c, error), "over")
    BY <1>5 DEF EndModelCall
  <2>2. modelCalls[c].at \in {"complete", "stream", "abandoned"} /\ UNCHANGED clients
    BY <1>5 DEF EndModelCall
  <2>3. Outcome(c, error) \in Outcomes /\ (Outcome(c, error) = "ok" <=> modelCalls[c].got)
    BY DEF Outcome, Outcomes, CallsInv, CallOf
  <2> QED
    BY <1>0, <2>1, <2>2, <2>3, ReportStep
<1>6. ASSUME NEW c \in Calls, Finalize(c) PROVE CallsInv'
  <2>1. CASE Waiting(c) = {}
    BY <1>0, <1>6, <2>1, RespondStep
  <2>2. CASE Waiting(c) # {}
    <3> DEFINE first == CHOOSE i \in Waiting(c) : \A j \in Waiting(c) : i <= j
    <3>1. first \in Waiting(c)
      <4>1. Waiting(c) \subseteq Nat
        BY DEF Waiting, CallsInv, CallOf
      <4>2. \E i \in Waiting(c) : \A j \in Waiting(c) : i <= j
        BY <2>2, <4>1, NatMin
      <4> QED
        BY <4>2
    <3>2. Report(c, {first}, Outcome(c, "cancelled"), "abandoned") /\ UNCHANGED clients
          /\ modelCalls[c].at \in {"complete", "stream", "abandoned"}
      BY <1>6, <2>2 DEF Finalize
    <3> HIDE DEF first
    <3>3. Outcome(c, "cancelled") \in Outcomes /\ (Outcome(c, "cancelled") = "ok" <=> modelCalls[c].got)
      BY DEF Outcome, Outcomes, CallsInv, CallOf
    <3>4. {first} \in SUBSET Waiting(c) /\ "abandoned" # "over"
      BY <3>1
    <3> QED
      BY <1>0, <3>2, <3>3, <3>4, ReportStep
  <2> QED
    BY <2>1, <2>2
<1>7. ASSUME NEW c \in Calls, NEW how \in {"complete", "stream"}, Begin(c, how) PROVE CallsInv'
  BY <1>0, <1>7, BeginStep
<1>8. ASSUME NEW c \in Calls, Complete(c) PROVE CallsInv'
  BY <1>0, <1>8, CompleteStep
<1>9. ASSUME NEW c \in Calls, Respond(c) \/ Abandon(c) PROVE CallsInv'
  BY <1>0, <1>9, RespondStep
<1>10. CASE UNCHANGED clientsVars
  BY <1>1, <1>10 DEF clientsVars
<1> QED
  BY <1>2, <1>3, <1>4, <1>5, <1>6, <1>7, <1>8, <1>9, <1>10 DEF ClientsNext

\* However a call ends, each observer that let it through is told once, that it
\* succeeded just when its response came; one that refused it is told nothing,
\* for any number of observers, blocks and calls (models/observed.py).
THEOREM CallsAccountedAlways == ClientsSpec => []CallsAccounted
<1>1. CallsInv => CallsAccounted
  <2> SUFFICES ASSUME CallsInv, NEW c \in Calls, NEW i \in DOMAIN modelCalls[c].reports
               PROVE  LET told == modelCalls[c].reports[i] IN
                      /\ Len(told) = 1 => (told[1] = "ok" <=> modelCalls[c].got)
                      /\ modelCalls[c].at = "over" => Len(told) = IF i <= modelCalls[c].passed THEN 1 ELSE 0
                      /\ Len(told) <= 1
    BY DEF CallsAccounted
  <2>1. CallOf(modelCalls[c], Len(clients)) /\ Len(<<>>) = 0
    BY DEF CallsInv
  <2>2. Told(modelCalls[c], i) /\ modelCalls[c].at \in CallPlaces \ {"idle", "resolved"}
    BY <2>1 DEF CallOf, CallsInv, CallRecords
  <2> DEFINE told == modelCalls[c].reports[i]
  <2>3. CASE modelCalls[c].at \in {"complete", "stream"}
    <3>1. told = <<>>
      BY <2>2, <2>3 DEF Told
    <3> QED
      BY <2>1, <2>3, <3>1
  <2>4. CASE modelCalls[c].at \in {"abandoned", "over"}
    <3>1. \/ told = <<>> /\ (modelCalls[c].at = "over" => ~(i <= modelCalls[c].passed))
          \/ /\ Len(told) = 1 /\ (told[1] = "ok" <=> modelCalls[c].got)
             /\ i <= modelCalls[c].passed
      BY <2>2, <2>4 DEF Told
    <3> HIDE DEF told
    <3>2. CASE told = <<>>
      BY <2>1, <3>1, <3>2 DEF told
    <3>3. CASE told # <<>>
      <4>1. /\ Len(told) = 1 /\ (told[1] = "ok" <=> modelCalls[c].got) /\ i <= modelCalls[c].passed
        BY <3>1, <3>3
      <4>2. Len(told) <= 1 /\ (Len(told) = IF i <= modelCalls[c].passed THEN 1 ELSE 0)
        BY <4>1
      <4> QED
        BY <4>1, <4>2 DEF told
    <3> QED
      BY <3>2, <3>3
  <2> QED
    BY <2>2, <2>3, <2>4 DEF CallPlaces
<1> QED
  BY <1>1, ClientInit, ClientStep, CallsInit, CallsStep, PTL DEF ClientsSpec

=============================================================================
