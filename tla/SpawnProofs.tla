----------------------------- MODULE SpawnProofs -----------------------------
(***************************************************************************)
(* Proofs that the limits on clones and delegates hold, and that a cancel  *)
(* reaches every clone, for every value of Spawn's constants.              *)
(***************************************************************************)
EXTENDS Spawn, Sums

-----------------------------------------------------------------------------
(* The inductive invariants *)

Started == {"running", "ok", "error"}

CallRec ==
  [what : {"spawn", "delegate"}, parts : Nat, task : {<<>>} \union (Roster \X Tasks),
   pass : Nat, state : {"asked", "refused"} \union Started]

TypeInv ==
  /\ phase \in [Runs -> {"none", "start", "boundary", "model", "tools", "over"}]
  /\ outcome \in [Runs -> {"none", "done", "partial", "failed", "stopped", "raised", "lost"}]
  /\ home \in [Runs -> [run : Runs, call : Nat]]
  /\ depth \in [Runs -> Nat] /\ count \in [Runs -> Nat] /\ passes \in [Runs -> Nat]
  /\ calls \in [Runs -> Seq(CallRec)]

Born == {x \in Runs : phase[x] # "none"}

\* A child's spawner was there before it, and the call it came from was let
\* start; only a clone waits to start or dies of a hook.
BirthInv ==
  /\ \E n \in 1..(MaxChildren + 1) : Born = 0..(n - 1)
  /\ home[Root] = None
  /\ \A x \in Runs : x \notin Born => home[x] = None /\ calls[x] = <<>>
  /\ \A x \in Runs : IsChild(x) =>
       /\ x \in Born /\ home[x].run \in Born
       /\ home[x].call \in DOMAIN calls[home[x].run] /\ CallOf(x).state \in Started
  /\ \A x \in Runs : IsAgent(x) => calls[x] = <<>>
  /\ \A x \in Runs : phase[x] = "start" \/ outcome[x] = "raised" => IsClone(x)

Clones(r) == {x \in Runs : IsClone(x) /\ home[x].run = r}

\* The count in a run's state covers its clones, and keeps the cap.
CountInv == \A r \in Runs : Cardinality(Clones(r)) <= count[r] /\ count[r] <= MaxPerRun

\* A delegate's call makes one run, no two of a run's hand out the same task,
\* and the tasks handed to one delegate keep its budget.
DelegateInv ==
  \A r \in Runs :
    /\ \A i \in DOMAIN calls[r] : calls[r][i].what = "delegate" =>
         /\ calls[r][i].parts = 1 /\ calls[r][i].state # "error"
         /\ calls[r][i].task \in Roster \X Tasks
    /\ \A i, j \in Calls(r, "delegate", {"running", "ok"}) :
         calls[r][i].task = calls[r][j].task => i = j
    /\ IsFiniteSet(Given(r))
    /\ \A d \in Roster :
         Cardinality({given \in Given(r) : given[1] = d}) <= MaxCallsPerDelegate
    /\ \A x \in Runs : IsAgent(r) /\ home[x] = home[r] => x = r

\* The clones among a run's spawners, itself included, are as many as its depth.
Level(x) == IF IsAgent(x) THEN depth[home[x].run] ELSE depth[x]

DepthInv ==
  \A x \in Runs :
    /\ depth[x] <= MaxDepth
    /\ Cardinality({y \in Lineage(x) : IsClone(y)}) = Level(x)

Inv == TypeInv /\ BirthInv /\ CountInv /\ DelegateInv /\ DepthInv

-----------------------------------------------------------------------------
(* What a step can do *)

\* No call is asked for or answered, and no run is born.
Quiet ==
  /\ phase' \in [Runs -> {"none", "start", "boundary", "model", "tools", "over"}]
  /\ outcome' \in [Runs -> {"none", "done", "partial", "failed", "stopped", "raised", "lost"}]
  /\ passes' \in [Runs -> Nat]
  /\ UNCHANGED bornVars
  /\ Born' = Born
  /\ \A x \in Runs : phase'[x] = "start" \/ outcome'[x] = "raised" =>
       phase[x] = "start" \/ outcome[x] = "raised"

\* A model asks for calls.
Asking(r) ==
  /\ Quiet /\ r \in Born /\ ~IsAgent(r)
  /\ \E more \in Seq(CallRec) :
       /\ calls' = [calls EXCEPT ![r] = @ \o more]
       /\ \A i \in DOMAIN more :
            /\ more[i].state = "asked"
            /\ more[i].what = "delegate" => more[i].parts = 1 /\ more[i].task \in Roster \X Tasks

\* A call is refused, or answered, or counted and answered.
Marking(r, i) ==
  /\ UNCHANGED <<phase, outcome, passes, home, depth>>
  /\ \E st \in {"asked", "refused"} \union Started :
       /\ calls' = [calls EXCEPT ![r][i].state = st]
       /\ \/ st = "refused" /\ calls[r][i].state = "asked" /\ count' = count
          \/ /\ calls[r][i].state = "asked" /\ st = "error" /\ calls[r][i].what = "spawn"
             /\ count[r] + calls[r][i].parts <= MaxPerRun
             /\ Counted(r, calls[r][i])
          \/ /\ calls[r][i].state = "running" /\ st \in {"ok", "error"} /\ count' = count
             /\ st = "error" => calls[r][i].what = "spawn"

LEMMA QuietEnds ==
  ASSUME TypeInv, NEW r \in Runs, phase[r] # "none", NEW how,
         how \in {"done", "partial", "failed", "stopped", "lost"},
         phase' = [phase EXCEPT ![r] = "over"], outcome' = [outcome EXCEPT ![r] = how],
         passes' \in [Runs -> Nat], UNCHANGED bornVars
  PROVE  Quiet
BY DEF TypeInv, Quiet, Born

LEMMA QuietMoves ==
  ASSUME TypeInv, NEW r \in Runs, phase[r] # "none", NEW to,
         to \in {"boundary", "model", "tools", "over"},
         phase' = [phase EXCEPT ![r] = to],
         \/ outcome' = outcome
         \/ phase[r] = "start" /\ outcome' = [outcome EXCEPT ![r] = "raised"],
         passes' \in [Runs -> Nat], UNCHANGED bornVars
  PROVE  Quiet
BY DEF TypeInv, Quiet, Born

LEMMA AskedCalls ==
  ASSUME TypeInv, NEW r \in Runs, NEW asks \in Responses(r)
  PROVE  \E n \in Nat : asks \in [1..n -> Asks] /\ (IsAgent(r) => asks = <<>>)
<1>1. PICK n \in 0..(IF IsAgent(r) THEN 0 ELSE MaxCalls) : asks \in [1..n -> Asks]
  BY DEF Responses
<1>2. n \in Nat /\ (IsAgent(r) => n = 0)
  BY <1>1, Limits
<1>3. CASE IsAgent(r)
  <2>1. asks = <<>>
    BY <1>1, <1>2, <1>3
  <2> QED
    BY <1>1, <1>2, <2>1
<1> QED
  BY <1>1, <1>2, <1>3

LEMMA AskingStep ==
  ASSUME TypeInv, NEW r \in Runs, phase[r] = "model", NEW asks \in Responses(r),
         ModelAnswers(r, asks)
  PROVE  (Quiet /\ UNCHANGED calls) \/ Asking(r)
<1>1. passes' \in [Runs -> Nat] /\ UNCHANGED bornVars /\ passes'[r] \in Nat
  BY DEF ModelAnswers, TypeInv
<1>2. CASE \E how \in {"partial", "done", "stopped"} : EndRun(r, how) /\ UNCHANGED calls
  <2>1. PICK how \in {"partial", "done", "stopped"} : EndRun(r, how) /\ UNCHANGED calls
    BY <1>2
  <2> QED
    BY <1>1, <2>1, QuietEnds DEF EndRun
<1> DEFINE more == [i \in DOMAIN asks |->
             [what |-> asks[i].what, parts |-> asks[i].parts, task |-> asks[i].task,
              pass |-> passes'[r], state |-> "asked"]]
<1>3. CASE /\ asks # <<>>
           /\ phase' = [phase EXCEPT ![r] = "tools"] /\ UNCHANGED outcome
           /\ calls' = [calls EXCEPT ![r] = @ \o more]
  <2>1. PICK n \in Nat : asks \in [1..n -> Asks] /\ (IsAgent(r) => asks = <<>>)
    BY AskedCalls
  <2>2. \A a \in Asks : /\ a.what \in {"spawn", "delegate"} /\ a.parts \in Nat
                        /\ a.task \in {<<>>} \union (Roster \X Tasks)
                        /\ a.what = "delegate" => a.parts = 1 /\ a.task \in Roster \X Tasks
    BY Limits DEF Asks
  <2>3. DOMAIN asks = 1..n /\ \A i \in 1..n : asks[i] \in Asks
    BY <2>1
  <2>4. \A i \in 1..n : more[i] \in CallRec /\ more[i].state = "asked"
          /\ more[i].what = asks[i].what /\ more[i].parts = asks[i].parts /\ more[i].task = asks[i].task
    BY <1>1, <2>2, <2>3 DEF CallRec
  <2>5. DOMAIN more = 1..n
    BY <2>3
  <2> HIDE DEF more
  <2>6. more \in Seq(CallRec)
    <3>1. more \in [1..n -> CallRec]
      <4>1. more = [i \in 1..n |-> more[i]]
        BY <2>5 DEF more
      <4> QED
        BY <2>4, <4>1
    <3> QED
      BY <2>1, <3>1
  <2>7. Quiet
    BY <1>1, <1>3, QuietMoves
  <2>8. r \in Born /\ ~IsAgent(r)
    BY <1>3, <2>1 DEF Born
  <2>9. \A i \in DOMAIN more :
          /\ more[i].state = "asked"
          /\ more[i].what = "delegate" => more[i].parts = 1 /\ more[i].task \in Roster \X Tasks
    BY <2>2, <2>3, <2>4, <2>5
  <2> QED
    BY <1>3, <2>6, <2>7, <2>8, <2>9 DEF Asking
<1> QED
  BY <1>2, <1>3 DEF ModelAnswers

\* Every other step but the start of a call's children.
LEMMA StepCases ==
  ASSUME TypeInv, BirthInv, [Next]_vars
  PROVE  \/ Quiet /\ UNCHANGED calls
         \/ \E r \in Runs : Asking(r)
         \/ \E r \in Runs : \E i \in DOMAIN calls[r] : Marking(r, i) \/ BeginCall(r, i)
<1> DEFINE Goal == \/ Quiet /\ UNCHANGED calls
                   \/ \E r \in Runs : Asking(r)
                   \/ \E r \in Runs : \E i \in DOMAIN calls[r] : Marking(r, i) \/ BeginCall(r, i)
<1> SUFFICES Goal
  OBVIOUS
<1>1. Root \in Runs /\ phase[Root] # "none"
  BY Limits DEF BirthInv, Born, Root, Runs
<1>2. CASE UNCHANGED vars \/ \E r \in Runs : Cancel(r)
  BY <1>2 DEF vars, bornVars, loopVars, Cancel, Quiet, TypeInv, Born
<1>3. CASE Close
  <2>1. Quiet
    BY <1>1, <1>3, QuietEnds DEF Close, loopVars, TypeInv
  <2> QED
    BY <1>3, <2>1 DEF Close
<1>4. ASSUME NEW r \in Runs, RunStep(r) PROVE Goal
  <2>1. CASE Abandon(r)
    <3>1. phase[r] # "none"
      BY <2>1 DEF Abandon, Doomed, BirthInv, Born
    <3>2. Quiet
      BY <2>1, <3>1, QuietEnds DEF Abandon, loopVars, TypeInv
    <3> QED
      BY <2>1, <3>2 DEF Abandon
  <2>2. CASE StopAtBoundary(r)
    <3>1. Quiet
      BY <2>2, QuietEnds DEF StopAtBoundary, EndRun, loopVars, TypeInv
    <3> QED
      BY <2>2, <3>1 DEF StopAtBoundary
  <2>3. CASE Fail(r)
    <3>1. Quiet
      BY <2>3, QuietEnds DEF Fail, EndRun, loopVars, TypeInv
    <3> QED
      BY <2>3, <3>1 DEF Fail
  <2>4. CASE BeginPass(r)
    <3>1. Quiet
      BY <2>4, QuietMoves DEF BeginPass, TypeInv
    <3> QED
      BY <2>4, <3>1 DEF BeginPass
  <2>5. CASE phase[r] = "model" /\ \E asks \in Responses(r) : ModelAnswers(r, asks)
    BY <2>5, AskingStep
  <2>6. CASE CallStep(r)
    <3> SUFFICES ASSUME NEW i \in DOMAIN calls[r],
                        RefuseCall(r, i) \/ PromptRaises(r, i) \/ BeginCall(r, i) \/ ReturnCall(r, i)
                 PROVE  Goal
      BY <2>6 DEF CallStep
    <3>1. CASE RefuseCall(r, i)
      <4>1. Marking(r, i)
        BY <3>1 DEF RefuseCall, Marking, bornVars, loopVars
      <4> QED
        BY <4>1
    <3>2. CASE PromptRaises(r, i)
      <4>1. calls[r][i] \in CallRec /\ count[r] \in Nat
        BY DEF TypeInv
      <4>2. calls[r][i].parts \in Nat /\ MaxPerRun \in Nat
        BY <4>1, Limits DEF CallRec
      <4>3. count[r] + calls[r][i].parts <= MaxPerRun
        BY <3>2, <4>1, <4>2 DEF PromptRaises, CallRefused, SpawnRefused
      <4>4. Marking(r, i)
        BY <3>2, <4>3 DEF PromptRaises, Marking, loopVars, Started
      <4> QED
        BY <4>4
    <3>3. CASE ReturnCall(r, i)
      <4>1. (\E x \in Children(r, i) : outcome[x] = "raised") => calls[r][i].what = "spawn"
        BY DEF Children, BirthInv, IsClone, CallOf
      <4>2. CASE calls' = [calls EXCEPT ![r][i].state = "ok"]
        <5>1. /\ calls[r][i].state = "running" /\ count' = count
              /\ UNCHANGED <<phase, outcome, passes, home, depth>>
          BY <3>3 DEF ReturnCall, bornVars, loopVars
        <5>2. "ok" \in {"asked", "refused"} \union Started /\ "ok" # "error"
          BY DEF Started
        <5>3. Marking(r, i)
          BY <4>2, <5>1, <5>2, Zenon DEF Marking
        <5> QED
          BY <5>3
      <4>3. CASE /\ \E x \in Children(r, i) : outcome[x] = "raised"
                 /\ calls' = [calls EXCEPT ![r][i].state = "error"]
        BY <3>3, <4>1, <4>3 DEF ReturnCall, Marking, bornVars, loopVars, Started
      <4> QED
        BY <3>3, <4>2, <4>3 DEF ReturnCall
    <3> QED
      BY <3>1, <3>2, <3>3
  <2>7. CASE EndBatch(r)
    <3>1. Quiet
      BY <2>7, QuietMoves DEF EndBatch, TypeInv
    <3> QED
      BY <2>7, <3>1 DEF EndBatch
  <2>8. CASE BeginClone(r)
    <3>1. Quiet
      BY <2>8, QuietMoves DEF BeginClone, loopVars, TypeInv
    <3> QED
      BY <2>8, <3>1 DEF BeginClone
  <2>9. CASE HookRaises(r)
    <3>1. Quiet
      BY <2>9, QuietMoves DEF HookRaises, loopVars, TypeInv
    <3> QED
      BY <2>9, <3>1 DEF HookRaises
  <2> QED
    BY <1>4, <2>1, <2>2, <2>3, <2>4, <2>5, <2>6, <2>7, <2>8, <2>9 DEF RunStep, LoopStep
<1> QED
  BY <1>2, <1>3, <1>4 DEF Next

-----------------------------------------------------------------------------
(* Calls keep what they are *)

Kept ==
  /\ calls' \in [Runs -> Seq(CallRec)]
  /\ \A r \in Runs :
       /\ DOMAIN calls[r] \subseteq DOMAIN calls'[r]
       /\ \A i \in DOMAIN calls[r] : /\ calls'[r][i].what = calls[r][i].what
                                     /\ calls'[r][i].task = calls[r][i].task
                                     /\ calls[r][i].state \in Started => calls'[r][i].state \in Started
       /\ r \notin Born \/ IsAgent(r) => calls'[r] = calls[r]

LEMMA Marked ==
  ASSUME TypeInv, NEW r \in Runs, NEW i \in DOMAIN calls[r],
         NEW st \in {"asked", "refused"} \union Started, calls' = [calls EXCEPT ![r][i].state = st]
  PROVE  /\ calls' \in [Runs -> Seq(CallRec)]
         /\ \A q \in Runs :
              /\ q # r => calls'[q] = calls[q]
              /\ DOMAIN calls'[q] = DOMAIN calls[q]
              /\ \A j \in DOMAIN calls[q] :
                   /\ calls'[q][j].what = calls[q][j].what /\ calls'[q][j].parts = calls[q][j].parts
                   /\ calls'[q][j].task = calls[q][j].task
                   /\ q = r /\ j = i => calls'[q][j].state = st
                   /\ q # r \/ j # i => calls'[q][j].state = calls[q][j].state
<1> DEFINE With(c) == [c EXCEPT !.state = st]
           mine == [calls[r] EXCEPT ![i] = With(calls[r][i])]
<1>1. \A c \in CallRec : /\ With(c) \in CallRec /\ With(c).what = c.what /\ With(c).parts = c.parts
                         /\ With(c).task = c.task /\ With(c).state = st
  BY DEF CallRec
<1>2. calls' = [calls EXCEPT ![r] = mine]
  BY Zenon
<1> HIDE DEF With
<1>3. calls[r] \in Seq(CallRec) /\ calls[r][i] \in CallRec
  BY DEF TypeInv
<1>4. mine \in Seq(CallRec) /\ DOMAIN mine = DOMAIN calls[r]
      /\ \A j \in DOMAIN calls[r] : mine[j] = IF j = i THEN With(calls[r][i]) ELSE calls[r][j]
  BY <1>1, <1>3
<1> HIDE DEF mine
<1>5. DOMAIN calls' = Runs /\ \A q \in Runs : calls'[q] = IF q = r THEN mine ELSE calls[q]
  BY <1>2 DEF TypeInv
<1>6. calls' \in [Runs -> Seq(CallRec)]
  BY <1>2, <1>4 DEF TypeInv
<1>7. ASSUME NEW q \in Runs
      PROVE  /\ q # r => calls'[q] = calls[q]
             /\ DOMAIN calls'[q] = DOMAIN calls[q]
             /\ \A j \in DOMAIN calls[q] :
                  calls'[q][j] = IF q = r /\ j = i THEN With(calls[r][i]) ELSE calls[q][j]
  BY <1>4, <1>5
<1> QED
  BY <1>1, <1>3, <1>6, <1>7

\* More calls behind those of run r.
Grown(r, more) ==
  /\ calls' \in [Runs -> Seq(CallRec)]
  /\ \A q \in Runs :
       /\ q # r => calls'[q] = calls[q]
       /\ DOMAIN calls[q] \subseteq DOMAIN calls'[q]
       /\ \A j \in DOMAIN calls[q] : calls'[q][j] = calls[q][j]
       /\ \A j \in DOMAIN calls'[q] : j \notin DOMAIN calls[q] =>
            q = r /\ \E k \in DOMAIN more : calls'[q][j] = more[k]

LEMMA Appended ==
  ASSUME TypeInv, NEW r \in Runs, NEW more \in Seq(CallRec), calls' = [calls EXCEPT ![r] = @ \o more]
  PROVE  Grown(r, more)
<1> DEFINE all == calls[r] \o more
<1>1. calls[r] \in Seq(CallRec)
  BY DEF TypeInv
<1>2. /\ all \in Seq(CallRec) /\ DOMAIN calls[r] \subseteq DOMAIN all
      /\ \A j \in DOMAIN calls[r] : all[j] = calls[r][j]
  BY <1>1
<1>3. ASSUME NEW j \in DOMAIN all, j \notin DOMAIN calls[r]
      PROVE  \E k \in DOMAIN more : all[j] = more[k]
  <2>1. j - Len(calls[r]) \in DOMAIN more /\ all[j] = more[j - Len(calls[r])]
    BY <1>1, <1>3
  <2> QED
    BY <2>1
<1> HIDE DEF all
<1>4. calls' = [calls EXCEPT ![r] = all]
  BY DEF all
<1>5. \A q \in Runs : calls'[q] = IF q = r THEN all ELSE calls[q]
  BY <1>4 DEF TypeInv
<1>6. calls' \in [Runs -> Seq(CallRec)]
  BY <1>2, <1>4 DEF TypeInv
<1>7. ASSUME NEW q \in Runs
      PROVE  /\ q # r => calls'[q] = calls[q]
             /\ DOMAIN calls[q] \subseteq DOMAIN calls'[q]
             /\ \A j \in DOMAIN calls[q] : calls'[q][j] = calls[q][j]
             /\ \A j \in DOMAIN calls'[q] : j \notin DOMAIN calls[q] =>
                  q = r /\ \E k \in DOMAIN more : calls'[q][j] = more[k]
  <2>1. CASE q = r
    BY <1>2, <1>3, <1>5, <2>1, SMTT(30)
  <2>2. CASE q # r
    BY <1>5, <2>2
  <2> QED
    BY <2>1, <2>2
<1> QED
  BY <1>6, <1>7 DEF Grown

\* Who is whose child, and what kind of child, does not change with the calls.
LEMMA SameKind ==
  ASSUME TypeInv, BirthInv, Kept, NEW x \in Runs, home'[x] = home[x]
  PROVE  /\ IsChild(x)' <=> IsChild(x)
         /\ IsClone(x)' <=> IsClone(x)
         /\ IsAgent(x)' <=> IsAgent(x)
         /\ IsChild(x) =>
              /\ CallOf(x)'.task = CallOf(x).task /\ CallOf(x)'.state \in Started
              /\ home'[x].call \in DOMAIN calls'[home'[x].run]
<1>1. IsChild(x)' <=> IsChild(x)
  BY DEF IsChild
<1>2. ASSUME IsChild(x)
      PROVE  /\ CallOf(x)'.what = CallOf(x).what /\ CallOf(x)'.task = CallOf(x).task
             /\ CallOf(x)'.state \in Started
             /\ home'[x].call \in DOMAIN calls'[home'[x].run]
  BY <1>2, SMTT(30) DEF BirthInv, CallOf, Kept, Born
<1> QED
  BY <1>1, <1>2 DEF IsClone, IsAgent

LEMMA TypeMarking ==
  ASSUME Inv, NEW r \in Runs, NEW i \in DOMAIN calls[r], Marking(r, i)
  PROVE  TypeInv' /\ Kept
<1>1. PICK st \in {"asked", "refused"} \union Started :
         /\ calls' = [calls EXCEPT ![r][i].state = st]
         /\ \/ st = "refused" /\ calls[r][i].state = "asked" /\ count' = count
            \/ calls[r][i].state = "asked" /\ Counted(r, calls[r][i])
            \/ calls[r][i].state = "running" /\ st \in {"ok", "error"} /\ count' = count
  BY DEF Marking
<1>2. /\ calls' \in [Runs -> Seq(CallRec)]
      /\ \A q \in Runs :
           /\ q # r => calls'[q] = calls[q]
           /\ DOMAIN calls'[q] = DOMAIN calls[q]
           /\ \A j \in DOMAIN calls[q] :
                /\ calls'[q][j].what = calls[q][j].what /\ calls'[q][j].parts = calls[q][j].parts
                /\ calls'[q][j].task = calls[q][j].task
                /\ q = r /\ j = i => calls'[q][j].state = st
                /\ q # r \/ j # i => calls'[q][j].state = calls[q][j].state
  <2>1. TypeInv
    BY DEF Inv
  <2>2. calls' = [calls EXCEPT ![r][i].state = st]
    BY <1>1
  <2> QED
    BY <2>1, <2>2, Marked, Zenon
<1>3. calls[r][i].state \in Started => st \in Started
  BY <1>1 DEF Started
<1>4. Kept
  <2>1. r \in Born /\ ~IsAgent(r)
    BY DEF Inv, BirthInv
  <2> QED
    BY <1>2, <1>3, <2>1 DEF Kept
<1>5. count' \in [Runs -> Nat]
  <2>1. calls[r][i] \in CallRec /\ count \in [Runs -> Nat]
    BY DEF Inv, TypeInv
  <2>2. calls[r][i].parts \in Nat
    BY <2>1 DEF CallRec
  <2> QED
    BY <1>1, <2>1, <2>2 DEF Counted
<1> QED
  BY <1>2, <1>4, <1>5 DEF Marking, Inv, TypeInv

LEMMA TypeAsking ==
  ASSUME Inv, NEW r \in Runs, Asking(r)
  PROVE  TypeInv' /\ Kept
<1>1. PICK more \in Seq(CallRec) : calls' = [calls EXCEPT ![r] = @ \o more]
  BY DEF Asking
<1>2. /\ calls' \in [Runs -> Seq(CallRec)]
      /\ \A q \in Runs :
           /\ q # r => calls'[q] = calls[q]
           /\ DOMAIN calls[q] \subseteq DOMAIN calls'[q]
           /\ \A j \in DOMAIN calls[q] : calls'[q][j] = calls[q][j]
  <2>1. TypeInv
    BY DEF Inv
  <2> QED
    BY <1>1, <2>1, Appended, ZenonT(40) DEF Grown
<1>3. Kept
  BY <1>2 DEF Kept, Asking
<1> QED
  BY <1>2, <1>3 DEF Asking, Quiet, bornVars, Inv, TypeInv, Kept

LEMMA TypeQuiet ==
  ASSUME Inv, Quiet, UNCHANGED calls
  PROVE  TypeInv' /\ Kept
BY DEF Quiet, bornVars, Inv, TypeInv, Kept

-----------------------------------------------------------------------------
(* Steps that start no child *)

Childless ==
  /\ TypeInv' /\ Kept
  /\ home' = home /\ depth' = depth
  /\ Born' = Born
  /\ \A x \in Runs : phase'[x] = "start" \/ outcome'[x] = "raised" =>
       phase[x] = "start" \/ outcome[x] = "raised"

LEMMA SameKinds ==
  ASSUME Inv, Childless
  PROVE  \A x \in Runs : /\ IsChild(x)' <=> IsChild(x)
                         /\ IsClone(x)' <=> IsClone(x)
                         /\ IsAgent(x)' <=> IsAgent(x)
                         /\ IsChild(x) =>
                              /\ CallOf(x)'.state \in Started
                              /\ home'[x].call \in DOMAIN calls'[home'[x].run]
BY SameKind DEF Childless, Inv

LEMMA BirthChildless ==
  ASSUME Inv, Childless
  PROVE  BirthInv'
<1>1. \A x \in Runs : /\ IsChild(x)' <=> IsChild(x)
                      /\ IsClone(x)' <=> IsClone(x)
                      /\ IsAgent(x)' <=> IsAgent(x)
                      /\ IsChild(x) =>
                           /\ CallOf(x)'.state \in Started
                           /\ home'[x].call \in DOMAIN calls'[home'[x].run]
  BY SameKinds
<1>2. /\ \E n \in 1..(MaxChildren + 1) : Born' = 0..(n - 1)
      /\ home'[Root] = None
  BY DEF Childless, Inv, BirthInv
<1>3. \A x \in Runs : x \notin Born' => home'[x] = None /\ calls'[x] = <<>>
  BY DEF Childless, Inv, BirthInv, Kept
<1>4. \A x \in Runs : IsChild(x)' =>
       /\ x \in Born' /\ home'[x].run \in Born'
       /\ home'[x].call \in DOMAIN calls'[home'[x].run] /\ CallOf(x)'.state \in Started
  BY <1>1 DEF Childless, Inv, BirthInv
<1>5. \A x \in Runs : IsAgent(x)' => calls'[x] = <<>>
  BY <1>1 DEF Childless, Inv, BirthInv, Kept
<1>6. \A x \in Runs : phase'[x] = "start" \/ outcome'[x] = "raised" => IsClone(x)'
  BY <1>1 DEF Childless, Inv, BirthInv
<1> QED
  BY <1>2, <1>3, <1>4, <1>5, <1>6 DEF BirthInv

LEMMA DepthChildless ==
  ASSUME Inv, Childless
  PROVE  /\ \A r \in Runs : Clones(r)' = Clones(r)
         /\ DepthInv'
<1>1. \A x \in Runs : /\ IsChild(x)' <=> IsChild(x)
                      /\ IsClone(x)' <=> IsClone(x)
                      /\ IsAgent(x)' <=> IsAgent(x)
  BY SameKinds
<1>2. home' = home /\ depth' = depth
  BY DEF Childless
<1>3. \A r \in Runs : Clones(r)' = Clones(r)
  BY <1>1, <1>2 DEF Clones
<1>4. ASSUME NEW x \in Runs PROVE Lineage(x)' = Lineage(x)
  BY <1>2 DEF Lineage, IsChild
<1>5. ASSUME NEW x \in Runs
      PROVE  {y \in Lineage(x)' : IsClone(y)'} = {y \in Lineage(x) : IsClone(y)}
  <2>1. Lineage(x) \subseteq Runs
    BY DEF Lineage
  <2> QED
    BY <1>1, <1>4, <2>1
<1>6. \A x \in Runs : Level(x)' = Level(x)
  BY <1>1, <1>2 DEF Level
<1> QED
  BY <1>2, <1>3, <1>5, <1>6 DEF DepthInv, Inv

\* The delegates' calls that were let start are the same.
LEMMA DelegatesChildless ==
  ASSUME Inv, Childless,
         \A r \in Runs :
           /\ Calls(r, "delegate", {"running", "ok"})' = Calls(r, "delegate", {"running", "ok"})
           /\ \A i \in DOMAIN calls'[r] : calls'[r][i].what = "delegate" =>
                /\ calls'[r][i].parts = 1 /\ calls'[r][i].state # "error"
                /\ calls'[r][i].task \in Roster \X Tasks
  PROVE  DelegateInv'
<1>1. \A r \in Runs : \A i \in Calls(r, "delegate", {"running", "ok"}) :
        i \in DOMAIN calls[r] /\ calls'[r][i].task = calls[r][i].task
  BY DEF Calls, Childless, Kept
<1>2. \A r \in Runs : Given(r)' = Given(r)
  BY <1>1 DEF Given
<1>3. \A x \in Runs : IsAgent(x)' <=> IsAgent(x)
  BY SameKinds
<1>4. home' = home
  BY DEF Childless
<1> QED
  BY <1>1, <1>2, <1>3, <1>4 DEF DelegateInv, Inv

LEMMA InvQuiet ==
  ASSUME Inv, Quiet, UNCHANGED calls
  PROVE  Inv'
<1>1. Childless
  BY TypeQuiet DEF Childless, Quiet, bornVars
<1>2. CountInv'
  BY <1>1, DepthChildless DEF Quiet, bornVars, CountInv, Inv
<1>3. DelegateInv'
  <2>1. \A r \in Runs : Calls(r, "delegate", {"running", "ok"})' = Calls(r, "delegate", {"running", "ok"})
    BY DEF Calls
  <2> QED
    BY <1>1, <2>1, DelegatesChildless DEF DelegateInv, Inv
<1> QED
  BY <1>1, <1>2, <1>3, BirthChildless, DepthChildless DEF Childless, Inv

LEMMA InvAsking ==
  ASSUME Inv, NEW r \in Runs, Asking(r)
  PROVE  Inv'
<1>1. Childless
  BY TypeAsking DEF Childless, Asking, Quiet, bornVars
<1>2. CountInv'
  BY <1>1, DepthChildless DEF Asking, Quiet, bornVars, CountInv, Inv
<1>3. PICK more \in Seq(CallRec) :
        /\ calls' = [calls EXCEPT ![r] = @ \o more]
        /\ \A i \in DOMAIN more :
             /\ more[i].state = "asked"
             /\ more[i].what = "delegate" => more[i].parts = 1 /\ more[i].task \in Roster \X Tasks
  BY DEF Asking
<1>4. \A q \in Runs :
        /\ DOMAIN calls[q] \subseteq DOMAIN calls'[q]
        /\ \A j \in DOMAIN calls[q] : calls'[q][j] = calls[q][j]
        /\ \A j \in DOMAIN calls'[q] : j \notin DOMAIN calls[q] =>
             q = r /\ \E k \in DOMAIN more : calls'[q][j] = more[k]
  <2>1. TypeInv
    BY DEF Inv
  <2>2. calls' = [calls EXCEPT ![r] = @ \o more]
    BY <1>3
  <2>3. Grown(r, more)
    BY <2>1, <2>2, Appended
  <2> QED
    BY <2>3 DEF Grown
<1>5. ASSUME NEW q \in Runs
      PROVE  /\ Calls(q, "delegate", {"running", "ok"})' = Calls(q, "delegate", {"running", "ok"})
             /\ \A i \in DOMAIN calls'[q] : calls'[q][i].what = "delegate" =>
                  /\ calls'[q][i].parts = 1 /\ calls'[q][i].state # "error"
                  /\ calls'[q][i].task \in Roster \X Tasks
  <2>1. \A j \in DOMAIN calls'[q] : j \notin DOMAIN calls[q] =>
          /\ calls'[q][j].state = "asked"
          /\ calls'[q][j].what = "delegate" => calls'[q][j].parts = 1 /\ calls'[q][j].task \in Roster \X Tasks
    BY <1>3, <1>4
  <2>2. Calls(q, "delegate", {"running", "ok"})' = Calls(q, "delegate", {"running", "ok"})
    BY <1>4, <2>1 DEF Calls
  <2> QED
    BY <1>4, <2>1, <2>2 DEF DelegateInv, Inv
<1>6. DelegateInv'
  BY <1>1, <1>5, DelegatesChildless
<1> QED
  BY <1>1, <1>2, <1>6, BirthChildless, DepthChildless DEF Childless, Inv

LEMMA InvMarking ==
  ASSUME Inv, NEW r \in Runs, NEW i \in DOMAIN calls[r], Marking(r, i)
  PROVE  Inv'
<1>1. Childless
  BY TypeMarking DEF Childless, Marking, Born
<1>2. PICK st \in {"asked", "refused"} \union Started :
         /\ calls' = [calls EXCEPT ![r][i].state = st]
         /\ \/ st = "refused" /\ calls[r][i].state = "asked" /\ count' = count
            \/ /\ calls[r][i].state = "asked" /\ st = "error" /\ calls[r][i].what = "spawn"
               /\ count[r] + calls[r][i].parts <= MaxPerRun
               /\ Counted(r, calls[r][i])
            \/ /\ calls[r][i].state = "running" /\ st \in {"ok", "error"} /\ count' = count
               /\ st = "error" => calls[r][i].what = "spawn"
  BY DEF Marking
<1>3. CountInv'
  <2>1. calls[r][i] \in CallRec /\ count \in [Runs -> Nat]
    BY DEF Inv, TypeInv
  <2>2. calls[r][i].parts \in Nat
    BY <2>1 DEF CallRec
  <2>3. \A q \in Runs : Clones(q)' = Clones(q) /\ Cardinality(Clones(q)) <= count[q] /\ count[q] <= MaxPerRun
    BY <1>1, DepthChildless DEF CountInv, Inv
  <2>4. \A q \in Runs : IsFiniteSet(Clones(q)) /\ Cardinality(Clones(q)) \in Nat
    <3>1. IsFiniteSet(Runs)
      BY FS_Interval, Limits DEF Runs
    <3> QED
      BY <3>1, FS_Subset, FS_CardinalityType DEF Clones
  <2>5. \A q \in Runs : count[q] <= count'[q] /\ count'[q] <= MaxPerRun
    BY <1>2, <2>1, <2>2, <2>3, Limits DEF Counted
  <2>6. count' \in [Runs -> Nat]
    BY <1>1 DEF Childless, TypeInv
  <2> QED
    BY <2>1, <2>3, <2>4, <2>5, <2>6, Limits DEF CountInv
<1>4. \A q \in Runs :
        /\ DOMAIN calls'[q] = DOMAIN calls[q]
        /\ \A j \in DOMAIN calls[q] :
             /\ calls'[q][j].what = calls[q][j].what /\ calls'[q][j].parts = calls[q][j].parts
             /\ calls'[q][j].task = calls[q][j].task
             /\ q = r /\ j = i => calls'[q][j].state = st
             /\ q # r \/ j # i => calls'[q][j].state = calls[q][j].state
  <2>1. TypeInv
    BY DEF Inv
  <2>2. calls' = [calls EXCEPT ![r][i].state = st]
    BY <1>2
  <2> QED
    BY <2>1, <2>2, Marked, Zenon
<1>5. ASSUME NEW q \in Runs
      PROVE  /\ Calls(q, "delegate", {"running", "ok"})' = Calls(q, "delegate", {"running", "ok"})
             /\ \A j \in DOMAIN calls'[q] : calls'[q][j].what = "delegate" =>
                  /\ calls'[q][j].parts = 1 /\ calls'[q][j].state # "error"
                  /\ calls'[q][j].task \in Roster \X Tasks
  <2>1. \A j \in DOMAIN calls[q] : calls[q][j].what = "delegate" =>
          calls'[q][j].state \in {"running", "ok"} <=> calls[q][j].state \in {"running", "ok"}
    BY <1>2, <1>4
  <2>2. Calls(q, "delegate", {"running", "ok"})' = Calls(q, "delegate", {"running", "ok"})
    BY <1>4, <2>1 DEF Calls
  <2>3. \A j \in DOMAIN calls[q] : calls[q][j].what = "delegate" => calls'[q][j].state # "error"
    BY <1>2, <1>4 DEF DelegateInv, Inv
  <2> QED
    BY <1>4, <2>2, <2>3 DEF DelegateInv, Inv
<1>6. DelegateInv'
  BY <1>1, <1>5, DelegatesChildless
<1> QED
  BY <1>1, <1>3, <1>6, BirthChildless, DepthChildless DEF Childless, Inv

-----------------------------------------------------------------------------
(* A call's children *)

Bearing(r, i, new) ==
  /\ new \in SUBSET Runs /\ new \intersect Born = {}
  /\ Cardinality(new) <= calls[r][i].parts
  /\ \E n \in 1..(MaxChildren + 1) : Born' = 0..(n - 1)
  /\ Born' = Born \union new
  /\ phase[r] = "tools" /\ calls[r][i].state = "asked" /\ ~CallRefused(r, calls[r][i])
  /\ phase' = [x \in Runs |-> IF x \notin new THEN phase[x]
                              ELSE IF calls[r][i].what = "spawn" THEN "start" ELSE "boundary"]
  /\ home' = [x \in Runs |-> IF x \in new THEN [run |-> r, call |-> i] ELSE home[x]]
  /\ depth' = [x \in Runs |-> IF x \in new /\ calls[r][i].what = "spawn" THEN depth[r] + 1
                              ELSE depth[x]]
  /\ calls' = [calls EXCEPT ![r][i].state = "running"]
  /\ Counted(r, calls[r][i])
  /\ UNCHANGED <<outcome, passes>>

LEMMA RunsBegin ==
  ASSUME Inv, NEW r \in Runs, NEW i \in DOMAIN calls[r], BeginCall(r, i)
  PROVE  \E new \in SUBSET Runs : Bearing(r, i, new)
<1> DEFINE parts == calls[r][i].parts
           born == Cardinality({x \in Runs : phase[x] # "none"})
           span == born..(born + parts - 1)
           new == span \intersect Runs
<1>1. PICK n \in 1..(MaxChildren + 1) : Born = 0..(n - 1)
  BY DEF Inv, BirthInv
<1>2. parts \in Nat
  <2>1. calls[r][i] \in CallRec
    BY DEF Inv, TypeInv
  <2> QED
    BY <2>1 DEF CallRec
<1>3. n \in Nat /\ n > 0 /\ n <= MaxChildren + 1 /\ MaxChildren \in Nat
  BY <1>1, Limits
<1>4. born = n
  <2>1. Cardinality(0..(n - 1)) = n
    <3>1. 0 \in Int /\ n - 1 \in Int
      BY <1>3
    <3>2. Cardinality(0..(n - 1)) = IF 0 > n - 1 THEN 0 ELSE (n - 1) - 0 + 1
      BY <3>1, FS_Interval
    <3> QED
      BY <1>3, <3>2
  <2> QED
    BY <1>1, <2>1 DEF Born
<1> HIDE DEF born, parts
<1>5. IsFiniteSet(span) /\ Cardinality(span) = parts
  <2>1. n \in Int /\ n + parts - 1 \in Int
    BY <1>2, <1>3
  <2>2. /\ IsFiniteSet(n..(n + parts - 1))
        /\ Cardinality(n..(n + parts - 1)) = IF n > n + parts - 1 THEN 0 ELSE (n + parts - 1) - n + 1
    BY <2>1, FS_Interval
  <2> QED
    BY <1>2, <1>3, <1>4, <2>2
<1> HIDE DEF span
<1>6. Cardinality(new) <= parts
  BY <1>5, FS_Intersection
<1>7. \A x \in Runs : x \in new <=> x >= n /\ x < n + parts
  BY <1>2, <1>3, <1>4 DEF span, Runs
<1>8. new \in SUBSET Runs /\ new \intersect Born = {}
  BY <1>1, <1>3, <1>7 DEF Runs
<1>9. /\ phase' = [x \in Runs |-> IF x \notin span THEN phase[x]
                              ELSE IF calls[r][i].what = "spawn" THEN "start" ELSE "boundary"]
      /\ home' = [x \in Runs |-> IF x \in span THEN [run |-> r, call |-> i] ELSE home[x]]
      /\ depth' = [x \in Runs |-> IF x \in span /\ calls[r][i].what = "spawn" THEN depth[r] + 1
                                  ELSE depth[x]]
  BY DEF BeginCall, span, parts, born
<1>10. /\ phase' = [x \in Runs |-> IF x \notin new THEN phase[x]
                              ELSE IF calls[r][i].what = "spawn" THEN "start" ELSE "boundary"]
       /\ home' = [x \in Runs |-> IF x \in new THEN [run |-> r, call |-> i] ELSE home[x]]
       /\ depth' = [x \in Runs |-> IF x \in new /\ calls[r][i].what = "spawn" THEN depth[r] + 1
                                   ELSE depth[x]]
  BY <1>9
<1>11. Born' = Born \union new
  <2>1. \A x \in Runs : phase'[x] # "none" <=> phase[x] # "none" \/ x \in new
    BY <1>8, <1>10 DEF Born
  <2> QED
    BY <1>8, <2>1 DEF Born
<1>12. \E k \in 1..(MaxChildren + 1) : Born' = 0..(k - 1)
  <2> DEFINE k == IF n + parts <= MaxChildren + 1 THEN n + parts ELSE MaxChildren + 1
  <2>1. k \in 1..(MaxChildren + 1)
    BY <1>2, <1>3
  <2>2. Born' \subseteq Runs /\ Runs = 0..MaxChildren
    BY DEF Born, Runs
  <2>3. \A x \in 0..MaxChildren : x \in Born' <=> x < n + parts
    BY <1>1, <1>2, <1>3, <1>7, <1>11, <2>2
  <2>4. Born' = 0..(k - 1)
    <3>1. \A x \in 0..MaxChildren : x \in Born' <=> x \in 0..(k - 1)
      BY <1>2, <1>3, <2>3
    <3>2. 0..(k - 1) \subseteq 0..MaxChildren
      BY <1>3, <2>1
    <3> HIDE DEF k
    <3> QED
      BY <2>2, <3>1, <3>2
  <2> QED
    BY <2>1, <2>4
<1>13. /\ phase[r] = "tools" /\ calls[r][i].state = "asked" /\ ~CallRefused(r, calls[r][i])
       /\ calls' = [calls EXCEPT ![r][i].state = "running"]
       /\ Counted(r, calls[r][i]) /\ UNCHANGED <<outcome, passes>>
  BY Zenon DEF BeginCall, loopVars
<1>14. Bearing(r, i, new)
  <2> HIDE DEF new
  <2> QED
    BY <1>6, <1>8, <1>10, <1>11, <1>12, <1>13, Zenon DEF Bearing, parts
<1> QED
  BY <1>8, <1>14

LEMMA BearingCalls ==
  ASSUME Inv, NEW r \in Runs, NEW i \in DOMAIN calls[r], NEW new, Bearing(r, i, new)
  PROVE  /\ calls' \in [Runs -> Seq(CallRec)]
         /\ \A q \in Runs :
              /\ q # r => calls'[q] = calls[q]
              /\ DOMAIN calls'[q] = DOMAIN calls[q]
              /\ \A j \in DOMAIN calls[q] :
                   /\ calls'[q][j].what = calls[q][j].what /\ calls'[q][j].parts = calls[q][j].parts
                   /\ calls'[q][j].task = calls[q][j].task
                   /\ q = r /\ j = i => calls'[q][j].state = "running"
                   /\ q # r \/ j # i => calls'[q][j].state = calls[q][j].state
<1>1. TypeInv /\ calls' = [calls EXCEPT ![r][i].state = "running"]
  BY Zenon DEF Inv, Bearing
<1>2. "running" \in {"asked", "refused"} \union Started
  BY DEF Started
<1> QED
  BY <1>1, <1>2, Marked, Zenon

LEMMA TypeBearing ==
  ASSUME Inv, NEW r \in Runs, NEW i \in DOMAIN calls[r], NEW new, Bearing(r, i, new)
  PROVE  /\ TypeInv' /\ Kept
         /\ r \in Born /\ ~IsAgent(r) /\ i \in Nat /\ i > 0
<1>1. /\ calls' \in [Runs -> Seq(CallRec)]
      /\ \A q \in Runs :
           /\ q # r => calls'[q] = calls[q]
           /\ DOMAIN calls'[q] = DOMAIN calls[q]
           /\ \A j \in DOMAIN calls[q] :
                /\ calls'[q][j].what = calls[q][j].what
                /\ calls'[q][j].task = calls[q][j].task
                /\ q = r /\ j = i => calls'[q][j].state = "running"
                /\ q # r \/ j # i => calls'[q][j].state = calls[q][j].state
  BY BearingCalls
<1>2. calls[r] \in Seq(CallRec) /\ i \in Nat /\ i > 0
  BY DEF Inv, TypeInv
<1>3. r \in Born /\ ~IsAgent(r)
  BY DEF Inv, BirthInv
<1>4. Kept
  BY <1>1, <1>3 DEF Kept, Started
<1>5. calls[r][i] \in CallRec /\ calls[r][i].parts \in Nat
  <2>1. calls[r][i] \in CallRec
    BY <1>2
  <2> QED
    BY <2>1 DEF CallRec
<1>6. /\ phase \in [Runs -> {"none", "start", "boundary", "model", "tools", "over"}]
      /\ home \in [Runs -> [run : Runs, call : Nat]]
      /\ depth \in [Runs -> Nat] /\ count \in [Runs -> Nat]
      /\ outcome' \in [Runs -> {"none", "done", "partial", "failed", "stopped", "raised", "lost"}]
      /\ passes' \in [Runs -> Nat]
  BY DEF Inv, TypeInv, Bearing
<1>7. count' \in [Runs -> Nat]
  BY <1>5, <1>6 DEF Bearing, Counted
<1>8. phase' \in [Runs -> {"none", "start", "boundary", "model", "tools", "over"}]
  BY <1>6 DEF Bearing
<1>9. home' \in [Runs -> [run : Runs, call : Nat]]
  BY <1>2, <1>6 DEF Bearing
<1>10. depth' \in [Runs -> Nat]
  BY <1>6 DEF Bearing
<1> QED
  BY <1>1, <1>2, <1>3, <1>4, <1>6, <1>7, <1>8, <1>9, <1>10 DEF TypeInv

\* The new runs, and those that were there.
LEMMA BornKinds ==
  ASSUME Inv, NEW r \in Runs, NEW i \in DOMAIN calls[r], NEW new, Bearing(r, i, new)
  PROVE  /\ \A x \in new : /\ home'[x] = [run |-> r, call |-> i] /\ IsChild(x)'
                           /\ CallOf(x)' = calls'[r][i]
                           /\ IsClone(x)' <=> calls[r][i].what = "spawn"
                           /\ IsAgent(x)' <=> calls[r][i].what = "delegate"
         /\ \A x \in Runs \ new :
              /\ home'[x] = home[x]
              /\ IsChild(x)' <=> IsChild(x)
              /\ IsClone(x)' <=> IsClone(x)
              /\ IsAgent(x)' <=> IsAgent(x)
              /\ IsChild(x) =>
                   /\ CallOf(x)'.task = CallOf(x).task /\ CallOf(x)'.state \in Started
                   /\ home'[x].call \in DOMAIN calls'[home'[x].run]
<1>1. /\ TypeInv' /\ Kept /\ i \in Nat /\ i > 0
  BY TypeBearing
<1>2. /\ \A x \in new : x \in Runs /\ home'[x] = [run |-> r, call |-> i]
      /\ \A x \in Runs \ new : home'[x] = home[x]
  BY DEF Bearing
<1>3. \A x \in Runs \ new :
              /\ IsChild(x)' <=> IsChild(x)
              /\ IsClone(x)' <=> IsClone(x)
              /\ IsAgent(x)' <=> IsAgent(x)
              /\ IsChild(x) =>
                   /\ CallOf(x)'.task = CallOf(x).task /\ CallOf(x)'.state \in Started
                   /\ home'[x].call \in DOMAIN calls'[home'[x].run]
  BY <1>1, <1>2, SameKind DEF Inv
<1>4. [run |-> r, call |-> i] # None
  BY <1>1 DEF None
<1>5. calls'[r][i].what = calls[r][i].what
  BY BearingCalls
<1>6. ASSUME NEW x \in new
      PROVE  /\ IsChild(x)' /\ CallOf(x)' = calls'[r][i]
             /\ IsClone(x)' <=> calls[r][i].what = "spawn"
             /\ IsAgent(x)' <=> calls[r][i].what = "delegate"
  <2>1. home'[x] = [run |-> r, call |-> i]
    BY <1>2
  <2>2. IsChild(x)' /\ CallOf(x)' = calls'[r][i]
    BY <1>4, <2>1 DEF IsChild, CallOf
  <2> QED
    BY <1>5, <2>2 DEF IsClone, IsAgent
<1> QED
  BY <1>2, <1>3, <1>6

LEMMA BirthBearing ==
  ASSUME Inv, NEW r \in Runs, NEW i \in DOMAIN calls[r], NEW new, Bearing(r, i, new)
  PROVE  BirthInv'
<1>1. /\ Kept /\ TypeInv' /\ r \in Born /\ ~IsAgent(r)
  BY TypeBearing
<1>2. /\ new \in SUBSET Runs /\ Born' = Born \union new /\ new \intersect Born = {}
      /\ \E n \in 1..(MaxChildren + 1) : Born' = 0..(n - 1)
  BY DEF Bearing
<1>3. /\ \A x \in new : /\ home'[x] = [run |-> r, call |-> i] /\ IsChild(x)'
                        /\ CallOf(x)' = calls'[r][i]
                        /\ IsClone(x)' <=> calls[r][i].what = "spawn"
      /\ \A x \in Runs \ new :
              /\ home'[x] = home[x]
              /\ IsChild(x)' <=> IsChild(x)
              /\ IsClone(x)' <=> IsClone(x)
              /\ IsAgent(x)' <=> IsAgent(x)
              /\ IsChild(x) =>
                   /\ CallOf(x)'.state \in Started
                   /\ home'[x].call \in DOMAIN calls'[home'[x].run]
  BY BornKinds
<1>4. calls'[r][i].state \in Started /\ i \in DOMAIN calls'[r]
  BY BearingCalls DEF Started
<1>5. Root \in Born /\ Root \in Runs
  <2>1. Root \in Runs
    BY Limits DEF Root, Runs
  <2> QED
    BY <2>1, Limits DEF Inv, BirthInv, Root
<1>6. home'[Root] = None
  BY <1>2, <1>3, <1>5 DEF Inv, BirthInv
<1>7. \A x \in Runs : x \notin Born' => home'[x] = None /\ calls'[x] = <<>>
  BY <1>1, <1>2, <1>3 DEF Inv, BirthInv, Kept
<1>8. \A x \in Runs : IsChild(x)' =>
       /\ x \in Born' /\ home'[x].run \in Born'
       /\ home'[x].call \in DOMAIN calls'[home'[x].run] /\ CallOf(x)'.state \in Started
  <2>1. \A x \in new : /\ x \in Born' /\ home'[x].run \in Born'
                       /\ home'[x].call \in DOMAIN calls'[home'[x].run] /\ CallOf(x)'.state \in Started
    BY <1>1, <1>2, <1>3, <1>4
  <2>2. \A x \in Runs \ new : IsChild(x) => x \in Born' /\ home'[x].run \in Born'
    BY <1>2, <1>3 DEF Inv, BirthInv
  <2> QED
    BY <1>3, <2>1, <2>2
<1>9. \A x \in Runs : IsAgent(x)' => calls'[x] = <<>>
  <2>1. \A x \in new : calls'[x] = <<>>
    BY <1>1, <1>2 DEF Inv, BirthInv, Kept
  <2> QED
    BY <1>1, <1>3, <2>1 DEF Inv, BirthInv, Kept
<1>10. \A x \in Runs : phase'[x] = "start" \/ outcome'[x] = "raised" => IsClone(x)'
  <2>1. \A x \in new : outcome'[x] = outcome[x] /\ outcome[x] # "raised"
    BY <1>2 DEF Bearing, Inv, BirthInv, IsClone, IsChild
  <2>2. \A x \in new : phase'[x] = "start" => calls[r][i].what = "spawn"
    BY <1>2 DEF Bearing
  <2>3. \A x \in Runs \ new : phase'[x] = phase[x] /\ outcome'[x] = outcome[x]
    BY DEF Bearing
  <2> QED
    BY <1>3, <2>1, <2>2, <2>3 DEF Inv, BirthInv
<1> QED
  BY <1>2, <1>6, <1>7, <1>8, <1>9, <1>10 DEF BirthInv

LEMMA CountBearing ==
  ASSUME Inv, NEW r \in Runs, NEW i \in DOMAIN calls[r], NEW new, Bearing(r, i, new)
  PROVE  CountInv'
<1>1. /\ calls[r][i] \in CallRec /\ count \in [Runs -> Nat]
      /\ \A q \in Runs : Cardinality(Clones(q)) <= count[q] /\ count[q] <= MaxPerRun
  BY DEF Inv, TypeInv, CountInv
<1>2. calls[r][i].parts \in Nat /\ calls[r][i].what \in {"spawn", "delegate"} /\ MaxPerRun \in Nat
  BY <1>1, Limits DEF CallRec
<1>3. new \in SUBSET Runs /\ Cardinality(new) <= calls[r][i].parts
      /\ Counted(r, calls[r][i]) /\ ~CallRefused(r, calls[r][i])
  BY DEF Bearing
<1>4. ASSUME NEW q \in Runs PROVE IsFiniteSet(Clones(q)) /\ Cardinality(Clones(q)) \in Nat
  <2>1. IsFiniteSet(Runs)
    BY FS_Interval, Limits DEF Runs
  <2> QED
    BY <2>1, FS_Subset, FS_CardinalityType DEF Clones
<1>5. IsFiniteSet(new) /\ Cardinality(new) \in Nat
  <2>1. IsFiniteSet(Runs)
    BY FS_Interval, Limits DEF Runs
  <2> QED
    BY <1>3, <2>1, FS_Subset, FS_CardinalityType
<1>6. /\ \A x \in new : home'[x] = [run |-> r, call |-> i] /\ (IsClone(x)' <=> calls[r][i].what = "spawn")
      /\ \A x \in Runs \ new : home'[x] = home[x] /\ (IsClone(x)' <=> IsClone(x))
  BY BornKinds
<1>7. \A x \in new : ~IsClone(x)
  BY DEF Bearing, Inv, BirthInv, IsClone, IsChild
<1>8. \A q \in Runs : Clones(q)' = IF q = r /\ calls[r][i].what = "spawn" THEN Clones(q) \union new ELSE Clones(q)
  BY <1>3, <1>6, <1>7 DEF Clones
<1>9. CASE calls[r][i].what = "spawn"
  <2>1. count[r] + calls[r][i].parts <= MaxPerRun /\ count'[r] = count[r] + calls[r][i].parts
    BY <1>1, <1>2, <1>3, <1>9 DEF CallRefused, SpawnRefused, Counted
  <2>2. \A q \in Runs \ {r} : count'[q] = count[q]
    BY <1>1, <1>3 DEF Counted
  <2>3. Cardinality(Clones(r) \union new) <= Cardinality(Clones(r)) + Cardinality(new)
    <3>1. /\ Cardinality(Clones(r) \union new)
             = Cardinality(Clones(r)) + Cardinality(new) - Cardinality(Clones(r) \intersect new)
          /\ IsFiniteSet(Clones(r) \union new)
      BY <1>4, <1>5, FS_Union
    <3>2. Cardinality(Clones(r) \intersect new) \in Nat /\ Cardinality(Clones(r) \union new) \in Nat
      BY <1>4, <3>1, FS_Intersection, FS_CardinalityType
    <3> QED
      BY <1>4, <1>5, <3>1, <3>2
  <2>4. Cardinality(Clones(r) \union new) \in Nat
    BY <1>4, <1>5, FS_Union, FS_CardinalityType
  <2>5. Cardinality(Clones(r))' <= count'[r] /\ count'[r] <= MaxPerRun
    <3>1. Clones(r)' = Clones(r) \union new
      BY <1>8, <1>9
    <3> QED
      BY <1>1, <1>2, <1>3, <1>4, <1>5, <2>1, <2>3, <2>4, <3>1
  <2>6. \A q \in Runs \ {r} : Cardinality(Clones(q))' <= count'[q] /\ count'[q] <= MaxPerRun
    BY <1>1, <1>8, <2>2
  <2> QED
    BY <2>5, <2>6 DEF CountInv
<1>10. CASE calls[r][i].what = "delegate"
  <2>1. \A q \in Runs : count'[q] = count[q] /\ Clones(q)' = Clones(q)
    BY <1>1, <1>3, <1>8, <1>10 DEF Counted
  <2> QED
    BY <1>1, <2>1 DEF CountInv
<1> QED
  BY <1>2, <1>9, <1>10

LEMMA DelegateBearing ==
  ASSUME Inv, NEW r \in Runs, NEW i \in DOMAIN calls[r], NEW new, Bearing(r, i, new)
  PROVE  DelegateInv'
<1> DEFINE call == calls[r][i]
           Out(q) == Calls(q, "delegate", {"running", "ok"})
           isAgent == call.what = "delegate"
<1>1. \A q \in Runs :
        /\ DOMAIN calls'[q] = DOMAIN calls[q]
        /\ \A j \in DOMAIN calls[q] :
             /\ calls'[q][j].what = calls[q][j].what /\ calls'[q][j].parts = calls[q][j].parts
             /\ calls'[q][j].task = calls[q][j].task
             /\ q = r /\ j = i => calls'[q][j].state = "running"
             /\ q # r \/ j # i => calls'[q][j].state = calls[q][j].state
  BY BearingCalls
<1>2. /\ call.state = "asked" /\ ~CallRefused(r, call)
      /\ new \in SUBSET Runs /\ Cardinality(new) <= call.parts /\ new \intersect Born = {}
  BY DEF Bearing
<1>3. \A q \in Runs :
        /\ \A j \in DOMAIN calls[q] : calls[q][j].what = "delegate" =>
             /\ calls[q][j].parts = 1 /\ calls[q][j].state # "error"
             /\ calls[q][j].task \in Roster \X Tasks
        /\ \A j, k \in Out(q) : calls[q][j].task = calls[q][k].task => j = k
        /\ IsFiniteSet(Given(q))
        /\ \A d \in Roster : Cardinality({given \in Given(q) : given[1] = d}) <= MaxCallsPerDelegate
        /\ \A x \in Runs : IsAgent(q) /\ home[x] = home[q] => x = q
  BY DEF Inv, DelegateInv
<1>4. \A q \in Runs : Out(q)' = IF q = r /\ isAgent THEN Out(q) \union {i} ELSE Out(q)
  <2> TAKE q \in Runs
  <2>1. CASE q = r /\ isAgent
    BY <1>1, <1>2, <2>1 DEF Calls
  <2>2. CASE q = r /\ ~isAgent
    BY <1>1, <1>2, <2>2 DEF Calls
  <2>3. CASE q # r
    BY <1>1, <2>3 DEF Calls
  <2> QED
    BY <2>1, <2>2, <2>3
<1>5. \A q \in Runs : Out(q) \subseteq DOMAIN calls[q]
  BY DEF Calls
<1>6. \A q \in Runs : Given(q) = {calls[q][j].task : j \in Out(q)} /\ Given(q)' = {calls'[q][j].task : j \in Out(q)'}
  BY DEF Given
<1> HIDE DEF Out
<1>7. \A q \in Runs : Given(q)' = IF q = r /\ isAgent THEN Given(q) \union {call.task} ELSE Given(q)
  <2> TAKE q \in Runs
  <2>1. CASE q = r /\ isAgent
    <3>1. Given(q)' = {calls'[q][j].task : j \in Out(q) \union {i}}
      BY <1>4, <1>6, <2>1
    <3>2. \A j \in Out(q) \union {i} : calls'[q][j].task = calls[q][j].task
      BY <1>1, <1>5, <2>1
    <3> QED
      BY <1>6, <2>1, <3>1, <3>2
  <2>2. CASE ~(q = r /\ isAgent)
    <3>1. \A j \in Out(q) : calls'[q][j].task = calls[q][j].task
      BY <1>1, <1>5
    <3>2. Given(q)' = {calls'[q][j].task : j \in Out(q)}
      BY <1>4, <1>6, <2>2
    <3> QED
      BY <1>6, <2>2, <3>1, <3>2
  <2> QED
    BY <2>1, <2>2
<1>8. isAgent => /\ call.task \notin Given(r) /\ call.parts = 1
                 /\ Cardinality({given \in Given(r) : given[1] = call.task[1]}) < MaxCallsPerDelegate
  <2> SUFFICES ASSUME isAgent
               PROVE  /\ call.task \notin Given(r) /\ call.parts = 1
                      /\ Cardinality({given \in Given(r) : given[1] = call.task[1]}) < MaxCallsPerDelegate
    OBVIOUS
  <2>1. /\ call.task \notin Given(r)
        /\ ~(Cardinality({given \in Given(r) : given[1] = call.task[1]}) >= MaxCallsPerDelegate)
    BY <1>2 DEF CallRefused, DelegateRefused
  <2>2. IsFiniteSet({given \in Given(r) : given[1] = call.task[1]})
    BY <1>3, FS_Subset
  <2>3. Cardinality({given \in Given(r) : given[1] = call.task[1]}) \in Nat
    BY <2>2, FS_CardinalityType
  <2> QED
    BY <1>3, <2>1, <2>3, Limits
<1>9. \A q \in Runs : \A j \in DOMAIN calls'[q] : calls'[q][j].what = "delegate" =>
        /\ calls'[q][j].parts = 1 /\ calls'[q][j].state # "error"
        /\ calls'[q][j].task \in Roster \X Tasks
  BY <1>1, <1>3
<1>10. \A q \in Runs : \A j, k \in Out(q)' : calls'[q][j].task = calls'[q][k].task => j = k
  <2> SUFFICES ASSUME NEW q \in Runs, NEW j \in Out(q)', NEW k \in Out(q)',
                      calls'[q][j].task = calls'[q][k].task
               PROVE  j = k
    OBVIOUS
  <2>1. CASE j \in Out(q) /\ k \in Out(q)
    BY <1>1, <1>3, <1>5, <2>1
  <2>2. CASE ~(j \in Out(q) /\ k \in Out(q))
    <3>1. q = r /\ isAgent /\ (j = i \/ k = i)
      BY <1>4, <2>2
    <3>2. \A l \in Out(r) : calls'[r][l].task \in Given(r) /\ calls'[r][i].task = call.task
      BY <1>1, <1>5, <1>6
    <3> QED
      BY <1>4, <1>8, <3>1, <3>2
  <2> QED
    BY <2>1, <2>2
<1>11. \A q \in Runs : IsFiniteSet(Given(q)')
  <2> TAKE q \in Runs
  <2>1. IsFiniteSet(Given(q)) /\ IsFiniteSet(Given(q) \union {call.task})
    BY <1>3, FS_AddElement
  <2> QED
    BY <1>7, <2>1
<1>12. ASSUME NEW q \in Runs, NEW d \in Roster
       PROVE  Cardinality({given \in Given(q)' : given[1] = d}) <= MaxCallsPerDelegate
  <2>1. CASE q = r /\ isAgent /\ call.task[1] = d
    <3> DEFINE old == {given \in Given(r) : given[1] = d}
    <3>1. {given \in Given(q)' : given[1] = d} = old \union {call.task}
      BY <1>7, <2>1
    <3>2. IsFiniteSet(old)
      BY <1>3, FS_Subset
    <3>3. Cardinality(old) \in Nat /\ Cardinality(old) < MaxCallsPerDelegate
      BY <1>8, <2>1, <3>2, FS_CardinalityType
    <3> HIDE DEF old
    <3>4. Cardinality(old \union {call.task}) <= Cardinality(old) + 1
      <4>1. Cardinality(old \union {call.task})
              = IF call.task \in old THEN Cardinality(old) ELSE Cardinality(old) + 1
        BY <3>2, FS_AddElement
      <4> QED
        BY <3>3, <4>1
    <3>5. Cardinality(old \union {call.task}) \in Nat
      BY <3>2, FS_AddElement, FS_CardinalityType
    <3>6. Cardinality(old \union {call.task}) <= MaxCallsPerDelegate
      <4>1. MaxCallsPerDelegate \in Nat
        BY Limits
      <4> QED
        BY <3>3, <3>4, <3>5, <4>1
    <3> QED
      BY <3>1, <3>6
  <2>2. CASE ~(q = r /\ isAgent /\ call.task[1] = d)
    <3>1. {given \in Given(q)' : given[1] = d} = {given \in Given(q) : given[1] = d}
      BY <1>7, <2>2
    <3> QED
      BY <1>3, <3>1
  <2> QED
    BY <2>1, <2>2
<1>13. \A q, x \in Runs : IsAgent(q)' /\ home'[x] = home'[q] => x = q
  <2> SUFFICES ASSUME NEW q \in Runs, NEW x \in Runs, IsAgent(q)', home'[x] = home'[q] PROVE x = q
    OBVIOUS
  <2>1. /\ \A y \in new : home'[y] = [run |-> r, call |-> i] /\ (IsAgent(y)' <=> isAgent)
        /\ \A y \in Runs \ new : home'[y] = home[y] /\ (IsAgent(y)' <=> IsAgent(y))
    BY BornKinds
  <2>2. \A y \in Runs : home[y] # [run |-> r, call |-> i]
    <3> SUFFICES ASSUME NEW y \in Runs, home[y] = [run |-> r, call |-> i] PROVE FALSE
      OBVIOUS
    <3>1. i \in Nat /\ i > 0
      BY TypeBearing
    <3>2. IsChild(y) /\ CallOf(y) = call
      BY <3>1 DEF IsChild, None, CallOf
    <3> QED
      BY <1>2, <3>2 DEF Inv, BirthInv, Started
  <2>3. CASE q \in new
    <3>1. x \in new /\ isAgent
      BY <2>1, <2>2, <2>3
    <3>2. Cardinality(new) <= 1
      BY <1>2, <1>8, <3>1
    <3>3. IsFiniteSet(new)
      <4>1. IsFiniteSet(Runs)
        BY FS_Interval, Limits DEF Runs
      <4> QED
        BY <1>2, <4>1, FS_Subset
    <3>4. Cardinality(new) \in Nat /\ Cardinality(new) # 0
      BY <2>3, <3>3, FS_CardinalityType, FS_EmptySet
    <3>5. Cardinality(new) = 1
      BY <3>2, <3>4
    <3>6. PICK y : new = {y}
      BY <3>3, <3>5, FS_Singleton
    <3> QED
      BY <2>3, <3>1, <3>6
  <2>4. CASE q \notin new
    BY <1>3, <2>1, <2>2, <2>4
  <2> QED
    BY <2>3, <2>4
<1> QED
  BY <1>9, <1>10, <1>11, <1>12, <1>13 DEF DelegateInv, Out

\* A child's lineage is its spawner's and itself.
LEMMA LineageOfChild ==
  ASSUME TypeInv, NEW x \in Runs, IsChild(x)
  PROVE  Lineage(x) = Lineage(home[x].run) \union {x}
<1> DEFINE Closed(set) == \A y \in set : IsChild(y) => home[y].run \in set
           p == home[x].run
<1>1. p \in Runs
  BY DEF TypeInv
<1>2. \A q \in Runs : Lineage(q) =
        {y \in Runs : IsChild(y) /\ \A set \in SUBSET Runs : q \in set /\ Closed(set) => y \in set}
  BY DEF Lineage
<1>3. ASSUME NEW set \in SUBSET Runs, p \in set, Closed(set)
      PROVE  set \union {x} \in SUBSET Runs /\ Closed(set \union {x}) /\ x \in set \union {x}
  BY <1>3
<1>4. ASSUME NEW set \in SUBSET Runs, x \in set, Closed(set) PROVE p \in set
  BY <1>4
<1> HIDE DEF Closed, p
<1>5. ASSUME NEW y \in Lineage(x), y # x PROVE y \in Lineage(p)
  <2>1. /\ y \in Runs /\ IsChild(y)
        /\ \A set \in SUBSET Runs : x \in set /\ Closed(set) => y \in set
    BY <1>2
  <2>2. ASSUME NEW set \in SUBSET Runs, p \in set, Closed(set) PROVE y \in set
    <3>1. y \in set \union {x}
      BY <1>3, <2>1, <2>2
    <3> QED
      BY <1>5, <3>1
  <2> QED
    BY <1>1, <1>2, <2>1, <2>2
<1>6. ASSUME NEW y \in Lineage(p) PROVE y \in Lineage(x)
  <2>1. /\ y \in Runs /\ IsChild(y)
        /\ \A set \in SUBSET Runs : p \in set /\ Closed(set) => y \in set
    BY <1>1, <1>2
  <2>2. ASSUME NEW set \in SUBSET Runs, x \in set, Closed(set) PROVE y \in set
    BY <1>4, <2>1, <2>2
  <2> QED
    BY <1>2, <2>1, <2>2
<1>7. x \in Lineage(x)
  BY <1>2
<1> QED
  BY <1>5, <1>6, <1>7 DEF p

LEMMA LineageLater ==
  (\A x, p \in Runs : TypeInv /\ IsChild(x) /\ home[x].run = p =>
     Lineage(x) = Lineage(p) \union {x})'
<1>1. \A x, p \in Runs : TypeInv /\ IsChild(x) /\ home[x].run = p =>
        Lineage(x) = Lineage(p) \union {x}
  BY LineageOfChild
<1> QED
  BY <1>1, PTL

\* A run that was there keeps its lineage.
LEMMA LineageStays ==
  ASSUME Inv, NEW r \in Runs, NEW i \in DOMAIN calls[r], NEW new, Bearing(r, i, new),
         NEW x \in Runs, x \notin new
  PROVE  Lineage(x)' = Lineage(x) /\ Lineage(x) \intersect new = {}
<1> DEFINE Closed(set) == \A y \in set : IsChild(y) => home[y].run \in set
           ClosedNow(set) == \A y \in set : IsChild(y)' => home'[y].run \in set
           Old == Runs \ new
<1>1. /\ new \in SUBSET Runs /\ new \intersect Born = {}
  BY DEF Bearing
<1>2. /\ \A y \in Old : home'[y] = home[y] /\ (IsChild(y)' <=> IsChild(y))
      /\ \A y \in new : home'[y].run = r /\ IsChild(y)' /\ ~IsChild(y)
  <2>1. /\ \A y \in Old : home'[y] = home[y] /\ (IsChild(y)' <=> IsChild(y))
        /\ \A y \in new : home'[y] = [run |-> r, call |-> i] /\ IsChild(y)'
    BY BornKinds
  <2>2. \A y \in new : ~IsChild(y)
    BY <1>1 DEF Inv, BirthInv
  <2> QED
    BY <2>1, <2>2
<1>3. r \in Old
  BY TypeBearing, <1>1
<1>4. \A y \in Runs : IsChild(y) => home[y].run \in Old
  BY <1>1 DEF Inv, BirthInv, Born
<1>5. \A set \in SUBSET Runs : Closed(set) => Closed(set \intersect Old) /\ ClosedNow(set \intersect Old)
  BY <1>2, <1>4
<1>6. \A set \in SUBSET Runs : ClosedNow(set) => Closed(set \intersect Old) /\ ClosedNow(set \intersect Old)
  BY <1>2, <1>4
<1>7. Lineage(x) = {y \in Runs : IsChild(y) /\ \A set \in SUBSET Runs : x \in set /\ Closed(set) => y \in set}
  BY DEF Lineage
<1>8. Lineage(x)' = {y \in Runs : IsChild(y)' /\ \A set \in SUBSET Runs : x \in set /\ ClosedNow(set) => y \in set}
  BY DEF Lineage
<1>9. x \in Old /\ Old \in SUBSET Runs /\ Runs \in SUBSET Runs
  OBVIOUS
<1>10. Closed(Runs) /\ ClosedNow(Runs)
  BY <1>2, <1>4, <1>3
<1> HIDE DEF Closed, ClosedNow, Old
<1>11. \A y \in Runs :
         (\A set \in SUBSET Runs : x \in set /\ Closed(set) => y \in set)
           <=> (\A set \in SUBSET Runs : x \in set /\ ClosedNow(set) => y \in set)
  <2> TAKE y \in Runs
  <2>1. ASSUME \A set \in SUBSET Runs : x \in set /\ Closed(set) => y \in set, NEW set \in SUBSET Runs,
               x \in set, ClosedNow(set)
        PROVE  y \in set
    <3>1. set \intersect Old \in SUBSET Runs /\ x \in set \intersect Old /\ Closed(set \intersect Old)
      BY <1>6, <1>9, <2>1
    <3> QED
      BY <2>1, <3>1
  <2>2. ASSUME \A set \in SUBSET Runs : x \in set /\ ClosedNow(set) => y \in set, NEW set \in SUBSET Runs,
               x \in set, Closed(set)
        PROVE  y \in set
    <3>1. set \intersect Old \in SUBSET Runs /\ x \in set \intersect Old /\ ClosedNow(set \intersect Old)
      BY <1>5, <1>9, <2>2
    <3> QED
      BY <2>2, <3>1
  <2> QED
    BY <2>1, <2>2
<1>12. \A y \in Runs :
         (\A set \in SUBSET Runs : x \in set /\ Closed(set) => y \in set) => y \in Old
  <2>1. Runs \intersect Old \in SUBSET Runs /\ x \in Runs \intersect Old /\ Closed(Runs \intersect Old)
    BY <1>5, <1>9, <1>10
  <2> QED
    BY <2>1
<1>13. Lineage(x) \intersect new = {}
  BY <1>7, <1>12 DEF Old
<1> QED
  BY <1>2, <1>7, <1>8, <1>11, <1>12, <1>13

LEMMA DepthBearing ==
  ASSUME Inv, NEW r \in Runs, NEW i \in DOMAIN calls[r], NEW new, Bearing(r, i, new)
  PROVE  DepthInv'
<1> DEFINE CloneLine(x) == {y \in Lineage(x) : IsClone(y)}
           isSpawn == calls[r][i].what = "spawn"
<1>1. /\ TypeInv' /\ r \in Born /\ ~IsAgent(r) /\ r \in Runs /\ depth \in [Runs -> Nat]
      /\ new \in SUBSET Runs /\ new \intersect Born = {} /\ r \notin new
  <2>1. TypeInv' /\ r \in Born /\ ~IsAgent(r)
    BY TypeBearing
  <2>2. depth \in [Runs -> Nat]
    BY DEF Inv, TypeInv
  <2>3. new \in SUBSET Runs /\ new \intersect Born = {}
    BY DEF Bearing
  <2> QED
    BY <2>1, <2>2, <2>3
<1>2. /\ \A x \in new : /\ home'[x] = [run |-> r, call |-> i] /\ IsChild(x)'
                        /\ IsClone(x)' <=> isSpawn
                        /\ IsAgent(x)' <=> calls[r][i].what = "delegate"
      /\ \A x \in Runs \ new : /\ home'[x] = home[x]
                               /\ IsChild(x)' <=> IsChild(x)
                               /\ IsClone(x)' <=> IsClone(x)
                               /\ IsAgent(x)' <=> IsAgent(x)
  BY BornKinds
<1>3. \A x \in Runs : depth'[x] = IF x \in new /\ isSpawn THEN depth[r] + 1 ELSE depth[x]
  BY DEF Bearing
<1>4. \A x \in Runs : Cardinality(CloneLine(x)) = Level(x) /\ depth[x] <= MaxDepth /\ depth[x] \in Nat
  BY <1>1 DEF Inv, DepthInv
<1>5. isSpawn => depth[r] + 1 <= MaxDepth
  <2>1. ~CallRefused(r, calls[r][i])
    BY DEF Bearing
  <2>2. isSpawn => ~(depth[r] >= MaxDepth)
    BY <2>1 DEF CallRefused, SpawnRefused
  <2>3. depth[r] \in Nat /\ MaxDepth \in Nat
    BY <1>1, Limits
  <2> HIDE DEF isSpawn
  <2> QED
    BY <2>2, <2>3
<1>6. \A x \in Runs : Lineage(x) \subseteq Runs /\ IsFiniteSet(CloneLine(x))
  <2>1. IsFiniteSet(Runs)
    BY FS_Interval, Limits DEF Runs
  <2>2. \A x \in Runs : CloneLine(x) \in SUBSET Runs /\ Lineage(x) \subseteq Runs
    BY DEF Lineage
  <2> QED
    BY <2>1, <2>2, FS_Subset
<1>7. calls[r][i].what \in {"spawn", "delegate"}
  <2>1. calls[r][i] \in CallRec
    BY DEF Inv, TypeInv
  <2> QED
    BY <2>1 DEF CallRec
<1>8. ASSUME NEW x \in Runs, x \notin new
      PROVE  CloneLine(x)' = CloneLine(x) /\ Level(x)' = Level(x)
  <2>1. Lineage(x)' = Lineage(x) /\ Lineage(x) \intersect new = {}
    BY <1>8, LineageStays
  <2>2. CloneLine(x)' = CloneLine(x)
    BY <1>2, <1>6, <2>1
  <2>3. IsAgent(x) => home[x].run \in Born
    BY DEF Inv, BirthInv, IsAgent
  <2>4. IsAgent(x) => home[x].run \in Runs /\ home[x].run \notin new
    BY <1>1, <2>3 DEF Born
  <2> QED
    BY <1>2, <1>3, <1>8, <2>2, <2>4 DEF Level
<1>9. ASSUME NEW x \in new
      PROVE  /\ CloneLine(x)' = IF isSpawn THEN CloneLine(r) \union {x} ELSE CloneLine(r)
             /\ x \notin CloneLine(r)
             /\ Level(x)' = IF isSpawn THEN depth[r] + 1 ELSE depth[r]
  <2>1. x \in Runs /\ IsChild(x)' /\ home'[x].run = r
    BY <1>1, <1>2
  <2>2. Lineage(x)' = Lineage(r)' \union {x}
    BY <1>1, <2>1, LineageLater
  <2>3. Lineage(r)' = Lineage(r) /\ Lineage(r) \intersect new = {} /\ CloneLine(r)' = CloneLine(r)
    BY <1>1, <1>8, LineageStays
  <2>4. CloneLine(x)' = {y \in Lineage(r)' \union {x} : IsClone(y)'}
    BY <2>2
  <2>5. CloneLine(x)' = IF isSpawn THEN CloneLine(r)' \union {x} ELSE CloneLine(r)'
    BY <1>2, <2>4
  <2>6. Level(x)' = IF isSpawn THEN depth[r] + 1 ELSE depth[r]
    BY <1>1, <1>2, <1>3, <1>7, <2>1 DEF Level
  <2> QED
    BY <2>3, <2>5, <2>6
<1>10. Level(r) = depth[r]
  BY <1>1 DEF Level
<1> HIDE DEF CloneLine
<1>11. ASSUME NEW x \in Runs
       PROVE  depth'[x] <= MaxDepth /\ Cardinality(CloneLine(x))' = Level(x)'
  <2>1. depth'[x] <= MaxDepth
    BY <1>3, <1>4, <1>5
  <2>2. CASE x \notin new
    BY <1>4, <1>8, <2>1, <2>2
  <2>3. CASE x \in new
    <3>1. CASE isSpawn
      <4>1. Cardinality(CloneLine(r) \union {x}) = Cardinality(CloneLine(r)) + 1
        BY <1>1, <1>6, <1>9, <2>3, FS_AddElement
      <4> QED
        BY <1>1, <1>4, <1>9, <1>10, <2>1, <2>3, <3>1, <4>1
    <3>2. CASE ~isSpawn
      BY <1>1, <1>4, <1>9, <1>10, <2>1, <2>3, <3>2
    <3> QED
      BY <3>1, <3>2
  <2> QED
    BY <2>2, <2>3
<1> QED
  BY <1>11 DEF DepthInv, CloneLine

-----------------------------------------------------------------------------

LEMMA InvStep == Inv /\ [Next]_vars => Inv'
<1> SUFFICES ASSUME Inv, [Next]_vars PROVE Inv'
  OBVIOUS
<1>1. \/ Quiet /\ UNCHANGED calls
      \/ \E r \in Runs : Asking(r)
      \/ \E r \in Runs : \E i \in DOMAIN calls[r] : Marking(r, i) \/ BeginCall(r, i)
  BY StepCases DEF Inv
<1>2. ASSUME NEW r \in Runs, NEW i \in DOMAIN calls[r], BeginCall(r, i) PROVE Inv'
  <2>1. PICK new \in SUBSET Runs : Bearing(r, i, new)
    BY <1>2, RunsBegin
  <2> QED
    BY <2>1, TypeBearing, BirthBearing, CountBearing, DelegateBearing, DepthBearing DEF Inv
<1> QED
  BY <1>1, <1>2, InvQuiet, InvAsking, InvMarking

LEMMA InvInit == Init => Inv
<1> SUFFICES ASSUME Init PROVE Inv
  OBVIOUS
<1>1. Root \in Runs /\ 0 \in Nat /\ Runs = 0..MaxChildren /\ MaxChildren \in Nat
  BY Limits DEF Root, Runs
<1>2. TypeInv
  <2>1. <<>> \in Seq(CallRec)
    OBVIOUS
  <2>2. None \in [run : Runs, call : Nat]
    BY <1>1 DEF None
  <2> QED
    BY <1>1, <2>1, <2>2 DEF Init, TypeInv
<1>3. \A x \in Runs : ~IsChild(x) /\ ~IsClone(x) /\ ~IsAgent(x)
  BY DEF Init, IsChild, IsClone, IsAgent
<1>4. BirthInv
  <2>1. Born = 0..(1 - 1)
    <3>1. Born = {Root}
      BY <1>1 DEF Init, Born
    <3> QED
      BY <3>1 DEF Root
  <2>2. 1 \in 1..(MaxChildren + 1)
    BY <1>1
  <2>3. \A x \in Runs : home[x] = None /\ calls[x] = <<>> /\ phase[x] # "start" /\ outcome[x] # "raised"
    BY DEF Init
  <2> QED
    BY <1>1, <1>3, <2>1, <2>2, <2>3 DEF BirthInv
<1>5. CountInv
  <2>1. \A r \in Runs : Clones(r) = {}
    BY <1>3 DEF Clones
  <2>2. \A r \in Runs : Cardinality(Clones(r)) = 0 /\ count[r] = 0
    BY <2>1, FS_EmptySet DEF Init
  <2> QED
    BY <2>2, Limits DEF CountInv
<1>6. DelegateInv
  <2>1. \A r \in Runs : calls[r] = <<>>
    BY DEF Init
  <2>2. \A r \in Runs : Calls(r, "delegate", {"running", "ok"}) = {}
    BY <2>1 DEF Calls
  <2>3. \A r \in Runs : Given(r) = {}
    BY <2>2 DEF Given
  <2>4. \A r \in Runs : \A d \in Roster : {given \in Given(r) : given[1] = d} = {}
    BY <2>3
  <2>5. IsFiniteSet({}) /\ Cardinality({}) = 0
    BY FS_EmptySet
  <2>6. \A r \in Runs : \A d \in Roster :
          Cardinality({given \in Given(r) : given[1] = d}) <= MaxCallsPerDelegate
    <3>1. \A r \in Runs : \A d \in Roster : Cardinality({given \in Given(r) : given[1] = d}) = 0
      BY <2>4, <2>5
    <3> QED
      BY <3>1, Limits
  <2>7. \A r \in Runs : IsFiniteSet(Given(r)) /\ DOMAIN calls[r] = {}
    BY <2>1, <2>3, <2>5
  <2> HIDE DEF Init
  <2> QED
    BY <1>3, <2>2, <2>6, <2>7 DEF DelegateInv
<1>7. DepthInv
  <2>1. \A x \in Runs : {y \in Lineage(x) : IsClone(y)} = {}
    BY <1>3 DEF Lineage
  <2>2. \A x \in Runs : depth[x] = 0 /\ Level(x) = 0
    BY <1>3 DEF Init, Level
  <2> QED
    BY <2>1, <2>2, FS_EmptySet, Limits DEF DepthInv
<1> QED
  BY <1>2, <1>4, <1>5, <1>6, <1>7 DEF Inv

\* A delegate's runs each hand out a task of its own.
LEMMA DelegatesBounded ==
  ASSUME Inv, NEW r \in Runs, NEW d \in Roster
  PROVE  LET runs == {x \in Runs : IsAgent(x) /\ home[x].run = r /\ CallOf(x).task[1] = d}
         IN /\ Cardinality(runs) <= MaxCallsPerDelegate
            /\ \A x, y \in runs : CallOf(x).task = CallOf(y).task => x = y
<1> DEFINE runs == {x \in Runs : IsAgent(x) /\ home[x].run = r /\ CallOf(x).task[1] = d}
           tasks == {given \in Given(r) : given[1] = d}
           task == [x \in runs |-> CallOf(x).task]
<1>1. \A x \in runs :
        /\ home[x].call \in Calls(r, "delegate", {"running", "ok"})
        /\ CallOf(x) = calls[r][home[x].call]
  <2> TAKE x \in runs
  <2>1. /\ home[x].call \in DOMAIN calls[r] /\ CallOf(x) = calls[r][home[x].call]
        /\ CallOf(x).state \in Started /\ CallOf(x).what = "delegate"
    BY DEF Inv, BirthInv, IsAgent, CallOf
  <2>2. CallOf(x).state # "error"
    BY <2>1 DEF Inv, DelegateInv
  <2> QED
    BY <2>1, <2>2 DEF Calls, Started
<1>2. \A x, y \in runs : CallOf(x).task = CallOf(y).task => x = y
  <2> SUFFICES ASSUME NEW x \in runs, NEW y \in runs, CallOf(x).task = CallOf(y).task PROVE x = y
    OBVIOUS
  <2>1. home[x].call = home[y].call
    BY <1>1 DEF Inv, DelegateInv
  <2>2. home[x] = home[y]
    <3>1. home[x] \in [run : Runs, call : Nat] /\ home[y] \in [run : Runs, call : Nat]
      BY DEF Inv, TypeInv
    <3> QED
      BY <2>1, <3>1
  <2> QED
    BY <2>2 DEF Inv, DelegateInv
<1>3. \A x \in runs : CallOf(x).task \in tasks
  BY <1>1 DEF Given
<1>4. IsFiniteSet(tasks) /\ Cardinality(tasks) <= MaxCallsPerDelegate /\ Cardinality(tasks) \in Nat
  <2>1. IsFiniteSet(Given(r)) /\ Cardinality(tasks) <= MaxCallsPerDelegate
    BY DEF Inv, DelegateInv
  <2> QED
    BY <2>1, FS_Subset, FS_CardinalityType
<1> HIDE DEF runs, tasks
<1>5. task \in Injection(runs, tasks)
  BY <1>2, <1>3 DEF Injection, IsInjective
<1>6. IsFiniteSet(runs) /\ Cardinality(runs) <= Cardinality(tasks)
  BY <1>4, <1>5, FS_Injection
<1>7. Cardinality(runs) \in Nat
  BY <1>6, FS_CardinalityType
<1>8. Cardinality(runs) <= MaxCallsPerDelegate
  BY <1>4, <1>6, <1>7, Limits
<1> QED
  BY <1>2, <1>8 DEF runs

\* However the calls of a run's batches interleave and clones nest: a run has no
\* more clones than its cap, none is deeper than the limit, no task is handed to
\* a delegate twice, and none runs past its budget (clones.py, delegate.py).
THEOREM LimitsHoldAlways == Spec => []LimitsHold
<1>1. Inv => LimitsHold
  <2> SUFFICES ASSUME Inv, NEW r \in Runs
               PROVE  /\ Cardinality(Clones(r)) <= MaxPerRun
                      /\ Cardinality({x \in Lineage(r) : IsClone(x)}) <= MaxDepth
    BY DelegatesBounded DEF LimitsHold, Clones
  <2>1. Cardinality(Clones(r)) <= MaxPerRun
    <3>1. IsFiniteSet(Runs)
      BY FS_Interval, Limits DEF Runs
    <3>2. Cardinality(Clones(r)) \in Nat
      BY <3>1, FS_Subset, FS_CardinalityType DEF Clones
    <3>3. count[r] \in Nat /\ Cardinality(Clones(r)) <= count[r] /\ count[r] <= MaxPerRun
      BY DEF Inv, CountInv, TypeInv
    <3> QED
      BY <3>2, <3>3, Limits
  <2>2. Level(r) <= MaxDepth
    <3>1. IsAgent(r) => home[r].run \in Runs
      BY DEF Inv, TypeInv
    <3> QED
      BY <3>1 DEF Level, Inv, DepthInv
  <2>3. Cardinality({x \in Lineage(r) : IsClone(x)}) = Level(r)
    BY DEF Inv, DepthInv
  <2> QED
    BY <2>1, <2>2, <2>3
<1> QED
  BY <1>1, InvInit, InvStep, PTL DEF Spec

LEMMA PassesBegin ==
  ASSUME TypeInv, [Next]_vars, NEW r \in Runs, phase'[r] = "model"
  PROVE  phase[r] = "model" \/ (phase[r] = "boundary" /\ ~Cancelled(r))
<1>1. CASE UNCHANGED vars \/ (\E q \in Runs : Cancel(q)) \/ Close
  BY <1>1 DEF vars, Cancel, Close, TypeInv
<1>2. ASSUME NEW q \in Runs, RunStep(q)
      PROVE  phase[r] = "model" \/ (phase[r] = "boundary" /\ ~Cancelled(r))
  <2>1. CASE BeginPass(q)
    BY <2>1 DEF BeginPass, TypeInv
  <2>2. CASE CallStep(q)
    <3> SUFFICES ASSUME NEW i \in DOMAIN calls[q],
                        RefuseCall(q, i) \/ PromptRaises(q, i) \/ ReturnCall(q, i) \/ BeginCall(q, i)
                 PROVE  phase[r] = "model"
      BY <2>2 DEF CallStep
    <3>1. CASE RefuseCall(q, i) \/ PromptRaises(q, i) \/ ReturnCall(q, i)
      <4>1. phase' = phase
        BY <3>1, Zenon DEF RefuseCall, PromptRaises, ReturnCall
      <4> QED
        BY <4>1
    <3>2. CASE BeginCall(q, i)
      BY <3>2 DEF BeginCall
    <3> QED
      BY <3>1, <3>2
  <2>3. CASE phase[q] = "model" /\ \E asks \in Responses(q) : ModelAnswers(q, asks)
    BY <2>3 DEF ModelAnswers, EndRun, TypeInv
  <2>4. CASE StopAtBoundary(q) \/ Fail(q) \/ EndBatch(q) \/ BeginClone(q) \/ HookRaises(q) \/ Abandon(q)
    BY <2>4 DEF StopAtBoundary, Fail, EndRun, EndBatch, BeginClone, HookRaises, Abandon, TypeInv
  <2> QED
    BY <1>2, <2>1, <2>2, <2>3, <2>4 DEF RunStep, LoopStep
<1> QED
  BY <1>1, <1>2 DEF Next

\* A run's control is there once its loop is, and so are those above it.
Begun(x) == phase[x] \in {"boundary", "model", "tools"} \/ calls[x] # <<>>

\* The control of a clone that began hangs on its spawner's.
ControlInv ==
  /\ parent \in [Runs -> SUBSET Runs]
  /\ \A x \in Runs : IsClone(x) /\ Begun(x) => parent[x] = {home[x].run}

\* A run that was there stays the kind of run it is; a clone just made waits.
LEMMA KindsStay ==
  ASSUME Inv, [Next]_vars, NEW x \in Runs
  PROVE  /\ x \in Born => home'[x] = home[x] /\ (IsClone(x)' <=> IsClone(x))
         /\ x \notin Born => ~(IsClone(x)' /\ Begun(x)')
<1>1. ASSUME Kept, UNCHANGED home, Born' = Born
      PROVE  /\ home'[x] = home[x] /\ (IsClone(x)' <=> IsClone(x))
             /\ x \notin Born => ~IsClone(x)'
  <2>1. IsClone(x)' <=> IsClone(x)
    BY <1>1, SameKind DEF Inv
  <2>2. x \notin Born => ~IsClone(x)
    BY DEF Inv, BirthInv, IsClone, IsChild
  <2> QED
    BY <1>1, <2>1, <2>2
<1>2. CASE Quiet /\ UNCHANGED calls
  <2>1. Kept
    BY <1>2, TypeQuiet
  <2> QED
    BY <1>1, <1>2, <2>1 DEF Quiet, bornVars
<1>3. ASSUME NEW r \in Runs, Asking(r)
      PROVE  home'[x] = home[x] /\ (IsClone(x)' <=> IsClone(x)) /\ (x \notin Born => ~IsClone(x)')
  <2>1. Kept
    BY <1>3, TypeAsking
  <2> QED
    BY <1>1, <1>3, <2>1 DEF Asking, Quiet, bornVars
<1>4. ASSUME NEW r \in Runs, NEW i \in DOMAIN calls[r], Marking(r, i)
      PROVE  home'[x] = home[x] /\ (IsClone(x)' <=> IsClone(x)) /\ (x \notin Born => ~IsClone(x)')
  <2>1. Kept
    BY <1>4, TypeMarking
  <2>2. UNCHANGED home /\ Born' = Born
    BY <1>4 DEF Marking, Born
  <2> QED
    BY <1>1, <2>1, <2>2
<1>5. ASSUME NEW r \in Runs, NEW i \in DOMAIN calls[r], BeginCall(r, i)
      PROVE  /\ x \in Born => home'[x] = home[x] /\ (IsClone(x)' <=> IsClone(x))
             /\ x \notin Born => ~(IsClone(x)' /\ Begun(x)')
  <2>1. PICK new \in SUBSET Runs : Bearing(r, i, new)
    BY <1>5, RunsBegin
  <2>2. new \intersect Born = {}
    BY <2>1 DEF Bearing
  <2>3. CASE x \in new
    <3>1. x \notin Born /\ calls[x] = <<>>
      BY <2>2, <2>3 DEF Inv, BirthInv
    <3>2. r \in Born /\ Kept
      BY <2>1, TypeBearing
    <3>3. calls'[x] = <<>>
      BY <3>1, <3>2 DEF Kept
    <3>4. IsClone(x)' => calls[r][i].what = "spawn"
      <4>1. \A y \in new : home'[y] = [run |-> r, call |-> i] /\ (IsClone(y)' <=> calls[r][i].what = "spawn")
        BY <2>1, BornKinds
      <4> QED
        BY <2>3, <4>1
    <3>5. calls[r][i].what = "spawn" => phase'[x] = "start"
      BY <2>1, <2>3 DEF Bearing
    <3> QED
      BY <3>1, <3>3, <3>4, <3>5 DEF Begun
  <2>4. CASE x \notin new
    <3>1. home'[x] = home[x] /\ (IsClone(x)' <=> IsClone(x))
      BY <2>1, <2>4, BornKinds
    <3>2. x \notin Born => ~IsClone(x)
      BY DEF Inv, BirthInv, IsClone, IsChild
    <3> QED
      BY <3>1, <3>2
  <2> QED
    BY <2>3, <2>4
<1>6. \/ Quiet /\ UNCHANGED calls
      \/ \E r \in Runs : Asking(r)
      \/ \E r \in Runs : \E i \in DOMAIN calls[r] : Marking(r, i) \/ BeginCall(r, i)
  BY StepCases DEF Inv
<1> QED
  BY <1>2, <1>3, <1>4, <1>5, <1>6

\* A run begins with its control in place, and no other control changes hands.
LEMMA ControlMoves ==
  ASSUME Inv, ControlInv, [Next]_vars, NEW x \in Runs, x \in Born, Begun(x)'
  PROVE  \/ Begun(x) /\ parent'[x] = parent[x]
         \/ parent'[x] = {home[x].run}
<1> DEFINE Goal == \/ Begun(x) /\ parent'[x] = parent[x]
                   \/ parent'[x] = {home[x].run}
<1> SUFFICES Goal
  OBVIOUS
<1>1. CASE UNCHANGED vars \/ (\E q \in Runs : Cancel(q)) \/ Close
  BY <1>1 DEF vars, Cancel, Close, controlVars, Begun, Inv, TypeInv
<1>2. ASSUME NEW q \in Runs, RunStep(q) PROVE Goal
  <2>1. CASE StopAtBoundary(q) \/ Fail(q) \/ BeginPass(q) \/ EndBatch(q) \/ HookRaises(q) \/ Abandon(q)
    BY <2>1 DEF StopAtBoundary, Fail, BeginPass, EndBatch, HookRaises, Abandon, EndRun, controlVars,
                Begun, Inv, TypeInv
  <2>2. CASE phase[q] = "model" /\ \E asks \in Responses(q) : ModelAnswers(q, asks)
    BY <2>2 DEF ModelAnswers, EndRun, controlVars, Begun, Inv, TypeInv
  <2>3. CASE BeginClone(q)
    BY <2>3 DEF BeginClone, ControlFor, ControlInv, Begun, Inv, TypeInv
  <2>4. CASE CallStep(q)
    <3>1. PICK i \in DOMAIN calls[q] :
            RefuseCall(q, i) \/ PromptRaises(q, i) \/ ReturnCall(q, i) \/ BeginCall(q, i)
      BY <2>4 DEF CallStep
    <3>2. PICK st \in {"asked", "refused"} \union Started : calls' = [calls EXCEPT ![q][i].state = st]
      BY <3>1, Zenon DEF RefuseCall, PromptRaises, ReturnCall, BeginCall, Started
    <3>3. calls'[x] # <<>> => calls[x] # <<>>
      BY <3>2 DEF Inv, TypeInv
    <3>4. parent'[x] = parent[x]
      BY <3>1 DEF RefuseCall, PromptRaises, ReturnCall, BeginCall, controlVars
    <3>5. phase'[x] = phase[x]
      <4>1. CASE BeginCall(q, i)
        <5>1. PICK new \in SUBSET Runs : Bearing(q, i, new)
          BY <4>1, RunsBegin
        <5> QED
          BY <5>1 DEF Bearing
      <4> QED
        BY <3>1, <4>1 DEF RefuseCall, PromptRaises, ReturnCall
    <3> QED
      BY <3>3, <3>4, <3>5 DEF Begun
  <2> QED
    BY <1>2, <2>1, <2>2, <2>3, <2>4 DEF RunStep, LoopStep
<1> QED
  BY <1>1, <1>2 DEF Next

LEMMA ControlStep == Inv /\ ControlInv /\ [Next]_vars => ControlInv'
<1> SUFFICES ASSUME Inv, ControlInv, [Next]_vars PROVE ControlInv'
  OBVIOUS
<1>1. parent' \in [Runs -> SUBSET Runs]
  <2> DEFINE Goal == parent' = parent \/ \E q \in Runs : BeginClone(q)
  <2>1. ASSUME UNCHANGED vars \/ (\E q \in Runs : Cancel(q)) \/ Close PROVE Goal
    BY <2>1 DEF vars, Cancel, Close, controlVars
  <2>2. ASSUME NEW q \in Runs, RunStep(q) PROVE Goal
    <3>1. CASE StopAtBoundary(q) \/ Fail(q) \/ BeginPass(q) \/ EndBatch(q) \/ HookRaises(q)
               \/ Abandon(q)
      BY <3>1 DEF StopAtBoundary, Fail, BeginPass, EndBatch, HookRaises, Abandon, controlVars
    <3>2. CASE phase[q] = "model" /\ \E asks \in Responses(q) : ModelAnswers(q, asks)
      BY <3>2 DEF ModelAnswers, controlVars
    <3>3. CASE CallStep(q)
      <4>1. PICK i \in DOMAIN calls[q] :
              RefuseCall(q, i) \/ PromptRaises(q, i) \/ ReturnCall(q, i) \/ BeginCall(q, i)
        BY <3>3 DEF CallStep
      <4> QED
        BY <4>1, Zenon DEF RefuseCall, PromptRaises, ReturnCall, BeginCall, controlVars
    <3> QED
      BY <2>2, <3>1, <3>2, <3>3 DEF RunStep, LoopStep
  <2>3. Goal
    BY <2>1, <2>2 DEF Next
  <2>4. \A q \in Runs : {home[q].run} \in SUBSET Runs
    BY DEF Inv, TypeInv
  <2> QED
    BY <2>3, <2>4 DEF BeginClone, ControlFor, ControlInv
<1>2. ASSUME NEW x \in Runs, IsClone(x)', Begun(x)' PROVE parent'[x] = {home'[x].run}
  <2>1. x \in Born /\ home'[x] = home[x] /\ IsClone(x)
    BY <1>2, KindsStay
  <2>2. (Begun(x) /\ parent'[x] = parent[x]) \/ parent'[x] = {home[x].run}
    BY <1>2, <2>1, ControlMoves
  <2> QED
    BY <2>1, <2>2 DEF ControlInv
<1> QED
  BY <1>1, <1>2 DEF ControlInv

LEMMA ControlInit == Init => ControlInv
BY DEF Init, ControlInv, IsClone, IsChild, None

\* The controls above a run's own are those of the runs it works for.
LEMMA ChainReaches ==
  ASSUME Inv, ControlInv, NEW r \in Runs, Begun(r)
  PROVE  WorksFor(r) \subseteq Chain(r)
<1> SUFFICES ASSUME NEW x \in WorksFor(r), NEW set \in SUBSET Runs, r \in set,
                    \A y \in set : parent[y] \subseteq set
             PROVE  x \in set
  BY DEF Chain, WorksFor
<1> DEFINE mine == {y \in set : Begun(y)}
<1>1. mine \in SUBSET Runs /\ r \in mine
  OBVIOUS
<1>2. ASSUME NEW y \in mine, IsClone(y) PROVE home[y].run \in mine
  <2>1. home[y].run \in set
    BY <1>2 DEF ControlInv
  <2>2. calls[home[y].run] # <<>>
    BY <1>2 DEF Inv, BirthInv, IsClone
  <2> QED
    BY <2>1, <2>2 DEF Begun
<1>3. x \in mine
  BY <1>1, <1>2 DEF WorksFor
<1> QED
  BY <1>3

\* A cancelled run and every run that works for it, through clones of clones,
\* begin no further pass, whether or not their spawners still wait for them.
THEOREM CancelReachesAllAlways == Spec => CancelReachesAll
<1>1. Inv /\ ControlInv /\ [Next]_vars =>
        [\A r \in Runs : phase'[r] = "model" /\ phase[r] # "model" =>
           \A x \in WorksFor(r) : ~cancelled[x]]_vars
  <2> SUFFICES ASSUME Inv, ControlInv, [Next]_vars, NEW r \in Runs,
                      phase'[r] = "model", phase[r] # "model", NEW x \in WorksFor(r)
               PROVE  ~cancelled[x]
    OBVIOUS
  <2>1. phase[r] = "boundary" /\ ~Cancelled(r)
    BY PassesBegin DEF Inv
  <2>2. x \in Chain(r)
    BY <2>1, ChainReaches DEF Begun
  <2> QED
    BY <2>1, <2>2 DEF Cancelled
<1> QED
  BY <1>1, InvInit, InvStep, ControlInit, ControlStep, PTL DEF Spec, CancelReachesAll

-----------------------------------------------------------------------------
(* What the runs used: the inductive invariants *)

\* A run is made after the one it comes from.
OrderInv ==
  \A x \in Runs :
    /\ IsChild(x) => home[x].run < x
    /\ x \in Born /\ x # Root => IsChild(x)

\* A run has its outcome just when it is over, and a call that came back with
\* its results had them all.
EndedInv ==
  \A x \in Runs :
    /\ outcome[x] = "none" <=> phase[x] # "over"
    /\ IsChild(x) /\ CallOf(x).state = "ok" => outcome[x] \in Reporting \union {"failed"}

\* A call is under way in the pass that asked for it, before the run goes on.
PassInv ==
  \A r \in Runs : \A i \in DOMAIN calls[r] :
    /\ calls[r][i].pass <= passes[r]
    /\ calls[r][i].state \in {"asked", "running"} =>
         calls[r][i].pass = passes[r] /\ phase[r] \in {"tools", "over"}

\* The children whose usage a run has in its own: not those of the batch it waits for.
Settled(r) ==
  {x \in Runs :
     /\ IsChild(x) /\ home[x].run = r /\ outcome[x] \in Reporting /\ CallOf(x).state = "ok"
     /\ phase[r] = "tools" => CallOf(x).pass # passes[r]}

UsageOf(r) ==
  outcome[r] # "lost" => usage[r] = passes[r] + SumFunctionOnSet(usage, Settled(r))

UsageInv == usage \in [Runs -> Nat] /\ \A r \in Runs : UsageOf(r)

SpendInv == OrderInv /\ EndedInv /\ PassInv /\ UsageInv

LEMMA RunsFinite == IsFiniteSet(Runs) /\ \A S \in SUBSET Runs : IsFiniteSet(S)
<1>1. 0 \in Int /\ MaxChildren \in Int
  BY Limits
<1>2. IsFiniteSet(Runs)
  BY <1>1, FS_Interval DEF Runs
<1> QED
  BY <1>2, FS_Subset

\* The sum stays as it is if the children settled and what they used do.
LEMMA UsageKept ==
  ASSUME UsageInv, usage' \in [Runs -> Nat], passes \in [Runs -> Nat], NEW q \in Runs,
         Settled(q)' = Settled(q), \A x \in Settled(q) : usage'[x] = usage[x],
         \/ usage'[q] = usage[q] /\ passes'[q] = passes[q]
         \/ usage'[q] = usage[q] + 1 /\ passes'[q] = passes[q] + 1,
         outcome[q] = "lost" => outcome'[q] = "lost"
  PROVE  UsageOf(q)'
<1>1. Settled(q) \subseteq Runs /\ \A x \in Settled(q) : usage[x] \in Nat
  BY DEF UsageInv, Settled
<1>2. IsFiniteSet(Settled(q))
  BY <1>1, RunsFinite
<1>3. /\ SumFunctionOnSet(usage', Settled(q)) = SumFunctionOnSet(usage, Settled(q))
      /\ SumFunctionOnSet(usage, Settled(q)) \in Nat
  BY <1>1, <1>2, SumSame, SumType
<1>4. outcome'[q] # "lost" => usage[q] = passes[q] + SumFunctionOnSet(usage, Settled(q))
  BY DEF UsageInv, UsageOf
<1>5. usage[q] \in Nat /\ passes[q] \in Nat
  BY DEF UsageInv
<1>6. outcome'[q] # "lost" => usage'[q] = passes'[q] + SumFunctionOnSet(usage', Settled(q))
  BY <1>3, <1>4, <1>5
<1> QED
  BY <1>6 DEF UsageOf


-----------------------------------------------------------------------------
(* What the runs used: the steps *)

\* A run ends; its last pass may come with it.
LEMMA SpendEnds ==
  ASSUME Inv, SpendInv, NEW r \in Runs, NEW how, phase[r] # "over", how # "none",
         phase' = [phase EXCEPT ![r] = "over"], outcome' = [outcome EXCEPT ![r] = how],
         UNCHANGED <<home, calls>>,
         \/ UNCHANGED <<passes, usage>> /\ (phase[r] = "tools" => how = "lost")
         \/ /\ phase[r] = "model" /\ passes' = [passes EXCEPT ![r] = @ + 1]
            /\ usage' = [usage EXCEPT ![r] = @ + 1]
  PROVE  EndedInv' /\ PassInv' /\ UsageInv'
<1>1. /\ phase \in [Runs -> {"none", "start", "boundary", "model", "tools", "over"}]
      /\ DOMAIN outcome = Runs /\ passes \in [Runs -> Nat] /\ usage \in [Runs -> Nat]
      /\ calls \in [Runs -> Seq(CallRec)]
  BY DEF Inv, TypeInv, SpendInv, UsageInv
<1>2. outcome[r] = "none" /\ outcome'[r] = how /\ phase'[r] = "over"
  BY <1>1 DEF SpendInv, EndedInv
<1>3. \A x \in Runs : /\ IsChild(x)' <=> IsChild(x)
                      /\ CallOf(x)' = CallOf(x)
  BY DEF IsChild, CallOf
<1>4. \A x \in Runs \ {r} : /\ outcome'[x] = outcome[x] /\ phase'[x] = phase[x]
                            /\ passes'[x] = passes[x] /\ usage'[x] = usage[x]
  BY <1>1
<1>5. ~(IsChild(r) /\ CallOf(r).state = "ok")
  BY <1>2 DEF SpendInv, EndedInv, Reporting
<1>6. EndedInv'
  BY <1>2, <1>3, <1>4, <1>5 DEF SpendInv, EndedInv
<1>7. \/ passes'[r] = passes[r] /\ usage'[r] = usage[r]
      \/ phase[r] = "model" /\ passes'[r] = passes[r] + 1 /\ usage'[r] = usage[r] + 1
  BY <1>1
<1>8. PassInv'
  <2> SUFFICES ASSUME NEW q \in Runs, NEW i \in DOMAIN calls[q]
               PROVE  /\ calls[q][i].pass <= passes'[q]
                      /\ calls[q][i].state \in {"asked", "running"} =>
                           calls[q][i].pass = passes'[q] /\ phase'[q] \in {"tools", "over"}
    BY DEF PassInv
  <2>1. /\ calls[q][i].pass <= passes[q]
        /\ calls[q][i].state \in {"asked", "running"} =>
             calls[q][i].pass = passes[q] /\ phase[q] \in {"tools", "over"}
    BY DEF SpendInv, PassInv
  <2>2. calls[q][i].pass \in Nat /\ passes[q] \in Nat
    <3>1. calls[q][i] \in CallRec
      BY <1>1
    <3> QED
      BY <1>1, <3>1 DEF CallRec
  <2>3. CASE q # r
    BY <1>4, <2>1, <2>3
  <2>4. CASE q = r
    BY <1>2, <1>7, <2>1, <2>2, <2>4
  <2> QED
    BY <2>3, <2>4
<1>9. usage' \in [Runs -> Nat]
  <2>1. CASE usage' = usage
    BY <1>1, <2>1
  <2>2. CASE usage' = [usage EXCEPT ![r] = @ + 1]
    <3>1. usage[r] + 1 \in Nat
      BY <1>1
    <3> QED
      BY <1>1, <2>2, <3>1
  <2> QED
    BY <2>1, <2>2
<1>10. ASSUME NEW q \in Runs PROVE UsageOf(q)'
  <2>1. CASE q = r /\ how = "lost"
    BY <1>2, <2>1 DEF UsageOf
  <2>2. CASE q = r /\ how # "lost"
    <3>1. phase[r] # "tools"
      BY <2>2
    <3>2. Settled(r)' = Settled(r) /\ r \notin Settled(r)
      BY <1>2, <1>3, <1>4, <1>5, <3>1 DEF Settled
    <3>3. \A x \in Settled(r) : usage'[x] = usage[x]
      BY <1>4, <3>2 DEF Settled
    <3> QED
      BY <1>1, <1>2, <1>7, <1>9, <2>2, <3>2, <3>3, UsageKept DEF SpendInv
  <2>3. CASE q # r
    <3>1. Settled(q)' = Settled(q) /\ r \notin Settled(q)
      BY <1>2, <1>3, <1>4, <1>5, <2>3 DEF Settled
    <3>2. \A x \in Settled(q) : usage'[x] = usage[x]
      BY <1>4, <3>1 DEF Settled
    <3> QED
      BY <1>1, <1>4, <1>9, <2>3, <3>1, <3>2, UsageKept DEF SpendInv
  <2> QED
    BY <2>1, <2>2, <2>3
<1> QED
  BY <1>6, <1>8, <1>9, <1>10 DEF UsageInv

\* A run goes on to its next pass, or a clone to its first.
LEMMA SpendMoves ==
  ASSUME Inv, SpendInv, NEW r \in Runs, NEW to, phase[r] \notin {"tools", "over"},
         to \in {"boundary", "model"}, phase' = [phase EXCEPT ![r] = to],
         UNCHANGED <<outcome, home, calls, passes, usage>>
  PROVE  EndedInv' /\ PassInv' /\ UsageInv'
<1>1. /\ DOMAIN phase = Runs /\ passes \in [Runs -> Nat] /\ usage \in [Runs -> Nat]
  BY DEF Inv, TypeInv, SpendInv, UsageInv
<1>2. phase'[r] \notin {"tools", "over"} /\ \A x \in Runs \ {r} : phase'[x] = phase[x]
  BY <1>1
<1>3. \A x \in Runs : /\ IsChild(x)' <=> IsChild(x)
                      /\ CallOf(x)' = CallOf(x)
  BY DEF IsChild, CallOf
<1>4. EndedInv' /\ PassInv'
  BY <1>2, <1>3 DEF SpendInv, EndedInv, PassInv
<1>5. ASSUME NEW q \in Runs PROVE UsageOf(q)'
  <2>1. Settled(q)' = Settled(q)
    BY <1>2, <1>3 DEF Settled
  <2> QED
    BY <1>1, <2>1, UsageKept DEF SpendInv, Settled
<1> QED
  BY <1>1, <1>4, <1>5 DEF UsageInv

\* Nothing of this is touched.
LEMMA SpendStays ==
  ASSUME Inv, SpendInv, UNCHANGED <<phase, outcome, home, calls, passes, usage>>
  PROVE  EndedInv' /\ PassInv' /\ UsageInv'
BY DEF SpendInv, EndedInv, PassInv, UsageInv, UsageOf, Settled, IsChild, CallOf


\* The model asks for calls, and the run waits for them.
LEMMA SpendAsks ==
  ASSUME Inv, SpendInv, NEW r \in Runs, NEW more \in Seq(CallRec), phase[r] = "model",
         phase' = [phase EXCEPT ![r] = "tools"], UNCHANGED <<outcome, home>>,
         passes' = [passes EXCEPT ![r] = @ + 1], usage' = [usage EXCEPT ![r] = @ + 1],
         calls' = [calls EXCEPT ![r] = @ \o more],
         \A k \in DOMAIN more : more[k].pass = passes'[r]
  PROVE  EndedInv' /\ PassInv' /\ UsageInv'
<1>1. /\ DOMAIN phase = Runs /\ passes \in [Runs -> Nat] /\ usage \in [Runs -> Nat]
      /\ calls \in [Runs -> Seq(CallRec)]
  BY DEF Inv, TypeInv, SpendInv, UsageInv
<1>2. /\ phase'[r] = "tools" /\ passes'[r] = passes[r] + 1 /\ usage'[r] = usage[r] + 1
      /\ passes[r] \in Nat /\ usage[r] \in Nat
      /\ \A x \in Runs \ {r} : /\ phase'[x] = phase[x] /\ passes'[x] = passes[x]
                               /\ usage'[x] = usage[x]
  BY <1>1
<1>3. Grown(r, more)
  <2>1. TypeInv
    BY DEF Inv
  <2> QED
    BY <2>1, Appended
<1>4. \A x \in Runs : /\ IsChild(x)' <=> IsChild(x)
                      /\ IsChild(x) => CallOf(x)' = CallOf(x)
  BY <1>3 DEF IsChild, CallOf, Grown, Inv, BirthInv, Born
<1>5. EndedInv'
  BY <1>2, <1>4 DEF SpendInv, EndedInv
<1>6. \A q \in Runs : \A i \in DOMAIN calls[q] :
        /\ calls[q][i].pass \in Nat /\ calls[q][i].pass <= passes[q]
        /\ calls[q][i].state \in {"asked", "running"} =>
             calls[q][i].pass = passes[q] /\ phase[q] \in {"tools", "over"}
  <2> TAKE q \in Runs
  <2> TAKE i \in DOMAIN calls[q]
  <2>1. calls[q][i] \in CallRec
    BY <1>1
  <2> QED
    BY <2>1 DEF CallRec, SpendInv, PassInv
<1>7. PassInv'
  <2> SUFFICES ASSUME NEW q \in Runs, NEW i \in DOMAIN calls'[q]
               PROVE  /\ calls'[q][i].pass <= passes'[q]
                      /\ calls'[q][i].state \in {"asked", "running"} =>
                           calls'[q][i].pass = passes'[q] /\ phase'[q] \in {"tools", "over"}
    BY DEF PassInv
  <2>1. CASE i \notin DOMAIN calls[q]
    <3>1. q = r /\ calls'[q][i].pass = passes'[r]
      BY <1>3, <2>1 DEF Grown
    <3> QED
      BY <1>2, <3>1
  <2>2. CASE i \in DOMAIN calls[q]
    <3>1. calls'[q][i] = calls[q][i]
      BY <1>3, <2>2 DEF Grown
    <3>2. CASE q = r
      BY <1>2, <1>6, <2>2, <3>1, <3>2
    <3>3. CASE q # r
      BY <1>2, <1>6, <2>2, <3>1, <3>3
    <3> QED
      BY <3>2, <3>3
  <2> QED
    BY <2>1, <2>2
<1>8. usage' \in [Runs -> Nat]
  BY <1>1, <1>2
<1>9. \A x \in Runs : IsChild(x) /\ home[x].run = r => CallOf(x).pass # passes'[r]
  <2> TAKE x \in Runs
  <2>1. IsChild(x) => home[x].call \in DOMAIN calls[home[x].run]
    BY DEF Inv, BirthInv
  <2>2. IsChild(x) /\ home[x].run = r => CallOf(x).pass \in Nat /\ CallOf(x).pass <= passes[r]
    BY <1>6, <2>1 DEF CallOf
  <2> QED
    BY <1>2, <2>2
<1>10. ASSUME NEW q \in Runs PROVE UsageOf(q)'
  <2>1. Settled(q)' = Settled(q) /\ r \notin Settled(q)
    <3>1. outcome[r] = "none"
      BY DEF SpendInv, EndedInv
    <3>2. CASE q = r
      BY <1>2, <1>4, <1>9, <3>1, <3>2 DEF Settled, Reporting
    <3>3. CASE q # r
      BY <1>2, <1>4, <3>1, <3>3 DEF Settled, Reporting
    <3> QED
      BY <3>2, <3>3
  <2>2. \A x \in Settled(q) : usage'[x] = usage[x]
    BY <1>2, <2>1 DEF Settled
  <2>3. \/ usage'[q] = usage[q] /\ passes'[q] = passes[q]
        \/ usage'[q] = usage[q] + 1 /\ passes'[q] = passes[q] + 1
    BY <1>2
  <2> QED
    BY <1>1, <1>8, <2>1, <2>2, <2>3, UsageKept DEF SpendInv
<1> QED
  BY <1>5, <1>7, <1>8, <1>10 DEF UsageInv

\* Of all calls only that of run r and number i has another state.
Remarked(r, i, st) ==
  \A q \in Runs :
    /\ DOMAIN calls'[q] = DOMAIN calls[q]
    /\ \A j \in DOMAIN calls[q] :
         /\ calls'[q][j].pass = calls[q][j].pass
         /\ calls'[q][j].state = IF q = r /\ j = i THEN st ELSE calls[q][j].state

LEMMA MarkedPass ==
  ASSUME TypeInv, NEW r \in Runs, NEW i \in DOMAIN calls[r], NEW st,
         calls' = [calls EXCEPT ![r][i].state = st]
  PROVE  Remarked(r, i, st)
<1> DEFINE With(c) == [c EXCEPT !.state = st]
           mine == [calls[r] EXCEPT ![i] = With(calls[r][i])]
<1>1. \A c \in CallRec : With(c).pass = c.pass /\ With(c).state = st
  BY DEF CallRec
<1>2. calls' = [calls EXCEPT ![r] = mine]
  BY Zenon
<1> HIDE DEF With
<1>3. calls[r] \in Seq(CallRec) /\ calls[r][i] \in CallRec
  BY DEF TypeInv
<1>4. DOMAIN mine = DOMAIN calls[r]
      /\ \A j \in DOMAIN calls[r] : mine[j] = IF j = i THEN With(calls[r][i]) ELSE calls[r][j]
  BY <1>3
<1> HIDE DEF mine
<1>5. \A q \in Runs : calls'[q] = IF q = r THEN mine ELSE calls[q]
  BY <1>2 DEF TypeInv
<1>6. ASSUME NEW q \in Runs
      PROVE  /\ DOMAIN calls'[q] = DOMAIN calls[q]
             /\ \A j \in DOMAIN calls[q] :
                  /\ calls'[q][j].pass = calls[q][j].pass
                  /\ calls'[q][j].state = IF q = r /\ j = i THEN st ELSE calls[q][j].state
  <2>1. CASE q = r
    BY <1>1, <1>3, <1>4, <1>5, <2>1
  <2>2. CASE q # r
    BY <1>5, <2>2
  <2> QED
    BY <2>1, <2>2
<1> QED
  BY <1>6 DEF Remarked


\* A call is turned down, or comes back.
LEMMA SpendMarks ==
  ASSUME Inv, SpendInv, NEW r \in Runs, NEW i \in DOMAIN calls[r],
         NEW st \in {"refused", "error", "ok"}, calls' = [calls EXCEPT ![r][i].state = st],
         phase[r] = "tools", calls[r][i].state \in {"asked", "running"},
         st = "ok" => Gathered(r, i), UNCHANGED <<phase, outcome, home, passes, usage>>
  PROVE  EndedInv' /\ PassInv' /\ UsageInv'
<1>1. \A q \in Runs :
           /\ DOMAIN calls'[q] = DOMAIN calls[q]
           /\ \A j \in DOMAIN calls[q] :
                /\ calls'[q][j].pass = calls[q][j].pass
                /\ calls'[q][j].state = IF q = r /\ j = i THEN st ELSE calls[q][j].state
  <2>1. TypeInv
    BY DEF Inv
  <2>2. Remarked(r, i, st)
    BY <2>1, MarkedPass
  <2> QED
    BY <2>2 DEF Remarked
<1>2. /\ \A x \in Runs : IsChild(x)' <=> IsChild(x)
      /\ passes \in [Runs -> Nat] /\ usage \in [Runs -> Nat]
      /\ home \in [Runs -> [run : Runs, call : Nat]]
  BY DEF IsChild, SpendInv, UsageInv, Inv, TypeInv
<1>3. ASSUME NEW x \in Runs, IsChild(x)
      PROVE  /\ CallOf(x)'.pass = CallOf(x).pass
             /\ CallOf(x)'.state = IF home[x] = [run |-> r, call |-> i] THEN st ELSE CallOf(x).state
             /\ home[x] = [run |-> r, call |-> i] => CallOf(x) = calls[r][i] /\ home[x].run = r
  <2>1. home[x].call \in DOMAIN calls[home[x].run] /\ home[x].run \in Runs
    BY <1>2, <1>3 DEF Inv, BirthInv
  <2>2. home[x] = [run |-> r, call |-> i] <=> home[x].run = r /\ home[x].call = i
    BY <1>2
  <2> QED
    BY <1>1, <2>1, <2>2 DEF CallOf
<1>4. EndedInv'
  <2> SUFFICES ASSUME NEW x \in Runs, IsChild(x), CallOf(x)'.state = "ok"
               PROVE  outcome[x] \in Reporting \union {"failed"}
    BY <1>2 DEF SpendInv, EndedInv
  <2>1. CASE home[x] = [run |-> r, call |-> i]
    BY <1>3, <2>1 DEF Gathered, Children
  <2>2. CASE home[x] # [run |-> r, call |-> i]
    BY <1>3, <2>2 DEF SpendInv, EndedInv
  <2> QED
    BY <2>1, <2>2
<1>5. PassInv'
  BY <1>1 DEF SpendInv, PassInv
<1>6. calls[r][i].pass = passes[r]
  BY DEF SpendInv, PassInv
<1>7. ASSUME NEW q \in Runs PROVE UsageOf(q)'
  <2>1. ASSUME NEW x \in Runs, IsChild(x), home[x].run = q, home[x] = [run |-> r, call |-> i]
        PROVE  /\ q = r /\ CallOf(x).pass = passes[r] /\ CallOf(x)'.pass = passes[r]
    BY <1>3, <1>6, <2>1
  <2>2. Settled(q)' = Settled(q)
    <3>1. ASSUME NEW x \in Runs PROVE x \in Settled(q)' <=> x \in Settled(q)
      <4>1. CASE home[x] = [run |-> r, call |-> i]
        BY <1>2, <1>3, <2>1, <4>1 DEF Settled
      <4>2. CASE home[x] # [run |-> r, call |-> i]
        BY <1>2, <1>3, <4>2 DEF Settled
      <4> QED
        BY <4>1, <4>2
    <3> QED
      BY <3>1 DEF Settled
  <2> QED
    BY <1>2, <2>2, UsageKept DEF SpendInv, Settled
<1> QED
  BY <1>2, <1>4, <1>5, <1>7 DEF UsageInv

\* A call starts its children.
LEMMA SpendBears ==
  ASSUME Inv, SpendInv, NEW r \in Runs, NEW i \in DOMAIN calls[r], NEW new, Bearing(r, i, new),
         usage' = usage
  PROVE  OrderInv' /\ EndedInv' /\ PassInv' /\ UsageInv'
<1>1. /\ new \in SUBSET Runs /\ new \intersect Born = {} /\ Born' = Born \union new
      /\ phase[r] = "tools" /\ calls[r][i].state = "asked"
      /\ phase' = [x \in Runs |-> IF x \notin new THEN phase[x]
                              ELSE IF calls[r][i].what = "spawn" THEN "start" ELSE "boundary"]
      /\ home' = [x \in Runs |-> IF x \in new THEN [run |-> r, call |-> i] ELSE home[x]]
      /\ calls' = [calls EXCEPT ![r][i].state = "running"]
      /\ UNCHANGED <<outcome, passes>>
  BY DEF Bearing
<1>2. \A q \in Runs :
           /\ DOMAIN calls'[q] = DOMAIN calls[q]
           /\ \A j \in DOMAIN calls[q] :
                /\ calls'[q][j].pass = calls[q][j].pass
                /\ calls'[q][j].state = IF q = r /\ j = i THEN "running" ELSE calls[q][j].state
  <2>1. TypeInv
    BY DEF Inv
  <2>2. Remarked(r, i, "running")
    BY <1>1, <2>1, MarkedPass
  <2> QED
    BY <2>2 DEF Remarked
<1>3. /\ \A x \in new : /\ home'[x] = [run |-> r, call |-> i] /\ IsChild(x)'
                        /\ CallOf(x)' = calls'[r][i]
      /\ \A x \in Runs \ new : home'[x] = home[x] /\ (IsChild(x)' <=> IsChild(x))
  BY BornKinds
<1>4. r \in Born /\ r \notin new
  BY <1>1, TypeBearing
<1>5. \A x \in new : phase[x] = "none" /\ outcome[x] = "none" /\ calls[x] = <<>> /\ ~IsChild(x)
  BY <1>1 DEF Born, SpendInv, EndedInv, Inv, BirthInv, IsChild
<1>6. calls'[r][i].state = "running"
  BY <1>2
<1>7. OrderInv'
  <2>1. PICK n \in Nat : Born = 0..(n - 1)
    BY Limits DEF Inv, BirthInv
  <2>2. \A x \in new : r < x
    BY <1>1, <1>4, <2>1 DEF Runs
  <2> QED
    BY <1>1, <1>3, <2>2 DEF OrderInv, SpendInv
<1>8. ASSUME NEW x \in Runs \ new, IsChild(x)
      PROVE  /\ CallOf(x)'.pass = CallOf(x).pass
             /\ CallOf(x)'.state = "ok" <=> CallOf(x).state = "ok"
  <2>1. home[x].call \in DOMAIN calls[home[x].run] /\ home[x].run \in Runs
    BY <1>8 DEF Inv, BirthInv, TypeInv
  <2> QED
    BY <1>1, <1>2, <1>3, <2>1 DEF CallOf
<1>9. EndedInv'
  <2>1. ASSUME NEW x \in new
        PROVE  outcome'[x] = "none" /\ phase'[x] # "over" /\ CallOf(x)'.state # "ok"
    BY <1>1, <1>3, <1>5, <1>6
  <2>2. ASSUME NEW x \in Runs \ new
        PROVE  /\ outcome'[x] = "none" <=> phase'[x] # "over"
               /\ IsChild(x)' /\ CallOf(x)'.state = "ok" => outcome'[x] \in Reporting \union {"failed"}
    <3>1. phase'[x] = phase[x]
      BY <1>1
    <3> QED
      BY <1>1, <1>3, <1>8, <3>1 DEF SpendInv, EndedInv
  <2> QED
    BY <2>1, <2>2 DEF EndedInv
<1>10. PassInv'
  <2> SUFFICES ASSUME NEW q \in Runs, NEW j \in DOMAIN calls[q]
               PROVE  /\ calls'[q][j].pass <= passes'[q]
                      /\ calls'[q][j].state \in {"asked", "running"} =>
                           calls'[q][j].pass = passes'[q] /\ phase'[q] \in {"tools", "over"}
    BY <1>2 DEF PassInv
  <2>1. q \notin new /\ phase'[q] = phase[q]
    BY <1>1, <1>5
  <2> QED
    BY <1>1, <1>2, <2>1 DEF SpendInv, PassInv
<1>11. usage' \in [Runs -> Nat] /\ passes \in [Runs -> Nat]
  BY DEF SpendInv, UsageInv, Inv, TypeInv
<1>12. ASSUME NEW q \in Runs PROVE UsageOf(q)'
  <2>1. ASSUME NEW x \in Runs PROVE x \in Settled(q)' <=> x \in Settled(q)
    <3>1. CASE x \in new
      BY <1>1, <1>5, <3>1 DEF Settled, Reporting
    <3>2. CASE x \notin new
      <4>1. IsChild(x) /\ home[x].run = q => q \notin new
        BY <1>1, <1>5 DEF Inv, BirthInv, Born
      <4>2. IsChild(x) /\ home[x].run = q => phase'[q] = phase[q]
        BY <1>1, <4>1
      <4> QED
        BY <1>1, <1>3, <1>8, <3>2, <4>2 DEF Settled
    <3> QED
      BY <3>1, <3>2
  <2>2. Settled(q)' = Settled(q)
    BY <2>1 DEF Settled
  <2> QED
    BY <1>1, <1>11, <2>2, UsageKept DEF SpendInv, Settled
<1> QED
  BY <1>7, <1>9, <1>10, <1>11, <1>12 DEF UsageInv


\* The batch is through: what its calls' children used is the run's own.
LEMMA SpendBatch ==
  ASSUME Inv, SpendInv, NEW r \in Runs, EndBatch(r)
  PROVE  EndedInv' /\ PassInv' /\ UsageInv'
<1> DEFINE I == {i \in DOMAIN calls[r] : calls[r][i].pass = passes[r] /\ calls[r][i].state = "ok"}
           New == {x \in Runs : /\ IsChild(x) /\ home[x].run = r /\ outcome[x] \in Reporting
                                /\ CallOf(x).state = "ok" /\ CallOf(x).pass = passes[r]}
           spends == [i \in DOMAIN calls[r] |-> Spend(r, i)]
           slot == [x \in Runs |-> home[x].call]
<1>1. /\ phase[r] = "tools" /\ phase' = [phase EXCEPT ![r] = "boundary"]
      /\ \A i \in DOMAIN calls[r] : calls[r][i].state \in {"ok", "error", "refused"}
      /\ usage' = [usage EXCEPT ![r] = usage[r] + SumFunctionOnSet(spends, I)]
      /\ UNCHANGED <<outcome, home, calls, passes>>
  BY DEF EndBatch, bornVars
<1>2. /\ DOMAIN phase = Runs /\ passes \in [Runs -> Nat] /\ usage \in [Runs -> Nat]
      /\ calls[r] \in Seq(CallRec) /\ home \in [Runs -> [run : Runs, call : Nat]]
  BY DEF Inv, TypeInv, SpendInv, UsageInv
<1>3. \A x \in Runs : /\ IsChild(x)' <=> IsChild(x)
                      /\ CallOf(x)' = CallOf(x)
  BY <1>1 DEF IsChild, CallOf
<1>4. phase'[r] = "boundary" /\ \A x \in Runs \ {r} : phase'[x] = phase[x] /\ usage'[x] = usage[x]
  BY <1>1, <1>2
<1>5. EndedInv' /\ PassInv'
  <2>1. EndedInv'
    BY <1>1, <1>3, <1>4 DEF SpendInv, EndedInv
  <2>2. \A i \in DOMAIN calls[r] : calls[r][i].state \notin {"asked", "running"}
    BY <1>1
  <2>3. PassInv'
    BY <1>1, <1>4, <2>2 DEF SpendInv, PassInv
  <2> QED
    BY <2>1, <2>3
<1>6. outcome[r] = "none" /\ \A q \in Runs : r \notin Settled(q) /\ r \notin New
  BY <1>1 DEF SpendInv, EndedInv, Settled, Reporting
<1>7. IsFiniteSet(I) /\ IsFiniteSet(New) /\ IsFiniteSet(Settled(r))
  <2>1. DOMAIN calls[r] = 1..Len(calls[r]) /\ 1 \in Int /\ Len(calls[r]) \in Int
    BY <1>2
  <2>2. IsFiniteSet(DOMAIN calls[r])
    BY <2>1, FS_Interval
  <2>3. New \in SUBSET Runs /\ Settled(r) \in SUBSET Runs
    BY DEF Settled
  <2>4. I \subseteq DOMAIN calls[r]
    OBVIOUS
  <2> HIDE DEF I, New
  <2> QED
    BY <2>2, <2>3, <2>4, FS_Subset, RunsFinite
<1>8. SumFunctionOnSet(usage, New) = SumFunctionOnSet(spends, I)
  <2>1. \A x \in New : usage[x] \in Nat /\ slot[x] \in I
    <3> TAKE x \in New
    <3>1. home[x].call \in DOMAIN calls[r]
      BY DEF Inv, BirthInv
    <3> QED
      BY <1>2, <3>1 DEF CallOf
  <2>2. \A i \in I : {x \in New : slot[x] = i} = {x \in Children(r, i) : outcome[x] \in Reporting}
    <3> TAKE i \in I
    <3>1. \A x \in Runs : home[x] = [run |-> r, call |-> i] <=> home[x].run = r /\ home[x].call = i
      BY <1>2
    <3>2. \A x \in Runs : home[x] = [run |-> r, call |-> i] =>
            IsChild(x) /\ CallOf(x) = calls[r][i]
      <4> SUFFICES ASSUME NEW x \in Runs, home[x] = [run |-> r, call |-> i]
                   PROVE  IsChild(x) /\ CallOf(x) = calls[r][i]
        OBVIOUS
      <4>1. home[x].run = r /\ home[x].call = i /\ i # 0
        BY <1>2
      <4> QED
        BY <4>1 DEF IsChild, None, CallOf
    <3>3. \A x \in New : slot[x] = home[x].call
      OBVIOUS
    <3> QED
      BY <3>1, <3>2, <3>3 DEF Children
  <2>3. \A i \in I : PartSums(usage, slot, New, I)[i] = spends[i]
    BY <2>2 DEF PartSums, Spend
  <2>4. \A i \in I : PartSums(usage, slot, New, I)[i] \in Nat
    <3> TAKE i \in I
    <3>1. /\ IsFiniteSet({x \in New : slot[x] = i})
          /\ \A x \in {y \in New : slot[y] = i} : usage[x] \in Nat
      BY <1>7, <2>1, FS_Subset
    <3>2. SumFunctionOnSet(usage, {x \in New : slot[x] = i}) \in Nat
      <4> HIDE DEF New, slot
      <4> QED
        BY <3>1, SumType
    <3> QED
      BY <3>2 DEF PartSums
  <2> HIDE DEF New, I, slot, spends
  <2>5. SumFunctionOnSet(usage, New) = SumFunctionOnSet(PartSums(usage, slot, New, I), I)
    BY <1>7, <2>1, SumFibres
  <2>6. SumFunctionOnSet(spends, I) = SumFunctionOnSet(PartSums(usage, slot, New, I), I)
    BY <1>7, <2>3, <2>4, SumSame
  <2> QED
    BY <2>5, <2>6
<1>9. SumFunctionOnSet(usage, New) \in Nat /\ SumFunctionOnSet(usage, Settled(r)) \in Nat
  <2>1. \A x \in New \union Settled(r) : usage[x] \in Nat
    BY <1>2 DEF Settled
  <2> HIDE DEF New
  <2> QED
    BY <1>7, <2>1, SumType
<1>10. usage'[r] = usage[r] + SumFunctionOnSet(usage, New) /\ usage' \in [Runs -> Nat]
  <2>1. usage' = [usage EXCEPT ![r] = usage[r] + SumFunctionOnSet(usage, New)]
    BY <1>1, <1>8
  <2>2. usage[r] + SumFunctionOnSet(usage, New) \in Nat
    BY <1>2, <1>9
  <2> HIDE DEF New
  <2> QED
    BY <1>2, <2>1, <2>2
<1>11. Settled(r)' = Settled(r) \union New /\ Settled(r) \intersect New = {}
  BY <1>1, <1>3, <1>4 DEF Settled
<1>12. UsageOf(r)'
  <2>1. SumFunctionOnSet(usage, Settled(r) \union New) =
          SumFunctionOnSet(usage, Settled(r)) + SumFunctionOnSet(usage, New)
    <3>1. \A x \in Settled(r) \union New : usage[x] \in Nat
      BY <1>2 DEF Settled
    <3> HIDE DEF New
    <3> QED
      BY <1>7, <1>11, <3>1, SumUnion
  <2>2. SumFunctionOnSet(usage', Settled(r) \union New) =
          SumFunctionOnSet(usage, Settled(r) \union New)
    <3>1. \A x \in Settled(r) \union New : usage[x] \in Nat /\ usage'[x] = usage[x]
      BY <1>2, <1>4, <1>6 DEF Settled
    <3>2. IsFiniteSet(Settled(r) \union New)
      BY <1>7, FS_Union
    <3> HIDE DEF New
    <3> QED
      BY <3>1, <3>2, SumSame
  <2>3. usage[r] = passes[r] + SumFunctionOnSet(usage, Settled(r))
    BY <1>6 DEF SpendInv, UsageInv, UsageOf
  <2>4. passes[r] \in Nat /\ passes'[r] = passes[r]
    BY <1>1, <1>2
  <2> HIDE DEF New
  <2>5. usage'[r] = passes'[r] + SumFunctionOnSet(usage', Settled(r)')
    BY <1>9, <1>10, <1>11, <2>1, <2>2, <2>3, <2>4
  <2> QED
    BY <2>5 DEF UsageOf
<1>13. ASSUME NEW q \in Runs, q # r PROVE UsageOf(q)'
  <2>1. Settled(q)' = Settled(q)
    BY <1>1, <1>3, <1>4, <1>13 DEF Settled
  <2>2. \A x \in Settled(q) : usage'[x] = usage[x]
    BY <1>4, <1>6 DEF Settled
  <2> QED
    BY <1>1, <1>2, <1>4, <1>10, <1>13, <2>1, <2>2, UsageKept DEF SpendInv
<1> QED
  BY <1>5, <1>10, <1>12, <1>13 DEF UsageInv


LEMMA OrderStep == Inv /\ SpendInv /\ [Next]_vars => OrderInv'
<1> SUFFICES ASSUME Inv, SpendInv, [Next]_vars PROVE OrderInv'
  OBVIOUS
<1>1. \/ Quiet /\ UNCHANGED calls
      \/ \E r \in Runs : Asking(r)
      \/ \E r \in Runs : \E i \in DOMAIN calls[r] : Marking(r, i) \/ BeginCall(r, i)
  BY StepCases DEF Inv
<1>2. CASE home' = home /\ Born' = Born
  BY <1>2 DEF SpendInv, OrderInv, IsChild
<1>3. ASSUME NEW r \in Runs, NEW i \in DOMAIN calls[r], BeginCall(r, i) PROVE OrderInv'
  <2>1. PICK new \in SUBSET Runs : Bearing(r, i, new)
    BY <1>3, RunsBegin
  <2>2. usage' = usage
    BY <1>3 DEF BeginCall, loopVars
  <2> QED
    BY <2>1, <2>2, SpendBears
<1> QED
  BY <1>1, <1>2, <1>3 DEF Quiet, Asking, Marking, bornVars, Born

\* A model's answer ends the run, or the run waits for what it asked for.
LEMMA SpendAnswer ==
  ASSUME Inv, SpendInv, NEW r \in Runs, phase[r] = "model", NEW asks \in Responses(r),
         ModelAnswers(r, asks)
  PROVE  EndedInv' /\ PassInv' /\ UsageInv'
<1>1. /\ passes' = [passes EXCEPT ![r] = @ + 1] /\ usage' = [usage EXCEPT ![r] = @ + 1]
      /\ UNCHANGED home
  BY DEF ModelAnswers, bornVars
<1>2. CASE \E how \in {"partial", "done", "stopped"} : EndRun(r, how) /\ UNCHANGED calls
  <2>1. PICK how \in {"partial", "done", "stopped"} : EndRun(r, how) /\ UNCHANGED calls
    BY <1>2
  <2> QED
    BY <1>1, <2>1, SpendEnds DEF EndRun
<1> DEFINE more == [i \in DOMAIN asks |->
             [what |-> asks[i].what, parts |-> asks[i].parts, task |-> asks[i].task,
              pass |-> passes'[r], state |-> "asked"]]
<1>3. CASE /\ asks # <<>>
           /\ phase' = [phase EXCEPT ![r] = "tools"] /\ UNCHANGED outcome
           /\ calls' = [calls EXCEPT ![r] = @ \o more]
  <2>1. PICK n \in Nat : asks \in [1..n -> Asks]
    BY AskedCalls DEF Inv
  <2>2. \A a \in Asks : /\ a.what \in {"spawn", "delegate"} /\ a.parts \in Nat
                        /\ a.task \in {<<>>} \union (Roster \X Tasks)
    BY Limits DEF Asks
  <2>3. DOMAIN asks = 1..n /\ \A i \in 1..n : asks[i] \in Asks
    BY <2>1
  <2>4. passes'[r] \in Nat
    BY <1>1 DEF Inv, TypeInv
  <2>5. \A i \in 1..n : more[i] \in CallRec /\ more[i].pass = passes'[r]
    BY <2>2, <2>3, <2>4 DEF CallRec
  <2>6. DOMAIN more = 1..n
    BY <2>3
  <2>7. more \in Seq(CallRec)
    <3>1. more = [i \in 1..n |-> more[i]]
      BY <2>6
    <3> HIDE DEF more
    <3>2. more \in [1..n -> CallRec]
      BY <2>5, <3>1
    <3> QED
      BY <2>1, <3>2
  <2> HIDE DEF more
  <2> QED
    BY <1>1, <1>3, <2>5, <2>6, <2>7, SpendAsks
<1> QED
  BY <1>2, <1>3 DEF ModelAnswers

LEMMA SpendStep == Inv /\ SpendInv /\ [Next]_vars => SpendInv'
<1> SUFFICES ASSUME Inv, SpendInv, [Next]_vars PROVE EndedInv' /\ PassInv' /\ UsageInv'
  BY OrderStep DEF SpendInv
<1>1. CASE UNCHANGED vars \/ \E r \in Runs : Cancel(r)
  BY <1>1, SpendStays DEF vars, bornVars, loopVars, Cancel
<1>2. CASE Close
  <2>1. Root \in Runs
    BY Limits DEF Root, Runs
  <2> QED
    BY <1>2, <2>1, SpendEnds DEF Close, bornVars, loopVars
<1>3. ASSUME NEW r \in Runs, RunStep(r) PROVE EndedInv' /\ PassInv' /\ UsageInv'
  <2>1. CASE Abandon(r)
    BY <2>1, SpendEnds DEF Abandon, bornVars, loopVars
  <2>2. CASE StopAtBoundary(r)
    BY <2>2, SpendEnds DEF StopAtBoundary, EndRun, bornVars, loopVars
  <2>3. CASE Fail(r)
    BY <2>3, SpendEnds DEF Fail, EndRun, bornVars, loopVars
  <2>4. CASE BeginPass(r)
    BY <2>4, SpendMoves DEF BeginPass, bornVars
  <2>5. CASE phase[r] = "model" /\ \E asks \in Responses(r) : ModelAnswers(r, asks)
    BY <2>5, SpendAnswer
  <2>6. CASE CallStep(r)
    <3> SUFFICES ASSUME NEW i \in DOMAIN calls[r],
                        RefuseCall(r, i) \/ PromptRaises(r, i) \/ BeginCall(r, i) \/ ReturnCall(r, i)
                 PROVE  EndedInv' /\ PassInv' /\ UsageInv'
      BY <2>6 DEF CallStep
    <3>1. CASE RefuseCall(r, i)
      BY <3>1, SpendMarks DEF RefuseCall, bornVars, loopVars
    <3>2. CASE PromptRaises(r, i)
      BY <3>2, SpendMarks DEF PromptRaises, loopVars
    <3>3. CASE BeginCall(r, i)
      <4>1. PICK new \in SUBSET Runs : Bearing(r, i, new)
        BY <3>3, RunsBegin
      <4>2. usage' = usage
        BY <3>3 DEF BeginCall, loopVars
      <4> QED
        BY <4>1, <4>2, SpendBears
    <3>4. CASE ReturnCall(r, i)
      BY <3>4, SpendMarks DEF ReturnCall, bornVars, loopVars
    <3> QED
      BY <3>1, <3>2, <3>3, <3>4
  <2>7. CASE EndBatch(r)
    BY <2>7, SpendBatch
  <2>8. CASE BeginClone(r)
    BY <2>8, SpendMoves DEF BeginClone, bornVars, loopVars
  <2>9. CASE HookRaises(r)
    BY <2>9, SpendEnds DEF HookRaises, bornVars, loopVars
  <2> QED
    BY <1>3, <2>1, <2>2, <2>3, <2>4, <2>5, <2>6, <2>7, <2>8, <2>9 DEF RunStep, LoopStep
<1> QED
  BY <1>1, <1>2, <1>3 DEF Next

LEMMA SpendInit == Init => SpendInv
<1> SUFFICES ASSUME Init PROVE SpendInv
  OBVIOUS
<1>1. \A x \in Runs : /\ ~IsChild(x) /\ outcome[x] = "none" /\ phase[x] # "over" /\ calls[x] = <<>>
                      /\ usage[x] = 0 /\ passes[x] = 0 /\ (x \in Born => x = Root)
  BY DEF Init, IsChild, Born
<1>2. OrderInv /\ EndedInv /\ PassInv
  BY <1>1 DEF OrderInv, EndedInv, PassInv
<1>3. ASSUME NEW r \in Runs PROVE UsageOf(r)
  <2>1. Settled(r) = {}
    BY <1>1 DEF Settled
  <2>2. SumFunctionOnSet(usage, {}) = 0
    BY SumEmpty
  <2> QED
    BY <1>1, <2>1, <2>2 DEF UsageOf
<1>4. usage \in [Runs -> Nat]
  BY DEF Init
<1> QED
  BY <1>2, <1>3, <1>4 DEF SpendInv, UsageInv


-----------------------------------------------------------------------------
(* What a run used is what all that reported under it used *)

\* The runs that count for run r, as SpendAccounted has them.
Reported(r) ==
  {x \in Runs :
     /\ x = r \/ (IsChild(x) /\ (r = Root \/ r \in Lineage(x)))
     /\ \A y \in Lineage(x) \ Lineage(r) : outcome[y] \in Reporting /\ CallOf(y).state = "ok"}

\* A lineage goes up, from a child over children.
LEMMA LineageBelow ==
  ASSUME TypeInv, OrderInv, NEW x \in Runs, NEW y \in Lineage(x)
  PROVE  y \in Runs /\ y <= x /\ IsChild(y)
<1> DEFINE below == {z \in Runs : z <= x}
<1>1. below \in SUBSET Runs /\ x \in below
  BY DEF Runs
<1>2. \A z \in below : IsChild(z) => home[z].run \in below
  <2> SUFFICES ASSUME NEW z \in below, IsChild(z) PROVE home[z].run \in below
    OBVIOUS
  <2>1. home[z].run \in Runs /\ home[z].run < z
    BY DEF TypeInv, OrderInv
  <2> QED
    BY <2>1 DEF Runs
<1>3. y \in below
  <2> HIDE DEF below
  <2> QED
    BY <1>1, <1>2 DEF Lineage
<1> QED
  BY <1>3 DEF Lineage

\* A child counts if its spawner does, it reported and its call came back.
LEMMA ReportedChild ==
  ASSUME Inv, SpendInv, NEW r \in Runs, r \in Born, NEW x \in Runs, IsChild(x), x # r
  PROVE  x \in Reported(r) <=>
           home[x].run \in Reported(r) /\ outcome[x] \in Reporting /\ CallOf(x).state = "ok"
<1> DEFINE p == home[x].run
<1>1. TypeInv /\ OrderInv /\ p \in Runs /\ p \in Born /\ p < x
  BY DEF Inv, SpendInv, TypeInv, BirthInv, OrderInv
<1>2. Lineage(x) = Lineage(p) \union {x} /\ x \notin Lineage(p)
  BY <1>1, LineageOfChild, LineageBelow DEF Runs
<1>3. Lineage(Root) = {}
  <2>1. Root \in Runs /\ ~IsChild(Root)
    BY Limits DEF Root, Runs, Inv, BirthInv, IsChild
  <2>2. \A y \in Lineage(Root) : y = Root /\ IsChild(y)
    BY <1>1, <2>1, LineageBelow DEF Runs, Root
  <2> QED
    BY <2>1, <2>2
<1>4. \A z \in Runs : z \in Born /\ z # Root => IsChild(z) /\ z \in Lineage(z)
  <2> TAKE z \in Runs
  <2>1. z \in Born /\ z # Root => IsChild(z)
    BY <1>1 DEF OrderInv
  <2> QED
    BY <1>1, <2>1, LineageOfChild
<1>5. r = Root \/ r \in Lineage(x) => x \notin Lineage(r)
  <2>1. ASSUME r \in Lineage(x), x \in Lineage(r) PROVE FALSE
    <3>1. r <= x /\ x <= r
      BY <1>1, <2>1, LineageBelow
    <3> QED
      BY <3>1 DEF Runs
  <2> QED
    BY <1>3, <2>1
<1>6. ASSUME x \in Reported(r)
      PROVE  p \in Reported(r) /\ outcome[x] \in Reporting /\ CallOf(x).state = "ok"
  <2>1. r = Root \/ r \in Lineage(x)
    BY <1>6 DEF Reported
  <2>2. outcome[x] \in Reporting /\ CallOf(x).state = "ok"
    BY <1>2, <1>5, <1>6, <2>1 DEF Reported
  <2>3. p = r \/ (IsChild(p) /\ (r = Root \/ r \in Lineage(p)))
    <3>1. r = Root \/ r \in Lineage(p)
      BY <1>2, <2>1
    <3> QED
      BY <1>1, <1>3, <1>4, <3>1
  <2>4. \A y \in Lineage(p) \ Lineage(r) : outcome[y] \in Reporting /\ CallOf(y).state = "ok"
    BY <1>2, <1>6 DEF Reported
  <2> QED
    BY <1>1, <2>2, <2>3, <2>4 DEF Reported
<1>7. ASSUME p \in Reported(r), outcome[x] \in Reporting, CallOf(x).state = "ok"
      PROVE  x \in Reported(r)
  <2>1. r = Root \/ r \in Lineage(x)
    <3>1. CASE p = r
      BY <1>1, <1>2, <1>4, <3>1
    <3>2. CASE p # r
      BY <1>2, <1>7, <3>2 DEF Reported
    <3> QED
      BY <3>1, <3>2
  <2>2. \A y \in Lineage(x) \ Lineage(r) : outcome[y] \in Reporting /\ CallOf(y).state = "ok"
    BY <1>2, <1>7 DEF Reported
  <2> QED
    BY <2>1, <2>2 DEF Reported
<1> QED
  BY <1>6, <1>7

\* Each run that counts, but the first, is settled in just one that counts; so the
\* sums over all of them of what they used leave that of the first.
LEMMA TreeSum ==
  ASSUME Inv, SpendInv, NEW r \in Runs, outcome[r] \in Reporting
  PROVE  usage[r] = SumFunctionOnSet(passes, Reported(r))
<1> DEFINE T == Reported(r)
           under == [x \in Runs |-> home[x].run]
           settled == PartSums(usage, under, T \ {r}, T)
<1>1. /\ TypeInv /\ OrderInv /\ r \in Born /\ passes \in [Runs -> Nat] /\ usage \in [Runs -> Nat]
      /\ home \in [Runs -> [run : Runs, call : Nat]]
  BY DEF Inv, TypeInv, SpendInv, EndedInv, UsageInv, Reporting, Born
<1>2. T \in SUBSET Runs /\ r \in T /\ IsFiniteSet(T) /\ IsFiniteSet(T \ {r})
  <2>1. T \in SUBSET Runs /\ r \in T /\ T \ {r} \in SUBSET Runs
    BY DEF Reported
  <2> HIDE DEF T
  <2> QED
    BY <2>1, RunsFinite
<1>3. \A x \in T : x # r => IsChild(x)
  BY DEF Reported
<1>4. \A x \in Runs : IsChild(x) /\ x # r =>
        (x \in T <=> home[x].run \in T /\ outcome[x] \in Reporting /\ CallOf(x).state = "ok")
  BY <1>1, ReportedChild
<1>5. \A x \in T : r <= x
  <2> TAKE x \in T
  <2>1. x \in Runs /\ (x = r \/ r = Root \/ r \in Lineage(x))
    BY DEF Reported
  <2>2. r \in Lineage(x) => r <= x
    BY <1>1, <2>1, LineageBelow
  <2> QED
    BY <2>1, <2>2 DEF Root, Runs
<1> HIDE DEF T
<1>6. \A x \in T : outcome[x] \in Reporting /\ phase[x] = "over"
  BY <1>2, <1>3, <1>4 DEF SpendInv, EndedInv, Reporting
<1>7. ASSUME NEW x \in T PROVE {c \in T \ {r} : under[c] = x} = Settled(x)
  <2>1. ASSUME NEW c \in Settled(x) PROVE c \in T \ {r} /\ under[c] = x
    <3>1. c \in Runs /\ IsChild(c) /\ home[c].run = x /\ outcome[c] \in Reporting
          /\ CallOf(c).state = "ok"
      BY DEF Settled
    <3>2. x < c /\ x \in Runs
      BY <1>1, <1>2, <3>1 DEF OrderInv
    <3>3. c # r
      BY <1>5, <3>1, <3>2 DEF Runs
    <3> QED
      BY <1>4, <3>1, <3>3
  <2>2. ASSUME NEW c \in T \ {r}, under[c] = x PROVE c \in Settled(x)
    <3>1. c \in Runs /\ IsChild(c) /\ home[c].run = x
      BY <1>2, <1>3, <2>2
    <3> QED
      BY <1>4, <1>6, <3>1 DEF Settled
  <2> QED
    BY <2>1, <2>2
<1>8. \A x \in T : /\ usage[x] = passes[x] + settled[x]
                   /\ usage[x] \in Nat /\ passes[x] \in Nat /\ settled[x] \in Nat
  <2> TAKE x \in T
  <2>1. x \in Runs /\ outcome[x] # "lost"
    BY <1>2, <1>6 DEF Reporting
  <2>2. usage[x] = passes[x] + SumFunctionOnSet(usage, Settled(x))
    BY <2>1 DEF SpendInv, UsageInv, UsageOf
  <2>3. settled[x] = SumFunctionOnSet(usage, Settled(x))
    BY <1>7 DEF PartSums
  <2>4. SumFunctionOnSet(usage, Settled(x)) \in Nat
    <3>1. Settled(x) \in SUBSET Runs /\ \A c \in Settled(x) : usage[c] \in Nat
      BY <1>1 DEF Settled
    <3> QED
      BY <3>1, RunsFinite, SumType
  <2> QED
    BY <1>1, <2>1, <2>2, <2>3, <2>4
<1>9. SumFunctionOnSet(usage, T \ {r}) = SumFunctionOnSet(settled, T)
  <2>1. \A c \in T \ {r} : usage[c] \in Nat /\ under[c] \in T
    BY <1>2, <1>3, <1>4, <1>8
  <2> HIDE DEF under
  <2> QED
    BY <1>2, <2>1, SumFibres
<1> HIDE DEF settled
<1>10. SumFunctionOnSet(usage, T) = SumFunctionOnSet(passes, T) + SumFunctionOnSet(settled, T)
  BY <1>2, <1>8, SumPlus
<1>11. SumFunctionOnSet(usage, T) = usage[r] + SumFunctionOnSet(usage, T \ {r})
  BY <1>2, <1>8, SumSplit
<1>12. SumFunctionOnSet(passes, T) \in Nat /\ SumFunctionOnSet(settled, T) \in Nat
  BY <1>2, <1>8, SumType
<1>13. usage[r] = SumFunctionOnSet(passes, T)
  BY <1>2, <1>8, <1>9, <1>10, <1>11, <1>12
<1> QED
  BY <1>13 DEF T

\* However deep its clones and delegates nest and whatever becomes of each, a run
\* that reports says it used just its passes and those of every run under it that
\* reported through calls that came back, each once.
THEOREM SpendAccountedAlways == Spec => []SpendAccounted
<1>1. Inv /\ SpendInv => SpendAccounted
  BY TreeSum DEF SpendAccounted, Reported
<1> QED
  BY <1>1, InvInit, InvStep, SpendInit, SpendStep, PTL DEF Spec

=============================================================================
