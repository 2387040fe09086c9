------------------------------ MODULE SessionCap ------------------------------
(***************************************************************************)
(* One session's cap (evals/session.py) shared by paid eval runs, each in  *)
(* a process of its own with a meter (evals/budget.py Meter) whose model   *)
(* calls run in parallel.  The cap file and the ledger are on disk; grants *)
(* are read and written under a file lock, spend is appended outside it.   *)
(*                                                                         *)
(* Amounts are whole numbers.  A run has paid calls under way only while   *)
(* it is going: a suite's pool closes before its grant ends (runner.py).   *)
(***************************************************************************)
EXTENDS Integers, Sequences, FiniteSets, FiniteSetsExt, Functions

CONSTANTS
  Runs,      \* the runs, each with its id and its process
  Budgets,   \* what a run may ask for
  Caps,      \* what the owner may set the cap to
  Costs,     \* what a call may cost
  Parallel   \* bound: a run's calls under way at once

ASSUME Amounts == Budgets \subseteq Nat \ {0} /\ Caps \subseteq Nat /\ Costs \subseteq Nat \ {0}
ASSUME ParallelCalls == Parallel \in Nat
ASSUME FiniteRuns == IsFiniteSet(Runs)

Unset == -1

VARIABLES
  cap,      \* cap.json
  ledger,   \* ledger.jsonl: each run's lines in order
  phase,    \* where each run is: new, going, ended, dead
  pid,      \* whether a process with the run's id exists
  grant,    \* Grant.usd, the meter's budget
  spent,    \* the meter's total
  calls,    \* calls that passed the guard and are not charged
  reports   \* totals charged and not yet appended

vars == <<cap, ledger, phase, pid, grant, spent, calls, reports>>
meterVars == <<grant, spent, calls, reports>>

Line(event, amount) == [event |-> event, amount |-> amount]

AppendLine(r, line) == ledger' = [ledger EXCEPT ![r] = Append(@, line)]

-----------------------------------------------------------------------------
(* Reading the ledger *)

Lines(r, events) == {line \in Range(ledger[r]) : line.event \in events}

\* Mutant: the total of a run is what its last line says.
Recorded_LastLine(r) ==
  IF Lines(r, {"spend", "end"}) = {} THEN 0 ELSE ledger[r][Len(ledger[r])].amount

\* Totals land in any order and only grow: the largest is the truth.
Recorded(r) == Max({0} \union {line.amount : line \in Lines(r, {"spend", "end"})})

Held(r) == Max({0} \union {line.amount : line \in Lines(r, {"start"})})

Started(r) == Lines(r, {"start"}) # {}

Running(r) == Started(r) /\ Lines(r, {"end"}) = {} /\ pid[r]

\* Mutant: a run going counts for what it has spent, not for what it may spend.
Share_Recorded(r) == Recorded(r)

\* What a run takes of the cap: a going one its grant, others what they spent.
Share(r) == IF Running(r) THEN Max({Held(r), Recorded(r)}) ELSE Recorded(r)

Remaining == cap - SumFunction([r \in Runs |-> Share(r)])

-----------------------------------------------------------------------------
(* The session *)

Set(usd) ==
  /\ cap' = usd
  /\ UNCHANGED <<ledger, phase, pid, grant, spent, calls, reports>>

\* A new session moves the ledger aside, also while runs are going.
SetNew(usd) ==
  /\ cap' = usd
  /\ ledger' = [r \in Runs |-> <<>>]
  /\ UNCHANGED <<phase, pid, grant, spent, calls, reports>>

Refused == cap = Unset \/ Remaining <= 0

\* Under the lock: read the ledger, hold the smaller of budget and remainder.
Start(r, wanted) ==
  /\ phase[r] = "new"
  /\ ~Refused
  /\ grant' = [grant EXCEPT ![r] = Min({wanted, Remaining})]
  /\ AppendLine(r, Line("start", grant'[r]))
  /\ phase' = [phase EXCEPT ![r] = "going"]
  /\ pid' = [pid EXCEPT ![r] = TRUE]
  /\ UNCHANGED <<cap, spent, calls, reports>>

\* capped's block ends, however it ends.
End(r) ==
  /\ phase[r] = "going" /\ calls[r] = 0 /\ reports[r] = {}
  /\ AppendLine(r, Line("end", spent[r]))
  /\ phase' = [phase EXCEPT ![r] = "ended"]
  /\ UNCHANGED <<cap, pid, meterVars>>

\* The process dies with what it had under way.
Die(r) ==
  /\ phase[r] = "going"
  /\ phase' = [phase EXCEPT ![r] = "dead"]
  /\ pid' = [pid EXCEPT ![r] = FALSE]
  /\ calls' = [calls EXCEPT ![r] = 0]
  /\ reports' = [reports EXCEPT ![r] = {}]
  /\ UNCHANGED <<cap, ledger, grant, spent>>

\* The system gives a dead run's process id to another process, and takes it.
ReusePid(r) ==
  /\ phase[r] = "dead"
  /\ pid' = [pid EXCEPT ![r] = ~@]
  /\ UNCHANGED <<cap, ledger, phase, meterVars>>

-----------------------------------------------------------------------------
(* The meter *)

Passes(r) == spent[r] < grant[r]

BeginCall(r) ==
  /\ phase[r] = "going" /\ calls[r] < Parallel
  /\ Passes(r)
  /\ calls' = [calls EXCEPT ![r] = @ + 1]
  /\ UNCHANGED <<cap, ledger, phase, pid, grant, spent, reports>>

\* The total is taken under the meter's lock and reported after it.
Charge(r, cost) ==
  /\ calls[r] > 0
  /\ calls' = [calls EXCEPT ![r] = @ - 1]
  /\ spent' = [spent EXCEPT ![r] = @ + cost]
  /\ reports' = [reports EXCEPT ![r] = @ \union {spent'[r]}]
  /\ UNCHANGED <<cap, ledger, phase, pid, grant>>

\* The call fails, and nothing is charged.
FailCall(r) ==
  /\ calls[r] > 0
  /\ calls' = [calls EXCEPT ![r] = @ - 1]
  /\ UNCHANGED <<cap, ledger, phase, pid, grant, spent, reports>>

Report(r, total) ==
  /\ total \in reports[r]
  /\ reports' = [reports EXCEPT ![r] = @ \ {total}]
  /\ AppendLine(r, Line("spend", total))
  /\ UNCHANGED <<cap, phase, pid, grant, spent, calls>>

-----------------------------------------------------------------------------

Init ==
  /\ cap = Unset
  /\ ledger = [r \in Runs |-> <<>>]
  /\ phase = [r \in Runs |-> "new"]
  /\ pid = [r \in Runs |-> FALSE]
  /\ grant = [r \in Runs |-> 0]
  /\ spent = [r \in Runs |-> 0]
  /\ calls = [r \in Runs |-> 0]
  /\ reports = [r \in Runs |-> {}]

RunStep(r) ==
  \/ \E wanted \in Budgets : Start(r, wanted)
  \/ End(r)
  \/ Die(r)
  \/ ReusePid(r)
  \/ BeginCall(r)
  \/ \E cost \in Costs : Charge(r, cost)
  \/ FailCall(r)
  \/ \E total \in reports[r] : Report(r, total)

Next ==
  \/ \E usd \in Caps : Set(usd) \/ SetNew(usd)
  \/ \E r \in Runs : RunStep(r)

Spec == Init /\ [][Next]_vars

-----------------------------------------------------------------------------
(* Properties *)

TypeOK ==
  /\ cap \in Caps \union {Unset}
  /\ \A r \in Runs : \A line \in Range(ledger[r]) :
       line \in [event : {"start", "spend", "end"}, amount : Nat]
  /\ phase \in [Runs -> {"new", "going", "ended", "dead"}]
  /\ pid \in [Runs -> BOOLEAN]
  /\ grant \in [Runs -> Nat]
  /\ spent \in [Runs -> Nat]
  /\ calls \in [Runs -> 0..Parallel]
  /\ reports \in [Runs -> SUBSET Nat]

\* What a run of this session may take of its cap in truth: its grant while it
\* is going, its spend once it ended, what it got to record if it died.
Claim(r) ==
  IF ~Started(r) THEN 0
  ELSE CASE phase[r] = "going" -> grant[r]
         [] phase[r] = "dead"  -> Recorded(r)
         [] OTHER              -> spent[r]

\* A run starts only if all the session's runs together fit the cap as it stands,
\* whatever is under way, unreported, dead or lowered (start's grant under the
\* lock, _read's folding of what is appended outside it).
GrantsFitTheCap ==
  [][(\E r \in Runs : phase[r] = "new" /\ phase'[r] = "going") =>
       SumFunction([r \in Runs |-> Claim(r)])' <= cap]_vars

\* With no report under way the ledger has exactly what the meter spent, in
\* whatever order the totals were written.
ReportsCatchUp ==
  \A r \in Runs :
    Started(r) /\ phase[r] \in {"going", "ended"} /\ reports[r] = {} =>
      Recorded(r) = spent[r]
=============================================================================
