-------------------------- MODULE SessionCapProofs --------------------------
(***************************************************************************)
(* SessionCap: for every set of runs, caps and costs, and any number of    *)
(* calls under way, the ledger has exactly what a run spent as soon as no  *)
(* report of it is under way, in whatever order its totals were appended;  *)
(* and the runs of a session never start past its cap.                     *)
(***************************************************************************)
EXTENDS SessionCap, Sums

\* The totals of a run that are in the ledger; 0 stands for none.
Totals(r) == {0} \union {line.amount : line \in Lines(r, {"spend", "end"})}

IsSequence(s) == s \in Seq(Range(s))

MeterType ==
  /\ ledger = [r \in Runs |-> ledger[r]]
  /\ \A r \in Runs : IsSequence(ledger[r]) /\ Totals(r) \subseteq Nat
  /\ phase \in [Runs -> {"new", "going", "ended", "dead"}]
  /\ spent \in [Runs -> Nat]
  /\ calls \in [Runs -> Nat]
  /\ reports \in [Runs -> SUBSET Nat]

\* A run is charged only while it is going; no total is more than it spent, and
\* what it spent is in the ledger or about to be.
SpentInv ==
  \A r \in Runs :
    /\ phase[r] # "going" => calls[r] = 0
    /\ phase[r] = "new" => ledger[r] = <<>> /\ spent[r] = 0 /\ reports[r] = {}
    /\ \A total \in Totals(r) \union reports[r] : total <= spent[r]
    /\ Started(r) /\ phase[r] \in {"going", "ended"} => spent[r] \in Totals(r) \union reports[r]

CatchUpInv == MeterType /\ SpentInv

-----------------------------------------------------------------------------
(* The ledger *)

LEMMA AppendRange ==
  ASSUME NEW s, IsSequence(s), NEW x
  PROVE  Range(Append(s, x)) = Range(s) \union {x} /\ IsSequence(Append(s, x))
<1> DEFINE S == Range(s) \union {x}
<1>1. s \in Seq(S)
  BY DEF IsSequence
<1>2. /\ DOMAIN s = 1..Len(s) /\ Len(s) \in Nat
      /\ DOMAIN Append(s, x) = 1..(Len(s) + 1)
      /\ \A i \in 1..Len(s) : Append(s, x)[i] = s[i]
      /\ Append(s, x)[Len(s) + 1] = x
      /\ Append(s, x) \in Seq(S)
  <2> HIDE DEF S
  <2> x \in S
    BY DEF S
  <2> QED
    BY <1>1
<1>3. Range(Append(s, x)) = S
  BY <1>2 DEF Range
<1> QED
  BY <1>2, <1>3 DEF IsSequence

\* What a line appended to a run's part of the ledger changes for it and others.
LEMMA AppendedLine ==
  ASSUME MeterType, NEW r \in Runs, NEW event, NEW amount, AppendLine(r, Line(event, amount))
  PROVE  /\ ledger' = [q \in Runs |-> ledger'[q]]
         /\ IsSequence(ledger'[r])
         /\ event \in {"spend", "end"} => Totals(r)' = Totals(r) \union {amount}
         /\ event \notin {"spend", "end"} => Totals(r)' = Totals(r)
         /\ Started(r)' = (Started(r) \/ event = "start")
         /\ \A q \in Runs \ {r} : ledger'[q] = ledger[q]
<1> DEFINE line == Line(event, amount)
<1>1. ledger' = [ledger EXCEPT ![r] = Append(ledger[r], line)]
  BY DEF AppendLine
<1>2. /\ ledger'[r] = Append(ledger[r], line)
      /\ ledger' = [q \in Runs |-> ledger'[q]]
      /\ \A q \in Runs \ {r} : ledger'[q] = ledger[q]
  BY <1>1 DEF MeterType
<1>3. Range(ledger'[r]) = Range(ledger[r]) \union {line} /\ IsSequence(ledger'[r])
  BY <1>2, AppendRange DEF MeterType
<1>4. line.event = event /\ line.amount = amount
  BY DEF Line
<1> HIDE DEF line
<1>5. ASSUME NEW events
      PROVE  /\ event \in events => Lines(r, events)' = Lines(r, events) \union {line}
             /\ event \notin events => Lines(r, events)' = Lines(r, events)
  BY <1>3, <1>4 DEF Lines
<1>6. /\ event \in {"spend", "end"} => Totals(r)' = Totals(r) \union {amount}
      /\ event \notin {"spend", "end"} => Totals(r)' = Totals(r)
  BY <1>4, <1>5 DEF Totals
<1>7. Started(r)' = (Started(r) \/ event = "start")
  BY <1>5 DEF Started
<1> QED
  BY <1>2, <1>3, <1>6, <1>7

LEMMA SameLines ==
  ASSUME NEW r \in Runs, ledger'[r] = ledger[r]
  PROVE  Totals(r)' = Totals(r) /\ Started(r)' = Started(r)
BY DEF Totals, Started, Lines

LEMMA NoLines ==
  ASSUME NEW r \in Runs, ledger[r] = <<>>
  PROVE  Totals(r) = {0} /\ ~Started(r)
BY DEF Totals, Started, Lines, Range

-----------------------------------------------------------------------------
(* The invariant *)

LEMMA CatchUpInit == Init => CatchUpInv
<1> SUFFICES ASSUME Init PROVE CatchUpInv
  OBVIOUS
<1>1. \A r \in Runs : Totals(r) = {0} /\ ~Started(r) /\ ledger[r] = <<>>
  BY NoLines DEF Init
<1>2. IsSequence(<<>>)
  BY DEF IsSequence
<1> QED
  BY <1>1, <1>2 DEF Init, CatchUpInv, MeterType, SpentInv

\* A step that leaves the ledger alone keeps the invariant if it keeps what each
\* run spent and has to report in order.
LEMMA OffLedgerStep ==
  ASSUME CatchUpInv, UNCHANGED ledger,
         phase' \in [Runs -> {"new", "going", "ended", "dead"}],
         spent' \in [Runs -> Nat], calls' \in [Runs -> Nat], reports' \in [Runs -> SUBSET Nat],
         \A r \in Runs :
           /\ phase'[r] # "going" => calls'[r] = 0
           /\ phase'[r] = "new" => phase[r] = "new" /\ spent'[r] = 0 /\ reports'[r] = {}
           /\ phase'[r] \in {"going", "ended"} => phase[r] = phase'[r]
           /\ spent[r] <= spent'[r]
           /\ \A total \in reports'[r] : total <= spent'[r]
           /\ phase'[r] \in {"going", "ended"} =>
                spent'[r] \in reports'[r] \/ (spent'[r] = spent[r] /\ reports[r] \subseteq reports'[r])
  PROVE  CatchUpInv'
<1>1. \A r \in Runs : Totals(r)' = Totals(r) /\ Started(r)' = Started(r)
  BY SameLines
<1>2. MeterType'
  BY <1>1 DEF CatchUpInv, MeterType
<1>3. SpentInv'
  <2> SUFFICES ASSUME NEW r \in Runs
               PROVE  /\ phase'[r] # "going" => calls'[r] = 0
                      /\ phase'[r] = "new" => ledger'[r] = <<>> /\ spent'[r] = 0 /\ reports'[r] = {}
                      /\ \A total \in Totals(r)' \union reports'[r] : total <= spent'[r]
                      /\ Started(r)' /\ phase'[r] \in {"going", "ended"} =>
                           spent'[r] \in Totals(r)' \union reports'[r]
    BY DEF SpentInv
  <2>1. Totals(r) \subseteq Nat /\ spent[r] \in Nat /\ spent'[r] \in Nat
    BY DEF CatchUpInv, MeterType
  <2>2. phase'[r] = "new" => ledger'[r] = <<>>
    BY DEF CatchUpInv, SpentInv
  <2>3. ASSUME NEW total \in Totals(r) PROVE total <= spent'[r]
    <3>1. total <= spent[r] /\ total \in Nat
      BY <2>1 DEF CatchUpInv, SpentInv
    <3> QED
      BY <3>1, <2>1
  <2>4. Started(r) /\ phase'[r] \in {"going", "ended"} => spent'[r] \in Totals(r) \union reports'[r]
    BY DEF CatchUpInv, SpentInv
  <2> QED
    BY <1>1, <2>2, <2>3, <2>4
<1> QED
  BY <1>2, <1>3 DEF CatchUpInv

LEMMA CatchUpStep == CatchUpInv /\ [Next]_vars => CatchUpInv'
<1> SUFFICES ASSUME CatchUpInv, [Next]_vars PROVE CatchUpInv'
  OBVIOUS
<1> USE Amounts
<1>1. ASSUME NEW usd \in Caps, Set(usd) PROVE CatchUpInv'
  BY <1>1, OffLedgerStep DEF Set, CatchUpInv, MeterType, SpentInv
<1>2. ASSUME NEW usd \in Caps, SetNew(usd) PROVE CatchUpInv'
  <2>1. \A r \in Runs : Totals(r)' = {0} /\ ~Started(r)' /\ ledger'[r] = <<>>
    BY <1>2 DEF SetNew, Totals, Started, Lines, Range
  <2>2. IsSequence(<<>>)
    BY DEF IsSequence
  <2>3. MeterType'
    BY <2>1, <2>2, <1>2 DEF SetNew, CatchUpInv, MeterType
  <2>4. SpentInv'
    BY <2>1, <1>2 DEF SetNew, CatchUpInv, MeterType, SpentInv
  <2> QED
    BY <2>3, <2>4 DEF CatchUpInv
<1>3. ASSUME NEW r \in Runs, NEW wanted \in Budgets, Start(r, wanted) PROVE CatchUpInv'
  <2>1. /\ phase[r] = "new" /\ phase' = [phase EXCEPT ![r] = "going"]
        /\ UNCHANGED <<spent, calls, reports>>
        /\ AppendLine(r, Line("start", grant'[r]))
    BY <1>3 DEF Start
  <2>2. /\ ledger' = [q \in Runs |-> ledger'[q]] /\ IsSequence(ledger'[r])
        /\ Totals(r)' = Totals(r)
        /\ \A q \in Runs \ {r} : ledger'[q] = ledger[q]
    BY <2>1, AppendedLine DEF CatchUpInv
  <2>3. \A q \in Runs \ {r} : Totals(q)' = Totals(q) /\ Started(q)' = Started(q)
    BY <2>2, SameLines
  <2>4. Totals(r) = {0} /\ spent[r] = 0
    BY <2>1, NoLines DEF CatchUpInv, SpentInv
  <2>5. MeterType'
    BY <2>1, <2>2, <2>3 DEF CatchUpInv, MeterType
  <2>6. SpentInv'
    BY <2>1, <2>2, <2>3, <2>4 DEF CatchUpInv, MeterType, SpentInv
  <2> QED
    BY <2>5, <2>6 DEF CatchUpInv
<1>4. ASSUME NEW r \in Runs, End(r) PROVE CatchUpInv'
  <2>1. /\ phase[r] = "going" /\ phase' = [phase EXCEPT ![r] = "ended"]
        /\ calls[r] = 0 /\ UNCHANGED <<spent, calls, reports>>
        /\ AppendLine(r, Line("end", spent[r]))
    BY <1>4 DEF End, meterVars
  <2>2. /\ ledger' = [q \in Runs |-> ledger'[q]] /\ IsSequence(ledger'[r])
        /\ Totals(r)' = Totals(r) \union {spent[r]}
        /\ \A q \in Runs \ {r} : ledger'[q] = ledger[q]
    BY <2>1, AppendedLine DEF CatchUpInv
  <2>3. \A q \in Runs \ {r} : Totals(q)' = Totals(q) /\ Started(q)' = Started(q)
    BY <2>2, SameLines
  <2>4. MeterType'
    <3>1. \A q \in Runs : IsSequence(ledger'[q]) /\ Totals(q)' \subseteq Nat
      BY <2>2, <2>3 DEF CatchUpInv, MeterType
    <3> QED
      BY <2>1, <2>2, <3>1 DEF CatchUpInv, MeterType
  <2>5. SpentInv'
    BY <2>1, <2>2, <2>3 DEF CatchUpInv, MeterType, SpentInv
  <2> QED
    BY <2>4, <2>5 DEF CatchUpInv
<1>5. ASSUME NEW r \in Runs, Die(r) PROVE CatchUpInv'
  BY <1>5, OffLedgerStep DEF Die, CatchUpInv, MeterType, SpentInv
<1>6. ASSUME NEW r \in Runs, ReusePid(r) PROVE CatchUpInv'
  BY <1>6, OffLedgerStep DEF ReusePid, meterVars, CatchUpInv, MeterType, SpentInv
<1>7. ASSUME NEW r \in Runs, BeginCall(r) PROVE CatchUpInv'
  BY <1>7, OffLedgerStep DEF BeginCall, CatchUpInv, MeterType, SpentInv
<1>8. ASSUME NEW r \in Runs, NEW cost \in Costs, Charge(r, cost) PROVE CatchUpInv'
  <2>1. /\ calls[r] > 0 /\ calls' = [calls EXCEPT ![r] = calls[r] - 1]
        /\ spent' = [spent EXCEPT ![r] = spent[r] + cost]
        /\ reports' = [reports EXCEPT ![r] = reports[r] \union {spent'[r]}]
        /\ UNCHANGED <<ledger, phase>>
    BY <1>8 DEF Charge
  <2>2. phase[r] = "going"
    BY <2>1 DEF CatchUpInv, MeterType, SpentInv
  <2>3. /\ spent' \in [Runs -> Nat] /\ calls' \in [Runs -> Nat]
        /\ spent'[r] = spent[r] + cost /\ spent'[r] \in Nat
    BY <2>1 DEF CatchUpInv, MeterType
  <2>4. reports' \in [Runs -> SUBSET Nat] /\ reports'[r] = reports[r] \union {spent'[r]}
    BY <2>1, <2>3 DEF CatchUpInv, MeterType
  <2>5. \A total \in reports[r] : total <= spent'[r]
    <3>1. \A total \in reports[r] : total <= spent[r] /\ total \in Nat
      BY DEF CatchUpInv, MeterType, SpentInv
    <3> QED
      BY <3>1, <2>3 DEF CatchUpInv, MeterType
  <2>6. \A q \in Runs \ {r} : /\ spent'[q] = spent[q] /\ calls'[q] = calls[q]
                              /\ reports'[q] = reports[q]
    BY <2>1 DEF CatchUpInv, MeterType
  <2>7. \A q \in Runs :
          /\ phase'[q] # "going" => calls'[q] = 0
          /\ phase'[q] = "new" => phase[q] = "new" /\ spent'[q] = 0 /\ reports'[q] = {}
          /\ spent[q] <= spent'[q]
          /\ \A total \in reports'[q] : total <= spent'[q]
          /\ spent'[q] \in reports'[q] \/ (spent'[q] = spent[q] /\ reports[q] \subseteq reports'[q])
    BY <2>1, <2>2, <2>3, <2>4, <2>5, <2>6 DEF CatchUpInv, MeterType, SpentInv
  <2> QED
    BY <2>1, <2>3, <2>4, <2>7, OffLedgerStep DEF CatchUpInv, MeterType
<1>9. ASSUME NEW r \in Runs, FailCall(r) PROVE CatchUpInv'
  BY <1>9, OffLedgerStep DEF FailCall, CatchUpInv, MeterType, SpentInv
<1>10. ASSUME NEW r \in Runs, NEW total \in reports[r], Report(r, total) PROVE CatchUpInv'
  <2>1. /\ reports' = [reports EXCEPT ![r] = reports[r] \ {total}]
        /\ UNCHANGED <<phase, spent, calls>>
        /\ AppendLine(r, Line("spend", total))
    BY <1>10 DEF Report
  <2>2. /\ ledger' = [q \in Runs |-> ledger'[q]] /\ IsSequence(ledger'[r])
        /\ Totals(r)' = Totals(r) \union {total}
        /\ Started(r)' = (Started(r) \/ "spend" = "start")
        /\ \A q \in Runs \ {r} : ledger'[q] = ledger[q]
    BY <2>1, AppendedLine DEF CatchUpInv
  <2>3. \A q \in Runs \ {r} : Totals(q)' = Totals(q) /\ Started(q)' = Started(q)
    BY <2>2, SameLines
  <2>4. phase[r] # "new"
    BY DEF CatchUpInv, SpentInv
  <2>5. MeterType'
    <3>1. \A q \in Runs : IsSequence(ledger'[q]) /\ Totals(q)' \subseteq Nat
      BY <2>2, <2>3 DEF CatchUpInv, MeterType
    <3>2. reports' \in [Runs -> SUBSET Nat]
      BY <2>1 DEF CatchUpInv, MeterType
    <3> QED
      BY <2>1, <2>2, <3>1, <3>2 DEF CatchUpInv, MeterType
  <2>6. /\ reports'[r] = reports[r] \ {total}
        /\ \A q \in Runs \ {r} : reports'[q] = reports[q]
        /\ Started(r)' = Started(r)
    <3>1. Started(r)' = Started(r)
      <4>1. "spend" # "start"
        OBVIOUS
      <4>2. Started(r) \in BOOLEAN
        BY DEF Started
      <4> QED
        BY <4>1, <4>2, <2>2, Zenon
    <3> QED
      BY <3>1, <2>1 DEF CatchUpInv, MeterType
  <2>7. \A q \in Runs : /\ Totals(q)' \union reports'[q] = Totals(q) \union reports[q]
                        /\ Started(q)' = Started(q)
    BY <2>2, <2>3, <2>6
  <2>8. \A q \in Runs : phase[q] = "new" => ledger'[q] = <<>> /\ reports'[q] = {}
    BY <2>2, <2>4, <2>6 DEF CatchUpInv, SpentInv
  <2>9. SpentInv'
    BY <2>1, <2>7, <2>8 DEF CatchUpInv, SpentInv
  <2> QED
    BY <2>5, <2>9 DEF CatchUpInv
<1>11. CASE UNCHANGED vars
  BY <1>11, OffLedgerStep DEF vars, meterVars, CatchUpInv, MeterType, SpentInv
<1> QED
  BY <1>1, <1>2, <1>3, <1>4, <1>5, <1>6, <1>7, <1>8, <1>9, <1>10, <1>11 DEF Next, RunStep

\* With no report of a run under way, the largest total in the ledger is what it
\* spent, whatever the order and whoever else appends.
THEOREM ReportsCatchUpAlways == Spec => []ReportsCatchUp
<1>1. CatchUpInv => ReportsCatchUp
  <2> SUFFICES ASSUME CatchUpInv, NEW r \in Runs, Started(r),
                      phase[r] \in {"going", "ended"}, reports[r] = {}
               PROVE  Recorded(r) = spent[r]
    BY DEF ReportsCatchUp
  <2>1. /\ spent[r] \in Totals(r) /\ Totals(r) \subseteq Nat
        /\ \A total \in Totals(r) : spent[r] >= total
    BY DEF CatchUpInv, MeterType, SpentInv
  <2>2. Max(Totals(r)) = spent[r]
    BY <2>1 DEF Max
  <2> QED
    BY <2>2 DEF Recorded, Totals
<1> QED
  BY <1>1, CatchUpInit, CatchUpStep, PTL DEF Spec

-----------------------------------------------------------------------------
(* Grants *)

Starts(r) == {line.amount : line \in Lines(r, {"start"})}

\* A run's start line, if the ledger still has it, has its grant; the process of
\* a run that is going exists and has not ended; an ended one has reported.
GrantInv ==
  /\ cap \in Int /\ grant \in [Runs -> Nat] /\ pid \in [Runs -> BOOLEAN]
  /\ \A r \in Runs :
       /\ Starts(r) \subseteq {grant[r]}
       /\ phase[r] = "going" => pid[r] /\ Lines(r, {"end"}) = {}
       /\ phase[r] = "ended" => reports[r] = {}

LEMMA LinesAppended ==
  ASSUME CatchUpInv, NEW r \in Runs, NEW event, NEW amount, AppendLine(r, Line(event, amount))
  PROVE  /\ event = "start" => Starts(r)' = Starts(r) \union {amount}
         /\ event # "start" => Starts(r)' = Starts(r)
         /\ event # "end" => Lines(r, {"end"})' = Lines(r, {"end"})
         /\ \A q \in Runs \ {r} :
              Starts(q)' = Starts(q) /\ Lines(q, {"end"})' = Lines(q, {"end"})
<1> DEFINE line == Line(event, amount)
<1>1. ledger' = [ledger EXCEPT ![r] = Append(ledger[r], line)]
  BY DEF AppendLine
<1>2. /\ ledger'[r] = Append(ledger[r], line)
      /\ \A q \in Runs \ {r} : ledger'[q] = ledger[q]
  BY <1>1 DEF CatchUpInv, MeterType
<1>3. Range(ledger'[r]) = Range(ledger[r]) \union {line}
  BY <1>2, AppendRange DEF CatchUpInv, MeterType
<1>4. line.event = event /\ line.amount = amount
  BY DEF Line
<1> HIDE DEF line
<1>5. ASSUME NEW events
      PROVE  /\ event \in events => Lines(r, events)' = Lines(r, events) \union {line}
             /\ event \notin events => Lines(r, events)' = Lines(r, events)
  BY <1>3, <1>4 DEF Lines
<1>6. \A q \in Runs \ {r} : Starts(q)' = Starts(q) /\ Lines(q, {"end"})' = Lines(q, {"end"})
  BY <1>2 DEF Starts, Lines
<1> QED
  BY <1>4, <1>5, <1>6 DEF Starts

LEMMA GrantInit == Init => GrantInv
<1> SUFFICES ASSUME Init PROVE GrantInv
  OBVIOUS
<1>1. \A r \in Runs : Starts(r) = {}
  BY DEF Init, Starts, Lines, Range
<1> QED
  BY <1>1 DEF Init, GrantInv, Unset

\* A step that appends nothing, grants nothing and ends nothing.
LEMMA GrantKept ==
  ASSUME GrantInv, UNCHANGED <<ledger, grant>>, cap' \in Int, pid' \in [Runs -> BOOLEAN],
         \A r \in Runs :
           /\ phase'[r] = "going" => phase[r] = "going" /\ pid'[r] = pid[r]
           /\ phase'[r] = "ended" => phase[r] = "ended" /\ reports'[r] \subseteq reports[r]
  PROVE  GrantInv'
<1>1. \A r \in Runs : Starts(r)' = Starts(r) /\ Lines(r, {"end"})' = Lines(r, {"end"})
  BY DEF Starts, Lines
<1> QED
  BY <1>1 DEF GrantInv

LEMMA NatLeast ==
  \A a \in Nat, b \in Int : b > 0 => Min({a, b}) \in Nat /\ Min({a, b}) <= a /\ Min({a, b}) <= b
<1> SUFFICES ASSUME NEW a \in Nat, NEW b \in Int, b > 0
             PROVE  Min({a, b}) \in Nat /\ Min({a, b}) <= a /\ Min({a, b}) <= b
  OBVIOUS
<1>1. \E x \in {a, b} : \A y \in {a, b} : x =< y
  <2>1. CASE a <= b
    BY <2>1
  <2>2. CASE b <= a
    BY <2>2
  <2> QED
    BY <2>1, <2>2
<1>2. Min({a, b}) \in {a, b} /\ \A y \in {a, b} : Min({a, b}) =< y
  BY <1>1 DEF Min
<1> QED
  BY <1>2

\* A total over the runs is a number.
LEMMA RemainingType ==
  ASSUME cap \in Int, \A r \in Runs : Share(r) \in Nat
  PROVE  Remaining \in Int
<1> DEFINE f == [r \in Runs |-> Share(r)]
<1>1. SumFunctionOnSet(f, Runs) \in Nat
  <2>1. \A r \in Runs : f[r] \in Nat
    OBVIOUS
  <2> HIDE DEF f
  <2> QED
    BY <2>1, FiniteRuns, SumType
<1>2. Remaining = cap - SumFunctionOnSet(f, Runs)
  BY DEF Remaining, SumFunction
<1> QED
  BY <1>1, <1>2

LEMMA RecordedMax ==
  ASSUME CatchUpInv, NEW r \in Runs
  PROVE  Recorded(r) \in Nat /\ Recorded(r) \in Totals(r) /\ \A total \in Totals(r) : total <= Recorded(r)
<1>1. Totals(r) \subseteq Nat /\ Totals(r) # {} /\ spent[r] \in Nat /\ \A total \in Totals(r) : total <= spent[r]
  BY DEF CatchUpInv, MeterType, SpentInv, Totals
<1>2. \E x \in Totals(r) : \A y \in Totals(r) : x >= y
  BY <1>1, NatMax
<1>3. Recorded(r) \in Totals(r) /\ \A y \in Totals(r) : Recorded(r) >= y
  BY <1>2 DEF Recorded, Totals, Max
<1> QED
  BY <1>1, <1>3

LEMMA NatGreater ==
  \A a, b \in Nat : Max({a, b}) \in Nat /\ a <= Max({a, b}) /\ b <= Max({a, b})
<1> SUFFICES ASSUME NEW a \in Nat, NEW b \in Nat
             PROVE  Max({a, b}) \in Nat /\ a <= Max({a, b}) /\ b <= Max({a, b})
  OBVIOUS
<1>1. \E x \in {a, b} : \A y \in {a, b} : x >= y
  <2>1. CASE a >= b
    BY <2>1
  <2>2. CASE b >= a
    BY <2>2
  <2> QED
    BY <2>1, <2>2
<1>2. Max({a, b}) \in {a, b} /\ \A y \in {a, b} : Max({a, b}) >= y
  BY <1>1 DEF Max
<1> QED
  BY <1>2

\* What is held for a run covers what it may take in truth.
LEMMA ClaimsCovered ==
  ASSUME CatchUpInv, GrantInv, NEW r \in Runs
  PROVE  Share(r) \in Nat /\ Claim(r) \in Nat /\ Claim(r) <= Share(r)
<1>1. Recorded(r) \in Nat /\ grant[r] \in Nat /\ spent[r] \in Nat
  BY RecordedMax DEF CatchUpInv, MeterType, GrantInv
<1>2. Held(r) \in Nat /\ (Started(r) => Held(r) >= grant[r])
  <2>1. Starts(r) \in {{}, {grant[r]}} /\ (Started(r) => Starts(r) = {grant[r]})
    BY DEF GrantInv, Starts, Started
  <2>2. Max({0}) = 0
    BY DEF Max
  <2>3. Held(r) = Max({0} \union Starts(r))
    BY DEF Held, Starts
  <2>4. CASE Starts(r) = {}
    BY <2>1, <2>2, <2>3, <2>4
  <2>5. CASE Starts(r) = {grant[r]}
    <3>1. Held(r) = Max({0, grant[r]})
      <4>1. {0} \union {grant[r]} = {0, grant[r]}
        OBVIOUS
      <4> QED
        BY <2>3, <2>5, <4>1
    <3> QED
      BY <1>1, <3>1, NatGreater
  <2> QED
    BY <2>1, <2>4, <2>5
<1>3. /\ Share(r) \in Nat /\ Recorded(r) <= Share(r)
      /\ Running(r) => Held(r) <= Share(r)
  BY <1>1, <1>2, NatGreater DEF Share
<1>4. CASE ~Started(r)
  <2>1. Claim(r) = 0
    BY <1>4 DEF Claim
  <2> QED
    BY <1>3, <2>1
<1>5. CASE Started(r) /\ phase[r] = "going"
  <2>1. Running(r)
    BY <1>5 DEF Running, GrantInv
  <2>2. Claim(r) = grant[r]
    BY <1>5 DEF Claim
  <2> QED
    BY <1>1, <1>2, <1>3, <1>5, <2>1, <2>2
<1>6. CASE Started(r) /\ phase[r] = "dead"
  <2>1. Claim(r) = Recorded(r)
    BY <1>6 DEF Claim
  <2> QED
    BY <1>1, <1>3, <2>1
<1>7. CASE Started(r) /\ phase[r] = "ended"
  <2>1. Claim(r) = spent[r]
    BY <1>7 DEF Claim
  <2>2. spent[r] \in Totals(r)
    BY <1>7 DEF CatchUpInv, SpentInv, GrantInv
  <2>3. spent[r] <= Recorded(r)
    BY <2>2, RecordedMax
  <2> QED
    BY <1>1, <1>3, <2>1, <2>3
<1>8. phase[r] # "new" \/ ~Started(r)
  BY NoLines DEF CatchUpInv, SpentInv
<1> QED
  BY <1>4, <1>5, <1>6, <1>7, <1>8 DEF CatchUpInv, MeterType

LEMMA GrantStep == CatchUpInv /\ GrantInv /\ [Next]_vars => GrantInv'
<1> SUFFICES ASSUME CatchUpInv, GrantInv, [Next]_vars PROVE GrantInv'
  OBVIOUS
<1> USE Amounts
<1>1. ASSUME NEW usd \in Caps, Set(usd) PROVE GrantInv'
  BY <1>1, GrantKept DEF Set, GrantInv
<1>2. ASSUME NEW usd \in Caps, SetNew(usd) PROVE GrantInv'
  <2>1. \A r \in Runs : Starts(r)' = {} /\ Lines(r, {"end"})' = {}
    BY <1>2 DEF SetNew, Starts, Lines, Range
  <2> QED
    BY <1>2, <2>1 DEF SetNew, GrantInv
<1>3. ASSUME NEW r \in Runs, NEW wanted \in Budgets, Start(r, wanted) PROVE GrantInv'
  <2>1. /\ phase[r] = "new" /\ ~Refused /\ phase' = [phase EXCEPT ![r] = "going"]
        /\ grant' = [grant EXCEPT ![r] = Min({wanted, Remaining})]
        /\ pid' = [pid EXCEPT ![r] = TRUE] /\ UNCHANGED <<cap, reports>>
        /\ AppendLine(r, Line("start", grant'[r]))
    BY <1>3 DEF Start
  <2>2. Min({wanted, Remaining}) \in Nat
    <3>1. Remaining \in Int
      BY ClaimsCovered, RemainingType DEF GrantInv
    <3>2. Remaining > 0 /\ wanted \in Nat
      BY <2>1, <3>1 DEF Refused
    <3> QED
      BY <3>1, <3>2, NatLeast
  <2>3. /\ grant' \in [Runs -> Nat] /\ pid' \in [Runs -> BOOLEAN]
        /\ pid'[r] = TRUE
        /\ \A q \in Runs \ {r} : grant'[q] = grant[q] /\ pid'[q] = pid[q] /\ phase'[q] = phase[q]
    BY <2>1, <2>2 DEF GrantInv, CatchUpInv, MeterType
  <2>4. /\ Starts(r)' = Starts(r) \union {grant'[r]}
        /\ Lines(r, {"end"})' = Lines(r, {"end"})
        /\ \A q \in Runs \ {r} : Starts(q)' = Starts(q) /\ Lines(q, {"end"})' = Lines(q, {"end"})
    BY <2>1, LinesAppended
  <2>5. Starts(r) = {} /\ Lines(r, {"end"}) = {} /\ phase'[r] = "going"
    <3>1. ledger[r] = <<>>
      BY <2>1 DEF CatchUpInv, SpentInv
    <3> QED
      BY <2>1, <3>1 DEF Starts, Lines, Range, CatchUpInv, MeterType
  <2>6. cap' \in Int
    BY <2>1 DEF GrantInv
  <2>7. ASSUME NEW q \in Runs
        PROVE  /\ Starts(q)' \subseteq {grant'[q]}
               /\ phase'[q] = "going" => pid'[q] /\ Lines(q, {"end"})' = {}
               /\ phase'[q] = "ended" => reports'[q] = {}
    <3>1. CASE q = r
      <4>1. phase'[r] # "ended" /\ Starts(r)' = {grant'[r]} /\ Lines(r, {"end"})' = {}
        BY <2>4, <2>5
      <4> QED
        BY <2>3, <3>1, <4>1
    <3>2. CASE q # r
      <4>1. /\ Starts(q)' = Starts(q) /\ Lines(q, {"end"})' = Lines(q, {"end"})
            /\ phase'[q] = phase[q] /\ pid'[q] = pid[q] /\ grant'[q] = grant[q]
            /\ reports'[q] = reports[q]
        BY <2>1, <2>3, <2>4, <3>2
      <4> QED
        BY <4>1 DEF GrantInv
    <3> QED
      BY <3>1, <3>2
  <2> QED
    BY <2>3, <2>6, <2>7 DEF GrantInv
<1>4. ASSUME NEW r \in Runs, End(r) PROVE GrantInv'
  <2>1. /\ phase' = [phase EXCEPT ![r] = "ended"] /\ reports[r] = {}
        /\ UNCHANGED <<cap, pid, grant, reports>> /\ AppendLine(r, Line("end", spent[r]))
    BY <1>4 DEF End, meterVars
  <2>2. /\ Starts(r)' = Starts(r)
        /\ \A q \in Runs \ {r} : Starts(q)' = Starts(q) /\ Lines(q, {"end"})' = Lines(q, {"end"})
    BY <2>1, LinesAppended
  <2>3. phase'[r] = "ended" /\ \A q \in Runs \ {r} : phase'[q] = phase[q]
    BY <2>1 DEF CatchUpInv, MeterType
  <2> QED
    BY <2>1, <2>2, <2>3 DEF GrantInv
<1>5. ASSUME NEW r \in Runs, Die(r) PROVE GrantInv'
  BY <1>5, GrantKept DEF Die, GrantInv, CatchUpInv, MeterType
<1>6. ASSUME NEW r \in Runs, ReusePid(r) PROVE GrantInv'
  BY <1>6, GrantKept DEF ReusePid, meterVars, GrantInv, CatchUpInv, MeterType
<1>7. ASSUME NEW r \in Runs, BeginCall(r) \/ FailCall(r) PROVE GrantInv'
  BY <1>7, GrantKept DEF BeginCall, FailCall, GrantInv
<1>8. ASSUME NEW r \in Runs, NEW cost \in Costs, Charge(r, cost) PROVE GrantInv'
  <2>1. phase[r] = "going" /\ UNCHANGED <<cap, ledger, phase, pid, grant>>
    BY <1>8 DEF Charge, CatchUpInv, MeterType, SpentInv
  <2>2. \A q \in Runs \ {r} : reports'[q] = reports[q]
    BY <1>8 DEF Charge, CatchUpInv, MeterType
  <2> QED
    BY <2>1, <2>2, GrantKept DEF GrantInv
<1>9. ASSUME NEW r \in Runs, NEW total \in reports[r], Report(r, total) PROVE GrantInv'
  <2>1. /\ reports' = [reports EXCEPT ![r] = reports[r] \ {total}]
        /\ UNCHANGED <<cap, phase, pid, grant>> /\ AppendLine(r, Line("spend", total))
    BY <1>9 DEF Report
  <2>2. \A q \in Runs : Starts(q)' = Starts(q) /\ Lines(q, {"end"})' = Lines(q, {"end"})
    BY <2>1, LinesAppended
  <2>3. \A q \in Runs : reports'[q] \subseteq reports[q]
    BY <2>1 DEF CatchUpInv, MeterType
  <2> QED
    BY <2>1, <2>2, <2>3 DEF GrantInv
<1>10. CASE UNCHANGED vars
  BY <1>10, GrantKept DEF vars, meterVars, GrantInv
<1> QED
  BY <1>1, <1>2, <1>3, <1>4, <1>5, <1>6, <1>7, <1>8, <1>9, <1>10 DEF Next, RunStep

\* A start adds no more than what remains.
LEMMA StartFits ==
  ASSUME CatchUpInv, GrantInv, NEW r \in Runs, NEW wanted \in Budgets, Start(r, wanted), GrantInv'
  PROVE  SumFunction([q \in Runs |-> Claim(q)])' <= cap
<1> DEFINE f == [q \in Runs |-> Share(q)]
           g == [q \in Runs |-> Claim(q)']
           rest == Runs \ {r}
<1>1. /\ grant' = [grant EXCEPT ![r] = Min({wanted, Remaining})]
      /\ phase' = [phase EXCEPT ![r] = "going"] /\ ~Refused /\ UNCHANGED spent
      /\ AppendLine(r, Line("start", grant'[r]))
  BY DEF Start
<1>2. Remaining \in Int /\ Remaining > 0 /\ wanted \in Nat
  <2>1. Remaining \in Int
    BY ClaimsCovered, RemainingType DEF GrantInv
  <2> QED
    BY <1>1, <2>1, Amounts DEF Refused
<1>3. grant'[r] \in Nat /\ grant'[r] <= Remaining
  <2>1. grant'[r] = Min({wanted, Remaining})
    BY <1>1 DEF GrantInv
  <2> QED
    BY <1>2, <2>1, NatLeast
<1>4. Claim(r)' = grant'[r]
  <2>1. Started(r)' = (Started(r) \/ "start" = "start") /\ phase'[r] = "going"
    BY <1>1, AppendedLine DEF CatchUpInv, MeterType
  <2> QED
    BY <2>1 DEF Claim
<1>5. \A q \in rest : Claim(q)' = Claim(q)
  <2>1. \A q \in rest : /\ ledger'[q] = ledger[q] /\ phase'[q] = phase[q]
                        /\ grant'[q] = grant[q] /\ spent'[q] = spent[q]
    BY <1>1, AppendedLine DEF CatchUpInv, MeterType, GrantInv
  <2>2. \A q \in rest : Started(q)' = Started(q) /\ Recorded(q)' = Recorded(q)
    BY <2>1 DEF Started, Recorded, Lines
  <2> QED
    BY <2>1, <2>2 DEF Claim
<1>6. \A q \in Runs : f[q] \in Nat /\ g[q] \in Nat
  BY <1>3, <1>4, <1>5, ClaimsCovered
<1>7. \A q \in rest : g[q] <= f[q]
  BY <1>5, ClaimsCovered
<1>8. g[r] = grant'[r]
  BY <1>4
<1>9. Remaining = cap - SumFunctionOnSet(f, Runs)
  BY DEF Remaining, SumFunction
<1>10. SumFunction([q \in Runs |-> Claim(q)])' = SumFunctionOnSet(g, Runs)
  BY DEF SumFunction
<1> HIDE DEF f, g
<1>11. IsFiniteSet(Runs) /\ IsFiniteSet(rest)
  BY FiniteRuns, FS_Subset
<1>12. /\ SumFunctionOnSet(f, Runs) = f[r] + SumFunctionOnSet(f, rest)
       /\ SumFunctionOnSet(g, Runs) = g[r] + SumFunctionOnSet(g, rest)
  BY <1>6, <1>11, SumSplit
<1>13. SumFunctionOnSet(f, rest) \in Nat /\ SumFunctionOnSet(g, rest) \in Nat
  BY <1>6, <1>11, SumType
<1>14. SumFunctionOnSet(g, rest) <= SumFunctionOnSet(f, rest)
  BY <1>6, <1>7, <1>11, SumLeq
<1>15. cap \in Int /\ f[r] \in Nat
  BY <1>6 DEF GrantInv
<1> QED
  BY <1>3, <1>8, <1>9, <1>10, <1>12, <1>13, <1>14, <1>15

\* No run starts past the cap, whatever the other runs have under way, have not
\* reported yet or left behind when they died (session.py start, _read).
THEOREM GrantsFitTheCapAlways == Spec => GrantsFitTheCap
<1>1. CatchUpInv /\ GrantInv /\ GrantInv' /\ [Next]_vars =>
        [(\E r \in Runs : phase[r] = "new" /\ phase'[r] = "going") =>
           SumFunction([r \in Runs |-> Claim(r)])' <= cap]_vars
  <2> SUFFICES ASSUME CatchUpInv, GrantInv, GrantInv', Next,
                      NEW r \in Runs, phase[r] = "new", phase'[r] = "going"
               PROVE  SumFunction([q \in Runs |-> Claim(q)])' <= cap
    BY DEF vars
  <2>1. PICK q \in Runs : \E wanted \in Budgets : Start(q, wanted)
    <3>1. \A usd \in Caps : ~Set(usd) /\ ~SetNew(usd)
      BY DEF Set, SetNew
    <3>2. \A q \in Runs : ~End(q) /\ ~Die(q)
      BY DEF End, Die, CatchUpInv, MeterType
    <3>3. \A q \in Runs : /\ ~ReusePid(q) /\ ~BeginCall(q) /\ ~FailCall(q)
                          /\ (\A cost \in Costs : ~Charge(q, cost))
                          /\ (\A total \in reports[q] : ~Report(q, total))
      BY DEF ReusePid, BeginCall, FailCall, Charge, Report
    <3> QED
      BY <3>1, <3>2, <3>3 DEF Next, RunStep
  <2> QED
    BY <2>1, StartFits
<1> QED
  BY <1>1, CatchUpInit, CatchUpStep, GrantInit, GrantStep, PTL DEF Spec, GrantsFitTheCap

=============================================================================
