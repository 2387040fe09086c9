---------------------------- MODULE ModelClients ----------------------------
(***************************************************************************)
(* One provider's entry in the model registry (models/registry.py): the    *)
(* factory in force, the clients cached per event loop, the contexts that  *)
(* wrap the factory for a while (evals/budget.py metered, testing.py       *)
(* use_model), and the calls made through chains of observed clients       *)
(* (models/observed.py). A step is the code between two awaits, on any     *)
(* loop. Loops on threads of their own could interleave inside a step, as  *)
(* where resolve_model has read the factory and not yet cached its client: *)
(* here the loops share a thread, or take turns.                           *)
(***************************************************************************)
EXTENDS Naturals, Sequences, FiniteSets, SequencesExt

CONSTANTS
  Loops,      \* event loops, and NoLoop for clients resolved outside any
  NoLoop,
  Calls,      \* a call each of runs that resolve their client first
  Contexts,   \* metered() blocks, each with its meter, or use_model() blocks
  Real        \* the provider itself

ASSUME LoopsAssumption == NoLoop \in Loops /\ Real \notin Contexts

VARIABLES
  factory,    \* _PROVIDERS[name]: whose client, within which meters
  saved,      \* what each context's `saved` holds
  opened,     \* the contexts entered and not left, and their kinds, oldest first (history)
  left,       \* the contexts that have ended
  crossed,    \* one has ended before one entered after it (history)
  clients,    \* every client made: as its factory, and "open" or "closed"
  cache,      \* the number of each loop's cached client, 0 for none
  modelCalls  \* the calls

registryVars == <<factory, saved, opened, left, crossed>>
clientsVars == <<registryVars, clients, cache, modelCalls>>

\* meters: outermost first.
Factory(base, meters) == [base |-> base, meters |-> meters]
Blocks(entries) == {entries[i].block : i \in DOMAIN entries}
NoCall ==
  [at |-> "idle", client |-> 0, passed |-> 0, got |-> FALSE, reports |-> <<>>]

ClientsInit ==
  /\ factory = Factory(Real, <<>>)
  /\ saved = [c \in Contexts |-> factory]
  /\ opened = <<>> /\ left = {} /\ crossed = FALSE
  /\ clients = <<>> /\ cache = [l \in Loops |-> 0]
  /\ modelCalls = [c \in Calls |-> NoCall]
-----------------------------------------------------------------------------
\* Mutant: only one loop's client is forgotten.
Forgotten_Here == [l \in Loops |-> IF l = NoLoop THEN 0 ELSE cache[l]]

\* _forget_clients: they stay open, for the runs that have them.
Forgotten == [l \in Loops |-> 0]

Register(f) == factory' = f /\ cache' = Forgotten

\* metered: the factory in force, within one meter more. use_model: the block's
\* own model, whatever was in force.
Wrapped(c, kind) ==
  IF kind = "metered" THEN Factory(factory.base, <<c>> \o factory.meters)
  ELSE Factory(c, <<>>)

Enter(c, kind) ==
  /\ c \notin Blocks(opened) \cup left
  /\ saved' = [saved EXCEPT ![c] = factory]
  /\ Register(Wrapped(c, kind))
  /\ opened' = Append(opened, [block |-> c, kind |-> kind])
  /\ UNCHANGED <<left, crossed, clients, modelCalls>>

\* Mutant: the block takes out what it put in, and keeps what it found.
Restored_Real(c) == Factory(Real, <<>>)

\* The end of a block, however it ends, puts back what the block found.
Restored(c) == saved[c]

Leave(c) ==
  /\ Register(Restored(c))
  /\ left' = left \cup {c}
  /\ \E i \in DOMAIN opened :
       /\ opened[i].block = c
       /\ opened' = RemoveAt(opened, i)
       /\ crossed' = (crossed \/ i # Len(opened))
  /\ UNCHANGED <<saved, clients, modelCalls>>
-----------------------------------------------------------------------------
\* resolve_model: a run keeps the client it resolves when it starts.
Resolve(c, l) ==
  /\ modelCalls[c].at = "idle"
  /\ IF cache[l] # 0
     THEN /\ modelCalls' = [modelCalls EXCEPT ![c].at = "resolved", ![c].client = cache[l]]
          /\ UNCHANGED <<clients, cache>>
     ELSE /\ clients' = Append(clients, [made |-> factory, state |-> "open"])
          /\ cache' = [cache EXCEPT ![l] = Len(clients) + 1]
          /\ modelCalls' = [modelCalls EXCEPT ![c].at = "resolved", ![c].client = Len(clients) + 1]
  /\ UNCHANGED registryVars

\* A scripted model (testing.py) has no transport to close.
Closable(i) == clients[i].made.base = Real

\* Mutant: the clients are forgotten once they are closed.
Emptied_Later(ls) == cache

\* shutdown clears the caches, and only then awaits.
Emptied(ls) == [l \in Loops |-> IF l \in ls THEN 0 ELSE cache[l]]

\* shutdown on loop l, up to its await: l's client and the one made outside any
\* loop. A client that is closing takes no call either.
Shutdown(l) ==
  LET ls == {l, NoLoop}
      closing == {cache[k] : k \in ls} \ {0}
  IN /\ l # NoLoop /\ closing # {}
     /\ clients' = [i \in DOMAIN clients |->
          IF i \in closing /\ Closable(i) THEN [clients[i] EXCEPT !.state = "closed"]
          ELSE clients[i]]
     /\ cache' = Emptied(ls)
     /\ UNCHANGED <<registryVars, modelCalls>>
-----------------------------------------------------------------------------
Meters(c) == clients[modelCalls[c].client].made.meters
\* The observers whose `before` let the call through and that have not told
\* `after` yet.
Waiting(c) == {i \in 1..modelCalls[c].passed : modelCalls[c].reports[i] = <<>>}

\* observed.py _report, by the observers is.
Report(c, is, outcome, at) ==
  modelCalls' = [modelCalls EXCEPT ![c].at = at, ![c].reports =
    [i \in DOMAIN @ |-> IF i \in is THEN Append(@[i], outcome) ELSE @[i]]]

\* `before` of each observer, from the outermost in, until one raises (a meter
\* at its cap); those it has passed report the refusal.
Begin(c, how) ==
  /\ modelCalls[c].at = "resolved"
  /\ \E passed \in 0..Len(Meters(c)) :
       modelCalls' = [modelCalls EXCEPT ![c] =
         [@ EXCEPT !.passed = passed,
                   !.at = IF passed = Len(Meters(c)) THEN how ELSE "over",
                   !.reports = [i \in 1..Len(Meters(c)) |->
                      IF passed < Len(Meters(c)) /\ i <= passed THEN <<"failed">> ELSE <<>>]]]
  /\ UNCHANGED <<registryVars, clients, cache>>

Serves(c) == clients[modelCalls[c].client].state = "open"

\* complete: the answer goes through all the observers at once.
Complete(c) ==
  /\ modelCalls[c].at = "complete" /\ Serves(c)
  /\ modelCalls' = [modelCalls EXCEPT ![c].at = "over", ![c].got = TRUE,
                             ![c].reports = [i \in DOMAIN @ |-> Append(@[i], "ok")]]
  /\ UNCHANGED <<registryVars, clients, cache>>

\* stream: ModelResponseComplete goes through all the observers.
Respond(c) ==
  /\ modelCalls[c].at = "stream" /\ Serves(c) /\ ~modelCalls[c].got
  /\ modelCalls' = [modelCalls EXCEPT ![c].got = TRUE]
  /\ UNCHANGED <<registryVars, clients, cache>>

\* Mutant: how the stream ended after its response counts.
Outcome_Ended(c, error) == error

\* Once the response is in, the call succeeded, however the stream ended.
Outcome(c, error) == IF modelCalls[c].got THEN "ok" ELSE error

\* The stream ends, with its response or without one, or raises; or the task is
\* cancelled while it waits. The error passes every observer on its way out.
EndModelCall(c) ==
  /\ modelCalls[c].at \in {"complete", "stream"}
  /\ \/ modelCalls[c].at = "stream" /\ Report(c, Waiting(c), Outcome(c, "no response"), "over")
     \/ Report(c, Waiting(c), Outcome(c, "failed"), "over")
     \/ Report(c, Waiting(c), Outcome(c, "cancelled"), "over")
  /\ UNCHANGED <<registryVars, clients, cache>>

\* The reader of a stream stops at an event (agent.py's loop is closed): nobody
\* closes the generators under it, each is left to the loop's finalizer.
Abandon(c) ==
  /\ modelCalls[c].at = "stream"
  /\ modelCalls' = [modelCalls EXCEPT ![c].at = "abandoned"]
  /\ UNCHANGED <<registryVars, clients, cache>>

\* The loop closes the outermost generator left, which lets go of the next one.
Finalize(c) ==
  /\ modelCalls[c].at = "abandoned"
  /\ IF Waiting(c) = {} THEN modelCalls' = [modelCalls EXCEPT ![c].at = "over"]
     ELSE Report(c, {CHOOSE i \in Waiting(c) : \A j \in Waiting(c) : i <= j},
                 Outcome(c, "cancelled"), "abandoned")
  /\ UNCHANGED <<registryVars, clients, cache>>

ClientsNext ==
  \/ \E c \in Contexts : Leave(c) \/ \E kind \in {"metered", "use_model"} : Enter(c, kind)
  \/ \E l \in Loops : Shutdown(l)
  \/ \E c \in Calls :
       \/ \E l \in Loops : Resolve(c, l)
       \/ \E how \in {"complete", "stream"} : Begin(c, how)
       \/ Complete(c) \/ Respond(c) \/ EndModelCall(c) \/ Abandon(c) \/ Finalize(c)

ClientsSpec == ClientsInit /\ [][ClientsNext]_clientsVars
-----------------------------------------------------------------------------
\* What the open blocks make of the provider: the model of the newest use_model
\* block, within the meters of the blocks entered after it.
InForce ==
  LET models == {0} \cup {i \in DOMAIN opened : opened[i].kind = "use_model"}
      base == CHOOSE i \in models : \A j \in models : j <= i
      within == SubSeq(opened, base + 1, Len(opened))
  IN Factory(IF base = 0 THEN Real ELSE opened[base].block,
             Reverse([i \in DOMAIN within |-> within[i].block]))

\* As long as blocks end newest first, as nested `with` statements do, the
\* factory and every client a run can still be given, on every loop, go through
\* just the blocks that are open: no call of a run that starts in a metered
\* block is missed, and none is charged to a meter whose block has ended
\* (evals/budget.py:276, registry.py:69). And no run is given a client that a
\* shutdown has closed or is closing (registry.py:145). (Of loops that take
\* turns: a block entered on another thread amid a resolve is not seen here.)
ClientsAreCurrent ==
  /\ ~crossed => factory = InForce
  /\ \A l \in Loops : cache[l] # 0 => clients[cache[l]] = [made |-> factory, state |-> "open"]

\* However a call ends, each observer that let it through is told once, that it
\* succeeded just when its response came; one that refused it is told nothing.
\* (observed.py:112: a response that came was paid for.)
CallsAccounted ==
  \A c \in Calls : \A i \in DOMAIN modelCalls[c].reports :
    LET told == modelCalls[c].reports[i] IN
    /\ Len(told) = 1 => (told[1] = "ok" <=> modelCalls[c].got)
    /\ modelCalls[c].at = "over" => Len(told) = IF i <= modelCalls[c].passed THEN 1 ELSE 0
    /\ Len(told) <= 1
=============================================================================
