----------------------------- MODULE ToolSources -----------------------------
(***************************************************************************)
(* Runs that share one CompositeToolSource (tools/aggregate.py) over an    *)
(* MCP server reached through a lazily opened session (tools/mcp.py), a    *)
(* Composio toolkit with a cached catalog (composio.py), and a workspace's *)
(* tools, which only some contexts have; and the connection of an account  *)
(* to the toolkit. Each await is a step.                                   *)
(***************************************************************************)
EXTENDS Naturals, Sequences, FiniteSets, Functions

CONSTANTS
  Runs,
  HasWorkspace,  \* the runs whose context resolves to a workspace
  McpTools,      \* what the server offers: a sequence of pages, sets of names
  Catalogs,      \* what the toolkit may offer: sets of names
  TTL,           \* tools_cache_ttl
  Statuses,      \* what the vendor says an account's status is
  NoOne, MaxConnects, MaxTime

WorkspaceNames == {"Bash"}
\* A server answers with a page at least.
ASSUME SourcesAssumption ==
  /\ HasWorkspace \subseteq Runs /\ NoOne \notin Runs /\ TTL \in Nat
  /\ McpTools \in Seq(SUBSET STRING) \ {<<>>}

VARIABLES
  pc, doing,     \* where each run is, and in what: "list" or "call"
  tools,         \* the tools it has been listed: pairs of a name and a source
  called,        \* the name it calls, "" before
  routes,        \* CompositeToolSource._routes
  lock, session, \* MCPToolSource: who connects, the session held (0: none)
  mine, page,    \* the session each run works with, and the page it is at
  open, closing, \* the sessions that are open, and those that aclose took
  connects,      \* sessions opened so far
  vendor, now,   \* what the toolkit offers, and the time
  cache,         \* ComposioConnector._cached_tools, when they were so (history),
                 \* and _cache_expires_at
  fetch,         \* per run: when its fetch began, what was answered, and when
  account        \* per run: the account it connects, its owner and status, and
                 \* the status last read

runVars == <<pc, doing, tools, called>>
mcpVars == <<lock, session, mine, page, open, closing, connects>>
catalogVars == <<vendor, now, cache, fetch>>
vars == <<runVars, routes, mcpVars, catalogVars, account>>

NoAccount == [owner |-> NoOne, status |-> "", read |-> ""]
NoFetch == [began |-> 0, names |-> {}, at |-> 0]

Init ==
  /\ pc = [r \in Runs |-> "start"] /\ doing = [r \in Runs |-> "list"]
  /\ tools = [r \in Runs |-> {}] /\ called = [r \in Runs |-> ""]
  /\ routes = [n \in {} |-> ""]
  /\ lock = NoOne /\ session = 0 /\ open = {} /\ closing = {} /\ connects = 0
  /\ mine = [r \in Runs |-> 0] /\ page = [r \in Runs |-> 1]
  /\ vendor \in Catalogs /\ now = 0
  /\ cache = [names |-> {}, at |-> 0, expires |-> 0]
  /\ fetch = [r \in Runs |-> NoFetch] /\ account = [r \in Runs |-> NoAccount]

Go(r, to) == pc' = [pc EXCEPT ![r] = to]
Drop(f, r, nothing) == [f EXCEPT ![r] = nothing]
\* A run that ends keeps nothing.
End(r) ==
  /\ pc' = [pc EXCEPT ![r] = "ended"] /\ doing' = Drop(doing, r, "list")
  /\ tools' = Drop(tools, r, {}) /\ called' = Drop(called, r, "")
From(source, names) == {<<n, source>> : n \in names}
-----------------------------------------------------------------------------
\* A run lists its tools; listing starts with the server's.
List(r) ==
  /\ pc[r] = "start"
  /\ Go(r, "session")
  /\ UNCHANGED <<doing, tools, called, routes, mcpVars, catalogVars, account>>

\* Mutant: the session is looked for before the lock is taken.
MayConnect_Unlocked == session = 0

\* connect: whoever gets the lock looks again, and connects if nobody did.
MayConnect == session = 0 /\ lock = NoOne

Connect(r) ==
  /\ pc[r] = "session" /\ MayConnect /\ connects < MaxConnects
  /\ lock' = r
  /\ connects' = connects + 1 /\ open' = open \cup {connects + 1}
  /\ mine' = [mine EXCEPT ![r] = connects + 1]
  /\ Go(r, "connecting")
  /\ UNCHANGED <<doing, tools, called, routes, session, page, closing, catalogVars, account>>

Work(r) == Go(r, IF doing[r] = "list" THEN "page" ELSE "asking")

Connected(r) ==
  /\ pc[r] = "connecting"
  /\ lock' = NoOne /\ session' = mine[r]
  /\ Work(r)
  /\ UNCHANGED <<doing, tools, called, routes, mine, page, open, closing, connects, catalogVars, account>>

\* Mutant: a failure leaves the lock taken.
Released_IfConnected == lock
Released == NoOne

\* The server cannot be reached, or the run is cancelled: what was opened is
\* closed, and the lock released.
ConnectFails(r) ==
  /\ pc[r] = "connecting"
  /\ lock' = Released /\ open' = open \ {mine[r]}
  /\ mine' = Drop(mine, r, 0)
  /\ End(r)
  /\ UNCHANGED <<routes, session, page, closing, connects, catalogVars, account>>

\* _ensure_connected; past the bound of the instance, nobody can connect.
UseSession(r) ==
  /\ pc[r] = "session"
  /\ \/ /\ session # 0 /\ mine' = [mine EXCEPT ![r] = session]
        /\ Work(r) /\ UNCHANGED <<doing, tools, called>>
     \/ /\ session = 0 /\ lock = NoOne /\ connects = MaxConnects
        /\ End(r) /\ UNCHANGED mine
  /\ UNCHANGED <<routes, lock, session, page, open, closing, connects, catalogVars, account>>

\* A page of the server's tools; a session closed meanwhile raises.
ListPage(r) ==
  /\ pc[r] = "page"
  /\ IF mine[r] \notin open \ closing
     THEN End(r) /\ page' = Drop(page, r, 1) /\ mine' = Drop(mine, r, 0)
     ELSE /\ tools' = [tools EXCEPT ![r] = @ \cup From("mcp", McpTools[page[r]])]
          /\ IF page[r] < Len(McpTools)
             THEN page' = [page EXCEPT ![r] = @ + 1] /\ UNCHANGED <<pc, mine>>
             ELSE page' = Drop(page, r, 1) /\ mine' = Drop(mine, r, 0) /\ Go(r, "catalog")
          /\ UNCHANGED <<doing, called>>
  /\ UNCHANGED <<routes, lock, session, open, closing, connects, catalogVars, account>>

\* aclose, by the source's owner: the session is forgotten, then closed.
Close ==
  /\ session # 0
  /\ session' = 0 /\ closing' = closing \cup {session}
  /\ UNCHANGED <<runVars, routes, lock, mine, page, open, connects, catalogVars, account>>

Closed(s) ==
  /\ s \in closing
  /\ closing' = closing \ {s} /\ open' = open \ {s}
  /\ UNCHANGED <<runVars, routes, lock, session, mine, page, connects, catalogVars, account>>
-----------------------------------------------------------------------------
Warm == now < cache.expires

\* The toolkit's catalog comes from the cache, or a thread goes to fetch it.
ListCatalog(r) ==
  /\ pc[r] = "catalog"
  /\ IF Warm
     THEN /\ tools' = [tools EXCEPT ![r] = @ \cup From("composio", cache.names)]
          /\ Go(r, "merge") /\ UNCHANGED fetch
     ELSE /\ fetch' = [fetch EXCEPT ![r] = [NoFetch EXCEPT !.began = now]]
          /\ Go(r, "fetching") /\ UNCHANGED tools
  /\ UNCHANGED <<doing, called, routes, mcpVars, vendor, now, cache, account>>

VendorAnswers(r) ==
  /\ pc[r] = "fetching"
  /\ fetch' = [fetch EXCEPT ![r] = [began |-> @.began, names |-> vendor, at |-> now]]
  /\ Go(r, "fetched")
  /\ UNCHANGED <<doing, tools, called, routes, mcpVars, vendor, now, cache, account>>

VendorFails(r) ==
  /\ pc[r] = "fetching"
  /\ End(r) /\ fetch' = Drop(fetch, r, NoFetch)
  /\ UNCHANGED <<routes, mcpVars, vendor, now, cache, account>>

\* Mutant: the lifetime counts from the end of the fetch.
Expiry_FromNow(r) == now + TTL

\* Stamped before the fetch.
Expiry(r) == fetch[r].began + TTL

FetchReturns(r) ==
  /\ pc[r] = "fetched"
  /\ cache' = [names |-> fetch[r].names, at |-> fetch[r].at, expires |-> Expiry(r)]
  /\ tools' = [tools EXCEPT ![r] = @ \cup From("composio", fetch[r].names)]
  /\ fetch' = Drop(fetch, r, NoFetch)
  /\ Go(r, "merge")
  /\ UNCHANGED <<doing, called, routes, mcpVars, vendor, now, account>>
-----------------------------------------------------------------------------
Owned(pairs) == [n \in {p[1] : p \in pairs} |-> (CHOOSE p \in pairs : p[1] = n)[2]]

\* Mutant: a listing replaces the routes.
Merged_Replaced(pairs) == Owned(pairs)

\* The routes of other contexts stay.
Merged(pairs) ==
  LET owned == Owned(pairs) IN
  [n \in DOMAIN owned \cup DOMAIN routes |-> IF n \in DOMAIN owned THEN owned[n] ELSE routes[n]]

\* The source a call goes to runs it; a workspace's tools are modelled in
\* Workspaces.
Dispatch(r, name, to) ==
  IF name \notin DOMAIN to \/ to[name] = "workspace" THEN End(r)
  ELSE /\ Go(r, IF to[name] = "mcp" THEN "session" ELSE "executing")
       /\ doing' = [doing EXCEPT ![r] = "call"]
       /\ tools' = Drop(tools, r, {}) /\ called' = [called EXCEPT ![r] = name]

\* The end of list_tools: two sources with one name are refused, and routes
\* are merged. A call that was waiting for them goes on, or has no route.
EndListing(r) ==
  LET all == tools[r] \cup From("workspace", IF r \in HasWorkspace THEN WorkspaceNames ELSE {})
      collision == \E p, q \in all : p[1] = q[1] /\ p # q IN
  /\ pc[r] = "merge"
  /\ routes' = IF collision THEN routes ELSE Merged(all)
  /\ IF collision THEN End(r)
     ELSE IF called[r] # "" THEN Dispatch(r, called[r], Merged(all))
     ELSE Go(r, "ready") /\ tools' = [tools EXCEPT ![r] = all] /\ UNCHANGED <<doing, called>>
  /\ UNCHANGED <<mcpVars, catalogVars, account>>

\* execute: a run calls what it was listed; a caller that listed nothing may
\* call any name, and the sources are listed for it.
Call(r, name) ==
  /\ \/ pc[r] = "ready" /\ name \in {t[1] : t \in tools[r]}
     \/ pc[r] = "start"
  /\ IF name \in DOMAIN routes THEN Dispatch(r, name, routes)
     ELSE /\ Go(r, "session") /\ called' = [called EXCEPT ![r] = name]
          /\ tools' = Drop(tools, r, {}) /\ UNCHANGED doing
  /\ UNCHANGED <<routes, mcpVars, catalogVars, account>>

\* The server runs the tool, or its session was closed.
AskServer(r) ==
  /\ pc[r] = "asking"
  /\ End(r) /\ mine' = Drop(mine, r, 0)
  /\ UNCHANGED <<routes, lock, session, page, open, closing, connects, catalogVars, account>>

\* A warm catalog that lacks the name refuses it; otherwise the vendor answers.
AskVendor(r) ==
  /\ pc[r] = "executing"
  /\ IF Warm /\ called[r] \notin cache.names THEN End(r)
     ELSE Go(r, "vendor") /\ UNCHANGED <<doing, tools, called>>
  /\ UNCHANGED <<routes, mcpVars, catalogVars, account>>

VendorExecutes(r) ==
  /\ pc[r] = "vendor"
  /\ End(r)
  /\ UNCHANGED <<routes, mcpVars, catalogVars, account>>

\* ComposioConnector's _STATUS_MAP.
StatusMap ==
  [INITIALIZING |-> "pending", INITIATED |-> "pending", PENDING |-> "pending",
   ACTIVE |-> "active", FAILED |-> "failed", EXPIRED |-> "expired", INACTIVE |-> "failed"]

\* _to_status: what the map does not know has failed, so that nobody polls it
\* for ever.
ToStatus(raw) == IF raw \in DOMAIN StatusMap THEN StatusMap[raw] ELSE "failed"

\* initiate: an account of the run's user, or no id to poll.
Initiate(r) ==
  /\ pc[r] = "start"
  /\ \/ /\ account' = [account EXCEPT ![r].owner = r, ![r].status = "INITIATED"]
        /\ Go(r, "polling") /\ UNCHANGED <<doing, tools, called>>
     \/ End(r) /\ UNCHANGED account
  /\ UNCHANGED <<routes, mcpVars, catalogVars>>

\* adopt: an account made elsewhere, of anyone or of nobody known.
Adopt(r, owner, status) ==
  /\ pc[r] = "start"
  /\ account' = [account EXCEPT ![r].owner = owner, ![r].status = status]
  /\ Go(r, "polling")
  /\ UNCHANGED <<doing, tools, called, routes, mcpVars, catalogVars>>

\* check_status asks the vendor, in a thread.
ReadAccount(r) ==
  /\ pc[r] = "polling"
  /\ account' = [account EXCEPT ![r].read = account[r].status]
  /\ Go(r, "checking")
  /\ UNCHANGED <<doing, tools, called, routes, mcpVars, catalogVars>>

\* _check_ownership: an account that is someone else's is refused.
MayPoll(r) == account[r].owner \in {r, NoOne}

\* An account that is still pending is polled again.
CheckedStatus(r) ==
  /\ pc[r] = "checking"
  /\ IF MayPoll(r) /\ ToStatus(account[r].read) = "pending"
     THEN Go(r, "polling") /\ account' = [account EXCEPT ![r].read = ""]
          /\ UNCHANGED <<doing, tools, called>>
     ELSE End(r) /\ account' = Drop(account, r, NoAccount)
  /\ UNCHANGED <<routes, mcpVars, catalogVars>>

\* Its user finishes the connection, or the vendor gives it up.
Settles(r) ==
  /\ ToStatus(account[r].status) = "pending" /\ pc[r] \in {"polling", "checking"}
  /\ \E status \in Statuses :
       /\ ToStatus(status) # "pending"
       /\ account' = [account EXCEPT ![r].status = status]
  /\ UNCHANGED <<runVars, routes, mcpVars, catalogVars>>
-----------------------------------------------------------------------------
\* The toolkit changes, and time passes.
VendorChanges ==
  /\ vendor' \in Catalogs \ {vendor}
  /\ UNCHANGED <<runVars, routes, mcpVars, now, cache, fetch, account>>
Tick ==
  /\ now < MaxTime /\ now' = now + 1
  /\ UNCHANGED <<runVars, routes, mcpVars, vendor, cache, fetch, account>>

RunStep(r) ==
  \/ List(r) \/ Connect(r) \/ Connected(r) \/ ConnectFails(r) \/ UseSession(r) \/ ListPage(r)
  \/ ListCatalog(r) \/ VendorAnswers(r) \/ VendorFails(r) \/ FetchReturns(r)
  \/ EndListing(r) \/ AskServer(r) \/ AskVendor(r) \/ VendorExecutes(r)
  \/ \E name \in (UNION Catalogs) \cup WorkspaceNames \cup (UNION Range(McpTools)) : Call(r, name)
  \/ Initiate(r) \/ ReadAccount(r) \/ CheckedStatus(r)
  \/ \E owner \in Runs \cup {NoOne}, status \in Statuses : Adopt(r, owner, status)

Next ==
  \/ \E r \in Runs : RunStep(r) \/ Settles(r)
  \/ Close \/ \E s \in closing : Closed(s)
  \/ VendorChanges \/ Tick

\* Runs are tasks of one loop, servers answer or fail, and the vendor settles
\* an account; nobody has to close the source, and a run that listed its tools
\* calls one.
Spec == Init /\ [][Next]_vars /\ \A r \in Runs : WF_vars(RunStep(r)) /\ WF_vars(Settles(r))
-----------------------------------------------------------------------------
\* However first uses, failures and closes interleave, every open session is
\* the one held, the one being connected, or one being closed: no server
\* process is orphaned (_connect_lock).
SessionsAccounted ==
  open = ({session} \ {0}) \cup closing \cup {mine[r] : r \in {x \in Runs : pc[x] = "connecting"}}

\* While a run can still call what it was listed, each of its names is routed
\* to the source that listed it, whatever other contexts list meanwhile
\* (_routes is merged, not replaced).
RoutesStay ==
  \A r \in Runs : pc[r] = "ready" =>
    \A t \in tools[r] : t[1] \in DOMAIN routes /\ routes[t[1]] = t[2]

\* What the cache answers, a list or a refusal, was the toolkit's catalog no
\* longer than the TTL ago, even when an older fetch returns after a newer one.
CatalogIsFresh == Warm => now < cache.at + TTL

\* Nobody waits for the connection or a listing, or polls an account, for
\* ever: every run ends, also when the one that held the lock failed.
RunsEnd == <>(\A r \in Runs : pc[r] = "ended")
=============================================================================
